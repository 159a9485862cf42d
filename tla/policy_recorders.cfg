SPECIFICATION Spec
CONSTANTS
    Sources = {"mic", "recognition", "voip", "hotword", "call"}
    Plugs = {"none", "headsetMic"}
    MaxInputs = 3
INVARIANT AlwaysOneRecorder
