--------------------------- MODULE MCPlatformRouting ---------------------------
(***************************************************************************)
(* Every platform.  A device of each kind that a table tells apart, also    *)
(* two outputs at once, in the modes they are selected for; the sources a  *)
(* policy opens the input with.                                            *)
(***************************************************************************)
EXTENDS PlatformRouting

SelectedFor(modes, masks) == {[devices |-> c[2], mode |-> c[1]] : c \in modes \X masks}
OutputsDef ==
    SelectedFor({"normal"}, {{"speaker"}, {"speaker", "headset"}})
    \cup SelectedFor({"incall"}, {{"speaker"}, {"headset"}, {"headphone"}, {"sco"}})
    \cup SelectedFor({"incomm"}, {{"headset"}, {"sco"}})
StreamsDef == {{}, {"primary", "deep"}}
ToggledDef ==
    {"modemAlive", "modemAudio", "bt", "sco", "fm", "context", "listen", "micMute",
     "direct", "hac"}
InputsDef == {Idle} \cup
    {[devices |-> {c[1]}, source |-> c[2]] :
        c \in {<<"builtinMic", "mic">>, <<"scoMic", "voip">>, <<"voiceCall", "uplink">>}}
=============================================================================
