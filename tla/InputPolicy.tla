----------------------------- MODULE InputPolicy -----------------------------
(***************************************************************************)
(* Who records: the inputs of AudioPolicyManagerALSA.  Clients open        *)
(* inputs, start, stop and release them; a start may be refused, may stop  *)
(* the input that records, or may be granted beside it; a release gives    *)
(* the source back to an input that was started before.  The base class    *)
(* (AudioPolicyManagerBase) is not in the repository: its part is modelled *)
(* from what this class relies on.                                         *)
(***************************************************************************)
EXTENDS Integers, FiniteSets, FiniteSetsExt

CONSTANTS
    Sources,    \* the sources inputs are opened with
    Plugs,      \* the external microphones that may be plugged, with "none"
    MaxInputs   \* bound on the inputs ever opened

Voip == "voip"        \* AUDIO_SOURCE_VOICE_COMMUNICATION
Hotword == "hotword"  \* AUDIO_SOURCE_HOTWORD
Vcr == "call"         \* AUDIO_SOURCE_VOICE_UPLINK, _DOWNLINK, _CALL
MediaMics == {"builtinMic", "headsetMic", "scoMic"}
VoiceCall == "voiceCall"
NoDevice == "none"

ASSUME PolicyAssumption ==
    /\ Sources \subseteq {"mic", "camcorder", "recognition", Voip, Hotword, Vcr}
    /\ "none" \in Plugs /\ Plugs \subseteq {"none", "headsetMic", "scoMic"}
    /\ MaxInputs \in Nat

VARIABLES
    inputs,   \* mInputs: what is known of each open input
    opened,   \* how many were ever opened; a handle is a number
    seen,     \* history: the sources they were opened with
    clients,  \* the inputs whose client has not released them
    wanted,   \* history: the inputs a client was granted and has not stopped
    inComm,   \* mPhoneState = MODE_IN_COMMUNICATION
    speaker,  \* getForceUse(FOR_COMMUNICATION) = FORCE_SPEAKER
    plug,     \* the external microphone that is available
    told      \* the device and the source the HAL stream was last given

clientVars == <<opened, seen, clients>>
phoneVars == <<inComm, speaker, plug>>
vars == <<inputs, clientVars, wanted, phoneVars, told>>

Handles == 1..MaxInputs
Order(device, source) == [device |-> device, source |-> source]
Silent == Order(NoDevice, "none")

-----------------------------------------------------------------------------
(* Devices.                                                                *)

\* AudioPolicyManagerBase::getDeviceForInputSource
BaseDevice(source, mic) ==
    IF source = Vcr THEN VoiceCall ELSE IF mic = "none" THEN "builtinMic" ELSE mic

\* getDeviceForInputSource: "force usage to speaker during a VoIP call for some
\* VoIP apps using AUDIO_SOURCE_MIC"
DeviceIf(source, comm, loud, mic) ==
    IF source = "mic" /\ comm /\ loud THEN "builtinMic" ELSE BaseDevice(source, mic)
DeviceFor(source) == DeviceIf(source, inComm, speaker, plug)

-----------------------------------------------------------------------------
(* What the calls do to the open inputs and their streams: a record of     *)
(* both, because a start may stop and release others on its way.           *)

Now == [inputs |-> inputs, told |-> told]
Become(x) == inputs' = x.inputs /\ told' = x.told

Active(x) == {h \in DOMAIN x.inputs : x.inputs[h].active}
\* getActiveInput: the first one
ActiveInput(x) == Min(Active(x))

\* AudioPolicyManagerBase::stopInput
Stopped(x, h) ==
    IF h \notin Active(x) THEN x
    ELSE [inputs |-> [x.inputs EXCEPT ![h].active = FALSE],
          told |-> [x.told EXCEPT ![h] = Silent]]

\* AudioPolicyManagerBase::releaseInput, which closes the stream
Closed(x, h) ==
    [inputs |-> [g \in DOMAIN x.inputs \ {h} |-> x.inputs[g]],
     told |-> [x.told EXCEPT ![h] = Silent]]

\* releaseInput: "the input source will be given back to the latest stopped
\* input", with the device and the source it has.
Restartable_Last(x) == {h \in {Max(DOMAIN x.inputs)} : x.inputs[h].started}
Restartable(x) == {h \in DOMAIN x.inputs : x.inputs[h].started}
GivenBack_Always(x) ==
    IF Restartable(x) = {} THEN x
    ELSE [x EXCEPT !.inputs[Max(Restartable(x))].active = TRUE]
GivenBack(x) ==
    IF Active(x) # {} \/ DOMAIN x.inputs = {} \/ Restartable(x) = {} THEN x
    ELSE LET h == Max(Restartable(x))
             order == Order(x.inputs[h].device, x.inputs[h].source)
         IN  [inputs |-> [x.inputs EXCEPT ![h].active = TRUE],
              told |-> [x.told EXCEPT ![h] = order]]
Released(x, h) == GivenBack(Closed(x, h))

\* startInput, "stop the current active input to enable requested input start
\* in the following situations"
Preempts_Voip(active, new) ==
    active.device \in MediaMics /\ (new.device = VoiceCall \/ new.source = Voip)
Preempts(active, new) ==
    /\ active.device \in MediaMics /\ active.source # Voip
    /\ new.device = VoiceCall \/ new.source = Voip
Beside_Never(active, new) == FALSE
Beside(active, new) == active.device = VoiceCall /\ new.source = Voip
SameSource(active, new) == active.source = new.source

Yields(active, new) ==
    \/ Preempts(active, new) \/ Beside(active, new) \/ SameSource(active, new)
    \/ active.source = Hotword

\* The state in which h is started, when the active input a yields
MadeWay(x, a, h) ==
    LET active == x.inputs[a] new == x.inputs[h]
    IN  CASE Preempts(active, new) -> Stopped(x, a)
          [] ~Preempts(active, new) /\ Beside(active, new) -> x
          [] OTHER -> IF SameSource(active, new) THEN Stopped(x, a)
                      ELSE Released(Stopped(x, a), a)

Alias(source) == IF source = Hotword THEN "recognition" ELSE source
Started(x, h) ==
    LET source == x.inputs[h].source
        device == DeviceFor(source)
    IN  [inputs |-> [x.inputs EXCEPT ![h] =
                       [@ EXCEPT !.device = device, !.active = TRUE, !.started = TRUE]],
         told |-> [x.told EXCEPT ![h] = Order(device, Alias(source))]]

-----------------------------------------------------------------------------
Init ==
    /\ inputs = [h \in {} |-> Silent] /\ opened = 0 /\ seen = {}
    /\ clients = {} /\ wanted = {}
    /\ inComm = FALSE /\ speaker = FALSE /\ plug = "none"
    /\ told = [h \in Handles |-> Silent]

\* getInput, when the stream opens with the parameters asked for
GetInput(source) ==
    /\ opened < MaxInputs
    /\ opened' = opened + 1
    /\ inputs' = [h \in DOMAIN inputs \cup {opened + 1} |->
                    IF h = opened + 1
                    THEN [source |-> source, device |-> DeviceFor(source),
                          active |-> FALSE, started |-> FALSE]
                    ELSE inputs[h]]
    /\ clients' = clients \cup {opened + 1}
    /\ seen' = seen \cup {source}
    /\ UNCHANGED <<wanted, phoneVars, told>>

Granted(h) == Active(Now) = {} \/ Yields(inputs[ActiveInput(Now)], inputs[h])

\* startInput: granted, or refused with INVALID_OPERATION (or BAD_VALUE, when
\* the policy has released the input)
StartInput(h) ==
    /\ h \in clients
    /\ IF h \in DOMAIN inputs /\ Granted(h)
       THEN /\ Become(Started(IF Active(Now) = {} THEN Now
                              ELSE MadeWay(Now, ActiveInput(Now), h), h))
            /\ wanted' = wanted \cup {h}
       ELSE UNCHANGED <<inputs, told, wanted>>
    /\ UNCHANGED <<clientVars, phoneVars>>

StopInput(h) ==
    /\ h \in clients /\ h \in wanted
    /\ IF h \in DOMAIN inputs THEN Become(Stopped(Now, h)) ELSE UNCHANGED <<inputs, told>>
    /\ wanted' = wanted \ {h}
    /\ UNCHANGED <<clientVars, phoneVars>>

ReleaseInput(h) ==
    /\ h \in clients /\ h \notin wanted
    /\ Become(Released(Now, h))
    /\ clients' = clients \ {h}
    /\ UNCHANGED <<opened, seen, wanted, phoneVars>>

-----------------------------------------------------------------------------
(* The phone.  The base class moves the active input to its new device.    *)

\* setPhoneState
SetPhoneState ==
    /\ inComm' = ~inComm
    /\ UNCHANGED <<inputs, clientVars, wanted, speaker, plug, told>>

Reroute(loud, mic) ==
    LET h == ActiveInput(Now)
        device == DeviceIf(inputs[h].source, inComm, loud, mic)
    IN  IF Active(Now) = {} THEN UNCHANGED <<inputs, told>>
        ELSE /\ inputs' = [inputs EXCEPT ![h].device = device]
             /\ told' = IF device = inputs[h].device THEN told
                        ELSE [told EXCEPT ![h].device = device]

SetForceUse ==
    /\ Reroute(~speaker, plug)
    /\ speaker' = ~speaker
    /\ UNCHANGED <<clientVars, wanted, inComm, plug>>

SetDeviceConnectionState(mic) ==
    /\ mic # plug
    /\ Reroute(speaker, mic)
    /\ plug' = mic
    /\ UNCHANGED <<clientVars, wanted, inComm, speaker>>

Next ==
    \/ \E source \in Sources : GetInput(source)
    \/ \E h \in Handles : StartInput(h) \/ StopInput(h) \/ ReleaseInput(h)
    \/ SetPhoneState \/ SetForceUse
    \/ \E mic \in Plugs : SetDeviceConnectionState(mic)
Spec == Init /\ [][Next]_vars

-----------------------------------------------------------------------------
(* Properties.                                                             *)

Open(source) == {h \in DOMAIN inputs : inputs[h].source = source}
MayShare(g, h) == {inputs[g].source, inputs[h].source} = {Voip, Vcr}

\* One input records, and a VoIP call beside the recording of a voice call, "one
\* special case": over every order of starts, stops and releases, as long as no
\* two VoIP inputs are open and no hotword is preempted.
OneRecorder ==
    Hotword \notin seen /\ Cardinality(Open(Voip)) <= 1 =>
        \A g, h \in Active(Now) : g # h => MayShare(g, h)

\* The same with no condition.
AlwaysOneRecorder == \A g, h \in Active(Now) : g # h => MayShare(g, h)

\* A VoIP call that records is silenced by its client or by a later VoIP call,
\* whatever else is started, stopped and released.
VoipKept ==
    [][\A h \in Active(Now) \cap Open(Voip) :
         \/ h \in DOMAIN inputs' /\ inputs'[h].active
         \/ h \notin wanted'
         \/ \E g \in Open(Voip) \ {h} : StartInput(g)]_vars

\* A VoIP call is never refused the microphone, whoever records and in
\* whatever order the inputs were started, stopped and given back.
VoipGranted == \A h \in Open(Voip) : Granted(h)

\* "There is a previously stopped input. In this case the input source will be
\* given back": after a release, if an input is left whose client still
\* expects to record, somebody records.
SourceGivenBack ==
    [][(\E h \in clients : ReleaseInput(h)) /\ wanted' \cap DOMAIN inputs' # {}
          => Active(Now)' # {}]_vars

\* "Check again input device selection when capture starts in case conditions
\* have changed since the input stream was opened": an input that begins to
\* record does so from the device that is selected now.
StartsOnSelectedDevice ==
    [][\A h \in Active(Now)' \ Active(Now) :
         inputs'[h].device = DeviceFor(inputs'[h].source)]_vars
=============================================================================
