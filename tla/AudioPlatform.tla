---------------------------- MODULE AudioPlatform ----------------------------
(***************************************************************************)
(* CAudioPlatformState and the handlers of CAudioRouteManager that change  *)
(* it: what the framework and the modem tell the HAL, the telephony mode   *)
(* the routes are selected with (hwMode), the shared I2S bus, the wake-up  *)
(* of the volume keys, and the change events a routing pass reads and then *)
(* clears.  Every handler runs under the manager lock; the pass itself is  *)
(* the subject of AudioRouting and is one step here.  The modem runs       *)
(* beside it and only leaves messages in the queue of the event thread.    *)
(***************************************************************************)
EXTENDS Integers, FiniteSets, Sequences

CONSTANTS
    Devices,       \* output devices: the bits of _uiDevices[EOutput]
    InputDevices,  \* the input device masks in use
    Sources,       \* input sources
    NoSource,      \* input source 0
    Voip,          \* AUDIO_SOURCE_VOICE_COMMUNICATION
    Params,        \* the two-valued keys doSetParameters looks for
    MaxDirects,    \* bound on the direct streams
    MaxQueue,      \* bound on the messages of the event queue
    KeysMayFail    \* may sysfs refuse a write of VolumeKeys?

Modes == {"normal", "ringtone", "incall", "incomm"}
Bands == {"narrow", "wide"}
Messages == {"routing", "modemState", "modemAudio", "modemBand"}
Keys == {"down", "up"}
NamedEvents == {"outDevices", "inDevices", "inSource", "androidMode", "hwMode",
                "sharedBus", "modemState", "modemAudio", "band", "stream",
                "micMute"}

ASSUME PlatformAssumption ==
    /\ NoSource \in Sources /\ Voip \in Sources /\ Voip # NoSource
    /\ {} \in InputDevices
    /\ MaxDirects \in Nat /\ MaxQueue \in Nat \ {0}
    /\ KeysMayFail \in BOOLEAN
    /\ Params \cap NamedEvents = {}

VARIABLES
    alive, linked, band,     \* the modem: isModemAlive, isModemAudioAvailable,
                             \* getAudioBand
    queue,                   \* the messages sent to the event thread
    lock,                    \* "pass": held by a routing pass; else "free"
    androidMode, outDevices, inDevices, inputSource,
    modemAlive, modemAudio,  \* _bModemAlive, _bModemAudioAvailable
    csvBand, voipBand,       \* _eCsvBandType, _eVoipBandType
    params,                  \* the two-valued parameters
    micMute, directs,        \* _micMute, _uiDirectStreamsRefCount
    hwMode, glitchSafe,      \* _iHwMode, _bIsSharedI2SGlitchSafe
    events,                  \* _uiPlatformEventChanged
    wakeup, keys,            \* _bWakeupEnabled, and the keys enabled in sysfs
    refused                  \* history: the last write to sysfs has failed

modemVars == <<alive, linked, band>>
bandVars == <<csvBand, voipBand>>
paramVars == <<params, directs>>
inVars == <<inDevices, inputSource>>
outVars == <<androidMode, outDevices>>
hwVars == <<hwMode, glitchSafe, wakeup, keys, refused>>
vars == <<modemVars, queue, lock, outVars, inVars, modemAlive, modemAudio,
          bandVars, paramVars, micMute, hwVars, events>>

If(cond, e) == IF cond THEN {e} ELSE {}

-----------------------------------------------------------------------------
(* The hardware mode.                                                      *)

\* The condition of checkHwMode for MODE_IN_CALL: the call cannot be routed.
CallBarred(devs, up, audio) == Cardinality(devs) > 1 \/ ~up \/ ~audio

HwModeOf(mode, devs, up, audio) ==
    IF \/ mode = "incall" /\ CallBarred(devs, up, audio)
       \/ mode = "incomm" /\ Cardinality(devs) > 1
    THEN "normal" ELSE mode

GlitchSafeOf(mode, devs, up, audio) ==
    ~(mode = "incall" /\ CallBarred(devs, up, audio))

SwitchWakeup_EnableOnly(on) ==
    IF on THEN wakeup' = TRUE /\ keys' = Keys /\ refused' = FALSE
    ELSE UNCHANGED <<wakeup, keys, refused>>

\* CVolumeKeys::wakeupEnable, wakeupDisable: nothing to do when the flag says
\* so; a failed or partial write leaves the flag as it was.
SwitchWakeup(on) ==
    IF wakeup = on THEN UNCHANGED <<wakeup, keys, refused>>
    ELSE \/ /\ wakeup' = on /\ refused' = FALSE
            /\ keys' = IF on THEN Keys ELSE {}
         \/ /\ KeysMayFail
            /\ wakeup' = wakeup /\ refused' = TRUE
            /\ \E S \in SUBSET Keys : keys' = IF on THEN keys \cup S ELSE keys \ S

\* updateHwMode and checkHwMode, after the mode, devices and modem are stored.
UpdateHwMode(raised) ==
    /\ hwMode' = HwModeOf(androidMode', outDevices', modemAlive', modemAudio')
    /\ glitchSafe' = GlitchSafeOf(androidMode', outDevices', modemAlive', modemAudio')
    /\ events' = events \cup raised \cup If(hwMode' # hwMode, "hwMode")
                        \cup If(glitchSafe' # glitchSafe, "sharedBus")
    /\ IF hwMode' # hwMode THEN SwitchWakeup(hwMode' = "incall")
       ELSE UNCHANGED <<wakeup, keys, refused>>

\* isSharedI2SBusAvailable, on a platform with a modem
SharedBusAvailable_NoModem == glitchSafe
SharedBusAvailable == modemAlive /\ glitchSafe

\* setBandType: the event is raised when the band of the current mode changes.
BandTypeOf(csv, voip) == IF hwMode = "incomm" THEN voip ELSE csv
BandEvent(csv, voip) ==
    If(BandTypeOf(csv, voip) # BandTypeOf(csvBand, voipBand), "band")

-----------------------------------------------------------------------------
Init ==
    /\ alive \in BOOLEAN /\ linked \in BOOLEAN /\ (linked => alive)
    /\ band \in Bands
    \* startModemAudioManager has read the modem's state in normal mode
    /\ modemAlive = alive /\ modemAudio = linked /\ csvBand = band
    /\ queue = <<>> /\ lock = "free"
    /\ androidMode = "normal" /\ hwMode = "normal"
    /\ glitchSafe = alive
    /\ events = If(alive, "modemState") \cup If(alive, "sharedBus")
                \cup If(linked, "modemAudio") \cup If(band # "narrow", "band")
    /\ outDevices = {} /\ inDevices = {} /\ inputSource = NoSource
    /\ voipBand = "narrow"
    /\ params = [p \in Params |-> FALSE]
    /\ micMute = FALSE /\ directs = 0
    /\ wakeup = FALSE /\ keys = {} /\ refused = FALSE

-----------------------------------------------------------------------------
(* The callers of the framework, all under the manager lock.               *)

\* reconsiderRouting: trig(EUpdateRouting)
Reconsider == queue' = Append(queue, "routing")

\* The events setStreamParameters reconsiders the routing for.
RoutingEvents_NoSource == {"outDevices", "inDevices", "stream", "androidMode",
                           "hwMode"}
RoutingEvents == {"outDevices", "inDevices", "stream", "inSource",
                  "androidMode", "hwMode"}
ReconsiderIf(cond) ==
    /\ Len(queue) < MaxQueue
    /\ IF cond THEN Reconsider ELSE UNCHANGED queue

\* setStreamParameters with a routing key, for an output stream
SetOutputParameters(devs, mode) ==
    /\ lock = "free"
    /\ outDevices' = devs
    /\ androidMode' = mode
    /\ UNCHANGED <<modemAlive, modemAudio>>
    /\ UpdateHwMode(If(devs # outDevices, "outDevices")
                    \cup If(mode # androidMode, "androidMode"))
    /\ ReconsiderIf(events' \cap RoutingEvents # {})
    /\ UNCHANGED <<modemVars, lock, inVars, bandVars, paramVars, micMute>>

\* setStreamParameters for an input stream: the source of a null device is
\* none, and a VoIP stream sets the band of its sample rate.  A call without
\* keyInputSource is one with the source and the band of the platform.
SetInputParameters(devs, src, rate) ==
    LET source == IF devs = {} THEN NoSource ELSE src
        voip == IF src = Voip THEN rate ELSE voipBand
    IN  /\ lock = "free"
        /\ inDevices' = devs
        /\ inputSource' = source
        /\ voipBand' = voip
        /\ UNCHANGED <<outVars, modemAlive, modemAudio, csvBand>>
        /\ UpdateHwMode(If(devs # inDevices, "inDevices")
                        \cup If({src, source} # {inputSource}, "inSource")
                        \cup BandEvent(csvBand, voip))
        /\ ReconsiderIf(events' \cap RoutingEvents # {})
        /\ UNCHANGED <<modemVars, lock, paramVars, micMute>>

\* doSetParameters: values holds the parameters after the call, flags is the
\* value of keyStreamFlags, "none" when the key is absent.
DirectsAfter_NoFloor(flags) ==
    CASE flags = "direct" -> directs + 1
      [] flags = "other" -> directs - 1
      [] OTHER -> directs
DirectsAfter(flags) ==
    CASE flags = "direct" -> directs + 1
      [] flags = "other" -> IF directs > 0 THEN directs - 1 ELSE 0
      [] OTHER -> directs

\* setTtyDirection, setHacMode, ..., bypassLinearPp: each setter raises its own
\* event when its value changes.
ChangedParams(values) == {p \in Params : values[p] # params[p]}

SetParameters(values, flags) ==
    /\ lock = "free"
    /\ params' = values
    /\ directs' = DirectsAfter(flags)
    /\ directs' <= MaxDirects
    /\ events' = events \cup ChangedParams(values)
                        \cup If((directs = 0) # (directs' = 0), "stream")
    /\ ReconsiderIf(events' # {})
    /\ UNCHANGED <<modemVars, lock, outVars, inVars, modemAlive, modemAudio,
                   bandVars, micMute, hwVars>>

\* setMicMute: the caller runs the pass itself.
SetMicMute(state) ==
    /\ lock = "free"
    /\ lock' = "pass"
    /\ micMute' = state
    /\ events' = events \cup If(state # micMute, "micMute")
    /\ UNCHANGED <<modemVars, queue, outVars, inVars, modemAlive, modemAudio,
                   bandVars, paramVars, hwVars>>

-----------------------------------------------------------------------------
(* The modem.  Its audio link is down when it is; the observer callbacks   *)
(* only send messages, in the thread of the modem manager.                 *)

\* onModemStateChanged, onModemAudioStatusChanged: every change has its message.
Sent_OneWaiting(changed, message) ==
    IF changed /\ \A i \in DOMAIN queue : queue[i] \notin {"modemState", "modemAudio"}
    THEN <<message>> ELSE <<>>
Sent(changed, message) == IF changed THEN <<message>> ELSE <<>>

ModemChanges(up, audio) ==
    /\ up # alive \/ audio # linked
    /\ audio => up
    /\ alive' = up /\ linked' = audio
    /\ queue' = queue \o Sent(up # alive, "modemState") \o Sent(audio # linked, "modemAudio")
    /\ Len(queue') <= MaxQueue   \* bound
    /\ UNCHANGED <<band, lock, outVars, inVars, modemAlive, modemAudio, bandVars,
                   paramVars, micMute, hwVars, events>>

ModemBandChanges ==
    /\ Len(queue) < MaxQueue
    /\ \E b \in Bands \ {band} : band' = b
    /\ queue' = Append(queue, "modemBand")
    /\ UNCHANGED <<alive, linked, lock, outVars, inVars, modemAlive, modemAudio,
                   bandVars, paramVars, micMute, hwVars, events>>

-----------------------------------------------------------------------------
(* The event thread: onProcess.  It reads the modem as it is now, not as it *)
(* was when the message was sent.                                           *)

Take(message) ==
    /\ lock = "free"
    /\ queue # <<>> /\ Head(queue) = message
    /\ queue' = Tail(queue)
    /\ lock' = "pass"

UpdateRouting ==
    /\ Take("routing")
    /\ UNCHANGED <<modemVars, outVars, inVars, modemAlive, modemAudio, bandVars,
                   paramVars, micMute, hwVars, events>>

\* setModemAlive: the audio link falls with the modem.
AudioAfterState == modemAudio /\ (alive \/ ~modemAlive)

UpdateModemState ==
    /\ Take("modemState")
    /\ modemAlive' = alive
    /\ modemAudio' = AudioAfterState
    /\ UNCHANGED <<modemVars, outVars, inVars, bandVars, paramVars, micMute>>
    /\ IF alive # modemAlive THEN UpdateHwMode({"modemState"})
       ELSE UNCHANGED <<hwVars, events>>

\* setModemAudioAvailable
UpdateModemAudioStatus_KeepMode ==
    /\ Take("modemAudio")
    /\ modemAudio' = linked
    /\ events' = events \cup If(linked # modemAudio, "modemAudio")
    /\ UNCHANGED <<modemVars, outVars, inVars, modemAlive, bandVars, paramVars,
                   micMute, hwVars>>

UpdateModemAudioStatus ==
    /\ Take("modemAudio")
    /\ modemAudio' = linked
    /\ UNCHANGED <<modemVars, outVars, inVars, modemAlive, bandVars, paramVars,
                   micMute>>
    /\ IF linked # modemAudio THEN UpdateHwMode({"modemAudio"})
       ELSE UNCHANGED <<hwVars, events>>

\* setBandType(getAudioBand(), MODE_IN_CALL)
UpdateModemAudioBand ==
    /\ Take("modemBand")
    /\ csvBand' = band
    /\ events' = events \cup BandEvent(band, voipBand)
    /\ UNCHANGED <<modemVars, outVars, inVars, modemAlive, modemAudio, voipBand,
                   paramVars, micMute, hwVars>>

\* doReconsiderRouting ends with clearPlatformStateEvents.
EndPass ==
    /\ lock = "pass"
    /\ lock' = "free"
    /\ events' = {}
    /\ UNCHANGED <<modemVars, queue, outVars, inVars, modemAlive, modemAudio,
                   bandVars, paramVars, micMute, hwVars>>

-----------------------------------------------------------------------------
Caller ==
    \/ \E devs \in SUBSET Devices, mode \in Modes : SetOutputParameters(devs, mode)
    \/ \E devs \in InputDevices, src \in Sources, rate \in Bands :
         SetInputParameters(devs, src, rate)
    \/ \E values \in [Params -> BOOLEAN], flags \in {"none", "direct", "other"} :
         SetParameters(values, flags)
    \/ \E state \in BOOLEAN : SetMicMute(state)
Modem == ModemBandChanges \/ \E up, audio \in BOOLEAN : ModemChanges(up, audio)
Worker == UpdateRouting \/ UpdateModemState \/ UpdateModemAudioStatus
          \/ UpdateModemAudioBand \/ EndPass
Next == Caller \/ Modem \/ Worker
Spec == Init /\ [][Next]_vars

-----------------------------------------------------------------------------
(* Properties.                                                             *)

\* Every variable has its type.
TypeOK ==
    /\ alive \in BOOLEAN /\ linked \in BOOLEAN /\ band \in Bands
    /\ queue \in Seq(Messages)
    /\ lock \in {"free", "pass"}
    /\ androidMode \in Modes /\ hwMode \in Modes
    /\ outDevices \subseteq Devices
    /\ inDevices \in InputDevices /\ inputSource \in Sources
    /\ modemAlive \in BOOLEAN /\ modemAudio \in BOOLEAN
    /\ csvBand \in Bands /\ voipBand \in Bands
    /\ params \in [Params -> BOOLEAN]
    /\ micMute \in BOOLEAN /\ directs \in 0..MaxDirects
    /\ glitchSafe \in BOOLEAN
    /\ events \subseteq Params \cup NamedEvents
    /\ wakeup \in BOOLEAN /\ keys \subseteq Keys /\ refused \in BOOLEAN

\* The cached hardware mode, with which the routes are selected, is never
\* stale, whatever the order in which the call, the devices and the modem
\* change: it is what checkHwMode would compute now.
HwModeFollows == hwMode = HwModeOf(androidMode, outDevices, modemAlive, modemAudio)

\* The shared I2S bus is given to a route exactly when the modem is up and no
\* call is being set up on it ("Modem must be up", "A call is being set but
\* modem audio status is still inactive"), although the flag is only
\* refreshed when a mode is checked.
SharedBusFollows ==
    SharedBusAvailable <=>
        modemAlive /\ GlitchSafeOf(androidMode, outDevices, modemAlive, modemAudio)

\* The volume keys wake the device up during a call that is routed and at no
\* other time, unless sysfs has refused a write and taken none since; and the
\* flag is wrong only after a refusal.
VolumeKeysFollow ==
    ~refused => /\ wakeup = (hwMode = "incall")
                /\ keys = IF hwMode = "incall" THEN Keys ELSE {}

\* What the platform state says of the modem is the modem's state, or a message
\* that will correct it is in the queue: no order of the callbacks, read late,
\* leaves the manager with an old status.
ModemStatusTracked ==
    /\ modemAlive # alive => \E i \in DOMAIN queue : queue[i] = "modemState"
    /\ modemAudio # linked => \E i \in DOMAIN queue : queue[i] = "modemAudio"
    /\ csvBand # band => \E i \in DOMAIN queue : queue[i] = "modemBand"

\* No change that selects routes is left without a pass: once the lock is free
\* and an event that setStreamParameters or setParameters watches is pending,
\* an EUpdateRouting message is in the queue.
WatchedEvents == Params \cup (NamedEvents \ {"band", "modemState", "modemAudio",
                                            "sharedBus"})
NoForgottenChange ==
    lock = "free" /\ events \cap WatchedEvents # {} =>
        \E i \in DOMAIN queue : queue[i] = "routing"

\* "Process pending platform changes": when setStreamParameters changes the
\* band the platform works in, it asks for a pass that applies the band.
BandChangeProcessed ==
    [][lock' = "free" /\ "band" \in events' \ events => queue' # <<>>]_vars
=============================================================================
