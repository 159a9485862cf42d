------------------------ MODULE AudioPlatformProofs ------------------------
(***************************************************************************)
(* Theorems about AudioPlatform, for every set of devices, sources and     *)
(* parameters, every queue length and every choice of failures.            *)
(***************************************************************************)
EXTENDS AudioPlatform, TLAPS

-----------------------------------------------------------------------------
(* Lemmas on the helpers.                                                  *)

\* The mode computed by checkHwMode is a telephony mode.
LEMMA HwModeType ==
    ASSUME NEW mode \in Modes, NEW devs, NEW up, NEW audio
    PROVE  HwModeOf(mode, devs, up, audio) \in Modes
           /\ GlitchSafeOf(mode, devs, up, audio) \in BOOLEAN
BY DEF HwModeOf, GlitchSafeOf, Modes

\* Whether the write of the keys fails or not, flag and keys have their type.
LEMMA SwitchWakeupType ==
    ASSUME TypeOK, NEW on \in BOOLEAN, SwitchWakeup(on)
    PROVE  wakeup' \in BOOLEAN /\ keys' \subseteq Keys /\ refused' \in BOOLEAN
<1>1. wakeup \in BOOLEAN /\ keys \subseteq Keys /\ refused \in BOOLEAN
  BY DEF TypeOK
<1> QED BY <1>1 DEF SwitchWakeup

\* updateHwMode refreshes the mode and the shared-bus flag from the new inputs
\* and only adds events to the pending ones.
LEMMA UpdateHwModeEffect ==
    ASSUME TypeOK, NEW raised, raised \subseteq Params \cup NamedEvents,
           androidMode' \in Modes, UpdateHwMode(raised)
    PROVE  /\ hwMode' = HwModeOf(androidMode', outDevices', modemAlive', modemAudio')
           /\ glitchSafe' = GlitchSafeOf(androidMode', outDevices', modemAlive',
                                         modemAudio')
           /\ hwMode' \in Modes /\ glitchSafe' \in BOOLEAN
           /\ wakeup' \in BOOLEAN /\ keys' \subseteq Keys /\ refused' \in BOOLEAN
           /\ events' \subseteq Params \cup NamedEvents
           /\ events \subseteq events'
           /\ events' \subseteq events \cup raised \cup {"hwMode", "sharedBus"}
<1>1. /\ hwMode' = HwModeOf(androidMode', outDevices', modemAlive', modemAudio')
      /\ glitchSafe' = GlitchSafeOf(androidMode', outDevices', modemAlive',
                                    modemAudio')
      /\ events' = events \cup raised \cup If(hwMode' # hwMode, "hwMode")
                          \cup If(glitchSafe' # glitchSafe, "sharedBus")
  BY DEF UpdateHwMode
<1>2. wakeup' \in BOOLEAN /\ keys' \subseteq Keys /\ refused' \in BOOLEAN
  <2>1. CASE hwMode' # hwMode
    <3>1. SwitchWakeup(hwMode' = "incall")
      BY <2>1 DEF UpdateHwMode
    <3> QED BY <3>1, SwitchWakeupType
  <2>2. CASE hwMode' = hwMode
    BY <2>2 DEF UpdateHwMode, TypeOK
  <2> QED BY <2>1, <2>2
<1>3. If(hwMode' # hwMode, "hwMode") \subseteq {"hwMode"}
      /\ If(glitchSafe' # glitchSafe, "sharedBus") \subseteq {"sharedBus"}
  BY DEF If
<1>4. events \subseteq Params \cup NamedEvents
      /\ {"hwMode", "sharedBus"} \subseteq NamedEvents
  BY DEF TypeOK, NamedEvents
<1> QED BY <1>1, <1>2, <1>3, <1>4, HwModeType

\* reconsiderRouting appends one message, if any.
LEMMA ReconsiderType ==
    ASSUME TypeOK, NEW cond, ReconsiderIf(cond)
    PROVE  /\ queue' \in Seq(Messages)
           /\ cond => queue' = Append(queue, "routing")
           /\ ~cond => queue' = queue
<1>1. queue \in Seq(Messages) /\ "routing" \in Messages
  BY DEF TypeOK, Messages
<1> QED BY <1>1 DEF ReconsiderIf, Reconsider

\* The event thread takes a message of the queue.
LEMMA TakeType ==
    ASSUME TypeOK, NEW message, Take(message)
    PROVE  queue' \in Seq(Messages) /\ lock' = "pass"
<1>1. queue \in Seq(Messages) /\ queue # <<>>
  BY DEF TypeOK, Take
<1> QED BY <1>1 DEF Take

-----------------------------------------------------------------------------
(* Type correctness.                                                       *)

\* Every handler keeps the types.
LEMMA TypeNext ==
    ASSUME TypeOK, [Next]_vars
    PROVE  TypeOK'
<1> USE DEF bandVars, paramVars, inVars, outVars, hwVars, modemVars
<1>1. ASSUME NEW devs \in SUBSET Devices, NEW mode \in Modes,
             SetOutputParameters(devs, mode)
      PROVE  TypeOK'
  <2> DEFINE raised == If(devs # outDevices, "outDevices")
                       \cup If(mode # androidMode, "androidMode")
  <2>1. raised \subseteq Params \cup NamedEvents
    BY DEF If, NamedEvents
  <2>2. UpdateHwMode(raised) /\ androidMode' = mode
        /\ ReconsiderIf(events' \cap RoutingEvents # {})
    BY <1>1 DEF SetOutputParameters
  <2> HIDE DEF raised
  <2>3. /\ hwMode' \in Modes /\ glitchSafe' \in BOOLEAN
        /\ wakeup' \in BOOLEAN /\ keys' \subseteq Keys /\ refused' \in BOOLEAN
        /\ events' \subseteq Params \cup NamedEvents
    BY <2>1, <2>2, UpdateHwModeEffect
  <2>4. queue' \in Seq(Messages)
    BY <2>2, ReconsiderType
  <2> QED BY <1>1, <2>3, <2>4 DEF SetOutputParameters, TypeOK
<1>2. ASSUME NEW devs \in InputDevices, NEW src \in Sources, NEW rate \in Bands,
             SetInputParameters(devs, src, rate)
      PROVE  TypeOK'
  <2> DEFINE source == IF devs = {} THEN NoSource ELSE src
             voip == IF src = Voip THEN rate ELSE voipBand
             raised == If(devs # inDevices, "inDevices")
                        \cup If({src, source} # {inputSource}, "inSource")
                        \cup BandEvent(csvBand, voip)
  <2>1. raised \subseteq Params \cup NamedEvents
    BY DEF If, NamedEvents, BandEvent
  <2>2. /\ UpdateHwMode(raised) /\ androidMode' = androidMode
        /\ ReconsiderIf(events' \cap RoutingEvents # {})
        /\ inputSource' = source /\ voipBand' = voip
    BY <1>2 DEF SetInputParameters
  <2>3. source \in Sources /\ voip \in Bands /\ androidMode \in Modes
    BY PlatformAssumption DEF TypeOK
  <2> HIDE DEF raised, source, voip
  <2>4. /\ hwMode' \in Modes /\ glitchSafe' \in BOOLEAN
        /\ wakeup' \in BOOLEAN /\ keys' \subseteq Keys /\ refused' \in BOOLEAN
        /\ events' \subseteq Params \cup NamedEvents
    BY <2>1, <2>2, <2>3, UpdateHwModeEffect
  <2>5. queue' \in Seq(Messages)
    BY <2>2, ReconsiderType
  <2> QED BY <1>2, <2>2, <2>3, <2>4, <2>5 DEF SetInputParameters, TypeOK
<1>3. ASSUME NEW values \in [Params -> BOOLEAN],
             NEW flags \in {"none", "direct", "other"},
             SetParameters(values, flags)
      PROVE  TypeOK'
  <2>1. directs' \in 0..MaxDirects
    <3>1. directs \in 0..MaxDirects /\ directs' = DirectsAfter(flags)
          /\ directs' <= MaxDirects /\ MaxDirects \in Nat
      BY <1>3, PlatformAssumption DEF SetParameters, TypeOK
    <3> QED BY <3>1 DEF DirectsAfter
  <2>2. events' \subseteq Params \cup NamedEvents
    <3>1. If((directs = 0) # (directs' = 0), "stream") \subseteq NamedEvents
      BY DEF If, NamedEvents
    <3> QED BY <1>3, <3>1 DEF SetParameters, ChangedParams, TypeOK
  <2>3. queue' \in Seq(Messages)
    BY <1>3, ReconsiderType DEF SetParameters
  <2> QED BY <1>3, <2>1, <2>2, <2>3 DEF SetParameters, TypeOK
<1>4. ASSUME NEW state \in BOOLEAN, SetMicMute(state)
      PROVE  TypeOK'
  <2>1. events' \subseteq Params \cup NamedEvents
    BY <1>4 DEF SetMicMute, If, NamedEvents, TypeOK
  <2> QED BY <1>4, <2>1 DEF SetMicMute, TypeOK
<1>5. CASE ModemBandChanges
  <2>1. queue' \in Seq(Messages) /\ band' \in Bands
    BY <1>5 DEF ModemBandChanges, TypeOK, Messages
  <2> QED BY <1>5, <2>1 DEF ModemBandChanges, TypeOK
<1>6. ASSUME NEW up \in BOOLEAN, NEW audio \in BOOLEAN, ModemChanges(up, audio)
      PROVE  TypeOK'
  <2> DEFINE first == IF up # alive THEN <<"modemState">> ELSE <<>>
             second == IF audio # linked THEN <<"modemAudio">> ELSE <<>>
  <2>1. first \in Seq(Messages) /\ second \in Seq(Messages)
    <3>1. "modemState" \in Messages /\ "modemAudio" \in Messages
      BY DEF Messages
    <3>2. <<"modemState">> \in Seq(Messages) /\ <<"modemAudio">> \in Seq(Messages)
          /\ <<>> \in Seq(Messages)
      BY <3>1
    <3> QED BY <3>2
  <2>2. queue' = queue \o first \o second /\ queue \in Seq(Messages)
    BY <1>6 DEF ModemChanges, Sent, TypeOK
  <2> HIDE DEF first, second
  <2>3. queue' \in Seq(Messages)
    BY <2>1, <2>2
  <2> QED BY <1>6, <2>3 DEF ModemChanges, TypeOK
<1>7. CASE UpdateRouting
  BY <1>7, TakeType DEF UpdateRouting, TypeOK
<1>8. CASE UpdateModemState
  <2>1. queue' \in Seq(Messages) /\ lock' = "pass"
    BY <1>8, TakeType DEF UpdateModemState
  <2>2. modemAlive' \in BOOLEAN /\ modemAudio' \in BOOLEAN
    BY <1>8 DEF UpdateModemState, AudioAfterState, TypeOK
  <2>3. /\ hwMode' \in Modes /\ glitchSafe' \in BOOLEAN
        /\ wakeup' \in BOOLEAN /\ keys' \subseteq Keys /\ refused' \in BOOLEAN
        /\ events' \subseteq Params \cup NamedEvents
    <3>1. CASE alive # modemAlive
      <4>1. UpdateHwMode({"modemState"}) /\ androidMode' \in Modes
        BY <1>8, <3>1 DEF UpdateModemState, TypeOK
      <4>2. {"modemState"} \subseteq Params \cup NamedEvents
        BY DEF NamedEvents
      <4> QED BY <4>1, <4>2, UpdateHwModeEffect
    <3>2. CASE alive = modemAlive
      BY <1>8, <3>2 DEF UpdateModemState, TypeOK
    <3> QED BY <3>1, <3>2
  <2> QED BY <1>8, <2>1, <2>2, <2>3 DEF UpdateModemState, TypeOK
<1>9. CASE UpdateModemAudioStatus
  <2>1. queue' \in Seq(Messages) /\ lock' = "pass"
    BY <1>9, TakeType DEF UpdateModemAudioStatus
  <2>2. /\ hwMode' \in Modes /\ glitchSafe' \in BOOLEAN
        /\ wakeup' \in BOOLEAN /\ keys' \subseteq Keys /\ refused' \in BOOLEAN
        /\ events' \subseteq Params \cup NamedEvents
    <3>1. CASE linked # modemAudio
      <4>1. UpdateHwMode({"modemAudio"}) /\ androidMode' \in Modes
        BY <1>9, <3>1 DEF UpdateModemAudioStatus, TypeOK
      <4>2. {"modemAudio"} \subseteq Params \cup NamedEvents
        BY DEF NamedEvents
      <4> QED BY <4>1, <4>2, UpdateHwModeEffect
    <3>2. CASE linked = modemAudio
      BY <1>9, <3>2 DEF UpdateModemAudioStatus, TypeOK
    <3> QED BY <3>1, <3>2
  <2> QED BY <1>9, <2>1, <2>2 DEF UpdateModemAudioStatus, TypeOK
<1>10. CASE UpdateModemAudioBand
  <2>1. queue' \in Seq(Messages) /\ lock' = "pass"
    BY <1>10, TakeType DEF UpdateModemAudioBand
  <2>2. events' \subseteq Params \cup NamedEvents
    BY <1>10 DEF UpdateModemAudioBand, BandEvent, If, NamedEvents, TypeOK
  <2> QED BY <1>10, <2>1, <2>2 DEF UpdateModemAudioBand, TypeOK
<1>11. CASE EndPass
  BY <1>11 DEF EndPass, TypeOK
<1>12. CASE UNCHANGED vars
  BY <1>12 DEF vars, TypeOK
<1> QED
  BY <1>1, <1>2, <1>3, <1>4, <1>5, <1>6, <1>7, <1>8, <1>9, <1>10, <1>11, <1>12
  DEF Next, Caller, Modem, Worker

\* The initial platform state has its type.
LEMMA TypeInit == ASSUME Init PROVE TypeOK
<1>1. events \subseteq NamedEvents
  BY DEF Init, If, NamedEvents
<1>2. params \in [Params -> BOOLEAN] /\ directs \in 0..MaxDirects
  BY PlatformAssumption DEF Init
<1>3. queue \in Seq(Messages)
  BY DEF Init
<1>4. /\ alive \in BOOLEAN /\ linked \in BOOLEAN /\ band \in Bands
      /\ modemAlive \in BOOLEAN /\ modemAudio \in BOOLEAN /\ glitchSafe \in BOOLEAN
      /\ csvBand \in Bands
  BY DEF Init
<1>5. /\ voipBand \in Bands /\ androidMode \in Modes /\ hwMode \in Modes
      /\ lock \in {"free", "pass"} /\ micMute \in BOOLEAN
      /\ outDevices \subseteq Devices /\ inDevices \in InputDevices
      /\ inputSource \in Sources /\ wakeup \in BOOLEAN /\ keys \subseteq Keys /\ refused \in BOOLEAN
  BY PlatformAssumption DEF Init, Bands, Modes
<1> QED BY <1>1, <1>2, <1>3, <1>4, <1>5 DEF TypeOK

\* Every variable of the platform state has its type in every reachable state:
\* in particular the count of direct streams never wraps below zero.
THEOREM TypeCorrect == Spec => []TypeOK
BY TypeInit, TypeNext, PTL DEF Spec

-----------------------------------------------------------------------------
(* The cached mode and the shared bus.                                     *)

\* The handlers leave the mode, its inputs and the bus flag alone, or refresh
\* mode and flag with updateHwMode.
Refreshed ==
    /\ hwMode' = HwModeOf(androidMode', outDevices', modemAlive', modemAudio')
    /\ glitchSafe' = GlitchSafeOf(androidMode', outDevices', modemAlive', modemAudio')
Untouched ==
    UNCHANGED <<androidMode, outDevices, modemAlive, modemAudio, hwMode, glitchSafe>>

\* Every step refreshes them together or touches none of them.
LEMMA RefreshedOrUntouched ==
    ASSUME TypeOK, [Next]_vars
    PROVE  Refreshed \/ Untouched
<1> USE DEF bandVars, paramVars, inVars, outVars, hwVars, modemVars, Untouched
<1>1. ASSUME NEW devs \in SUBSET Devices, NEW mode \in Modes,
             SetOutputParameters(devs, mode)
      PROVE  Refreshed
  BY <1>1 DEF SetOutputParameters, UpdateHwMode, Refreshed
<1>2. ASSUME NEW devs \in InputDevices, NEW src \in Sources, NEW rate \in Bands,
             SetInputParameters(devs, src, rate)
      PROVE  Refreshed
  BY <1>2 DEF SetInputParameters, UpdateHwMode, Refreshed
<1>3. ASSUME NEW values \in [Params -> BOOLEAN],
             NEW flags \in {"none", "direct", "other"},
             SetParameters(values, flags)
      PROVE  Untouched
  BY <1>3 DEF SetParameters
<1>4. ASSUME NEW state \in BOOLEAN, SetMicMute(state)
      PROVE  Untouched
  BY <1>4 DEF SetMicMute
<1>5. CASE ModemBandChanges
  BY <1>5 DEF ModemBandChanges
<1>6. ASSUME NEW up \in BOOLEAN, NEW audio \in BOOLEAN, ModemChanges(up, audio)
      PROVE  Untouched
  BY <1>6 DEF ModemChanges
<1>7. CASE UpdateRouting
  BY <1>7 DEF UpdateRouting
<1>8. CASE UpdateModemState
  <2>1. CASE alive # modemAlive
    BY <1>8, <2>1 DEF UpdateModemState, UpdateHwMode, Refreshed
  <2>2. CASE alive = modemAlive
    <3>1. modemAudio' = modemAudio
      BY <1>8, <2>2 DEF UpdateModemState, AudioAfterState, TypeOK
    <3> QED BY <1>8, <2>2, <3>1 DEF UpdateModemState
  <2> QED BY <2>1, <2>2
<1>9. CASE UpdateModemAudioStatus
  <2>1. CASE linked # modemAudio
    BY <1>9, <2>1 DEF UpdateModemAudioStatus, UpdateHwMode, Refreshed
  <2>2. CASE linked = modemAudio
    BY <1>9, <2>2 DEF UpdateModemAudioStatus
  <2> QED BY <2>1, <2>2
<1>10. CASE UpdateModemAudioBand
  BY <1>10 DEF UpdateModemAudioBand
<1>11. CASE EndPass
  BY <1>11 DEF EndPass
<1>12. CASE UNCHANGED vars
  BY <1>12 DEF vars
<1> QED
  BY <1>1, <1>2, <1>3, <1>4, <1>5, <1>6, <1>7, <1>8, <1>9, <1>10, <1>11, <1>12
  DEF Next, Caller, Modem, Worker

\* A handler leaves the cached mode as checkHwMode would compute it.
LEMMA HwModeNext ==
    ASSUME TypeOK, HwModeFollows, [Next]_vars
    PROVE  HwModeFollows'
<1>1. CASE Refreshed
  BY <1>1 DEF Refreshed, HwModeFollows
<1>2. CASE Untouched
  BY <1>2 DEF Untouched, HwModeFollows
<1> QED BY <1>1, <1>2, RefreshedOrUntouched

\* The hardware mode with which routes are selected is never stale, whatever
\* the order of the framework's calls and of the modem's notifications.
THEOREM HwModeIsFresh == Spec => []HwModeFollows
<1>1. Init => HwModeFollows
  BY DEF Init, HwModeFollows, HwModeOf
<1> QED BY <1>1, HwModeNext, TypeCorrect, PTL DEF Spec

\* The flag of the bus is fresh as soon as the modem is up: before the modem
\* first comes up it still has its initial value.
GlitchSafeFresh ==
    modemAlive =>
        glitchSafe = GlitchSafeOf(androidMode, outDevices, modemAlive, modemAudio)

\* A handler keeps the flag fresh.
LEMMA GlitchSafeNext ==
    ASSUME TypeOK, GlitchSafeFresh, [Next]_vars
    PROVE  GlitchSafeFresh'
<1>1. CASE Refreshed
  BY <1>1 DEF Refreshed, GlitchSafeFresh
<1>2. CASE Untouched
  BY <1>2 DEF Untouched, GlitchSafeFresh
<1> QED BY <1>1, <1>2, RefreshedOrUntouched

\* A fresh flag is what isSharedI2SBusAvailable promises.
LEMMA FreshBus ==
    ASSUME TypeOK, GlitchSafeFresh
    PROVE  SharedBusFollows
<1>1. modemAlive \in BOOLEAN /\ glitchSafe \in BOOLEAN /\ androidMode \in Modes
  BY DEF TypeOK
<1> QED BY <1>1, HwModeType DEF GlitchSafeFresh, SharedBusFollows, SharedBusAvailable

\* The shared I2S bus is available exactly when the modem is up and no call is
\* being set up, in every reachable state.
THEOREM SharedBusIsSafe == Spec => []SharedBusFollows
<1>1. Init => GlitchSafeFresh
  BY DEF Init, GlitchSafeFresh, GlitchSafeOf
<1> QED BY <1>1, GlitchSafeNext, FreshBus, TypeCorrect, PTL DEF Spec

-----------------------------------------------------------------------------
(* No change is forgotten.                                                 *)

\* A message stays in the queue when messages are added behind it, and is
\* there when it has been added.
LEMMA QueueGrows ==
    ASSUME NEW q \in Seq(Messages), NEW r \in Seq(Messages), NEW m
    PROVE  (\E i \in DOMAIN q : q[i] = m) => \E i \in DOMAIN (q \o r) : (q \o r)[i] = m
<1> SUFFICES ASSUME NEW i \in DOMAIN q, q[i] = m
             PROVE  \E k \in DOMAIN (q \o r) : (q \o r)[k] = m
  OBVIOUS
<1>1. i \in DOMAIN (q \o r) /\ (q \o r)[i] = m
  OBVIOUS
<1> QED BY <1>1

\* A message that was appended is in the queue.
LEMMA QueueAppended ==
    ASSUME NEW q \in Seq(Messages), NEW m \in Messages
    PROVE  \E i \in DOMAIN Append(q, m) : Append(q, m)[i] = m
<1>1. Len(q) + 1 \in DOMAIN Append(q, m) /\ Append(q, m)[Len(q) + 1] = m
  OBVIOUS
<1> QED BY <1>1

\* A pass is queued.
PassQueued == \E i \in DOMAIN queue : queue[i] = "routing"

\* A handler that reconsiders the routing when cond holds leaves a pass in the
\* queue if cond holds or if there was one.
LEMMA ReconsiderQueues ==
    ASSUME TypeOK, NEW cond, ReconsiderIf(cond), cond \/ PassQueued, cond \in BOOLEAN
    PROVE  PassQueued'
<1>1. queue \in Seq(Messages) /\ "routing" \in Messages
  BY DEF TypeOK, Messages
<1>2. CASE cond
  BY <1>1, <1>2, ReconsiderType, QueueAppended DEF PassQueued
<1>3. CASE ~cond
  BY <1>3, ReconsiderType DEF PassQueued
<1> QED BY <1>2, <1>3

\* The events that setStreamParameters watches are among those that no handler
\* may forget; the two that updateHwMode adds, and the band, are not all.
LEMMA WatchedRoutingEvents ==
    /\ WatchedEvents \subseteq Params \cup RoutingEvents \cup {"micMute"}
    /\ "sharedBus" \notin WatchedEvents /\ "band" \notin WatchedEvents
    /\ "modemState" \notin WatchedEvents /\ "modemAudio" \notin WatchedEvents
BY PlatformAssumption DEF WatchedEvents, RoutingEvents, NamedEvents

\* Once a handler has returned, a pass is queued for what it changed.
LEMMA ChangeNext ==
    ASSUME TypeOK, NoForgottenChange, [Next]_vars
    PROVE  NoForgottenChange'
<1> USE DEF bandVars, paramVars, inVars, outVars, hwVars, modemVars
<1> SUFFICES ASSUME lock' = "free", events' \cap WatchedEvents # {}
             PROVE  PassQueued'
  BY DEF NoForgottenChange, PassQueued
<1>a. lock = "free" /\ events \cap WatchedEvents # {} => PassQueued
  BY DEF NoForgottenChange, PassQueued
<1>1. ASSUME NEW devs \in SUBSET Devices, NEW mode \in Modes,
             SetOutputParameters(devs, mode)
      PROVE  PassQueued'
  <2> DEFINE raised == If(devs # outDevices, "outDevices")
                       \cup If(mode # androidMode, "androidMode")
             cond == events' \cap RoutingEvents # {}
  <2>1. raised \subseteq RoutingEvents /\ raised \subseteq Params \cup NamedEvents
    BY DEF If, RoutingEvents, NamedEvents
  <2>2. UpdateHwMode(raised) /\ androidMode' \in Modes /\ lock = "free"
        /\ ReconsiderIf(cond)
    BY <1>1 DEF SetOutputParameters
  <2> HIDE DEF raised
  <2>3. events' \subseteq events \cup raised \cup {"hwMode", "sharedBus"}
    BY <2>1, <2>2, UpdateHwModeEffect
  <2>4. cond \/ PassQueued
    BY <2>1, <2>2, <2>3, <1>a, WatchedRoutingEvents DEF RoutingEvents
  <2> QED BY <2>2, <2>4, ReconsiderQueues
<1>2. ASSUME NEW devs \in InputDevices, NEW src \in Sources, NEW rate \in Bands,
             SetInputParameters(devs, src, rate)
      PROVE  PassQueued'
  <2> DEFINE source == IF devs = {} THEN NoSource ELSE src
             voip == IF src = Voip THEN rate ELSE voipBand
             raised == If(devs # inDevices, "inDevices")
                        \cup If({src, source} # {inputSource}, "inSource")
                        \cup BandEvent(csvBand, voip)
             cond == events' \cap RoutingEvents # {}
  <2>1. raised \subseteq RoutingEvents \cup {"band"}
        /\ raised \subseteq Params \cup NamedEvents
    BY DEF If, RoutingEvents, NamedEvents, BandEvent
  <2>2. UpdateHwMode(raised) /\ androidMode' \in Modes /\ lock = "free"
        /\ ReconsiderIf(cond)
    BY <1>2 DEF SetInputParameters, TypeOK
  <2> HIDE DEF raised
  <2>3. events' \subseteq events \cup raised \cup {"hwMode", "sharedBus"}
    BY <2>1, <2>2, UpdateHwModeEffect
  <2>4. cond \/ PassQueued
    BY <2>1, <2>2, <2>3, <1>a, WatchedRoutingEvents DEF RoutingEvents
  <2> QED BY <2>2, <2>4, ReconsiderQueues
<1>3. ASSUME NEW values \in [Params -> BOOLEAN],
             NEW flags \in {"none", "direct", "other"},
             SetParameters(values, flags)
      PROVE  PassQueued'
  <2>1. ReconsiderIf(events' # {}) /\ events' # {}
    BY <1>3 DEF SetParameters
  <2> QED BY <2>1, ReconsiderQueues
<1>4. ASSUME NEW state \in BOOLEAN, SetMicMute(state)
      PROVE  PassQueued'
  BY <1>4 DEF SetMicMute
<1>5. CASE ModemBandChanges
  <2>1. queue' = Append(queue, "modemBand") /\ PassQueued
    BY <1>5, <1>a DEF ModemBandChanges
  <2>2. queue \in Seq(Messages) /\ <<"modemBand">> \in Seq(Messages)
        /\ queue' = queue \o <<"modemBand">>
    BY <2>1 DEF TypeOK, Messages
  <2> QED BY <2>1, <2>2, QueueGrows DEF PassQueued
<1>6. ASSUME NEW up \in BOOLEAN, NEW audio \in BOOLEAN, ModemChanges(up, audio)
      PROVE  PassQueued'
  <2> DEFINE first == IF up # alive THEN <<"modemState">> ELSE <<>>
             second == IF audio # linked THEN <<"modemAudio">> ELSE <<>>
  <2>1. first \in Seq(Messages) /\ second \in Seq(Messages)
    <3>1. "modemState" \in Messages /\ "modemAudio" \in Messages
      BY DEF Messages
    <3>2. <<"modemState">> \in Seq(Messages) /\ <<"modemAudio">> \in Seq(Messages)
          /\ <<>> \in Seq(Messages)
      BY <3>1
    <3> QED BY <3>2
  <2>2. queue' = queue \o first \o second /\ queue \in Seq(Messages) /\ PassQueued
    BY <1>6, <1>a DEF ModemChanges, Sent, TypeOK
  <2> HIDE DEF first, second
  <2>3. queue \o first \in Seq(Messages)
        /\ \E i \in DOMAIN (queue \o first) : (queue \o first)[i] = "routing"
    <3>1. \E i \in DOMAIN queue : queue[i] = "routing"
      BY <2>2 DEF PassQueued
    <3>2. queue \o first \in Seq(Messages)
      BY <2>1, <2>2
    <3>3. PICK i \in DOMAIN queue : queue[i] = "routing"
      BY <3>1
    <3>4. i \in DOMAIN (queue \o first) /\ (queue \o first)[i] = "routing"
      BY <2>1, <2>2, <3>3
    <3> QED BY <3>2, <3>4
  <2>4. \E i \in DOMAIN (queue \o first \o second) :
           (queue \o first \o second)[i] = "routing"
    BY <2>1, <2>3, QueueGrows
  <2> QED BY <2>2, <2>4 DEF PassQueued
<1>7. CASE Take("routing") \/ Take("modemState") \/ Take("modemAudio")
           \/ Take("modemBand")
  BY <1>7 DEF Take
<1>8. CASE EndPass
  BY <1>8 DEF EndPass
<1>9. CASE UNCHANGED vars
  BY <1>9, <1>a DEF vars, PassQueued
<1> QED
  BY <1>1, <1>2, <1>3, <1>4, <1>5, <1>6, <1>7, <1>8, <1>9
  DEF Next, Caller, Modem, Worker, UpdateRouting, UpdateModemState,
      UpdateModemAudioStatus, UpdateModemAudioBand

\* Whatever the interleaving of the callers with the passes of the event
\* thread, a change that selects routes and that no pass has seen has a pass in
\* the queue.
THEOREM NoChangeIsForgotten == Spec => []NoForgottenChange
<1>1. Init => NoForgottenChange
  BY WatchedRoutingEvents, PlatformAssumption DEF Init, NoForgottenChange, If
<1> QED BY <1>1, ChangeNext, TypeCorrect, PTL DEF Spec

-----------------------------------------------------------------------------
(* The volume keys.                                                        *)

\* Switching the keys to what the new mode asks for leaves them right, or the
\* write has failed.
LEMMA SwitchFollows ==
    ASSUME TypeOK, VolumeKeysFollow, SwitchWakeup(hwMode' = "incall")
    PROVE  VolumeKeysFollow'
<1> DEFINE on == hwMode' = "incall"
<1>0. wakeup \in BOOLEAN /\ refused \in BOOLEAN /\ on \in BOOLEAN
  BY DEF TypeOK
<1>1. CASE wakeup = on
  <2>1. UNCHANGED <<wakeup, keys, refused>>
    BY <1>1 DEF SwitchWakeup
  <2>2. CASE refused
    BY <2>1, <2>2 DEF VolumeKeysFollow
  <2>3. CASE ~refused
    <3>1. wakeup = (hwMode = "incall") /\ keys = IF hwMode = "incall" THEN Keys ELSE {}
      BY <2>3 DEF VolumeKeysFollow
    <3> QED BY <1>1, <2>1, <3>1 DEF VolumeKeysFollow
  <2> QED BY <1>0, <2>2, <2>3
<1>2. CASE wakeup # on
  <2>1. \/ wakeup' = on /\ keys' = IF on THEN Keys ELSE {}
        \/ refused' = TRUE
    BY <1>2 DEF SwitchWakeup
  <2> QED BY <2>1 DEF VolumeKeysFollow
<1> QED BY <1>1, <1>2

\* updateHwMode keeps the keys right, whether it changes the mode or not.
LEMMA UpdateFollows ==
    ASSUME TypeOK, VolumeKeysFollow, NEW raised, UpdateHwMode(raised)
    PROVE  VolumeKeysFollow'
<1>1. CASE hwMode' # hwMode
  BY <1>1, SwitchFollows DEF UpdateHwMode
<1>2. CASE hwMode' = hwMode
  BY <1>2 DEF UpdateHwMode, VolumeKeysFollow
<1> QED BY <1>1, <1>2

\* A step calls updateHwMode or leaves mode and keys alone.
LEMMA KeysNext ==
    ASSUME TypeOK, VolumeKeysFollow, [Next]_vars
    PROVE  VolumeKeysFollow'
<1> USE DEF bandVars, paramVars, inVars, outVars, hwVars, modemVars
<1>1. ASSUME UNCHANGED hwVars
      PROVE  VolumeKeysFollow'
  BY <1>1 DEF VolumeKeysFollow
<1>2. ASSUME NEW devs \in SUBSET Devices, NEW mode \in Modes,
             SetOutputParameters(devs, mode)
      PROVE  VolumeKeysFollow'
  BY <1>2, UpdateFollows DEF SetOutputParameters
<1>3. ASSUME NEW devs \in InputDevices, NEW src \in Sources, NEW rate \in Bands,
             SetInputParameters(devs, src, rate)
      PROVE  VolumeKeysFollow'
  BY <1>3, UpdateFollows DEF SetInputParameters
<1>4. CASE UpdateModemState
  BY <1>1, <1>4, UpdateFollows DEF UpdateModemState
<1>5. CASE UpdateModemAudioStatus
  BY <1>1, <1>5, UpdateFollows DEF UpdateModemAudioStatus
<1>6. ASSUME NEW values \in [Params -> BOOLEAN],
             NEW flags \in {"none", "direct", "other"}, SetParameters(values, flags)
      PROVE  VolumeKeysFollow'
  BY <1>1, <1>6 DEF SetParameters
<1>7. ASSUME NEW state \in BOOLEAN, SetMicMute(state)
      PROVE  VolumeKeysFollow'
  BY <1>1, <1>7 DEF SetMicMute
<1>8. ASSUME NEW up \in BOOLEAN, NEW audio \in BOOLEAN, ModemChanges(up, audio)
      PROVE  VolumeKeysFollow'
  BY <1>1, <1>8 DEF ModemChanges
<1>9. CASE ModemBandChanges \/ UpdateRouting \/ UpdateModemAudioBand \/ EndPass
           \/ UNCHANGED vars
  BY <1>1, <1>9 DEF ModemBandChanges, UpdateRouting, UpdateModemAudioBand, EndPass, vars
<1> QED
  BY <1>2, <1>3, <1>4, <1>5, <1>6, <1>7, <1>8, <1>9 DEF Next, Caller, Modem, Worker

\* The keys wake the device exactly in a call, unless the last write to sysfs
\* has failed: also when an earlier one had, and calls have come and gone since.
THEOREM KeysFollowTheCall == Spec => []VolumeKeysFollow
<1>1. Init => VolumeKeysFollow
  BY DEF Init, VolumeKeysFollow
<1> QED BY <1>1, KeysNext, TypeCorrect, PTL DEF Spec

-----------------------------------------------------------------------------
(* The modem's status.                                                     *)

Queued(m) == \E i \in DOMAIN queue : queue[i] = m

\* The modem's audio link is down when the modem is.
LinkNeedsModem == linked => alive
Tracked == ModemStatusTracked /\ LinkNeedsModem

\* A message that is not the one taken is still queued.
LEMMA TakenLeavesOthers ==
    ASSUME TypeOK, NEW m, NEW n, m # n, Take(n), Queued(m)
    PROVE  Queued(m)'
<1>1. queue \in Seq(Messages) /\ queue # <<>> /\ Head(queue) = n /\ queue' = Tail(queue)
  BY DEF TypeOK, Take
<1>2. PICK i \in DOMAIN queue : queue[i] = m
  BY DEF Queued
<1>3. i # 1 /\ i \in 1..Len(queue)
  BY <1>1, <1>2
<1>4. i - 1 \in DOMAIN Tail(queue) /\ Tail(queue)[i - 1] = queue[i]
  BY <1>1, <1>3
<1> QED BY <1>1, <1>2, <1>4 DEF Queued

\* What was queued is so behind which more is queued.
LEMMA QueuedStays ==
    ASSUME TypeOK, NEW r \in Seq(Messages), queue' = queue \o r, NEW m, Queued(m)
    PROVE  Queued(m)'
<1>1. queue \in Seq(Messages)
  BY DEF TypeOK
<1> QED BY <1>1, QueueGrows DEF Queued

\* A caller adds at most a pass to the queue.
LEMMA CallerQueues ==
    ASSUME TypeOK, Tracked, NEW cond, ReconsiderIf(cond),
           UNCHANGED <<alive, linked, band, modemAlive, modemAudio, csvBand>>
    PROVE  Tracked'
<1>1. queue \in Seq(Messages) /\ <<"routing">> \in Seq(Messages)
      /\ Append(queue, "routing") = queue \o <<"routing">>
  BY DEF TypeOK, Messages
<1>2. \A m : Queued(m) => Queued(m)'
  <2>1. CASE queue' = queue
    BY <2>1 DEF Queued
  <2>2. CASE queue' = Append(queue, "routing")
    BY <1>1, <2>2, QueuedStays
  <2> QED BY <2>1, <2>2 DEF ReconsiderIf, Reconsider
<1> QED BY <1>2 DEF Tracked, ModemStatusTracked, LinkNeedsModem, Queued

\* Every change of the modem queues the message that will correct its status,
\* and only the handler of that message takes it away.
LEMMA TrackedNext ==
    ASSUME TypeOK, Tracked, [Next]_vars
    PROVE  Tracked'
<1> USE DEF bandVars, paramVars, inVars, outVars, hwVars, modemVars
<1>a. /\ modemAlive # alive => Queued("modemState")
      /\ modemAudio # linked => Queued("modemAudio")
      /\ csvBand # band => Queued("modemBand")
      /\ linked => alive
  BY DEF Tracked, ModemStatusTracked, LinkNeedsModem, Queued
<1>c. queue \in Seq(Messages)
  BY DEF TypeOK
<1>1. ASSUME NEW devs \in SUBSET Devices, NEW mode \in Modes,
             SetOutputParameters(devs, mode)
      PROVE  Tracked'
  BY <1>1, CallerQueues DEF SetOutputParameters
<1>2. ASSUME NEW devs \in InputDevices, NEW src \in Sources, NEW rate \in Bands,
             SetInputParameters(devs, src, rate)
      PROVE  Tracked'
  BY <1>2, CallerQueues DEF SetInputParameters
<1>3. ASSUME NEW values \in [Params -> BOOLEAN],
             NEW flags \in {"none", "direct", "other"}, SetParameters(values, flags)
      PROVE  Tracked'
  BY <1>3, CallerQueues DEF SetParameters
<1>4. ASSUME UNCHANGED <<alive, linked, band, modemAlive, modemAudio, csvBand, queue>>
      PROVE  Tracked'
  BY <1>4 DEF Tracked, ModemStatusTracked, LinkNeedsModem
<1>5. ASSUME NEW up \in BOOLEAN, NEW audio \in BOOLEAN, ModemChanges(up, audio)
      PROVE  Tracked'
  <2> DEFINE first == IF up # alive THEN <<"modemState">> ELSE <<>>
             second == IF audio # linked THEN <<"modemAudio">> ELSE <<>>
  <2>1. first \in Seq(Messages) /\ second \in Seq(Messages)
    <3>1. "modemState" \in Messages /\ "modemAudio" \in Messages
      BY DEF Messages
    <3> QED BY <3>1
  <2>2. queue' = queue \o first \o second
    BY <1>5 DEF ModemChanges, Sent
  <2>3. \A m : Queued(m) => Queued(m)'
    <3> SUFFICES ASSUME NEW m, Queued(m) PROVE Queued(m)'
      OBVIOUS
    <3>1. queue \o first \in Seq(Messages)
      BY <1>c, <2>1
    <3>2. \E i \in DOMAIN (queue \o first) : (queue \o first)[i] = m
      BY <1>c, <2>1, QueueGrows DEF Queued
    <3> HIDE DEF first, second
    <3> QED BY <2>1, <2>2, <3>1, <3>2, QueueGrows DEF Queued
  <2>4. up # alive => Queued("modemState")'
    <3> SUFFICES ASSUME up # alive PROVE Queued("modemState")'
      OBVIOUS
    <3>1. queue' = Append(queue, "modemState") \o second
          /\ Append(queue, "modemState") \in Seq(Messages) /\ "modemState" \in Messages
      BY <1>c, <2>1, <2>2 DEF Messages
    <3>2. \E i \in DOMAIN Append(queue, "modemState") :
             Append(queue, "modemState")[i] = "modemState"
      BY <1>c, <3>1, QueueAppended
    <3> QED BY <2>1, <3>1, <3>2, QueueGrows DEF Queued
  <2>5. audio # linked => Queued("modemAudio")'
    <3> SUFFICES ASSUME audio # linked PROVE Queued("modemAudio")'
      OBVIOUS
    <3>1. queue' = Append(queue \o first, "modemAudio") /\ queue \o first \in Seq(Messages)
          /\ "modemAudio" \in Messages
      BY <1>c, <2>1, <2>2 DEF Messages
    <3> QED BY <3>1, QueueAppended DEF Queued
  <2>6. alive' = up /\ linked' = audio /\ (audio => up)
        /\ UNCHANGED <<band, modemAlive, modemAudio, csvBand>>
    BY <1>5 DEF ModemChanges
  <2> HIDE DEF first, second
  <2>7. /\ modemAlive' # alive' => Queued("modemState")'
        /\ modemAudio' # linked' => Queued("modemAudio")'
        /\ csvBand' # band' => Queued("modemBand")'
        /\ linked' => alive'
    BY <1>a, <2>3, <2>4, <2>5, <2>6
  <2> QED BY <2>7 DEF Tracked, ModemStatusTracked, LinkNeedsModem, Queued
<1>6. CASE ModemBandChanges
  <2>1. queue' = Append(queue, "modemBand") /\ "modemBand" \in Messages
        /\ <<"modemBand">> \in Seq(Messages) /\ queue' = queue \o <<"modemBand">>
        /\ UNCHANGED <<alive, linked, modemAlive, modemAudio, csvBand>>
    BY <1>6, <1>c DEF ModemBandChanges, Messages
  <2>2. Queued("modemBand")'
    BY <1>c, <2>1, QueueAppended DEF Queued
  <2>3. \A m : Queued(m) => Queued(m)'
    BY <2>1, QueuedStays
  <2>4. /\ modemAlive' # alive' => Queued("modemState")'
        /\ modemAudio' # linked' => Queued("modemAudio")'
        /\ csvBand' # band' => Queued("modemBand")'
        /\ linked' => alive'
    BY <1>a, <2>1, <2>2, <2>3
  <2> QED BY <2>4 DEF Tracked, ModemStatusTracked, LinkNeedsModem, Queued
<1>7. CASE UpdateRouting
  <2>1. \A m : m # "routing" /\ Queued(m) => Queued(m)'
    BY <1>7, TakenLeavesOthers DEF UpdateRouting
  <2> QED BY <1>7, <1>a, <2>1 DEF UpdateRouting, Tracked, ModemStatusTracked, LinkNeedsModem, Queued
<1>8. CASE UpdateModemState
  <2>1. \A m : m # "modemState" /\ Queued(m) => Queued(m)'
    BY <1>8, TakenLeavesOthers DEF UpdateModemState
  <2>2. modemAudio' = modemAudio \/ (modemAudio' = FALSE /\ ~alive)
    BY <1>8 DEF UpdateModemState, AudioAfterState, TypeOK
  <2>3. linked = FALSE \/ alive
    BY <1>a DEF TypeOK
  <2>4. /\ modemAlive' = alive' /\ UNCHANGED <<alive, linked, band, csvBand>>
    BY <1>8 DEF UpdateModemState
  <2>5. /\ modemAudio' # linked' => Queued("modemAudio")'
        /\ csvBand' # band' => Queued("modemBand")'
        /\ linked' => alive'
    BY <1>a, <2>1, <2>2, <2>3, <2>4
  <2> QED BY <2>4, <2>5 DEF Tracked, ModemStatusTracked, LinkNeedsModem, Queued
<1>9. CASE UpdateModemAudioStatus
  <2>1. \A m : m # "modemAudio" /\ Queued(m) => Queued(m)'
    BY <1>9, TakenLeavesOthers DEF UpdateModemAudioStatus
  <2>2. modemAudio' = linked' /\ UNCHANGED <<alive, linked, band, modemAlive, csvBand>>
    BY <1>9 DEF UpdateModemAudioStatus
  <2> QED BY <1>a, <2>1, <2>2 DEF Tracked, ModemStatusTracked, LinkNeedsModem, Queued
<1>10. CASE UpdateModemAudioBand
  <2>1. \A m : m # "modemBand" /\ Queued(m) => Queued(m)'
    BY <1>10, TakenLeavesOthers DEF UpdateModemAudioBand
  <2>2. csvBand' = band' /\ UNCHANGED <<alive, linked, band, modemAlive, modemAudio>>
    BY <1>10 DEF UpdateModemAudioBand
  <2> QED BY <1>a, <2>1, <2>2 DEF Tracked, ModemStatusTracked, LinkNeedsModem, Queued
<1>11. ASSUME NEW state \in BOOLEAN, SetMicMute(state)
       PROVE  Tracked'
  BY <1>4, <1>11 DEF SetMicMute
<1>12. CASE EndPass \/ UNCHANGED vars
  BY <1>4, <1>12 DEF EndPass, vars
<1> QED
  BY <1>1, <1>2, <1>3, <1>5, <1>6, <1>7, <1>8, <1>9, <1>10, <1>11, <1>12
  DEF Next, Caller, Modem, Worker

\* What the platform state says of the modem is what the modem says, or the
\* message that will correct it is queued: for every interleaving of the
\* modem's callbacks with the worker that reads the modem late.
THEOREM ModemStatusIsTracked == Spec => []ModemStatusTracked
<1>1. Init => Tracked
  BY DEF Init, Tracked, ModemStatusTracked, LinkNeedsModem
<1>2. Tracked => ModemStatusTracked
  BY DEF Tracked
<1> QED BY <1>1, <1>2, TrackedNext, TypeCorrect, PTL DEF Spec
=============================================================================
