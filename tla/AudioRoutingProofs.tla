------------------------- MODULE AudioRoutingProofs -------------------------
(***************************************************************************)
(* Theorems about AudioRouting, for every platform table, every number of  *)
(* streams and every choice of failures.                                   *)
(***************************************************************************)
EXTENDS AudioRouting, SequenceTheorems, TLAPS

-----------------------------------------------------------------------------
(* Lemmas on the operators of the model.                                   *)

\* The visits of a set of uses are evaluations of the route list.
LEMMA VisitsType ==
    ASSUME NEW S, S \subseteq Uses
    PROVE  Visits(S) \subseteq Evaluations
BY DEF Visits, Uses, Evaluations

\* The use of an evaluation is a use.
LEMMA UseOfType ==
    ASSUME NEW e \in Evaluations
    PROVE  /\ UseOf(e) \in Uses
           /\ e[1] \in Dirs /\ e[2] \in Routes /\ e[3] \in Routes
           /\ UseOf(e)[1] = e[1] /\ UseOf(e)[2] = e[3]
BY DEF UseOf, Uses, Evaluations

\* Replacing the attachment of one stream, or of none, keeps the type.
LEMMA WithType ==
    ASSUME NEW a \in [Streams -> Attachments], NEW s \in Nullable(Streams),
           NEW v, s \in Streams => v \in Attachments
    PROVE  With(a, s, v) \in [Streams -> Attachments]
BY StreamsAssumption DEF With, Nullable

\* The value of a stream after unroute is an attachment.
LEMMA DetachedType == Detached \in Attachments
BY DEF Detached, Attachments, Nullable

\* What attachRoute leaves in the stream, whatever fails in it.
LEMMA AttachedType ==
    ASSUME TypeOK, NEW s \in Streams, NEW outcome
    PROVE  Attached(s, outcome) \in Attachments
<1>1. att[s] \in Attachments /\ newRoute[s] \in Nullable(Routes)
      /\ newDevices[s] \in SUBSET Devices
  BY DEF TypeOK, StreamsOK, SelectOK, HardwareOK
<1>2. CASE outcome = "convert"
  <2>1. Attached(s, outcome) = [att[s] EXCEPT !.handle = newRoute[s]]
    BY <1>2 DEF Attached
  <2> QED BY <1>1, <2>1 DEF Attachments
<1>3. CASE outcome # "convert"
  <2>1. Attached(s, outcome) = [route |-> newRoute[s], devices |-> newDevices[s],
                                handle |-> newRoute[s]]
    BY <1>3 DEF Attached
  <2> QED BY <1>1, <2>1 DEF Attachments
<1> QED BY <1>2, <1>3

\* A stream that keeps its route takes its new devices.
LEMMA ReconfiguredType ==
    ASSUME TypeOK, NEW s \in Streams
    PROVE  Reconfigured(s) \in Attachments
<1>1. att[s] \in Attachments /\ newDevices[s] \in SUBSET Devices
  BY DEF TypeOK, StreamsOK, SelectOK, HardwareOK
<1> QED BY <1>1 DEF Reconfigured, Attachments

\* Detaching the stream of a use keeps the type of the attachments.
LEMMA DetachCurrentType ==
    ASSUME TypeOK, NEW u \in Uses
    PROVE  DetachCurrent(u) \in [Streams -> Attachments]
<1>1. att \in [Streams -> Attachments] /\ pCur[u] \in Nullable(Streams)
  BY DEF TypeOK, StreamsOK, SelectOK, HardwareOK
<1> QED BY <1>1, WithType, DetachedType DEF DetachCurrent

-----------------------------------------------------------------------------
(* Type correctness.                                                       *)

\* The initial state is well typed.
LEMMA InitType == Init => TypeOK
<1> SUFFICES ASSUME Init PROVE TypeOK
  OBVIOUS
<1>1. PlatformOK
  BY DEF Init, PlatformOK, Modes
<1>2. StreamsOK
  <2>1. <<>> \in Seq(Streams)
    OBVIOUS
  <2> QED BY <2>1, StreamsAssumption DEF Init, StreamsOK
<1>3. PortsOK
  BY DEF Init, PortsOK, Nullable
<1>4. SelectOK
  BY DEF Init, SelectOK, Nullable
<1>5. HardwareOK
  BY DetachedType DEF Init, HardwareOK, Nullable
<1>6. WorkerOK
  BY StreamsAssumption DEF Init, WorkerOK, Stages, Dirs
<1> QED BY <1>1, <1>2, <1>3, <1>4, <1>5, <1>6 DEF TypeOK

\* The framework's calls keep every variable in its type.
LEMMA FrameworkType == TypeOK /\ Framework => TypeOK'
<1> SUFFICES ASSUME TypeOK, NEW s \in Streams,
                    \/ OpenStream(s)
                    \/ CloseStream(s)
                    \/ SetStandby(s)
                    \/ StartStopStream(s)
                    \/ \E devs \in DeviceChoices, m \in MasksOfDir(DirOf[s]),
                          mode \in AndroidModes : SetStreamParameters(s, devs, m, mode)
             PROVE  TypeOK'
  BY DEF Framework
<1> USE DEF TypeOK
<1>d. DirOf[s] \in Dirs /\ list[DirOf[s]] \in Seq(Streams)
  BY StreamsAssumption DEF StreamsOK
<1>1. CASE OpenStream(s)
  <2> USE <1>1
  <2>1. Append(list[DirOf[s]], s) \in Seq(Streams)
    BY <1>d
  <2>2. StreamsOK'
    BY <2>1, StreamsAssumption DEF OpenStream, StreamsOK
  <2>3. PlatformOK' /\ PortsOK' /\ WorkerOK'
    BY DEF OpenStream, platformVars, portVars, workerVars, PlatformOK, PortsOK, WorkerOK
  <2>4. SelectOK'
    BY DEF OpenStream, SelectOK, Nullable
  <2>5. HardwareOK'
    BY DetachedType DEF OpenStream, HardwareOK
  <2> QED BY <2>2, <2>3, <2>4, <2>5
<1>2. CASE CloseStream(s)
  <2> USE <1>2
  <2>1. PICK i \in DOMAIN list[DirOf[s]] :
          list' = [list EXCEPT ![DirOf[s]] =
                     SubSeq(@, 1, i - 1) \o SubSeq(@, i + 1, Len(@))]
    BY DEF CloseStream
  <2>2. /\ i \in 1..Len(list[DirOf[s]])
        /\ \A j \in 1..Len(list[DirOf[s]]) : list[DirOf[s]][j] \in Streams
    BY <1>d
  <2>3. SubSeq(list[DirOf[s]], 1, i - 1) \in Seq(Streams)
    BY <2>2, SubSeqProperties
  <2>4. SubSeq(list[DirOf[s]], i + 1, Len(list[DirOf[s]])) \in Seq(Streams)
    BY <1>d, <2>2, SubSeqProperties
  <2>5. list' \in [Dirs -> Seq(Streams)]
    BY <2>1, <2>3, <2>4, ConcatProperties DEF StreamsOK
  <2>6. StreamsOK'
    BY <2>5 DEF CloseStream, StreamsOK
  <2>7. PlatformOK' /\ PortsOK' /\ WorkerOK'
    BY DEF CloseStream, platformVars, portVars, workerVars, PlatformOK, PortsOK, WorkerOK
  <2>8. SelectOK' /\ HardwareOK'
    BY DEF CloseStream, selectVars, hwVars, SelectOK, HardwareOK
  <2> QED BY <2>6, <2>7, <2>8
<1>3. CASE SetStandby(s)
  <2> USE <1>3
  <2>1. StreamsOK'
    BY DEF SetStandby, StreamsOK
  <2>2. PlatformOK' /\ PortsOK' /\ WorkerOK'
    BY DEF SetStandby, platformVars, portVars, workerVars, PlatformOK, PortsOK, WorkerOK
  <2>3. SelectOK' /\ HardwareOK'
    BY DEF SetStandby, selectVars, hwVars, SelectOK, HardwareOK
  <2> QED BY <2>1, <2>2, <2>3
<1>4. CASE StartStopStream(s)
  <2> USE <1>4
  <2>1. StreamsOK'
    BY DEF StartStopStream, RequestPass, Requesting, StreamsOK
  <2>2. WorkerOK'
    BY StreamsAssumption DEF StartStopStream, RequestPass, workerVars, WorkerOK
  <2>3. PlatformOK' /\ PortsOK'
    BY DEF StartStopStream, platformVars, portVars, PlatformOK, PortsOK
  <2>4. SelectOK' /\ HardwareOK'
    BY DEF StartStopStream, selectVars, hwVars, SelectOK, HardwareOK
  <2> QED BY <2>1, <2>2, <2>3, <2>4
<1>5. ASSUME NEW devs \in DeviceChoices, NEW m \in MasksOfDir(DirOf[s]),
             NEW mode \in AndroidModes, SetStreamParameters(s, devs, m, mode)
      PROVE  TypeOK'
  <2> USE <1>5
  <2>1. m \in Masks /\ devs \in SUBSET Devices /\ mode \in Modes
    BY RulesAssumption, <1>d DEF MasksOfDir, Uses
  <2>2. PlatformOK'
    BY <2>1, <1>d DEF SetStreamParameters, PlatformOK, Events
  <2>3. StreamsOK'
    <3>1. client' = client \/ client' = Requesting(s)
      BY DEF SetStreamParameters, RequestPass
    <3>2. client' \in [Streams -> {"idle", "calling", "waiting"}]
      BY <3>1 DEF Requesting, StreamsOK
    <3>3. mask' \in [Streams -> Masks \cup {NoMask}]
      BY <2>1 DEF SetStreamParameters, StreamsOK
    <3>4. newDevices' \in [Streams -> SUBSET Devices]
      BY <2>1 DEF SetStreamParameters, StreamsOK
    <3> QED BY <3>2, <3>3, <3>4 DEF SetStreamParameters, StreamsOK
  <2>4. WorkerOK'
    BY StreamsAssumption DEF SetStreamParameters, RequestPass, workerVars, WorkerOK
  <2>5. PortsOK' /\ SelectOK' /\ HardwareOK'
    BY DEF SetStreamParameters, portVars, selectVars, hwVars, PortsOK, SelectOK, HardwareOK
  <2> QED BY <2>2, <2>3, <2>4, <2>5
<1> QED BY <1>1, <1>2, <1>3, <1>4, <1>5

\* The beginning of a pass keeps the types, but of the platform variables,
\* and of pending, that its caller may change.
LEMMA BeginPassType ==
    TypeOK /\ BeginPass =>
        StreamsOK' /\ PortsOK' /\ SelectOK' /\ HardwareOK' /\
        (pending' \in 0..MaxPending => WorkerOK')
<1> SUFFICES ASSUME TypeOK, BeginPass
             PROVE  StreamsOK' /\ PortsOK' /\ SelectOK' /\ HardwareOK' /\
                    (pending' \in 0..MaxPending => WorkerOK')
  OBVIOUS
<1> USE DEF TypeOK
<1>1. StreamsOK' /\ HardwareOK'
  BY DEF BeginPass, streamVars, hwVars, StreamsOK, HardwareOK
<1>2. PortsOK'
  BY DEF BeginPass, PortsOK, Nullable
<1>3. SelectOK'
  BY DEF BeginPass, NoNewStream, SelectOK, Nullable
<1>4. pending' \in 0..MaxPending => WorkerOK'
  BY DEF BeginPass, GoTo, WorkerOK, Stages
<1> QED BY <1>1, <1>2, <1>3, <1>4

\* So do the three handlers that begin one.
LEMMA PassBeginningsType ==
    TypeOK /\ (UpdateRouting \/ UpdateModem \/ SetMicMute) => TypeOK'
<1> SUFFICES ASSUME TypeOK, UpdateRouting \/ UpdateModem \/ SetMicMute
             PROVE  TypeOK'
  OBVIOUS
<1>1. BeginPass
  BY DEF UpdateRouting, UpdateModem, SetMicMute
<1>2. pending' \in 0..MaxPending
  BY StreamsAssumption DEF UpdateRouting, UpdateModem, SetMicMute, TypeOK, WorkerOK
<1>3. PlatformOK'
  BY DEF UpdateRouting, UpdateModem, SetMicMute, TypeOK, PlatformOK, platformVars, Events
<1> QED BY <1>1, <1>2, <1>3, BeginPassType DEF TypeOK

\* What FinishPass changes keeps its type.
LEMMA FinishPassType ==
    ASSUME TypeOK, FinishPass
    PROVE  /\ events' \subseteq Events
           /\ client' \in [Streams -> {"idle", "calling", "waiting"}]
           /\ stage' \in Stages /\ todo' \subseteq Evaluations /\ firstDir' \in Dirs
<1>1. client' \in [Streams -> {"idle", "calling", "waiting"}]
  BY DEF FinishPass, Released, TypeOK, StreamsOK
<1> QED BY <1>1 DEF FinishPass, GoTo, Stages, Dirs

\* Going to a stage that visits uses.
LEMMA GoToType ==
    ASSUME NEW st \in Stages, NEW S, S \subseteq Uses, NEW d \in Dirs,
           GoTo(st, Visits(S), d)
    PROVE  stage' \in Stages /\ todo' \subseteq Evaluations /\ firstDir' \in Dirs
BY VisitsType DEF GoTo

\* The steps between two stages, and the two ends of a pass.
LEMMA StagesType ==
    TypeOK /\ (\/ KeepRouting \/ MuteStage \/ DisableEnd \/ PostDisableEnd
               \/ ConfigureEnd \/ PreEnableEnd \/ EnableEnd \/ UnmuteStage)
        => TypeOK'
<1> SUFFICES ASSUME TypeOK,
                    \/ KeepRouting \/ MuteStage \/ DisableEnd \/ PostDisableEnd
                    \/ ConfigureEnd \/ PreEnableEnd \/ EnableEnd \/ UnmuteStage
             PROVE  TypeOK'
  OBVIOUS
<1> USE DEF TypeOK
<1>1. PortsOK' /\ SelectOK' /\ HardwareOK'
  <2>1. UNCHANGED <<portVars, selectVars, hwVars>>
    BY DEF KeepRouting, MuteStage, DisableEnd, PostDisableEnd, ConfigureEnd,
           PreEnableEnd, EnableEnd, UnmuteStage
  <2> QED BY <2>1 DEF portVars, selectVars, hwVars, PortsOK, SelectOK, HardwareOK
<1>2. CASE KeepRouting \/ UnmuteStage
  <2>1. FinishPass /\ UNCHANGED <<devices, androidMode, modemUp, inputSource, list,
                                 started, mask, newDevices, pending, fatal>>
        /\ muted' \in {muted, {}}
    BY <1>2 DEF KeepRouting, UnmuteStage
  <2>2. PlatformOK' /\ StreamsOK'
    BY <2>1, FinishPassType DEF PlatformOK, StreamsOK
  <2>3. WorkerOK'
    BY <2>1, FinishPassType DEF WorkerOK
  <2> QED BY <1>1, <2>2, <2>3
<1>3. CASE \/ MuteStage \/ DisableEnd \/ PostDisableEnd \/ ConfigureEnd
           \/ PreEnableEnd \/ EnableEnd
  <2>1. UNCHANGED <<platformVars, streamVars, pending, fatal>>
        /\ muted' \in {muted, ClosingRoutes}
    BY <1>3 DEF MuteStage, DisableEnd, PostDisableEnd, ConfigureEnd, PreEnableEnd,
                EnableEnd
  <2>2. PlatformOK' /\ StreamsOK'
    BY <2>1 DEF PlatformOK, StreamsOK, platformVars, streamVars
  <2>3. Disabled \subseteq Uses /\ Enabled \subseteq Uses
        /\ needReconfig \ rerouting \subseteq Uses /\ ClosingRoutes \subseteq Uses
    BY DEF Disabled, Enabled, ClosingRoutes, SelectOK
  <2>4. PICK st \in Stages, S \in SUBSET Uses, d \in Dirs : GoTo(st, Visits(S), d)
    <3>1. Visits({}) = {}
      BY DEF Visits
    <3> QED BY <1>3, <2>3, <3>1 DEF MuteStage, DisableEnd, PostDisableEnd,
                 ConfigureEnd, PreEnableEnd, EnableEnd, Stages, Dirs
  <2>5. WorkerOK'
    BY <2>1, <2>3, <2>4, GoToType DEF WorkerOK
  <2> QED BY <1>1, <2>2, <2>5
<1> QED BY <1>2, <1>3

\* Visiting a route keeps the worker's variables typed.
LEMMA VisitType ==
    ASSUME TypeOK, NEW st, NEW e, Visit(st, e)
    PROVE  /\ e \in Evaluations
           /\ stage' \in Stages /\ todo' \subseteq Evaluations /\ firstDir' \in Dirs
BY DEF Visit, TypeOK, WorkerOK

\* The selection of one route.
LEMMA PrepareRouteType ==
    ASSUME TypeOK, NEW e, NEW s \in Nullable(Streams), PrepareRoute(e, s)
    PROVE  TypeOK'
<1> USE DEF TypeOK
<1> DEFINE u == UseOf(e)
<1>1. /\ e \in Evaluations
      /\ stage' \in Stages /\ todo' \subseteq Evaluations /\ firstDir' \in Dirs
  BY VisitType DEF PrepareRoute
<1>2. u \in Uses /\ e[3] \in Routes
  BY <1>1, UseOfType
<1>3. PlatformOK' /\ StreamsOK' /\ HardwareOK'
  BY DEF PrepareRoute, platformVars, streamVars, hwVars, PlatformOK, StreamsOK, HardwareOK
<1>4. SelectOK'
  <2>1. s # None => s \in Streams
    BY DEF Nullable
  <2>2. pNew' \in [Uses -> Nullable(Streams)]
    BY <1>2, <2>1 DEF PrepareRoute, SelectOK, Nullable
  <2>3. newRoute' \in [Streams -> Nullable(Routes)]
    BY <1>2, <2>1 DEF PrepareRoute, SelectOK, Nullable
  <2>4. will' \subseteq Uses /\ rerouting' \subseteq Uses /\ needReconfig' \subseteq Uses
    BY <1>2 DEF PrepareRoute, SelectOK
  <2> QED BY <2>2, <2>3, <2>4 DEF PrepareRoute, SelectOK
<1>5. PortsOK' /\ fatal' \subseteq Faults
  <2>1. CASE UNCHANGED <<portVars, fatal>>
    BY <2>1 DEF portVars, PortsOK, WorkerOK
  <2>2. CASE ClaimPorts(e[3])
    <3>1. portUser' \in [Ports -> Nullable(Routes)]
      BY <1>2, <2>2 DEF ClaimPorts, PortsOK, Nullable
    <3>2. portBlocked' \subseteq Ports /\ blocked' \subseteq Routes
      BY <2>2 DEF ClaimPorts, PortsOK, Peers, RoutesOn
    <3>3. fatal' \subseteq Faults
      BY <2>2 DEF ClaimPorts, WorkerOK, Faults
    <3> QED BY <3>1, <3>2, <3>3 DEF PortsOK
  <2> QED BY <2>1, <2>2 DEF PrepareRoute
<1>6. WorkerOK'
  BY <1>1, <1>5 DEF PrepareRoute, WorkerOK
<1> QED BY <1>3, <1>4, <1>5, <1>6

\* The assertions of CAudioStreamRoute are known faults.
LEMMA FaultType ==
    ASSUME NEW c \in BOOLEAN, NEW f \in Faults
    PROVE  Fault(c, f) \subseteq Faults
BY DEF Fault

\* A step on one route that leaves the selection alone keeps the type when it
\* keeps the type of the hardware variables.
LEMMA RouteStepType ==
    ASSUME TypeOK, NEW st, NEW e, Visit(st, e), HardwareOK', fatal' \subseteq Faults,
           UNCHANGED <<platformVars, streamVars, portVars, selectVars, muted, pending>>
    PROVE  TypeOK'
<1>1. PlatformOK' /\ StreamsOK'
  BY DEF TypeOK, platformVars, streamVars, PlatformOK, StreamsOK
<1>2. PortsOK' /\ SelectOK'
  BY DEF TypeOK, portVars, selectVars, PortsOK, SelectOK
<1>3. WorkerOK'
  BY VisitType DEF TypeOK, WorkerOK
<1> QED BY <1>1, <1>2, <1>3 DEF TypeOK

\* The steps that disable routes.
LEMMA DisablingType ==
    ASSUME TypeOK, NEW e, DisableRoute(e) \/ PostDisableRoute(e)
    PROVE  TypeOK'
<1> DEFINE u == UseOf(e)
<1>1. e \in Evaluations
  BY VisitType DEF DisableRoute, PostDisableRoute
<1>2. u \in Uses
  BY <1>1, UseOfType
<1>3. fatal \subseteq Faults /\ HardwareOK
  BY DEF TypeOK, WorkerOK
<1>4. {"detach", "close"} \subseteq Faults
  BY DEF Faults
<1>5. CASE DisableRoute(e)
  <2>1. att' \in [Streams -> Attachments]
    BY <1>2, <1>3, <1>5, DetachCurrentType DEF DisableRoute, HardwareOK
  <2>2. pCur' \in [Uses -> Nullable(Streams)]
    BY <1>3, <1>5 DEF DisableRoute, HardwareOK, Nullable
  <2>3. HardwareOK'
    BY <1>3, <1>5, <2>1, <2>2 DEF DisableRoute, ClosePcm, HardwareOK
  <2>4. fatal' \subseteq Faults
    BY <1>3, <1>4, <1>5 DEF DisableRoute, Fault
  <2> QED BY <1>5, <2>3, <2>4, RouteStepType DEF DisableRoute
<1>6. CASE PostDisableRoute(e)
  <2>1. HardwareOK'
    BY <1>3, <1>6 DEF PostDisableRoute, ClosePcm, HardwareOK
  <2>2. fatal' \subseteq Faults
    BY <1>3, <1>4, <1>6 DEF PostDisableRoute, Fault
  <2> QED BY <1>6, <2>1, <2>2, RouteStepType DEF PostDisableRoute
<1> QED BY <1>5, <1>6

\* Attaching a stream to its route, or no stream, keeps the type.
LEMMA AttachType ==
    ASSUME TypeOK, NEW a \in [Streams -> Attachments],
           NEW s \in Nullable(Streams), NEW outcome
    PROVE  With(a, s, Attached(s, outcome)) \in [Streams -> Attachments]
BY AttachedType, WithType

\* The configuration of a route that stays in use.
LEMMA ConfigureType ==
    ASSUME TypeOK, NEW e, NEW outcome, ConfigureRoute(e, outcome)
    PROVE  TypeOK'
<1> DEFINE u == UseOf(e)
<1>1. e \in Evaluations
  BY VisitType DEF ConfigureRoute
<1>2. u \in Uses /\ pNew[u] \in Nullable(Streams)
  BY <1>1, UseOfType DEF TypeOK, SelectOK
<1>3. fatal \subseteq Faults /\ HardwareOK
  BY DEF TypeOK, WorkerOK
<1>4. With(att, pNew[u], Reconfigured(pNew[u])) \in [Streams -> Attachments]
  BY <1>2, <1>3, ReconfiguredType, WithType DEF HardwareOK
<1>5. With(DetachCurrent(u), pNew[u], Attached(pNew[u], outcome))
        \in [Streams -> Attachments]
  BY <1>2, DetachCurrentType, AttachType
<1>6. att' \in [Streams -> Attachments]
  BY <1>3, <1>4, <1>5 DEF ConfigureRoute, HardwareOK
<1>7. pCur' \in [Uses -> Nullable(Streams)]
  BY <1>2, <1>3 DEF ConfigureRoute, HardwareOK, Nullable
<1>8. HardwareOK'
  BY <1>3, <1>6, <1>7 DEF ConfigureRoute, HardwareOK
<1>9. fatal' \subseteq Faults
  BY <1>3 DEF ConfigureRoute, Fault, Faults
<1> QED BY <1>8, <1>9, RouteStepType DEF ConfigureRoute

\* The steps that enable routes.
LEMMA EnablingType ==
    ASSUME TypeOK, NEW e, NEW opens, NEW outcome,
           PreEnableRoute(e, opens) \/ EnableRoute(e, opens, outcome)
    PROVE  TypeOK'
<1> DEFINE u == UseOf(e)
<1>1. e \in Evaluations
  BY VisitType DEF PreEnableRoute, EnableRoute
<1>2. u \in Uses /\ pNew[u] \in Nullable(Streams)
  BY <1>1, UseOfType DEF TypeOK, SelectOK
<1>3. fatal \subseteq Faults /\ HardwareOK
  BY DEF TypeOK, WorkerOK
<1>4. fatal' \subseteq Faults
  BY <1>3 DEF PreEnableRoute, EnableRoute, Fault, Faults
<1>5. CASE PreEnableRoute(e, opens)
  <2>1. HardwareOK'
    BY <1>2, <1>3, <1>5 DEF PreEnableRoute, OpenPcm, HardwareOK
  <2> QED BY <1>4, <1>5, <2>1, RouteStepType DEF PreEnableRoute
<1>6. CASE EnableRoute(e, opens, outcome)
  <2>1. With(att, pNew[u], Attached(pNew[u], outcome)) \in [Streams -> Attachments]
    BY <1>2, <1>3, AttachType DEF HardwareOK
  <2>2. att' \in [Streams -> Attachments]
    BY <1>3, <1>6, <2>1 DEF EnableRoute, HardwareOK
  <2>3. pCur' \in [Uses -> Nullable(Streams)]
    BY <1>2, <1>3, <1>6 DEF EnableRoute, HardwareOK
  <2>4. cur' \subseteq Uses /\ pcm' \subseteq Uses
    BY <1>2, <1>3, <1>6 DEF EnableRoute, OpenPcm, HardwareOK
  <2>5. HardwareOK'
    BY <2>2, <2>3, <2>4 DEF HardwareOK
  <2> QED BY <1>4, <1>6, <2>5, RouteStepType DEF EnableRoute
<1> QED BY <1>5, <1>6

\* A step of a pass keeps the types.
LEMMA PassStepType == TypeOK /\ PassStep => TypeOK'
BY StagesType, PrepareRouteType, DisablingType, ConfigureType, EnablingType
DEF PassStep

\* Every step of the specification keeps every variable in its type.
LEMMA NextType == TypeOK /\ [Next]_vars => TypeOK'
<1>1. TypeOK /\ UNCHANGED vars => TypeOK'
  BY DEF vars, platformVars, streamVars, portVars, selectVars, hwVars, workerVars,
         TypeOK, PlatformOK, StreamsOK, PortsOK, SelectOK, HardwareOK, WorkerOK
<1> QED BY <1>1, FrameworkType, PassBeginningsType, PassStepType DEF Next

\* Every variable keeps its type, whatever the streams do and whatever fails.
THEOREM TypeCorrect == Spec => []TypeOK
<1> QED BY InitType, NextType, PTL DEF Spec

-----------------------------------------------------------------------------
(* Exclusive ports.  The selection is exclusive because a port in use blocks *)
(* its peers and a blocked port blocks its routes; the hardware is exclusive *)
(* because every use outside the selection is disabled before any use of the *)
(* selection is enabled.                                                     *)

\* What prepareRouting maintains while it goes over the routes.
SelectionInv ==
    /\ \A u \in will : \A p \in PortsOf[u[2]] : portUser[p] # None
    /\ \A p \in Ports : portUser[p] # None => Peers(p) \subseteq portBlocked
    /\ \A r \in Routes : PortsOf[r] \cap portBlocked # {} => r \in blocked
    /\ \A u, v \in will : ~Rivals(u[2], v[2])

\* What is left of the old selection in the hardware, stage by stage.
StageInv ==
    /\ rerouting \subseteq will
    /\ stage = "prepare" => cur \subseteq prevEnabled
    /\ stage = "postDisable" =>
         \A u \in cur : u \notin will => <<u[1], u[2], u[2]>> \in todo
    /\ stage \in {"idle", "configure", "preEnable", "enable", "unmute"} =>
         cur \subseteq will
    /\ stage = "enable" => \A e \in todo : UseOf(e) \in will

ExclusiveInv == TypeOK /\ SelectionInv /\ StageInv /\ ExclusivePorts

\* What the invariant reads.
exclusiveVars == <<portVars, will, rerouting, prevEnabled, cur, stage, todo>>

\* A step that leaves these alone keeps the invariant.
LEMMA ExclusiveKept ==
    ASSUME ExclusiveInv, UNCHANGED exclusiveVars, TypeOK'
    PROVE  ExclusiveInv'
BY DEF ExclusiveInv, SelectionInv, StageInv, ExclusivePorts, exclusiveVars, portVars

\* Being in one port group is symmetric.
LEMMA PeersSymmetric ==
    ASSUME NEW p \in Ports, NEW q \in Ports
    PROVE  q \in Peers(p) <=> p \in Peers(q)
BY DEF Peers

\* So is having ports in one group, and no route is its own rival.
LEMMA RivalsSymmetric ==
    ASSUME NEW r \in Routes, NEW q \in Routes
    PROVE  /\ Rivals(r, q) => Rivals(q, r)
           /\ ~Rivals(r, r)
<1>1. PortsOf[r] \subseteq Ports /\ PortsOf[q] \subseteq Ports
  BY PortsAssumption
<1>2. Rivals(r, q) => Rivals(q, r)
  BY <1>1, PeersSymmetric DEF Rivals
<1>3. ~Rivals(r, r)
  BY <1>1, PortsAssumption DEF Rivals, Peers
<1> QED BY <1>2, <1>3

\* A route that is not blocked has no port on the blocked side, and is no
\* rival of a selected route.
LEMMA UnblockedIsNoRival ==
    ASSUME TypeOK, SelectionInv, NEW r \in Routes, r \notin blocked, NEW v \in will
    PROVE  ~Rivals(r, v[2])
<1> SUFFICES ASSUME NEW p \in PortsOf[r], NEW q \in Peers(p), q \in PortsOf[v[2]]
             PROVE  FALSE
  BY DEF Rivals
<1>1. p \in Ports /\ q \in Ports
  BY PortsAssumption DEF Peers
<1>2. portUser[q] # None
  BY DEF SelectionInv
<1>3. p \in Peers(q)
  BY <1>1, PeersSymmetric
<1>4. p \in portBlocked
  BY <1>1, <1>2, <1>3 DEF SelectionInv
<1> QED BY <1>4 DEF SelectionInv

\* Claiming the ports of an unblocked route condemns no port in use: the
\* assertion of CAudioPort::setBlocked holds.
LEMMA ClaimedPortsAreFree ==
    ASSUME TypeOK, SelectionInv, NEW r \in Routes, r \notin blocked, ClaimPorts(r)
    PROVE  fatal' = fatal
<1> DEFINE claimed == {p \in PortsOf[r] : portUser[p] = None}
<1> DEFINE condemned == (UNION {Peers(p) : p \in claimed}) \ portBlocked
<1>1. ASSUME NEW q \in condemned, portUser'[q] # None
      PROVE  FALSE
  <2>1. PICK p \in claimed : q \in Peers(p)
    OBVIOUS
  <2>2. p \in Ports /\ q \in Ports /\ p \in PortsOf[r] /\ q \notin portBlocked
    <3>1. q \notin portBlocked
      BY <1>1
    <3>2. p \in PortsOf[r]
      BY <2>1
    <3> QED BY <2>1, <3>1, <3>2, PortsAssumption DEF Peers
  <2>3. q \notin PortsOf[r]
    BY <2>1, <2>2, PortsAssumption DEF Peers
  <2>4. portUser[q] # None
    BY <1>1, <2>2, <2>3 DEF ClaimPorts
  <2>5. p \in Peers(q)
    BY <2>1, <2>2, PeersSymmetric
  <2>6. p \in portBlocked
    BY <2>2, <2>4, <2>5 DEF SelectionInv
  <2> QED BY <2>2, <2>6 DEF SelectionInv
<1> QED BY <1>1 DEF ClaimPorts

\* A route that is selected was applicable, hence not blocked, and claims its
\* ports; one that is not claims nothing.
LEMMA SelectedOrNot ==
    ASSUME NEW e, NEW s \in Nullable(Streams), PrepareRoute(e, s)
    PROVE  \/ /\ will' = will \cup {UseOf(e)}
              /\ e[3] \notin blocked
              /\ ClaimPorts(e[3])
           \/ UNCHANGED <<will, portVars, fatal, rerouting>>
BY DEF PrepareRoute, ApplicableStream, Applicable

\* Selecting a route keeps the selection exclusive.
LEMMA PrepareKeepsSelection ==
    ASSUME TypeOK, SelectionInv, NEW e, NEW s \in Nullable(Streams), PrepareRoute(e, s)
    PROVE  SelectionInv' /\ rerouting' \subseteq rerouting \cup will'
<1> DEFINE r == e[3]
<1> DEFINE u == UseOf(e)
<1>1. r \in Routes /\ u \in Uses /\ u[2] = r
  BY VisitType, UseOfType DEF PrepareRoute
<1>2. rerouting' \subseteq rerouting \cup will'
  BY DEF PrepareRoute
<1>3. CASE UNCHANGED <<will, portVars, fatal, rerouting>>
  BY <1>2, <1>3 DEF SelectionInv, portVars
<1>4. CASE will' = will \cup {u} /\ r \notin blocked /\ ClaimPorts(r)
  <2>1. \A p \in Ports : portUser'[p] # None <=> portUser[p] # None \/ p \in PortsOf[r]
    BY <1>1, <1>4, StreamsAssumption, PortsAssumption DEF ClaimPorts
  <2>2. \A w \in will' : PortsOf[w[2]] \subseteq Ports
    BY <1>1, <1>4, PortsAssumption DEF TypeOK, SelectOK, Uses
  <2>3. \A w \in will' : \A p \in PortsOf[w[2]] : portUser'[p] # None
    BY <1>1, <1>4, <2>1, <2>2 DEF SelectionInv
  <2>4. \A p \in Ports : portUser'[p] # None => Peers(p) \subseteq portBlocked'
    <3> SUFFICES ASSUME NEW p \in Ports, portUser'[p] # None
                 PROVE  Peers(p) \subseteq portBlocked'
      OBVIOUS
    <3>1. CASE portUser[p] # None
      BY <1>4, <3>1 DEF SelectionInv, ClaimPorts
    <3>2. CASE portUser[p] = None
      <4>1. p \in PortsOf[r]
        BY <2>1, <3>2
      <4> QED BY <1>4, <3>2, <4>1 DEF ClaimPorts
    <3> QED BY <3>1, <3>2
  <2>5. \A q \in Routes : PortsOf[q] \cap portBlocked' # {} => q \in blocked'
    BY <1>4 DEF SelectionInv, ClaimPorts, RoutesOn
  <2>6. \A v, w \in will' : ~Rivals(v[2], w[2])
    <3>1. \A v \in will : v[2] \in Routes
      BY DEF TypeOK, SelectOK, Uses
    <3>2. \A v \in will : ~Rivals(r, v[2]) /\ ~Rivals(v[2], r)
      BY <1>1, <1>4, <3>1, UnblockedIsNoRival, RivalsSymmetric
    <3>3. ~Rivals(r, r)
      BY <1>1, RivalsSymmetric
    <3> QED BY <1>1, <1>4, <3>2, <3>3 DEF SelectionInv
  <2> QED BY <1>2, <2>3, <2>4, <2>5, <2>6 DEF SelectionInv
<1> QED BY <1>3, <1>4, SelectedOrNot

\* The calls of the framework touch neither the selection nor the hardware.
LEMMA FrameworkKeeps == Framework => UNCHANGED <<exclusiveVars, fatal>>
BY DEF Framework, OpenStream, CloseStream, SetStandby, StartStopStream,
       SetStreamParameters, RequestPass, exclusiveVars, portVars, selectVars, hwVars,
       workerVars

\* A pass begins with an empty selection.
LEMMA BeginPassExclusive ==
    ASSUME ExclusiveInv, BeginPass, TypeOK'
    PROVE  ExclusiveInv' /\ fatal' = fatal
<1>1. SelectionInv'
  <2>1. will' = {} /\ portBlocked' = {} /\ portUser' = [p \in Ports |-> None]
    BY DEF BeginPass
  <2> QED BY <2>1 DEF SelectionInv
<1>2. /\ cur' = cur /\ rerouting' = {} /\ stage' = "prepare" /\ fatal' = fatal
      /\ prevEnabled' = will /\ stage = "idle"
  BY DEF BeginPass, GoTo, hwVars, LockFree
<1>3. StageInv'
  BY <1>2 DEF ExclusiveInv, StageInv
<1>4. ExclusivePorts'
  BY <1>2 DEF ExclusiveInv, ExclusivePorts
<1> QED BY <1>1, <1>2, <1>3, <1>4 DEF ExclusiveInv

\* Going over the routes in the selection changes no hardware.
LEMMA PrepareExclusive ==
    ASSUME ExclusiveInv, NEW e, NEW s \in Nullable(Streams), PrepareRoute(e, s), TypeOK'
    PROVE  ExclusiveInv' /\ fatal' = fatal
<1>1. SelectionInv' /\ rerouting' \subseteq rerouting \cup will'
  BY PrepareKeepsSelection DEF ExclusiveInv
<1>2. /\ cur' = cur /\ stage = "prepare" /\ stage' = "prepare"
      /\ prevEnabled' = prevEnabled /\ will \subseteq will'
  BY DEF PrepareRoute, Visit, hwVars
<1>3. StageInv'
  BY <1>1, <1>2 DEF ExclusiveInv, StageInv
<1>4. ExclusivePorts'
  BY <1>2 DEF ExclusiveInv, ExclusivePorts
<1>5. fatal' = fatal
  <2>1. e[3] \in Routes
    BY VisitType, UseOfType DEF PrepareRoute, ExclusiveInv
  <2> QED BY <2>1, SelectedOrNot, ClaimedPortsAreFree DEF ExclusiveInv
<1> QED BY <1>1, <1>3, <1>4, <1>5 DEF ExclusiveInv

\* Between the stages: at the end of the disabling ones what is left of the
\* hardware is selected.
LEMMA StagesExclusive ==
    ASSUME ExclusiveInv, TypeOK',
           \/ KeepRouting \/ MuteStage \/ DisableEnd \/ PostDisableEnd
           \/ ConfigureEnd \/ PreEnableEnd \/ EnableEnd \/ UnmuteStage
    PROVE  ExclusiveInv' /\ fatal' = fatal
<1>1. UNCHANGED <<portVars, selectVars, hwVars, fatal>>
  BY DEF KeepRouting, MuteStage, DisableEnd, PostDisableEnd, ConfigureEnd,
         PreEnableEnd, EnableEnd, UnmuteStage
<1>2. SelectionInv' /\ ExclusivePorts'
  BY <1>1 DEF ExclusiveInv, SelectionInv, ExclusivePorts, portVars, selectVars, hwVars
<1>3. UNCHANGED <<will, rerouting, cur, prevEnabled>>
  BY <1>1 DEF selectVars, hwVars
<1>4. StageInv'
  <2>1. CASE KeepRouting
    BY <1>3, <2>1 DEF KeepRouting, Leave, RoutesWillChange, FinishPass, GoTo,
                      ExclusiveInv, StageInv
  <2>2. CASE MuteStage
    BY <1>3, <2>2 DEF MuteStage, GoTo, ExclusiveInv, StageInv
  <2>3. CASE DisableEnd
    <3>1. \A u \in cur : u \notin will => u \in Disabled
      BY DEF Disabled, ExclusiveInv, TypeOK, HardwareOK
    <3>2. stage' = "postDisable" /\ todo' = Visits(Disabled)
      BY <2>3 DEF DisableEnd, GoTo
    <3>3. \A u \in cur : u \notin will => <<u[1], u[2], u[2]>> \in todo'
      BY <3>1, <3>2 DEF Visits
    <3> QED BY <1>3, <3>2, <3>3 DEF ExclusiveInv, StageInv
  <2>4. CASE PostDisableEnd
    <3>1. cur \subseteq will
      BY <2>4 DEF PostDisableEnd, Leave, ExclusiveInv, StageInv
    <3>2. stage' = "configure"
      BY <2>4 DEF PostDisableEnd, GoTo
    <3> QED BY <1>3, <3>1, <3>2 DEF ExclusiveInv, StageInv
  <2>5. CASE ConfigureEnd
    BY <1>3, <2>5 DEF ConfigureEnd, Leave, GoTo, ExclusiveInv, StageInv
  <2>6. CASE PreEnableEnd
    <3>1. stage = "preEnable" /\ stage' = "enable" /\ todo' = Visits(Enabled)
      BY <2>6 DEF PreEnableEnd, Leave, GoTo
    <3>2. Enabled \subseteq will /\ Enabled \subseteq Uses
      BY DEF Enabled, ExclusiveInv, StageInv
    <3>3. \A f \in Visits(Enabled) : UseOf(f) \in will
      <4> SUFFICES ASSUME NEW u \in Enabled PROVE UseOf(<<u[1], u[2], u[2]>>) \in will
        BY DEF Visits
      <4>1. u = <<u[1], u[2]>>
        BY <3>2 DEF Uses
      <4> QED BY <3>2, <4>1 DEF UseOf
    <3> QED BY <1>3, <3>1, <3>2, <3>3 DEF ExclusiveInv, StageInv, UseOf
  <2>7. CASE EnableEnd
    BY <1>3, <2>7 DEF EnableEnd, Leave, GoTo, ExclusiveInv, StageInv
  <2>8. CASE UnmuteStage
    BY <1>3, <2>8 DEF UnmuteStage, Leave, FinishPass, GoTo, ExclusiveInv, StageInv
  <2> QED BY <2>1, <2>2, <2>3, <2>4, <2>5, <2>6, <2>7, <2>8
<1> QED BY <1>1, <1>2, <1>4 DEF ExclusiveInv

\* The steps on one route that leave cur alone.
LEMMA RouteStepExclusive ==
    ASSUME ExclusiveInv, TypeOK', NEW e,
           \/ DisableRoute(e)
           \/ \E outcome : ConfigureRoute(e, outcome)
           \/ \E opens : PreEnableRoute(e, opens)
    PROVE  ExclusiveInv'
<1>1. UNCHANGED <<portVars, selectVars, cur, stage>>
      /\ stage \in {"disable", "configure", "preEnable"}
  BY DEF DisableRoute, ConfigureRoute, PreEnableRoute, Visit
<1>2. SelectionInv' /\ ExclusivePorts'
  BY <1>1 DEF ExclusiveInv, SelectionInv, ExclusivePorts, portVars, selectVars
<1>3. StageInv'
  BY <1>1 DEF ExclusiveInv, StageInv, selectVars
<1> QED BY <1>2, <1>3 DEF ExclusiveInv

\* A route leaves the hardware.
LEMMA PostDisableExclusive ==
    ASSUME ExclusiveInv, TypeOK', NEW e, PostDisableRoute(e)
    PROVE  ExclusiveInv'
<1>1. /\ UNCHANGED <<portVars, selectVars, stage>> /\ cur' = cur \ {UseOf(e)}
      /\ stage = "postDisable" /\ todo' = todo \ {e}
  BY DEF PostDisableRoute, Visit
<1>2. SelectionInv' /\ ExclusivePorts'
  BY <1>1 DEF ExclusiveInv, SelectionInv, ExclusivePorts, portVars, selectVars
<1>3. \A u \in cur' : u \notin will' => <<u[1], u[2], u[2]>> \in todo'
  <2> SUFFICES ASSUME NEW u \in cur, u # UseOf(e), u \notin will
               PROVE  <<u[1], u[2], u[2]>> \in todo \ {e}
    BY <1>1 DEF selectVars
  <2>1. <<u[1], u[2], u[2]>> \in todo
    BY <1>1 DEF ExclusiveInv, StageInv
  <2>2. UseOf(<<u[1], u[2], u[2]>>) = <<u[1], u[2]>>
    BY DEF UseOf
  <2>3. u = <<u[1], u[2]>>
    BY DEF ExclusiveInv, TypeOK, HardwareOK, Uses
  <2> QED BY <2>1, <2>2, <2>3
<1>4. StageInv'
  BY <1>1, <1>3 DEF ExclusiveInv, StageInv, selectVars
<1> QED BY <1>2, <1>4 DEF ExclusiveInv

\* A route enters the hardware: it is selected, and so is all that is left.
LEMMA EnableExclusive ==
    ASSUME ExclusiveInv, TypeOK', NEW e, NEW opens, NEW outcome,
           EnableRoute(e, opens, outcome)
    PROVE  ExclusiveInv'
<1>1. /\ UNCHANGED <<portVars, selectVars, stage>> /\ cur' \subseteq cur \cup {UseOf(e)}
      /\ stage = "enable" /\ todo' \subseteq todo /\ e \in todo
  BY DEF EnableRoute, Visit
<1>2. cur' \subseteq will
  BY <1>1 DEF ExclusiveInv, StageInv
<1>3. SelectionInv'
  BY <1>1 DEF ExclusiveInv, SelectionInv, portVars, selectVars
<1>4. ExclusivePorts'
  BY <1>2 DEF ExclusiveInv, SelectionInv, ExclusivePorts
<1>5. StageInv'
  BY <1>1, <1>2 DEF ExclusiveInv, StageInv, selectVars
<1> QED BY <1>3, <1>4, <1>5 DEF ExclusiveInv

\* The invariant is inductive.
LEMMA ExclusiveInit == Init => ExclusiveInv
<1> SUFFICES ASSUME Init PROVE ExclusiveInv
  OBVIOUS
<1>1. TypeOK
  BY InitType
<1>2. SelectionInv
  <2>1. will = {} /\ portBlocked = {} /\ portUser = [p \in Ports |-> None]
    BY DEF Init
  <2> QED BY <2>1 DEF SelectionInv
<1>3. StageInv /\ ExclusivePorts
  BY DEF Init, StageInv, ExclusivePorts
<1> QED BY <1>1, <1>2, <1>3 DEF ExclusiveInv

\* Every step keeps the invariant: the claim of ports blocks the rivals before
\* they can be selected, and the disable stages come before the enable stages.
LEMMA ExclusiveNext == ExclusiveInv /\ [Next]_vars => ExclusiveInv'
<1> SUFFICES ASSUME ExclusiveInv, [Next]_vars PROVE ExclusiveInv'
  OBVIOUS
<1>1. TypeOK'
  BY NextType DEF ExclusiveInv
<1>2. CASE Framework
  BY <1>1, <1>2, FrameworkKeeps, ExclusiveKept
<1>3. CASE UNCHANGED vars
  <2>1. UNCHANGED exclusiveVars
    BY <1>3 DEF vars, exclusiveVars, portVars, selectVars, hwVars, workerVars
  <2> QED BY <1>1, <2>1, ExclusiveKept
<1>4. CASE UpdateRouting \/ UpdateModem \/ SetMicMute
  BY <1>1, <1>4, BeginPassExclusive DEF UpdateRouting, UpdateModem, SetMicMute
<1>5. CASE PassStep
  BY <1>1, <1>5, StagesExclusive, PrepareExclusive, RouteStepExclusive,
     PostDisableExclusive, EnableExclusive DEF PassStep
<1> QED BY <1>2, <1>3, <1>4, <1>5 DEF Next

\* Routes on mutually exclusive ports are never active together, for every
\* table of routes, ports and groups, in every interleaving of the streams
\* with a pass and whatever fails in it.
THEOREM PortsAreExclusive == Spec => []ExclusivePorts
<1>1. ExclusiveInv => ExclusivePorts
  BY DEF ExclusiveInv
<1> QED BY <1>1, ExclusiveInit, ExclusiveNext, PTL DEF Spec

\* The assertion of CAudioPort::setBlocked: no port in use is ever blocked.
THEOREM BlockedPortsAreUnused == Spec => []("blocked" \notin fatal)
<1> DEFINE Inv == ExclusiveInv /\ "blocked" \notin fatal
<1>1. Init => Inv
  BY ExclusiveInit DEF Init
<1>2. Inv /\ [Next]_vars => Inv'
  <2> SUFFICES ASSUME Inv, [Next]_vars PROVE "blocked" \notin fatal'
    BY ExclusiveNext
  <2>1. TypeOK'
    BY NextType DEF ExclusiveInv
  <2>2. CASE Framework \/ UNCHANGED vars
    BY <2>2, FrameworkKeeps DEF vars
  <2>3. CASE UpdateRouting \/ UpdateModem \/ SetMicMute
    BY <2>1, <2>3, BeginPassExclusive DEF UpdateRouting, UpdateModem, SetMicMute
  <2>4. CASE PassStep
    <3>1. ASSUME NEW e, \/ DisableRoute(e) \/ PostDisableRoute(e)
                        \/ \E outcome : ConfigureRoute(e, outcome)
                        \/ \E opens : PreEnableRoute(e, opens)
                        \/ \E opens, outcome : EnableRoute(e, opens, outcome)
          PROVE  "blocked" \notin fatal'
      <4>1. \A c \in BOOLEAN, f \in {"open", "close", "attach", "detach"} :
              "blocked" \notin Fault(c, f)
        BY DEF Fault
      <4>2. CASE DisableRoute(e)
        BY <4>1, <4>2 DEF DisableRoute
      <4>3. CASE PostDisableRoute(e)
        BY <4>1, <4>3 DEF PostDisableRoute
      <4>4. CASE \E outcome : ConfigureRoute(e, outcome)
        BY <4>1, <4>4 DEF ConfigureRoute
      <4>5. CASE \E opens : PreEnableRoute(e, opens)
        BY <4>1, <4>5 DEF PreEnableRoute
      <4>6. CASE \E opens, outcome : EnableRoute(e, opens, outcome)
        BY <4>1, <4>6 DEF EnableRoute
      <4> QED BY <3>1, <4>2, <4>3, <4>4, <4>5, <4>6
    <3> QED BY <2>1, <2>4, <3>1, StagesExclusive, PrepareExclusive DEF PassStep
  <2> QED BY <2>2, <2>3, <2>4 DEF Next
<1>3. Inv => "blocked" \notin fatal
  OBVIOUS
<1> QED BY <1>1, <1>2, <1>3, PTL DEF Spec


-----------------------------------------------------------------------------
(***************************************************************************)
(* The PCM devices: while nothing but the opening of a device fails, no    *)
(* assertion of the routes and ports fires, a stream is attached to a      *)
(* route only while the device of the route is open and the route knows    *)
(* the stream, and it leaves only a muted route; a stream that was stopped *)
(* is detached when the call returns, and no route knows a stream that was *)
(* closed.                                                                 *)
(***************************************************************************)

\* A stream that fails to attach is left half attached (routing_attach).
OnlyOpeningFails == Failures \subseteq {"open"}

-----------------------------------------------------------------------------
(* Where every use of a stream route is, stage by stage.                   *)

VisitOf(u) == <<u[1], u[2], u[2]>>

InUse(u) == u \in cur /\ u \in pcm /\ pCur[u] # None
Unused(u) == u \notin cur /\ u \notin pcm /\ pCur[u] = None
Settled(u) == InUse(u) \/ Unused(u)
\* After the disable stage, before the one that follows it.
Unrouted(u) == u \in cur /\ pCur[u] = None /\ (u \in pcm <=> IsLpe(u))
\* After the stage before the enable stage.
OpenedEarly(u) == u \notin cur /\ u \in pcm /\ pCur[u] = None /\ IsLpe(u)

Phase(u) ==
    /\ stage \in {"idle", "prepare", "configure", "unmute"} => Settled(u)
    /\ stage = "disable" =>
         IF u \in Disabled /\ VisitOf(u) \notin todo THEN Unrouted(u) ELSE Settled(u)
    /\ stage = "postDisable" =>
         IF VisitOf(u) \in todo THEN Unrouted(u) ELSE Settled(u)
    /\ stage = "preEnable" =>
         Settled(u) \/ (u \in Enabled /\ VisitOf(u) \notin todo /\ OpenedEarly(u))
    /\ stage = "enable" =>
         IF VisitOf(u) \in todo THEN Unused(u) \/ OpenedEarly(u) ELSE Settled(u)
PhaseInv == \A u \in Uses : IsStream(u) => Phase(u)

\* Which uses a stage has left to visit.
TodoInv ==
    /\ stage # "prepare" => \A e \in todo : e = VisitOf(UseOf(e))
    /\ stage = "disable" => \A e \in todo : UseOf(e) \in Disabled
    /\ stage = "postDisable" =>
         /\ \A e \in todo : UseOf(e) \notin will \/ UseOf(e) \in rerouting
         /\ \A u \in rerouting \cap cur : VisitOf(u) \in todo
    /\ stage = "configure" => \A e \in todo : UseOf(e) \in needReconfig \ rerouting
    /\ stage = "preEnable" => \A e \in todo : UseOf(e) \in Enabled
    /\ stage = "enable" => \A e \in todo : UseOf(e) \notin cur

\* The uses that are reconfigured are in use and stay so, but for those that
\* are rerouted, which leave the hardware in between.
ReconfigInv ==
    /\ rerouting \subseteq needReconfig /\ needReconfig \subseteq will
    /\ stage \in {"prepare", "disable"} => needReconfig \subseteq cur
    /\ stage \in {"postDisable", "configure"} => needReconfig \ rerouting \subseteq cur
    /\ stage \in {"configure", "preEnable"} => rerouting \cap cur = {}
    /\ stage \in {"disable", "postDisable", "configure"} => needReconfig \subseteq muted
    /\ stage = "disable" => Disabled \subseteq muted

\* A selected stream route has a new stream, which knows the route.
ChoiceInv ==
    /\ \A u \in will : IsStream(u) => pNew[u] # None
    /\ stage # "idle" => \A u \in Uses : pNew[u] # None =>
         newRoute[pNew[u]] = u[2] /\ DirOf[pNew[u]] = u[1]

\* Every stream is in the list of its direction.
ListsOK == \A d \in Dirs : \A i \in DOMAIN list[d] : DirOf[list[d][i]] = d

DevicesInv ==
    /\ ExclusiveInv /\ NoFatal
    /\ PhaseInv /\ TodoInv /\ ReconfigInv /\ ChoiceInv /\ ListsOK
    /\ RoutedStreamOwnsDevice

\* What the parts read beside the lists and the streams' own routes.
useVars == <<cur, pcm, pCur, stage, todo, will, rerouting, needReconfig, muted, pNew>>

-----------------------------------------------------------------------------
(* Lemmas on visits and attachments.                                       *)

\* The visits of a set of uses are those of its members, each visited once.
LEMMA VisitsOf ==
    ASSUME NEW S \in SUBSET Uses
    PROVE  /\ \A u \in Uses : VisitOf(u) \in Visits(S) <=> u \in S
           /\ \A e \in Visits(S) : UseOf(e) \in S /\ e = VisitOf(UseOf(e))
<1>1. \A u \in Uses : u = <<u[1], u[2]>>
  BY DEF Uses
<1>2. ASSUME NEW u \in Uses, VisitOf(u) \in Visits(S) PROVE u \in S
  <2>1. PICK v \in S : VisitOf(u) = <<v[1], v[2], v[2]>>
    BY <1>2 DEF Visits
  <2>2. u[1] = v[1] /\ u[2] = v[2]
    BY <2>1 DEF VisitOf
  <2> QED BY <1>1, <2>2
<1>3. ASSUME NEW e \in Visits(S)
      PROVE  UseOf(e) \in S /\ e = VisitOf(UseOf(e))
  <2>1. PICK v \in S : e = <<v[1], v[2], v[2]>>
    BY <1>3 DEF Visits
  <2>2. UseOf(e) = <<v[1], v[2]>>
    BY <2>1 DEF UseOf
  <2> QED BY <1>1, <2>1, <2>2 DEF VisitOf
<1> QED BY <1>2, <1>3 DEF Visits, VisitOf

\* A step that visits a use, in a stage where each use is visited once.
LEMMA VisitOnce ==
    ASSUME TypeOK, TodoInv, NEW st, st # "prepare", NEW e, Visit(st, e)
    PROVE  /\ UseOf(e) \in Uses /\ e = VisitOf(UseOf(e)) /\ e \in todo
           /\ stage = st /\ stage' = st /\ todo' \subseteq todo
           /\ VisitOf(UseOf(e)) \notin todo'
           /\ \A v \in Uses : v # UseOf(e) =>
                (VisitOf(v) \in todo' <=> VisitOf(v) \in todo)
<1>1. /\ e \in todo /\ stage = st /\ stage' = st /\ todo' = todo \ {e}
      /\ e \in Evaluations
  BY DEF Visit, TypeOK, WorkerOK
<1>2. UseOf(e) \in Uses /\ e = VisitOf(UseOf(e))
  BY <1>1, UseOfType DEF TodoInv
<1>3. ASSUME NEW v \in Uses, v # UseOf(e) PROVE VisitOf(v) # e
  <2>1. v = <<v[1], v[2]>>
    BY DEF Uses
  <2>2. UseOf(VisitOf(v)) = v
    BY <2>1 DEF UseOf, VisitOf
  <2> QED BY <1>3, <2>2
<1> QED BY <1>1, <1>2, <1>3

\* With changes the attachment of one stream.
LEMMA WithValue ==
    ASSUME NEW a, NEW s, NEW v, NEW t \in Streams
    PROVE  With(a, s, v)[t] = IF t = s THEN v ELSE a[t]
BY DEF With

\* The attachment a detached stream has.
LEMMA DetachedRoute == Detached.route = None
BY DEF Detached

\* What attaching does when only opening a device can fail.
LEMMA AttachSucceeds ==
    ASSUME OnlyOpeningFails, NEW u, NEW outcome \in AttachOutcomes(u), NEW s
    PROVE  /\ outcome = "ok"
           /\ Attached(s, outcome).route = newRoute[s]
           /\ Attached(s, outcome).handle = newRoute[s]
<1>1. outcome = "ok"
  BY DEF OnlyOpeningFails, AttachOutcomes
<1> QED BY <1>1 DEF Attached

\* A disabled use is known by the sets that do not change in a stage.
LEMMA SetsKept ==
    ASSUME UNCHANGED <<cur, will, rerouting>>
    PROVE  Disabled' = Disabled /\ Enabled' = Enabled
BY DEF Disabled, Enabled

-----------------------------------------------------------------------------
(* The steps outside of a pass, and the one that begins it.                *)

\* The initial state: no device is open and nothing is attached.
LEMMA DevicesInit == Init => DevicesInv
<1> SUFFICES ASSUME Init PROVE DevicesInv
  OBVIOUS
<1>1. ExclusiveInv /\ NoFatal
  BY ExclusiveInit DEF Init, NoFatal
<1>2. PhaseInv
  BY DEF Init, PhaseInv, Phase, Settled, Unused
<1>3. TodoInv /\ ReconfigInv /\ ChoiceInv
  BY DEF Init, TodoInv, ReconfigInv, ChoiceInv
<1>4. ListsOK
  BY DEF Init, ListsOK
<1>5. RoutedStreamOwnsDevice
  BY DetachedRoute DEF Init, RoutedStreamOwnsDevice
<1> QED BY <1>1, <1>2, <1>3, <1>4, <1>5 DEF DevicesInv

\* The parts about the uses read nothing else.
LEMMA UsesKept ==
    ASSUME PhaseInv, TodoInv, ReconfigInv, UNCHANGED useVars
    PROVE  PhaseInv' /\ TodoInv' /\ ReconfigInv'
<1>1. Disabled' = Disabled /\ Enabled' = Enabled
  BY SetsKept DEF useVars
<1> QED BY <1>1 DEF useVars, PhaseInv, Phase, Settled, InUse, Unused, Unrouted,
                    OpenedEarly, TodoInv, ReconfigInv

\* The framework's calls: outside of a pass a stream may come and go; none of
\* them gives a stream a route.
LEMMA FrameworkDevices ==
    ASSUME DevicesInv, Framework, ExclusiveInv'
    PROVE  DevicesInv'
<1> USE DEF DevicesInv
<1>1. UNCHANGED useVars /\ NoFatal'
  BY DEF Framework, OpenStream, CloseStream, SetStandby, StartStopStream,
         SetStreamParameters, RequestPass, useVars, NoFatal, portVars, selectVars,
         hwVars, workerVars
<1>2. PhaseInv' /\ TodoInv' /\ ReconfigInv'
  BY <1>1, UsesKept
<1>3. PICK s \in Streams :
         \/ OpenStream(s)
         \/ CloseStream(s)
         \/ UNCHANGED <<list, att, newRoute>>
  BY DEF Framework, SetStandby, StartStopStream, SetStreamParameters, selectVars, hwVars
<1>4. ChoiceInv'
  <2>1. CASE UNCHANGED newRoute
    BY <1>1, <2>1 DEF ChoiceInv, useVars
  <2>2. CASE OpenStream(s)
    <3>1. stage' = "idle"
      BY <2>2 DEF OpenStream, LockFree, workerVars
    <3> QED BY <1>1, <3>1 DEF ChoiceInv, useVars
  <2> QED BY <1>3, <2>1, <2>2 DEF CloseStream, selectVars
<1>5. ListsOK'
  <2>d. DirOf[s] \in Dirs /\ list \in [Dirs -> Seq(Streams)]
    BY StreamsAssumption DEF ExclusiveInv, TypeOK, StreamsOK
  <2> DEFINE l == list[DirOf[s]]
  <2>e. l \in Seq(Streams) /\ \A j \in 1..Len(l) : DirOf[l[j]] = DirOf[s]
    BY <2>d DEF ListsOK
  <2>1. CASE OpenStream(s)
    <3>1. list' = [list EXCEPT ![DirOf[s]] = Append(l, s)]
      BY <2>1 DEF OpenStream
    <3>2. \A j \in DOMAIN Append(l, s) : DirOf[Append(l, s)[j]] = DirOf[s]
      BY <2>e, AppendProperties
    <3> QED BY <2>d, <3>1, <3>2 DEF ListsOK
  <2>2. CASE CloseStream(s)
    <3>1. PICK i \in DOMAIN l :
            list' = [list EXCEPT ![DirOf[s]] =
                       SubSeq(l, 1, i - 1) \o SubSeq(l, i + 1, Len(l))]
      BY <2>2 DEF CloseStream
    <3> DEFINE a == SubSeq(l, 1, i - 1)
    <3> DEFINE b == SubSeq(l, i + 1, Len(l))
    <3>2. i \in 1..Len(l)
      BY <2>e
    <3>3. /\ a \in Seq(Streams) /\ Len(a) = i - 1
          /\ \A j \in 1..Len(a) : DirOf[a[j]] = DirOf[s]
      BY <2>e, <3>2, SubSeqProperties
    <3>4. /\ b \in Seq(Streams) /\ Len(b) = Len(l) - i
          /\ \A j \in 1..Len(b) : DirOf[b[j]] = DirOf[s]
      <4>1. /\ b \in Seq(Streams) /\ Len(b) = Len(l) - i
            /\ \A j \in 1..(Len(l) - (i + 1) + 1) : b[j] = l[i + 1 + j - 1]
        BY <2>e, <3>2, SubSeqProperties
      <4>2. Len(l) \in Nat /\ Len(b) \in Nat
        BY <2>e, <4>1
      <4> HIDE DEF b, l
      <4>3. ASSUME NEW j \in 1..Len(b) PROVE DirOf[b[j]] = DirOf[s]
        <5>0. j \in 1..(Len(l) - (i + 1) + 1)
          BY <3>2, <4>1, <4>2
        <5>1. b[j] = l[i + 1 + j - 1]
          BY <4>1, <5>0
        <5>2. i + 1 + j - 1 \in 1..Len(l)
          BY <3>2, <4>1, <4>2
        <5> QED BY <2>e, <5>1, <5>2
      <4> QED BY <4>1, <4>3
    <3>5. \A j \in DOMAIN (a \o b) : DirOf[(a \o b)[j]] = DirOf[s]
      <4> HIDE DEF a, b
      <4>1. a \o b \in Seq(Streams) /\ Len(a \o b) = Len(a) + Len(b)
        BY <3>3, <3>4, ConcatProperties
      <4>2. \A j \in 1..(Len(a) + Len(b)) :
              (a \o b)[j] = IF j <= Len(a) THEN a[j] ELSE b[j - Len(a)]
        BY <3>3, <3>4, ConcatProperties
      <4>3. DOMAIN (a \o b) = 1..(Len(a) + Len(b))
        BY <4>1
      <4>4. Len(a) \in Nat /\ Len(b) \in Nat
        BY <3>3, <3>4
      <4> SUFFICES ASSUME NEW j \in 1..(Len(a) + Len(b))
                   PROVE  DirOf[(a \o b)[j]] = DirOf[s]
        BY <4>3
      <4>5. CASE j <= Len(a)
        BY <3>3, <4>2, <4>4, <4>5
      <4>6. CASE ~(j <= Len(a))
        <5>1. j - Len(a) \in 1..Len(b)
          BY <4>4, <4>6
        <5> QED BY <3>4, <4>2, <4>6, <5>1
      <4> QED BY <4>5, <4>6
    <3> QED BY <2>d, <3>1, <3>5 DEF ListsOK
  <2>3. CASE UNCHANGED list
    BY <2>3 DEF ListsOK
  <2> QED BY <1>3, <2>1, <2>2, <2>3
<1>6. RoutedStreamOwnsDevice'
  <2>1. CASE UNCHANGED att
    BY <1>1, <2>1 DEF RoutedStreamOwnsDevice, useVars
  <2>2. CASE OpenStream(s)
    <3>1. \A t \in Streams : t # s => att'[t] = att[t]
      BY <2>2 DEF OpenStream, ExclusiveInv, TypeOK, HardwareOK
    <3>2. att'[s] = Detached
      BY <2>2 DEF OpenStream, ExclusiveInv, TypeOK, HardwareOK
    <3> QED BY <1>1, <3>1, <3>2, DetachedRoute DEF RoutedStreamOwnsDevice, useVars
  <2> QED BY <1>3, <2>1, <2>2 DEF CloseStream, hwVars
<1> QED BY <1>1, <1>2, <1>4, <1>5, <1>6

\* A step that changes nothing.
LEMMA StutterDevices ==
    ASSUME DevicesInv, UNCHANGED vars, ExclusiveInv'
    PROVE  DevicesInv'
<1> USE DEF DevicesInv
<1>1. /\ UNCHANGED useVars /\ UNCHANGED <<list, att, newRoute, fatal>>
  BY DEF vars, useVars, streamVars, selectVars, hwVars, workerVars
<1>2. PhaseInv' /\ TodoInv' /\ ReconfigInv'
  BY <1>1, UsesKept
<1>3. NoFatal' /\ ChoiceInv' /\ ListsOK' /\ RoutedStreamOwnsDevice'
  BY <1>1 DEF NoFatal, ChoiceInv, ListsOK, RoutedStreamOwnsDevice, useVars
<1> QED BY <1>2, <1>3

\* A pass begins with nothing selected and the hardware as it was left.
LEMMA BeginPassDevices ==
    ASSUME DevicesInv, BeginPass, ExclusiveInv'
    PROVE  DevicesInv'
<1> USE DEF DevicesInv
<1>1. /\ stage = "idle" /\ stage' = "prepare"
      /\ will' = {} /\ rerouting' = {} /\ needReconfig' = {}
      /\ \A u \in Uses : pNew'[u] = None
      /\ UNCHANGED <<cur, pcm, pCur, att, list, fatal>>
  BY DEF BeginPass, LockFree, GoTo, NoNewStream, streamVars, hwVars
<1>2. PhaseInv'
  BY <1>1 DEF PhaseInv, Phase, Settled, InUse, Unused
<1>3. TodoInv' /\ ReconfigInv' /\ ChoiceInv'
  BY <1>1 DEF TodoInv, ReconfigInv, ChoiceInv
<1>4. NoFatal' /\ ListsOK' /\ RoutedStreamOwnsDevice'
  BY <1>1 DEF NoFatal, ListsOK, RoutedStreamOwnsDevice
<1> QED BY <1>2, <1>3, <1>4

-----------------------------------------------------------------------------
(* The selection.                                                          *)

\* The stream a route gets is one of its direction that has no route yet.
LEMMA ChosenStream ==
    ASSUME TypeOK, ListsOK, NEW d \in Dirs, NEW r, NEW s \in Streams,
           ApplicableStream(s, d, r)
    PROVE  newRoute[s] = None /\ DirOf[s] = d /\ r \in StreamRoutes
<1>1. s # None
  BY StreamsAssumption
<1>2. PICK i \in DOMAIN list[d] : list[d][i] = s /\ Candidate(s, d, r)
  BY <1>1 DEF ApplicableStream, FirstCandidate
<1> QED BY <1>1, <1>2 DEF ApplicableStream, Candidate, ListsOK

\* Going over the routes changes no hardware; a selected route gets a stream
\* that becomes its own, and a route that is rerouted is reconfigured too.
LEMMA PrepareDevices ==
    ASSUME DevicesInv, NEW e, NEW s \in Nullable(Streams), PrepareRoute(e, s),
           ExclusiveInv', fatal' = fatal
    PROVE  DevicesInv'
<1> USE DEF DevicesInv
<1> DEFINE r == e[3]
<1> DEFINE u == UseOf(e)
<1>1. TypeOK
  BY DEF ExclusiveInv
<1>2. /\ r \in Routes /\ u \in Uses /\ u[1] = e[1] /\ u[2] = r /\ e[1] \in Dirs
      /\ stage = "prepare" /\ stage' = "prepare"
      /\ UNCHANGED <<cur, pcm, pCur, att, list>>
  BY <1>1, VisitType, UseOfType DEF PrepareRoute, Visit, hwVars, streamVars
<1>3. NoFatal' /\ ListsOK' /\ RoutedStreamOwnsDevice' /\ TodoInv'
  BY <1>2 DEF NoFatal, ListsOK, RoutedStreamOwnsDevice, TodoInv
<1>4. PhaseInv'
  BY <1>2 DEF PhaseInv, Phase, Settled, InUse, Unused
<1> DEFINE used == Considered(e) /\ (IF r \in StreamRoutes THEN s # None
                                     ELSE Applicable(e[1], r))
<1>5. /\ will' = IF used THEN will \cup {u} ELSE will
      /\ pNew' = IF used /\ s # None THEN [pNew EXCEPT ![u] = s] ELSE pNew
      /\ newRoute' = IF used /\ s # None THEN [newRoute EXCEPT ![s] = r] ELSE newRoute
      /\ rerouting' = IF used /\ NeedsFlush(u) THEN rerouting \cup {u} ELSE rerouting
      /\ needReconfig' = IF Considered(e) /\ NeedReconfiguration(u)'
                         THEN needReconfig \cup {u} ELSE needReconfig
  BY DEF PrepareRoute
<1>6. ReconfigInv'
  <2>1. needReconfig' \subseteq will' /\ needReconfig' \subseteq cur'
    <3>1. NeedReconfiguration(u)' => u \in cur' /\ u \in will'
      BY DEF NeedReconfiguration
    <3>2. will \subseteq will' /\ needReconfig \subseteq will /\ needReconfig \subseteq cur
      BY <1>2, <1>5 DEF ReconfigInv
    <3> HIDE DEF used, u
    <3> QED BY <1>2, <1>5, <3>1, <3>2
  <2>2. rerouting' \subseteq needReconfig'
    <3>1. CASE used /\ NeedsFlush(u)
      <4>1. u[2] \in StreamRoutes /\ u \in cur' /\ u \in will' /\ u \in rerouting'
        BY <1>2, <1>5, <3>1, RoutesAssumption DEF NeedsFlush
      <4>2. NeedReconfiguration(u)'
        BY <4>1 DEF NeedReconfiguration
      <4> HIDE DEF u
      <4> QED BY <1>5, <3>1, <4>2 DEF ReconfigInv
    <3>2. CASE ~(used /\ NeedsFlush(u))
      <4>1. rerouting' = rerouting /\ needReconfig \subseteq needReconfig'
        BY <1>5, <3>2
      <4> QED BY <4>1 DEF ReconfigInv
    <3> QED BY <3>1, <3>2
  <2> QED BY <1>2, <2>1, <2>2 DEF ReconfigInv
<1>7. ChoiceInv'
  <2>1. CASE used /\ s # None
    <3>1. s \in Streams
      BY <2>1 DEF Nullable
    <3>2. newRoute[s] = None /\ DirOf[s] = e[1]
      BY <1>1, <1>2, <3>1, ChosenStream DEF PrepareRoute
    <3>3. /\ pNew'[u] = s /\ \A v \in Uses : v # u => pNew'[v] = pNew[v]
          /\ newRoute'[s] = r /\ \A t \in Streams : t # s => newRoute'[t] = newRoute[t]
          /\ will' = will \cup {u}
      BY <1>1, <1>2, <1>5, <2>1, <3>1 DEF TypeOK, SelectOK
    <3>4. \A v \in Uses : v # u /\ pNew[v] # None => pNew[v] \in Streams /\ pNew[v] # s
      <4>1. \A v \in Uses : v[2] \in Routes /\ pNew[v] \in Nullable(Streams)
        BY <1>1 DEF TypeOK, SelectOK, Uses
      <4> QED BY <1>2, <3>2, <4>1, StreamsAssumption DEF ChoiceInv, Nullable
    <3> HIDE DEF used, u
    <3> QED BY <1>2, <2>1, <3>2, <3>3, <3>4 DEF ChoiceInv, TypeOK, SelectOK, ExclusiveInv
  <2>2. CASE ~(used /\ s # None)
    <3>1. pNew' = pNew /\ newRoute' = newRoute
      BY <1>5, <2>2
    <3>2. used => ~IsStream(u)
      BY <1>2, <2>2 DEF IsStream
    <3>3. \A v \in will' : IsStream(v) => v \in will
      BY <1>5, <3>2
    <3> QED BY <1>2, <3>1, <3>3 DEF ChoiceInv
  <2> QED BY <2>1, <2>2
<1> QED BY <1>3, <1>4, <1>6, <1>7

-----------------------------------------------------------------------------
(* From one stage to the next.                                             *)

\* What no end of a stage changes.
useSets == <<cur, pcm, pCur, will, rerouting, needReconfig, pNew>>

\* At the end of a stage every use is where the next stage expects it.
LEMMA StagesDevices ==
    ASSUME DevicesInv, ExclusiveInv', fatal' = fatal,
           \/ KeepRouting \/ MuteStage \/ DisableEnd \/ PostDisableEnd
           \/ ConfigureEnd \/ PreEnableEnd \/ EnableEnd \/ UnmuteStage
    PROVE  DevicesInv'
<1> USE DEF DevicesInv
<1>1. UNCHANGED useSets /\ UNCHANGED <<att, newRoute, list>>
  BY DEF KeepRouting, MuteStage, DisableEnd, PostDisableEnd, ConfigureEnd, PreEnableEnd,
         EnableEnd, UnmuteStage, selectVars, hwVars, streamVars, useSets
<1>2. Disabled' = Disabled /\ Enabled' = Enabled
  BY <1>1, SetsKept DEF useSets
<1>3. NoFatal' /\ ListsOK' /\ RoutedStreamOwnsDevice'
  BY <1>1 DEF NoFatal, ListsOK, RoutedStreamOwnsDevice, useSets
<1>4. stage # "idle" /\ UNCHANGED <<will, pNew, newRoute>>
  BY <1>1 DEF KeepRouting, MuteStage, DisableEnd, PostDisableEnd, ConfigureEnd,
              PreEnableEnd, EnableEnd, UnmuteStage, Leave, useSets
<1>5. ChoiceInv'
  BY <1>4 DEF ChoiceInv
<1>6. /\ Disabled \subseteq Uses /\ Enabled \subseteq Uses
      /\ needReconfig \ rerouting \subseteq Uses /\ cur \subseteq Uses
  BY DEF Disabled, Enabled, ExclusiveInv, TypeOK, SelectOK, HardwareOK
<1>7. \A u \in Uses : /\ Settled(u)' <=> Settled(u)
                      /\ Unrouted(u)' <=> Unrouted(u)
                      /\ OpenedEarly(u)' <=> OpenedEarly(u)
                      /\ Unused(u)' <=> Unused(u)
  BY <1>1 DEF useSets, Settled, InUse, Unused, Unrouted, OpenedEarly
<1>8. CASE KeepRouting \/ EnableEnd \/ UnmuteStage
  <2>1. /\ stage \in {"prepare", "enable", "unmute"} /\ todo' = {}
        /\ stage' \in {"idle", "unmute"}
        /\ stage # "prepare" => todo = {}
    BY <1>8 DEF KeepRouting, EnableEnd, UnmuteStage, Leave, FinishPass, GoTo, Visits
  <2>2. PhaseInv'
    BY <1>7, <2>1 DEF PhaseInv, Phase
  <2>3. TodoInv' /\ ReconfigInv'
    BY <1>1, <2>1 DEF TodoInv, ReconfigInv, useSets
  <2> QED BY <1>3, <1>5, <2>2, <2>3
<1>9. CASE MuteStage
  <2>1. /\ stage = "prepare" /\ stage' = "disable" /\ todo' = Visits(Disabled)
        /\ muted' = ClosingRoutes
    BY <1>9 DEF MuteStage, Leave, GoTo
  <2>2. PhaseInv'
    BY <1>2, <1>6, <1>7, <2>1, VisitsOf DEF PhaseInv, Phase
  <2>3. TodoInv'
    BY <1>2, <1>6, <2>1, VisitsOf DEF TodoInv
  <2>4. cur \subseteq prevEnabled
    BY <2>1 DEF ExclusiveInv, StageInv
  <2>5. Disabled \subseteq muted' /\ needReconfig \subseteq muted'
    BY <2>1, <2>4 DEF Disabled, ClosingRoutes, ReconfigInv
  <2>6. ReconfigInv'
    BY <1>1, <1>2, <2>1, <2>5 DEF ReconfigInv, useSets
  <2> QED BY <1>3, <1>5, <2>2, <2>3, <2>6
<1>10. CASE DisableEnd
  <2>1. /\ stage = "disable" /\ stage' = "postDisable" /\ todo = {}
        /\ todo' = Visits(Disabled) /\ muted' = muted
    BY <1>10 DEF DisableEnd, Leave, GoTo
  <2>2. PhaseInv'
    BY <1>6, <1>7, <2>1, VisitsOf DEF PhaseInv, Phase
  <2>3. TodoInv'
    <3>1. \A e \in todo' : e = VisitOf(UseOf(e)) /\ UseOf(e) \in Disabled
      BY <1>6, <2>1, VisitsOf
    <3>2. \A u \in rerouting \cap cur : VisitOf(u) \in todo'
      BY <1>6, <2>1, VisitsOf DEF Disabled
    <3> QED BY <1>1, <2>1, <3>1, <3>2 DEF TodoInv, Disabled, useSets
  <2>4. ReconfigInv'
    BY <1>1, <2>1 DEF ReconfigInv, useSets
  <2> QED BY <1>3, <1>5, <2>2, <2>3, <2>4
<1>11. CASE PostDisableEnd
  <2>1. /\ stage = "postDisable" /\ stage' = "configure" /\ todo = {}
        /\ todo' = Visits(needReconfig \ rerouting) /\ muted' = muted
    BY <1>11 DEF PostDisableEnd, Leave, GoTo
  <2>2. PhaseInv'
    BY <1>7, <2>1 DEF PhaseInv, Phase
  <2>3. TodoInv'
    BY <1>1, <1>6, <2>1, VisitsOf DEF TodoInv, useSets
  <2>4. ReconfigInv'
    BY <1>1, <2>1 DEF TodoInv, ReconfigInv, useSets
  <2> QED BY <1>3, <1>5, <2>2, <2>3, <2>4
<1>12. CASE ConfigureEnd
  <2>1. /\ stage = "configure" /\ stage' = "preEnable" /\ todo' = Visits(Enabled)
    BY <1>12 DEF ConfigureEnd, Leave, GoTo
  <2>2. PhaseInv'
    BY <1>7, <2>1 DEF PhaseInv, Phase
  <2>3. TodoInv'
    BY <1>2, <1>6, <2>1, VisitsOf DEF TodoInv
  <2>4. ReconfigInv'
    BY <1>1, <2>1 DEF ReconfigInv, useSets
  <2> QED BY <1>3, <1>5, <2>2, <2>3, <2>4
<1>13. CASE PreEnableEnd
  <2>1. /\ stage = "preEnable" /\ stage' = "enable" /\ todo' = Visits(Enabled)
    BY <1>13 DEF PreEnableEnd, Leave, GoTo
  <2>2. Enabled \cap cur = {}
    BY <2>1 DEF Enabled, ReconfigInv
  <2>3. PhaseInv'
    <3> SUFFICES ASSUME NEW u \in Uses, IsStream(u) PROVE Phase(u)'
      BY DEF PhaseInv
    <3>1. Settled(u) \/ (u \in Enabled /\ OpenedEarly(u))
      BY <2>1 DEF PhaseInv, Phase
    <3>2. VisitOf(u) \in todo' <=> u \in Enabled
      BY <1>6, <2>1, VisitsOf
    <3>3. u \in Enabled /\ Settled(u) => Unused(u)
      BY <2>2 DEF Settled, InUse
    <3> QED BY <1>7, <2>1, <3>1, <3>2, <3>3 DEF Phase
  <2>4. TodoInv'
    BY <1>1, <1>6, <2>1, <2>2, VisitsOf DEF TodoInv, useSets
  <2>5. ReconfigInv'
    BY <1>1, <2>1 DEF ReconfigInv, useSets
  <2> QED BY <1>3, <1>5, <2>3, <2>4, <2>5
<1> QED BY <1>8, <1>9, <1>10, <1>11, <1>12, <1>13

-----------------------------------------------------------------------------
(* The steps on one route.                                                 *)

\* What these steps leave alone.
LEMMA RouteStepKeeps ==
    ASSUME DevicesInv, NEW e,
           \/ DisableRoute(e)
           \/ PostDisableRoute(e)
           \/ \E outcome : ConfigureRoute(e, outcome)
           \/ \E opens : PreEnableRoute(e, opens)
           \/ \E opens, outcome : EnableRoute(e, opens, outcome)
    PROVE  /\ UNCHANGED <<will, rerouting, needReconfig, muted, pNew, newRoute, list>>
           /\ ChoiceInv' /\ ListsOK'
<1>1. UNCHANGED <<will, rerouting, needReconfig, muted, pNew, newRoute, list, stage>>
  BY DEF DisableRoute, PostDisableRoute, ConfigureRoute, PreEnableRoute, EnableRoute,
         Visit, selectVars, streamVars
<1> QED BY <1>1 DEF DevicesInv, ChoiceInv, ListsOK

\* A use no step touches stays in its phase.
LEMMA OthersKept ==
    ASSUME NEW u, NEW v, PhaseInv, v \in Uses, IsStream(v), stage' = stage,
           v \in Disabled' <=> v \in Disabled, v \in Enabled' <=> v \in Enabled,
           VisitOf(v) \in todo' <=> VisitOf(v) \in todo,
           v \in cur' <=> v \in cur, v \in pcm' <=> v \in pcm, pCur'[v] = pCur[v]
    PROVE  Phase(v)'
<1>1. Phase(v)
  BY DEF PhaseInv
<1> QED BY <1>1 DEF Phase, Settled, InUse, Unused, Unrouted, OpenedEarly

\* A stream is detached in the disable stage, from a muted route whose device
\* it owns; the device is closed in this stage or the next.
LEMMA DisableDevices ==
    ASSUME DevicesInv, ExclusiveInv', NEW e, DisableRoute(e)
    PROVE  DevicesInv' /\ \A u \in Uses : pCur'[u] # pCur[u] => u \in muted
<1> USE DEF DevicesInv
<1> DEFINE u == UseOf(e)
<1>1. /\ u \in Uses /\ e \in todo /\ stage = "disable" /\ stage' = "disable"
      /\ todo' \subseteq todo /\ VisitOf(u) \notin todo' /\ VisitOf(u) \in todo
      /\ \A v \in Uses : v # u => (VisitOf(v) \in todo' <=> VisitOf(v) \in todo)
  BY VisitOnce DEF DisableRoute, ExclusiveInv
<1>2. u \in Disabled /\ u \in cur /\ u \in muted
  <2>1. u \in Disabled
    BY <1>1 DEF TodoInv
  <2> QED BY <1>1, <2>1 DEF Disabled, ReconfigInv
<1>3. IsStream(u) => InUse(u)
  BY <1>1, <1>2 DEF PhaseInv, Phase, Settled, Unused
<1>4. IsLpe(u) => IsStream(u)
  BY RoutesAssumption DEF IsLpe, IsStream
<1>5. /\ att' = IF IsStream(u) THEN DetachCurrent(u) ELSE att
      /\ pCur' = IF IsStream(u) THEN [pCur EXCEPT ![u] = None] ELSE pCur
      /\ pcm' = IF IsStream(u) /\ ~IsLpe(u) THEN pcm \ {u} ELSE pcm
      /\ fatal' = fatal \cup Fault(IsStream(u) /\ pCur[u] = None, "detach")
                        \cup Fault(IsStream(u) /\ ~IsLpe(u) /\ u \notin pcm, "close")
      /\ cur' = cur
  BY DEF DisableRoute, ClosePcm
<1>6. /\ UNCHANGED <<will, rerouting, needReconfig, muted, pNew, newRoute, list>>
      /\ ChoiceInv' /\ ListsOK'
  BY RouteStepKeeps
<1>7. Disabled' = Disabled /\ Enabled' = Enabled
  BY <1>5, <1>6, SetsKept
<1>8. NoFatal'
  BY <1>3, <1>5 DEF InUse, Fault, NoFatal
<1>9. pCur \in [Uses -> Nullable(Streams)] /\ att \in [Streams -> Attachments]
  BY DEF ExclusiveInv, TypeOK, HardwareOK
<1> HIDE DEF u
<1>10. \A v \in Uses : v # u => pCur'[v] = pCur[v] /\ (v \in pcm' <=> v \in pcm)
  BY <1>5, <1>9
<1>11. PhaseInv'
  <2> SUFFICES ASSUME NEW v \in Uses, IsStream(v) PROVE Phase(v)'
    BY DEF PhaseInv
  <2>1. CASE v # u
    BY <1>1, <1>5, <1>7, <1>10, <2>1, OthersKept
  <2>2. CASE v = u
    <3>1. pCur'[u] = None /\ u \in cur' /\ (u \in pcm' <=> IsLpe(u))
      BY <1>1, <1>2, <1>3, <1>5, <1>9, <2>2 DEF InUse
    <3> QED BY <1>1, <1>2, <1>7, <2>2, <3>1 DEF Phase, Unrouted
  <2> QED BY <2>1, <2>2
<1>12. TodoInv'
  BY <1>1, <1>7 DEF TodoInv
<1>13. ReconfigInv'
  BY <1>1, <1>5, <1>6, <1>7 DEF ReconfigInv
<1>14. RoutedStreamOwnsDevice'
  <2> SUFFICES ASSUME NEW t \in Streams, att'[t].route # None
               PROVE  LET v == <<DirOf[t], att'[t].route>>
                      IN  v \in pcm' /\ att'[t].handle = att'[t].route /\ pCur'[v] = t
    BY DEF RoutedStreamOwnsDevice
  <2>1. att'[t] = att[t] /\ (IsStream(u) => t # pCur[u])
    BY <1>5, WithValue, DetachedRoute DEF DetachCurrent
  <2> DEFINE v == <<DirOf[t], att[t].route>>
  <2>2. v \in pcm /\ att[t].handle = att[t].route /\ pCur[v] = t /\ v \in Uses
    BY <2>1 DEF RoutedStreamOwnsDevice, ExclusiveInv, TypeOK, HardwareOK
  <2>3. CASE IsStream(u)
    BY <1>10, <2>1, <2>2, <2>3
  <2>4. CASE ~IsStream(u)
    BY <1>5, <2>1, <2>2, <2>4
  <2> QED BY <2>3, <2>4
<1> QED BY <1>2, <1>6, <1>8, <1>10, <1>11, <1>12, <1>13, <1>14

\* After the disable stage no stream is on the route: its device may be closed.
LEMMA PostDisableDevices ==
    ASSUME DevicesInv, ExclusiveInv', NEW e, PostDisableRoute(e)
    PROVE  DevicesInv' /\ pCur' = pCur
<1> USE DEF DevicesInv
<1> DEFINE u == UseOf(e)
<1>1. /\ u \in Uses /\ e \in todo /\ stage = "postDisable" /\ stage' = "postDisable"
      /\ todo' \subseteq todo /\ VisitOf(u) \notin todo' /\ VisitOf(u) \in todo
      /\ \A v \in Uses : v # u => (VisitOf(v) \in todo' <=> VisitOf(v) \in todo)
  BY VisitOnce DEF PostDisableRoute, ExclusiveInv
<1>2. u \notin will \/ u \in rerouting
  BY <1>1 DEF TodoInv
<1>3. IsStream(u) => Unrouted(u)
  BY <1>1 DEF PhaseInv, Phase
<1>4. IsLpe(u) => IsStream(u)
  BY RoutesAssumption DEF IsLpe, IsStream
<1>5. /\ att' = att /\ pCur' = pCur /\ cur' = cur \ {u}
      /\ pcm' = IF IsLpe(u) THEN pcm \ {u} ELSE pcm
      /\ fatal' = fatal \cup Fault(IsLpe(u) /\ u \notin pcm, "close")
  BY DEF PostDisableRoute, ClosePcm
<1>6. /\ UNCHANGED <<will, rerouting, needReconfig, muted, pNew, newRoute, list>>
      /\ ChoiceInv' /\ ListsOK'
  BY RouteStepKeeps
<1>7. NoFatal'
  BY <1>3, <1>4, <1>5 DEF Unrouted, Fault, NoFatal
<1>8. \A v \in Uses : v # u =>
        /\ v \in cur' <=> v \in cur
        /\ v \in pcm' <=> v \in pcm
        /\ v \in Disabled' <=> v \in Disabled
        /\ v \in Enabled' <=> v \in Enabled
  BY <1>5, <1>6 DEF Disabled, Enabled
<1> HIDE DEF u
<1>9. PhaseInv'
  <2> SUFFICES ASSUME NEW v \in Uses, IsStream(v) PROVE Phase(v)'
    BY DEF PhaseInv
  <2>1. CASE v # u
    BY <1>1, <1>5, <1>8, <2>1, OthersKept
  <2>2. CASE v = u
    <3>1. pCur'[u] = None /\ u \notin cur' /\ u \notin pcm'
      BY <1>3, <1>5, <2>2 DEF Unrouted
    <3> QED BY <1>1, <2>2, <3>1 DEF Phase, Settled, Unused
  <2> QED BY <2>1, <2>2
<1>10. TodoInv'
  <2>1. \A v \in rerouting' \cap cur' : VisitOf(v) \in todo'
    <3>1. cur \subseteq Uses
      BY DEF ExclusiveInv, TypeOK, HardwareOK
    <3> QED BY <1>1, <1>5, <1>6, <3>1 DEF TodoInv
  <2> QED BY <1>1, <1>6, <2>1 DEF TodoInv
<1>11. ReconfigInv'
  BY <1>1, <1>2, <1>5, <1>6 DEF ReconfigInv
<1>12. RoutedStreamOwnsDevice'
  <2> SUFFICES ASSUME NEW t \in Streams, att[t].route # None
               PROVE  LET v == <<DirOf[t], att[t].route>>
                      IN  v \in pcm' /\ att[t].handle = att[t].route /\ pCur[v] = t
    BY <1>5 DEF RoutedStreamOwnsDevice
  <2> DEFINE v == <<DirOf[t], att[t].route>>
  <2>1. v \in pcm /\ att[t].handle = att[t].route /\ pCur[v] = t
    BY DEF RoutedStreamOwnsDevice
  <2>2. IsLpe(u) => v # u
    BY <1>3, <1>4, <2>1, StreamsAssumption DEF Unrouted
  <2> QED BY <1>5, <2>1, <2>2
<1> QED BY <1>5, <1>6, <1>7, <1>9, <1>10, <1>11, <1>12

\* A route that stays keeps its device, and its stream or gets another; the one
\* that leaves it leaves a muted route.
LEMMA ConfigureDevices ==
    ASSUME OnlyOpeningFails, DevicesInv, ExclusiveInv', NEW e, NEW outcome,
           ConfigureRoute(e, outcome)
    PROVE  DevicesInv' /\ \A u \in Uses : pCur'[u] # pCur[u] => u \in muted
<1> USE DEF DevicesInv
<1> DEFINE u == UseOf(e)
<1> DEFINE s == pNew[u]
<1>1. /\ u \in Uses /\ e \in todo /\ stage = "configure" /\ stage' = "configure"
      /\ todo' \subseteq todo
      /\ \A v \in Uses : v # u => (VisitOf(v) \in todo' <=> VisitOf(v) \in todo)
  BY VisitOnce DEF ConfigureRoute, ExclusiveInv
<1>2. u \in needReconfig \ rerouting /\ u \in cur /\ u \in will /\ u \in muted
  <2>1. u \in needReconfig \ rerouting
    BY <1>1 DEF TodoInv
  <2> QED BY <1>1, <2>1 DEF ReconfigInv
<1>3. pCur \in [Uses -> Nullable(Streams)] /\ att \in [Streams -> Attachments]
      /\ pNew \in [Uses -> Nullable(Streams)]
  BY DEF ExclusiveInv, TypeOK, HardwareOK, SelectOK
<1>4. ASSUME IsStream(u)
      PROVE  /\ InUse(u) /\ s # None /\ s \in Streams
             /\ newRoute[s] = u[2] /\ DirOf[s] = u[1]
  BY <1>1, <1>2, <1>3, <1>4 DEF PhaseInv, Phase, Settled, Unused, ChoiceInv, Nullable
<1>5. /\ cur' = cur /\ pcm' = pcm
      /\ att' = IF ~IsStream(u) THEN att
                ELSE IF pCur[u] = s THEN With(att, s, Reconfigured(s))
                ELSE With(DetachCurrent(u), s, Attached(s, outcome))
      /\ pCur' = IF ~IsStream(u) \/ pCur[u] = s THEN pCur
                 ELSE [pCur EXCEPT ![u] = IF outcome = "ok" THEN s ELSE None]
      /\ outcome \in IF IsStream(u) /\ ~(pCur[u] = s) THEN AttachOutcomes(u) ELSE {"ok"}
      /\ fatal' = fatal \cup Fault(IsStream(u) /\ pCur[u] = None, "detach")
                        \cup Fault(IsStream(u) /\ s = None, "attach")
  BY DEF ConfigureRoute
<1>6. /\ UNCHANGED <<will, rerouting, needReconfig, muted, pNew, newRoute, list>>
      /\ ChoiceInv' /\ ListsOK'
  BY RouteStepKeeps
<1>7. Disabled' = Disabled /\ Enabled' = Enabled
  BY <1>5, <1>6, SetsKept
<1>8. NoFatal'
  BY <1>4, <1>5 DEF InUse, Fault, NoFatal
<1>9. /\ outcome = "ok"
      /\ Attached(s, outcome).route = newRoute[s]
      /\ Attached(s, outcome).handle = newRoute[s]
  <2>1. outcome = "ok"
    BY <1>5 DEF OnlyOpeningFails, AttachOutcomes
  <2> QED BY <2>1 DEF Attached
<1> HIDE DEF u, s
<1>10. /\ \A v \in Uses : v # u => pCur'[v] = pCur[v]
       /\ IsStream(u) => pCur'[u] = s
       /\ ~IsStream(u) => pCur' = pCur
  BY <1>1, <1>3, <1>5, <1>9
<1>11. PhaseInv'
  <2> SUFFICES ASSUME NEW v \in Uses, IsStream(v) PROVE Phase(v)'
    BY DEF PhaseInv
  <2>1. CASE v # u
    BY <1>1, <1>5, <1>7, <1>10, <2>1, OthersKept
  <2>2. CASE v = u
    <3>1. InUse(u)'
      BY <1>4, <1>5, <1>10, <2>2 DEF InUse
    <3> QED BY <1>1, <2>2, <3>1 DEF Phase, Settled
  <2> QED BY <2>1, <2>2
<1>12. TodoInv' /\ ReconfigInv'
  BY <1>1, <1>5, <1>6 DEF TodoInv, ReconfigInv
<1>13. RoutedStreamOwnsDevice'
  <2> SUFFICES ASSUME NEW t \in Streams, att'[t].route # None
               PROVE  LET v == <<DirOf[t], att'[t].route>>
                      IN  v \in pcm' /\ att'[t].handle = att'[t].route /\ pCur'[v] = t
    BY DEF RoutedStreamOwnsDevice
  <2>0. \A v \in Uses : v = <<v[1], v[2]>>
    BY DEF Uses
  <2> DEFINE w == <<DirOf[t], att[t].route>>
  <2>1. att[t].route # None =>
          w \in pcm /\ att[t].handle = att[t].route /\ pCur[w] = t /\ w \in Uses
    BY DEF RoutedStreamOwnsDevice, ExclusiveInv, TypeOK, HardwareOK
  <2>2. CASE att'[t] = att[t] /\ (IsStream(u) => t # pCur[u])
    <3>1. CASE IsStream(u)
      BY <1>5, <1>10, <2>1, <2>2, <3>1
    <3>2. CASE ~IsStream(u)
      BY <1>5, <1>10, <2>1, <2>2, <3>2
    <3> QED BY <3>1, <3>2
  <2>3. CASE IsStream(u) /\ t = s /\ pCur[u] = s
    <3>1. att'[t] = Reconfigured(t)
      BY <1>5, <2>3, WithValue
    <3>2. att'[t].route = att[t].route /\ att'[t].handle = att[t].handle
      BY <1>3, <3>1 DEF Reconfigured, Attachments
    <3> QED BY <1>5, <2>1, <2>3, <3>2
  <2>4. CASE IsStream(u) /\ t = s /\ pCur[u] # s
    <3>1. att'[t] = Attached(t, outcome)
      BY <1>5, <2>4, WithValue
    <3>2. <<DirOf[t], att'[t].route>> = u
      BY <1>1, <1>4, <1>9, <2>0, <2>4, <3>1
    <3> QED BY <1>4, <1>5, <1>9, <1>10, <2>4, <3>1, <3>2 DEF InUse
  <2>5. CASE IsStream(u) /\ t # s /\ t = pCur[u]
    <3>1. att'[t] = Detached
      BY <1>5, <2>5, WithValue DEF DetachCurrent
    <3> QED BY <3>1, DetachedRoute
  <2>6. CASE IsStream(u) /\ t # s /\ t # pCur[u]
    <3>1. att'[t] = att[t]
      BY <1>5, <2>6, WithValue DEF DetachCurrent
    <3> QED BY <2>2, <2>6, <3>1
  <2>7. CASE ~IsStream(u)
    BY <1>5, <2>2, <2>7
  <2> QED BY <2>3, <2>4, <2>5, <2>6, <2>7
<1> QED BY <1>2, <1>6, <1>8, <1>10, <1>11, <1>12, <1>13

\* A device is opened ahead of its stream only when it is closed.
LEMMA PreEnableDevices ==
    ASSUME DevicesInv, ExclusiveInv', NEW e, NEW opens, PreEnableRoute(e, opens)
    PROVE  DevicesInv' /\ pCur' = pCur
<1> USE DEF DevicesInv
<1> DEFINE u == UseOf(e)
<1>1. /\ u \in Uses /\ e \in todo /\ stage = "preEnable" /\ stage' = "preEnable"
      /\ todo' \subseteq todo /\ VisitOf(u) \notin todo' /\ VisitOf(u) \in todo
      /\ \A v \in Uses : v # u => (VisitOf(v) \in todo' <=> VisitOf(v) \in todo)
  BY VisitOnce DEF PreEnableRoute, ExclusiveInv
<1>2. u \in Enabled /\ u \notin cur
  <2>1. u \in Enabled
    BY <1>1 DEF TodoInv
  <2> QED BY <1>1, <2>1 DEF Enabled, ReconfigInv
<1>3. IsStream(u) => Unused(u)
  BY <1>1, <1>2 DEF PhaseInv, Phase, Settled, InUse
<1>4. IsLpe(u) => IsStream(u)
  BY RoutesAssumption DEF IsLpe, IsStream
<1>5. /\ att' = att /\ pCur' = pCur /\ cur' = cur
      /\ pcm' = IF IsLpe(u) /\ opens THEN pcm \cup {u} ELSE pcm
      /\ fatal' = fatal \cup Fault(IsLpe(u) /\ u \in pcm, "open")
  BY DEF PreEnableRoute, OpenPcm
<1>6. /\ UNCHANGED <<will, rerouting, needReconfig, muted, pNew, newRoute, list>>
      /\ ChoiceInv' /\ ListsOK'
  BY RouteStepKeeps
<1>7. Disabled' = Disabled /\ Enabled' = Enabled
  BY <1>5, <1>6, SetsKept
<1>8. NoFatal'
  BY <1>3, <1>4, <1>5 DEF Unused, Fault, NoFatal
<1> HIDE DEF u
<1>9. PhaseInv'
  <2> SUFFICES ASSUME NEW v \in Uses, IsStream(v) PROVE Phase(v)'
    BY DEF PhaseInv
  <2>1. CASE v # u
    BY <1>1, <1>5, <1>7, <2>1, OthersKept
  <2>2. CASE v = u
    <3>1. Unused(u)' \/ OpenedEarly(u)'
      BY <1>3, <1>5, <2>2 DEF Unused, OpenedEarly
    <3> QED BY <1>1, <1>2, <1>7, <2>2, <3>1 DEF Phase, Settled
  <2> QED BY <2>1, <2>2
<1>10. TodoInv' /\ ReconfigInv'
  BY <1>1, <1>5, <1>6, <1>7 DEF TodoInv, ReconfigInv
<1>11. RoutedStreamOwnsDevice'
  <2>1. pcm \subseteq pcm'
    BY <1>5
  <2> QED BY <1>5, <2>1 DEF RoutedStreamOwnsDevice
<1> QED BY <1>5, <1>6, <1>8, <1>9, <1>10, <1>11

\* A selected route whose device opens gets its stream; one whose device does
\* not open is left as it was.
LEMMA EnableDevices ==
    ASSUME OnlyOpeningFails, DevicesInv, ExclusiveInv', NEW e, NEW opens, NEW outcome,
           EnableRoute(e, opens, outcome)
    PROVE  DevicesInv' /\ \A u \in Uses : pCur[u] # None => pCur'[u] = pCur[u]
<1> USE DEF DevicesInv
<1> DEFINE u == UseOf(e)
<1> DEFINE s == pNew[u]
<1> DEFINE openNow == IsStream(u) /\ ~IsLpe(u)
<1> DEFINE ready == IF openNow THEN opens ELSE u \in pcm
<1>1. /\ u \in Uses /\ e \in todo /\ stage = "enable" /\ stage' = "enable"
      /\ todo' \subseteq todo /\ VisitOf(u) \notin todo' /\ VisitOf(u) \in todo
      /\ \A v \in Uses : v # u => (VisitOf(v) \in todo' <=> VisitOf(v) \in todo)
  BY VisitOnce DEF EnableRoute, ExclusiveInv
<1>2. u \in will /\ u \notin cur
  BY <1>1 DEF ExclusiveInv, StageInv, TodoInv
<1>3. pCur \in [Uses -> Nullable(Streams)] /\ att \in [Streams -> Attachments]
      /\ pNew \in [Uses -> Nullable(Streams)]
  BY DEF ExclusiveInv, TypeOK, HardwareOK, SelectOK
<1>4. ASSUME IsStream(u)
      PROVE  /\ Unused(u) \/ OpenedEarly(u)
             /\ s # None /\ s \in Streams
             /\ newRoute[s] = u[2] /\ DirOf[s] = u[1]
  BY <1>1, <1>2, <1>3, <1>4 DEF PhaseInv, Phase, ChoiceInv, Nullable
<1>5. /\ outcome \in IF IsStream(u) /\ ready THEN AttachOutcomes(u) ELSE {"ok"}
      /\ pcm' = IF openNow /\ opens THEN pcm \cup {u} ELSE pcm
      /\ att' = IF IsStream(u) /\ ready THEN With(att, s, Attached(s, outcome)) ELSE att
      /\ pCur' = IF IsStream(u) /\ ready /\ outcome = "ok"
                 THEN [pCur EXCEPT ![u] = s] ELSE pCur
      /\ cur' = IF ~IsStream(u) \/ (ready /\ outcome = "ok") THEN cur \cup {u} ELSE cur
      /\ fatal' = fatal \cup Fault(openNow /\ u \in pcm, "open")
                        \cup Fault(IsStream(u) /\ s = None, "attach")
  BY DEF EnableRoute, OpenPcm
<1>6. /\ UNCHANGED <<will, rerouting, needReconfig, muted, pNew, newRoute, list>>
      /\ ChoiceInv' /\ ListsOK'
  BY RouteStepKeeps
<1>7. \A v \in Uses : v # u =>
        /\ v \in cur' <=> v \in cur
        /\ v \in pcm' <=> v \in pcm
        /\ v \in Disabled' <=> v \in Disabled
        /\ v \in Enabled' <=> v \in Enabled
        /\ pCur'[v] = pCur[v]
  <2>1. UNCHANGED <<will, rerouting>>
    BY <1>6
  <2>2. \A v \in Uses : v # u => (v \in cur' <=> v \in cur)
    BY <1>5
  <2>3. \A v \in Uses : v # u => (v \in pcm' <=> v \in pcm) /\ pCur'[v] = pCur[v]
    BY <1>3, <1>5
  <2> QED BY <2>1, <2>2, <2>3 DEF Disabled, Enabled
<1>8. NoFatal'
  BY <1>4, <1>5 DEF Unused, OpenedEarly, Fault, NoFatal
<1>9. /\ outcome = "ok"
      /\ Attached(s, outcome).route = newRoute[s]
      /\ Attached(s, outcome).handle = newRoute[s]
  <2>1. outcome = "ok"
    BY <1>5 DEF OnlyOpeningFails, AttachOutcomes
  <2> QED BY <2>1 DEF Attached
<1>10. ASSUME IsStream(u)
       PROVE  /\ pCur[u] = None
              /\ ready => u \in pcm' /\ u \in cur' /\ pCur'[u] = s
              /\ ~ready => Unused(u)'
  <2>1. CASE ready
    BY <1>1, <1>3, <1>4, <1>5, <1>9, <1>10, <2>1 DEF Unused, OpenedEarly
  <2>2. CASE ~ready
    BY <1>4, <1>5, <1>10, <2>2 DEF Unused, OpenedEarly
  <2> QED BY <2>1, <2>2
<1> HIDE DEF u, s, ready, openNow
<1>11. PhaseInv'
  <2> SUFFICES ASSUME NEW v \in Uses, IsStream(v) PROVE Phase(v)'
    BY DEF PhaseInv
  <2>1. CASE v # u
    BY <1>1, <1>7, <2>1, OthersKept
  <2>2. CASE v = u
    <3>1. InUse(u)' \/ Unused(u)'
      BY <1>4, <1>10, <2>2 DEF InUse
    <3> QED BY <1>1, <2>2, <3>1 DEF Phase, Settled
  <2> QED BY <2>1, <2>2
<1>12. TodoInv'
  <2>1. \A f \in todo' : UseOf(f) \notin cur'
    <3> SUFFICES ASSUME NEW f \in todo' PROVE UseOf(f) \notin cur'
      OBVIOUS
    <3>1. f \in todo /\ f = VisitOf(UseOf(f)) /\ UseOf(f) \notin cur
      BY <1>1 DEF TodoInv
    <3>2. UseOf(f) # u
      BY <1>1, <3>1
    <3> QED BY <1>5, <3>1, <3>2
  <2> QED BY <1>1, <2>1 DEF TodoInv
<1>13. ReconfigInv'
  BY <1>1, <1>6 DEF ReconfigInv
<1>14. RoutedStreamOwnsDevice'
  <2> SUFFICES ASSUME NEW t \in Streams, att'[t].route # None
               PROVE  LET v == <<DirOf[t], att'[t].route>>
                      IN  v \in pcm' /\ att'[t].handle = att'[t].route /\ pCur'[v] = t
    BY DEF RoutedStreamOwnsDevice
  <2>0. \A v \in Uses : v = <<v[1], v[2]>>
    BY DEF Uses
  <2>1. CASE IsStream(u) /\ ready /\ t = s
    <3>1. att'[t] = Attached(t, outcome)
      BY <1>5, <2>1, WithValue
    <3>2. <<DirOf[t], att'[t].route>> = u
      BY <1>1, <1>4, <1>9, <2>0, <2>1, <3>1
    <3> QED BY <1>9, <1>10, <2>1, <3>1, <3>2
  <2>2. CASE ~(IsStream(u) /\ ready /\ t = s)
    <3>1. att'[t] = att[t]
      BY <1>5, <2>2, WithValue
    <3> DEFINE v == <<DirOf[t], att[t].route>>
    <3>2. v \in pcm /\ att[t].handle = att[t].route /\ pCur[v] = t /\ v \in Uses
      BY <3>1 DEF RoutedStreamOwnsDevice, ExclusiveInv, TypeOK, HardwareOK
    <3>3. IsStream(u) => v # u
      BY <1>10, <3>2, StreamsAssumption
    <3>4. CASE IsStream(u)
      BY <1>7, <3>1, <3>2, <3>3, <3>4
    <3>5. CASE ~IsStream(u)
      <4>1. pcm' = pcm /\ pCur' = pCur
        BY <1>5, <3>5 DEF openNow
      <4> QED BY <3>1, <3>2, <4>1
    <3> QED BY <3>4, <3>5
  <2> QED BY <2>1, <2>2
<1>15. \A v \in Uses : pCur[v] # None => pCur'[v] = pCur[v]
  <2>1. ~IsStream(u) => pCur' = pCur
    BY <1>5
  <2> QED BY <1>7, <1>10, <2>1
<1> QED BY <1>6, <1>8, <1>11, <1>12, <1>13, <1>14, <1>15

-----------------------------------------------------------------------------
(* The theorems.                                                           *)

\* A step on one route changes the stream of a muted route only, or gives one
\* to a route that has none.
DetachesMuted == \A u \in Uses : pCur[u] # None /\ pCur'[u] # pCur[u] => u \in muted

\* Every step keeps the invariant and takes streams from muted routes only.
LEMMA DevicesNext ==
    ASSUME OnlyOpeningFails, DevicesInv, [Next]_vars
    PROVE  DevicesInv' /\ DetachesMuted
<1>1. ExclusiveInv'
  BY ExclusiveNext DEF DevicesInv
<1>2. TypeOK' /\ ExclusiveInv
  BY <1>1 DEF ExclusiveInv, DevicesInv
<1>3. CASE Framework
  <2>1. pCur' = pCur
    BY <1>3, FrameworkKeeps DEF exclusiveVars, Framework, OpenStream, CloseStream,
       SetStandby, StartStopStream, SetStreamParameters, hwVars
  <2> QED BY <1>1, <1>3, <2>1, FrameworkDevices DEF DetachesMuted
<1>4. CASE UNCHANGED vars
  <2>1. pCur' = pCur
    BY <1>4 DEF vars, hwVars
  <2> QED BY <1>1, <1>4, <2>1, StutterDevices DEF DetachesMuted
<1>5. CASE UpdateRouting \/ UpdateModem \/ SetMicMute
  <2>1. BeginPass
    BY <1>5 DEF UpdateRouting, UpdateModem, SetMicMute
  <2>2. pCur' = pCur
    BY <2>1 DEF BeginPass, hwVars
  <2> QED BY <1>1, <2>1, <2>2, BeginPassDevices DEF DetachesMuted
<1>6. CASE PassStep
  <2>1. CASE \/ KeepRouting \/ MuteStage \/ DisableEnd \/ PostDisableEnd
             \/ ConfigureEnd \/ PreEnableEnd \/ EnableEnd \/ UnmuteStage
    <3>1. fatal' = fatal
      BY <1>2, <2>1, StagesExclusive
    <3>2. pCur' = pCur
      BY <2>1 DEF KeepRouting, MuteStage, DisableEnd, PostDisableEnd, ConfigureEnd,
                  PreEnableEnd, EnableEnd, UnmuteStage, hwVars
    <3> QED BY <1>1, <2>1, <3>1, <3>2, StagesDevices DEF DetachesMuted
  <2>2. ASSUME NEW e, NEW s \in Nullable(Streams), PrepareRoute(e, s)
        PROVE  DevicesInv' /\ DetachesMuted
    <3>1. fatal' = fatal
      BY <1>2, <2>2, PrepareExclusive
    <3>2. pCur' = pCur
      BY <2>2 DEF PrepareRoute, hwVars
    <3> QED BY <1>1, <2>2, <3>1, <3>2, PrepareDevices DEF DetachesMuted
  <2>3. ASSUME NEW e, DisableRoute(e) PROVE DevicesInv' /\ DetachesMuted
    BY <1>1, <2>3, DisableDevices DEF DetachesMuted
  <2>4. ASSUME NEW e, PostDisableRoute(e) PROVE DevicesInv' /\ DetachesMuted
    BY <1>1, <2>4, PostDisableDevices DEF DetachesMuted
  <2>5. ASSUME NEW e, NEW outcome, ConfigureRoute(e, outcome)
        PROVE  DevicesInv' /\ DetachesMuted
    BY <1>1, <2>5, ConfigureDevices DEF DetachesMuted
  <2>6. ASSUME NEW e, NEW opens, PreEnableRoute(e, opens)
        PROVE  DevicesInv' /\ DetachesMuted
    BY <1>1, <2>6, PreEnableDevices DEF DetachesMuted
  <2>7. ASSUME NEW e, NEW opens, NEW outcome, EnableRoute(e, opens, outcome)
        PROVE  DevicesInv' /\ DetachesMuted
    BY <1>1, <2>7, EnableDevices DEF DetachesMuted
  <2> QED BY <1>6, <2>1, <2>2, <2>3, <2>4, <2>5, <2>6, <2>7 DEF PassStep
<1> QED BY <1>3, <1>4, <1>5, <1>6 DEF Next

\* No assertion of the routes and ports fires, whatever the streams do while a
\* pass runs and whichever devices fail to open: no device is opened twice or
\* closed when it is closed, none of the routes loses a stream it has not.
THEOREM NoAssertionFires == OnlyOpeningFails => (Spec => []NoFatal)
<1> SUFFICES ASSUME OnlyOpeningFails PROVE Spec => []NoFatal
  OBVIOUS
<1>1. DevicesInv /\ [Next]_vars => DevicesInv'
  BY DevicesNext
<1>2. DevicesInv => NoFatal
  BY DEF DevicesInv
<1> QED BY <1>1, <1>2, DevicesInit, PTL DEF Spec

\* A stream that has a route has the open device of that route as its handle,
\* and is the stream the route will detach before it closes the device.
THEOREM RoutedStreamsAreSafe == OnlyOpeningFails => (Spec => []RoutedStreamOwnsDevice)
<1> SUFFICES ASSUME OnlyOpeningFails PROVE Spec => []RoutedStreamOwnsDevice
  OBVIOUS
<1>1. DevicesInv /\ [Next]_vars => DevicesInv'
  BY DevicesNext
<1>2. DevicesInv => RoutedStreamOwnsDevice
  BY DEF DevicesInv
<1> QED BY <1>1, <1>2, DevicesInit, PTL DEF Spec

\* A stream is taken from a route, or changed for another, only while the
\* parameter framework mutes the route.
THEOREM DetachingIsSilent == OnlyOpeningFails => (Spec => DetachedWhenMuted)
<1> SUFFICES ASSUME OnlyOpeningFails PROVE Spec => DetachedWhenMuted
  OBVIOUS
<1>1. DevicesInv /\ [Next]_vars => DevicesInv'
  BY DevicesNext
<1>2. DevicesInv /\ [Next]_vars => [DetachesMuted]_vars
  BY DevicesNext
<1>3. Spec => [][DetachesMuted]_vars
  BY <1>1, <1>2, DevicesInit, PTL DEF Spec
<1> QED BY <1>3 DEF DetachedWhenMuted, DetachesMuted


-----------------------------------------------------------------------------
(* What the routes know of the streams.                                    *)

\* An attached stream is the stream of some route.
Known == \A s \in Streams : att[s] # Detached => \E u \in Uses : pCur[u] = s

\* A stream whose standby the worker could see when the pass began is chosen
\* for no route.  One that is "calling" changed its mind during the pass.
NotChosen ==
    stage # "idle" =>
        \A s \in Streams : s \notin started /\ client[s] # "calling"
                              => \A u \in Uses : pNew[u] # s

\* Of a stream whose stop has returned no route knows anything.
Forgotten ==
    \A s \in Streams : s \notin started /\ client[s] = "idle"
                          => \A u \in Uses : pCur[u] # s /\ pNew[u] # s

\* The hardware follows the choice: a route in use that shall have another
\* stream is reconfigured or rerouted, and has it afterwards.
Follows ==
    /\ \A u \in Uses : ~IsStream(u) => pCur[u] = None
    /\ stage \in {"prepare", "disable", "postDisable"} =>
         \A u \in cur \cap will :
            IsStream(u) /\ pCur[u] # pNew[u] => u \in needReconfig
    /\ stage = "configure" =>
         \A u \in cur : IsStream(u) /\ pCur[u] # pNew[u] => VisitOf(u) \in todo
    /\ stage \in {"preEnable", "enable", "unmute"} =>
         \A u \in cur : IsStream(u) => pCur[u] = pNew[u]

StreamsInv == DevicesInv /\ Known /\ NotChosen /\ Forgotten /\ Follows /\ NoDanglingStream

\* What the streams' own threads and lists give to these parts.
clientVars == <<list, started, client>>

-----------------------------------------------------------------------------
(* Outside of a pass, and its beginning.                                   *)

\* The initial state: no route knows any stream.
LEMMA StreamsInit == Init => StreamsInv
<1> SUFFICES ASSUME Init PROVE StreamsInv
  OBVIOUS
<1>1. DevicesInv
  BY DevicesInit
<1>2. Known
  BY DEF Init, Known
<1>3. NotChosen /\ Follows /\ NoDanglingStream
  BY DEF Init, NotChosen, Follows, NoDanglingStream
<1>4. Forgotten
  BY StreamsAssumption DEF Init, Forgotten
<1> QED BY <1>1, <1>2, <1>3, <1>4 DEF StreamsInv

\* Closing a stream that no route knows leaves the others in their list.
LEMMA CloseKeepsOpened ==
    ASSUME TypeOK, NEW s \in Streams, CloseStream(s),
           NEW t \in Streams, t # s, Opened(t)
    PROVE  Opened(t)'
<1>1. DirOf[s] \in Dirs /\ DirOf[t] \in Dirs /\ list \in [Dirs -> Seq(Streams)]
  BY StreamsAssumption DEF TypeOK, StreamsOK
<1> DEFINE l == list[DirOf[s]]
<1>2. PICK i \in DOMAIN l :
        l[i] = s /\ list' = [list EXCEPT ![DirOf[s]] =
                               SubSeq(l, 1, i - 1) \o SubSeq(l, i + 1, Len(l))]
  BY DEF CloseStream
<1>3. CASE DirOf[t] # DirOf[s]
  BY <1>1, <1>2, <1>3 DEF Opened
<1>4. CASE DirOf[t] = DirOf[s]
  <2> DEFINE a == SubSeq(l, 1, i - 1)
  <2> DEFINE b == SubSeq(l, i + 1, Len(l))
  <2>1. l \in Seq(Streams) /\ Len(l) \in Nat /\ i \in 1..Len(l) /\ l[i] = s
    BY <1>1, <1>2
  <2>2. PICK k \in 1..Len(l) : l[k] = t
    BY <1>1, <1>4, <2>1 DEF Opened
  <2>3. /\ a \in Seq(Streams) /\ Len(a) = i - 1
        /\ \A j \in 1..(i - 1 - 1 + 1) : a[j] = l[1 + j - 1]
    BY <2>1, SubSeqProperties
  <2>4. /\ b \in Seq(Streams) /\ Len(b) = Len(l) - i
        /\ \A j \in 1..(Len(l) - (i + 1) + 1) : b[j] = l[i + 1 + j - 1]
    BY <2>1, SubSeqProperties
  <2>5. list'[DirOf[t]] = a \o b
    BY <1>1, <1>2, <1>4
  <2> HIDE DEF l, a, b
  <2>6. /\ a \o b \in Seq(Streams) /\ Len(a \o b) = Len(a) + Len(b)
        /\ \A j \in 1..(Len(a) + Len(b)) :
              (a \o b)[j] = IF j <= Len(a) THEN a[j] ELSE b[j - Len(a)]
    BY <2>3, <2>4, ConcatProperties
  <2>7. DOMAIN (a \o b) = 1..(Len(a) + Len(b))
    BY <2>6
  <2>8. CASE k < i
    <3>1. k \in 1..(i - 1 - 1 + 1) /\ 1 + k - 1 = k
      BY <2>1, <2>8
    <3>2. a[k] = t
      BY <2>2, <2>3, <3>1
    <3>3. k \in 1..(Len(a) + Len(b)) /\ k <= Len(a)
      BY <2>1, <2>3, <2>4, <2>8
    <3>4. (a \o b)[k] = t
      BY <2>6, <3>2, <3>3
    <3> QED BY <2>5, <2>7, <3>3, <3>4 DEF Opened
  <2>9. CASE k > i
    <3> DEFINE j == k - i
    <3>1. j \in 1..(Len(l) - (i + 1) + 1) /\ i + 1 + j - 1 = k
      BY <2>1, <2>9
    <3>2. b[j] = t
      BY <2>2, <2>4, <3>1
    <3>3. /\ k - 1 \in 1..(Len(a) + Len(b)) /\ ~(k - 1 <= Len(a))
          /\ k - 1 - Len(a) = j
      BY <2>1, <2>3, <2>4, <2>9
    <3> HIDE DEF j
    <3>4. (a \o b)[k - 1] = t
      BY <2>6, <3>2, <3>3
    <3> QED BY <2>5, <2>7, <3>3, <3>4 DEF Opened
  <2>10. k # i
    BY <2>1, <2>2
  <2> QED BY <2>1, <2>8, <2>9, <2>10
<1> QED BY <1>3, <1>4

\* The framework's calls: only a stream that no route knows is closed.
LEMMA FrameworkStreams ==
    ASSUME StreamsInv, Framework, DevicesInv'
    PROVE  StreamsInv'
<1> USE DEF StreamsInv
<1>1. UNCHANGED useVars
  BY DEF Framework, OpenStream, CloseStream, SetStandby, StartStopStream,
         SetStreamParameters, RequestPass, useVars, portVars, selectVars, hwVars, workerVars
<1>2. TypeOK
  BY DEF DevicesInv, ExclusiveInv
<1>3. PICK s \in Streams :
         \/ OpenStream(s)
         \/ CloseStream(s)
         \/ SetStandby(s)
         \/ StartStopStream(s)
         \/ \E devs \in DeviceChoices, m \in MasksOfDir(DirOf[s]),
               mode \in AndroidModes : SetStreamParameters(s, devs, m, mode)
  BY DEF Framework
<1>4. Known'
  <2>1. \A t \in Streams : att'[t] = att[t] \/ att'[t] = Detached
    BY <1>2, <1>3 DEF OpenStream, CloseStream, SetStandby, StartStopStream,
       SetStreamParameters, hwVars, TypeOK, HardwareOK
  <2> QED BY <1>1, <2>1 DEF Known, useVars
<1>5. \A t \in Streams : t \notin started' /\ client'[t] # "calling"
                            => \/ t \notin started /\ client[t] # "calling"
                               \/ stage = "idle"
  BY <1>2, <1>3 DEF OpenStream, CloseStream, SetStandby, StartStopStream,
     SetStreamParameters, RequestPass, Requesting, LockFree, TypeOK, StreamsOK
<1>6. NotChosen'
  BY <1>1, <1>5 DEF NotChosen, useVars
<1>7. Forgotten'
  <2>1. \A t \in Streams : t \notin started' /\ client'[t] = "idle"
                              => t \notin started /\ client[t] = "idle"
    <3>1. /\ started \subseteq Streams /\ client \in [Streams -> {"idle", "calling", "waiting"}]
          /\ s \in Streams
      BY <1>2 DEF TypeOK, StreamsOK
    <3>2. CASE OpenStream(s) \/ CloseStream(s)
      BY <3>1, <3>2 DEF OpenStream, CloseStream
    <3>3. CASE SetStandby(s)
      BY <3>1, <3>3 DEF SetStandby
    <3>4. CASE StartStopStream(s)
      BY <3>1, <3>4 DEF StartStopStream, RequestPass, Requesting
    <3>5. ASSUME NEW devs, NEW m, NEW mode, SetStreamParameters(s, devs, m, mode)
          PROVE  \A t \in Streams : t \notin started' /\ client'[t] = "idle"
                                     => t \notin started /\ client[t] = "idle"
      BY <3>1, <3>5 DEF SetStreamParameters, RequestPass, Requesting
    <3> QED BY <1>3, <3>2, <3>3, <3>4, <3>5
  <2> QED BY <1>1, <2>1 DEF Forgotten, useVars
<1>8. Follows'
  BY <1>1 DEF Follows, useVars
<1>9. NoDanglingStream'
  <2>0. \A u \in Uses : pCur[u] \in Nullable(Streams) /\ pNew[u] \in Nullable(Streams)
    BY <1>2 DEF TypeOK, HardwareOK, SelectOK
  <2>1. ASSUME NEW t \in Streams, Opened(t), \E u \in Uses : pCur[u] = t \/ pNew[u] = t
        PROVE  Opened(t)'
    <3>1. CASE OpenStream(s)
      <4>1. DirOf[s] \in Dirs /\ DirOf[t] \in Dirs /\ list \in [Dirs -> Seq(Streams)]
        BY <1>2, StreamsAssumption DEF TypeOK, StreamsOK
      <4>2. list' = [list EXCEPT ![DirOf[s]] = Append(list[DirOf[s]], s)]
        BY <3>1 DEF OpenStream
      <4>3. PICK i \in DOMAIN list[DirOf[t]] : list[DirOf[t]][i] = t
        BY <2>1 DEF Opened
      <4>4. CASE DirOf[t] = DirOf[s]
        <5> DEFINE l == list[DirOf[s]]
        <5>1. l \in Seq(Streams) /\ i \in 1..Len(l) /\ l[i] = t
          BY <4>1, <4>3, <4>4
        <5>2. i \in DOMAIN Append(l, s) /\ Append(l, s)[i] = t
          BY <5>1, AppendProperties
        <5> QED BY <4>1, <4>2, <4>4, <5>2 DEF Opened
      <4>5. CASE DirOf[t] # DirOf[s]
        BY <4>1, <4>2, <4>3, <4>5 DEF Opened
      <4> QED BY <4>4, <4>5
    <3>2. CASE CloseStream(s)
      <4>1. s \notin started /\ client[s] = "idle"
        BY <3>2 DEF CloseStream
      <4>2. t # s
        BY <2>1, <4>1 DEF Forgotten
      <4> QED BY <1>2, <2>1, <3>2, <4>2, CloseKeepsOpened
    <3>3. CASE list' = list
      BY <2>1, <3>3 DEF Opened
    <3> QED BY <1>3, <3>1, <3>2, <3>3 DEF SetStandby, StartStopStream, SetStreamParameters
  <2> QED BY <1>1, <2>0, <2>1 DEF NoDanglingStream, Nullable, useVars
<1> QED BY <1>4, <1>6, <1>7, <1>8, <1>9

\* A step that changes nothing.
LEMMA StutterStreams ==
    ASSUME StreamsInv, UNCHANGED vars, DevicesInv'
    PROVE  StreamsInv'
<1>1. UNCHANGED <<useVars, clientVars, att>>
  BY DEF vars, useVars, clientVars, streamVars, selectVars, hwVars, workerVars
<1> QED BY <1>1 DEF StreamsInv, Known, NotChosen, Forgotten, Follows, NoDanglingStream,
                    Opened, useVars, clientVars

\* A pass begins with no stream chosen.
LEMMA BeginPassStreams ==
    ASSUME StreamsInv, BeginPass, DevicesInv'
    PROVE  StreamsInv'
<1> USE DEF StreamsInv
<1>1. /\ stage' = "prepare" /\ will' = {} /\ \A u \in Uses : pNew'[u] = None
      /\ UNCHANGED <<cur, pCur, att, list, started, client>>
  BY DEF BeginPass, GoTo, NoNewStream, streamVars, hwVars
<1>2. Known' /\ Follows' /\ NoDanglingStream'
  BY <1>1 DEF Known, Follows, NoDanglingStream, Opened
<1>3. NotChosen' /\ Forgotten'
  BY <1>1, StreamsAssumption DEF NotChosen, Forgotten
<1> QED BY <1>2, <1>3

-----------------------------------------------------------------------------
(* The selection and the stages.                                           *)

\* Only a started stream of the lists is chosen; the route that shall change
\* its stream is marked in the same step.
LEMMA PrepareStreams ==
    ASSUME StreamsInv, NEW e, NEW s \in Nullable(Streams), PrepareRoute(e, s), DevicesInv'
    PROVE  StreamsInv'
<1> USE DEF StreamsInv
<1> DEFINE r == e[3]
<1> DEFINE u == UseOf(e)
<1>0. TypeOK /\ ListsOK
  BY DEF DevicesInv, ExclusiveInv
<1>1. /\ r \in Routes /\ u \in Uses /\ u[2] = r /\ e[1] \in Dirs
      /\ stage = "prepare" /\ stage' = "prepare"
      /\ UNCHANGED <<cur, pCur, att, list, started, client>>
  BY <1>0, VisitType, UseOfType DEF PrepareRoute, Visit, hwVars, streamVars
<1> DEFINE used == Considered(e) /\ (IF r \in StreamRoutes THEN s # None
                                     ELSE Applicable(e[1], r))
<1>2. /\ will' = IF used THEN will \cup {u} ELSE will
      /\ pNew' = IF used /\ s # None THEN [pNew EXCEPT ![u] = s] ELSE pNew
      /\ needReconfig' = IF Considered(e) /\ NeedReconfiguration(u)'
                         THEN needReconfig \cup {u} ELSE needReconfig
  BY DEF PrepareRoute
<1>3. s # None => s \in Streams /\ s \in started /\ Opened(s)
  <2> SUFFICES ASSUME s # None PROVE s \in Streams /\ s \in started /\ Opened(s)
    OBVIOUS
  <2>1. s \in Streams /\ ApplicableStream(s, e[1], r)
    BY DEF Nullable, PrepareRoute
  <2>2. PICK i \in DOMAIN list[e[1]] : list[e[1]][i] = s /\ Candidate(s, e[1], r)
    BY <2>1 DEF ApplicableStream, FirstCandidate
  <2>3. DirOf[s] = e[1]
    BY <1>0, <1>1, <2>1, ChosenStream
  <2> QED BY <2>1, <2>2, <2>3 DEF Candidate, Opened
<1>4. \A v \in Uses : pNew'[v] = pNew[v] \/ (s # None /\ pNew'[v] = s)
  BY <1>0, <1>1, <1>2 DEF TypeOK, SelectOK
<1>5. Known'
  BY <1>1 DEF Known
<1>6. NotChosen' /\ Forgotten'
  BY <1>1, <1>3, <1>4 DEF NotChosen, Forgotten
<1>7. NoDanglingStream'
  BY <1>1, <1>3, <1>4 DEF NoDanglingStream, Opened
<1>8. Follows'
  <2> SUFFICES ASSUME NEW v \in Uses, v \in cur, v \in will', IsStream(v),
                      pCur[v] # pNew'[v]
               PROVE  v \in needReconfig'
    BY <1>0, <1>1 DEF Follows, TypeOK, HardwareOK
  <2>1. needReconfig \subseteq needReconfig'
    BY <1>2
  <2>2. CASE v \in will /\ pNew'[v] = pNew[v]
    BY <1>1, <2>1, <2>2 DEF Follows
  <2>3. CASE ~(v \in will /\ pNew'[v] = pNew[v])
    <3>1. v = u /\ used
      BY <1>0, <1>1, <1>2, <2>3 DEF TypeOK, SelectOK
    <3>2. NeedReconfiguration(u)'
      BY <1>1, <3>1 DEF NeedReconfiguration, IsStream
    <3> HIDE DEF u
    <3> QED BY <1>2, <3>1, <3>2
  <2> QED BY <2>2, <2>3
<1> QED BY <1>5, <1>6, <1>7, <1>8

\* When a pass ends, the streams that wait for it and are stopped are known to
\* no route: the choice does not name them and the hardware follows the choice.
LEMMA PassEndStreams ==
    ASSUME StreamsInv, KeepRouting \/ UnmuteStage, DevicesInv'
    PROVE  StreamsInv'
<1> USE DEF StreamsInv
<1>1. /\ stage \in {"prepare", "unmute"} /\ stage' = "idle"
      /\ client' = Released
      /\ UNCHANGED <<cur, will, pCur, pNew, att, list, started>>
  BY DEF KeepRouting, UnmuteStage, Leave, FinishPass, GoTo, selectVars, hwVars
<1>2. ASSUME NEW u \in Uses, pCur[u] # None
      PROVE  pCur[u] = pNew[u]
  <2>1. IsStream(u)
    BY <1>2 DEF Follows
  <2>2. u \in cur
    BY <1>1, <1>2, <2>1 DEF DevicesInv, PhaseInv, Phase, Settled, InUse, Unused
  <2>3. CASE UnmuteStage
    BY <2>1, <2>2, <2>3 DEF UnmuteStage, Leave, Follows
  <2>4. CASE KeepRouting
    <3>1. stage = "prepare" /\ prevEnabled = will /\ needReconfig = {}
      BY <2>4 DEF KeepRouting, Leave, RoutesWillChange
    <3>2. u \in will
      BY <2>2, <3>1 DEF DevicesInv, ExclusiveInv, StageInv
    <3> QED BY <2>1, <2>2, <3>1, <3>2 DEF Follows
  <2> QED BY <2>3, <2>4
<1>3. Forgotten'
  <2> SUFFICES ASSUME NEW t \in Streams, t \notin started, client'[t] = "idle",
                      NEW u \in Uses
               PROVE  pCur[u] # t /\ pNew[u] # t
    BY <1>1 DEF Forgotten
  <2>1. client[t] # "calling"
    BY <1>1 DEF Released
  <2>2. pNew[u] # t
    BY <1>1, <2>1 DEF NotChosen
  <2> QED BY <1>2, <2>2, StreamsAssumption
<1>4. Known' /\ NotChosen' /\ Follows' /\ NoDanglingStream'
  BY <1>1 DEF Known, NotChosen, Follows, NoDanglingStream, Opened
<1> QED BY <1>3, <1>4

\* Between the stages the hardware has followed as far as the stage goes.
LEMMA StagesStreams ==
    ASSUME StreamsInv, DevicesInv',
           \/ MuteStage \/ DisableEnd \/ PostDisableEnd
           \/ ConfigureEnd \/ PreEnableEnd \/ EnableEnd
    PROVE  StreamsInv'
<1> USE DEF StreamsInv
<1>1. /\ UNCHANGED useSets /\ UNCHANGED <<att, list, started, client>>
      /\ stage # "idle"
  BY DEF MuteStage, DisableEnd, PostDisableEnd, ConfigureEnd, PreEnableEnd, EnableEnd,
         Leave, selectVars, hwVars, streamVars, useSets
<1>2. Known' /\ NotChosen' /\ Forgotten' /\ NoDanglingStream'
  BY <1>1 DEF Known, NotChosen, Forgotten, NoDanglingStream, Opened, useSets
<1>3. CASE MuteStage \/ DisableEnd
  <2>1. stage \in {"prepare", "disable"} /\ stage' \in {"disable", "postDisable"}
    BY <1>3 DEF MuteStage, DisableEnd, Leave, GoTo
  <2> QED BY <1>1, <1>2, <2>1 DEF Follows, useSets
<1>4. CASE PostDisableEnd
  <2>1. /\ stage = "postDisable" /\ stage' = "configure" /\ todo = {}
        /\ todo' = Visits(needReconfig \ rerouting)
    BY <1>4 DEF PostDisableEnd, Leave, GoTo
  <2>2. cur \subseteq will /\ cur \subseteq Uses /\ needReconfig \ rerouting \subseteq Uses
    BY <2>1 DEF DevicesInv, ExclusiveInv, StageInv, TypeOK, HardwareOK, SelectOK
  <2>3. rerouting \cap cur = {}
    BY <2>1 DEF DevicesInv, TodoInv
  <2>4. ASSUME NEW u \in cur, IsStream(u), pCur[u] # pNew[u]
        PROVE  VisitOf(u) \in todo'
    <3>1. u \in needReconfig \ rerouting
      BY <2>1, <2>2, <2>3, <2>4 DEF Follows
    <3> QED BY <2>1, <2>2, <3>1, VisitsOf
  <2> QED BY <1>1, <1>2, <2>1, <2>4 DEF Follows, useSets
<1>5. CASE ConfigureEnd \/ PreEnableEnd \/ EnableEnd
  <2>1. /\ stage \in {"configure", "preEnable", "enable"} /\ todo = {}
        /\ stage' \in {"preEnable", "enable", "unmute"}
    BY <1>5 DEF ConfigureEnd, PreEnableEnd, EnableEnd, Leave, GoTo
  <2> QED BY <1>1, <1>2, <2>1 DEF Follows, useSets
<1> QED BY <1>3, <1>4, <1>5

-----------------------------------------------------------------------------
(* The steps on one route.                                                 *)

\* A step on one route takes its stream away, leaves it or gives it the chosen
\* one, and a stream that is attached after it has a route that knows it.
LEMMA RouteStepStreams ==
    ASSUME StreamsInv, DevicesInv', Follows', stage # "idle", stage' = stage,
           UNCHANGED <<clientVars, pNew>>,
           \A u \in Uses : pCur'[u] \in {None, pCur[u], pNew[u]},
           \A t \in Streams : att'[t] # Detached => \E u \in Uses : pCur'[u] = t
    PROVE  StreamsInv'
<1> USE DEF StreamsInv
<1>1. Known'
  BY DEF Known
<1>2. NotChosen'
  BY DEF NotChosen, clientVars
<1>3. Forgotten'
  BY StreamsAssumption DEF NotChosen, Forgotten, clientVars
<1>4. NoDanglingStream'
  BY DEF NoDanglingStream, Opened, clientVars
<1> QED BY <1>1, <1>2, <1>3, <1>4

\* A stream is detached, or only its device is closed.
LEMMA DisablingStreams ==
    ASSUME StreamsInv, DevicesInv', NEW e, DisableRoute(e) \/ PostDisableRoute(e)
    PROVE  StreamsInv'
<1> DEFINE u == UseOf(e)
<1>1. TypeOK /\ TodoInv
  BY DEF StreamsInv, DevicesInv, ExclusiveInv
<1>2. UNCHANGED <<clientVars, will, rerouting, needReconfig, pNew>>
  BY DEF DisableRoute, PostDisableRoute, streamVars, selectVars, clientVars
<1>3. pCur \in [Uses -> Nullable(Streams)]
  BY <1>1 DEF TypeOK, HardwareOK
<1>4. CASE DisableRoute(e)
  <2>1. u \in Uses /\ e \in todo /\ stage = "disable" /\ stage' = "disable"
    BY <1>1, <1>4, VisitOnce DEF DisableRoute
  <2>2. /\ att' = IF IsStream(u) THEN DetachCurrent(u) ELSE att
        /\ pCur' = IF IsStream(u) THEN [pCur EXCEPT ![u] = None] ELSE pCur
        /\ cur' = cur
    BY <1>4 DEF DisableRoute
  <2>3. \A v \in Uses : pCur'[v] \in {None, pCur[v], pNew[v]}
    BY <1>3, <2>2
  <2>4. u \in will => u \in needReconfig
    <3>1. u \in Disabled
      BY <1>1, <2>1 DEF TodoInv
    <3> QED BY <3>1 DEF Disabled, StreamsInv, DevicesInv, ReconfigInv
  <2> HIDE DEF u
  <2>5. ASSUME NEW t \in Streams, att'[t] # Detached
        PROVE  \E v \in Uses : pCur'[v] = t
    <3>1. att'[t] = att[t] /\ (IsStream(u) => t # pCur[u])
      BY <2>2, <2>5, WithValue DEF DetachCurrent
    <3>2. PICK v \in Uses : pCur[v] = t
      BY <2>5, <3>1 DEF StreamsInv, Known
    <3>3. pCur'[v] = t
      BY <1>3, <2>2, <3>1, <3>2
    <3> QED BY <3>3
  <2>6. Follows'
    <3>1. \A v \in cur' \cap will' :
            IsStream(v) /\ pCur'[v] # pNew'[v] => v \in needReconfig'
      <4> SUFFICES ASSUME NEW v \in cur \cap will, IsStream(v), pCur'[v] # pNew[v]
                   PROVE  v \in needReconfig
        BY <1>2, <2>2
      <4>1. CASE v = u
        BY <2>4, <4>1
      <4>2. CASE v # u
        <5>1. v \in Uses
          BY <1>1 DEF TypeOK, HardwareOK
        <5>2. pCur'[v] = pCur[v]
          BY <1>3, <2>2, <4>2, <5>1
        <5> QED BY <2>1, <5>2 DEF StreamsInv, Follows
      <4> QED BY <4>1, <4>2
    <3>2. \A v \in Uses : ~IsStream(v) => pCur'[v] = None
      BY <1>3, <2>2 DEF StreamsInv, Follows
    <3> QED BY <2>1, <3>1, <3>2 DEF Follows
  <2> QED BY <1>2, <2>1, <2>3, <2>5, <2>6, RouteStepStreams
<1>5. CASE PostDisableRoute(e)
  <2>1. stage = "postDisable" /\ stage' = "postDisable"
    BY <1>5 DEF PostDisableRoute, Visit
  <2>2. att' = att /\ pCur' = pCur /\ cur' = cur \ {u}
    BY <1>5 DEF PostDisableRoute
  <2>3. Follows'
    BY <1>2, <2>1, <2>2 DEF StreamsInv, Follows
  <2>4. \A t \in Streams : att'[t] # Detached => \E v \in Uses : pCur'[v] = t
    BY <2>2 DEF StreamsInv, Known
  <2> QED BY <1>2, <2>1, <2>2, <2>3, <2>4, RouteStepStreams
<1> QED BY <1>4, <1>5

\* The reconfigured route has its chosen stream.
LEMMA ConfigureStreams ==
    ASSUME OnlyOpeningFails, StreamsInv, DevicesInv', NEW e, NEW outcome,
           ConfigureRoute(e, outcome)
    PROVE  StreamsInv'
<1> DEFINE u == UseOf(e)
<1> DEFINE s == pNew[u]
<1>1. TypeOK /\ TodoInv
  BY DEF StreamsInv, DevicesInv, ExclusiveInv
<1>2. UNCHANGED <<clientVars, will, rerouting, needReconfig, pNew>>
  BY DEF ConfigureRoute, streamVars, selectVars, clientVars
<1>3. pCur \in [Uses -> Nullable(Streams)]
  BY <1>1 DEF TypeOK, HardwareOK
<1>4. /\ u \in Uses /\ stage = "configure" /\ stage' = "configure"
      /\ \A v \in Uses : v # u => (VisitOf(v) \in todo' <=> VisitOf(v) \in todo)
  BY <1>1, VisitOnce DEF ConfigureRoute
<1>5. /\ cur' = cur
      /\ att' = IF ~IsStream(u) THEN att
                ELSE IF pCur[u] = s THEN With(att, s, Reconfigured(s))
                ELSE With(DetachCurrent(u), s, Attached(s, outcome))
      /\ pCur' = IF ~IsStream(u) \/ pCur[u] = s THEN pCur
                 ELSE [pCur EXCEPT ![u] = IF outcome = "ok" THEN s ELSE None]
      /\ outcome = "ok"
  BY DEF ConfigureRoute, OnlyOpeningFails, AttachOutcomes
<1> HIDE DEF u, s
<1>6. /\ \A v \in Uses : v # u => pCur'[v] = pCur[v]
      /\ IsStream(u) => pCur'[u] = s
      /\ ~IsStream(u) => pCur' = pCur
  BY <1>3, <1>4, <1>5
<1>7. \A v \in Uses : pCur'[v] \in {None, pCur[v], pNew[v]}
  BY <1>6 DEF s
<1>8. ASSUME NEW t \in Streams, att'[t] # Detached
      PROVE  \E v \in Uses : pCur'[v] = t
  <2>1. CASE IsStream(u) /\ t = s
    BY <1>4, <1>6, <2>1
  <2>2. CASE ~(IsStream(u) /\ t = s)
    <3>1. att'[t] = att[t] /\ (IsStream(u) => t # pCur[u])
      BY <1>5, <1>8, <2>2, WithValue DEF DetachCurrent
    <3>2. PICK v \in Uses : pCur[v] = t
      BY <1>8, <3>1 DEF StreamsInv, Known
    <3>3. pCur'[v] = t
      BY <1>6, <3>1, <3>2
    <3> QED BY <3>3
  <2> QED BY <2>1, <2>2
<1>9. Follows'
  <2>1. ASSUME NEW v \in cur, IsStream(v), pCur'[v] # pNew[v]
        PROVE  VisitOf(v) \in todo'
    <3>1. v \in Uses
      BY <1>1 DEF TypeOK, HardwareOK
    <3>2. v # u
      BY <1>6, <2>1 DEF s
    <3>3. pCur'[v] = pCur[v]
      BY <1>6, <3>1, <3>2
    <3>4. VisitOf(v) \in todo
      BY <1>4, <2>1, <3>3 DEF StreamsInv, Follows
    <3> QED BY <1>4, <3>1, <3>2, <3>4
  <2>2. \A v \in Uses : ~IsStream(v) => pCur'[v] = None
    BY <1>6 DEF StreamsInv, Follows
  <2> QED BY <1>2, <1>4, <1>5, <2>1, <2>2 DEF Follows
<1> QED BY <1>2, <1>4, <1>7, <1>8, <1>9, RouteStepStreams

\* The enabled route has its chosen stream, or is not in use.
LEMMA EnablingStreams ==
    ASSUME OnlyOpeningFails, StreamsInv, DevicesInv', NEW e,
           \/ \E opens : PreEnableRoute(e, opens)
           \/ \E opens, outcome : EnableRoute(e, opens, outcome)
    PROVE  StreamsInv'
<1> DEFINE u == UseOf(e)
<1> DEFINE s == pNew[u]
<1>1. TypeOK /\ TodoInv
  BY DEF StreamsInv, DevicesInv, ExclusiveInv
<1>2. UNCHANGED <<clientVars, pNew>>
  BY DEF PreEnableRoute, EnableRoute, streamVars, selectVars, clientVars
<1>3. pCur \in [Uses -> Nullable(Streams)]
  BY <1>1 DEF TypeOK, HardwareOK
<1>4. CASE \E opens : PreEnableRoute(e, opens)
  <2>1. /\ stage = "preEnable" /\ stage' = "preEnable"
        /\ UNCHANGED <<att, pCur, cur>>
    BY <1>4 DEF PreEnableRoute, Visit
  <2>2. Follows'
    BY <1>2, <2>1 DEF StreamsInv, Follows
  <2>3. \A t \in Streams : att'[t] # Detached => \E v \in Uses : pCur'[v] = t
    BY <2>1 DEF StreamsInv, Known
  <2> QED BY <1>2, <2>1, <2>2, <2>3, RouteStepStreams
<1>5. ASSUME NEW opens, NEW outcome, EnableRoute(e, opens, outcome)
      PROVE  StreamsInv'
  <2>1. u \in Uses /\ e \in todo /\ stage = "enable" /\ stage' = "enable"
    BY <1>1, <1>5, VisitOnce DEF EnableRoute
  <2> DEFINE ready == IF IsStream(u) /\ ~IsLpe(u) THEN opens ELSE u \in pcm
  <2>2. outcome = "ok"
    BY <1>5 DEF EnableRoute, OnlyOpeningFails, AttachOutcomes
  <2>3. /\ att' = IF IsStream(u) /\ ready THEN With(att, s, Attached(s, outcome)) ELSE att
        /\ pCur' = IF IsStream(u) /\ ready THEN [pCur EXCEPT ![u] = s] ELSE pCur
        /\ cur' = IF ~IsStream(u) \/ ready THEN cur \cup {u} ELSE cur
    BY <1>5, <2>2 DEF EnableRoute
  <2>4. u \notin cur /\ (IsStream(u) => pCur[u] = None)
    <3>1. u \notin cur
      BY <1>1, <2>1 DEF TodoInv
    <3>2. ASSUME IsStream(u) PROVE pCur[u] = None
      <4>1. e = VisitOf(u)
        BY <1>1, <2>1 DEF TodoInv
      <4> QED BY <2>1, <3>2, <4>1 DEF StreamsInv, DevicesInv, PhaseInv, Phase, Unused,
                                      OpenedEarly
    <3> QED BY <3>1, <3>2
  <2> HIDE DEF u, s, ready
  <2>5. \A v \in Uses : pCur'[v] \in {None, pCur[v], pNew[v]}
    BY <1>3, <2>3 DEF s
  <2>6. ASSUME NEW t \in Streams, att'[t] # Detached
        PROVE  \E v \in Uses : pCur'[v] = t
    <3>1. CASE IsStream(u) /\ ready /\ t = s
      BY <1>3, <2>1, <2>3, <3>1
    <3>2. CASE ~(IsStream(u) /\ ready /\ t = s)
      <4>1. att'[t] = att[t]
        BY <2>3, <3>2, WithValue
      <4>2. PICK v \in Uses : pCur[v] = t
        BY <2>6, <4>1 DEF StreamsInv, Known
      <4>3. pCur'[v] = t
        BY <1>3, <2>3, <2>4, <4>2, StreamsAssumption
      <4> QED BY <4>3
    <3> QED BY <3>1, <3>2
  <2>7. Follows'
    <3>1. ASSUME NEW v \in cur', IsStream(v) PROVE pCur'[v] = pNew[v]
      <4>1. v \in Uses
        BY <1>1, <2>1, <2>3 DEF TypeOK, HardwareOK
      <4>2. CASE v = u
        BY <1>3, <2>1, <2>3, <2>4, <3>1, <4>2 DEF s
      <4>3. CASE v # u
        BY <1>3, <2>1, <2>3, <3>1, <4>1, <4>3 DEF StreamsInv, Follows
      <4> QED BY <4>2, <4>3
    <3>2. \A v \in Uses : ~IsStream(v) => pCur'[v] = None
      BY <1>3, <2>3 DEF StreamsInv, Follows
    <3> QED BY <1>2, <2>1, <3>1, <3>2 DEF Follows
  <2> QED BY <1>2, <2>1, <2>5, <2>6, <2>7, RouteStepStreams
<1> QED BY <1>4, <1>5

-----------------------------------------------------------------------------
(* The theorems.                                                           *)

\* Every step keeps the invariant.
LEMMA StreamsNext == OnlyOpeningFails /\ StreamsInv /\ [Next]_vars => StreamsInv'
<1> SUFFICES ASSUME OnlyOpeningFails, StreamsInv, [Next]_vars PROVE StreamsInv'
  OBVIOUS
<1>1. DevicesInv'
  BY DevicesNext DEF StreamsInv
<1>2. CASE Framework
  BY <1>1, <1>2, FrameworkStreams
<1>3. CASE UNCHANGED vars
  BY <1>1, <1>3, StutterStreams
<1>4. CASE UpdateRouting \/ UpdateModem \/ SetMicMute
  BY <1>1, <1>4, BeginPassStreams DEF UpdateRouting, UpdateModem, SetMicMute
<1>5. CASE PassStep
  BY <1>1, <1>5, PassEndStreams, StagesStreams, PrepareStreams, DisablingStreams,
     ConfigureStreams, EnablingStreams DEF PassStep
<1> QED BY <1>2, <1>3, <1>4, <1>5 DEF Next

\* A stop is synchronous: when the call returns, the pass that saw the stream
\* in standby has ended and the stream is detached, although other passes may
\* have begun before the request, and others run after it.
THEOREM StopIsSynchronous == OnlyOpeningFails => (Spec => []StoppedStreamIsDetached)
<1> SUFFICES ASSUME OnlyOpeningFails PROVE Spec => []StoppedStreamIsDetached
  OBVIOUS
<1>1. StreamsInv /\ [Next]_vars => StreamsInv'
  BY StreamsNext
<1>2. StreamsInv => StoppedStreamIsDetached
  BY DEF StreamsInv, Known, Forgotten, StoppedStreamIsDetached
<1> QED BY <1>1, <1>2, StreamsInit, PTL DEF Spec

\* No route keeps a pointer to a stream that was closed, hence deleted, by any
\* interleaving of the framework's calls with the passes.
THEOREM NoStreamDangles == OnlyOpeningFails => (Spec => []NoDanglingStream)
<1> SUFFICES ASSUME OnlyOpeningFails PROVE Spec => []NoDanglingStream
  OBVIOUS
<1>1. StreamsInv /\ [Next]_vars => StreamsInv'
  BY StreamsNext
<1>2. StreamsInv => NoDanglingStream
  BY DEF StreamsInv
<1> QED BY <1>1, <1>2, StreamsInit, PTL DEF Spec

-----------------------------------------------------------------------------
(* The streams and their routes: what PcmDevices asks for.                 *)

\* A stream that goes from one route to another leaves a route that is disabled
\* first.  Two routes that stay enabled and exchange streams break this: the
\* second detaches the stream the first has just attached (routing_flags).
NoExchange ==
    stage = "configure" =>
        \A u, v \in cur : u # v /\ pCur[v] # None => pCur[v] # pNew[u]

\* The stream of a route is attached to it.
Mutual == \A u \in Uses : pCur[u] # None =>
            att[pCur[u]].route = u[2] /\ DirOf[pCur[u]] = u[1]

\* A stream that has a route was chosen for it, a route that has one is selected.
Chosen ==
    /\ \A s \in Streams : newRoute[s] # None => pNew[<<DirOf[s], newRoute[s]>>] = s
    /\ \A u \in Uses : pNew[u] # None => IsStream(u) /\ u \in will

\* Has u the stream that was chosen for it, on the devices chosen for that?
Fits(u) == pCur[u] = pNew[u] /\ att[pNew[u]].devices = newDevices[pNew[u]]
Fitted ==
    /\ stage \in {"prepare", "disable", "postDisable"} =>
         \A u \in cur \cap will : IsStream(u) /\ ~Fits(u) => u \in needReconfig
    /\ stage = "configure" =>
         \A u \in cur : IsStream(u) /\ ~Fits(u) => VisitOf(u) \in todo
    /\ stage \in {"preEnable", "enable", "unmute"} =>
         \A u \in cur : IsStream(u) => Fits(u)

UsersInv == StreamsInv /\ Mutual /\ Chosen /\ Fitted

\* May stream s ever get use u?
CanTake(s, u) ==
    /\ u[1] = DirOf[s]
    /\ DirOf[s] = "out" /\ ~FlagsMayChange => OpenMask[s] \in MasksOf[u]
\* Of two streams that may get a route, neither may get another route.
Apart ==
    \A s, t \in Streams, u, v \in Uses :
        s # t /\ u # v => ~(CanTake(s, u) /\ CanTake(s, v) /\ CanTake(t, v))
Taken ==
    /\ ~FlagsMayChange => \A s \in Streams : DirOf[s] = "out" => mask[s] = OpenMask[s]
    /\ \A u \in Uses : /\ pCur[u] # None => CanTake(pCur[u], u)
                       /\ pNew[u] # None => CanTake(pNew[u], u)

\* PcmDevices as the routes see it: the user of a device is pCurrent.
RouteView == INSTANCE PcmDevices WITH
    Slots <- Uses, Clients <- Streams, Nobody <- None, open <- pcm, user <- pCur

-----------------------------------------------------------------------------
(* Outside of a pass.                                                      *)

\* What is attached to a route is attached to no other.
LEMMA OneRoute ==
    ASSUME Mutual, NEW u \in Uses, NEW v \in Uses, pCur[u] # None, pCur[u] = pCur[v]
    PROVE  u = v
BY DEF Mutual, Uses

\* A stream is chosen for one route.
LEMMA OneChoice ==
    ASSUME ChoiceInv, stage # "idle",
           NEW u \in Uses, NEW v \in Uses, pNew[u] # None, pNew[u] = pNew[v]
    PROVE  u = v
BY DEF ChoiceInv, Uses

LEMMA UsersInit == Init => UsersInv
<1> SUFFICES ASSUME Init PROVE UsersInv
  OBVIOUS
<1>1. StreamsInv
  BY StreamsInit
<1>2. Mutual /\ Chosen /\ Fitted
  BY DEF Init, Mutual, Chosen, Fitted
<1> QED BY <1>1, <1>2 DEF UsersInv

\* The parts read nothing else.
LEMMA UsersKeptBy ==
    ASSUME Mutual, Chosen, Fitted, UNCHANGED <<useVars, att, newRoute, newDevices>>
    PROVE  Mutual' /\ Chosen' /\ Fitted'
BY DEF useVars, Mutual, Chosen, Fitted, Fits

\* The framework's calls: a stream that is opened is new to the routes, and
\* devices are selected outside of a pass.
LEMMA FrameworkUsers ==
    ASSUME UsersInv, Framework, StreamsInv'
    PROVE  UsersInv' /\ pcm' = pcm /\ pCur' = pCur
<1> USE DEF UsersInv
<1>1. UNCHANGED useVars
  BY DEF Framework, OpenStream, CloseStream, SetStandby, StartStopStream,
         SetStreamParameters, RequestPass, useVars, portVars, selectVars, hwVars, workerVars
<1>2. PICK s \in Streams :
         \/ OpenStream(s)
         \/ CloseStream(s)
         \/ SetStandby(s)
         \/ StartStopStream(s)
         \/ \E devs \in DeviceChoices, m \in MasksOfDir(DirOf[s]),
               mode \in AndroidModes : SetStreamParameters(s, devs, m, mode)
  BY DEF Framework
<1>3. CASE CloseStream(s) \/ SetStandby(s) \/ StartStopStream(s)
  <2>1. UNCHANGED <<att, newRoute, newDevices>>
    BY <1>3 DEF CloseStream, SetStandby, StartStopStream, selectVars, hwVars
  <2> QED BY <1>1, <2>1, UsersKeptBy DEF useVars
<1>4. ASSUME NEW devs, NEW m, NEW mode, SetStreamParameters(s, devs, m, mode)
      PROVE  UsersInv' /\ pcm' = pcm /\ pCur' = pCur
  <2>1. UNCHANGED <<att, newRoute>> /\ stage' = "idle"
    BY <1>1, <1>4 DEF SetStreamParameters, LockFree, selectVars, hwVars, useVars
  <2> QED BY <1>1, <2>1 DEF Mutual, Chosen, Fitted, useVars
<1>5. CASE OpenStream(s)
  <2>1. /\ stage' = "idle"
        /\ att' = [att EXCEPT ![s] = Detached]
        /\ newRoute' = [newRoute EXCEPT ![s] = None]
        /\ att \in [Streams -> Attachments] /\ newRoute \in [Streams -> Nullable(Routes)]
        /\ pNew \in [Uses -> Nullable(Streams)] /\ pCur \in [Uses -> Nullable(Streams)]
    BY <1>1, <1>5 DEF OpenStream, LockFree, useVars, StreamsInv, DevicesInv, ExclusiveInv,
       TypeOK, SelectOK, HardwareOK
  <2>2. \A u \in Uses : pCur[u] # s /\ pNew[u] # s
    BY <1>5, StreamsAssumption DEF OpenStream, StreamsInv, NoDanglingStream
  <2>3. Mutual'
    BY <1>1, <2>1, <2>2 DEF Mutual, useVars, Nullable
  <2>4. Chosen'
    BY <1>1, <2>1, <2>2 DEF Chosen, useVars
  <2>5. Fitted'
    BY <2>1 DEF Fitted
  <2> QED BY <1>1, <2>3, <2>4, <2>5 DEF useVars
<1> QED BY <1>2, <1>3, <1>4, <1>5

LEMMA StutterUsers ==
    ASSUME UsersInv, UNCHANGED vars, StreamsInv'
    PROVE  UsersInv' /\ pcm' = pcm /\ pCur' = pCur
<1>1. UNCHANGED <<useVars, att, newRoute, newDevices>>
  BY DEF vars, useVars, streamVars, selectVars, hwVars, workerVars
<1> QED BY <1>1, UsersKeptBy DEF UsersInv, useVars

\* A pass forgets the choice of the pass before.
LEMMA BeginPassUsers ==
    ASSUME UsersInv, BeginPass, StreamsInv'
    PROVE  UsersInv' /\ pcm' = pcm /\ pCur' = pCur
<1> USE DEF UsersInv
<1>1. /\ stage' = "prepare" /\ will' = {} /\ \A u \in Uses : pNew'[u] = None
      /\ UNCHANGED <<cur, pCur, pcm, att>>
      /\ newRoute' = [s \in Streams |->
                        IF \E u \in Uses : pNew[u] = s THEN None ELSE newRoute[s]]
  BY DEF BeginPass, GoTo, NoNewStream, streamVars, hwVars
<1>2. \A s \in Streams : newRoute'[s] = None
  <2> SUFFICES ASSUME NEW s \in Streams, newRoute[s] # None
               PROVE  \E u \in Uses : pNew[u] = s
    BY <1>1
  <2>1. newRoute[s] \in Routes
    BY DEF StreamsInv, DevicesInv, ExclusiveInv, TypeOK, SelectOK, Nullable
  <2>2. <<DirOf[s], newRoute[s]>> \in Uses
    BY <2>1, StreamsAssumption DEF Uses
  <2> QED BY <2>2 DEF Chosen
<1>3. Mutual' /\ Chosen' /\ Fitted'
  BY <1>1, <1>2 DEF Mutual, Chosen, Fitted
<1> QED BY <1>1, <1>3

-----------------------------------------------------------------------------
(* The selection and the stages.                                           *)

\* A route that is selected is not applicable again, and keeps its stream.
LEMMA PrepareUsers ==
    ASSUME UsersInv, NEW e, NEW s \in Nullable(Streams), PrepareRoute(e, s), StreamsInv'
    PROVE  UsersInv' /\ pcm' = pcm /\ pCur' = pCur
<1> USE DEF UsersInv
<1> DEFINE r == e[3]
<1> DEFINE u == UseOf(e)
<1>0. TypeOK /\ ListsOK
  BY DEF StreamsInv, DevicesInv, ExclusiveInv
<1>1. /\ r \in Routes /\ u \in Uses /\ u[1] = e[1] /\ u[2] = r /\ e[1] \in Dirs
      /\ stage = "prepare" /\ stage' = "prepare"
      /\ UNCHANGED <<cur, pCur, pcm, att, newDevices>>
  BY <1>0, VisitType, UseOfType DEF PrepareRoute, Visit, hwVars, streamVars
<1> DEFINE used == Considered(e) /\ (IF r \in StreamRoutes THEN s # None
                                     ELSE Applicable(e[1], r))
<1>2. /\ will' = IF used THEN will \cup {u} ELSE will
      /\ pNew' = IF used /\ s # None THEN [pNew EXCEPT ![u] = s] ELSE pNew
      /\ newRoute' = IF used /\ s # None THEN [newRoute EXCEPT ![s] = r] ELSE newRoute
      /\ needReconfig' = IF Considered(e) /\ NeedReconfiguration(u)'
                         THEN needReconfig \cup {u} ELSE needReconfig
  BY DEF PrepareRoute
<1>3. s # None => /\ s \in Streams /\ DirOf[s] = e[1] /\ newRoute[s] = None
                  /\ IsStream(u) /\ u = <<e[1], r>> /\ u \notin will
  <2> SUFFICES ASSUME s # None
               PROVE  /\ s \in Streams /\ DirOf[s] = e[1] /\ newRoute[s] = None
                      /\ IsStream(u) /\ u = <<e[1], r>> /\ u \notin will
    OBVIOUS
  <2>1. s \in Streams /\ ApplicableStream(s, e[1], r) /\ u = <<e[1], r>>
    BY DEF Nullable, PrepareRoute, UseOf
  <2>2. DirOf[s] = e[1] /\ newRoute[s] = None /\ r \in StreamRoutes
    BY <1>0, <1>1, <2>1, ChosenStream
  <2>3. Applicable(e[1], r)
    BY <2>1 DEF ApplicableStream
  <2> QED BY <1>1, <2>1, <2>2, <2>3 DEF Applicable, IsStream
<1>4. Mutual'
  BY <1>1 DEF Mutual
<1>5. Chosen'
  <2>1. CASE used /\ s # None
    <3>1. /\ pNew'[u] = s /\ \A v \in Uses : v # u => pNew'[v] = pNew[v]
          /\ newRoute'[s] = r /\ \A t \in Streams : t # s => newRoute'[t] = newRoute[t]
          /\ will' = will \cup {u}
      BY <1>0, <1>1, <1>2, <1>3, <2>1 DEF TypeOK, SelectOK
    <3>2. ASSUME NEW t \in Streams, t # s, newRoute[t] # None
          PROVE  pNew'[<<DirOf[t], newRoute[t]>>] = t
      <4>1. <<DirOf[t], newRoute[t]>> \in Uses
        BY <1>0, <3>2, StreamsAssumption DEF TypeOK, SelectOK, Nullable, Uses
      <4>2. pNew[<<DirOf[t], newRoute[t]>>] = t
        BY <3>2 DEF Chosen
      <4>3. pNew[u] = None
        BY <1>1, <1>3, <2>1 DEF Chosen
      <4>4. t # None
        BY StreamsAssumption
      <4> QED BY <3>1, <4>1, <4>2, <4>3, <4>4
    <3>3. pNew'[<<DirOf[s], newRoute'[s]>>] = s
      BY <1>3, <2>1, <3>1
    <3> HIDE DEF u, used, r
    <3>4. \A v \in Uses : pNew'[v] # None => IsStream(v) /\ v \in will'
      BY <1>3, <2>1, <3>1 DEF Chosen
    <3> QED BY <3>1, <3>2, <3>3, <3>4 DEF Chosen
  <2>2. CASE ~(used /\ s # None)
    BY <1>2, <2>2 DEF Chosen
  <2> QED BY <2>1, <2>2
<1>6. Fitted'
  <2> SUFFICES ASSUME NEW v \in Uses, v \in cur, v \in will', IsStream(v), ~Fits(v)'
               PROVE  v \in needReconfig'
    BY <1>0, <1>1 DEF Fitted, TypeOK, HardwareOK
  <2>1. needReconfig \subseteq needReconfig'
    BY <1>2
  <2>2. CASE v \in will /\ pNew'[v] = pNew[v]
    BY <1>1, <2>1, <2>2 DEF Fitted, Fits
  <2>3. CASE ~(v \in will /\ pNew'[v] = pNew[v])
    <3>1. v = u /\ used
      BY <1>0, <1>1, <1>2, <2>3 DEF TypeOK, SelectOK
    <3>2. NeedReconfiguration(u)'
      BY <1>1, <3>1 DEF NeedReconfiguration, IsStream, Fits
    <3> HIDE DEF u
    <3> QED BY <1>2, <3>1, <3>2
  <2> QED BY <2>2, <2>3
<1> QED BY <1>1, <1>4, <1>5, <1>6

\* At the end of a pass and between its stages.
LEMMA StagesUsers ==
    ASSUME UsersInv, StreamsInv',
           \/ KeepRouting \/ MuteStage \/ DisableEnd \/ PostDisableEnd
           \/ ConfigureEnd \/ PreEnableEnd \/ EnableEnd \/ UnmuteStage
    PROVE  UsersInv' /\ pcm' = pcm /\ pCur' = pCur
<1> USE DEF UsersInv
<1>1. UNCHANGED useSets /\ UNCHANGED <<att, newRoute, newDevices>>
  BY DEF KeepRouting, MuteStage, DisableEnd, PostDisableEnd, ConfigureEnd, PreEnableEnd,
         EnableEnd, UnmuteStage, selectVars, hwVars, streamVars, useSets
<1>2. Mutual' /\ Chosen' /\ pcm' = pcm /\ pCur' = pCur
  BY <1>1 DEF Mutual, Chosen, useSets
<1>3. CASE KeepRouting \/ UnmuteStage
  <2>1. stage' = "idle"
    BY <1>3 DEF KeepRouting, UnmuteStage, FinishPass, GoTo
  <2> QED BY <1>2, <2>1 DEF Fitted
<1>4. CASE MuteStage \/ DisableEnd
  <2>1. stage \in {"prepare", "disable"} /\ stage' \in {"disable", "postDisable"}
    BY <1>4 DEF MuteStage, DisableEnd, Leave, GoTo
  <2> QED BY <1>1, <1>2, <2>1 DEF Fitted, Fits, useSets
<1>5. CASE PostDisableEnd
  <2>1. /\ stage = "postDisable" /\ stage' = "configure" /\ todo = {}
        /\ todo' = Visits(needReconfig \ rerouting)
    BY <1>5 DEF PostDisableEnd, Leave, GoTo
  <2>2. cur \subseteq will /\ cur \subseteq Uses /\ needReconfig \ rerouting \subseteq Uses
    BY <2>1 DEF StreamsInv, DevicesInv, ExclusiveInv, StageInv, TypeOK, HardwareOK, SelectOK
  <2>3. rerouting \cap cur = {}
    BY <2>1 DEF StreamsInv, DevicesInv, TodoInv
  <2>4. ASSUME NEW u \in cur, IsStream(u), ~Fits(u)
        PROVE  VisitOf(u) \in todo'
    <3>1. u \in needReconfig \ rerouting
      BY <2>1, <2>2, <2>3, <2>4 DEF Fitted
    <3> QED BY <2>1, <2>2, <3>1, VisitsOf
  <2> QED BY <1>1, <1>2, <2>1, <2>4 DEF Fitted, Fits, useSets
<1>6. CASE ConfigureEnd \/ PreEnableEnd \/ EnableEnd
  <2>1. /\ stage \in {"configure", "preEnable", "enable"} /\ todo = {}
        /\ stage' \in {"preEnable", "enable", "unmute"}
    BY <1>6 DEF ConfigureEnd, PreEnableEnd, EnableEnd, Leave, GoTo
  <2> QED BY <1>1, <1>2, <2>1 DEF Fitted, Fits, useSets
<1> QED BY <1>3, <1>4, <1>5, <1>6

-----------------------------------------------------------------------------
(* The steps on one route.                                                 *)

\* A stream leaves its route: the device is released, and closed now or later.
LEMMA DisablingUsers ==
    ASSUME UsersInv, StreamsInv', NEW e, DisableRoute(e)
    PROVE  UsersInv' /\ [RouteView!Next]_<<pcm, pCur>>
<1> USE DEF UsersInv
<1> DEFINE u == UseOf(e)
<1>1. TypeOK /\ TodoInv /\ PhaseInv /\ ReconfigInv
  BY DEF StreamsInv, DevicesInv, ExclusiveInv
<1>2. UNCHANGED <<will, rerouting, needReconfig, pNew, newRoute, newDevices>>
  BY DEF DisableRoute, streamVars, selectVars
<1>3. pCur \in [Uses -> Nullable(Streams)] /\ pNew \in [Uses -> Nullable(Streams)]
  BY <1>1 DEF TypeOK, HardwareOK, SelectOK
<1>4. /\ u \in Uses /\ e \in todo /\ stage = "disable" /\ stage' = "disable"
      /\ VisitOf(u) \in todo /\ u \in Disabled
  <2>1. /\ u \in Uses /\ e \in todo /\ stage = "disable" /\ stage' = "disable"
        /\ e = VisitOf(u)
    BY <1>1, VisitOnce DEF DisableRoute
  <2> QED BY <1>1, <2>1 DEF TodoInv
<1>5. /\ att' = IF IsStream(u) THEN DetachCurrent(u) ELSE att
      /\ pCur' = IF IsStream(u) THEN [pCur EXCEPT ![u] = None] ELSE pCur
      /\ pcm' = IF IsStream(u) /\ ~IsLpe(u) THEN pcm \ {u} ELSE pcm
      /\ cur' = cur
  BY DEF DisableRoute, ClosePcm
<1>6. IsStream(u) => InUse(u)
  <2>1. u \in cur
    BY <1>1, <1>4 DEF Disabled, ReconfigInv
  <2> QED BY <1>1, <1>4, <2>1 DEF PhaseInv, Phase, Settled, Unused
<1>7. IsLpe(u) => IsStream(u)
  BY RoutesAssumption DEF IsLpe, IsStream
<1> HIDE DEF u
<1>8. CASE ~IsStream(u)
  <2>1. UNCHANGED <<pcm, pCur, cur, att>>
    BY <1>5, <1>8
  <2> QED BY <1>2, <1>4, <2>1 DEF Mutual, Chosen, Fitted, Fits
<1>9. CASE IsStream(u)
  <2>1. ASSUME NEW v \in Uses, v # u, pCur[v] # None
        PROVE  /\ pCur'[v] = pCur[v] /\ pCur[v] \in Streams
               /\ att'[pCur[v]] = att[pCur[v]]
    <3>1. pCur[v] \in Streams /\ pCur[v] # pCur[u]
      BY <1>3, <1>4, <2>1, OneRoute DEF Nullable
    <3> QED BY <1>3, <1>5, <1>9, <2>1, <3>1, WithValue DEF DetachCurrent
  <2>2. pCur'[u] = None /\ \A v \in Uses : v # u => pCur'[v] = pCur[v]
    BY <1>3, <1>4, <1>5, <1>9
  <2>3. Mutual'
    BY <2>1, <2>2 DEF Mutual
  <2>4. Chosen'
    BY <1>2 DEF Chosen
  <2>5. ASSUME NEW v \in cur \cap will, IsStream(v), ~Fits(v)'
        PROVE  v \in needReconfig
    <3>1. v \in Uses
      BY <1>1 DEF TypeOK, HardwareOK
    <3>2. CASE v = u
      BY <1>1, <1>4, <2>5, <3>2 DEF Disabled, ReconfigInv
    <3>3. CASE v # u /\ Fits(v)
      <4>1. pCur[v] = pNew[v] /\ pNew[v] # None
        BY <1>1, <2>5, <3>3 DEF Fits, StreamsInv, DevicesInv, ChoiceInv
      <4> QED BY <1>2, <2>1, <2>5, <3>1, <3>3, <4>1 DEF Fits
    <3>4. CASE ~Fits(v)
      BY <1>4, <2>5, <3>4 DEF Fitted
    <3> QED BY <3>2, <3>3, <3>4
  <2>6. Fitted'
    BY <1>2, <1>4, <1>5, <2>5 DEF Fitted
  <2>7. RouteView!Release(u)
    BY <1>5, <1>6, <1>9 DEF RouteView!Release, InUse
  <2> QED BY <1>4, <2>3, <2>4, <2>6, <2>7 DEF RouteView!Next
<1> QED BY <1>8, <1>9

\* The device that is closed late has no user any more.
LEMMA PostDisablingUsers ==
    ASSUME UsersInv, StreamsInv', NEW e, PostDisableRoute(e)
    PROVE  UsersInv' /\ [RouteView!Next]_<<pcm, pCur>>
<1> USE DEF UsersInv
<1> DEFINE u == UseOf(e)
<1>1. TypeOK /\ TodoInv /\ PhaseInv
  BY DEF StreamsInv, DevicesInv, ExclusiveInv
<1>2. /\ UNCHANGED <<will, rerouting, needReconfig, pNew, newRoute, newDevices>>
      /\ att' = att /\ pCur' = pCur /\ cur' = cur \ {u}
      /\ pcm' = IF IsLpe(u) THEN pcm \ {u} ELSE pcm
  BY DEF PostDisableRoute, ClosePcm, streamVars, selectVars
<1>3. u \in Uses /\ stage = "postDisable" /\ stage' = "postDisable" /\ VisitOf(u) \in todo
  BY <1>1, VisitOnce DEF PostDisableRoute
<1>4. Mutual' /\ Chosen' /\ Fitted'
  BY <1>2, <1>3 DEF Mutual, Chosen, Fitted, Fits
<1>5. ASSUME IsLpe(u)
      PROVE  RouteView!Close(u)
  <2>1. IsStream(u)
    BY <1>5, RoutesAssumption DEF IsLpe, IsStream
  <2>2. Unrouted(u)
    BY <1>1, <1>3, <2>1 DEF PhaseInv, Phase
  <2> QED BY <1>2, <1>5, <2>2 DEF Unrouted, RouteView!Close
<1> QED BY <1>2, <1>3, <1>4, <1>5 DEF RouteView!Next

\* The device of a route that stays keeps its stream or is handed over to one
\* that is on no other route.
LEMMA ConfigureUsers ==
    ASSUME OnlyOpeningFails, UsersInv, NoExchange, StreamsInv', NEW e, NEW outcome,
           ConfigureRoute(e, outcome)
    PROVE  UsersInv' /\ [RouteView!Next]_<<pcm, pCur>>
<1> USE DEF UsersInv
<1> DEFINE u == UseOf(e)
<1> DEFINE s == pNew[u]
<1>1. TypeOK /\ TodoInv /\ PhaseInv /\ ChoiceInv /\ ReconfigInv
  BY DEF StreamsInv, DevicesInv, ExclusiveInv
<1>2. UNCHANGED <<will, rerouting, needReconfig, pNew, newRoute, newDevices>>
  BY DEF ConfigureRoute, streamVars, selectVars
<1>3. /\ pCur \in [Uses -> Nullable(Streams)] /\ pNew \in [Uses -> Nullable(Streams)]
      /\ att \in [Streams -> Attachments]
  BY <1>1 DEF TypeOK, HardwareOK, SelectOK
<1>4. /\ u \in Uses /\ e \in todo /\ stage = "configure" /\ stage' = "configure"
      /\ \A v \in Uses : v # u => (VisitOf(v) \in todo' <=> VisitOf(v) \in todo)
  BY <1>1, VisitOnce DEF ConfigureRoute
<1>5. /\ cur' = cur /\ pcm' = pcm
      /\ att' = IF ~IsStream(u) THEN att
                ELSE IF pCur[u] = s THEN With(att, s, Reconfigured(s))
                ELSE With(DetachCurrent(u), s, Attached(s, outcome))
      /\ pCur' = IF ~IsStream(u) \/ pCur[u] = s THEN pCur
                 ELSE [pCur EXCEPT ![u] = IF outcome = "ok" THEN s ELSE None]
      /\ outcome = "ok"
  BY DEF ConfigureRoute, OnlyOpeningFails, AttachOutcomes
<1>6. u \in cur /\ u \in will
  BY <1>1, <1>4 DEF TodoInv, ReconfigInv
<1>7. ASSUME IsStream(u)
      PROVE  /\ InUse(u) /\ s # None /\ s \in Streams
             /\ newRoute[s] = u[2] /\ DirOf[s] = u[1]
  BY <1>1, <1>3, <1>4, <1>6, <1>7 DEF PhaseInv, Phase, Settled, Unused, ChoiceInv, Nullable
<1> HIDE DEF u, s
<1>8. CASE ~IsStream(u)
  <2>1. UNCHANGED <<pcm, pCur, cur, att>>
    BY <1>5, <1>8
  <2>2. Fitted'
    <3>1. ASSUME NEW v \in cur, IsStream(v), ~Fits(v)
          PROVE  VisitOf(v) \in todo'
      <4>1. v # u /\ v \in Uses
        BY <1>1, <1>8, <3>1 DEF TypeOK, HardwareOK
      <4> QED BY <1>4, <3>1, <4>1 DEF Fitted
    <3> QED BY <1>2, <1>4, <2>1, <3>1 DEF Fitted, Fits
  <2> QED BY <1>2, <2>1, <2>2 DEF Mutual, Chosen
<1>9. CASE IsStream(u)
  <2>1. /\ att'[s].route = u[2] /\ att'[s].devices = newDevices[s] /\ pCur'[u] = s
        /\ DirOf[s] = u[1]
    <3>1. CASE pCur[u] = s
      <4>1. att'[s] = Reconfigured(s) /\ pCur'[u] = s
        BY <1>3, <1>5, <1>7, <1>9, <3>1, WithValue
      <4>2. att'[s].route = att[s].route /\ att'[s].devices = newDevices[s]
        BY <1>3, <1>7, <1>9, <4>1 DEF Reconfigured, Attachments
      <4> QED BY <1>4, <1>7, <1>9, <3>1, <4>1, <4>2 DEF Mutual
    <3>2. CASE pCur[u] # s
      <4>1. att'[s] = Attached(s, outcome) /\ pCur'[u] = s
        BY <1>3, <1>4, <1>5, <1>7, <1>9, <3>2, WithValue
      <4> QED BY <1>5, <1>7, <1>9, <4>1 DEF Attached
    <3> QED BY <3>1, <3>2
  <2>2. ASSUME NEW v \in Uses, v # u, pCur[v] # None
        PROVE  pCur[v] # s /\ pCur[v] # pCur[u] /\ pCur[v] \in Streams
    <3>1. IsStream(v) /\ v \in cur
      <4>1. IsStream(v)
        BY <2>2 DEF StreamsInv, Follows
      <4> QED BY <1>1, <1>4, <2>2, <4>1 DEF PhaseInv, Phase, Settled, InUse, Unused
    <3> QED BY <1>3, <1>4, <1>6, <2>2, <3>1, OneRoute DEF NoExchange, Nullable, s
  <2>3. ASSUME NEW v \in Uses, v # u
        PROVE  /\ pCur'[v] = pCur[v]
               /\ pCur[v] # None => att'[pCur[v]] = att[pCur[v]]
    BY <1>3, <1>5, <1>9, <2>2, <2>3, WithValue DEF DetachCurrent
  <2>4. Mutual'
    BY <2>1, <2>3 DEF Mutual
  <2>5. Chosen'
    BY <1>2 DEF Chosen
  <2>6. ASSUME NEW v \in cur, IsStream(v), ~Fits(v)'
        PROVE  VisitOf(v) \in todo'
    <3>1. v \in Uses
      BY <1>1 DEF TypeOK, HardwareOK
    <3>2. v # u
      BY <1>2, <2>1, <2>6 DEF Fits, s
    <3>3. ~Fits(v)
      <4>1. Fits(v) => pCur[v] # None
        <5>1. v \in will
          BY <1>4, <2>6 DEF StreamsInv, DevicesInv, ExclusiveInv, StageInv
        <5> QED BY <1>1, <2>6, <5>1 DEF ChoiceInv, Fits
      <4> QED BY <1>2, <2>3, <2>6, <3>1, <3>2, <4>1 DEF Fits
    <3> QED BY <1>4, <2>6, <3>1, <3>2, <3>3 DEF Fitted
  <2>7. Fitted'
    BY <1>4, <1>5, <2>6 DEF Fitted
  <2>8. pCur[u] # s => RouteView!HandOver(u, s)
    BY <1>5, <1>7, <1>9, <2>2 DEF RouteView!HandOver, RouteView!Silent, InUse
  <2> QED BY <1>4, <1>5, <1>7, <1>9, <2>4, <2>5, <2>7, <2>8 DEF RouteView!Next
<1> QED BY <1>8, <1>9

\* A device is opened ahead of its stream.
LEMMA PreEnablingUsers ==
    ASSUME UsersInv, StreamsInv', NEW e, NEW opens, PreEnableRoute(e, opens)
    PROVE  UsersInv' /\ [RouteView!Next]_<<pcm, pCur>>
<1> USE DEF UsersInv
<1> DEFINE u == UseOf(e)
<1>1. TypeOK /\ TodoInv /\ PhaseInv /\ ReconfigInv
  BY DEF StreamsInv, DevicesInv, ExclusiveInv
<1>2. /\ UNCHANGED <<will, rerouting, needReconfig, pNew, newRoute, newDevices>>
      /\ UNCHANGED <<att, pCur, cur>>
      /\ pcm' = IF IsLpe(u) /\ opens THEN pcm \cup {u} ELSE pcm
      /\ fatal' = fatal \cup Fault(IsLpe(u) /\ u \in pcm, "open")
  BY DEF PreEnableRoute, OpenPcm, streamVars, selectVars
<1>3. u \in Uses /\ stage = "preEnable" /\ stage' = "preEnable"
  BY <1>1, VisitOnce DEF PreEnableRoute
<1>4. Mutual' /\ Chosen' /\ Fitted'
  BY <1>2, <1>3 DEF Mutual, Chosen, Fitted, Fits
<1>5. ASSUME IsLpe(u), opens
      PROVE  RouteView!Open(u)
  <2>1. u \notin pcm
    BY <1>2, <1>5 DEF StreamsInv, DevicesInv, NoFatal, Fault
  <2> QED BY <1>2, <1>5, <2>1 DEF RouteView!Open
<1> QED BY <1>2, <1>3, <1>4, <1>5 DEF RouteView!Next

\* A device gets the stream that was chosen for it, which is on no other route.
LEMMA EnablingUsers ==
    ASSUME OnlyOpeningFails, UsersInv, StreamsInv', NEW e, NEW opens, NEW outcome,
           EnableRoute(e, opens, outcome)
    PROVE  UsersInv' /\ [RouteView!Next]_<<pcm, pCur>>
<1> USE DEF UsersInv
<1> DEFINE u == UseOf(e)
<1> DEFINE s == pNew[u]
<1> DEFINE ready == IF IsStream(u) /\ ~IsLpe(u) THEN opens ELSE u \in pcm
<1>1. TypeOK /\ TodoInv /\ PhaseInv /\ ChoiceInv
  BY DEF StreamsInv, DevicesInv, ExclusiveInv
<1>2. UNCHANGED <<will, rerouting, needReconfig, pNew, newRoute, newDevices>>
  BY DEF EnableRoute, streamVars, selectVars
<1>3. /\ pCur \in [Uses -> Nullable(Streams)] /\ pNew \in [Uses -> Nullable(Streams)]
  BY <1>1 DEF TypeOK, HardwareOK, SelectOK
<1>4. /\ u \in Uses /\ e \in todo /\ stage = "enable" /\ stage' = "enable"
      /\ VisitOf(u) \in todo
  BY <1>1, VisitOnce DEF EnableRoute
<1>5. outcome = "ok"
  BY DEF EnableRoute, OnlyOpeningFails, AttachOutcomes
<1>6. /\ att' = IF IsStream(u) /\ ready THEN With(att, s, Attached(s, outcome)) ELSE att
      /\ pCur' = IF IsStream(u) /\ ready THEN [pCur EXCEPT ![u] = s] ELSE pCur
      /\ cur' = IF ~IsStream(u) \/ ready THEN cur \cup {u} ELSE cur
      /\ pcm' = IF IsStream(u) /\ ~IsLpe(u) /\ opens THEN pcm \cup {u} ELSE pcm
  BY <1>5 DEF EnableRoute, OpenPcm
<1>7. ASSUME IsStream(u)
      PROVE  /\ pCur[u] = None /\ s # None /\ s \in Streams
             /\ newRoute[s] = u[2] /\ DirOf[s] = u[1]
             /\ ready => pcm' = pcm \cup {u}
  <2>1. pCur[u] = None
    BY <1>1, <1>4, <1>7 DEF PhaseInv, Phase, Unused, OpenedEarly
  <2>2. u \in will
    <3>1. u \notin cur
      BY <1>1, <1>4 DEF TodoInv
    <3> QED BY <1>4, <3>1 DEF StreamsInv, DevicesInv, ExclusiveInv, StageInv
  <2>3. ready => pcm' = pcm \cup {u}
    BY <1>6, <1>7
  <2> QED BY <1>1, <1>3, <1>4, <1>7, <2>1, <2>2, <2>3 DEF ChoiceInv, Nullable
<1>8. \A v \in cur \cup cur' : v \in Uses
  BY <1>1, <1>4, <1>6 DEF TypeOK, HardwareOK
<1> HIDE DEF u, s, ready
<1>9. CASE ~(IsStream(u) /\ ready)
  <2>1. UNCHANGED <<pCur, att>> /\ \A v \in cur' : IsStream(v) => v \in cur
    BY <1>6, <1>9
  <2>2. Mutual' /\ Chosen' /\ Fitted'
    BY <1>2, <1>4, <2>1 DEF Mutual, Chosen, Fitted, Fits
  <2>3. pcm' = pcm
    BY <1>6, <1>9 DEF ready
  <2> QED BY <2>1, <2>2, <2>3
<1>10. CASE IsStream(u) /\ ready
  <2>1. /\ att'[s].route = u[2] /\ att'[s].devices = newDevices[s] /\ pCur'[u] = s
        /\ DirOf[s] = u[1]
    <3>1. att'[s] = Attached(s, outcome) /\ pCur'[u] = s
      BY <1>3, <1>4, <1>6, <1>7, <1>10, WithValue
    <3> QED BY <1>5, <1>7, <1>10, <3>1 DEF Attached
  <2>2. ASSUME NEW v \in Uses, v # u, pCur[v] # None
        PROVE  pCur[v] # s /\ pCur[v] \in Streams
    <3>1. IsStream(v) /\ v \in cur
      <4>1. IsStream(v)
        BY <2>2 DEF StreamsInv, Follows
      <4> QED BY <1>1, <1>4, <2>2, <4>1 DEF PhaseInv, Phase, Settled, InUse, Unused,
                                            OpenedEarly
    <3>2. pCur[v] = pNew[v]
      BY <1>4, <3>1 DEF StreamsInv, Follows
    <3> QED BY <1>1, <1>3, <1>4, <2>2, <3>2, OneChoice DEF Nullable, s
  <2>3. ASSUME NEW v \in Uses, v # u
        PROVE  /\ pCur'[v] = pCur[v]
               /\ pCur[v] # None => att'[pCur[v]] = att[pCur[v]]
    BY <1>3, <1>6, <1>10, <2>2, <2>3, WithValue
  <2>4. Mutual'
    BY <2>1, <2>3 DEF Mutual
  <2>5. Chosen'
    BY <1>2 DEF Chosen
  <2>6. ASSUME NEW v \in cur', IsStream(v)
        PROVE  Fits(v)'
    <3>1. CASE v = u
      BY <1>2, <2>1, <3>1 DEF Fits, s
    <3>2. CASE v # u
      <4>1. v \in cur /\ Fits(v) /\ v \in will
        BY <1>4, <1>6, <2>6, <3>2 DEF Fitted, StreamsInv, DevicesInv, ExclusiveInv, StageInv
      <4>2. pNew[v] # None
        BY <1>1, <2>6, <4>1 DEF ChoiceInv
      <4> QED BY <1>2, <1>8, <2>3, <2>6, <3>2, <4>1, <4>2 DEF Fits
    <3> QED BY <3>1, <3>2
  <2>7. Fitted'
    BY <1>4, <2>6 DEF Fitted
  <2>8. RouteView!Use(u, s)
    <3>1. \A v \in Uses : pCur[v] # s
      BY <1>7, <1>10, <2>2
    <3> QED BY <1>6, <1>7, <1>10, <3>1 DEF RouteView!Use, RouteView!Silent
  <2> QED BY <1>4, <1>7, <1>10, <2>4, <2>5, <2>7, <2>8 DEF RouteView!Next
<1> QED BY <1>9, <1>10

-----------------------------------------------------------------------------
(* The theorems.                                                           *)

\* Every step keeps the invariant and is a step of PcmDevices.
LEMMA UsersNext ==
    ASSUME OnlyOpeningFails, UsersInv, NoExchange, [Next]_vars
    PROVE  UsersInv' /\ [RouteView!Next]_<<pcm, pCur>>
<1>1. StreamsInv'
  BY StreamsNext DEF UsersInv
<1>2. CASE Framework
  BY <1>1, <1>2, FrameworkUsers
<1>3. CASE UNCHANGED vars
  BY <1>1, <1>3, StutterUsers
<1>4. CASE UpdateRouting \/ UpdateModem \/ SetMicMute
  BY <1>1, <1>4, BeginPassUsers DEF UpdateRouting, UpdateModem, SetMicMute
<1>5. CASE PassStep
  BY <1>1, <1>5, StagesUsers, PrepareUsers, DisablingUsers, PostDisablingUsers,
     ConfigureUsers, PreEnablingUsers, EnablingUsers DEF PassStep
<1> QED BY <1>2, <1>3, <1>4, <1>5 DEF Next

\* When a pass unmutes, the routes have the streams chosen for them.
LEMMA UsersAreRouted == UsersInv => RoutedAsPrepared
<1> SUFFICES ASSUME UsersInv, stage = "unmute", NEW s \in Streams, newRoute[s] # None,
                    <<DirOf[s], newRoute[s]>> \in pcm
             PROVE  att[s].route = newRoute[s] /\ att[s].devices = newDevices[s]
  BY DEF RoutedAsPrepared
<1> DEFINE u == <<DirOf[s], newRoute[s]>>
<1>1. s # None /\ u \in Uses /\ pNew[u] = s
  <2>1. pcm \subseteq Uses
    BY DEF UsersInv, StreamsInv, DevicesInv, ExclusiveInv, TypeOK, HardwareOK
  <2> QED BY <2>1, StreamsAssumption DEF UsersInv, Chosen
<1>2. IsStream(u) /\ u \in will
  BY <1>1 DEF UsersInv, Chosen
<1>3. u \in cur
  BY <1>1, <1>2 DEF UsersInv, StreamsInv, DevicesInv, PhaseInv, Phase, Settled, InUse, Unused
<1>4. Fits(u)
  BY <1>2, <1>3 DEF UsersInv, Fitted
<1> QED BY <1>1, <1>4 DEF Fits, UsersInv, Mutual

\* While no two routes exchange streams, every stream is at the end of a pass on
\* the route and the devices prepared for it, unless its device did not open:
\* also when it goes from one route to another, when a route that stays changes
\* its stream, and when the device of an LPE route is opened early, closed late.
THEOREM StreamsAreRouted == OnlyOpeningFails => (Spec /\ []NoExchange => []RoutedAsPrepared)
<1> SUFFICES ASSUME OnlyOpeningFails PROVE Spec /\ []NoExchange => []RoutedAsPrepared
  OBVIOUS
<1>1. UsersInv /\ NoExchange /\ [Next]_vars => UsersInv'
  BY UsersNext
<1> QED BY <1>1, UsersInit, UsersAreRouted, PTL DEF Spec

\* What the streams' own attachments say of a device is what its route says.
UserOf == [u \in Uses |->
             IF \E s \in Streams : <<DirOf[s], att[s].route>> = u
             THEN CHOOSE s \in Streams : <<DirOf[s], att[s].route>> = u
             ELSE None]
LEMMA UserIsCurrent == UsersInv => UserOf = pCur
<1> SUFFICES ASSUME UsersInv, NEW u \in Uses
             PROVE  UserOf[u] = pCur[u]
  BY DEF UsersInv, StreamsInv, DevicesInv, ExclusiveInv, TypeOK, HardwareOK, UserOf
<1>1. ASSUME NEW s \in Streams, <<DirOf[s], att[s].route>> = u
      PROVE  pCur[u] = s
  <2>1. att[s].route = u[2] /\ u[2] \in Routes
    BY <1>1 DEF Uses
  <2>2. att[s].route # None
    BY <2>1, StreamsAssumption
  <2> QED BY <1>1, <2>2 DEF UsersInv, StreamsInv, DevicesInv, RoutedStreamOwnsDevice
<1>2. ASSUME pCur[u] # None
      PROVE  pCur[u] \in Streams /\ <<DirOf[pCur[u]], att[pCur[u]].route>> = u
  <2>1. pCur[u] \in Streams
    BY <1>2 DEF UsersInv, StreamsInv, DevicesInv, ExclusiveInv, TypeOK, HardwareOK, Nullable
  <2> QED BY <1>2, <2>1 DEF UsersInv, Mutual, Uses
<1> QED BY <1>1, <1>2 DEF UserOf

\* The steps of PcmDevices, told with the streams' attachments.
LEMMA SameView ==
    ASSUME UsersInv, UsersInv', [RouteView!Next]_<<pcm, pCur>>
    PROVE  [Device!Next]_<<pcm, UserOf>>
<1>1. UserOf = pCur /\ UserOf' = pCur'
  <2>1. (UserOf = pCur)'
    BY UserIsCurrent, PTL
  <2> QED BY <2>1, UserIsCurrent
<1>2. ASSUME NEW u \in Uses, RouteView!Open(u)
      PROVE  Device!Open(u)
  BY <1>1, <1>2 DEF UserOf, RouteView!Open, Device!Open
<1>3. ASSUME NEW u \in Uses, RouteView!Release(u)
      PROVE  Device!Release(u)
  BY <1>1, <1>3 DEF UserOf, RouteView!Release, Device!Release
<1>4. ASSUME NEW u \in Uses, RouteView!Close(u)
      PROVE  Device!Close(u)
  BY <1>1, <1>4 DEF UserOf, RouteView!Close, Device!Close
<1>5. ASSUME NEW u \in Uses, NEW s \in Streams, RouteView!Use(u, s)
      PROVE  Device!Use(u, s)
  BY <1>1, <1>5 DEF UserOf, RouteView!Use, Device!Use, RouteView!Silent, Device!Silent
<1>6. ASSUME NEW u \in Uses, NEW s \in Streams, RouteView!HandOver(u, s)
      PROVE  Device!HandOver(u, s)
  BY <1>1, <1>6 DEF UserOf, RouteView!HandOver, Device!HandOver, RouteView!Silent,
                    Device!Silent
<1> QED BY <1>1, <1>2, <1>3, <1>4, <1>5, <1>6 DEF RouteView!Next, Device!Next


\* The route manager implements PcmDevices while no two routes exchange streams:
\* a device has one stream and a stream one device, a device is open as long as
\* it is used, and a stream that changes its device is silent in between.
THEOREM DevicesAreWellUsed == OnlyOpeningFails => (Spec /\ []NoExchange => DevicesWellUsed)
<1> SUFFICES ASSUME OnlyOpeningFails PROVE Spec /\ []NoExchange => DevicesWellUsed
  OBVIOUS
<1>1. UsersInv /\ NoExchange /\ [Next]_vars => UsersInv'
  BY UsersNext
<1>2. Init => Device!Init
  BY StreamsAssumption DEF Init, Device!Init, Detached, Uses
<1>3. UsersInv /\ UsersInv' /\ NoExchange /\ [Next]_vars => [Device!Next]_<<pcm, UserOf>>
  BY UsersNext, SameView
<1>4. Spec /\ []NoExchange => Device!Init /\ [][Device!Next]_<<pcm, UserOf>>
  BY <1>1, <1>2, <1>3, UsersInit, PTL DEF Spec
<1> QED BY <1>4, PTL DEF DevicesWellUsed, Device!Spec, UserOf

-----------------------------------------------------------------------------
(* Platforms on which no routes exchange streams.                          *)

LEMMA TakenInit == Init => Taken
BY DEF Init, Taken

\* A stream is opened with its own flags, and a chosen one matches its route.
LEMMA TakenNext ==
    ASSUME OnlyOpeningFails, StreamsInv, Taken, [Next]_vars
    PROVE  Taken'
<1>1. TypeOK /\ ListsOK
  BY DEF StreamsInv, DevicesInv, ExclusiveInv
<1>2. ASSUME UNCHANGED mask, \A u \in Uses : pCur'[u] \in {None, pCur[u], pNew[u]},
             \A u \in Uses : pNew'[u] \in {None, pNew[u]}
      PROVE  Taken'
  BY <1>2 DEF Taken, CanTake
<1>3. CASE Framework
  <2>1. UNCHANGED <<pCur, pNew>>
    BY <1>3 DEF Framework, OpenStream, CloseStream, SetStandby, StartStopStream,
       SetStreamParameters, selectVars, hwVars
  <2>2. ASSUME ~FlagsMayChange
        PROVE  \A t \in Streams : DirOf[t] = "out" => mask'[t] = OpenMask[t]
    <3>1. \A t \in Streams : DirOf[t] = "out" => mask'[t] = mask[t] \/ mask'[t] = OpenMask[t]
      BY <1>1, <1>3, <2>2 DEF Framework, OpenStream, CloseStream, SetStandby,
         StartStopStream, SetStreamParameters, TypeOK, StreamsOK
    <3> QED BY <2>2, <3>1 DEF Taken
  <2> QED BY <2>1, <2>2 DEF Taken, CanTake
<1>4. CASE UNCHANGED vars
  BY <1>2, <1>4 DEF vars, streamVars, selectVars, hwVars
<1>5. CASE UpdateRouting \/ UpdateModem \/ SetMicMute
  <2>1. BeginPass
    BY <1>5 DEF UpdateRouting, UpdateModem, SetMicMute
  <2> QED BY <1>2, <2>1 DEF BeginPass, NoNewStream, streamVars, hwVars
<1>6. CASE \/ KeepRouting \/ MuteStage \/ DisableEnd \/ PostDisableEnd
           \/ ConfigureEnd \/ PreEnableEnd \/ EnableEnd \/ UnmuteStage
  BY <1>2, <1>6 DEF KeepRouting, MuteStage, DisableEnd, PostDisableEnd, ConfigureEnd,
     PreEnableEnd, EnableEnd, UnmuteStage, streamVars, selectVars, hwVars
<1>7. ASSUME NEW e, NEW s \in Nullable(Streams), PrepareRoute(e, s)
      PROVE  Taken'
  <2> DEFINE u == UseOf(e)
  <2>1. /\ u \in Uses /\ u = <<e[1], e[3]>> /\ e[1] \in Dirs
        /\ UNCHANGED <<mask, pCur>>
    BY <1>1, <1>7, VisitType, UseOfType DEF PrepareRoute, hwVars, streamVars, UseOf
  <2>2. pNew' = pNew \/ (s # None /\ pNew' = [pNew EXCEPT ![u] = s])
    BY <1>7 DEF PrepareRoute
  <2>3. ASSUME s # None
        PROVE  CanTake(s, u)
    <3>1. s \in Streams /\ ApplicableStream(s, e[1], e[3])
      BY <1>7, <2>3 DEF Nullable, PrepareRoute
    <3>2. DirOf[s] = e[1]
      BY <1>1, <2>1, <3>1, ChosenStream
    <3>3. mask[s] \in MasksOf[<<e[1], e[3]>>]
      BY <2>3, <3>1 DEF ApplicableStream, FirstCandidate, Candidate
    <3> QED BY <2>1, <3>1, <3>2, <3>3 DEF CanTake, Taken
  <2>4. \A v \in Uses : pNew'[v] = pNew[v] \/ (s # None /\ v = u /\ pNew'[v] = s)
    BY <1>1, <2>1, <2>2 DEF TypeOK, SelectOK
  <2> HIDE DEF u
  <2>5. \A v \in Uses : pNew'[v] # None => CanTake(pNew'[v], v)
    BY <2>3, <2>4 DEF Taken
  <2> QED BY <2>1, <2>5 DEF Taken, CanTake
<1>8. ASSUME NEW e,
             \/ DisableRoute(e)
             \/ PostDisableRoute(e)
             \/ \E outcome : ConfigureRoute(e, outcome)
             \/ \E opens : PreEnableRoute(e, opens)
             \/ \E opens, outcome : EnableRoute(e, opens, outcome)
      PROVE  Taken'
  <2>1. UNCHANGED <<mask, pNew>>
    BY <1>8 DEF DisableRoute, PostDisableRoute, ConfigureRoute, PreEnableRoute,
       EnableRoute, streamVars, selectVars
  <2>2. \/ pCur' = pCur
        \/ pCur' = [pCur EXCEPT ![UseOf(e)] = None]
        \/ pCur' = [pCur EXCEPT ![UseOf(e)] = pNew[UseOf(e)]]
    BY <1>8 DEF DisableRoute, PostDisableRoute, ConfigureRoute, PreEnableRoute, EnableRoute
  <2>3. \A v \in Uses : pCur'[v] \in {None, pCur[v], pNew[v]}
    BY <1>1, <2>2 DEF TypeOK, HardwareOK
  <2> QED BY <1>2, <2>1, <2>3
<1> QED BY <1>3, <1>4, <1>5, <1>6, <1>7, <1>8 DEF Next, PassStep

\* Two routes exchange a stream only if each of them may get it, and the one it
\* leaves gets another.
LEMMA ApartNeverExchange ==
    ASSUME Apart, UsersInv, Taken
    PROVE  NoExchange
<1> SUFFICES ASSUME stage = "configure", NEW u \in cur, NEW v \in cur, u # v,
                    pCur[v] # None, pCur[v] = pNew[u]
             PROVE  FALSE
  BY DEF NoExchange
<1>1. TypeOK /\ ChoiceInv /\ cur \subseteq will /\ cur \subseteq Uses
  BY DEF UsersInv, StreamsInv, DevicesInv, ExclusiveInv, StageInv, TypeOK, HardwareOK
<1>2. pNew[v] # None
  <2>1. IsStream(v)
    BY <1>1 DEF UsersInv, StreamsInv, Follows
  <2> QED BY <1>1, <2>1 DEF ChoiceInv
<1>3. pNew[u] # pNew[v] /\ pNew[u] \in Streams /\ pNew[v] \in Streams
  BY <1>1, <1>2, OneChoice DEF TypeOK, SelectOK, Nullable
<1>4. CanTake(pNew[u], u) /\ CanTake(pNew[u], v) /\ CanTake(pNew[v], v)
  BY <1>1, <1>2 DEF Taken
<1> QED BY <1>1, <1>3, <1>4 DEF Apart

\* On a platform where no two streams compete for a route while one of them has
\* another choice, for instance with one output and one input stream, or where
\* the flags of an output that never change tell its route, both promises hold
\* in every behaviour.
THEOREM ApartStreamsAreRouted ==
    OnlyOpeningFails /\ Apart => (Spec => []RoutedAsPrepared /\ DevicesWellUsed)
<1> SUFFICES ASSUME OnlyOpeningFails, Apart
             PROVE  Spec => []RoutedAsPrepared /\ DevicesWellUsed
  OBVIOUS
<1>1. UsersInv /\ Taken => NoExchange
  BY ApartNeverExchange
<1>2. UsersInv /\ Taken /\ [Next]_vars => UsersInv' /\ Taken'
  BY <1>1, UsersNext, TakenNext DEF UsersInv
<1>3. Spec => []NoExchange
  BY <1>1, <1>2, UsersInit, TakenInit, PTL DEF Spec
<1>4. (Spec /\ []NoExchange => []RoutedAsPrepared) /\ (Spec /\ []NoExchange => DevicesWellUsed)
  BY StreamsAreRouted, DevicesAreWellUsed
<1> QED BY <1>3, <1>4, PTL
-----------------------------------------------------------------------------
(* The steps a request's return rests on.                                  *)

\* A client that waits is waited for: its message is in the queue, or a pass
\* runs that will release it.
RequestsAreServed ==
    \A s \in Streams : client[s] = "waiting" => pending > 0 \/ stage # "idle"

LEMMA ServedNext ==
    ASSUME TypeOK, RequestsAreServed, [Next]_vars
    PROVE  RequestsAreServed'
<1> SUFFICES ASSUME NEW s \in Streams, client'[s] = "waiting", stage' = "idle"
             PROVE  pending' > 0
  BY DEF RequestsAreServed
<1>0. /\ client \in [Streams -> {"idle", "calling", "waiting"}] /\ pending \in Nat
      /\ client[s] = "waiting" /\ stage = "idle" => pending > 0
  BY DEF RequestsAreServed, TypeOK, StreamsOK, WorkerOK
<1>1. CASE Framework
  <2>1. PICK t \in Streams :
            \/ OpenStream(t)
            \/ CloseStream(t)
            \/ SetStandby(t)
            \/ StartStopStream(t)
            \/ \E devs \in DeviceChoices, m \in MasksOfDir(DirOf[t]),
                  mode \in AndroidModes : SetStreamParameters(t, devs, m, mode)
    BY <1>1 DEF Framework
  <2>2. CASE OpenStream(t) \/ CloseStream(t)
    BY <1>0, <2>2 DEF OpenStream, CloseStream, LockFree, workerVars, streamVars
  <2>3. CASE SetStandby(t)
    <3>1. client' = [client EXCEPT ![t] = "calling"] /\ UNCHANGED <<stage, pending>>
      BY <2>3 DEF SetStandby, workerVars
    <3>2. client[s] = "waiting"
      BY <1>0, <3>1
    <3> QED BY <1>0, <3>1, <3>2
  <2>4. CASE StartStopStream(t)
    <3>1. pending' = pending + 1
      BY <2>4 DEF StartStopStream, RequestPass
    <3> QED BY <1>0, <3>1
  <2>5. ASSUME NEW devs \in DeviceChoices, NEW m \in MasksOfDir(DirOf[t]),
               NEW mode \in AndroidModes, SetStreamParameters(t, devs, m, mode)
        PROVE  pending' > 0
    <3>1. stage = "idle" /\ (RequestPass(t) \/ UNCHANGED <<pending, client>>)
      BY <2>5 DEF SetStreamParameters, LockFree
    <3>2. CASE RequestPass(t)
      BY <1>0, <3>2 DEF RequestPass
    <3>3. CASE UNCHANGED <<pending, client>>
      BY <1>0, <3>1, <3>3
    <3> QED BY <3>1, <3>2, <3>3
  <2> QED BY <2>1, <2>2, <2>3, <2>4, <2>5
<1>2. CASE UpdateRouting \/ UpdateModem \/ SetMicMute
  <2>1. stage' = "prepare"
    BY <1>2 DEF UpdateRouting, UpdateModem, SetMicMute, BeginPass, GoTo
  <2> QED BY <2>1
<1>3. CASE KeepRouting \/ UnmuteStage
  <2>1. client' = Released
    BY <1>3 DEF KeepRouting, UnmuteStage, FinishPass
  <2>2. client'[s] # "waiting"
    BY <2>1 DEF Released
  <2> QED BY <2>2
<1>4. CASE MuteStage \/ DisableEnd \/ PostDisableEnd \/ ConfigureEnd \/ PreEnableEnd
           \/ EnableEnd
  BY <1>4 DEF MuteStage, DisableEnd, PostDisableEnd, ConfigureEnd, PreEnableEnd, EnableEnd, GoTo
<1>5. ASSUME NEW e \in todo,
             \/ \E t \in Nullable(Streams) : PrepareRoute(e, t)
             \/ DisableRoute(e)
             \/ PostDisableRoute(e)
             \/ \E outcome \in AttachOutcomes(UseOf(e)) : ConfigureRoute(e, outcome)
             \/ \E opens \in BOOLEAN : PreEnableRoute(e, opens)
             \/ \E opens \in BOOLEAN, outcome \in AttachOutcomes(UseOf(e)) :
                   EnableRoute(e, opens, outcome)
      PROVE  FALSE
  BY <1>5 DEF PrepareRoute, DisableRoute, PostDisableRoute, ConfigureRoute, PreEnableRoute,
              EnableRoute, Visit
<1>6. CASE UNCHANGED vars
  BY <1>0, <1>6 DEF vars, streamVars, workerVars
<1> QED
  BY <1>1, <1>2, <1>3, <1>4, <1>5, <1>6 DEF Next, PassStep

\* No wake-up is lost: startStream, stopStream and setStreamParameters never
\* wait while the queue is empty and no pass runs, whatever other threads, the
\* modem and setMicMute do between the message and its pass.
THEOREM NoRequestIsForgotten == Spec => []RequestsAreServed
<1>1. Init => RequestsAreServed
  BY DEF Init, RequestsAreServed
<1>2. TypeOK /\ RequestsAreServed /\ [Next]_vars => RequestsAreServed'
  BY ServedNext
<1> QED BY TypeCorrect, <1>1, <1>2, PTL DEF Spec

\* The stages in the order a pass goes through them.
Position == [st \in Stages |->
    CASE st = "prepare" -> 1 [] st = "disable" -> 2 [] st = "postDisable" -> 3
      [] st = "configure" -> 4 [] st = "preEnable" -> 5 [] st = "enable" -> 6
      [] st = "unmute" -> 7 [] OTHER -> 0]
PassAdvances ==
    [][stage # "idle" /\ <<stage, todo>>' # <<stage, todo>> =>
         \/ Position[stage'] > Position[stage]
         \/ stage' = stage /\ todo' \subseteq todo
         \/ stage' = "idle" /\ \A s \in Streams : client'[s] # "waiting"]_vars

\* What a pass has still to do only shrinks: it evaluates each route at most
\* once in a stage and goes to a later stage, whatever else happens, until it
\* ends and has released every client that waits.
THEOREM PassesComeToAnEnd == Spec => PassAdvances
<1>1. ASSUME [Next]_vars, stage # "idle", <<stage, todo>>' # <<stage, todo>>
      PROVE  \/ Position[stage'] > Position[stage]
             \/ stage' = stage /\ todo' \subseteq todo
             \/ stage' = "idle" /\ \A s \in Streams : client'[s] # "waiting"
  <2>1. CASE Framework
    BY <1>1, <2>1 DEF Framework, OpenStream, CloseStream, SetStandby, StartStopStream,
                      SetStreamParameters, LockFree, workerVars
  <2>2. CASE UpdateRouting \/ UpdateModem \/ SetMicMute
    BY <1>1, <2>2 DEF UpdateRouting, UpdateModem, SetMicMute, BeginPass, LockFree
  <2>3. CASE KeepRouting \/ UnmuteStage
    <3>1. client' = Released /\ stage' = "idle"
      BY <2>3 DEF KeepRouting, UnmuteStage, FinishPass, GoTo
    <3> QED BY <3>1 DEF Released
  <2>4. CASE MuteStage \/ DisableEnd \/ PostDisableEnd \/ ConfigureEnd \/ PreEnableEnd
             \/ EnableEnd
    BY <2>4 DEF MuteStage, DisableEnd, PostDisableEnd, ConfigureEnd, PreEnableEnd, EnableEnd,
                GoTo, Leave, Position, Stages
  <2>5. ASSUME NEW e \in todo,
               \/ \E t \in Nullable(Streams) : PrepareRoute(e, t)
               \/ DisableRoute(e)
               \/ PostDisableRoute(e)
               \/ \E outcome \in AttachOutcomes(UseOf(e)) : ConfigureRoute(e, outcome)
               \/ \E opens \in BOOLEAN : PreEnableRoute(e, opens)
               \/ \E opens \in BOOLEAN, outcome \in AttachOutcomes(UseOf(e)) :
                     EnableRoute(e, opens, outcome)
        PROVE  stage' = stage /\ todo' \subseteq todo
    BY <2>5 DEF PrepareRoute, DisableRoute, PostDisableRoute, ConfigureRoute, PreEnableRoute,
                EnableRoute, Visit
  <2>6. CASE UNCHANGED vars
    BY <1>1, <2>6 DEF vars, workerVars
  <2> QED BY <1>1, <2>1, <2>2, <2>3, <2>4, <2>5, <2>6 DEF Next, PassStep
<1>2. [Next]_vars =>
        [stage # "idle" /\ <<stage, todo>>' # <<stage, todo>> =>
           \/ Position[stage'] > Position[stage]
           \/ stage' = stage /\ todo' \subseteq todo
           \/ stage' = "idle" /\ \A s \in Streams : client'[s] # "waiting"]_vars
  BY <1>1
<1> QED BY <1>2, PTL DEF Spec, PassAdvances
=============================================================================
