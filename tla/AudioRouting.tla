---------------------------- MODULE AudioRouting ----------------------------
(***************************************************************************)
(* The routing core of the audio HAL: CAudioRouteManager, its routes and   *)
(* ports, and the streams it attaches to the routes.                       *)
(*                                                                         *)
(* The route manager's worker runs routing passes under the manager lock:  *)
(* it selects a stream for every route (prepareRouting), then takes the    *)
(* hardware from the old selection to the new one in five stages, route by *)
(* route.  The threads of the streams run beside it: they flip their own   *)
(* standby flag at any time, under their own lock only, and then ask for a *)
(* pass and wait for its end.  A "use" <<d, r>> is route r in direction d. *)
(***************************************************************************)
EXTENDS Integers, FiniteSets, Sequences

CONSTANTS
    Routes,          \* the CAudioRoute objects of the platform
    Rank,            \* Rank[r]: the position of r in _routeList
    StreamRoutes,    \* the routes of type EStreamRoute; the rest is external
    LpeRoutes,       \* isPreEnableRequired and isPostDisableRequired
    SspRoutes,       \* routes of class AudioStreamRouteIaSspWorkaround
    Slaves,          \* Slaves[r]: _uiSlaveRoutes
    Ports,           \* the CAudioPort objects
    PortsOf,         \* PortsOf[r]: the ports of route r
    PortGroups,      \* sets of mutually exclusive ports
    Devices,         \* audio devices: the bits of a device mask
    DeviceChoices,   \* the device masks AudioFlinger selects
    FlushDevices,    \* FlushDevices[d]: devices whose selection flushes the SSP
    DevicesOf,       \* DevicesOf[u]: _applicabilityRules[].uiDevices
    ModesOf,         \* ModesOf[u]: _applicabilityRules[].uiModes
    MasksOf,         \* MasksOf[u]: _applicabilityRules[].uiMask
    AndroidModes,    \* the telephony modes the framework sets
    Masks,           \* output flags and input sources
    NoMask,          \* input source 0, applicable to no route
    Streams,         \* the streams AudioFlinger may open
    DirOf,           \* DirOf[s]: isOut()
    OpenMask,        \* OpenMask[s]: the flags given when the stream is opened
    FlagsMayChange,  \* do clients send keyStreamFlags to an open output?
    ModemLess,       \* isModemLess(): the platform has no modem
    Failures,        \* what may fail: subset of {"open", "convert", "buffer"}
    MaxPending,      \* bound on the EUpdateRouting messages in the event queue
    None             \* the NULL pointer

Dirs == {"out", "in"}
Uses == Dirs \X Routes
Modes == {"normal", "incall", "incomm"}
Events == {"outDevices", "inDevices", "inSource", "androidMode", "hwMode"}
Stages == {"idle", "prepare", "disable", "postDisable", "configure",
           "preEnable", "enable", "unmute"}
Faults == {"open", "close", "attach", "detach", "blocked"}

ASSUME RoutesAssumption ==
    /\ Rank \in [Routes -> Nat]
    /\ \A r, q \in Routes : Rank[r] = Rank[q] => r = q
    /\ StreamRoutes \subseteq Routes
    /\ LpeRoutes \subseteq StreamRoutes
    /\ SspRoutes \subseteq StreamRoutes
    /\ Slaves \in [Routes -> SUBSET Routes]
    /\ \A r \in Routes : \A q \in Slaves[r] : Slaves[q] = {}
ASSUME PortsAssumption ==
    /\ PortsOf \in [Routes -> SUBSET Ports]
    /\ PortGroups \subseteq SUBSET Ports
    /\ \A r \in Routes : \A p, q \in PortsOf[r] :
         p # q => \A g \in PortGroups : ~(p \in g /\ q \in g)
ASSUME RulesAssumption ==
    /\ DeviceChoices \subseteq SUBSET Devices
    /\ FlushDevices \in [Dirs -> SUBSET Devices]
    /\ DevicesOf \in [Uses -> SUBSET Devices]
    /\ ModesOf \in [Uses -> SUBSET Modes]
    /\ MasksOf \in [Uses -> SUBSET Masks]
    /\ AndroidModes \subseteq Modes
    /\ NoMask \notin Masks
ASSUME StreamsAssumption ==
    /\ DirOf \in [Streams -> Dirs]
    /\ OpenMask \in [Streams -> Masks \cup {NoMask}]
    /\ FlagsMayChange \in BOOLEAN /\ ModemLess \in BOOLEAN
    /\ Failures \subseteq {"open", "convert", "buffer"}
    /\ MaxPending \in Nat \ {0}
    /\ None \notin Routes /\ None \notin Streams

VARIABLES
    \* CAudioPlatformState, what routing reads of it
    devices,       \* [Dirs -> SUBSET Devices]: _uiDevices
    androidMode,   \* _iAndroidMode
    modemUp,       \* _bModemAlive and _bModemAudioAvailable
    inputSource,   \* _uiInputSource
    events,        \* _uiPlatformEventChanged
    \* the streams
    list,          \* [Dirs -> Seq(Streams)]: _streamsList
    started,       \* the streams whose mStandby is false
    mask,          \* getApplicabilityMask()
    newDevices,    \* mNewDevices
    newRoute,      \* mNewRoute
    att,           \* mCurrentRoute, mCurrentDevices, mHandle
    client,        \* what the thread of the stream is doing
    \* the routes and the ports
    cur,           \* the uses with bCurrently
    will,          \* the uses with bAfterRouting, the bits of uiEnabled
    blocked,       \* the routes with _bBlocked
    rerouting,     \* the uses with _needRerouting
    pcm,           \* the uses whose _astPcmDevice is not NULL
    pCur, pNew,    \* _stStreams[].pCurrent and pNew
    portUser,      \* _pRouteAttached, set with _bUsed
    portBlocked,   \* the ports with CAudioPort::_bBlocked
    \* the worker
    stage,         \* where the pass is; "idle" when the lock is free
    todo,          \* the route evaluations left in this stage
    firstDir,      \* the direction this stage begins with
    prevEnabled,   \* uiPrevEnabled
    needReconfig,  \* uiNeedReconfig
    muted,         \* the uses the parameter framework has muted
    pending,       \* EUpdateRouting messages in the event queue
    fatal          \* the assertions that failed; the process is then dead

platformVars == <<devices, androidMode, modemUp, inputSource, events>>
streamVars == <<list, started, mask, newDevices, client>>
portVars == <<portUser, portBlocked, blocked>>
selectVars == <<will, rerouting, pNew, newRoute, prevEnabled, needReconfig>>
hwVars == <<cur, pcm, pCur, att>>
workerVars == <<stage, todo, firstDir, muted>>
vars == <<platformVars, streamVars, portVars, selectVars, hwVars, workerVars,
          pending, fatal>>

Nullable(S) == S \cup {None}
MasksOfDir(d) == UNION {MasksOf[<<d, r>>] : r \in Routes}
Attachments == [route : Nullable(Routes), devices : SUBSET Devices,
                handle : Nullable(Routes)]
Detached == [route |-> None, devices |-> {}, handle |-> None]
Opened(s) == \E i \in DOMAIN list[DirOf[s]] : list[DirOf[s]][i] = s

-----------------------------------------------------------------------------
(* The platform state, and what the routes ask of it.                      *)

\* CAudioPlatformState::checkHwMode: the mode the routes are selected with.
\* The code stores it and refreshes it wherever an input of it changes.
HwModeOf(mode, outDevices, modem) ==
    IF \/ mode = "incall" /\ (Cardinality(outDevices) > 1 \/ ~modem)
       \/ mode = "incomm" /\ Cardinality(outDevices) > 1
    THEN "normal" ELSE mode
HwMode == HwModeOf(androidMode, devices["out"], modemUp)

\* CAudioRoute::isApplicable
Applicable(d, r) ==
    /\ r \notin blocked
    /\ <<d, r>> \notin will
    /\ HwMode \in ModesOf[<<d, r>>]
    /\ devices[d] \cap DevicesOf[<<d, r>>] # {}

\* findApplicableStreamForRoute: the first stream of the list that is started,
\* has no route yet and matches the mask of the route.
Candidate(s, d, r) ==
    s \in started /\ newRoute[s] = None /\ mask[s] \in MasksOf[<<d, r>>]

FirstCandidate(s, d, r) ==
    \E i \in DOMAIN list[d] :
        /\ list[d][i] = s
        /\ Candidate(s, d, r)
        /\ \A j \in DOMAIN list[d] : j < i => ~Candidate(list[d][j], d, r)

\* The stream prepareRoute gives to route r, None if it has none.
ApplicableStream(s, d, r) ==
    IF s = None THEN \/ r \notin StreamRoutes
                     \/ ~Applicable(d, r)
                     \/ \A i \in DOMAIN list[d] : ~Candidate(list[d][i], d, r)
    ELSE r \in StreamRoutes /\ Applicable(d, r) /\ FirstCandidate(s, d, r)

\* AudioStreamRouteIaSspWorkaround::checkAndSetNeedRerouting
NeedsFlush(u) ==
    /\ u[2] \in SspRoutes
    /\ u \in cur
    /\ "outDevices" \in events
    /\ devices["out"] \cap FlushDevices[u[1]] # {}

\* CAudioStreamRoute::needReconfiguration, CAudioExternalRoute's
NeedReconfiguration(u) ==
    /\ u \in cur /\ u \in will
    /\ IF u[2] \in StreamRoutes
       THEN \/ u \in rerouting
            \/ pCur[u] # pNew[u]
            \/ att[pCur[u]].devices # newDevices[pNew[u]]
       ELSE IF u[1] = "out" THEN "outDevices" \in events
            ELSE events \cap {"inDevices", "inSource"} # {}

-----------------------------------------------------------------------------
(* Initial state: after CAudioRouteManager::start, no stream is open.      *)

Init ==
    /\ devices = [d \in Dirs |-> {}]
    /\ androidMode = "normal"
    /\ modemUp = FALSE
    /\ inputSource = NoMask
    /\ events = {}
    /\ list = [d \in Dirs |-> <<>>]
    /\ started = {}
    /\ mask = OpenMask
    /\ newDevices = [s \in Streams |-> {}]
    /\ newRoute = [s \in Streams |-> None]
    /\ att = [s \in Streams |-> Detached]
    /\ client = [s \in Streams |-> "idle"]
    /\ cur = {} /\ will = {} /\ blocked = {} /\ rerouting = {} /\ pcm = {}
    /\ pCur = [u \in Uses |-> None]
    /\ pNew = [u \in Uses |-> None]
    /\ portUser = [p \in Ports |-> None]
    /\ portBlocked = {}
    /\ stage = "idle" /\ todo = {} /\ firstDir = "out"
    /\ prevEnabled = {} /\ needReconfig = {} /\ muted = {}
    /\ pending = 0
    /\ fatal = {}

-----------------------------------------------------------------------------
(* The threads of the framework.  Manager lock free: no pass is running.   *)

Alive == fatal = {}
LockFree == Alive /\ stage = "idle"

\* reconsiderRouting(true): queue a semaphore and an event, release the lock
\* and wait for the semaphore.
Requesting_NoWait(s) == [client EXCEPT ![s] = "idle"]
Requesting(s) == [client EXCEPT ![s] = "waiting"]

RequestPass(s) ==
    /\ pending < MaxPending
    /\ pending' = pending + 1
    /\ client' = Requesting(s)

\* AudioHardwareALSA::openOutputStream, openInputStream: addStream
OpenStream(s) ==
    /\ LockFree
    /\ client[s] = "idle" /\ ~Opened(s)
    /\ list' = [list EXCEPT ![DirOf[s]] = Append(@, s)]
    /\ mask' = [mask EXCEPT ![s] = OpenMask[s]]
    /\ newDevices' = [newDevices EXCEPT ![s] = {}]
    /\ newRoute' = [newRoute EXCEPT ![s] = None]
    /\ att' = [att EXCEPT ![s] = Detached]
    /\ UNCHANGED <<platformVars, started, client, portVars, will, rerouting,
                   pNew, prevEnabled, needReconfig, cur, pcm, pCur, workerVars,
                   pending, fatal>>

\* closeOutputStream, closeInputStream: removeStream, then delete.  The
\* framework puts the stream in standby before (~ALSAStreamOps asserts it).
CloseStream(s) ==
    /\ LockFree
    /\ client[s] = "idle" /\ s \notin started
    /\ \E i \in DOMAIN list[DirOf[s]] :
         /\ list[DirOf[s]][i] = s
         /\ list' = [list EXCEPT ![DirOf[s]] =
                       SubSeq(@, 1, i - 1) \o SubSeq(@, i + 1, Len(@))]
    /\ UNCHANGED <<platformVars, started, mask, newDevices, client, portVars,
                   selectVars, hwVars, workerVars, pending, fatal>>

\* ALSAStreamOps::setStandby up to the call of the parent: the flag changes
\* under the stream lock, whatever the worker is doing.
SetStandby(s) ==
    /\ Alive
    /\ client[s] = "idle" /\ Opened(s)
    /\ started' = IF s \in started THEN started \ {s} ELSE started \cup {s}
    /\ client' = [client EXCEPT ![s] = "calling"]
    /\ UNCHANGED <<platformVars, list, mask, newDevices, portVars, selectVars,
                   hwVars, workerVars, pending, fatal>>

\* CAudioRouteManager::startStream, stopStream
StartStopStream(s) ==
    /\ LockFree
    /\ client[s] = "calling"
    /\ RequestPass(s)
    /\ UNCHANGED <<platformVars, list, started, mask, newDevices, portVars,
                   selectVars, hwVars, workerVars, fatal>>

\* CAudioRouteManager::setStreamParameters with a routing key: the device
\* mask devs, the flags or input source m, the telephony mode.
SetStreamParameters(s, devs, m, mode) ==
    LET d == DirOf[s]
        out == d = "out"
        source == IF devs = {} THEN NoMask ELSE m
        mode2 == IF out THEN mode ELSE androidMode
        events2 == events
            \cup (IF devices[d] # devs
                  THEN {IF out THEN "outDevices" ELSE "inDevices"} ELSE {})
            \cup (IF ~out /\ inputSource # source THEN {"inSource"} ELSE {})
            \cup (IF androidMode # mode2 THEN {"androidMode"} ELSE {})
            \cup (IF HwMode # HwModeOf(mode2,
                                 IF out THEN devs ELSE devices["out"], modemUp)
                  THEN {"hwMode"} ELSE {})
    IN  /\ LockFree
        /\ client[s] = "idle" /\ Opened(s)
        /\ out => (m = mask[s] \/ FlagsMayChange)
        /\ devices' = [devices EXCEPT ![d] = devs]
        /\ newDevices' = [newDevices EXCEPT ![s] = devs]
        /\ mask' = [mask EXCEPT ![s] = IF out THEN m ELSE source]
        /\ inputSource' = IF out THEN inputSource ELSE source
        /\ androidMode' = mode2
        /\ events' = events2
        /\ IF events2 # {} THEN RequestPass(s) ELSE UNCHANGED <<pending, client>>
        /\ UNCHANGED <<modemUp, list, started, portVars, selectVars, hwVars,
                       workerVars, fatal>>

-----------------------------------------------------------------------------
(* A pass: doReconsiderRouting.                                            *)

\* Evaluations of prepareRouting: a master evaluates its slaves just before
\* itself, so a slave is evaluated again for each of its masters.
Evaluations == {e \in Dirs \X Routes \X Routes :
                  e[2] = e[3] \/ e[3] \in Slaves[e[2]]}
Visits(S) == {<<u[1], u[2], u[2]>> : u \in S}
UseOf(e) == <<e[1], e[3]>>

\* The order of _routeList, the first direction first, slaves before masters.
Before(e, f) ==
    IF e[1] # f[1] THEN e[1] = firstDir
    ELSE IF e[2] # f[2] THEN Rank[e[2]] < Rank[f[2]]
    ELSE e[3] # e[2] /\ (f[3] = f[2] \/ Rank[e[3]] < Rank[f[3]])
Next1(e) == \A f \in todo \ {e} : Before(e, f)

GoTo(st, S, dir) == stage' = st /\ todo' = S /\ firstDir' = dir
Visit(st, e) == Alive /\ stage = st /\ e \in todo /\ Next1(e)
                /\ todo' = todo \ {e} /\ UNCHANGED <<stage, firstDir>>
Leave(st) == Alive /\ stage = st /\ todo = {}

\* resetAvailability: CAudioStreamRoute::resetAvailability forgets pNew.
NoNewStream_Kept == pNew
NoNewStream == [u \in Uses |-> None]

\* resetAvailability, and the first lines of prepareRouting.  The order of the
\* operands of "prepareRouting(EOutput) | prepareRouting(EInput)" is unspecified.
BeginPass ==
    /\ LockFree
    /\ \E dir \in Dirs : GoTo("prepare", Evaluations, dir)
    /\ blocked' = {} /\ will' = {} /\ rerouting' = {}
    /\ pNew' = NoNewStream
    /\ newRoute' = [s \in Streams |->
                      IF \E u \in Uses : pNew[u] = s THEN None ELSE newRoute[s]]
    /\ portUser' = [p \in Ports |-> None]
    /\ portBlocked' = {}
    /\ prevEnabled' = will
    /\ needReconfig' = {}
    /\ UNCHANGED <<streamVars, hwVars, muted, fatal>>

\* onProcess(EUpdateRouting): the worker takes a message and runs a pass.
UpdateRouting ==
    /\ pending > 0
    /\ pending' = pending - 1
    /\ BeginPass
    /\ UNCHANGED platformVars

\* onProcess(EUpdateModemState, EUpdateModemAudioStatus)
UpdateModem ==
    /\ ~ModemLess
    /\ modemUp' = ~modemUp
    /\ events' = IF HwModeOf(androidMode, devices["out"], ~modemUp) # HwMode
                 THEN events \cup {"hwMode"} ELSE events
    /\ BeginPass
    /\ UNCHANGED <<devices, androidMode, inputSource, pending>>

\* setMicMute: the caller runs the pass itself, without a message.
SetMicMute ==
    /\ BeginPass
    /\ UNCHANGED <<platformVars, pending>>

-----------------------------------------------------------------------------
(* prepareRouting: which stream and which ports every route gets.          *)

Peers(p) == {q \in Ports \ {p} : \E g \in PortGroups : p \in g /\ q \in g}
RoutesOn(S) == {q \in Routes : PortsOf[q] \cap S # {}}

ClaimPorts_NoCondemn(r) ==
    /\ portUser' = [p \in Ports |-> IF p \in PortsOf[r] THEN r ELSE portUser[p]]
    /\ UNCHANGED <<portBlocked, blocked, fatal>>

\* CAudioRoute::setUsed, CAudioPort::setUsed, condemnMutualExclusivePort and
\* CAudioPort::setBlocked: the ports of r are in use, their peers are blocked
\* and so is every route on them.
ClaimPorts(r) ==
    LET claimed == {p \in PortsOf[r] : portUser[p] = None}
        condemned == (UNION {Peers(p) : p \in claimed}) \ portBlocked
    IN  /\ portUser' = [p \in Ports |-> IF p \in claimed THEN r ELSE portUser[p]]
        /\ portBlocked' = portBlocked \cup condemned
        /\ blocked' = blocked \cup RoutesOn(condemned)
        /\ fatal' = IF \E p \in condemned : portUser'[p] # None
                    THEN fatal \cup {"blocked"} ELSE fatal

\* A master with slaves is considered only when one of them will be used.
Considered(e) ==
    \/ e[3] # e[2]
    \/ Slaves[e[2]] = {}
    \/ \E q \in Slaves[e[2]] : <<e[1], q>> \in will

\* CAudioRouteManager::prepareRoute for one route, after its slaves.
PrepareRoute(e, s) ==
    LET d == e[1]
        r == e[3]
        u == UseOf(e)
        used == Considered(e) /\ (IF r \in StreamRoutes THEN s # None
                                  ELSE Applicable(d, r))
    IN  /\ Visit("prepare", e)
        /\ ApplicableStream(s, d, r)
        /\ UNCHANGED <<platformVars, streamVars, prevEnabled, hwVars, muted,
                       pending>>
        /\ will' = IF used THEN will \cup {u} ELSE will
        /\ pNew' = IF used /\ s # None THEN [pNew EXCEPT ![u] = s] ELSE pNew
        /\ newRoute' = IF used /\ s # None THEN [newRoute EXCEPT ![s] = r]
                       ELSE newRoute
        /\ IF used THEN ClaimPorts(r) ELSE UNCHANGED <<portVars, fatal>>
        /\ rerouting' = IF used /\ NeedsFlush(u) THEN rerouting \cup {u}
                        ELSE rerouting
        /\ needReconfig' = IF Considered(e) /\ NeedReconfiguration(u)'
                           THEN needReconfig \cup {u} ELSE needReconfig

-----------------------------------------------------------------------------
(* executeRouting: mute, disable, configure, enable, unmute.               *)

RoutesWillChange == prevEnabled # will \/ needReconfig # {}

\* _clientWaitSemaphoreList.sync(): every caller that waits is released.
Released_WhenExecuted == [s \in Streams |->
    IF client[s] = "waiting" /\ RoutesWillChange THEN "idle" ELSE client[s]]
Released == [s \in Streams |->
    IF client[s] = "waiting" THEN "idle" ELSE client[s]]

\* The end of doReconsiderRouting: clearPlatformStateEvents, then sync.
FinishPass ==
    /\ events' = {}
    /\ client' = Released
    /\ GoTo("idle", {}, "out")

\* doReconsiderRouting when no route changes: nothing is executed.
KeepRouting ==
    /\ Leave("prepare") /\ ~RoutesWillChange
    /\ FinishPass
    /\ UNCHANGED <<devices, androidMode, modemUp, inputSource, list, started,
                   mask, newDevices, portVars, selectVars, hwVars, muted,
                   pending, fatal>>

\* muteRoutes: uiClosingRoutes
ClosingRoutes_NoReconfig == prevEnabled \ will
ClosingRoutes == (prevEnabled \ will) \cup needReconfig

\* doDisableRoutes: the routes to unroute
Disabled_Unrouted == {u \in Uses : u \notin will \/ u \in rerouting}
Disabled == {u \in Uses : (u \in cur /\ u \notin will) \/ u \in rerouting}
\* doEnableRoutes: the routes to route
Enabled == {u \in Uses : (u \notin cur /\ u \in will) \/ u \in rerouting}

MuteStage ==
    /\ Leave("prepare") /\ RoutesWillChange
    /\ muted' = ClosingRoutes
    /\ GoTo("disable", Visits(Disabled), "in")
    /\ UNCHANGED <<platformVars, streamVars, portVars, selectVars, hwVars,
                   pending, fatal>>

With(a, s, v) == [t \in Streams |-> IF t = s THEN v ELSE a[t]]
IsStream(u) == u[2] \in StreamRoutes
IsLpe(u) == u[2] \in LpeRoutes
Fault(cond, f) == IF cond THEN {f} ELSE {}

\* CAudioStreamRoute::detachCurrentStream: the stream of u loses its route.
DetachCurrent_NotLpe(u) == IF IsLpe(u) THEN att ELSE With(att, pCur[u], Detached)
DetachCurrent(u) == With(att, pCur[u], Detached)

\* closePcmDevice
ClosePcm(u, now) == pcm' = IF now THEN pcm \ {u} ELSE pcm

\* doDisableRoutes(isOut, false): CAudioStreamRoute::unroute detaches the
\* stream, and closes the device unless the platform closes it later.
DisableRoute(e) ==
    LET u == UseOf(e)
        close == IsStream(u) /\ ~IsLpe(u)
    IN  /\ Visit("disable", e)
        /\ att' = IF IsStream(u) THEN DetachCurrent(u) ELSE att
        /\ pCur' = IF IsStream(u) THEN [pCur EXCEPT ![u] = None] ELSE pCur
        /\ ClosePcm(u, close)
        /\ fatal' = fatal \cup Fault(IsStream(u) /\ pCur[u] = None, "detach")
                          \cup Fault(close /\ u \notin pcm, "close")
        /\ UNCHANGED <<platformVars, streamVars, portVars, selectVars, cur,
                       muted, pending>>

DisableEnd ==
    /\ Leave("disable")
    /\ GoTo("postDisable", Visits(Disabled), "in")
    /\ UNCHANGED <<platformVars, streamVars, portVars, selectVars, hwVars,
                   muted, pending, fatal>>

\* doPostDisableRoutes: unroute(isOut, true)
PostDisableRoute(e) ==
    LET u == UseOf(e)
        close == IsLpe(u)
    IN  /\ Visit("postDisable", e)
        /\ ClosePcm(u, close)
        /\ cur' = cur \ {u}
        /\ fatal' = fatal \cup Fault(close /\ u \notin pcm, "close")
        /\ UNCHANGED <<platformVars, streamVars, portVars, selectVars, pCur,
                       att, muted, pending>>

PostDisableEnd ==
    /\ Leave("postDisable")
    /\ GoTo("configure", Visits(needReconfig \ rerouting), "out")
    /\ UNCHANGED <<platformVars, streamVars, portVars, selectVars, hwVars,
                   muted, pending, fatal>>

\* attachRoute of stream s: "convert", the conversion chain cannot be set up
\* after the handle was taken; "buffer", an input stream finds no memory for
\* its buffer after the whole attachment.
AttachOutcomes(u) ==
    {"ok"} \cup (Failures \cap {"convert"})
           \cup (IF u[1] = "in" THEN Failures \cap {"buffer"} ELSE {})

Attached_HandleLast(s, outcome) ==
    [route |-> newRoute[s], devices |-> newDevices[s], handle |-> att[s].route]
Attached_OwnHandle(s, outcome) ==
    [route |-> newRoute[s], devices |-> newDevices[s], handle |-> s]
Attached(s, outcome) ==
    IF outcome = "convert" THEN [att[s] EXCEPT !.handle = newRoute[s]]
    ELSE [route |-> newRoute[s], devices |-> newDevices[s],
          handle |-> newRoute[s]]

\* The route keeps its stream, which takes its new devices.
Reconfigured_Late(s) == att[s]
Reconfigured(s) == [att[s] EXCEPT !.devices = newDevices[s]]

\* configureRoutes: CAudioStreamRoute::configure
ConfigureRoute(e, outcome) ==
    LET u == UseOf(e)
        same == pCur[u] = pNew[u]
        s == pNew[u]
    IN  /\ Visit("configure", e)
        /\ outcome \in IF IsStream(u) /\ ~same THEN AttachOutcomes(u) ELSE {"ok"}
        /\ att' = IF ~IsStream(u) THEN att
                  ELSE IF same
                  THEN With(att, s, Reconfigured(s))
                  ELSE With(DetachCurrent(u), s, Attached(s, outcome))
        /\ pCur' = IF ~IsStream(u) \/ same THEN pCur
                   ELSE [pCur EXCEPT ![u] = IF outcome = "ok" THEN s ELSE None]
        /\ fatal' = fatal \cup Fault(IsStream(u) /\ pCur[u] = None, "detach")
                          \cup Fault(IsStream(u) /\ pNew[u] = None, "attach")
        /\ UNCHANGED <<platformVars, streamVars, portVars, selectVars, cur, pcm,
                       muted, pending>>

ConfigureEnd ==
    /\ Leave("configure")
    /\ GoTo("preEnable", Visits(Enabled), "out")
    /\ UNCHANGED <<platformVars, streamVars, portVars, selectVars, hwVars,
                   muted, pending, fatal>>

\* openPcmDevice: a device that is not ready or not prepared is closed again.
OpenOutcomes == {TRUE} \cup (IF "open" \in Failures THEN {FALSE} ELSE {})
OpenPcm(u, now, opens) == pcm' = IF now /\ opens THEN pcm \cup {u} ELSE pcm

\* doPreEnableRoutes: route(isOut, true)
PreEnableRoute(e, opens) ==
    LET u == UseOf(e)
    IN  /\ Visit("preEnable", e)
        /\ opens \in IF IsLpe(u) THEN OpenOutcomes ELSE {TRUE}
        /\ OpenPcm(u, IsLpe(u), opens)
        /\ fatal' = fatal \cup Fault(IsLpe(u) /\ u \in pcm, "open")
        /\ UNCHANGED <<platformVars, streamVars, portVars, selectVars, cur, pCur,
                       att, muted, pending>>

PreEnableEnd ==
    /\ Leave("preEnable")
    /\ GoTo("enable", Visits(Enabled), "out")
    /\ UNCHANGED <<platformVars, streamVars, portVars, selectVars, hwVars,
                   muted, pending, fatal>>

\* doEnableRoutes: route(isOut, false); a failure is only logged.
EnableRoute(e, opens, outcome) ==
    LET u == UseOf(e)
        openNow == IsStream(u) /\ ~IsLpe(u)
        ready == IF openNow THEN opens ELSE u \in pcm
        s == pNew[u]
    IN  /\ Visit("enable", e)
        /\ opens \in IF openNow THEN OpenOutcomes ELSE {TRUE}
        /\ outcome \in IF IsStream(u) /\ ready THEN AttachOutcomes(u) ELSE {"ok"}
        /\ OpenPcm(u, openNow, opens)
        /\ att' = IF IsStream(u) /\ ready THEN With(att, s, Attached(s, outcome))
                  ELSE att
        /\ pCur' = IF IsStream(u) /\ ready /\ outcome = "ok"
                   THEN [pCur EXCEPT ![u] = s] ELSE pCur
        /\ cur' = IF ~IsStream(u) \/ (ready /\ outcome = "ok")
                  THEN cur \cup {u} ELSE cur
        /\ fatal' = fatal \cup Fault(openNow /\ u \in pcm, "open")
                          \cup Fault(IsStream(u) /\ s = None, "attach")
        /\ UNCHANGED <<platformVars, streamVars, portVars, selectVars, muted,
                       pending>>

EnableEnd ==
    /\ Leave("enable")
    /\ GoTo("unmute", {}, "out")
    /\ UNCHANGED <<platformVars, streamVars, portVars, selectVars, hwVars,
                   muted, pending, fatal>>

UnmuteStage ==
    /\ Leave("unmute")
    /\ muted' = {}
    /\ FinishPass
    /\ UNCHANGED <<devices, androidMode, modemUp, inputSource, list, started,
                   mask, newDevices, portVars, selectVars, hwVars, pending,
                   fatal>>

-----------------------------------------------------------------------------
Framework ==
    \E s \in Streams :
        \/ OpenStream(s)
        \/ CloseStream(s)
        \/ SetStandby(s)
        \/ StartStopStream(s)
        \/ \E devs \in DeviceChoices, m \in MasksOfDir(DirOf[s]),
              mode \in AndroidModes : SetStreamParameters(s, devs, m, mode)

PassStep ==
    \/ KeepRouting \/ MuteStage
    \/ DisableEnd \/ PostDisableEnd \/ ConfigureEnd \/ PreEnableEnd
    \/ EnableEnd \/ UnmuteStage
    \/ \E e \in todo :
        \/ \E s \in Nullable(Streams) : PrepareRoute(e, s)
        \/ DisableRoute(e)
        \/ PostDisableRoute(e)
        \/ \E outcome \in AttachOutcomes(UseOf(e)) : ConfigureRoute(e, outcome)
        \/ \E opens \in BOOLEAN : PreEnableRoute(e, opens)
        \/ \E opens \in BOOLEAN, outcome \in AttachOutcomes(UseOf(e)) :
              EnableRoute(e, opens, outcome)

Next == Framework \/ UpdateRouting \/ UpdateModem \/ SetMicMute \/ PassStep

Spec == Init /\ [][Next]_vars

\* The worker thread and a caller that holds the lock keep running, and a
\* message in the queue of the event thread is eventually taken.
Fairness == WF_vars(PassStep) /\ WF_vars(UpdateRouting)
FairSpec == Spec /\ Fairness

-----------------------------------------------------------------------------
(* Properties.                                                             *)

PlatformOK ==
    /\ devices \in [Dirs -> SUBSET Devices]
    /\ androidMode \in Modes
    /\ modemUp \in BOOLEAN
    /\ inputSource \in Masks \cup {NoMask}
    /\ events \subseteq Events
StreamsOK ==
    /\ list \in [Dirs -> Seq(Streams)]
    /\ started \subseteq Streams
    /\ mask \in [Streams -> Masks \cup {NoMask}]
    /\ newDevices \in [Streams -> SUBSET Devices]
    /\ client \in [Streams -> {"idle", "calling", "waiting"}]
PortsOK ==
    /\ portUser \in [Ports -> Nullable(Routes)]
    /\ portBlocked \subseteq Ports
    /\ blocked \subseteq Routes
SelectOK ==
    /\ will \subseteq Uses /\ rerouting \subseteq Uses
    /\ pNew \in [Uses -> Nullable(Streams)]
    /\ newRoute \in [Streams -> Nullable(Routes)]
    /\ prevEnabled \subseteq Uses /\ needReconfig \subseteq Uses
HardwareOK ==
    /\ cur \subseteq Uses /\ pcm \subseteq Uses
    /\ pCur \in [Uses -> Nullable(Streams)]
    /\ att \in [Streams -> Attachments]
WorkerOK ==
    /\ stage \in Stages
    /\ todo \subseteq Evaluations
    /\ firstDir \in Dirs
    /\ muted \subseteq Uses
    /\ pending \in 0..MaxPending
    /\ fatal \subseteq Faults

\* Every variable has its type.
TypeOK == PlatformOK /\ StreamsOK /\ PortsOK /\ SelectOK /\ HardwareOK /\ WorkerOK

\* No LOG_ALWAYS_FATAL_IF of CAudioStreamRoute and no assertion of CAudioPort
\* ever fires: a device is never opened twice nor closed when it is not open,
\* no stream is detached from a route that has none.
NoFatal == fatal = {}

\* Two routes whose ports are in one port group are never active together,
\* at no moment of a pass: what was in use is disabled before its rival is
\* enabled, in the same direction and across directions.
Rivals(r, q) == \E p \in PortsOf[r] : Peers(p) \cap PortsOf[q] # {}
ExclusivePorts ==
    \A u, v \in cur : ~Rivals(u[2], v[2])

\* What a stream thread relies on when it reads or writes: the route it is
\* attached to holds an open device, the handle is that device, and the route
\* knows the stream, so that it will detach it before it closes the device.
RoutedStreamOwnsDevice ==
    \A s \in Streams : att[s].route # None =>
        LET u == <<DirOf[s], att[s].route>>
        IN  /\ u \in pcm
            /\ att[s].handle = att[s].route
            /\ pCur[u] = s

\* No stream that was closed, hence deleted, is still known to a route.
NoDanglingStream ==
    \A u \in Uses : /\ pCur[u] # None => Opened(pCur[u])
                    /\ pNew[u] # None => Opened(pNew[u])

\* stopStream is synchronous: when it has returned the stream is detached.
StoppedStreamIsDetached ==
    \A s \in Streams : client[s] = "idle" /\ s \notin started
                          => att[s] = Detached

\* At the unmute stage every stream is where prepareRouting put it, with the
\* devices selected for it, unless its device could not be opened.
RoutedAsPrepared ==
    stage = "unmute" =>
        \A s \in Streams : newRoute[s] # None
                           /\ <<DirOf[s], newRoute[s]>> \in pcm =>
            /\ att[s].route = newRoute[s]
            /\ att[s].devices = newDevices[s]

\* A stream leaves a route only while the parameter framework mutes the route.
DetachedWhenMuted ==
    [][\A u \in Uses : pCur[u] # None /\ pCur'[u] # pCur[u] => u \in muted]_vars

\* startStream, stopStream and setStreamParameters return.
RequestsComplete == \A s \in Streams : client[s] = "waiting" ~> client[s] = "idle"

\* "Attach the stream to its route only once routing stage is completed":
\* a stream gets its route after the controls of the path are applied.
AttachedOnEnabledPath ==
    [][\A s \in Streams : att'[s].route \notin {None, att[s].route}
                             => stage \in {"enable", "unmute"}]_vars

\* The route manager keeps the promises of PcmDevices: the user of a device is
\* the stream whose own attachment (mCurrentRoute) names its route.
Device == INSTANCE PcmDevices WITH
    Slots <- Uses, Clients <- Streams, Nobody <- None, open <- pcm,
    user <- [u \in Uses |->
               IF \E s \in Streams : <<DirOf[s], att[s].route>> = u
               THEN CHOOSE s \in Streams : <<DirOf[s], att[s].route>> = u
               ELSE None]
DevicesWellUsed == Device!Spec
=============================================================================
