---------------------------- MODULE StreamThreads ----------------------------
(***************************************************************************)
(* The threads that meet in a stream: the capture or playback thread that  *)
(* does its I/O, the thread in which AudioFlinger adds and removes effects *)
(* ("a different thread than Capture thread"), and the event thread of the *)
(* route manager, which attaches and detaches streams and closes devices.  *)
(* Each stream has a read-write lock, the manager has one; an echo         *)
(* canceller takes its reference signal from an output stream, through     *)
(* the manager.  Which stream is routed when is left open: AudioRouting    *)
(* says it.                                                                *)
(***************************************************************************)
EXTENDS Integers, FiniteSets, FiniteSetsExt, Functions, Sequences

CONSTANTS
    Ins,         \* the input streams
    Outs,        \* the output streams, a sequence: the manager's list
    Effects,     \* effects a client may put on an input
    Aec,         \* those that cancel echo
    RouteKinds,  \* sets of effects that routes embed
    Repeats,     \* may a client add an effect it has added?
    MaxRetries,  \* MAX_READ_WRITE_RETRIES
    MaxRefs,     \* bound on the echo references created
    None         \* no thread, no reference, no stream: not a number either

OutSet == {Outs[n] : n \in DOMAIN Outs}
Streams == Ins \cup OutSet
Refs == 1..MaxRefs

ASSUME ThreadsAssumption ==
    /\ Ins \cap OutSet = {} /\ None \notin Streams
    /\ Outs \in Seq(OutSet)
    /\ \A m, n \in DOMAIN Outs : Outs[m] = Outs[n] => m = n
    /\ Aec \subseteq Effects /\ RouteKinds \subseteq SUBSET Effects
    /\ Repeats \in BOOLEAN
    /\ MaxRetries \in Nat \ {0} /\ MaxRefs \in Nat /\ None \notin Nat

VARIABLES
    manager,    \* who holds the manager's lock: "worker" or None
    wpc, wants, \* the worker, and the stream whose lock it waits for or holds
    todo,       \* the effects the worker has still to add or remove
    io, tries,  \* the streams in I/O (they hold their lock for reading), retries
    fx,         \* fx[i]: the call that holds the lock of i and waits for the manager's
    open,       \* the streams whose route has an open device
    routed,     \* mCurrentRoute # NULL
    embeds,     \* the effects of the stream's route
    requested,  \* mRequestedEffects, in any order
    sw,         \* mPreprocessorsHandlerList: the reference of each effect it runs
    outRef,     \* mEchoReference of the output streams
    ref,        \* _pEchoReference
    live,       \* references created and not released
    created,    \* how many were created
    dead        \* LOG_ALWAYS_FATAL: "Hardware not responding"

workerVars == <<wpc, wants, todo>>
ioVars == <<io, tries>>
effectVars == <<requested, sw>>
refVars == <<outRef, ref, live, created>>
vars == <<manager, workerVars, ioVars, fx, open, routed, embeds, effectVars,
          refVars, dead>>

NoCall == <<"none", None>>
NoEffects == [e \in {} |-> None]

\* Nobody holds the lock of s: its I/O thread does for reading, a call that
\* waits for the manager and a worker that waits for the outputs for writing.
Free(s) ==
    /\ s \notin io
    /\ s \in Ins => fx[s] = NoCall
    /\ ~(wpc \in {"attaching", "detaching"} /\ wants = s)
OutsFree == \A o \in OutSet : Free(o)

Init ==
    /\ manager = None
    /\ wpc = "idle" /\ wants = None /\ todo = {}
    /\ io = {} /\ tries = [s \in Streams |-> 0]
    /\ fx = [i \in Ins |-> NoCall]
    /\ open = {} /\ routed = {}
    /\ embeds = [i \in Ins |-> {}]
    /\ requested = [i \in Ins |-> {}] /\ sw = [i \in Ins |-> NoEffects]
    /\ outRef = [o \in OutSet |-> None] /\ ref = None
    /\ live = {} /\ created = 0
    /\ dead = FALSE

-----------------------------------------------------------------------------
(* Echo references, in a step that holds the manager's lock.  What it does *)
(* is a function of the references: a record of the four variables.        *)

Now == [out |-> outRef, ref |-> ref, live |-> live, created |-> created]
Become(x) == outRef' = x.out /\ ref' = x.ref /\ live' = x.live /\ created' = x.created

\* resetEchoReference(r): the output that provides it stops, and it is released.
ReferenceReset_NotReleased(x, r) ==
    IF r = None \/ x.ref # r THEN x
    ELSE [x EXCEPT !.out = [o \in OutSet |-> IF @[o] = r THEN None ELSE @[o]],
                   !.ref = None]
ReferenceReset_StillFed(x, r) ==
    IF r = None \/ x.ref # r THEN x ELSE [x EXCEPT !.ref = None, !.live = @ \ {r}]
ReferenceReset(x, r) ==
    IF r = None \/ x.ref # r THEN x
    ELSE [x EXCEPT !.out = [o \in OutSet |-> IF @[o] = r THEN None ELSE @[o]],
                   !.ref = None, !.live = @ \ {r}]

\* getEchoReference: every routed output is given a new reference; the last is
\* the manager's.  A reference is a number that was not given before.
RoutedOuts == {n \in DOMAIN Outs : Outs[n] \in routed}
LastRouted == Max({0} \cup RoutedOuts)
ReferenceFor(x) ==
    LET y == ReferenceReset(x, x.ref)
    IN  [out |-> [o \in OutSet |->
                    IF o \in routed
                    THEN y.created + (CHOOSE n \in DOMAIN Outs : Outs[n] = o)
                    ELSE y.out[o]],
         ref |-> IF RoutedOuts = {} THEN y.ref ELSE y.created + LastRouted,
         live |-> y.live \cup {y.created + n : n \in RoutedOuts},
         created |-> y.created + LastRouted]

\* addSwAudioEffectL: "useless to add the same effect more than one time"
WithEffect(list, e, r) ==
    IF e \in DOMAIN list THEN list
    ELSE [x \in DOMAIN list \cup {e} |-> IF x = e THEN r ELSE list[x]]
WithoutEffect(list, e) == Restrict(list, DOMAIN list \ {e})
ReferenceOf(list, e) == IF e \in DOMAIN list THEN list[e] ELSE None

\* addAudioEffectL and removeAudioEffectL, given what the route embeds, on the
\* pair of an input's list and the references
Added(pair, e, embedded) ==
    IF e \in embedded THEN pair
    ELSE LET x == IF e \in Aec THEN ReferenceFor(pair[2]) ELSE pair[2]
         IN  <<WithEffect(pair[1], e, IF e \in Aec THEN x.ref ELSE None), x>>
Removed(pair, e, embedded) ==
    IF e \in embedded THEN pair
    ELSE <<WithoutEffect(pair[1], e),
           ReferenceReset(pair[2], ReferenceOf(pair[1], e))>>

\* Does the call reach the manager?
AddNeedsManager(i, e) == e \in Aec \ embeds[i]
RemoveNeedsManager(i, e) == e \notin embeds[i] /\ ReferenceOf(sw[i], e) # None

-----------------------------------------------------------------------------
(* The worker: a pass of the route manager.                                *)

Alive == ~dead

BeginPass ==
    /\ Alive /\ wpc = "idle" /\ manager = None
    /\ manager' = "worker" /\ wpc' = "pass"
    /\ UNCHANGED <<wants, todo, ioVars, fx, open, routed, embeds, effectVars, refVars, dead>>

EndPass ==
    /\ Alive /\ wpc = "pass"
    /\ manager' = None /\ wpc' = "idle"
    /\ UNCHANGED <<wants, todo, ioVars, fx, open, routed, embeds, effectVars, refVars, dead>>

\* CAudioStreamRoute::route opens the device, then attachRoute waits for the lock.
WantAttach(s) ==
    /\ Alive /\ wpc = "pass" /\ s \notin routed
    /\ created + Len(Outs) <= MaxRefs   \* bound
    /\ open' = open \cup {s}
    /\ wpc' = "attach" /\ wants' = s
    /\ UNCHANGED <<manager, todo, ioVars, fx, routed, embeds, effectVars, refVars, dead>>

WantDetach(s) ==
    /\ Alive /\ wpc = "pass" /\ s \in routed
    /\ wpc' = "detach" /\ wants' = s
    /\ UNCHANGED <<manager, todo, ioVars, fx, open, routed, embeds, effectVars, refVars, dead>>

\* May the worker take the lock of the stream it waits for?
Granted_Anyway(s) == TRUE
Granted(s) == Free(s)

AttachOut ==
    /\ Alive /\ wpc = "attach" /\ wants \in OutSet /\ Granted(wants)
    /\ routed' = routed \cup {wants}
    /\ wpc' = "pass" /\ wants' = None
    /\ UNCHANGED <<manager, todo, ioVars, fx, open, embeds, effectVars, refVars, dead>>

\* The lock of an input is taken first, those of the outputs come with each of
\* its echo references: other threads may run between two effects.
RemovedAtDetach_Nothing(i) == {}
RemovedAtDetach(i) == requested[i]

EnterIn ==
    /\ Alive /\ wants \in Ins /\ Granted(wants)
    /\ \/ /\ wpc = "attach" /\ wpc' = "attaching"
          /\ \E kind \in RouteKinds : embeds' = [embeds EXCEPT ![wants] = kind]
          /\ todo' = requested[wants]
       \/ /\ wpc = "detach" /\ wpc' = "detaching"
          /\ todo' = RemovedAtDetach(wants)
          /\ UNCHANGED embeds
    /\ UNCHANGED <<manager, wants, ioVars, fx, open, routed, effectVars, refVars, dead>>

\* One effect, in the worker's thread, which holds the manager's lock and may
\* take it again: checkAndAddAudioEffects, checkAndRemoveAudioEffects
EffectStep(after) ==
    /\ sw' = [sw EXCEPT ![wants] = after[1]]
    /\ Become(after[2])
    /\ UNCHANGED <<manager, wpc, wants, ioVars, fx, open, routed, embeds, requested, dead>>

AttachEffect(e) ==
    /\ Alive /\ wpc = "attaching" /\ e \in todo
    /\ AddNeedsManager(wants, e) => OutsFree
    /\ EffectStep(Added(<<sw[wants], Now>>, e, embeds[wants]))
    /\ todo' = todo \ {e}

DetachEffect(e) ==
    /\ Alive /\ wpc = "detaching" /\ e \in todo
    /\ RemoveNeedsManager(wants, e) => OutsFree
    /\ EffectStep(Removed(<<sw[wants], Now>>, e, embeds[wants]))
    /\ todo' = todo \ {e}

AttachIn ==
    /\ Alive /\ wpc = "attaching" /\ todo = {}
    /\ routed' = routed \cup {wants}
    /\ wpc' = "pass" /\ wants' = None
    /\ UNCHANGED <<manager, todo, ioVars, fx, open, embeds, effectVars, refVars, dead>>

\* AudioStreamInALSA::detachRouteL ends with the base's.
DetachIn ==
    /\ Alive /\ wpc = "detaching" /\ todo = {}
    /\ routed' = routed \ {wants}
    /\ wpc' = "close"
    /\ UNCHANGED <<manager, wants, todo, ioVars, fx, open, embeds, effectVars,
                   refVars, dead>>

\* AudioStreamOutALSA::detachRouteL: the output stops feeding its reference.
DetachOut ==
    /\ Alive /\ wpc = "detach" /\ wants \in OutSet /\ Granted(wants)
    /\ routed' = routed \ {wants}
    /\ outRef' = [outRef EXCEPT ![wants] = None]
    /\ wpc' = "close"
    /\ UNCHANGED <<manager, wants, todo, ioVars, fx, open, embeds, effectVars,
                   ref, live, created, dead>>

\* closePcmDevice
CloseDevice ==
    /\ Alive /\ wpc = "close"
    /\ open' = open \ {wants}
    /\ wpc' = "pass" /\ wants' = None
    /\ UNCHANGED <<manager, todo, ioVars, fx, routed, embeds, effectVars, refVars, dead>>

-----------------------------------------------------------------------------
(* Capture and playback threads: read and write with a route; without one  *)
(* they return silence and leave everything as it is.                      *)

BeginIo(s) ==
    /\ Alive /\ s \notin io /\ Free(s) /\ s \in routed
    /\ io' = io \cup {s} /\ tries' = [tries EXCEPT ![s] = 0]
    /\ UNCHANGED <<manager, workerVars, fx, open, routed, embeds, effectVars,
                   refVars, dead>>

\* readHwFrames and writeFrames: the device has taken or given the frames.
IoDone(s) ==
    /\ Alive /\ s \in io
    /\ io' = io \ {s}
    /\ UNCHANGED <<manager, workerVars, tries, fx, open, routed, embeds,
                   effectVars, refVars, dead>>

\* They fail (also when flush has stopped the device): sleep and try again.
Retried_Reset(n) == IF n + 1 >= MaxRetries THEN 0 ELSE n + 1
Retried(n) == n + 1
GivesUp(n) == n >= MaxRetries

IoFails(s) ==
    /\ Alive /\ s \in io
    /\ tries' = [tries EXCEPT ![s] = Retried(tries[s])]
    /\ dead' = GivesUp(tries'[s])
    /\ UNCHANGED <<manager, workerVars, io, fx, open, routed, embeds,
                   effectVars, refVars>>

-----------------------------------------------------------------------------
(* addAudioEffect and removeAudioEffect.                                   *)

AddEffect(i, e) ==
    /\ Alive /\ Free(i)
    /\ e \in requested[i] => Repeats
    /\ requested' = [requested EXCEPT ![i] = @ \cup {e}]
    /\ IF i \in routed /\ AddNeedsManager(i, e)
       THEN fx' = [fx EXCEPT ![i] = <<"add", e>>] /\ UNCHANGED sw
       ELSE /\ sw' = IF i \in routed
                     THEN [sw EXCEPT ![i] = Added(<<@, Now>>, e, embeds[i])[1]]
                     ELSE sw
            /\ UNCHANGED fx
    /\ UNCHANGED <<manager, workerVars, ioVars, open, routed, embeds, refVars, dead>>

\* An effect that was not requested is refused.
RemoveEffect(i, e) ==
    /\ Alive /\ Free(i)
    /\ e \in requested[i]
    /\ requested' = [requested EXCEPT ![i] = @ \ {e}]
    /\ IF i \in routed /\ RemoveNeedsManager(i, e)
       THEN fx' = [fx EXCEPT ![i] = <<"remove", e>>] /\ UNCHANGED sw
       ELSE /\ sw' = IF i \in routed
                     THEN [sw EXCEPT ![i] = Removed(<<@, Now>>, e, embeds[i])[1]]
                     ELSE sw
            /\ UNCHANGED fx
    /\ UNCHANGED <<manager, workerVars, ioVars, open, routed, embeds, refVars, dead>>

\* getEchoReference or resetEchoReference has the manager's lock, and the
\* locks of the outputs one after the other; then the call returns.
CompleteEffect(i) ==
    LET e == fx[i][2]
        after == IF fx[i][1] = "add" THEN Added(<<sw[i], Now>>, e, embeds[i])
                 ELSE Removed(<<sw[i], Now>>, e, embeds[i])
    IN  /\ Alive /\ fx[i] # NoCall
        /\ manager = None /\ OutsFree
        /\ created + Len(Outs) <= MaxRefs   \* bound
        /\ sw' = [sw EXCEPT ![i] = after[1]]
        /\ Become(after[2])
        /\ fx' = [fx EXCEPT ![i] = NoCall]
        /\ UNCHANGED <<manager, workerVars, ioVars, open, routed, embeds,
                       requested, dead>>

-----------------------------------------------------------------------------
Work ==
    \/ AttachOut \/ DetachOut \/ CloseDevice
    \/ EnterIn \/ AttachIn \/ DetachIn
    \/ \E e \in Effects : AttachEffect(e) \/ DetachEffect(e)
Next ==
    \/ BeginPass \/ EndPass \/ Work
    \/ \E s \in Streams : WantAttach(s) \/ WantDetach(s)
    \/ \E s \in Streams : BeginIo(s) \/ IoDone(s) \/ IoFails(s)
    \/ \E i \in Ins : CompleteEffect(i)
                      \/ \E e \in Effects : AddEffect(i, e) \/ RemoveEffect(i, e)

Spec == Init /\ [][Next]_vars

\* The worker goes on, and gets a lock that is free again and again; a thread
\* in I/O goes on, with success or without.
FairSpec ==
    /\ Spec
    /\ SF_vars(Work)
    /\ \A s \in Streams : WF_vars(IoDone(s) \/ IoFails(s))

-----------------------------------------------------------------------------
(* Properties.                                                             *)

\* A thread that reads or writes does so on an attached stream with an open
\* device: the device is neither detached nor closed under its I/O.
IoOnOpenDevice == \A s \in io : s \in routed /\ s \in open

\* The software effects of an input are the ones asked for, less those its
\* route embeds, and an input without a route runs none, across calls that
\* come while the stream is attached and detached.
EffectsFollowRequests ==
    \A i \in Ins :
        fx[i] = NoCall /\ ~(wpc \in {"attaching", "detaching"} /\ wants = i) =>
            DOMAIN sw[i] = IF i \in routed THEN requested[i] \ embeds[i] ELSE {}

\* No thread reads or writes a reference that was released: those in the list
\* of an input and those of the outputs exist.
ReferencesLive ==
    /\ \A i \in Ins : \A e \in DOMAIN sw[i] : sw[i][e] \in live \cup {None}
    /\ \A o \in OutSet : outRef[o] \in live \cup {None}

\* "Only one output is expected to provide the reference": there is never a
\* reference besides the one the manager knows, and could release.
OneReference == live \subseteq {ref}

\* The effect thread of an input and the worker wait for each other.
CircularWait ==
    \E i \in Ins : fx[i] # NoCall /\ manager = "worker" /\ wants = i
                   /\ wpc \in {"attach", "detach"}

\* "Effects are managed by AudioFlinger in a different thread than Capture
\* thread": a call for an effect and a routing pass never block each other.
NoCircularWait == ~CircularWait

\* The worker that waits for a stream gets it although reads and writes retry
\* on failing hardware with the lock held: they return or end the process.
PassGetsLock == wpc \notin {"idle", "pass"} ~> wpc = "pass" \/ dead \/ CircularWait
=============================================================================
