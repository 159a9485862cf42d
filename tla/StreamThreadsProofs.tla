------------------------ MODULE StreamThreadsProofs ------------------------
(***************************************************************************)
(* Theorems about StreamThreads, for every number of streams, every set of *)
(* effects and of effects that routes embed, and any limit on retries.     *)
(***************************************************************************)
EXTENDS StreamThreads, WellFoundedInduction, TLAPS

-----------------------------------------------------------------------------
(* The greatest of a set of numbers.                                       *)

Less == {p \in Nat \X Nat : p[1] < p[2]}

\* The order of the numbers is well-founded, stated without the operator that
\* the library's theorem passes on.
LEMMA LessWellFounded == IsWellFoundedOn(Less, Nat)
<1>1. OpToRel(<, Nat) = Less
  BY Zenon DEF OpToRel, Less
<1> QED BY <1>1, NatLessThanWellFounded, Zenon

\* A set of numbers that is not empty has a least one,
LEMMA LeastOf ==
    ASSUME NEW S \in SUBSET Nat, S # {}
    PROVE  \E x \in S : \A y \in S : x <= y
<1>1. \E x \in S : \A y \in S : ~(<<y, x>> \in Less)
  BY LessWellFounded, WFMin
<1>2. PICK x \in S : \A y \in S : ~(<<y, x>> \in Less)
  BY <1>1
<1>3. \A y \in S : x <= y
  <2> SUFFICES ASSUME NEW y \in S PROVE x <= y
    OBVIOUS
  <2>1. x \in Nat /\ y \in Nat /\ ~(<<y, x>> \in Less)
    BY <1>2
  <2>2. <<y, x>> \in Nat \X Nat /\ <<y, x>>[1] = y /\ <<y, x>>[2] = x
    BY <2>1
  <2>3. ~(y < x)
    BY <2>1, <2>2 DEF Less
  <2> QED BY <2>1, <2>3
<1> QED BY <1>3

\* so that one of bounded numbers is their maximum.
LEMMA LargestOf ==
    ASSUME NEW n \in Nat, NEW S \in SUBSET (0..n), S # {}
    PROVE  Max(S) \in S /\ \A y \in S : Max(S) >= y
<1> DEFINE T == {n - x : x \in S}
<1>1. \A x \in S : x \in Nat /\ n - x \in Nat
  OBVIOUS
<1>2. T \subseteq Nat /\ T # {}
  BY <1>1
<1>3. PICK m \in T : \A y \in T : m <= y
  BY <1>2, LeastOf
<1>4. PICK x \in S : m = n - x
  BY <1>3
<1>5. \A y \in S : x >= y
  <2> SUFFICES ASSUME NEW y \in S PROVE x >= y
    OBVIOUS
  <2>1. n - y \in T
    OBVIOUS
  <2>2. n - x <= n - y
    BY <1>3, <1>4, <2>1
  <2> QED BY <1>1, <2>2
<1> QED BY <1>5 DEF Max

-----------------------------------------------------------------------------
(* Devices.  A stream is attached while its device is open; between        *)
(* detaching it and closing the device no thread can begin to use it.      *)

DevicesInv ==
    /\ routed \subseteq open /\ io \subseteq routed
    /\ wpc \in {"attach", "attaching"} => wants \in open
    /\ wpc \in {"attaching", "detaching"} => wants \notin io
    /\ wpc = "close" => wants \notin routed

LEMMA DevicesInit == Init => DevicesInv
BY DEF Init, DevicesInv

\* The worker's own steps: it takes a stream away only with the lock of the
\* stream, and closes only what it has taken away.
LEMMA DevicesWork ==
    ASSUME DevicesInv, Work
    PROVE  DevicesInv'
<1>1. CASE AttachOut
  BY <1>1 DEF AttachOut, ioVars, DevicesInv
<1>2. CASE EnterIn
  BY <1>2 DEF EnterIn, Granted, Free, ioVars, DevicesInv
<1>3. CASE AttachIn
  BY <1>3 DEF AttachIn, ioVars, DevicesInv
<1>7. ASSUME NEW e, AttachEffect(e) \/ DetachEffect(e)
      PROVE  DevicesInv'
  BY <1>7 DEF AttachEffect, DetachEffect, EffectStep, ioVars, DevicesInv
<1>4. CASE DetachOut
  BY <1>4 DEF DetachOut, Granted, Free, ioVars, DevicesInv
<1>5. CASE DetachIn
  BY <1>5 DEF DetachIn, ioVars, DevicesInv
<1>6. CASE CloseDevice
  BY <1>6 DEF CloseDevice, ioVars, DevicesInv
<1> QED BY <1>1, <1>2, <1>3, <1>4, <1>5, <1>6, <1>7 DEF Work

\* The steps of the other threads, and of the worker between two streams.
LEMMA DevicesNext ==
    ASSUME DevicesInv, [Next]_vars
    PROVE  DevicesInv'
<1> USE DEF workerVars, ioVars, effectVars, refVars
<1>1. CASE BeginPass
  BY <1>1 DEF BeginPass, DevicesInv
<1>2. CASE EndPass
  BY <1>2 DEF EndPass, DevicesInv
<1>3. CASE Work
  BY <1>3, DevicesWork
<1>4. ASSUME NEW s \in Streams, WantAttach(s)
      PROVE  DevicesInv'
  BY <1>4 DEF WantAttach, DevicesInv
<1>5. ASSUME NEW s \in Streams, WantDetach(s)
      PROVE  DevicesInv'
  BY <1>5 DEF WantDetach, DevicesInv
<1>6. ASSUME NEW s \in Streams, BeginIo(s)
      PROVE  DevicesInv'
  BY <1>6 DEF BeginIo, Free, DevicesInv
<1>7. ASSUME NEW s \in Streams, IoDone(s)
      PROVE  DevicesInv'
  BY <1>7 DEF IoDone, DevicesInv
<1>8. ASSUME NEW s \in Streams, IoFails(s)
      PROVE  DevicesInv'
  BY <1>8 DEF IoFails, DevicesInv
<1>9. ASSUME NEW i \in Ins, NEW e \in Effects, AddEffect(i, e) \/ RemoveEffect(i, e)
      PROVE  DevicesInv'
  BY <1>9 DEF AddEffect, RemoveEffect, DevicesInv
<1>10. ASSUME NEW i \in Ins, CompleteEffect(i)
       PROVE  DevicesInv'
  BY <1>10 DEF CompleteEffect, DevicesInv
<1>11. CASE UNCHANGED vars
  BY <1>11 DEF vars, DevicesInv
<1> QED
  BY <1>1, <1>2, <1>3, <1>4, <1>5, <1>6, <1>7, <1>8, <1>9, <1>10, <1>11 DEF Next

\* No thread reads or writes a stream without a route or a device that was
\* closed: the routing passes of the event thread, which detach streams and
\* close devices, never come between a thread and its I/O.
THEOREM IoIsSafe == Spec => []IoOnOpenDevice
<1>1. DevicesInv => IoOnOpenDevice
  BY DEF DevicesInv, IoOnOpenDevice
<1> QED BY DevicesInit, DevicesNext, <1>1, PTL DEF Spec

-----------------------------------------------------------------------------
(* Effects.  While a thread has the lock of an input, the input is between *)
(* two of its effects.                                                     *)

\* An input runs exactly the effects that were added to its list,
LEMMA ListDomains ==
    ASSUME NEW list, NEW e, NEW r
    PROVE  /\ DOMAIN WithEffect(list, e, r) = DOMAIN list \cup {e}
           /\ DOMAIN WithoutEffect(list, e) = DOMAIN list \ {e}
BY DEF WithEffect, WithoutEffect, Restrict

\* unless its route embeds them.
LEMMA AddedDomain ==
    ASSUME NEW list, NEW x, NEW e, NEW embedded
    PROVE  DOMAIN Added(<<list, x>>, e, embedded)[1] = DOMAIN list \cup ({e} \ embedded)
<1>1. CASE e \in embedded
  BY <1>1 DEF Added
<1>2. CASE e \notin embedded
  <2>1. PICK y, r : Added(<<list, x>>, e, embedded) = <<WithEffect(list, e, r), y>>
    BY <1>2 DEF Added
  <2>2. Added(<<list, x>>, e, embedded)[1] = WithEffect(list, e, r)
    BY <2>1
  <2>3. DOMAIN WithEffect(list, e, r) = DOMAIN list \cup {e}
    BY ListDomains
  <2> QED BY <1>2, <2>2, <2>3
<1> QED BY <1>1, <1>2

LEMMA RemovedDomain ==
    ASSUME NEW list, NEW x, NEW e, NEW embedded
    PROVE  DOMAIN Removed(<<list, x>>, e, embedded)[1] = DOMAIN list \ ({e} \ embedded)
<1>1. CASE e \in embedded
  BY <1>1 DEF Removed
<1>2. CASE e \notin embedded
  <2>1. PICK y : Removed(<<list, x>>, e, embedded) = <<WithoutEffect(list, e), y>>
    BY <1>2 DEF Removed
  <2>2. Removed(<<list, x>>, e, embedded)[1] = WithoutEffect(list, e)
    BY <2>1
  <2>3. DOMAIN Removed(<<list, x>>, e, embedded)[1] = DOMAIN list \ {e}
    BY <2>2, ListDomains, Zenon
  <2> QED BY <1>2, <2>3
<1> QED BY <1>1, <1>2

Wanted(i) == requested[i] \ embeds[i]
Held(i) == wpc \in {"attaching", "detaching"} /\ wants = i

Settled(i) ==
    /\ fx[i] = NoCall /\ ~Held(i)
    /\ DOMAIN sw[i] = IF i \in routed THEN Wanted(i) ELSE {}
\* addAudioEffect has asked for e, and waits for the manager.
Adding(i) ==
    \E e \in Effects :
        /\ fx[i] = <<"add", e>> /\ ~Held(i) /\ i \in routed
        /\ e \in Wanted(i) /\ DOMAIN sw[i] \cup {e} = Wanted(i)
\* removeAudioEffect does no longer ask for e, and waits for the manager.
Removing(i) ==
    \E e \in Effects :
        /\ fx[i] = <<"remove", e>> /\ ~Held(i) /\ i \in routed
        /\ e \notin requested[i] \cup embeds[i] /\ DOMAIN sw[i] = Wanted(i) \cup {e}
Attaching(i) ==
    /\ fx[i] = NoCall /\ Held(i) /\ wpc = "attaching" /\ i \notin routed
    /\ todo \subseteq requested[i] /\ DOMAIN sw[i] = Wanted(i) \ todo
Detaching(i) ==
    /\ fx[i] = NoCall /\ Held(i) /\ wpc = "detaching" /\ i \in routed
    /\ todo \subseteq requested[i] /\ DOMAIN sw[i] = todo \ embeds[i]

Situation(i) ==
    Settled(i) \/ Adding(i) \/ Removing(i) \/ Attaching(i) \/ Detaching(i)

\* The worker attaches what has no route and detaches what has one.
Lists ==
    /\ fx = [i \in Ins |-> fx[i]] /\ sw = [i \in Ins |-> sw[i]]
    /\ requested = [i \in Ins |-> requested[i]] /\ embeds = [i \in Ins |-> embeds[i]]
    /\ wpc = "attach" => wants \notin routed
    /\ wpc = "detach" => wants \in routed

EffectsInv == Lists /\ \A i \in Ins : Situation(i)

LEMMA EffectsInit == Init => EffectsInv
BY DEF Init, EffectsInv, Lists, Situation, Settled, Held, NoEffects

LEMMA ListsNext ==
    ASSUME Lists, [Next]_vars
    PROVE  Lists'
<1> USE DEF workerVars, ioVars, effectVars, refVars, Lists
<1>1. CASE BeginPass
  BY <1>1 DEF BeginPass
<1>2. CASE EndPass
  BY <1>2 DEF EndPass
<1>3. CASE Work
  BY <1>3 DEF Work, AttachOut, DetachOut, CloseDevice, EnterIn, AttachIn, DetachIn,
              AttachEffect, DetachEffect, EffectStep
<1>4. ASSUME NEW s \in Streams, WantAttach(s) \/ WantDetach(s)
      PROVE  Lists'
  BY <1>4 DEF WantAttach, WantDetach
<1>5. ASSUME NEW s \in Streams, BeginIo(s) \/ IoDone(s) \/ IoFails(s)
      PROVE  Lists'
  BY <1>5 DEF BeginIo, IoDone, IoFails
<1>6. ASSUME NEW i \in Ins, NEW e \in Effects, AddEffect(i, e) \/ RemoveEffect(i, e)
      PROVE  Lists'
  BY <1>6 DEF AddEffect, RemoveEffect
<1>7. ASSUME NEW i \in Ins, CompleteEffect(i)
      PROVE  Lists'
  BY <1>7 DEF CompleteEffect
<1>8. CASE UNCHANGED vars
  BY <1>8 DEF vars
<1> QED
  BY <1>1, <1>2, <1>3, <1>4, <1>5, <1>6, <1>7, <1>8 DEF Next

\* The worker has an input attached or detached in one piece, as far as the
\* others can see.
LEMMA EffectsWork ==
    ASSUME EffectsInv, Work, NEW i \in Ins
    PROVE  Situation(i)'
<1> USE DEF ioVars, effectVars, refVars
<1>0. Situation(i) /\ Ins \cap OutSet = {}
  BY ThreadsAssumption DEF EffectsInv
<1>1. CASE AttachOut
  BY <1>0, <1>1 DEF AttachOut, EffectsInv, Lists, Situation, Settled, Adding, Removing,
                    Attaching, Detaching, Held, Wanted
<1>2. CASE DetachOut
  BY <1>0, <1>2 DEF DetachOut, EffectsInv, Lists, Situation, Settled, Adding, Removing,
                    Attaching, Detaching, Held, Wanted
<1>3. CASE CloseDevice
  BY <1>0, <1>3 DEF CloseDevice, EffectsInv, Lists, Situation, Settled, Adding,
                    Removing, Attaching, Detaching, Held, Wanted
<1>4. CASE EnterIn
  <2>1. CASE wants # i
    BY <1>0, <1>4, <2>1 DEF EnterIn, EffectsInv, Lists, Situation, Settled, Adding,
                            Removing, Attaching, Detaching, Held, Wanted
  <2>2. CASE wants = i
    <3>1. fx[i] = NoCall /\ ~(\E e : fx[i] = <<"add", e>> \/ fx[i] = <<"remove", e>>)
      BY <1>4, <2>2 DEF EnterIn, Granted, Free, NoCall
    <3>2. Settled(i)
      BY <1>0, <1>4, <2>2, <3>1 DEF EnterIn, Situation, Adding, Removing, Attaching,
                                    Detaching
    <3>3. CASE wpc = "attach"
      BY <1>4, <2>2, <3>2, <3>3 DEF EnterIn, EffectsInv, Lists, Situation, Settled,
                                    Attaching, Held, Wanted
    <3>4. CASE wpc = "detach"
      BY <1>4, <2>2, <3>2, <3>4 DEF EnterIn, RemovedAtDetach, EffectsInv, Lists,
                                    Situation, Settled, Detaching, Held, Wanted
    <3> QED BY <1>4, <3>3, <3>4 DEF EnterIn
  <2> QED BY <2>1, <2>2
<1>5. CASE AttachIn
  BY <1>0, <1>5 DEF AttachIn, EffectsInv, Lists, Situation, Settled, Adding, Removing,
                    Attaching, Detaching, Held, Wanted
<1>6. CASE DetachIn
  BY <1>0, <1>6 DEF DetachIn, EffectsInv, Lists, Situation, Settled, Adding, Removing,
                    Attaching, Detaching, Held, Wanted
<1>7. ASSUME NEW e \in Effects, AttachEffect(e)
      PROVE  Situation(i)'
  <2> DEFINE list == Added(<<sw[wants], Now>>, e, embeds[wants])[1]
  <2>1. DOMAIN list = DOMAIN sw[wants] \cup ({e} \ embeds[wants])
    BY AddedDomain
  <2>2. sw' = [sw EXCEPT ![wants] = list]
    BY <1>7 DEF AttachEffect, EffectStep
  <2> HIDE DEF list
  <2> QED BY <1>0, <1>7, <2>1, <2>2
          DEF AttachEffect, EffectStep, EffectsInv, Lists, Situation, Settled, Adding,
              Removing, Attaching, Detaching, Held, Wanted
<1>8. ASSUME NEW e \in Effects, DetachEffect(e)
      PROVE  Situation(i)'
  <2> DEFINE list == Removed(<<sw[wants], Now>>, e, embeds[wants])[1]
  <2>1. DOMAIN list = DOMAIN sw[wants] \ ({e} \ embeds[wants])
    BY RemovedDomain
  <2>2. sw' = [sw EXCEPT ![wants] = list]
    BY <1>8 DEF DetachEffect, EffectStep
  <2> HIDE DEF list
  <2> QED BY <1>0, <1>8, <2>1, <2>2
          DEF DetachEffect, EffectStep, EffectsInv, Lists, Situation, Settled, Adding,
              Removing, Attaching, Detaching, Held, Wanted
<1> QED BY <1>1, <1>2, <1>3, <1>4, <1>5, <1>6, <1>7, <1>8 DEF Work

\* A call for an effect changes the list of its input, at once or when it has
\* reached the manager; while it waits the worker does not get the input.
LEMMA EffectsCalls ==
    ASSUME EffectsInv, NEW i \in Ins, NEW j \in Ins,
           CompleteEffect(j) \/ \E e \in Effects : AddEffect(j, e) \/ RemoveEffect(j, e)
    PROVE  Situation(i)'
<1> USE DEF workerVars, ioVars, effectVars, refVars
<1>0. Situation(i) /\ Situation(j) /\ Lists
  BY DEF EffectsInv
<1>1. CASE i # j
  <2>1. UNCHANGED <<fx[i], sw[i], requested[i], embeds, routed, wpc, wants, todo>>
    BY <1>0, <1>1 DEF CompleteEffect, AddEffect, RemoveEffect, Lists
  <2> QED BY <1>0, <2>1 DEF Situation, Settled, Adding, Removing, Attaching, Detaching,
                            Held, Wanted
<1>2. ASSUME i = j, NEW e \in Effects, AddEffect(i, e)
      PROVE  Situation(i)'
  <2>1. Settled(i)
    BY <1>0, <1>2 DEF AddEffect, Free, NoCall, Situation, Adding, Removing, Attaching,
                      Detaching, Held
  <2>2. CASE i \in routed /\ AddNeedsManager(i, e)
    BY <1>0, <1>2, <2>1, <2>2 DEF AddEffect, AddNeedsManager, Lists, Situation, Settled,
                                  Adding, Held, Wanted
  <2>3. CASE i \notin routed
    BY <1>0, <1>2, <2>1, <2>3 DEF AddEffect, Lists, Situation, Settled, Held, Wanted
  <2>4. CASE i \in routed /\ ~AddNeedsManager(i, e)
    <3> DEFINE list == Added(<<sw[i], Now>>, e, embeds[i])[1]
    <3>1. DOMAIN list = DOMAIN sw[i] \cup ({e} \ embeds[i])
      BY AddedDomain
    <3>2. sw' = [sw EXCEPT ![i] = list]
      BY <1>2, <2>4 DEF AddEffect
    <3> HIDE DEF list
    <3> QED BY <1>0, <1>2, <2>1, <2>4, <3>1, <3>2 DEF AddEffect, Lists, Situation, Settled,
                                                Held, Wanted
  <2> QED BY <2>2, <2>3, <2>4
<1>3. ASSUME i = j, NEW e \in Effects, RemoveEffect(i, e)
      PROVE  Situation(i)'
  <2>1. Settled(i)
    BY <1>0, <1>3 DEF RemoveEffect, Free, NoCall, Situation, Adding, Removing, Attaching,
                      Detaching, Held
  <2>2. CASE i \in routed /\ RemoveNeedsManager(i, e)
    BY <1>0, <1>3, <2>1, <2>2 DEF RemoveEffect, RemoveNeedsManager, ReferenceOf, Lists,
                                  Situation, Settled, Removing, Held, Wanted
  <2>3. CASE i \notin routed
    BY <1>0, <1>3, <2>1, <2>3 DEF RemoveEffect, Lists, Situation, Settled, Held, Wanted
  <2>4. CASE i \in routed /\ ~RemoveNeedsManager(i, e)
    <3> DEFINE list == Removed(<<sw[i], Now>>, e, embeds[i])[1]
    <3>1. DOMAIN list = DOMAIN sw[i] \ ({e} \ embeds[i])
      BY RemovedDomain
    <3>2. sw' = [sw EXCEPT ![i] = list]
      BY <1>3, <2>4 DEF RemoveEffect
    <3> HIDE DEF list
    <3> QED BY <1>0, <1>3, <2>1, <2>4, <3>1, <3>2 DEF RemoveEffect, Lists, Situation, Settled,
                                                Held, Wanted
  <2> QED BY <2>2, <2>3, <2>4
<1>4. ASSUME i = j, CompleteEffect(i)
      PROVE  Situation(i)'
  <2> DEFINE e == fx[i][2]
             added == Added(<<sw[i], Now>>, e, embeds[i])[1]
             removed == Removed(<<sw[i], Now>>, e, embeds[i])[1]
  <2>1. /\ DOMAIN added = DOMAIN sw[i] \cup ({e} \ embeds[i])
        /\ DOMAIN removed = DOMAIN sw[i] \ ({e} \ embeds[i])
    BY AddedDomain, RemovedDomain
  <2>2. sw' = [sw EXCEPT ![i] = IF fx[i][1] = "add" THEN added ELSE removed]
    BY <1>4 DEF CompleteEffect
  <2>3. Adding(i) \/ Removing(i)
    BY <1>0, <1>4 DEF CompleteEffect, Situation, Settled, Attaching, Detaching
  <2>4. UNCHANGED <<requested, embeds, routed, wpc, wants>> /\ fx'[i] = NoCall
    BY <1>0, <1>4 DEF CompleteEffect, Lists
  <2> HIDE DEF added, removed
  <2>5. CASE Adding(i)
    <3>1. fx[i][1] = "add" /\ e \in Wanted(i) /\ DOMAIN sw[i] \cup {e} = Wanted(i)
      BY <2>5 DEF Adding
    <3>2. DOMAIN sw'[i] = Wanted(i)
      BY <1>0, <2>1, <2>2, <3>1 DEF Lists, Wanted
    <3> QED BY <2>4, <2>5, <3>2 DEF Situation, Settled, Adding, Held, Wanted
  <2>6. CASE Removing(i)
    <3>1. /\ fx[i][1] = "remove" /\ e \notin requested[i] \cup embeds[i]
          /\ DOMAIN sw[i] = Wanted(i) \cup {e}
      BY <2>6 DEF Removing
    <3>2. DOMAIN sw'[i] = Wanted(i)
      BY <1>0, <2>1, <2>2, <3>1 DEF Lists, Wanted
    <3> QED BY <2>4, <2>6, <3>2 DEF Situation, Settled, Removing, Held, Wanted
  <2> QED BY <2>3, <2>5, <2>6
<1> QED BY <1>1, <1>2, <1>3, <1>4

\* No other step touches the effects.
LEMMA EffectsNext ==
    ASSUME EffectsInv, [Next]_vars
    PROVE  EffectsInv'
<1> USE DEF workerVars, ioVars, effectVars, refVars
<1> SUFFICES ASSUME NEW i \in Ins
             PROVE  Situation(i)'
  BY ListsNext DEF EffectsInv
<1>0. Situation(i)
  BY DEF EffectsInv
<1>1. CASE Work
  BY <1>1, EffectsWork
<1>2. ASSUME NEW j \in Ins,
             CompleteEffect(j) \/ \E e \in Effects : AddEffect(j, e) \/ RemoveEffect(j, e)
      PROVE  Situation(i)'
  BY <1>2, EffectsCalls
<1>3. ASSUME UNCHANGED <<fx, sw, requested, embeds, routed, todo>>, Held(i)' <=> Held(i),
             UNCHANGED wpc \/ ~Held(i)
      PROVE  Situation(i)'
  BY <1>0, <1>3 DEF Situation, Settled, Adding, Removing, Attaching, Detaching, Wanted
<1>4. CASE BeginPass \/ EndPass
  BY <1>3, <1>4 DEF BeginPass, EndPass, Held
<1>5. ASSUME NEW s \in Streams, WantAttach(s) \/ WantDetach(s)
      PROVE  Situation(i)'
  BY <1>3, <1>5 DEF WantAttach, WantDetach, Held
<1>6. ASSUME NEW s \in Streams, BeginIo(s) \/ IoDone(s) \/ IoFails(s)
      PROVE  Situation(i)'
  BY <1>3, <1>6 DEF BeginIo, IoDone, IoFails, Held
<1>7. CASE UNCHANGED vars
  BY <1>3, <1>7 DEF vars, Held
<1> QED
  BY <1>1, <1>2, <1>4, <1>5, <1>6, <1>7 DEF Next

\* An input runs the effects that are asked for, less those its route embeds,
\* and none without a route: for any number of inputs and effects, whatever
\* calls come while streams are attached and detached.
THEOREM EffectsAreThoseRequested == Spec => []EffectsFollowRequests
<1>1. EffectsInv => EffectsFollowRequests
  <2> SUFFICES ASSUME EffectsInv, NEW i \in Ins, fx[i] = NoCall, ~Held(i)
               PROVE  Settled(i)
    BY DEF EffectsFollowRequests, Settled, Held, Wanted
  <2>1. ~(\E e : fx[i] = <<"add", e>> \/ fx[i] = <<"remove", e>>)
    BY DEF NoCall
  <2> QED BY <2>1 DEF EffectsInv, Situation, Adding, Removing, Attaching, Detaching
<1> QED BY EffectsInit, EffectsNext, <1>1, PTL DEF Spec

-----------------------------------------------------------------------------
(* Echo references.                                                        *)

IsRecord(x) == x = [out |-> x.out, ref |-> x.ref, live |-> x.live, created |-> x.created]

\* The last output that is given a reference, if one is.
LEMMA LastOut ==
    /\ LastRouted \in 0..Len(Outs) /\ \A n \in RoutedOuts : n <= LastRouted
    /\ RoutedOuts # {} => LastRouted \in RoutedOuts
    /\ RoutedOuts = {} => LastRouted = 0
<1>1. Len(Outs) \in Nat /\ DOMAIN Outs = 1..Len(Outs)
  BY ThreadsAssumption
<1>2. {0} \cup RoutedOuts \in SUBSET (0..Len(Outs)) /\ 0 \notin RoutedOuts
  BY <1>1 DEF RoutedOuts
<1>3. LastRouted \in {0} \cup RoutedOuts /\ \A y \in {0} \cup RoutedOuts : LastRouted >= y
  BY <1>1, <1>2, LargestOf DEF LastRouted
<1>4. \A n \in RoutedOuts : n \in 1..Len(Outs)
  BY <1>1 DEF RoutedOuts
<1> QED BY <1>1, <1>2, <1>3, <1>4

(* With one output.                                                        *)

OneOutput == Len(Outs) <= 1

\* There is at most one reference, and the manager knows it.
Single(x) ==
    /\ IsRecord(x) /\ x.live \subseteq {x.ref} /\ None \notin x.live
    /\ x.created \in Nat

\* Once it is reset there is none.
LEMMA ResetSingle ==
    ASSUME NEW x, Single(x), NEW r
    PROVE  /\ Single(ReferenceReset(x, r))
           /\ ReferenceReset(x, x.ref).live = {}
           /\ ReferenceReset(x, x.ref).created = x.created
<1>1. CASE r = None \/ x.ref # r
  BY <1>1 DEF ReferenceReset, Single, IsRecord
<1>2. CASE ~(r = None \/ x.ref # r)
  BY <1>2 DEF ReferenceReset, Single, IsRecord
<1> QED BY <1>1, <1>2

\* An output at most is given a new one.
LEMMA ForSingle ==
    ASSUME OneOutput, NEW x, Single(x)
    PROVE  Single(ReferenceFor(x))
<1> DEFINE y == ReferenceReset(x, x.ref)
<1>1. y.live = {} /\ y.created \in Nat
  BY ResetSingle DEF Single
<1>2. ReferenceFor(x).live = y.live \cup {y.created + n : n \in RoutedOuts}
  BY DEF ReferenceFor
<1>3. ReferenceFor(x).ref = IF RoutedOuts = {} THEN y.ref ELSE y.created + LastRouted
  BY DEF ReferenceFor
<1>4. ReferenceFor(x).created = y.created + LastRouted /\ IsRecord(ReferenceFor(x))
  BY DEF ReferenceFor, IsRecord
<1>5. LastRouted \in {0, 1} /\ RoutedOuts \subseteq {LastRouted}
  <2>1. Len(Outs) \in Nat /\ \A n \in RoutedOuts : n \in 1..Len(Outs)
    BY ThreadsAssumption DEF RoutedOuts
  <2>2. LastRouted \in 0..Len(Outs) /\ \A n \in RoutedOuts : n <= LastRouted
    BY LastOut
  <2> QED BY <2>1, <2>2 DEF OneOutput
<1> HIDE DEF y
<1>6. ReferenceFor(x).live \subseteq {ReferenceFor(x).ref}
  BY <1>1, <1>2, <1>3, <1>5
<1>7. None \notin ReferenceFor(x).live
  BY <1>1, <1>2, <1>5, ThreadsAssumption
<1> QED BY <1>1, <1>4, <1>5, <1>6, <1>7 DEF Single

LEMMA EffectSingle ==
    ASSUME OneOutput, NEW x, Single(x), NEW list, NEW e, NEW embedded
    PROVE  /\ Single(Added(<<list, x>>, e, embedded)[2])
           /\ Single(Removed(<<list, x>>, e, embedded)[2])
<1>1. Single(ReferenceFor(x)) /\ \A r : Single(ReferenceReset(x, r))
  BY ForSingle, ResetSingle
<1>2. Added(<<list, x>>, e, embedded)[2] \in {x, ReferenceFor(x)}
  BY DEF Added
<1>3. \E r : Removed(<<list, x>>, e, embedded)[2] \in {x, ReferenceReset(x, r)}
  BY DEF Removed
<1> QED BY <1>1, <1>2, <1>3

\* With one output there is one reference, the one the manager knows, and none
\* leaks: whatever number of inputs and effects take turns in using it.
THEOREM ReferenceIsOne == OneOutput => (Spec => []OneReference)
<1> SUFFICES ASSUME OneOutput PROVE Spec => []OneReference
  OBVIOUS
<1>1. Init => Single(Now)
  BY DEF Init, Single, IsRecord, Now
<1>2. ASSUME Single(Now), [Next]_vars
      PROVE  Single(Now)'
  <2> USE DEF workerVars, ioVars, effectVars, refVars
  <2>1. ASSUME NEW x, Single(x), Become(x)
        PROVE  Single(Now)'
    BY <2>1 DEF Become, Single, IsRecord, Now
  <2>2. ASSUME UNCHANGED <<ref, live, created>>
        PROVE  Single(Now)'
    BY <1>2, <2>2 DEF Single, IsRecord, Now
  <2>3. CASE Work
    <3>1. ASSUME NEW e \in Effects, AttachEffect(e) \/ DetachEffect(e)
          PROVE  Single(Now)'
      BY <1>2, <2>1, <3>1, EffectSingle DEF AttachEffect, DetachEffect, EffectStep
    <3>2. CASE AttachOut \/ DetachOut \/ CloseDevice \/ EnterIn \/ AttachIn \/ DetachIn
      BY <2>2, <3>2 DEF AttachOut, DetachOut, CloseDevice, EnterIn, AttachIn, DetachIn
    <3> QED BY <2>3, <3>1, <3>2 DEF Work
  <2>4. ASSUME NEW i \in Ins, CompleteEffect(i)
        PROVE  Single(Now)'
    BY <1>2, <2>1, <2>4, EffectSingle DEF CompleteEffect
  <2>5. CASE ~Work /\ ~\E i \in Ins : CompleteEffect(i)
    BY <1>2, <2>2, <2>5
       DEF Next, vars, BeginPass, EndPass, WantAttach, WantDetach, BeginIo, IoDone,
           IoFails, AddEffect, RemoveEffect
  <2> QED BY <2>3, <2>4, <2>5
<1>3. Single(Now) => OneReference
  BY DEF Single, Now, OneReference
<1> QED BY <1>1, <1>2, <1>3, PTL DEF Spec

(* With one input that may cancel echo, by one effect.                     *)

\* A second one would have the reference of the first released under it, and
\* so would an effect that is added a second time (streams_repeat).
OneCanceller ==
    /\ \A i, j \in Ins : i = j
    /\ \A e, f \in Aec : e = f
    /\ ~Repeats

\* The references of a list, and those that the outputs feed, exist.
ListLive(list, refs) ==
    \A e \in DOMAIN list : list[e] \in IF e \in Aec THEN refs \cup {None} ELSE {None}
OutsLive(x) ==
    /\ IsRecord(x) /\ x.out = [o \in OutSet |-> x.out[o]]
    /\ \A o \in OutSet : x.out[o] \in x.live \cup {None}

\* A reference that is released is fed no more,
LEMMA ResetLive ==
    ASSUME NEW x, OutsLive(x), NEW r
    PROVE  /\ OutsLive(ReferenceReset(x, r))
           /\ ReferenceReset(x, None) = x
           /\ x.live \ {r} \subseteq ReferenceReset(x, r).live
           /\ ReferenceReset(x, x.ref).ref = None
<1>1. ReferenceReset(x, None) = x /\ ReferenceReset(x, x.ref).ref = None
  BY DEF ReferenceReset, OutsLive, IsRecord
<1>2. CASE r = None \/ x.ref # r
  BY <1>1, <1>2 DEF ReferenceReset
<1>3. CASE ~(r = None \/ x.ref # r)
  <2> DEFINE y == ReferenceReset(x, r)
  <2>1. /\ y.live = x.live \ {r}
        /\ y.out = [o \in OutSet |-> IF x.out[o] = r THEN None ELSE x.out[o]]
        /\ IsRecord(y)
    BY <1>3 DEF ReferenceReset, OutsLive, IsRecord
  <2> HIDE DEF y
  <2>2. OutsLive(y)
    BY <2>1 DEF OutsLive
  <2> QED BY <1>1, <2>1, <2>2 DEF y
<1> QED BY <1>2, <1>3

\* and every reference that is given exists.
LEMMA ForLive ==
    ASSUME NEW x, OutsLive(x)
    PROVE  LET y == ReferenceFor(x)
           IN  OutsLive(y) /\ y.ref \in y.live \cup {None}
<1> DEFINE z == ReferenceReset(x, x.ref)
           Position(o) == CHOOSE n \in DOMAIN Outs : Outs[n] = o
           new == {z.created + n : n \in RoutedOuts}
<1>1. OutsLive(z) /\ z.ref = None
  BY ResetLive
<1>2. /\ ReferenceFor(x).out =
             [o \in OutSet |-> IF o \in routed THEN z.created + Position(o) ELSE z.out[o]]
      /\ ReferenceFor(x).ref = IF RoutedOuts = {} THEN z.ref ELSE z.created + LastRouted
      /\ ReferenceFor(x).live = z.live \cup new
      /\ IsRecord(ReferenceFor(x))
  BY DEF ReferenceFor, IsRecord
<1>3. \A o \in OutSet : o \in routed => Position(o) \in RoutedOuts
  BY DEF OutSet, RoutedOuts
<1> HIDE DEF z, Position
<1>4. \A o \in OutSet : o \in routed => z.created + Position(o) \in new
  BY <1>3
<1>5. RoutedOuts # {} => z.created + LastRouted \in new
  BY LastOut
<1> HIDE DEF new
<1>6. OutsLive(ReferenceFor(x))
  BY <1>1, <1>2, <1>4 DEF OutsLive
<1> QED BY <1>1, <1>2, <1>5, <1>6

\* An effect that is added takes no reference from another,
LEMMA AddedLive ==
    ASSUME OneCanceller, NEW x, OutsLive(x), NEW list, ListLive(list, x.live),
           NEW e, e \notin DOMAIN list, NEW embedded
    PROVE  LET after == Added(<<list, x>>, e, embedded)
           IN  ListLive(after[1], after[2].live) /\ OutsLive(after[2])
<1> DEFINE after == Added(<<list, x>>, e, embedded)
           y == ReferenceFor(x)
<1>1. CASE e \in embedded
  BY <1>1 DEF Added
<1>2. CASE e \notin embedded /\ e \in Aec
  <2>1. after[1] = WithEffect(list, e, y.ref) /\ after[2] = y
    BY <1>2 DEF Added
  <2>2. OutsLive(y) /\ y.ref \in y.live \cup {None}
    BY ForLive
  <2>3. \A f \in DOMAIN list : f \notin Aec
    BY <1>2 DEF OneCanceller
  <2> HIDE DEF y
  <2>4. ListLive(WithEffect(list, e, y.ref), y.live)
    BY <1>2, <2>2, <2>3 DEF WithEffect, ListLive
  <2> QED BY <2>1, <2>2, <2>4
<1>3. CASE e \notin embedded /\ e \notin Aec
  <2>1. after[1] = WithEffect(list, e, None) /\ after[2] = x
    BY <1>3 DEF Added
  <2>2. ListLive(WithEffect(list, e, None), x.live)
    BY <1>3 DEF WithEffect, ListLive
  <2> QED BY <2>1, <2>2
<1> QED BY <1>1, <1>2, <1>3

\* nor does one that is removed.
LEMMA RemovedLive ==
    ASSUME OneCanceller, NEW x, OutsLive(x), NEW list, ListLive(list, x.live),
           NEW e, NEW embedded
    PROVE  LET after == Removed(<<list, x>>, e, embedded)
           IN  ListLive(after[1], after[2].live) /\ OutsLive(after[2])
<1> DEFINE after == Removed(<<list, x>>, e, embedded)
           r == ReferenceOf(list, e)
           y == ReferenceReset(x, r)
           rest == WithoutEffect(list, e)
<1>1. CASE e \in embedded
  BY <1>1 DEF Removed
<1>2. CASE e \notin embedded
  <2>1. after[1] = rest /\ after[2] = y
    BY <1>2 DEF Removed
  <2>2. /\ OutsLive(y) /\ x.live \ {r} \subseteq y.live /\ (r = None => y = x)
    BY ResetLive
  <2>3. DOMAIN rest = DOMAIN list \ {e} /\ \A f \in DOMAIN rest : rest[f] = list[f]
    BY DEF WithoutEffect, Restrict
  <2>4. r # None => e \in Aec
    BY DEF ReferenceOf, ListLive
  <2> HIDE DEF r, y, rest
  <2>5. r # None => \A f \in DOMAIN rest : rest[f] = None
    BY <2>3, <2>4 DEF ListLive, OneCanceller
  <2>6. ListLive(rest, y.live)
    BY <2>2, <2>3, <2>5 DEF ListLive
  <2> QED BY <2>1, <2>2, <2>6
<1> QED BY <1>1, <1>2

\* An effect that waits to be added is not in the list yet.
LiveInv ==
    /\ OutsLive(Now)
    /\ \A i \in Ins : ListLive(sw[i], live)
    /\ \A i \in Ins, e \in Effects : fx[i] = <<"add", e>> => e \notin DOMAIN sw[i]
    /\ wpc \in {"attaching", "detaching"} => wants \in Ins

LEMMA LiveInit == Init => LiveInv
BY DEF Init, LiveInv, OutsLive, IsRecord, Now, ListLive, NoCall, NoEffects

LEMMA LiveNext ==
    ASSUME OneCanceller, EffectsInv, LiveInv, [Next]_vars
    PROVE  LiveInv'
<1> USE DEF workerVars, ioVars, effectVars, refVars
<1>0. Lists /\ (\A i \in Ins : Situation(i)) /\ OutsLive(Now) /\ live = Now.live
  BY DEF EffectsInv, LiveInv, Now
<1>1. ASSUME NEW i \in Ins, NEW after, ListLive(after[1], after[2].live),
             OutsLive(after[2]), sw' = [sw EXCEPT ![i] = after[1]], Become(after[2]),
             fx' = fx \/ fx' = [fx EXCEPT ![i] = NoCall],
             UNCHANGED <<wpc, wants>>,
             fx' = fx => fx[i] = NoCall
      PROVE  LiveInv'
  <2>1. OutsLive(Now)'
    BY <1>1 DEF Become, OutsLive, IsRecord, Now
  <2>2. sw'[i] = after[1] /\ live' = after[2].live
    BY <1>0, <1>1 DEF Become, Lists
  <2>3. \A j \in Ins : ListLive(sw[j], live)'
    BY <1>1, <2>2 DEF OneCanceller
  <2>4. fx'[i] = NoCall
    BY <1>0, <1>1 DEF Lists
  <2>5. \A j \in Ins, e \in Effects : fx'[j] # <<"add", e>>
    BY <2>4 DEF OneCanceller, NoCall
  <2> QED BY <1>1, <2>1, <2>3, <2>5 DEF LiveInv
<1>2. ASSUME UNCHANGED <<outRef, ref, live, created, sw, fx>>,
             (wpc \in {"attaching", "detaching"} => wants \in Ins)'
      PROVE  LiveInv'
  BY <1>2 DEF LiveInv, OutsLive, IsRecord, Now
<1>3. ASSUME NEW e \in Effects, AttachEffect(e)
      PROVE  LiveInv'
  <2>1. wants \in Ins /\ ListLive(sw[wants], live) /\ Attaching(wants)
    BY <1>0, <1>3 DEF AttachEffect, LiveInv, Situation, Settled, Adding, Removing,
                      Detaching, Held
  <2>2. e \notin DOMAIN sw[wants]
    BY <1>3, <2>1 DEF AttachEffect, Attaching
  <2> QED BY <1>0, <1>1, <1>3, <2>1, <2>2, AddedLive
          DEF AttachEffect, EffectStep, Attaching
<1>4. ASSUME NEW e \in Effects, DetachEffect(e)
      PROVE  LiveInv'
  <2>1. wants \in Ins /\ ListLive(sw[wants], live) /\ Detaching(wants)
    BY <1>0, <1>4 DEF DetachEffect, LiveInv, Situation, Settled, Adding, Removing,
                      Attaching, Held
  <2> QED BY <1>0, <1>1, <1>4, <2>1, RemovedLive
          DEF DetachEffect, EffectStep, Detaching
<1>5. CASE AttachOut \/ CloseDevice \/ EnterIn \/ AttachIn \/ DetachIn
  BY <1>2, <1>5 DEF AttachOut, CloseDevice, EnterIn, AttachIn, DetachIn, LiveInv
<1>6. CASE DetachOut
  <2>1. OutsLive(Now)'
    BY <1>0, <1>6 DEF DetachOut, OutsLive, IsRecord, Now
  <2> QED BY <1>6, <2>1 DEF DetachOut, LiveInv
<1>7. ASSUME NEW i \in Ins, CompleteEffect(i)
      PROVE  LiveInv'
  <2>1. ListLive(sw[i], live) /\ (Adding(i) \/ Removing(i))
    BY <1>0, <1>7 DEF CompleteEffect, LiveInv, Situation, Settled, Attaching, Detaching
  <2>2. CASE Adding(i)
    <3> DEFINE after == Added(<<sw[i], Now>>, fx[i][2], embeds[i])
    <3>1. fx[i][1] = "add" /\ fx[i][2] \notin DOMAIN sw[i]
      BY <2>2 DEF Adding, LiveInv
    <3>2. ListLive(after[1], after[2].live) /\ OutsLive(after[2])
      BY <1>0, <2>1, <3>1, AddedLive
    <3>3. sw' = [sw EXCEPT ![i] = after[1]] /\ Become(after[2])
      BY <1>7, <3>1 DEF CompleteEffect
    <3>4. fx' = [fx EXCEPT ![i] = NoCall] /\ fx'[i] = NoCall /\ UNCHANGED <<wpc, wants>>
      BY <1>0, <1>7 DEF CompleteEffect, Lists
    <3> HIDE DEF after
    <3> QED BY <1>1, <3>2, <3>3, <3>4
  <2>3. CASE Removing(i)
    <3> DEFINE after == Removed(<<sw[i], Now>>, fx[i][2], embeds[i])
    <3>1. fx[i][1] = "remove"
      BY <2>3 DEF Removing
    <3>2. ListLive(after[1], after[2].live) /\ OutsLive(after[2])
      BY <1>0, <2>1, RemovedLive
    <3>3. sw' = [sw EXCEPT ![i] = after[1]] /\ Become(after[2])
      BY <1>7, <3>1 DEF CompleteEffect
    <3>4. fx' = [fx EXCEPT ![i] = NoCall] /\ fx'[i] = NoCall /\ UNCHANGED <<wpc, wants>>
      BY <1>0, <1>7 DEF CompleteEffect, Lists
    <3> HIDE DEF after
    <3> QED BY <1>1, <3>2, <3>3, <3>4
  <2> QED BY <2>1, <2>2, <2>3
<1>8. ASSUME NEW i \in Ins, NEW e \in Effects, AddEffect(i, e)
      PROVE  LiveInv'
  <2>1. Settled(i) /\ e \notin requested[i] /\ e \notin DOMAIN sw[i]
    BY <1>0, <1>8 DEF AddEffect, Free, NoCall, Situation, Adding, Removing, Attaching,
                      Detaching, Held, OneCanceller, Settled, Wanted
  <2>2. CASE i \in routed /\ AddNeedsManager(i, e)
    <3>1. \A j \in Ins : j = i
      BY DEF OneCanceller
    <3>2. fx'[i] = <<"add", e>> /\ UNCHANGED sw
      BY <1>0, <1>8, <2>2 DEF AddEffect, Lists
    <3> QED BY <1>8, <2>1, <3>1, <3>2 DEF AddEffect, LiveInv, OutsLive, IsRecord, Now
  <2>3. CASE i \notin routed
    BY <1>2, <1>8, <2>3 DEF AddEffect, LiveInv
  <2>4. CASE i \in routed /\ ~AddNeedsManager(i, e)
    <3> DEFINE after == Added(<<sw[i], Now>>, e, embeds[i])
    <3>1. ListLive(after[1], after[2].live) /\ OutsLive(after[2])
      BY <1>0, <2>1, AddedLive DEF LiveInv
    <3>2. after[2] = Now
      BY <2>4 DEF AddNeedsManager, Added
    <3>3. sw' = [sw EXCEPT ![i] = after[1]]
      BY <1>8, <2>4 DEF AddEffect
    <3> HIDE DEF after
    <3>4. Become(after[2])
      BY <1>8, <3>2 DEF AddEffect, Become, Now
    <3> QED BY <1>1, <1>8, <2>1, <2>4, <3>1, <3>3, <3>4 DEF AddEffect, Settled
  <2> QED BY <2>2, <2>3, <2>4
<1>9. ASSUME NEW i \in Ins, NEW e \in Effects, RemoveEffect(i, e)
      PROVE  LiveInv'
  <2>1. Settled(i)
    BY <1>0, <1>9 DEF RemoveEffect, Free, NoCall, Situation, Adding, Removing, Attaching,
                      Detaching, Held, Settled
  <2>2. CASE i \in routed /\ RemoveNeedsManager(i, e)
    <3>1. \A j \in Ins : j = i
      BY DEF OneCanceller
    <3>2. fx'[i] = <<"remove", e>> /\ UNCHANGED sw
      BY <1>0, <1>9, <2>2 DEF RemoveEffect, Lists
    <3> QED BY <1>9, <3>1, <3>2 DEF RemoveEffect, LiveInv, OutsLive, IsRecord, Now
  <2>3. CASE i \notin routed
    BY <1>2, <1>9, <2>3 DEF RemoveEffect, LiveInv
  <2>4. CASE i \in routed /\ ~RemoveNeedsManager(i, e)
    <3> DEFINE after == Removed(<<sw[i], Now>>, e, embeds[i])
    <3>1. ListLive(after[1], after[2].live) /\ OutsLive(after[2])
      BY <1>0, <2>1, RemovedLive DEF LiveInv
    <3>2. after[2] = Now
      BY <1>0, <2>4, ResetLive DEF RemoveNeedsManager, Removed
    <3>3. sw' = [sw EXCEPT ![i] = after[1]]
      BY <1>9, <2>4 DEF RemoveEffect
    <3> HIDE DEF after
    <3>4. Become(after[2])
      BY <1>9, <3>2 DEF RemoveEffect, Become, Now
    <3> QED BY <1>1, <1>9, <2>1, <2>4, <3>1, <3>3, <3>4 DEF RemoveEffect, Settled
  <2> QED BY <2>2, <2>3, <2>4
<1>10. CASE BeginPass \/ EndPass \/ UNCHANGED vars
  BY <1>2, <1>10 DEF BeginPass, EndPass, vars, LiveInv
<1>11. ASSUME NEW s \in Streams, WantAttach(s) \/ WantDetach(s)
       PROVE  LiveInv'
  BY <1>2, <1>11 DEF WantAttach, WantDetach
<1>12. ASSUME NEW s \in Streams, BeginIo(s) \/ IoDone(s) \/ IoFails(s)
       PROVE  LiveInv'
  BY <1>2, <1>12 DEF BeginIo, IoDone, IoFails, LiveInv
<1> QED
  BY <1>3, <1>4, <1>5, <1>6, <1>7, <1>8, <1>9, <1>10, <1>11, <1>12 DEF Next, Work

\* No thread reads or writes a reference that was released, for any number of
\* outputs that come and go, as long as one input cancels echo.
THEOREM ReferencesAreLive == OneCanceller => (Spec => []ReferencesLive)
<1> SUFFICES ASSUME OneCanceller PROVE Spec => []ReferencesLive
  OBVIOUS
<1>1. EffectsInv /\ LiveInv /\ [Next]_vars => EffectsInv' /\ LiveInv'
  BY EffectsNext, LiveNext
<1>2. LiveInv => ReferencesLive
  BY DEF LiveInv, OutsLive, ListLive, Now, ReferencesLive
<1> QED BY EffectsInit, LiveInit, <1>1, <1>2, PTL DEF Spec
-----------------------------------------------------------------------------
(* What the worker can wait for.                                           *)

\* A thread gives up after MaxRetries failures in a row, and only then.
RetriesBounded ==
    /\ \A s \in io : tries[s] \in 0..MaxRetries
    /\ dead <=> \E s \in io : tries[s] = MaxRetries

RetriesInv == io \subseteq Streams /\ tries \in [Streams -> 0..MaxRetries] /\ RetriesBounded

LEMMA RetriesNext ==
    ASSUME RetriesInv, [Next]_vars
    PROVE  RetriesInv'
<1> USE DEF workerVars, ioVars, effectVars, refVars, RetriesInv, RetriesBounded
<1>0. MaxRetries \in Nat \ {0}
  BY ThreadsAssumption
<1>1. CASE UNCHANGED <<io, tries, dead>>
  BY <1>1
<1>2. CASE BeginPass \/ EndPass \/ Work
  <2>1. ASSUME Work
        PROVE  UNCHANGED <<io, tries, dead>>
    BY <2>1 DEF Work, AttachOut, DetachOut, CloseDevice, EnterIn, AttachIn, DetachIn,
                AttachEffect, DetachEffect, EffectStep
  <2> QED BY <1>1, <1>2, <2>1 DEF BeginPass, EndPass
<1>3. ASSUME NEW s \in Streams, WantAttach(s) \/ WantDetach(s)
      PROVE  RetriesInv'
  BY <1>1, <1>3 DEF WantAttach, WantDetach
<1>4. ASSUME NEW s \in Streams, BeginIo(s)
      PROVE  RetriesInv'
  <2>1. ~dead /\ io' = io \cup {s} /\ tries' = [tries EXCEPT ![s] = 0] /\ dead' = dead
    BY <1>4 DEF BeginIo, Alive
  <2>2. tries' \in [Streams -> 0..MaxRetries]
    BY <1>0, <2>1
  <2>3. \A t \in io' : tries'[t] # MaxRetries
    BY <1>0, <2>1
  <2> QED BY <1>4, <2>1, <2>2, <2>3
<1>5. ASSUME NEW s \in Streams, IoDone(s)
      PROVE  RetriesInv'
  BY <1>5 DEF IoDone, Alive
<1>6. ASSUME NEW s \in Streams, IoFails(s)
      PROVE  RetriesInv'
  <2>1. /\ ~dead /\ s \in io /\ io' = io
        /\ tries' = [tries EXCEPT ![s] = tries[s] + 1]
        /\ dead' = (tries'[s] >= MaxRetries)
    BY <1>6 DEF IoFails, Alive, Retried, GivesUp
  <2>2. tries[s] \in 0..MaxRetries /\ tries[s] # MaxRetries /\ tries'[s] = tries[s] + 1
    BY <2>1
  <2>3. tries' \in [Streams -> 0..MaxRetries]
    BY <1>0, <2>1, <2>2
  <2>4. dead' <=> tries'[s] = MaxRetries
    <3>1. tries'[s] >= MaxRetries <=> tries'[s] = MaxRetries
      BY <1>0, <2>2
    <3>2. dead' <=> tries'[s] >= MaxRetries
      BY <2>1, Zenon
    <3> QED BY <3>1, <3>2, Zenon
  <2>5. \A t \in io \ {s} : tries'[t] # MaxRetries
    BY <2>1
  <2> QED BY <2>1, <2>3, <2>4, <2>5
<1>7. ASSUME NEW i \in Ins,
             CompleteEffect(i) \/ \E e \in Effects : AddEffect(i, e) \/ RemoveEffect(i, e)
      PROVE  RetriesInv'
  BY <1>1, <1>7 DEF CompleteEffect, AddEffect, RemoveEffect
<1>8. CASE UNCHANGED vars
  BY <1>1, <1>8 DEF vars
<1> QED BY <1>2, <1>3, <1>4, <1>5, <1>6, <1>7, <1>8 DEF Next

\* Failing hardware holds the lock of a stream for MAX_READ_WRITE_RETRIES
\* attempts of one read or write and no more, and the process ends exactly when
\* a read or write has used them all up.
THEOREM RetriesEnd == Spec => []RetriesBounded
<1>1. Init => RetriesInv
  BY ThreadsAssumption DEF Init, RetriesInv, RetriesBounded
<1>2. RetriesInv => RetriesBounded
  BY DEF RetriesInv
<1> QED BY RetriesNext, <1>1, <1>2, PTL DEF Spec

\* The worker waits for the lock of a stream, or with that of an input for the
\* outputs.
Blocked ==
    \/ wpc \in {"attach", "detach"} /\ ~Granted(wants)
    \/ wpc \in {"attaching", "detaching"} /\ ~OutsFree
OnlyIoBlocks ==
    Blocked => CircularWait \/ \E s \in io : s = wants \/ s \in OutSet

WorkerInv ==
    /\ wpc # "idle" => manager = "worker"
    /\ wpc \in {"attaching", "detaching"} => wants \in Ins

LEMMA WorkerNext ==
    ASSUME WorkerInv, [Next]_vars
    PROVE  WorkerInv'
<1> USE DEF workerVars, ioVars, effectVars, refVars, WorkerInv
<1>1. CASE UNCHANGED <<manager, wpc, wants>>
  BY <1>1
<1>2. CASE BeginPass \/ EndPass
  BY <1>2 DEF BeginPass, EndPass
<1>3. CASE Work
  <2>1. CASE AttachOut \/ DetachOut \/ CloseDevice
    BY <2>1 DEF AttachOut, DetachOut, CloseDevice
  <2>2. CASE EnterIn \/ AttachIn \/ DetachIn
    BY <2>2 DEF EnterIn, AttachIn, DetachIn
  <2>3. ASSUME NEW e \in Effects, AttachEffect(e) \/ DetachEffect(e)
        PROVE  WorkerInv'
    BY <2>3 DEF AttachEffect, DetachEffect, EffectStep
  <2> QED BY <1>3, <2>1, <2>2, <2>3 DEF Work
<1>4. ASSUME NEW s \in Streams, WantAttach(s) \/ WantDetach(s)
      PROVE  WorkerInv'
  BY <1>4 DEF WantAttach, WantDetach
<1>5. ASSUME NEW s \in Streams, BeginIo(s) \/ IoDone(s) \/ IoFails(s)
      PROVE  WorkerInv'
  BY <1>5 DEF BeginIo, IoDone, IoFails
<1>6. ASSUME NEW i \in Ins,
             CompleteEffect(i) \/ \E e \in Effects : AddEffect(i, e) \/ RemoveEffect(i, e)
      PROVE  WorkerInv'
  BY <1>6 DEF CompleteEffect, AddEffect, RemoveEffect
<1>7. CASE UNCHANGED vars
  BY <1>1, <1>7 DEF vars
<1> QED BY <1>2, <1>3, <1>4, <1>5, <1>6, <1>7 DEF Next

\* A pass waits for a read or write that runs, on the stream it attaches or
\* detaches or on an output it takes an echo reference from, or in the circular
\* wait with an effect call: for nothing else.
THEOREM PassWaitsForIo == Spec => []OnlyIoBlocks
<1>1. Init => WorkerInv
  BY DEF Init, WorkerInv
<1>2. WorkerInv => OnlyIoBlocks
  <2> SUFFICES ASSUME WorkerInv, Blocked
               PROVE  CircularWait \/ \E s \in io : s = wants \/ s \in OutSet
    BY DEF OnlyIoBlocks
  <2>1. CASE wpc \in {"attach", "detach"} /\ ~Granted(wants)
    <3>1. wants \in io \/ (wants \in Ins /\ fx[wants] # NoCall)
      BY <2>1 DEF Granted, Free
    <3>2. manager = "worker"
      BY <2>1 DEF WorkerInv
    <3> QED BY <2>1, <3>1, <3>2 DEF CircularWait
  <2>2. CASE wpc \in {"attaching", "detaching"} /\ ~OutsFree
    <3>1. PICK o \in OutSet : ~Free(o)
      BY <2>2 DEF OutsFree
    <3>2. o \notin Ins /\ wants \in Ins
      BY <2>2, ThreadsAssumption DEF WorkerInv
    <3>3. o \in io
      BY <3>1, <3>2 DEF Free
    <3> QED BY <3>3
  <2> QED BY <2>1, <2>2 DEF Blocked
<1> QED BY WorkerNext, <1>1, <1>2, PTL DEF Spec
=============================================================================
