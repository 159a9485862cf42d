-------------------------- MODULE InputPolicyProofs --------------------------
(***************************************************************************)
(* Theorems about InputPolicy, for every set of sources and microphones    *)
(* and any number of inputs.                                               *)
(***************************************************************************)
EXTENDS InputPolicy, FiniteSetTheorems, WellFoundedInduction, TLAPS

-----------------------------------------------------------------------------
(* The least and the greatest of a set of numbers.                         *)

Less == {p \in Nat \X Nat : p[1] < p[2]}

\* The order of the numbers is well-founded, stated without the operator that
\* the library's theorem passes on.
LEMMA LessWellFounded == IsWellFoundedOn(Less, Nat)
<1>1. OpToRel(<, Nat) = Less
  BY Zenon DEF OpToRel, Less
<1> QED BY <1>1, NatLessThanWellFounded, Zenon

\* A set of numbers that is not empty has a least one,
LEMMA LeastOf ==
    ASSUME NEW S \in SUBSET Nat, S # {}
    PROVE  \E x \in S : \A y \in S : x <= y
<1>1. \E x \in S : \A y \in S : ~(<<y, x>> \in Less)
  BY LessWellFounded, WFMin
<1>2. PICK x \in S : \A y \in S : ~(<<y, x>> \in Less)
  BY <1>1
<1>3. \A y \in S : x <= y
  <2> SUFFICES ASSUME NEW y \in S PROVE x <= y
    OBVIOUS
  <2>1. x \in Nat /\ y \in Nat /\ ~(<<y, x>> \in Less)
    BY <1>2
  <2>2. <<y, x>> \in Nat \X Nat /\ <<y, x>>[1] = y /\ <<y, x>>[2] = x
    BY <2>1
  <2>3. ~(y < x)
    BY <2>1, <2>2 DEF Less
  <2> QED BY <2>1, <2>3
<1> QED BY <1>3

\* so that its minimum is one of them,
LEMMA SmallestOf ==
    ASSUME NEW S \in SUBSET Nat, S # {}
    PROVE  Min(S) \in S
BY LeastOf DEF Min

\* and so is its maximum, if they are bounded.
LEMMA LargestOf ==
    ASSUME NEW n \in Nat, NEW S \in SUBSET (0..n), S # {}
    PROVE  Max(S) \in S /\ \A y \in S : Max(S) >= y
<1> DEFINE T == {n - x : x \in S}
<1>1. \A x \in S : x \in Nat /\ n - x \in Nat
  OBVIOUS
<1>2. T \subseteq Nat /\ T # {}
  BY <1>1
<1>3. PICK m \in T : \A y \in T : m <= y
  BY <1>2, LeastOf
<1>4. PICK x \in S : m = n - x
  BY <1>3
<1>5. \A y \in S : x >= y
  <2> SUFFICES ASSUME NEW y \in S PROVE x >= y
    OBVIOUS
  <2>1. n - y \in T
    OBVIOUS
  <2>2. n - x <= n - y
    BY <1>3, <1>4, <2>1
  <2> QED BY <1>1, <2>2
<1> QED BY <1>5 DEF Max

-----------------------------------------------------------------------------
(* The devices.                                                            *)

Devices == MediaMics \cup {VoiceCall}

\* What is known of an open input: the voice call is the device of the sources
\* that record it, and of no other.
Input == {i \in [source : Sources, device : Devices, active : BOOLEAN,
                 started : BOOLEAN] : i.device = VoiceCall <=> i.source = Vcr}

\* Open inputs have a handle, and a device that can record.
InputsOK(m) == DOMAIN m \subseteq Nat /\ m \in [DOMAIN m -> Input]
OK(x) == x = [inputs |-> x.inputs, told |-> x.told] /\ InputsOK(x.inputs)

\* Whatever the phone's state is, a source is given a device that can record.
LEMMA DeviceIsOne ==
    ASSUME NEW source, NEW comm, NEW loud, NEW mic \in Plugs
    PROVE  /\ DeviceIf(source, comm, loud, mic) \in Devices
           /\ DeviceIf(source, comm, loud, mic) = VoiceCall <=> source = Vcr
BY PolicyAssumption DEF DeviceIf, BaseDevice, Devices, MediaMics, VoiceCall, Vcr

\* Stopping an input keeps the inputs well-formed.
LEMMA StoppedOK ==
    ASSUME NEW x, OK(x), NEW h
    PROVE  OK(Stopped(x, h)) /\ DOMAIN Stopped(x, h).inputs = DOMAIN x.inputs
<1> DEFINE m == [x.inputs EXCEPT ![h].active = FALSE]
<1>1. InputsOK(m) /\ DOMAIN m = DOMAIN x.inputs
  BY DEF OK, InputsOK, Input
<1> QED BY <1>1 DEF Stopped, OK

\* So does closing one,
LEMMA ClosedOK ==
    ASSUME NEW x, OK(x), NEW h
    PROVE  OK(Closed(x, h))
BY DEF OK, InputsOK, Closed

\* and giving the source back to another,
LEMMA GivenBackOK ==
    ASSUME NEW x, OK(x)
    PROVE  OK(GivenBack(x))
<1> DEFINE h == Max(Restartable(x))
           m == [x.inputs EXCEPT ![h].active = TRUE]
           t == [x.told EXCEPT ![h] = Order(x.inputs[h].device, x.inputs[h].source)]
<1>1. GivenBack(x) = x \/ GivenBack(x) = [inputs |-> m, told |-> t]
  BY DEF GivenBack
<1> HIDE DEF h, t
<1>2. InputsOK(m)
  BY DEF OK, InputsOK, Input
<1> HIDE DEF m
<1>3. CASE GivenBack(x) = x
  BY <1>3
<1>4. CASE GivenBack(x) = [inputs |-> m, told |-> t]
  BY <1>2, <1>4 DEF OK
<1> QED BY <1>1, <1>3, <1>4

\* and so does making way for an input that is to be started,
LEMMA MadeWayOK ==
    ASSUME NEW x, OK(x), NEW a, NEW h
    PROVE  OK(MadeWay(x, a, h))
<1>1. OK(Stopped(x, a)) /\ OK(Released(Stopped(x, a), a))
  BY StoppedOK, ClosedOK, GivenBackOK DEF Released
<1>2. MadeWay(x, a, h) \in {x, Stopped(x, a), Released(Stopped(x, a), a)}
  BY DEF MadeWay
<1> QED BY <1>1, <1>2

\* and starting it on the device selected for its source.
LEMMA StartedOK ==
    ASSUME NEW x, OK(x), NEW h, plug \in Plugs
    PROVE  OK(Started(x, h))
<1> DEFINE device == DeviceFor(x.inputs[h].source)
           input == [x.inputs[h] EXCEPT !.device = device, !.active = TRUE,
                                        !.started = TRUE]
           m == [x.inputs EXCEPT ![h] = input]
           t == [x.told EXCEPT ![h] = Order(device, Alias(x.inputs[h].source))]
<1>1. device \in Devices /\ (device = VoiceCall <=> x.inputs[h].source = Vcr)
  BY DeviceIsOne DEF DeviceFor
<1>2. Started(x, h) = [inputs |-> m, told |-> t]
  BY DEF Started
<1> HIDE DEF device, t
<1>3. h \in DOMAIN x.inputs => input \in Input
  BY <1>1 DEF OK, InputsOK, Input
<1> HIDE DEF input
<1>4. InputsOK(m)
  BY <1>3 DEF OK, InputsOK
<1> QED BY <1>2, <1>4 DEF OK

-----------------------------------------------------------------------------
(* A VoIP call is granted.                                                 *)

Well == InputsOK(inputs) /\ opened \in Nat /\ plug \in Plugs

\* Every call keeps the inputs well-formed.
LEMMA WellNext ==
    ASSUME Well, [Next]_vars
    PROVE  Well'
<1> USE DEF clientVars, phoneVars
<1>a. OK(Now) /\ Now.inputs = inputs
  BY DEF Well, Now, OK
<1>1. ASSUME NEW source \in Sources, GetInput(source)
      PROVE  Well'
  <2>1. DeviceFor(source) \in Devices /\ (DeviceFor(source) = VoiceCall <=> source = Vcr)
    BY DeviceIsOne DEF Well, DeviceFor
  <2>2. [source |-> source, device |-> DeviceFor(source), active |-> FALSE,
         started |-> FALSE] \in Input
    BY <2>1 DEF Input
  <2>3. inputs' \in [DOMAIN inputs \cup {opened + 1} -> Input]
    BY <1>1, <2>2 DEF GetInput, Well, InputsOK
  <2>4. opened + 1 \in Nat /\ DOMAIN inputs' \subseteq Nat
    BY <2>3 DEF Well, InputsOK
  <2> QED BY <1>1, <2>3, <2>4 DEF GetInput, Well, InputsOK
<1>2. ASSUME NEW x, OK(x), Become(x), UNCHANGED <<opened, plug>>
      PROVE  Well'
  BY <1>2 DEF Become, OK, Well
<1>3. ASSUME NEW h \in Handles, StartInput(h)
      PROVE  Well'
  <2>1. CASE UNCHANGED inputs
    BY <1>3, <2>1 DEF StartInput, Well
  <2>2. CASE ~UNCHANGED inputs
    <3> DEFINE x == IF Active(Now) = {} THEN Now ELSE MadeWay(Now, ActiveInput(Now), h)
    <3>1. OK(x)
      BY <1>a, MadeWayOK
    <3>2. Become(Started(x, h)) /\ UNCHANGED <<opened, plug>>
      BY <1>3, <2>2 DEF StartInput
    <3>3. OK(Started(x, h))
      BY <3>1, StartedOK DEF Well
    <3> QED BY <1>2, <3>2, <3>3
  <2> QED BY <2>1, <2>2
<1>4. ASSUME NEW h \in Handles, StopInput(h)
      PROVE  Well'
  <2>1. CASE h \in DOMAIN inputs
    BY <1>a, <1>2, <1>4, <2>1, StoppedOK DEF StopInput
  <2>2. CASE h \notin DOMAIN inputs
    BY <1>4, <2>2 DEF StopInput, Well
  <2> QED BY <2>1, <2>2
<1>5. ASSUME NEW h \in Handles, ReleaseInput(h)
      PROVE  Well'
  <2>1. OK(Released(Now, h))
    BY <1>a, ClosedOK, GivenBackOK DEF Released
  <2> QED BY <1>2, <1>5, <2>1 DEF ReleaseInput
<1>6. CASE SetPhoneState
  BY <1>6 DEF SetPhoneState, Well
<1>7. ASSUME NEW loud, NEW mic \in Plugs, Reroute(loud, mic)
      PROVE  InputsOK(inputs')
  <2> DEFINE h == ActiveInput(Now)
             device == DeviceIf(inputs[h].source, inComm, loud, mic)
  <2>1. device \in Devices /\ (device = VoiceCall <=> inputs[h].source = Vcr)
    BY DeviceIsOne
  <2>2. inputs' = inputs \/ inputs' = [inputs EXCEPT ![h].device = device]
    BY <1>7 DEF Reroute
  <2> HIDE DEF h, device
  <2> QED BY <2>1, <2>2 DEF Well, InputsOK, Input
<1>8. CASE SetForceUse
  BY <1>7, <1>8 DEF SetForceUse, Well
<1>9. ASSUME NEW mic \in Plugs, SetDeviceConnectionState(mic)
      PROVE  Well'
  BY <1>7, <1>9 DEF SetDeviceConnectionState, Well
<1>10. CASE UNCHANGED vars
  BY <1>10 DEF vars, Well
<1> QED
  BY <1>1, <1>3, <1>4, <1>5, <1>6, <1>8, <1>9, <1>10 DEF Next

\* Of well-formed inputs, the one that records yields to a VoIP call: it is a
\* VoIP call itself, or records from a microphone, or records a voice call.
LEMMA WellGrants ==
    ASSUME Well
    PROVE  VoipGranted
<1> SUFFICES ASSUME NEW h \in Open(Voip), Active(Now) # {}
             PROVE  Yields(inputs[ActiveInput(Now)], inputs[h])
  BY DEF VoipGranted, Granted
<1> DEFINE a == ActiveInput(Now)
<1>1. Active(Now) \in SUBSET Nat /\ Active(Now) \subseteq DOMAIN inputs
  BY DEF Active, Now, Well, InputsOK
<1>2. a \in DOMAIN inputs
  BY <1>1, SmallestOf DEF ActiveInput
<1>3. inputs[a].device \in Devices /\ inputs[h].source = Voip
  BY <1>2 DEF Well, InputsOK, Input, Open
<1> HIDE DEF a
<1>4. Yields(inputs[a], inputs[h])
  BY <1>3 DEF Yields, Preempts, Beside, SameSource, Devices
<1> QED BY <1>4 DEF a

\* A VoIP call is never refused the microphone: for any number of clients that
\* open, start, stop and release inputs in any order, and whatever devices the
\* active input was moved to or restarted with.
THEOREM VoipIsGranted == Spec => []VoipGranted
<1>1. Init => Well
  BY PolicyAssumption DEF Init, Well, InputsOK, Input
<1> QED BY <1>1, WellNext, WellGrants, PTL DEF Spec

-----------------------------------------------------------------------------
(* What a call carries over of the inputs it does not release.             *)

Carries(m, n) ==
    /\ DOMAIN n \subseteq DOMAIN m
    /\ \A g \in DOMAIN n :
         n[g].source = m[g].source /\ (m[g].started => n[g].started)

LEMMA CarriesOn ==
    ASSUME NEW k, NEW m, NEW n, Carries(k, m), Carries(m, n)
    PROVE  Carries(k, n)
BY DEF Carries

\* Stopping an input silences it and no other,
LEMMA StoppedKeeps ==
    ASSUME NEW x, OK(x), NEW h
    PROVE  /\ Carries(x.inputs, Stopped(x, h).inputs)
           /\ Active(Stopped(x, h)) = Active(x) \ {h}
<1>1. CASE h \notin Active(x)
  BY <1>1 DEF Stopped, Carries
<1>2. CASE h \in Active(x)
  <2> DEFINE m == [x.inputs EXCEPT ![h].active = FALSE]
  <2>1. Stopped(x, h).inputs = m
    BY <1>2 DEF Stopped
  <2>2. DOMAIN m = DOMAIN x.inputs
    OBVIOUS
  <2>3. \A g \in DOMAIN m : g # h => m[g] = x.inputs[g]
    OBVIOUS
  <2>4. h \in DOMAIN m /\ ~m[h].active /\ m[h].source = x.inputs[h].source
        /\ m[h].started = x.inputs[h].started
    BY <1>2 DEF Active, OK, InputsOK, Input
  <2> HIDE DEF m
  <2>5. Carries(x.inputs, m)
    BY <2>2, <2>3, <2>4 DEF Carries
  <2>6. Active(Stopped(x, h)) = Active(x) \ {h}
    BY <2>1, <2>2, <2>3, <2>4 DEF Active
  <2> QED BY <2>1, <2>5, <2>6
<1> QED BY <1>1, <1>2

\* and so does closing it.
LEMMA ClosedKeeps ==
    ASSUME NEW x, NEW h
    PROVE  /\ Carries(x.inputs, Closed(x, h).inputs)
           /\ Active(Closed(x, h)) = Active(x) \ {h}
BY DEF Closed, Carries, Active

\* The source is given back when nobody records, and then one input has it.
LEMMA GivenBackKeeps ==
    ASSUME NEW x, OK(x)
    PROVE  /\ Carries(x.inputs, GivenBack(x).inputs)
           /\ DOMAIN GivenBack(x).inputs = DOMAIN x.inputs
           /\ Active(x) # {} => GivenBack(x) = x
           /\ \A g, h \in Active(GivenBack(x)) : Active(x) = {} => g = h
<1>1. CASE GivenBack(x) = x
  BY <1>1 DEF Carries
<1>2. CASE GivenBack(x) # x
  <2> DEFINE h == Max(Restartable(x))
             m == [x.inputs EXCEPT ![h].active = TRUE]
  <2>1. GivenBack(x).inputs = m /\ Active(x) = {}
    BY <1>2 DEF GivenBack
  <2>2. DOMAIN m = DOMAIN x.inputs
    OBVIOUS
  <2>3. \A g \in DOMAIN m : g # h => m[g] = x.inputs[g]
    OBVIOUS
  <2>4. h \in DOMAIN m => m[h].source = x.inputs[h].source
                          /\ m[h].started = x.inputs[h].started
    BY DEF OK, InputsOK, Input
  <2> HIDE DEF h, m
  <2>5. Carries(x.inputs, m)
    BY <2>2, <2>3, <2>4 DEF Carries
  <2>6. Active(GivenBack(x)) \subseteq {h}
    BY <2>1, <2>2, <2>3 DEF Active
  <2> QED BY <2>1, <2>2, <2>5, <2>6, <1>2
<1> QED BY <1>1, <1>2

\* An input that is released is silenced; the others are as they were as long
\* as one of them records.
LEMMA ReleasedKeeps ==
    ASSUME NEW x, OK(x), NEW h
    PROVE  /\ OK(Released(x, h))
           /\ Carries(x.inputs, Released(x, h).inputs)
           /\ DOMAIN Released(x, h).inputs = DOMAIN x.inputs \ {h}
           /\ Active(x) \ {h} # {} => Active(Released(x, h)) = Active(x) \ {h}
           /\ \A f, g \in Active(Released(x, h)) : Active(x) \ {h} = {} => f = g
<1> DEFINE y == Closed(x, h)
<1>1. OK(y) /\ Carries(x.inputs, y.inputs) /\ Active(y) = Active(x) \ {h}
  BY ClosedOK, ClosedKeeps
<1>2. DOMAIN y.inputs = DOMAIN x.inputs \ {h}
  BY DEF Closed
<1>3. Released(x, h) = GivenBack(y)
  BY DEF Released
<1> HIDE DEF y
<1> QED BY <1>1, <1>2, <1>3, GivenBackOK, GivenBackKeeps, CarriesOn

\* The input that is started records beside those that did.
LEMMA StartedKeeps ==
    ASSUME NEW x, OK(x), NEW h \in DOMAIN x.inputs
    PROVE  /\ Carries(x.inputs, Started(x, h).inputs)
           /\ DOMAIN Started(x, h).inputs = DOMAIN x.inputs
           /\ Active(Started(x, h)) = Active(x) \cup {h}
           /\ Started(x, h).inputs[h].started
<1> DEFINE m == [x.inputs EXCEPT ![h] =
                   [@ EXCEPT !.device = DeviceFor(x.inputs[h].source),
                             !.active = TRUE, !.started = TRUE]]
<1>1. Started(x, h).inputs = m
  BY DEF Started
<1>2. DOMAIN m = DOMAIN x.inputs /\ \A g \in DOMAIN m : g # h => m[g] = x.inputs[g]
  OBVIOUS
<1>3. m[h].active /\ m[h].started /\ m[h].source = x.inputs[h].source
  BY DEF OK, InputsOK, Input
<1> HIDE DEF m
<1>4. Carries(x.inputs, m)
  BY <1>2, <1>3 DEF Carries
<1>5. Active(Started(x, h)) = Active(x) \cup {h}
  BY <1>1, <1>2, <1>3 DEF Active
<1> QED BY <1>1, <1>2, <1>3, <1>4, <1>5

-----------------------------------------------------------------------------
(* What the policy knows of its inputs.                                    *)

\* A handle that a client has, or expects to record with, was given to it.
Numbered ==
    /\ DOMAIN inputs \subseteq 1..opened
    /\ clients \subseteq 1..opened /\ wanted \subseteq 1..opened

\* An open input has a source that inputs were opened with.
Noted == \A h \in DOMAIN inputs : inputs[h].source \in seen

\* An input whose client expects to record was started, so that the source can
\* be given back to it.
Expected == \A h \in wanted \cap DOMAIN inputs : inputs[h].started

Known == Well /\ Numbered /\ Noted /\ Expected

\* The inputs as the calls see them.
LEMMA NowOK ==
    ASSUME Well
    PROVE  OK(Now) /\ Now.inputs = inputs /\ Active(Now) \subseteq DOMAIN inputs
BY DEF Well, Now, OK, Active

\* Of the inputs that record there is a first one.
LEMMA SomeoneRecords ==
    ASSUME Well, Active(Now) # {}
    PROVE  ActiveInput(Now) \in Active(Now)
<1>1. Active(Now) \in SUBSET Nat
  BY DEF Active, Now, Well, InputsOK
<1> QED BY <1>1, SmallestOf DEF ActiveInput

\* The input that yields is silenced, unless it goes on beside the new one; if
\* it is released, so that another input might be given the source back, it
\* was a hotword's.
LEMMA MadeWayKeeps ==
    ASSUME NEW x, OK(x), NEW a \in Active(x), NEW h \in DOMAIN x.inputs
    PROVE  LET y == MadeWay(x, a, h)
               old == x.inputs[a]
               new == x.inputs[h]
           IN  /\ OK(y) /\ Carries(x.inputs, y.inputs) /\ h \in DOMAIN y.inputs
               /\ \/ Preempts(old, new) /\ Active(y) = Active(x) \ {a}
                  \/ Beside(old, new) /\ Active(y) = Active(x)
                  \/ SameSource(old, new) /\ Active(y) = Active(x) \ {a}
                  \/ ~SameSource(old, new) /\ ~Preempts(old, new) /\ ~Beside(old, new)
                     /\ (Active(x) \ {a} # {} => Active(y) = Active(x) \ {a})
<1> DEFINE y == MadeWay(x, a, h)
           old == x.inputs[a]
           new == x.inputs[h]
           s == Stopped(x, a)
<1>1. OK(y)
  BY MadeWayOK
<1>2. OK(s) /\ DOMAIN s.inputs = DOMAIN x.inputs /\ Carries(x.inputs, s.inputs)
      /\ Active(s) = Active(x) \ {a}
  BY StoppedOK, StoppedKeeps
<1>3. CASE Preempts(old, new)
  <2>1. y = s
    BY <1>3 DEF MadeWay
  <2> HIDE DEF s
  <2> QED BY <1>1, <1>2, <1>3, <2>1
<1>4. CASE ~Preempts(old, new) /\ Beside(old, new)
  <2>1. y = x
    BY <1>4 DEF MadeWay
  <2> HIDE DEF s
  <2> QED BY <1>1, <1>4, <2>1 DEF Carries
<1>5. CASE ~Preempts(old, new) /\ ~Beside(old, new) /\ SameSource(old, new)
  <2>1. y = s
    BY <1>5 DEF MadeWay
  <2> HIDE DEF s
  <2> QED BY <1>1, <1>2, <1>5, <2>1
<1>6. CASE ~Preempts(old, new) /\ ~Beside(old, new) /\ ~SameSource(old, new)
  <2>1. y = Released(s, a)
    BY <1>6 DEF MadeWay
  <2>2. Carries(s.inputs, y.inputs) /\ DOMAIN y.inputs = DOMAIN s.inputs \ {a}
        /\ (Active(s) \ {a} # {} => Active(y) = Active(s) \ {a})
    BY <1>2, <2>1, ReleasedKeeps
  <2>3. h # a
    BY <1>6 DEF SameSource
  <2> HIDE DEF s
  <2>4. Carries(x.inputs, y.inputs) /\ h \in DOMAIN y.inputs
    BY <1>2, <2>2, <2>3, CarriesOn
  <2>5. Active(x) \ {a} # {} => Active(y) = Active(x) \ {a}
    BY <1>2, <2>2
  <2> QED BY <1>1, <1>6, <2>4, <2>5
<1> QED BY <1>3, <1>4, <1>5, <1>6

\* What a granted start makes of the inputs.
LEMMA GrantedKeeps ==
    ASSUME Well, NEW h \in Handles, StartInput(h), h \in DOMAIN inputs, Granted(h)
    PROVE  /\ Carries(inputs, inputs') /\ h \in DOMAIN inputs' /\ inputs'[h].started
           /\ \/ Active(Now) = {} /\ Active(Now)' = {h}
              \/ \E a \in Active(Now) :
                   LET old == inputs[a]
                       new == inputs[h]
                   IN  \/ /\ Preempts(old, new) \/ SameSource(old, new)
                          /\ Active(Now)' = (Active(Now) \ {a}) \cup {h}
                       \/ Beside(old, new) /\ Active(Now)' = Active(Now) \cup {h}
                       \/ /\ old.source = Hotword /\ new.source # Hotword
                          /\ Active(Now) \ {a} # {} =>
                               Active(Now)' = (Active(Now) \ {a}) \cup {h}
<1> DEFINE a == ActiveInput(Now)
           y == IF Active(Now) = {} THEN Now ELSE MadeWay(Now, a, h)
<1>0. OK(Now) /\ Now.inputs = inputs /\ Active(Now) \subseteq DOMAIN inputs
  BY NowOK
<1>1. Become(Started(y, h))
  BY DEF StartInput
<1>2. inputs' = Started(y, h).inputs /\ Active(Now)' = Active(Started(y, h))
  BY <1>1 DEF Become, Active, Now
<1>3. CASE Active(Now) = {}
  <2>1. y = Now
    BY <1>3
  <2> HIDE DEF y
  <2> QED BY <1>0, <1>2, <1>3, <2>1, StartedKeeps
<1>4. CASE Active(Now) # {}
  <2>1. a \in Active(Now) /\ y = MadeWay(Now, a, h)
    BY <1>4, SomeoneRecords
  <2>2. Yields(inputs[a], inputs[h])
    BY <1>4 DEF Granted
  <2> HIDE DEF a, y
  <2>3. /\ OK(y) /\ Carries(inputs, y.inputs) /\ h \in DOMAIN y.inputs
        /\ \/ Preempts(inputs[a], inputs[h]) /\ Active(y) = Active(Now) \ {a}
           \/ Beside(inputs[a], inputs[h]) /\ Active(y) = Active(Now)
           \/ SameSource(inputs[a], inputs[h]) /\ Active(y) = Active(Now) \ {a}
           \/ /\ ~SameSource(inputs[a], inputs[h]) /\ ~Preempts(inputs[a], inputs[h])
              /\ ~Beside(inputs[a], inputs[h])
              /\ Active(Now) \ {a} # {} => Active(y) = Active(Now) \ {a}
    BY <1>0, <2>1, MadeWayKeeps
  <2>4. /\ Carries(y.inputs, inputs') /\ h \in DOMAIN inputs' /\ inputs'[h].started
        /\ Active(Now)' = Active(y) \cup {h}
    BY <1>2, <2>3, StartedKeeps
  <2>5. Carries(inputs, inputs')
    BY <2>3, <2>4, CarriesOn
  <2>6. ~SameSource(inputs[a], inputs[h]) /\ ~Preempts(inputs[a], inputs[h])
        /\ ~Beside(inputs[a], inputs[h])
        => inputs[a].source = Hotword /\ Hotword # inputs[h].source
    BY <2>2 DEF Yields, SameSource
  <2>7. \/ /\ Preempts(inputs[a], inputs[h]) \/ SameSource(inputs[a], inputs[h])
           /\ Active(Now)' = (Active(Now) \ {a}) \cup {h}
        \/ /\ Beside(inputs[a], inputs[h])
           /\ Active(Now)' = Active(Now) \cup {h}
        \/ /\ inputs[a].source = Hotword /\ inputs[h].source # Hotword
           /\ Active(Now) \ {a} # {} => Active(Now)' = (Active(Now) \ {a}) \cup {h}
    BY <2>3, <2>4, <2>6
  <2> QED BY <2>1, <2>4, <2>5, <2>7
<1> QED BY <1>3, <1>4

\* A stop silences one input, a release too and may give the source back.
LEMMA StopInputKeeps ==
    ASSUME Well, NEW h, StopInput(h)
    PROVE  Carries(inputs, inputs') /\ Active(Now)' = Active(Now) \ {h}
<1>0. OK(Now) /\ Now.inputs = inputs /\ Active(Now) \subseteq DOMAIN inputs
  BY NowOK
<1>1. CASE h \in DOMAIN inputs
  <2>1. inputs' = Stopped(Now, h).inputs /\ Active(Now)' = Active(Stopped(Now, h))
    BY <1>1 DEF StopInput, Become, Active, Now
  <2> QED BY <1>0, <2>1, StoppedKeeps
<1>2. CASE h \notin DOMAIN inputs
  <2>1. inputs' = inputs /\ Active(Now)' = Active(Now)
    BY <1>2 DEF StopInput, Active, Now
  <2> QED BY <1>0, <1>2, <2>1 DEF Carries
<1> QED BY <1>1, <1>2

LEMMA ReleaseInputKeeps ==
    ASSUME Well, NEW h, ReleaseInput(h)
    PROVE  /\ Carries(inputs, inputs')
           /\ Active(Now) \ {h} # {} => Active(Now)' = Active(Now) \ {h}
           /\ \A f, g \in Active(Now)' : Active(Now) \ {h} = {} => f = g
<1>0. OK(Now) /\ Now.inputs = inputs
  BY NowOK
<1>1. inputs' = Released(Now, h).inputs /\ Active(Now)' = Active(Released(Now, h))
  BY DEF ReleaseInput, Become, Active, Now
<1> QED BY <1>0, <1>1, ReleasedKeeps

\* A device that comes or goes moves the input that records, and that is all.
LEMMA RerouteKeeps ==
    ASSUME Well, NEW loud, NEW mic, Reroute(loud, mic)
    PROVE  Carries(inputs, inputs') /\ Active(Now)' = Active(Now)
<1> DEFINE h == ActiveInput(Now)
           device == DeviceIf(inputs[h].source, inComm, loud, mic)
           m == [inputs EXCEPT ![h].device = device]
<1>1. inputs' = inputs \/ inputs' = m
  BY DEF Reroute
<1>2. CASE inputs' = inputs
  BY <1>2 DEF Carries, Active, Now
<1>3. CASE inputs' = m
  <2>1. DOMAIN m = DOMAIN inputs
    OBVIOUS
  <2>2. \A g \in DOMAIN m : m[g].source = inputs[g].source
          /\ m[g].started = inputs[g].started /\ m[g].active = inputs[g].active
    BY DEF Well, InputsOK, Input
  <2> HIDE DEF m
  <2> QED BY <1>3, <2>1, <2>2 DEF Carries, Active, Now
<1> QED BY <1>1, <1>2, <1>3

\* The new input is silent, and its handle new.
LEMMA GetInputKeeps ==
    ASSUME Known, NEW source, GetInput(source)
    PROVE  /\ opened + 1 \notin DOMAIN inputs
           /\ DOMAIN inputs' = DOMAIN inputs \cup {opened + 1}
           /\ \A g \in DOMAIN inputs : inputs'[g] = inputs[g]
           /\ inputs'[opened + 1].source = source
           /\ Active(Now)' = Active(Now)
<1>1. opened + 1 \notin DOMAIN inputs
  BY DEF Known, Numbered, Well
<1>2. DOMAIN inputs' = DOMAIN inputs \cup {opened + 1}
      /\ \A g \in DOMAIN inputs : inputs'[g] = inputs[g]
  BY <1>1 DEF GetInput
<1>3. inputs'[opened + 1].source = source /\ ~inputs'[opened + 1].active
  BY DEF GetInput
<1>4. Active(Now)' = Active(Now)
  BY <1>2, <1>3 DEF Active, Now
<1> QED BY <1>1, <1>2, <1>3, <1>4

\* What the policy knows stays right.
LEMMA KnownNext ==
    ASSUME Known, [Next]_vars
    PROVE  Known'
<1> USE DEF clientVars, phoneVars
<1>0. Well /\ Well'
  BY WellNext DEF Known
<1>1. ASSUME Carries(inputs, inputs'), UNCHANGED <<opened, seen>>,
             clients' \subseteq clients, wanted' \subseteq wanted \cup clients,
             \A h \in wanted' \ wanted : h \in DOMAIN inputs' /\ inputs'[h].started
      PROVE  Known'
  <2>1. Numbered'
    BY <1>1 DEF Known, Numbered, Carries
  <2>2. Noted'
    BY <1>1 DEF Known, Noted, Carries
  <2>3. Expected'
    BY <1>1 DEF Known, Expected, Carries
  <2> QED BY <1>0, <2>1, <2>2, <2>3 DEF Known
<1>2. ASSUME NEW source \in Sources, GetInput(source)
      PROVE  Known'
  <2>0. opened + 1 \notin wanted
    BY <1>0 DEF Known, Numbered, Well
  <2>1. Numbered'
    <3>1. 1..opened' = 1..opened \cup {opened + 1}
      BY <1>0, <1>2 DEF GetInput, Well
    <3>2. DOMAIN inputs' = DOMAIN inputs \cup {opened + 1}
      BY <1>2, GetInputKeeps
    <3> QED BY <1>2, <3>1, <3>2 DEF GetInput, Known, Numbered
  <2>2. Noted'
    BY <1>2, GetInputKeeps DEF GetInput, Known, Noted
  <2>3. Expected'
    BY <1>2, <2>0, GetInputKeeps DEF GetInput, Known, Expected
  <2> QED BY <1>0, <2>1, <2>2, <2>3 DEF Known
<1>3. ASSUME NEW h \in Handles, StartInput(h)
      PROVE  Known'
  <2>1. CASE h \in DOMAIN inputs /\ Granted(h)
    BY <1>0, <1>1, <1>3, <2>1, GrantedKeeps DEF StartInput
  <2>2. CASE ~(h \in DOMAIN inputs /\ Granted(h))
    BY <1>1, <1>3, <2>2 DEF StartInput, Carries
  <2> QED BY <2>1, <2>2
<1>4. ASSUME NEW h \in Handles, StopInput(h)
      PROVE  Known'
  BY <1>0, <1>1, <1>4, StopInputKeeps DEF StopInput
<1>5. ASSUME NEW h \in Handles, ReleaseInput(h)
      PROVE  Known'
  BY <1>0, <1>1, <1>5, ReleaseInputKeeps DEF ReleaseInput
<1>6. CASE SetPhoneState
  BY <1>1, <1>6 DEF SetPhoneState, Carries
<1>7. CASE SetForceUse
  BY <1>0, <1>1, <1>7, RerouteKeeps DEF SetForceUse
<1>8. ASSUME NEW mic \in Plugs, SetDeviceConnectionState(mic)
      PROVE  Known'
  BY <1>0, <1>1, <1>8, RerouteKeeps DEF SetDeviceConnectionState
<1>9. CASE UNCHANGED vars
  BY <1>1, <1>9 DEF vars, Carries
<1> QED
  BY <1>2, <1>3, <1>4, <1>5, <1>6, <1>7, <1>8, <1>9 DEF Next

\* At first nothing is open.
LEMMA KnownInit ==
    ASSUME Init
    PROVE  Known
BY PolicyAssumption
   DEF Init, Known, Well, InputsOK, Input, Numbered, Noted, Expected

-----------------------------------------------------------------------------
(* One input records.                                                      *)

\* As long as no hotword was opened, of two inputs that record one is a VoIP
\* call's, and the other is a VoIP call's or records a voice call.
Shares(g, h) ==
    /\ Voip \in {inputs[g].source, inputs[h].source}
    /\ {inputs[g].source, inputs[h].source} \subseteq {Voip, Vcr}
Shared == Hotword \notin seen => \A g, h \in Active(Now) : g # h => Shares(g, h)

\* Every call keeps it so: an input that is neither would have been stopped, or
\* would not have been granted.
LEMMA SharedNext ==
    ASSUME Known, Shared, [Next]_vars
    PROVE  Shared'
<1> USE DEF clientVars, phoneVars
<1>0. Well /\ Well' /\ Active(Now) \subseteq DOMAIN inputs
  BY WellNext, NowOK DEF Known
<1>1. ASSUME Carries(inputs, inputs'), Active(Now)' \subseteq Active(Now),
             UNCHANGED seen
      PROVE  Shared'
  <2>1. \A g \in Active(Now)' : inputs'[g].source = inputs[g].source
    BY <1>1 DEF Carries, Active, Now
  <2> QED BY <1>1, <2>1 DEF Shared, Shares
<1>2. ASSUME NEW source \in Sources, GetInput(source)
      PROVE  Shared'
  BY <1>0, <1>2, GetInputKeeps DEF GetInput, Shared, Shares
<1>3. ASSUME NEW h \in Handles, StartInput(h)
      PROVE  Shared'
  <2>1. CASE ~(h \in DOMAIN inputs /\ Granted(h))
    BY <1>1, <1>3, <2>1 DEF StartInput, Carries, Active, Now
  <2>2. CASE h \in DOMAIN inputs /\ Granted(h)
    <3>1. UNCHANGED seen /\ Carries(inputs, inputs')
      BY <1>0, <1>3, <2>2, GrantedKeeps DEF StartInput
    <3>2. \A g \in Active(Now)' : inputs'[g].source = inputs[g].source
      BY <3>1 DEF Carries, Active, Now
    <3>3. CASE Active(Now)' = {h}
      BY <3>3 DEF Shared
    <3>4. ASSUME NEW a \in Active(Now), Hotword \notin seen,
                 Preempts(inputs[a], inputs[h]) \/ SameSource(inputs[a], inputs[h]),
                 Active(Now)' = (Active(Now) \ {a}) \cup {h}
          PROVE  \A f, g \in Active(Now)' : f # g => Shares(f, g)'
      <4>1. \A f, g \in Active(Now) : f # g => Shares(f, g)
        BY <3>4 DEF Shared
      <4>2. CASE Preempts(inputs[a], inputs[h])
        <5>1. inputs[a].source \notin {Voip, Vcr}
          BY <1>0, <4>2 DEF Preempts, Well, InputsOK, Input, MediaMics, VoiceCall
        <5>2. Active(Now) = {a}
          BY <4>1, <5>1 DEF Shares
        <5> QED BY <3>4, <5>2
      <4>3. CASE SameSource(inputs[a], inputs[h])
        <5>1. \A f \in Active(Now) \ {a} : Shares(f, a)
          BY <4>1
        <5>2. \A f \in Active(Now) \ {a} : Shares(f, h) /\ Shares(h, f)
          BY <4>3, <5>1 DEF Shares, SameSource
        <5> QED BY <3>2, <3>4, <4>1, <5>2 DEF Shares
      <4> QED BY <3>4, <4>2, <4>3
    <3>5. ASSUME NEW a \in Active(Now), Hotword \notin seen,
                 Beside(inputs[a], inputs[h]),
                 Active(Now)' = Active(Now) \cup {h}
          PROVE  \A f, g \in Active(Now)' : f # g => Shares(f, g)'
      <4>1. inputs[a].source = Vcr /\ inputs[h].source = Voip
        BY <1>0, <3>5 DEF Beside, Well, InputsOK, Input
      <4>2. \A f, g \in Active(Now) : f # g => Shares(f, g)
        BY <3>5 DEF Shared
      <4>3. \A f \in Active(Now) : inputs[f].source \in {Voip, Vcr}
        BY <4>1, <4>2 DEF Shares
      <4>4. \A f \in Active(Now) : Shares(f, h) /\ Shares(h, f)
        BY <4>1, <4>3 DEF Shares
      <4> QED BY <3>2, <3>5, <4>2, <4>4 DEF Shares
    <3>6. \A a \in Active(Now) : Hotword \notin seen => inputs[a].source # Hotword
      BY <1>0 DEF Known, Noted
    <3> QED
      BY <1>0, <1>3, <2>2, <3>1, <3>3, <3>4, <3>5, <3>6, GrantedKeeps DEF Shared
  <2> QED BY <2>1, <2>2
<1>4. ASSUME NEW h \in Handles, StopInput(h)
      PROVE  Shared'
  BY <1>0, <1>1, <1>4, StopInputKeeps DEF StopInput
<1>5. ASSUME NEW h \in Handles, ReleaseInput(h)
      PROVE  Shared'
  <2>1. Carries(inputs, inputs') /\ UNCHANGED seen
    BY <1>0, <1>5, ReleaseInputKeeps DEF ReleaseInput
  <2>2. CASE Active(Now) \ {h} # {}
    BY <1>0, <1>1, <1>5, <2>1, <2>2, ReleaseInputKeeps
  <2>3. CASE Active(Now) \ {h} = {}
    BY <1>0, <1>5, <2>3, ReleaseInputKeeps DEF Shared
  <2> QED BY <2>2, <2>3
<1>6. CASE SetPhoneState
  BY <1>1, <1>6 DEF SetPhoneState, Carries, Active, Now
<1>7. CASE SetForceUse
  BY <1>0, <1>1, <1>7, RerouteKeeps DEF SetForceUse
<1>8. ASSUME NEW mic \in Plugs, SetDeviceConnectionState(mic)
      PROVE  Shared'
  BY <1>0, <1>1, <1>8, RerouteKeeps DEF SetDeviceConnectionState
<1>9. CASE UNCHANGED vars
  BY <1>1, <1>9 DEF vars, Carries, Active, Now
<1> QED
  BY <1>2, <1>3, <1>4, <1>5, <1>6, <1>7, <1>8, <1>9 DEF Next

\* Of two VoIP inputs that are open there is one too many.
LEMMA OneOfThem ==
    ASSUME NEW S, IsFiniteSet(S), Cardinality(S) <= 1, NEW g \in S, NEW h \in S
    PROVE  g = h
<1> SUFFICES ASSUME g # h PROVE FALSE
  OBVIOUS
<1>1. IsFiniteSet({g}) /\ Cardinality({g}) = 1
  BY FS_Singleton
<1>2. IsFiniteSet({g} \cup {h}) /\ Cardinality({g} \cup {h}) = 2
  <2>1. h \notin {g}
    OBVIOUS
  <2>2. Cardinality({g} \cup {h}) = Cardinality({g}) + 1
    BY <1>1, <2>1, FS_AddElement, Zenon
  <2>3. IsFiniteSet({g} \cup {h})
    BY <1>1, FS_AddElement, Zenon
  <2> QED BY <1>1, <2>2, <2>3
<1>3. Cardinality({g} \cup {h}) <= Cardinality(S)
  BY FS_Subset
<1>4. Cardinality(S) \in Nat
  BY FS_CardinalityType
<1> QED BY <1>2, <1>3, <1>4

\* One input records, or a VoIP call beside the recording of a voice call: for
\* any number of inputs and clients, in any order of their calls, as long as no
\* hotword is preempted and no two VoIP inputs are open.
THEOREM OneInputRecords == Spec => []OneRecorder
<1>1. Init => Shared
  BY DEF Init, Shared, Active, Now
<1>2. Known /\ Shared => OneRecorder
  <2> SUFFICES ASSUME Known, Shared, Hotword \notin seen,
                      Cardinality(Open(Voip)) <= 1,
                      NEW g \in Active(Now), NEW h \in Active(Now), g # h
               PROVE  MayShare(g, h)
    BY DEF OneRecorder
  <2>1. g \in DOMAIN inputs /\ h \in DOMAIN inputs /\ Shares(g, h)
    BY NowOK DEF Known, Shared
  <2>2. IsFiniteSet(1..opened) /\ Open(Voip) \subseteq 1..opened
    BY FS_Interval DEF Known, Numbered, Well, Open
  <2>3. IsFiniteSet(Open(Voip))
    BY <2>2, FS_Subset
  <2>4. ~(inputs[g].source = Voip /\ inputs[h].source = Voip)
    BY <2>1, <2>3, OneOfThem DEF Open
  <2> QED BY <2>1, <2>4 DEF Shares, MayShare
<1> QED BY <1>1, <1>2, KnownInit, KnownNext, SharedNext, PTL DEF Spec

-----------------------------------------------------------------------------
(* What a call may not take from another client.                           *)

VoipStays ==
    \A h \in Active(Now) \cap Open(Voip) :
       \/ h \in DOMAIN inputs' /\ inputs'[h].active
       \/ h \notin wanted'
       \/ \E g \in Open(Voip) \ {h} : StartInput(g)

\* A VoIP call that records is in nobody's way but another VoIP call's.
LEMMA VoipStaysNext ==
    ASSUME Known, [Next]_vars
    PROVE  [VoipStays]_vars
<1> USE DEF clientVars, phoneVars
<1> SUFFICES ASSUME NEW h \in Active(Now), inputs[h].source = Voip,
                    h \notin Active(Now)'
             PROVE  h \notin wanted' \/ \E g \in Open(Voip) \ {h} : StartInput(g)
  BY DEF VoipStays, Active, Now, Open
<1>0. Well /\ Active(Now) \subseteq DOMAIN inputs
  BY NowOK DEF Known
<1>1. ASSUME NEW source \in Sources, GetInput(source)
      PROVE  FALSE
  BY <1>1, GetInputKeeps
<1>2. ASSUME NEW k \in Handles, StartInput(k)
      PROVE  \E g \in Open(Voip) \ {h} : StartInput(g)
  <2>1. k \in DOMAIN inputs /\ Granted(k)
    BY <1>2 DEF StartInput, Active, Now
  <2>2. k # h
    BY <1>0, <1>2, <2>1, GrantedKeeps
  <2>3. inputs[h].source # Hotword /\ ~Preempts(inputs[h], inputs[k])
    BY DEF Voip, Hotword, Preempts
  <2>4. PICK a \in Active(Now) :
          \/ /\ Preempts(inputs[a], inputs[k]) \/ SameSource(inputs[a], inputs[k])
             /\ Active(Now)' = (Active(Now) \ {a}) \cup {k}
          \/ /\ inputs[a].source = Hotword
             /\ Active(Now) \ {a} # {} => Active(Now)' = (Active(Now) \ {a}) \cup {k}
    BY <1>0, <1>2, <2>1, GrantedKeeps
  <2>5. a = h /\ SameSource(inputs[a], inputs[k])
    BY <2>3, <2>4
  <2>6. k \in Open(Voip) \ {h}
    BY <2>1, <2>2, <2>5 DEF SameSource, Open
  <2> QED BY <1>2, <2>6
<1>3. ASSUME NEW k \in Handles, StopInput(k)
      PROVE  h \notin wanted'
  BY <1>0, <1>3, StopInputKeeps DEF StopInput
<1>4. ASSUME NEW k \in Handles, ReleaseInput(k)
      PROVE  h \notin wanted'
  BY <1>0, <1>4, ReleaseInputKeeps DEF ReleaseInput
<1>5. CASE SetPhoneState
  BY <1>5 DEF SetPhoneState, Active, Now
<1>6. CASE SetForceUse
  BY <1>0, <1>6, RerouteKeeps DEF SetForceUse
<1>7. ASSUME NEW mic \in Plugs, SetDeviceConnectionState(mic)
      PROVE  FALSE
  BY <1>0, <1>7, RerouteKeeps DEF SetDeviceConnectionState
<1>8. CASE UNCHANGED vars
  BY <1>8 DEF vars, Active, Now
<1> QED
  BY <1>1, <1>2, <1>3, <1>4, <1>5, <1>6, <1>7, <1>8 DEF Next

\* A VoIP call that records is silenced by its client or by a later VoIP call,
\* and by no other start, stop or release of any client.
THEOREM VoipIsKept == Spec => VoipKept
<1>1. Known /\ [Next]_vars => [VoipStays]_vars
  BY VoipStaysNext
<1> QED BY <1>1, KnownInit, KnownNext, PTL DEF Spec, VoipKept, VoipStays

SourceGoesOn ==
    (\E h \in clients : ReleaseInput(h)) /\ wanted' \cap DOMAIN inputs' # {}
       => Active(Now)' # {}

\* When nobody records and an input is left that was started, the source is
\* given back to one.
LEMMA SourceGoesOnNext ==
    ASSUME Known
    PROVE  SourceGoesOn
<1> SUFFICES ASSUME NEW h \in clients, ReleaseInput(h),
                    NEW w \in wanted' \cap DOMAIN inputs'
             PROVE  Active(Now)' # {}
  BY DEF SourceGoesOn
<1> DEFINE x == Closed(Now, h)
<1>0. OK(Now) /\ Now.inputs = inputs
  BY NowOK DEF Known
<1>1. Active(Now)' = Active(GivenBack(x)) /\ inputs' = GivenBack(x).inputs
  BY DEF ReleaseInput, Become, Released, Active, Now
<1>2. OK(x) /\ DOMAIN inputs' = DOMAIN x.inputs
  BY <1>0, <1>1, ClosedOK, GivenBackKeeps
<1>3. DOMAIN x.inputs \subseteq 1..opened /\ x.inputs[w].started
  <2>1. w \in wanted /\ w \in DOMAIN x.inputs
    BY <1>2 DEF ReleaseInput
  <2>2. \A g \in DOMAIN x.inputs : g \in DOMAIN inputs /\ x.inputs[g] = inputs[g]
    BY <1>0 DEF Closed
  <2> QED BY <2>1, <2>2 DEF Known, Numbered, Expected
<1> HIDE DEF x
<1>4. CASE Active(x) # {}
  BY <1>1, <1>2, <1>4, GivenBackKeeps
<1>5. CASE Active(x) = {}
  <2> DEFINE k == Max(Restartable(x))
             m == [x.inputs EXCEPT ![k].active = TRUE]
  <2>1. Restartable(x) \subseteq 0..opened /\ w \in Restartable(x)
    BY <1>2, <1>3 DEF Restartable
  <2>2. k \in DOMAIN x.inputs
    BY <2>1, LargestOf DEF Known, Well, Restartable
  <2>3. GivenBack(x).inputs = m
    BY <1>5, <2>1, <2>2 DEF GivenBack
  <2>4. k \in DOMAIN m /\ m[k].active
    BY <1>2, <2>2 DEF OK, InputsOK, Input
  <2> HIDE DEF k, m
  <2> QED BY <1>1, <2>3, <2>4 DEF Active
<1> QED BY <1>4, <1>5

\* After a release somebody records, if an input is left whose client expects
\* to: whatever was started, preempted and stopped before.
THEOREM SourceIsGivenBack == Spec => SourceGivenBack
<1>1. Known => [SourceGoesOn]_vars
  BY SourceGoesOnNext
<1> QED BY <1>1, KnownInit, KnownNext, PTL DEF Spec, SourceGivenBack, SourceGoesOn
=============================================================================
