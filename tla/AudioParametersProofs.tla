------------------------ MODULE AudioParametersProofs ------------------------
(***************************************************************************)
(* Theorems about AudioParameters, for every number of clients, whatever   *)
(* parameters they send, with writes that fail and a media server that     *)
(* dies between any two steps.                                             *)
(***************************************************************************)
EXTENDS AudioParameters, TLAPS

-----------------------------------------------------------------------------
(* Type correctness.  A caller saves with the lock held, so that one at a  *)
(* time is between fopen and fclose.                                       *)

LEMMA TypeInit == Init => TypeOK
BY ParametersAssumption DEF Init, TypeOK, NoPairs, IsPairs, Default, Flag

\* The setters make directions or a flag of every value.
LEMMA DecodeType ==
    ASSUME NEW k \in Keys, NEW v, NEW old \in SUBSET {"on", "downlink", "uplink"}
    PROVE  Decode(k, v, old) \in SUBSET {"on", "downlink", "uplink"}
BY DEF Decode, TtyDirection, FmState, BtState, Flag, BtKeys, FlagKeys

LEMMA AppliedType ==
    ASSUME TypeOK, NEW kv
    PROVE  Applied(kv) \in [Keys -> SUBSET {"on", "downlink", "uplink"}]
<1>1. ASSUME NEW k \in Keys
      PROVE  (IF k \in DOMAIN kv THEN Decode(k, kv[k], state[k]) ELSE state[k])
                \in SUBSET {"on", "downlink", "uplink"}
  <2>1. state[k] \in SUBSET {"on", "downlink", "uplink"}
    BY <1>1 DEF TypeOK
  <2> QED BY <1>1, <2>1, DecodeType
<1> QED BY <1>1 DEF Applied

Places == {"idle", "waiting", "posted", "restoring", "restored", "save", "write"}

\* A caller that finds the lock free leaves it free, or keeps it and saves.
LEMMA DoSetParametersType ==
    ASSUME TypeOK, NEW c \in Callers, NEW kv, NEW then \in {"save", "idle"},
           DoSetParameters(c, kv, then), Free, pending < MaxPending
    PROVE  /\ state' \in [Keys -> SUBSET {"on", "downlink", "uplink"}]
           /\ events' \subseteq Keys
           /\ pending' \in 0..MaxPending
           /\ lock' \in Callers \cup {None}
           /\ pc' \in [Callers -> Places]
           /\ \A d \in Callers : pc'[d] \in {"save", "write"} <=> lock' = d
<1> DEFINE changed == events \cup {k \in Keys : Applied(kv)[k] # state[k]}
<1>1. state' \in [Keys -> SUBSET {"on", "downlink", "uplink"}]
  BY AppliedType DEF DoSetParameters
<1>2. events' \subseteq Keys
  BY DEF DoSetParameters, TypeOK
<1>3. /\ pc \in [Callers -> Places] /\ pending \in 0..MaxPending
      /\ \A d \in Callers : pc[d] \notin {"save", "write"}
      /\ None \notin Callers /\ MaxPending \in Nat
  BY ParametersAssumption DEF TypeOK, Free, Places
<1>4. CASE changed # {}
  <2>1. /\ pending' = pending + 1 /\ lock' = None
        /\ pc' = [pc EXCEPT ![c] = IF then = "save" THEN "waiting" ELSE "restoring"]
    BY <1>4 DEF DoSetParameters
  <2> QED BY <1>1, <1>2, <1>3, <2>1 DEF Places
<1>5. CASE changed = {}
  <2>1. /\ pending' = pending
        /\ lock' = IF then = "save" THEN c ELSE None
        /\ pc' = [pc EXCEPT ![c] = then]
    BY <1>5 DEF DoSetParameters
  <2> QED BY <1>1, <1>2, <1>3, <2>1 DEF Places
<1> QED BY <1>4, <1>5

LEMMA MergeDomain ==
    ASSUME NEW f, NEW g, IsPairs(f), IsPairs(g)
    PROVE  IsPairs(Merge(f, g))
BY DEF Merge, IsPairs

LEMMA ReadBackPairs ==
    ASSUME NEW f, NEW g \in ReadBack(f)
    PROVE  IsPairs(g)
BY DEF ReadBack, IsPairs, Keys

LEMMA TypeNext ==
    ASSUME TypeOK, [Next]_vars
    PROVE  TypeOK'
<1> USE DEF callVars, history
<1>0. None \notin Callers
  BY ParametersAssumption
<1>1. ASSUME NEW c \in Callers, NEW kv \in Calls[c], SetParameters(c, kv)
      PROVE  TypeOK'
  <2>1. IsPairs(kv)
    BY ParametersAssumption, <1>1 DEF IsPairs
  <2>2. arg' = [arg EXCEPT ![c] = kv] /\ UNCHANGED <<up, memory, file, saved, intact, recovered>>
    BY <1>1 DEF SetParameters
  <2> QED BY <1>1, <2>1, <2>2, DoSetParametersType DEF SetParameters, TypeOK, Places
<1>2. ASSUME NEW c \in Callers, SetRestarting(c)
      PROVE  TypeOK'
  BY <1>2, DoSetParametersType DEF SetRestarting, TypeOK, Places
<1>3. ASSUME NEW c \in Callers, Relock(c)
      PROVE  TypeOK'
  BY <1>0, <1>3 DEF Relock, Free, TypeOK
<1>4. ASSUME NEW c \in Callers, OpenFile(c)
      PROVE  TypeOK'
  <2>1. IsPairs(ToSave(arg[c])) /\ IsPairs(NoPairs)
    BY <1>4 DEF TypeOK, IsPairs, ToSave, NoPairs
  <2>2. IsPairs(memory')
    BY <1>4, <2>1, MergeDomain DEF OpenFile, TypeOK
  <2> QED BY <1>0, <1>4, <2>1, <2>2 DEF OpenFile, Return, TypeOK
<1>5. ASSUME NEW c \in Callers, WriteFile(c)
      PROVE  TypeOK'
  BY <1>0, <1>5 DEF WriteFile, Return, Written, TypeOK
<1>6. CASE UpdateRouting
  <2>1. /\ lock = None /\ UNCHANGED <<up, lock, arg, state, memory, file, history, recovered>>
        /\ events' = {} /\ pending' \in 0..MaxPending
    BY <1>6, ParametersAssumption DEF UpdateRouting, Free, TypeOK
  <2>2. \A c \in Callers : pc[c] \in Places \ {"save", "write"}
    BY <1>0, <2>1 DEF TypeOK, Places
  <2>3. pc' \in [Callers -> Places] /\ \A c \in Callers : pc'[c] \notin {"save", "write"}
    BY <1>6, <2>2 DEF UpdateRouting, Places
  <2> QED BY <1>0, <2>1, <2>3 DEF TypeOK, Places
<1>7. CASE Crash
  <2>1. /\ Default \in [Keys -> SUBSET {"on", "downlink", "uplink"}]
        /\ IsPairs(NoPairs) /\ 0 \in 0..MaxPending
    BY ParametersAssumption DEF Default, Flag, IsPairs, NoPairs
  <2> QED BY <1>0, <1>7, <2>1 DEF Crash, TypeOK
<1>8. CASE Restart
  <2>1. IsPairs(memory')
    BY <1>8, ReadBackPairs, MergeDomain DEF Restart, TypeOK
  <2> QED BY <1>8, <2>1 DEF Restart, TypeOK
<1>9. CASE UNCHANGED vars
  BY <1>9 DEF vars, TypeOK
<1> QED BY <1>1, <1>2, <1>3, <1>4, <1>5, <1>6, <1>7, <1>8, <1>9 DEF Next

\* Every variable keeps its type and one caller at a time saves: the wait for a
\* pass, which gives the lock up in the middle of setParameters, lets nobody in
\* between another caller's fopen and fclose.
THEOREM TypeCorrect == Spec => []TypeOK
BY TypeInit, TypeNext, PTL DEF Spec

-----------------------------------------------------------------------------
(* The file.                                                               *)

IsFunction(f) == f = [k \in DOMAIN f |-> f[k]]

\* All pairs of the file fit into the buffer restore reads it into.
FileFits == \A i \in DOMAIN KeyOrder : SumUpTo(file, i) <= ReadSize

FileInv ==
    /\ TypeOK /\ FileFollowsMemory
    /\ IsFunction(memory) /\ IsFunction(file)
    /\ ~up => memory = NoPairs /\ \A c \in Callers : pc[c] = "idle"

\* What is read back is what is in the file.
LEMMA NothingIsCut ==
    ASSUME FileFits, IsPairs(file), IsFunction(file)
    PROVE  ReadBack(file) = {file}
<1> DEFINE whole == {i \in DOMAIN KeyOrder : KeyOrder[i] \in DOMAIN file
                                             /\ SumUpTo(file, i) <= ReadSize}
           cut == {i \in DOMAIN KeyOrder : KeyOrder[i] \in DOMAIN file
                                           /\ SumUpTo(file, i) > ReadSize
                                           /\ SumUpTo(file, i - 1) < ReadSize}
           kept == {KeyOrder[i] : i \in whole}
           lost == {KeyOrder[i] : i \in cut}
           pairs(c) == [k \in kept \cup c |-> IF k \in kept THEN file[k] ELSE Cut]
<1>1. kept = DOMAIN file
  <2>1. ASSUME NEW k \in DOMAIN file
        PROVE  k \in kept
    <3>1. PICK i \in DOMAIN KeyOrder : k = KeyOrder[i]
      BY <2>1 DEF IsPairs, Keys
    <3> QED BY <2>1, <3>1 DEF FileFits
  <2> QED BY <2>1
<1>2. lost \subseteq kept
  BY <1>1
<1>3. ReadBack(file) = {pairs(c) : c \in {{}, lost}}
  BY DEF ReadBack
<1>4. ASSUME NEW c \in {{}, lost}
      PROVE  pairs(c) = file
  <2>1. kept \cup c = DOMAIN file
    BY <1>1, <1>2
  <2>2. pairs(c) = [k \in DOMAIN file |-> file[k]]
    BY <1>1, <2>1
  <2> QED BY <2>2 DEF IsFunction
<1> QED BY <1>3, <1>4

LEMMA MergeWithNothing ==
    ASSUME NEW f, IsFunction(f)
    PROVE  Merge(NoPairs, f) = f
<1>1. DOMAIN NoPairs = {}
  BY DEF NoPairs
<1>2. Merge(NoPairs, f) = [k \in DOMAIN f |-> f[k]]
  BY <1>1 DEF Merge
<1> QED BY <1>2 DEF IsFunction

LEMMA FileInit == Init => FileInv
BY TypeInit DEF Init, FileInv, FileFollowsMemory, IsFunction, NoPairs

LEMMA FileNext ==
    ASSUME FileInv, FileFits, [Next]_vars
    PROVE  FileInv'
<1> USE DEF callVars, history
<1>0. TypeOK' /\ TypeOK /\ None \notin Callers
  BY TypeNext, ParametersAssumption DEF FileInv
<1>1. ASSUME NEW c \in Callers, NEW kv \in Calls[c], SetParameters(c, kv)
      PROVE  FileInv'
  <2>1. /\ up /\ UNCHANGED <<up, memory, file, intact>>
        /\ \A d \in Callers : pc[d] # "write"
    BY <1>0, <1>1 DEF SetParameters, Free, TypeOK
  <2> QED BY <1>0, <2>1 DEF FileInv, FileFollowsMemory, IsFunction
<1>2. ASSUME NEW c \in Callers, SetRestarting(c)
      PROVE  FileInv'
  <2>1. /\ up /\ UNCHANGED <<up, memory, file, intact>>
        /\ \A d \in Callers : pc[d] # "write"
    BY <1>0, <1>2 DEF SetRestarting, Free, TypeOK
  <2> QED BY <1>0, <2>1 DEF FileInv, FileFollowsMemory, IsFunction
<1>3. ASSUME NEW c \in Callers, Relock(c)
      PROVE  FileInv'
  <2>1. /\ up /\ UNCHANGED <<up, memory, file, intact>>
        /\ \A d \in Callers : pc[d] # "write"
    BY <1>0, <1>3 DEF Relock, Free, TypeOK
  <2> QED BY <1>0, <2>1 DEF FileInv, FileFollowsMemory, IsFunction
<1>4. ASSUME NEW c \in Callers, OpenFile(c)
      PROVE  FileInv'
  <2>1. up /\ up' /\ pc \in [Callers -> Places]
    BY <1>0, <1>4 DEF OpenFile, TypeOK, Places
  <2>2. IsFunction(memory') /\ IsFunction(NoPairs)
    BY <1>4 DEF OpenFile, Merge, IsFunction, NoPairs
  <2>3. CASE file' = NoPairs /\ pc' = [pc EXCEPT ![c] = "write"]
    <3>1. pc'[c] = "write"
      BY <2>1, <2>3
    <3> QED BY <1>0, <2>1, <2>2, <2>3, <3>1 DEF FileInv, FileFollowsMemory
  <2>4. CASE UNCHANGED file /\ intact' = FALSE
    BY <1>0, <2>1, <2>2, <2>4 DEF FileInv, FileFollowsMemory, IsFunction
  <2> QED BY <1>4, <2>3, <2>4 DEF OpenFile
<1>5. ASSUME NEW c \in Callers, WriteFile(c)
      PROVE  FileInv'
  <2>1. up /\ up' /\ UNCHANGED memory
    BY <1>5 DEF WriteFile
  <2>2. CASE file' = memory
    BY <1>0, <2>1, <2>2 DEF FileInv, FileFollowsMemory, IsFunction
  <2>3. CASE intact' = FALSE /\ UNCHANGED file
    BY <1>0, <2>1, <2>3 DEF FileInv, FileFollowsMemory, IsFunction
  <2> QED BY <1>5, <2>2, <2>3 DEF WriteFile, Written
<1>6. CASE UpdateRouting
  <2>1. /\ up /\ UNCHANGED <<up, memory, file, intact>>
        /\ \A d \in Callers : pc[d] # "write"
    BY <1>0, <1>6 DEF UpdateRouting, Free, TypeOK
  <2> QED BY <1>0, <2>1 DEF FileInv, FileFollowsMemory, IsFunction
<1>7. CASE Crash
  <2>1. IsFunction(NoPairs)
    BY DEF IsFunction, NoPairs
  <2> QED BY <1>0, <1>7, <2>1 DEF Crash, FileInv, FileFollowsMemory, IsFunction
<1>8. CASE Restart
  <2>1. ReadBack(file) = {file}
    BY <1>0, NothingIsCut DEF FileInv, TypeOK
  <2>2. memory' = file /\ file' = file
    BY <1>8, <2>1, MergeWithNothing DEF Restart, FileInv
  <2> QED BY <1>0, <1>8, <2>2 DEF Restart, FileInv, FileFollowsMemory, IsFunction
<1>9. CASE UNCHANGED vars
  BY <1>0, <1>9 DEF vars, FileInv, FileFollowsMemory, IsFunction
<1> QED BY <1>1, <1>2, <1>3, <1>4, <1>5, <1>6, <1>7, <1>8, <1>9 DEF Next

\* As long as the pairs of the file fit into the buffer it is read into, the
\* file and the handler agree whenever no caller is between fopen and fclose and
\* no write has failed: across crashes between any two steps, restarts, and
\* callers that overtake each other while they wait for a pass.
THEOREM FileIsKept == Spec /\ []FileFits => []FileFollowsMemory
<1>1. FileInv => FileFollowsMemory
  BY DEF FileInv
<1>2. FileInv /\ FileFits /\ [Next]_vars => FileInv'
  BY FileNext
<1> QED BY FileInit, <1>1, <1>2, PTL DEF Spec

-----------------------------------------------------------------------------
(* The platform state and the stored parameters.                           *)

\* "if each has its own client": no two clients send the same parameter.
OwnParameters ==
    \A c, d \in Callers : c # d =>
        \A kv \in Calls[c], other \in Calls[d] : DOMAIN kv \cap DOMAIN other = {}

\* The state of parameter k is the one the value v asks for.
Agrees(st, k, v) == st[k] = Decode(k, v, st[k])
Reflects(k, v) == Agrees(state, k, v)

\* Between applying its parameters and storing them a caller waits, unlocked.
Unsaved == {c \in Callers : pc[c] \in {"waiting", "posted", "save"}}

\* What was applied is still the state, until it is stored.
Standing ==
    \A c \in Unsaved : /\ arg[c] \in Calls[c]
                       /\ \A k \in DOMAIN arg[c] : Reflects(k, arg[c][k])
\* What is stored is the state, or will be replaced by what is.
Stored ==
    up /\ recovered =>
        \A k \in DOMAIN memory :
            Reflects(k, memory[k]) \/ \E c \in Unsaved : k \in DOMAIN arg[c]
StateInv == DOMAIN arg = Callers /\ (~up => ~recovered) /\ Standing /\ Stored

\* A setter makes the same of a value every time, or ignores it.
LEMMA SetTwice ==
    ASSUME NEW k \in Keys, NEW v, NEW old
    PROVE  Decode(k, v, Decode(k, v, old)) = Decode(k, v, old)
BY DEF Decode, BtState, BtKeys, FlagKeys

LEMMA FlagsAreNoState ==
    ASSUME NEW v
    PROVE  Reflects(StreamFlags, v)
BY DEF Reflects, Agrees, StreamFlags, Decode, BtKeys, FlagKeys

\* A parameter that was set is what it was set to, the others are as before.
LEMMA AppliedReflects ==
    ASSUME NEW kv, NEW k \in Keys, state' = Applied(kv)
    PROVE  /\ k \in DOMAIN kv => Reflects(k, kv[k])'
           /\ k \notin DOMAIN kv => state'[k] = state[k]
<1>1. state'[k] = IF k \in DOMAIN kv THEN Decode(k, kv[k], state[k]) ELSE state[k]
  BY DEF Applied
<1>2. ASSUME k \in DOMAIN kv
      PROVE  state'[k] = Decode(k, kv[k], state'[k])
  BY <1>1, <1>2, SetTwice
<1> QED BY <1>1, <1>2 DEF Reflects, Agrees

\* What a caller stores is the state from then on.
LEMMA OpenStores ==
    ASSUME TypeOK, StateInv, NEW c \in Callers, OpenFile(c)
    PROVE  StateInv'
<1>1. /\ up /\ up' /\ pc[c] = "save" /\ c \in Unsaved
      /\ UNCHANGED <<arg, state, recovered>>
      /\ memory' = Merge(memory, ToSave(arg[c]))
  BY DEF OpenFile, Unsaved
<1>2. pc' = [pc EXCEPT ![c] = "write"] \/ pc' = [pc EXCEPT ![c] = "idle"]
  BY DEF OpenFile, Return
<1>3. Unsaved' = Unsaved \ {c}
  BY <1>2 DEF Unsaved, TypeOK
<1>4. Standing'
  BY <1>1, <1>3 DEF StateInv, Standing, Reflects, Agrees
<1>5. ASSUME recovered, NEW k \in DOMAIN memory'
      PROVE  Reflects(k, memory[k])' \/ \E d \in Unsaved' : k \in DOMAIN arg[d]
  <2>1. CASE k \in DOMAIN ToSave(arg[c])
    <3>1. memory'[k] = arg[c][k] /\ k \in DOMAIN arg[c]
      BY <1>1, <2>1 DEF Merge, ToSave
    <3>2. Reflects(k, arg[c][k])
      BY <1>1, <3>1 DEF StateInv, Standing
    <3> QED BY <1>1, <3>1, <3>2 DEF Reflects, Agrees
  <2>2. CASE k \notin DOMAIN ToSave(arg[c])
    <3>1. k \in DOMAIN memory /\ memory'[k] = memory[k]
      BY <1>1, <1>5, <2>2 DEF Merge
    <3>2. CASE Reflects(k, memory[k])
      BY <1>1, <3>1, <3>2 DEF Reflects, Agrees
    <3>3. ASSUME NEW d \in Unsaved, k \in DOMAIN arg[d]
          PROVE  Reflects(k, memory[k])' \/ \E e \in Unsaved' : k \in DOMAIN arg[e]
      <4>1. CASE d = c
        <5>1. k = StreamFlags
          BY <2>2, <3>3, <4>1 DEF ToSave
        <5>2. Reflects(k, memory'[k])
          BY <5>1, FlagsAreNoState
        <5> QED BY <1>1, <5>2 DEF Reflects, Agrees
      <4> QED BY <1>3, <3>3, <4>1
    <3> QED BY <1>1, <1>5, <3>1, <3>2, <3>3 DEF StateInv, Stored
  <2> QED BY <2>1, <2>2
<1> QED BY <1>1, <1>4, <1>5 DEF StateInv, Stored

\* A caller applies its own parameters, which no other waits to store.
LEMMA SetStands ==
    ASSUME TypeOK, StateInv, OwnParameters,
           NEW c \in Callers, NEW kv \in Calls[c], SetParameters(c, kv)
    PROVE  StateInv'
<1>1. /\ up /\ up' /\ pc[c] = "idle" /\ UNCHANGED <<memory, recovered>>
      /\ arg' = [arg EXCEPT ![c] = kv] /\ state' = Applied(kv)
      /\ DOMAIN kv \subseteq Keys
  BY ParametersAssumption DEF SetParameters, DoSetParameters, Free
<1>2. pc' = [pc EXCEPT ![c] = "waiting"] \/ pc' = [pc EXCEPT ![c] = "save"]
  BY DEF SetParameters, DoSetParameters
<1>3. Unsaved' = Unsaved \cup {c} /\ c \notin Unsaved
  BY <1>1, <1>2 DEF Unsaved, TypeOK
<1>4. arg'[c] = kv /\ \A d \in Callers \ {c} : arg'[d] = arg[d]
  BY <1>1 DEF StateInv
<1>5. Standing'
  <2>1. kv \in Calls[c] /\ \A k \in DOMAIN kv : Agrees(state', k, kv[k])
    BY <1>1, AppliedReflects DEF Reflects
  <2>2. ASSUME NEW d \in Unsaved, d # c, NEW k \in DOMAIN arg[d]
        PROVE  arg'[d] \in Calls[d] /\ Agrees(state', k, arg'[d][k])
    <3>1. arg[d] \in Calls[d] /\ Reflects(k, arg[d][k]) /\ d \in Callers
      BY <2>2 DEF StateInv, Standing, Unsaved
    <3>2. k \in Keys /\ k \notin DOMAIN kv
      BY <2>2, <3>1, ParametersAssumption DEF OwnParameters
    <3>3. state'[k] = state[k]
      BY <1>1, <3>2, AppliedReflects
    <3> QED BY <1>4, <2>2, <3>1, <3>3 DEF Reflects, Agrees
  <2>3. ASSUME NEW d \in Unsaved'
        PROVE  arg'[d] \in Calls[d] /\ \A k \in DOMAIN arg'[d] : Agrees(state', k, arg'[d][k])
    <3>1. CASE d = c
      BY <1>4, <2>1, <3>1
    <3>2. CASE d # c
      <4>1. d \in Unsaved /\ d \in Callers
        BY <1>3, <2>3, <3>2 DEF Unsaved
      <4>2. arg[d] \in Calls[d] /\ arg'[d] = arg[d]
        BY <1>4, <3>2, <4>1 DEF StateInv, Standing
      <4> QED BY <2>2, <3>2, <4>1, <4>2
    <3> QED BY <3>1, <3>2
  <2> QED BY <2>3 DEF Standing, Reflects, Agrees
<1>6. ASSUME recovered, NEW k \in DOMAIN memory
      PROVE  Reflects(k, memory[k])' \/ \E d \in Unsaved' : k \in DOMAIN arg'[d]
  <2>1. CASE k \in DOMAIN kv
    BY <1>3, <1>4, <2>1
  <2>2. CASE k \notin DOMAIN kv /\ Reflects(k, memory[k])
    <3>1. state'[k] = state[k]
      BY <1>1, <2>2, AppliedReflects DEF TypeOK, IsPairs
    <3> QED BY <1>1, <2>2, <3>1 DEF Reflects, Agrees
  <2>3. CASE \E d \in Unsaved : k \in DOMAIN arg[d]
    BY <1>3, <1>4, <2>3 DEF Unsaved
  <2> QED BY <1>1, <1>6, <2>1, <2>2, <2>3 DEF StateInv, Stored
<1> QED BY <1>1, <1>5, <1>6 DEF StateInv, Stored

LEMMA StateInit == Init => StateInv
BY DEF Init, StateInv, Standing, Stored, Unsaved, NoPairs

LEMMA StateNext ==
    ASSUME TypeOK, StateInv, OwnParameters, [Next]_vars
    PROVE  StateInv'
<1> USE DEF callVars, history
<1>1. ASSUME NEW c \in Callers, NEW kv \in Calls[c], SetParameters(c, kv)
      PROVE  StateInv'
  BY <1>1, SetStands
<1>2. ASSUME NEW c \in Callers, SetRestarting(c)
      PROVE  StateInv'
  <2>1. /\ up /\ up' /\ UNCHANGED <<memory, arg>> /\ state' = Applied(memory)
        /\ DOMAIN memory \subseteq Keys
    BY <1>2 DEF SetRestarting, DoSetParameters, Free, TypeOK, IsPairs
  <2>2. Unsaved' = {}
    BY <1>2 DEF SetRestarting, DoSetParameters, Unsaved, TypeOK
  <2>3. \A k \in DOMAIN memory : Reflects(k, memory[k])'
    BY <2>1, AppliedReflects
  <2> QED BY <2>1, <2>2, <2>3 DEF StateInv, Standing, Stored, Reflects, Agrees
<1>3. ASSUME NEW c \in Callers, Relock(c)
      PROVE  StateInv'
  <2>1. Unsaved' = Unsaved /\ UNCHANGED <<up, arg, state, memory, recovered>>
    BY <1>3 DEF Relock, Unsaved, TypeOK
  <2> QED BY <2>1 DEF StateInv, Standing, Stored, Reflects, Agrees
<1>4. ASSUME NEW c \in Callers, OpenFile(c)
      PROVE  StateInv'
  BY <1>4, OpenStores
<1>5. ASSUME NEW c \in Callers, WriteFile(c)
      PROVE  StateInv'
  <2>1. Unsaved' = Unsaved /\ UNCHANGED <<up, arg, state, memory, recovered>>
    BY <1>5 DEF WriteFile, Return, Unsaved, TypeOK
  <2> QED BY <2>1 DEF StateInv, Standing, Stored, Reflects, Agrees
<1>6. CASE UpdateRouting
  <2>1. Unsaved' = Unsaved /\ UNCHANGED <<up, arg, state, memory, recovered>>
    BY <1>6 DEF UpdateRouting, Unsaved, TypeOK
  <2> QED BY <2>1 DEF StateInv, Standing, Stored, Reflects, Agrees
<1>7. CASE Crash
  BY <1>7 DEF Crash, StateInv, Standing, Stored, Unsaved
<1>8. CASE Restart
  <2>1. ~recovered' /\ Unsaved' = Unsaved /\ up' /\ UNCHANGED <<arg, state>>
    BY <1>8 DEF Restart, StateInv, Unsaved
  <2> QED BY <2>1 DEF StateInv, Standing, Stored, Reflects, Agrees
<1>9. CASE UNCHANGED vars
  <2>1. Unsaved' = Unsaved /\ UNCHANGED <<up, arg, state, memory, recovered>>
    BY <1>9 DEF vars, Unsaved
  <2> QED BY <2>1 DEF StateInv, Standing, Stored, Reflects, Agrees
<1> QED BY <1>1, <1>2, <1>3, <1>4, <1>5, <1>6, <1>7, <1>8, <1>9 DEF Next

\* If each parameter has its own client, then once the restarted HAL was told to
\* recover and no call is under way, the platform state is what the stored
\* parameters say: through the waits with the lock released in the middle of
\* setParameters, failed writes, and a server that dies between any two steps.
THEOREM StateIsWhatIsStored ==
    ASSUME OwnParameters
    PROVE  Spec => []StateFollowsMemory
<1>1. StateInv => StateFollowsMemory
  BY DEF StateInv, Stored, StateFollowsMemory, Quiet, Reflects, Agrees, Unsaved
<1>2. TypeOK /\ StateInv /\ [Next]_vars => StateInv'
  BY StateNext
<1> QED BY StateInit, TypeCorrect, <1>1, <1>2, PTL DEF Spec
=============================================================================
