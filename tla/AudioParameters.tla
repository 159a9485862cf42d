---------------------------- MODULE AudioParameters ----------------------------
(***************************************************************************)
(* The parameters of the audio HAL that must outlive the media server:     *)
(* CAudioRouteManager::setParameters applies them to the platform state,   *)
(* waits for a routing pass with the lock released, and saves them with    *)
(* CAudioParameterHandler, in memory and in a file that is truncated and   *)
(* written again.  The media server may die between any two steps.  When   *)
(* it is back the handler reads the file, and the framework sends          *)
(* "restarting=true" to have the parameters applied again.                 *)
(***************************************************************************)
EXTENDS Integers, FiniteSets, Sequences

CONSTANTS
    Callers,       \* the threads of the framework that set parameters
    Calls,         \* Calls[c]: the key-value pairs caller c sends, which are
                   \* functions from keys to values
    KeyOrder,      \* the keys in the order of AudioParameter::toString
    Size,          \* Size[k]: the characters of the longest pair of key k
    ReadSize,      \* READ_BUF_SIZE - 1
    HfpSupported,  \* _bBluetoothHFPSupported
    WriteFails,    \* may fopen or fwrite fail?
    MaxPending,    \* bound on the EUpdateRouting messages of other clients
    None           \* no thread

Keys == {KeyOrder[i] : i \in DOMAIN KeyOrder}
StreamFlags == "flags"   \* AudioParameter::keyStreamFlags
Cut == "?"               \* the value of a pair that was cut when it was read

ASSUME ParametersAssumption ==
    /\ None \notin Callers
    /\ \A c \in Callers : \A kv \in Calls[c] : DOMAIN kv \subseteq Keys
    /\ Size \in [Keys -> Nat] /\ ReadSize \in Nat
    /\ HfpSupported \in BOOLEAN /\ WriteFails \in BOOLEAN
    /\ MaxPending \in Nat \ {0}

VARIABLES
    up,        \* the media server runs
    lock,      \* the caller that holds the manager lock, or None
    pc, arg,   \* where a caller is, and what it was given
    state,     \* what CAudioPlatformState made of the parameters
    events,    \* the keys whose change event is raised
    pending,   \* EUpdateRouting messages in the event queue
    memory,    \* mAudioParameter
    file,      \* the pairs in FILE_PATH
    asked,     \* history: the pairs the framework has sent
    saved,     \* history: the pairs saved when saveParameters last succeeded
    intact,    \* history: no write has failed since the last one that did not
    recovered  \* "restarting" was handled, or there was nothing to recover

callVars == <<lock, pc, arg>>
history == <<asked, saved, intact>>
vars == <<up, callVars, state, events, pending, memory, file, history, recovered>>

NoPairs == [k \in {} |-> {}]
Free == lock = None /\ up

-----------------------------------------------------------------------------
(* What the setters make of a parameter.  A flag that is on is {"on"}.     *)

Flag(cond) == IF cond THEN {"on"} ELSE {}

\* doSetTtyParameters: an unknown mode is no direction at all
TtyDirection(v) ==
    CASE v = "tty_full" -> {"downlink", "uplink"}
      [] v = "tty_hco" -> {"uplink"}
      [] v = "tty_vco" -> {"downlink"}
      [] OTHER -> {}

\* doSetFmParameters
FmState(v) == Flag(v \in {"speaker", "headset"})

\* doSetBTParameters: "OFF means the headset embeds its noise reduction", and
\* two of the keys are ignored without hands-free support.
BtState(k, v, old) ==
    CASE k = "bluetooth_enabled" -> Flag(v = "true")
      [] k = "bt_headset_nrec" -> IF HfpSupported THEN Flag(v = "off") ELSE old
      [] k = "bt_wbs" -> IF HfpSupported THEN Flag(v = "on") ELSE old

\* doSetHacParameters, doSetScreenStateParameters, doSetContextAwareness...,
\* doSetAlwaysListening..., doScoResourceRequest..., doBypass...PpParameters
FlagKeys == {"HACSetting", "screen_state", "context_awareness_status",
             "always_listening_status", "sco_resource_requested",
             "bypass_non_linear_pp", "bypass_linear_pp"}
BtKeys == {"bluetooth_enabled", "bt_headset_nrec", "bt_wbs"}

Decode(k, v, old) ==
    CASE k = "tty_mode" -> TtyDirection(v)
      [] k = "route-fm" -> FmState(v)
      [] k \in BtKeys -> BtState(k, v, old)
      [] k \in FlagKeys -> Flag(v = "on")
      [] OTHER -> old

\* The CAudioPlatformState constructor: only the screen is on.
Default == [k \in Keys |-> Flag(k = "screen_state")]

\* doSetParameters: every setter raises its event when its value changes.
Applied(kv) ==
    [k \in Keys |-> IF k \in DOMAIN kv THEN Decode(k, kv[k], state[k]) ELSE state[k]]

-----------------------------------------------------------------------------
(* CAudioParameterHandler.                                                 *)

\* add: the new pairs are merged with the stored ones.
Merge_KeepOld(old, new) ==
    [k \in DOMAIN old \cup DOMAIN new |->
        IF k \in DOMAIN old THEN old[k] ELSE new[k]]
Merge(old, new) ==
    [k \in DOMAIN old \cup DOMAIN new |->
        IF k \in DOMAIN new THEN new[k] ELSE old[k]]

\* "Do not save Stream parameter"
ToSave(kv) == [k \in DOMAIN kv \ {StreamFlags} |-> kv[k]]

\* What save writes
Written_NewOnly(kv) == ToSave(kv)
Written(kv) == memory

\* restore: fread stops after ReadSize characters.  The pair that is cut there
\* has lost the end of its value, or of its key.
SumUpTo(pairs, i) ==
    LET total[j \in 0..Len(KeyOrder)] ==
          IF j = 0 THEN 0
          ELSE total[j - 1] + (IF KeyOrder[j] \in DOMAIN pairs THEN Size[KeyOrder[j]]
                               ELSE 0)
    IN total[i]
ReadBack(pairs) ==
    LET whole == {i \in DOMAIN KeyOrder : KeyOrder[i] \in DOMAIN pairs
                                          /\ SumUpTo(pairs, i) <= ReadSize}
        cut == {i \in DOMAIN KeyOrder : KeyOrder[i] \in DOMAIN pairs
                                        /\ SumUpTo(pairs, i) > ReadSize
                                        /\ SumUpTo(pairs, i - 1) < ReadSize}
        kept == {KeyOrder[i] : i \in whole}
        lost == {KeyOrder[i] : i \in cut}
    IN {[k \in kept \cup c |-> IF k \in kept THEN pairs[k] ELSE Cut] : c \in {{}, lost}}

-----------------------------------------------------------------------------
Init ==
    /\ up = TRUE /\ lock = None
    /\ pc = [c \in Callers |-> "idle"] /\ arg = [c \in Callers |-> NoPairs]
    /\ state = Default
    /\ events = {} /\ pending = 0
    /\ memory = NoPairs /\ file = NoPairs
    /\ asked = {} /\ saved = NoPairs /\ intact = TRUE
    /\ recovered = TRUE

\* doSetParameters(kv), then go on to step "then": at once when no event is
\* raised, else after a pass.  reconsiderRouting releases the lock to wait.
DoSetParameters(c, kv, then) ==
    LET changed == events \cup {k \in Keys : Applied(kv)[k] # state[k]}
    IN  /\ state' = Applied(kv)
        /\ events' = changed
        /\ IF changed # {}
           THEN /\ pending' = pending + 1
                /\ lock' = None
                /\ pc' = [pc EXCEPT ![c] = IF then = "save" THEN "waiting"
                                           ELSE "restoring"]
           ELSE /\ UNCHANGED pending
                /\ lock' = IF then = "save" THEN c ELSE None
                /\ pc' = [pc EXCEPT ![c] = then]

\* CAudioRouteManager::setParameters without the key "restarting"
SetParameters(c, kv) ==
    /\ Free /\ pc[c] = "idle"
    /\ pending < MaxPending
    /\ DoSetParameters(c, kv, "save")
    /\ arg' = [arg EXCEPT ![c] = kv]
    /\ asked' = asked \cup {<<k, kv[k]>> : k \in DOMAIN kv}
    /\ UNCHANGED <<up, memory, file, saved, intact, recovered>>

\* setParameters with restarting=true: the framework sends it once, when it has
\* seen the media server come back, and not while another call waits.
SetRestarting(c) ==
    /\ Free /\ ~recovered /\ \A d \in Callers : pc[d] = "idle"
    /\ pending < MaxPending
    /\ DoSetParameters(c, memory, "idle")
    /\ recovered' = TRUE
    /\ UNCHANGED <<up, arg, memory, file, history>>

\* The event thread: doReconsiderRouting clears the events and posts the
\* semaphores of all waiting callers.
UpdateRouting ==
    /\ Free /\ pending > 0
    /\ pending' = pending - 1
    /\ events' = {}
    /\ pc' = [c \in Callers |-> CASE pc[c] = "waiting" -> "posted"
                                  [] pc[c] = "restoring" -> "restored"
                                  [] OTHER -> pc[c]]
    /\ UNCHANGED <<up, lock, arg, state, memory, file, history, recovered>>

\* reconsiderRouting after the wait: _lock.writeLock()
Relock(c) ==
    /\ Free
    /\ \/ /\ pc[c] = "posted"
          /\ lock' = c
          /\ pc' = [pc EXCEPT ![c] = "save"]
       \/ /\ pc[c] = "restored"
          /\ lock' = None
          /\ pc' = [pc EXCEPT ![c] = "idle"]
    /\ UNCHANGED <<up, arg, state, events, pending, memory, file, history, recovered>>

Return(c) == lock' = None /\ pc' = [pc EXCEPT ![c] = "idle"]

\* saveParameters: add, and fopen, which empties the file
OpenFile(c) ==
    /\ up /\ pc[c] = "save"
    /\ memory' = Merge(memory, ToSave(arg[c]))
    /\ \/ /\ file' = NoPairs
          /\ pc' = [pc EXCEPT ![c] = "write"]
          /\ UNCHANGED <<lock, intact>>
       \/ /\ WriteFails
          /\ UNCHANGED file /\ intact' = FALSE
          /\ Return(c)
    /\ UNCHANGED <<up, arg, state, events, pending, asked, saved, recovered>>

\* fwrite and fclose: one buffer, written as a whole unless the disk is full
WriteFile(c) ==
    /\ up /\ pc[c] = "write"
    /\ \/ file' = Written(arg[c]) /\ saved' = memory /\ intact' = TRUE
       \/ WriteFails /\ intact' = FALSE /\ UNCHANGED <<file, saved>>
    /\ Return(c)
    /\ UNCHANGED <<up, arg, state, events, pending, memory, asked, recovered>>

\* The media server dies, and init starts it again: everything but the file
\* is built anew, the handler reads the file.
Crash ==
    /\ up
    /\ up' = FALSE
    /\ lock' = None
    /\ pc' = [c \in Callers |-> "idle"]
    /\ arg' = [c \in Callers |-> NoPairs]
    /\ state' = Default /\ events' = {} /\ pending' = 0
    /\ memory' = NoPairs
    /\ recovered' = FALSE
    /\ UNCHANGED <<file, history>>

Restart ==
    /\ ~up
    /\ up' = TRUE
    /\ memory' \in {Merge(memory, pairs) : pairs \in ReadBack(file)}
    /\ intact' = TRUE
    /\ UNCHANGED <<callVars, state, events, pending, file, asked, saved, recovered>>

-----------------------------------------------------------------------------
Next ==
    \/ \E c \in Callers :
         \/ \E kv \in Calls[c] : SetParameters(c, kv)
         \/ SetRestarting(c)
         \/ Relock(c) \/ OpenFile(c) \/ WriteFile(c)
    \/ UpdateRouting \/ Crash \/ Restart
Spec == Init /\ [][Next]_vars

-----------------------------------------------------------------------------
(* Properties.                                                             *)

Quiet == up /\ \A c \in Callers : pc[c] = "idle"
IsPairs(f) == DOMAIN f \subseteq Keys

\* Every variable has its type; the caller that saves holds the lock.
TypeOK ==
    /\ up \in BOOLEAN /\ recovered \in BOOLEAN /\ intact \in BOOLEAN
    /\ lock \in Callers \cup {None}
    /\ pc \in [Callers -> {"idle", "waiting", "posted", "restoring", "restored",
                           "save", "write"}]
    /\ \A c \in Callers : pc[c] \in {"save", "write"} <=> lock = c
    /\ \A c \in Callers : IsPairs(arg[c])
    /\ state \in [Keys -> SUBSET {"on", "downlink", "uplink"}]
    /\ events \subseteq Keys
    /\ pending \in 0..MaxPending
    /\ IsPairs(memory) /\ IsPairs(file) /\ IsPairs(saved)

\* Unless a write has failed, the file holds what the handler has in memory whenever
\* the server runs and no caller is between fopen and fclose: whatever was
\* merged before, restored after a crash, or saved by others in between.
FileFollowsMemory ==
    up /\ intact /\ (\A c \in Callers : pc[c] # "write") => file = memory

\* Once the framework has told the restarted HAL to recover, the platform state
\* is what the saved parameters say, also after later changes: a parameter is
\* never saved with a value other than the one last applied, if each has its
\* own client.
StateFollowsMemory ==
    Quiet /\ recovered =>
        \A k \in DOMAIN memory : state[k] = Decode(k, memory[k], state[k])

\* "Save the audio parameters for recovering audio parameters in case of
\* crash": what the last completed save stored is in the file of a dead server.
SavedSurvives == ~up => DOMAIN saved \subseteq DOMAIN file

\* No parameter comes back with a value the framework never gave it.
NothingInvented == \A k \in DOMAIN memory : <<k, memory[k]>> \in asked
=============================================================================
