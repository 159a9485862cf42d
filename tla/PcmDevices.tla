----------------------------- MODULE PcmDevices -----------------------------
(***************************************************************************)
(* What routing promises about the PCM devices, said without routes,       *)
(* stages or locks: a device is used by at most one stream and a stream    *)
(* uses at most one device; a device is open as long as it is used; and a  *)
(* stream that goes from one device to another is silent in between.       *)
(***************************************************************************)
CONSTANTS Slots,     \* the PCM devices: one for each use of a stream route
          Clients,   \* the streams
          Nobody     \* not a stream

VARIABLES open,      \* the devices that are open
          user       \* user[u]: the stream that plays or records on u

TypeInvariant == open \subseteq Slots /\ user \in [Slots -> Clients \cup {Nobody}]

Init == open = {} /\ user = [u \in Slots |-> Nobody]

Silent(s) == \A u \in Slots : user[u] # s

\* Opened ahead of the stream (LPE platforms).
Open(u) ==
    /\ u \notin open
    /\ open' = open \cup {u}
    /\ user' = user

Use(u, s) ==
    /\ user[u] = Nobody /\ Silent(s)
    /\ open' = open \cup {u}
    /\ user' = [user EXCEPT ![u] = s]

\* The device stays open and goes from its stream to a silent one.
HandOver(u, s) ==
    /\ u \in open /\ user[u] # Nobody /\ Silent(s)
    /\ user' = [user EXCEPT ![u] = s]
    /\ open' = open

Release(u) ==
    /\ user[u] # Nobody
    /\ user' = [user EXCEPT ![u] = Nobody]
    /\ open' \in {open, open \ {u}}

Close(u) ==
    /\ u \in open /\ user[u] = Nobody
    /\ open' = open \ {u}
    /\ user' = user

Next == \E u \in Slots : \/ Open(u) \/ Release(u) \/ Close(u)
                         \/ \E s \in Clients : Use(u, s) \/ HandOver(u, s)

Spec == Init /\ [][Next]_<<open, user>>
=============================================================================
