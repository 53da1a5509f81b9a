---------------------------- MODULE SessionLease ----------------------------
(***************************************************************************)
(* What the connection pool promises its callers, without semaphores, idle *)
(* stacks or locks: a worker is granted a lease on a device while fewer    *)
(* than the device's limit are out, under a lease it is lent a session     *)
(* that nobody else has, and it gives the session back before the lease.   *)
(***************************************************************************)
EXTENDS Naturals, FiniteSets

CONSTANTS Workers, Devices, Conns, NoConn

VARIABLES
    limit,    \* leases allowed on each device; 0 until the device is first used
    holders,  \* the workers with a lease on each device
    lent      \* the session each worker has, or NoConn

leaseVars == <<limit, holders, lent>>

Init ==
    /\ limit = [d \in Devices |-> 0]
    /\ holders = [d \in Devices |-> {}]
    /\ lent = [w \in Workers |-> NoConn]

\* The first use of a device fixes its limit, for good.
Size(d) ==
    /\ limit[d] = 0
    /\ limit'[d] \in Nat \ {0}
    /\ limit' = [limit EXCEPT ![d] = limit'[d]]
    /\ UNCHANGED <<holders, lent>>

Grant(w, d) ==
    /\ \A e \in Devices : w \notin holders[e]
    /\ Cardinality(holders[d]) < limit[d]
    /\ holders' = [holders EXCEPT ![d] = @ \cup {w}]
    /\ UNCHANGED <<limit, lent>>

Lend(w) ==
    /\ \E d \in Devices : w \in holders[d]
    /\ lent[w] = NoConn
    /\ \E c \in Conns \ {lent[v] : v \in Workers} : lent' = [lent EXCEPT ![w] = c]
    /\ UNCHANGED <<limit, holders>>

Recall(w) ==
    /\ lent[w] # NoConn
    /\ lent' = [lent EXCEPT ![w] = NoConn]
    /\ UNCHANGED <<limit, holders>>

Expire(w, d) ==
    /\ w \in holders[d]
    /\ lent[w] = NoConn
    /\ holders' = [holders EXCEPT ![d] = @ \ {w}]
    /\ UNCHANGED <<limit, lent>>

Next ==
    \/ \E d \in Devices : Size(d)
    \/ \E w \in Workers, d \in Devices : Grant(w, d) \/ Expire(w, d)
    \/ \E w \in Workers : Lend(w) \/ Recall(w)

Spec == Init /\ [][Next]_leaseVars
=============================================================================
