------------------------------- MODULE Lease -------------------------------
(***************************************************************************)
(* What the lock around fetch_n_parse in pallets/ocw promises: a lease.    *)
(* It is granted in one atomic action, only when there is no entry or its  *)
(* time has passed, and for at most Length.  Who holds it may outlive it,  *)
(* and may vanish and leave the entry behind.  RemoteInfo implements the   *)
(* grant with a read and a compare-and-set.                                *)
(***************************************************************************)
EXTENDS Integers

CONSTANTS
    Holders,
    Length          \* LOCK_TIMEOUT_EXPIRATION

VARIABLES
    now,
    entry,          \* {} or the set of the one deadline on record
    until,          \* per holder: {} or the set of its deadline
    late            \* a holder was still there after its deadline

leaseVars == <<now, entry, until, late>>

Init ==
    /\ now = 0
    /\ entry = {}
    /\ until = [h \in Holders |-> {}]
    /\ late = FALSE

Grant(h, d) ==
    /\ until[h] = {}
    /\ \A e \in entry : e < now
    /\ entry' = {d}
    /\ until' = [until EXCEPT ![h] = {d}]
    /\ late' = (late \/ d < now)
    /\ now' = now

\* The entry is cleared, whoever made it.
Leave(h) ==
    /\ until[h] # {}
    /\ entry' = {}
    /\ until' = [until EXCEPT ![h] = {}]
    /\ UNCHANGED <<now, late>>

Wait ==
    /\ now' = now + 1
    /\ late' = (late \/ \E h \in Holders : \E d \in until[h] : d < now + 1)
    /\ UNCHANGED <<entry, until>>

Vanish ==
    /\ until' = [h \in Holders |-> {}]
    /\ UNCHANGED <<now, entry, late>>

Next ==
    \/ \E h \in Holders : Leave(h) \/ \E d \in 0 .. (now + Length) : Grant(h, d)
    \/ Wait
    \/ Vanish

Spec == Init /\ [][Next]_leaseVars
=============================================================================
