----------------------------- MODULE SendPermit -----------------------------
(***************************************************************************)
(* What choose_transaction_type promises of the local storage entry        *)
(* example_ocw::last_send.  A run is admitted, that is let through to      *)
(* fetch and send, by one atomic action that finds the entry at least      *)
(* GracePeriod blocks old and replaces it by the block of the run.         *)
(* Nothing else changes the entry, not even the death of the node, and     *)
(* every admission has a permit of its own.  The off-chain workers of      *)
(* PriceSystem implement this with a read and a compare-and-set.           *)
(***************************************************************************)
EXTENDS Integers, Sequences

CONSTANTS
    Nodes,
    Workers,        \* slots for concurrently executing runs
    Host,           \* the node each slot belongs to
    Blocks,         \* block numbers a worker may run for
    GracePeriod     \* T::GracePeriod (3 in the runtime)

VARIABLES
    lastSend,       \* per node: block of the last permit, or NeverSent
    granted,        \* per node: history of all permits
    admitted        \* per slot: block of the admitted run, or NotAdmitted

permitVars == <<lastSend, granted, admitted>>

NeverSent == -1
NotAdmitted == -1

\* The closure given to `mutate' returns Ok(block_number).
MayGrant(last, b) == last = NeverSent \/ b >= last + GracePeriod

Init ==
    /\ lastSend = [n \in Nodes |-> NeverSent]
    /\ granted = [n \in Nodes |-> << >>]
    /\ admitted = [r \in Workers |-> NotAdmitted]

Grant(r, b) ==
    LET n == Host[r] IN
    /\ admitted[r] = NotAdmitted
    /\ MayGrant(lastSend[n], b)
    /\ lastSend' = [lastSend EXCEPT ![n] = b]
    /\ granted' = [granted EXCEPT ![n] = Append(@, b)]
    /\ admitted' = [admitted EXCEPT ![r] = b]

\* The run returns, with or without having sent anything.
End(r) ==
    /\ admitted' = [admitted EXCEPT ![r] = NotAdmitted]
    /\ UNCHANGED <<lastSend, granted>>

\* The node dies: its runs are gone, the entry stays.
Die(n) ==
    /\ admitted' = [r \in Workers |-> IF Host[r] = n THEN NotAdmitted ELSE admitted[r]]
    /\ UNCHANGED <<lastSend, granted>>

Next ==
    \/ \E r \in Workers : End(r) \/ \E b \in Blocks : Grant(r, b)
    \/ \E n \in Nodes : Die(n)

Spec == Init /\ [][Next]_permitVars
=============================================================================
