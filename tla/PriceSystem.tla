----------------------------- MODULE PriceSystem -----------------------------
(***************************************************************************)
(* The off-chain workers of pallets/example-offchain-worker on several     *)
(* nodes, composed with the on-chain half (PriceOracle).  Every node has   *)
(* its own persistent local storage and keystore; on every node several    *)
(* worker runs may be in progress, each looking at the state of the block  *)
(* it was started for.  What the runs submit goes to `sent'; the chain may *)
(* apply any element of it, in any order, at any later time, repeatedly or *)
(* never (pool rejection, loss, delay and re-gossip).  The calls are open  *)
(* to everybody, so the chain may as well apply what others author         *)
(* (`Foreign').                                                            *)
(***************************************************************************)
EXTENDS PriceOracle

CONSTANTS
    Nodes,
    Workers,        \* slots for concurrently executing runs
    Host,           \* the node each slot belongs to
    Keys,           \* per node: accounts with a "btc!" key in its keystore
    Others,         \* accounts whose key somebody uses outside the workers
    Foreign,        \* the extrinsics somebody other than a worker authors
    MaxForeign,     \* bound: prices of others that are accepted
    GracePeriod,    \* T::GracePeriod (3 in the runtime)
    TxTypes         \* TX_TYPES of pallets/ocw (4 in the code)

\* What others can author: anything bare or signed by a key of theirs, with
\* payloads they signed themselves or with no valid signature at all.
AuthoredByOthers ==
    {xt \in Extrinsic :
        /\ xt.signer \in Others \cup {NoAccount}
        /\ xt.call.fn = "submit_price_unsigned_with_signed_payload"
              => xt.call.signature \in Others \cup {NoAccount}}

ASSUME SystemAssumption ==
    /\ Host \in [Workers -> Nodes]
    /\ Keys \in [Nodes -> SUBSET Accounts]
    /\ Others \subseteq Accounts
    /\ Foreign \subseteq AuthoredByOthers
    /\ MaxForeign \in Nat
    /\ GracePeriod \in Nat
    /\ TxTypes \in Nat \ {0}

VARIABLES
    best,           \* the best block: number and the state a run may read
    lastSend,       \* per node: local storage example_ocw::last_send
    granted,        \* history, per node: blocks for which a run was let through
    run,            \* the runs in progress
    sent            \* extrinsics submitted by any run

workerVars == <<lastSend, granted, run, sent>>
sysVars == <<oracleVars, best, workerVars>>

NeverSent == -1

View == [number : 0 .. MaxBlock, nextUnsignedAt : Nat,
         nonce : [Accounts -> 0 .. MaxNonce]]

RunState ==
    [pc : {"idle", "read", "cas", "check", "fetch", "send"},
     view : View,                       \* state of the block of the run
     seen : {NeverSent} \cup Nat,       \* last_send as `mutate' read it
     price : PriceSet \cup {0}]         \* result of fetch_price

InitialView == [number |-> 0, nextUnsignedAt |-> 0, nonce |-> [a \in Accounts |-> 0]]

Idle == [pc |-> "idle", view |-> InitialView, seen |-> NeverSent, price |-> 0]

Goto(r, pc) == run' = [run EXCEPT ![r].pc = pc]
Return(r)   == run' = [run EXCEPT ![r] = Idle]

BlockNumber(r) == run[r].view.number

\* A run that choose_transaction_type has let through.
LetThrough == {"check", "fetch", "send"}

\* The block of a run let through, for each slot.
Admitted ==
    [r \in Workers |-> IF run[r].pc \in LetThrough THEN BlockNumber(r) ELSE NeverSent]

\* last_send and the runs let through, as the atomic permit has them.
Permit == INSTANCE SendPermit WITH admitted <- Admitted

\* match on block_number % 3; the Raw arm of the code cannot be reached.
transaction_type(block_number) ==
    CASE block_number % 3 = 0 -> "Signed"
      [] block_number % 3 = 1 -> "UnsignedForAny"
      [] block_number % 3 = 2 -> "UnsignedForAll"

-----------------------------------------------------------------------------
SysInit ==
    /\ Init
    /\ best = InitialView
    /\ lastSend = [n \in Nodes |-> NeverSent]
    /\ granted = [n \in Nodes |-> << >>]
    /\ run = [r \in Workers |-> Idle]
    /\ sent = {}

\* The executor starts a run for the best block; a block may be skipped, or
\* started more than once.
offchain_worker(r) ==
    /\ run[r].pc = "idle"
    /\ best.number > 0
    /\ run' = [run EXCEPT ![r] = [Idle EXCEPT !.pc = "read", !.view = best]]
    /\ UNCHANGED <<oracleVars, best, lastSend, granted, sent>>

\* Slip: the grace period ends one block early.
ReadLastSend_early(r) ==
    LET last == lastSend[Host[r]] IN
    /\ run[r].pc = "read"
    /\ IF last # NeverSent /\ BlockNumber(r) + 1 < last + GracePeriod
       THEN Return(r)
       ELSE run' = [run EXCEPT ![r].pc = "cas", ![r].seen = last]
    /\ UNCHANGED <<oracleVars, best, lastSend, granted, sent>>

\* choose_transaction_type, `mutate' reads last_send and calls the closure:
\* RECENTLY_SENT ends the run.
ReadLastSend(r) ==
    LET last == lastSend[Host[r]] IN
    /\ run[r].pc = "read"
    /\ IF last # NeverSent /\ BlockNumber(r) < last + GracePeriod
       THEN Return(r)
       ELSE run' = [run EXCEPT ![r].pc = "cas", ![r].seen = last]
    /\ UNCHANGED <<oracleVars, best, lastSend, granted, sent>>

\* Slip: ConcurrentModification is treated like success.
CasLastSend_ignores_conflict(r) ==
    LET n == Host[r] IN
    /\ run[r].pc = "cas"
    /\ IF lastSend[n] = run[r].seen
       THEN /\ lastSend' = [lastSend EXCEPT ![n] = BlockNumber(r)]
            /\ granted' = [granted EXCEPT ![n] = Append(@, BlockNumber(r))]
       ELSE UNCHANGED <<lastSend, granted>>
    /\ Goto(r, "check")
    /\ UNCHANGED <<oracleVars, best, sent>>

\* choose_transaction_type, `mutate' compares and sets: the run goes on only
\* if last_send is still what it read (otherwise ConcurrentModification).
CasLastSend(r) ==
    LET n == Host[r] IN
    /\ run[r].pc = "cas"
    /\ \/ /\ lastSend[n] = run[r].seen
          /\ lastSend' = [lastSend EXCEPT ![n] = BlockNumber(r)]
          /\ granted' = [granted EXCEPT ![n] = Append(@, BlockNumber(r))]
          /\ Goto(r, "check")
       \/ /\ lastSend[n] # run[r].seen
          /\ Return(r)
          /\ UNCHANGED <<lastSend, granted>>
    /\ UNCHANGED <<oracleVars, best, sent>>

\* The check each fetch_price_and_send_* makes before it fetches: a local
\* key (signed), or the cooldown as the run's block sees it (unsigned).
CheckBeforeFetch(r) ==
    /\ run[r].pc = "check"
    /\ IF \/ transaction_type(BlockNumber(r)) = "Signed" /\ Keys[Host[r]] = {}
          \/ /\ transaction_type(BlockNumber(r)) # "Signed"
             /\ run[r].view.nextUnsignedAt > BlockNumber(r)
       THEN Return(r)
       ELSE Goto(r, "fetch")
    /\ UNCHANGED <<oracleVars, best, lastSend, granted, sent>>

\* fetch_price: a price, or any of its errors.
FetchPrice(r) ==
    /\ run[r].pc = "fetch"
    /\ \/ \E p \in PriceSet :
             run' = [run EXCEPT ![r].pc = "send", ![r].price = p]
       \/ Return(r)
    /\ UNCHANGED <<oracleVars, best, lastSend, granted, sent>>

\* Slip: the nonce is left out.
SignedBy_without_nonce(r, key, other) ==
    [signer |-> key, call |-> [fn |-> "submit_price", price |-> run[r].price]]

\* The accounts for which the worker of pallets/ocw may have signed a number
\* earlier in the same call.
NumberSigners(r) ==
    {NoAccount} \cup (IF BlockNumber(r) % TxTypes = 0 THEN Keys[Host[r]] \cap Shared ELSE {})

\* External: send_signed_transaction reads the account's nonce in the state
\* of the run's block, with the increment of an earlier submission of the
\* same call; create_transaction of the runtime signs.
SignedBy(r, key, other) ==
    [signer |-> key,
     nonce |-> run[r].view.nonce[key] + (IF key = other THEN 1 ELSE 0),
     call |-> [fn |-> "submit_price", price |-> run[r].price]]

\* External: send_unsigned_transaction signs the payload with the key.
WithPayloadBy(r, key) ==
    [signer |-> NoAccount,
     call |-> [fn |-> "submit_price_unsigned_with_signed_payload",
               payload |-> [block_number |-> BlockNumber(r),
                            price |-> run[r].price, public |-> key],
               signature |-> key]]

\* Slip: every account submits twice, with successive nonces.
fetch_price_and_send_signed_twice(r) ==
    /\ run[r].pc = "send"
    /\ transaction_type(BlockNumber(r)) = "Signed"
    /\ sent' = sent \cup {[SignedBy(r, key, NoAccount) EXCEPT !.nonce = @ + d] :
                            key \in Keys[Host[r]], d \in {0, 1}}
    /\ Return(r)
    /\ UNCHANGED <<oracleVars, best, lastSend, granted>>

fetch_price_and_send_signed(r) ==
    /\ run[r].pc = "send"
    /\ transaction_type(BlockNumber(r)) = "Signed"
    /\ \E other \in NumberSigners(r) :
          sent' = sent \cup {SignedBy(r, key, other) : key \in Keys[Host[r]]}
    /\ Return(r)
    /\ UNCHANGED <<oracleVars, best, lastSend, granted>>

\* any_account() uses one of the keys; without a key nothing is sent.
fetch_price_and_send_unsigned_for_any_account(r) ==
    /\ run[r].pc = "send"
    /\ transaction_type(BlockNumber(r)) = "UnsignedForAny"
    /\ \/ \E key \in Keys[Host[r]] : sent' = sent \cup {WithPayloadBy(r, key)}
       \/ Keys[Host[r]] = {} /\ UNCHANGED sent
    /\ Return(r)
    /\ UNCHANGED <<oracleVars, best, lastSend, granted>>

fetch_price_and_send_unsigned_for_all_accounts(r) ==
    /\ run[r].pc = "send"
    /\ transaction_type(BlockNumber(r)) = "UnsignedForAll"
    /\ sent' = sent \cup {WithPayloadBy(r, key) : key \in Keys[Host[r]]}
    /\ Return(r)
    /\ UNCHANGED <<oracleVars, best, lastSend, granted>>

-----------------------------------------------------------------------------
\* The chain applies something that a worker sent or somebody else authored,
\* or an account's extrinsic of another pallet.
Include ==
    /\ \/ \E xt \in sent : Apply(xt)
       \/ /\ Cardinality({i \in 1 .. Len(applied) : applied[i].xt \in Foreign}) < MaxForeign
          /\ \E xt \in Foreign : Apply(xt)
       \/ \E a \in Shared : OtherExtrinsic(a)
    /\ UNCHANGED <<best, workerVars>>

\* A block is sealed and imported: it becomes the best block, and its state
\* the one that new runs see.
ImportBlock ==
    /\ NewBlock
    /\ best' = [number |-> block, nextUnsignedAt |-> nextUnsignedAt, nonce |-> nonce]
    /\ UNCHANGED workerVars

\* A node dies and restarts: its runs are gone, its local storage persists.
Restart(n) ==
    /\ run' = [r \in Workers |-> IF Host[r] = n THEN Idle ELSE run[r]]
    /\ UNCHANGED <<oracleVars, best, lastSend, granted, sent>>

Work(r) ==
    \/ offchain_worker(r)
    \/ ReadLastSend(r)
    \/ CasLastSend(r)
    \/ CheckBeforeFetch(r)
    \/ FetchPrice(r)
    \/ fetch_price_and_send_signed(r)
    \/ fetch_price_and_send_unsigned_for_any_account(r)
    \/ fetch_price_and_send_unsigned_for_all_accounts(r)

SysNext ==
    \/ \E r \in Workers : Work(r)
    \/ \E n \in Nodes : Restart(n)
    \/ Include
    \/ ImportBlock

SysSpec == SysInit /\ [][SysNext]_sysVars

-----------------------------------------------------------------------------
(* Properties. *)

\* Run records, local storage and submitted extrinsics keep their types.
SysTypeOK ==
    /\ TypeOK
    /\ best \in View
    /\ lastSend \in [Nodes -> {NeverSent} \cup Nat]
    /\ granted \in [Nodes -> Seq(Nat)]
    /\ run \in [Workers -> RunState]
    /\ sent \subseteq Extrinsic

\* However the runs of a node interleave, crash, lag behind or are started
\* twice for a block, choose_transaction_type lets them through at blocks at
\* least GracePeriod apart, in increasing order.
GraceSpacing ==
    \A n \in Nodes : \A i, j \in 1 .. Len(granted[n]) :
        i < j => granted[n][i] + GracePeriod <= granted[n][j]

\* The read and the compare-and-set of choose_transaction_type implement the
\* atomic permit of SendPermit: a run goes on to fetch and send only if, in
\* one step, the stored last_send was old enough and became the run's block,
\* and no other step, end of a run or death of a node touches the entry.
PermitSpec == Permit!Spec

\* Anybody may submit an unsigned price, bare or with a payload of his own.
\* But one whose payload is signed by a key that only workers use comes from
\* a run that was let through for exactly the block the payload claims, on a
\* node that holds the key, however late or often it was delivered.
UnsignedFromPermit ==
    \A i \in 1 .. Len(applied) :
        LET call == applied[i].xt.call IN
        (/\ IsUnsigned(applied[i].xt)
         /\ call.fn = "submit_price_unsigned_with_signed_payload"
         /\ call.payload.public \notin Others)
        => \E n \in Nodes :
              /\ call.payload.public \in Keys[n]
              /\ \E k \in 1 .. Len(granted[n]) :
                    granted[n][k] = call.payload.block_number

\* Permits for signed prices that were given to holders of a key: the node
\* and the number of the permit.
SignedPermits(a) ==
    UNION {{n} \X {k \in 1 .. Len(granted[n]) : transaction_type(granted[n][k]) = "Signed"} :
             n \in {m \in Nodes : a \in Keys[m]}}

\* The accepted signed prices of an account that are due to workers: all of
\* them, or if others sign for the account too, those that a worker sent.
WorkerPrices(a) ==
    {i \in 1 .. Len(applied) :
        /\ applied[i].xt.signer = a
        /\ a \in Others => applied[i].xt \in sent}

\* submit_price is open to every account.  But nodes that share a key race
\* for its nonce, with each other and with whoever else signs for the
\* account, and still the workers' signed prices of an account on the chain
\* never outnumber the permits its holders were granted.
SignedBoundedByPermits ==
    \A a \in Accounts : Cardinality(WorkerPrices(a)) <= Cardinality(SignedPermits(a))
==============================================================================
