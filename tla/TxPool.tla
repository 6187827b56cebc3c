------------------------------- MODULE TxPool -------------------------------
(***************************************************************************)
(* The transaction pools of several nodes, as far as the two validators of *)
(* unsigned transactions decide what happens in them: the tag a            *)
(* transaction provides, its priority and its longevity.  The pool and the *)
(* block author are library code and are modelled from how the node uses   *)
(* them; the chain itself is PriceOracle.                                  *)
(*                                                                         *)
(* A transaction is validated in the state some block left behind, at any  *)
(* later moment is imported into the pool, and is validated again in the   *)
(* block that includes it.  Nodes import blocks at their own pace.         *)
(***************************************************************************)
EXTENDS PriceOracle

CONSTANTS
    Nodes,
    Authorities,            \* the nodes that author blocks
    NoNode,                 \* nobody is building a block
    Numbers,                \* the numbers unsigned calls of pallets/ocw carry
    Offered,                \* the unsigned calls the nodes or others author
    UnsignedPriority,       \* T::UnsignedPriority (3 in the runtime)
    UNSIGNED_TXS_PRIORITY,  \* priority of pallets/ocw (100 in the code)
    PriceLongevity,         \* 5 in the code
    NumberLongevity         \* 3 in the code

NumberFns == {"submit_number_unsigned", "submit_number_unsigned_with_signed_payload"}

\* Unsigned calls of pallets/ocw (their payload signature is that of its key).
NumberCall == [fn : NumberFns, number : Numbers]

ASSUME PoolAssumption ==
    /\ NoNode \notin Nodes
    /\ Authorities \subseteq Nodes
    /\ Offered \subseteq SubmitPriceUnsigned \cup SubmitPriceWithPayload \cup NumberCall
    /\ UnsignedPriority \in Nat
    /\ UNSIGNED_TXS_PRIORITY \in Nat
    /\ PriceLongevity \in Nat
    /\ NumberLongevity \in Nat

VARIABLES
    chain,      \* chain[k]: the state before block k, and what block k-1 held
    head,       \* per node: the block its pool validates for (its best, plus 1)
    pool,       \* per node: the ready transactions
    author,     \* who is building the current block
    body        \* unsigned transactions in the block being built

poolVars == <<oracleVars, chain, head, pool, author, body>>

-----------------------------------------------------------------------------
PoolTx == [signer : {NoAccount}, call : Offered]

IsPrice(xt) == xt.call.fn \notin NumberFns

ChainState ==
    [nextUnsignedAt : Nat, prices : Seq(PriceSet), body : SUBSET PoolTx]

\* What the validators say of a transaction in the state before block k.
validity(xt, k) ==
    IF IsPrice(xt) THEN validate_unsigned(xt.call, chain[k].nextUnsignedAt, k) ELSE "Valid"

\* Slip: the tag is the block the price was produced for.
provides_claim(xt, k) ==
    IF IsPrice(xt) THEN <<"ExampleOffchainWorker", BlockOf(xt.call)>>
    ELSE <<"ocw-demo", xt.call.fn>>

provides(xt, k) ==
    IF IsPrice(xt) THEN <<"ExampleOffchainWorker", chain[k].nextUnsignedAt>>
    ELSE <<"ocw-demo", xt.call.fn>>

\* Slip: the difference without its sign.
distance_below(price, k) ==
    IF chain[k].prices = << >> THEN 0 ELSE average_price(chain[k].prices) - price

\* How far a price is from the average of the state before block k.
distance(price, k) ==
    LET window == chain[k].prices
        average == average_price(window)
    IN  IF window = << >> THEN 0
        ELSE IF average > price THEN average - price ELSE price - average

priority(xt, k) ==
    IF IsPrice(xt) THEN UnsignedPriority + distance(PriceOf(xt.call), k)
    ELSE UNSIGNED_TXS_PRIORITY

longevity(xt) == IF IsPrice(xt) THEN PriceLongevity ELSE NumberLongevity

\* A transaction as validation for block k lets the pool keep it.
Validated(xt, k) ==
    [xt |-> xt, at |-> k, tag |-> provides(xt, k), priority |-> priority(xt, k)]

\* External: of the transactions that provide a tag the pool keeps the one
\* with the highest priority, and between equals the one it already has.
Beats(e, o, p) ==
    o.priority < e.priority \/ (o.priority = e.priority /\ (e \in p \/ o \notin p))

Winner(all, p, tag) ==
    CHOOSE e \in all :
        e.tag = tag /\ \A o \in all : o.tag = tag => o = e \/ Beats(e, o, p)

Import(p, new) == {e \in p \cup new : e = Winner(p \cup new, p, e.tag)}

-----------------------------------------------------------------------------
PoolInit ==
    /\ Init
    /\ chain = <<[nextUnsignedAt |-> 0, prices |-> << >>, body |-> {}]>>
    /\ head = [n \in Nodes |-> 1]
    /\ pool = [n \in Nodes |-> {}]
    /\ author = NoNode
    /\ body = {}

\* The states a verdict may stem from: validation runs beside block import,
\* so the block may be older than the node's best.  The validator of numbers
\* reads no state.
VerdictBlocks(n, xt) == IF IsPrice(xt) THEN 1 .. head[n] ELSE {head[n]}

\* A transaction reaches a node: from its own worker, by RPC or by gossip.
Submit(n, xt, k) ==
    /\ \A e \in pool[n] : e.xt # xt
    /\ validity(xt, k) = "Valid"
    /\ pool' = [pool EXCEPT ![n] = Import(@, {Validated(xt, k)})]
    /\ UNCHANGED <<oracleVars, chain, head, author, body>>

\* External: the pool revalidates in the background.
Revalidate(n, e) ==
    LET others == pool[n] \ {e} IN
    /\ e.at # head[n]
    /\ pool' = [pool EXCEPT ![n] =
                  IF validity(e.xt, head[n]) = "Valid"
                  THEN Import(others, {Validated(e.xt, head[n])}) ELSE others]
    /\ UNCHANGED <<oracleVars, chain, head, author, body>>

\* The author fills its block on top of the newest one: it tries its
\* transactions by priority until it is through or out of time.  The first
\* valid price goes in; that makes the others stale, and what was tried and
\* found invalid leaves the pool.
Propose(n, tried) ==
    LET prices_tried == {e \in tried : IsPrice(e.xt)}
        valid == {e \in prices_tried :
                    validate_unsigned(e.xt.call, nextUnsignedAt, block) = "Valid"}
        numbers == {e.xt : e \in tried \ prices_tried}
    IN
    /\ author = NoNode
    /\ head[n] = block
    /\ \A e \in tried, o \in pool[n] : o.priority > e.priority => o \in tried
    /\ \/ /\ valid = {}
          /\ pool' = [pool EXCEPT ![n] = @ \ prices_tried]
          /\ body' = numbers
          /\ UNCHANGED oracleVars
       \/ \E e \in valid :
             /\ \A o \in valid : o.priority <= e.priority
             /\ Apply(e.xt)
             /\ pool' = [pool EXCEPT ![n] = @ \ (prices_tried \ {e})]
             /\ body' = numbers \cup {e.xt}
    /\ author' = n
    /\ UNCHANGED <<chain, head>>

\* A signed price in the block; it moves the average.
PushSigned(xt) ==
    /\ author # NoNode
    /\ submit_price(xt)
    /\ UNCHANGED <<chain, head, pool, author, body>>

Seal ==
    /\ author # NoNode
    /\ NewBlock
    /\ chain' = Append(chain,
                  [nextUnsignedAt |-> nextUnsignedAt, prices |-> prices, body |-> body])
    /\ author' = NoNode
    /\ body' = {}
    /\ UNCHANGED <<head, pool>>

\* The tags that block k used up, for a node that has these transactions.
UsedTags(p, k) ==
    LET included == chain[k + 1].body
        mine == {e \in p : e.xt \in included}
    IN  {e.tag : e \in mine}
        \cup {provides(xt, k) : xt \in included \ {e.xt : e \in mine}}

\* Its longevity counts from the block in whose state it was validated.
valid_till(e) == e.at - 1 + longevity(e.xt)

\* A node imports the next block: what the block used up is pruned, what
\* shared a tag with it is validated again, and what is too old is cleared.
ImportBlock(n) ==
    LET k == head[n]
        used == UsedTags(pool[n], k)
        kept == {e \in pool[n] : e.tag \notin used}
        again == {xt \in {e.xt : e \in pool[n] \ kept} \ chain[k + 1].body :
                    validity(xt, k + 1) = "Valid"}
    IN
    /\ k < block
    /\ head' = [head EXCEPT ![n] = k + 1]
    /\ pool' = [pool EXCEPT ![n] =
                  {e \in Import(kept, {Validated(xt, k + 1) : xt \in again}) :
                      k < valid_till(e)}]
    /\ UNCHANGED <<oracleVars, chain, author, body>>

\* A node restarts; its pool is kept in memory only.
Restart(n) ==
    /\ author # n
    /\ pool' = [pool EXCEPT ![n] = {}]
    /\ UNCHANGED <<oracleVars, chain, head, author, body>>

PoolNext ==
    \/ \E n \in Nodes, xt \in PoolTx : \E k \in VerdictBlocks(n, xt) : Submit(n, xt, k)
    \/ \E n \in Nodes : \E e \in pool[n] : Revalidate(n, e)
    \/ \E n \in Authorities : \E tried \in SUBSET pool[n] : Propose(n, tried)
    \/ \E n \in Nodes : ImportBlock(n) \/ Restart(n)
    \/ \E xt \in Extrinsic : PushSigned(xt)
    \/ Seal

PoolSpec == PoolInit /\ [][PoolNext]_poolVars

-----------------------------------------------------------------------------
(* Properties. *)

Entries ==
    [xt : PoolTx, at : 1 .. MaxBlock, priority : Nat,
     tag : ({"ExampleOffchainWorker"} \X Nat) \cup ({"ocw-demo"} \X NumberFns)]

\* Pools, chain and the block under construction keep their types.
PoolTypeOK ==
    /\ TypeOK
    /\ chain \in Seq(ChainState) /\ Len(chain) = block
    /\ head \in [Nodes -> 1 .. block]
    /\ pool \in [Nodes -> SUBSET Entries]
    /\ author \in Authorities \cup {NoNode}
    /\ body \subseteq PoolTx

\* "This makes sure only one transaction produced after `next_unsigned_at'
\* will ever get to the transaction pool": of the unsigned prices in a pool,
\* with whatever tags they were let in by slow validations and earlier
\* sessions, at most one is still valid for the node's next block.
OneValidPrice ==
    \A n \in Nodes : \A e, f \in pool[n] :
        /\ IsPrice(e.xt) /\ validity(e.xt, head[n]) = "Valid"
        /\ IsPrice(f.xt) /\ validity(f.xt, head[n]) = "Valid"
        => e = f

\* A price that a block a node has imported already carries is never again
\* valid in that node's pool, although gossip or a slow validation may bring
\* it back there.
NoReplayFromPool ==
    \A n \in Nodes : \A e \in pool[n] : \A i \in 1 .. Len(applied) :
        applied[i].xt = e.xt /\ applied[i].at < head[n]
        => validity(e.xt, head[n]) # "Valid"
=============================================================================
