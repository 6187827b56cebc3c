---------------------------- MODULE TxPoolProofs ----------------------------
(* Proofs about TxPool, for any number of nodes and transactions and for     *)
(* every interval, priority and longevity.                                   *)
EXTENDS TxPool, PriceOracleProofs

\* NextUnsignedAt, verdict and tag in the state before block k of chain c.
NextAt(c, k) == c[k].nextUnsignedAt

ValidAt(c, xt, k) ==
    IsPrice(xt) => validate_unsigned(xt.call, NextAt(c, k), k) = "Valid"

TagAt(c, xt, k) ==
    IF IsPrice(xt) THEN <<"ExampleOffchainWorker", NextAt(c, k)>>
    ELSE <<"ocw-demo", xt.call.fn>>

\* The states blocks left behind: a later one has the same NextUnsignedAt, or
\* one that lies a full interval behind the earlier block, because a price
\* was accepted in between; and it lies behind every price accepted so far.
ChainInv ==
    /\ chain \in Seq(ChainState) /\ Len(chain) = block
    /\ body \subseteq PoolTx
    /\ \A j, k \in 1 .. block :
          j <= k => \/ NextAt(chain, k) = NextAt(chain, j)
                    \/ NextAt(chain, k) >= j + UnsignedInterval
    /\ \/ nextUnsignedAt = NextAt(chain, block)
       \/ nextUnsignedAt >= block + UnsignedInterval
    /\ \A i \in 1 .. Len(applied), k \in 1 .. block :
          IsUnsigned(applied[i].xt) /\ applied[i].at < k
          => NextAt(chain, k) >= applied[i].at + UnsignedInterval

\* An entry was valid for a block up to h, and carries the tag of that block.
GoodEntry(c, e, h) ==
    /\ e.xt \in PoolTx
    /\ e.at \in 1 .. h
    /\ ValidAt(c, e.xt, e.at)
    /\ e.tag = TagAt(c, e.xt, e.at)

\* A pool holds good entries, one for each tag.
GoodPool(c, p, h) ==
    /\ \A e \in p : GoodEntry(c, e, h)
    /\ \A e, f \in p : e.tag = f.tag => e = f

PoolsGood ==
    /\ head \in [Nodes -> 1 .. block]
    /\ pool = [n \in Nodes |-> pool[n]]
    /\ \A n \in Nodes : GoodPool(chain, pool[n], head[n])

\* The inductive invariant.
PoolInv == Inv /\ ChainInv /\ PoolsGood

-----------------------------------------------------------------------------
(* Facts about transactions and pools. *)

\* The verdict of the validators, and the tag they set.
LEMMA Attributes ==
    ASSUME NEW xt, NEW k
    PROVE  /\ validity(xt, k) = "Valid" <=> ValidAt(chain, xt, k)
           /\ provides(xt, k) = TagAt(chain, xt, k)
BY DEF validity, provides, ValidAt, TagAt, NextAt

\* A price of the pool is an unsigned extrinsic of the oracle.
LEMMA PriceIsExtrinsic ==
    ASSUME NEW xt \in PoolTx, IsPrice(xt)
    PROVE  /\ xt \in Extrinsic /\ IsUnsigned(xt)
           /\ xt.call \in Call /\ xt.call.fn # "submit_price"
<1>1. xt.call \in Offered /\ xt.signer = NoAccount
  BY DEF PoolTx
<1>2. xt.call \in SubmitPriceUnsigned \cup SubmitPriceWithPayload
  BY <1>1, PoolAssumption DEF IsPrice, NumberCall
<1>3. xt.call \in Call /\ xt.call.fn # "submit_price"
  BY <1>2 DEF Call, SubmitPriceUnsigned, SubmitPriceWithPayload
<1>4. xt \in [signer : {NoAccount}, call : Call]
  BY <1>1, <1>3 DEF PoolTx
<1> QED
  BY <1>1, <1>3, <1>4 DEF Extrinsic, IsUnsigned

\* A price that is valid for block k claims a block between the end of the
\* cooldown and k.
LEMMA ValidPrice ==
    ASSUME NEW c, NEW xt \in PoolTx, IsPrice(xt), NEW k \in Nat, NextAt(c, k) \in Nat,
           ValidAt(c, xt, k)
    PROVE  /\ BlockOf(xt.call) \in Nat
           /\ NextAt(c, k) <= BlockOf(xt.call) /\ BlockOf(xt.call) <= k
<1>1. BlockOf(xt.call) \in Nat
  BY PriceIsExtrinsic, BlockType
<1>2. validate_transaction_parameters(BlockOf(xt.call), NextAt(c, k), k) = "Valid"
  BY PriceIsExtrinsic DEF ValidAt, validate_unsigned
<1> QED
  BY <1>1, <1>2 DEF validate_transaction_parameters

\* Importing good entries keeps a pool good.
LEMMA ImportGood ==
    ASSUME NEW c, NEW p, NEW new, NEW h,
           \A e \in p \cup new : GoodEntry(c, e, h)
    PROVE  GoodPool(c, Import(p, new), h)
BY DEF GoodPool, Import

\* A part of a good pool is good.
LEMMA PartGood ==
    ASSUME NEW c, NEW p, NEW q, NEW h, q \subseteq p, GoodPool(c, p, h)
    PROVE  GoodPool(c, q, h)
BY DEF GoodPool

\* Good entries stay good as the head moves on and the chain grows.
LEMMA StaysGood ==
    ASSUME NEW c, NEW d, NEW e, NEW h \in Nat, NEW g \in Nat, h <= g,
           \A k \in 1 .. h : d[k] = c[k], GoodEntry(c, e, h)
    PROVE  GoodEntry(d, e, g)
<1>1. e.at \in 1 .. h /\ e.at \in 1 .. g
  BY DEF GoodEntry
<1> QED
  BY <1>1 DEF GoodEntry, ValidAt, TagAt, NextAt

\* What validation lets in is good.
LEMMA ValidatedGood ==
    ASSUME NEW xt \in PoolTx, NEW h \in Nat, NEW k \in 1 .. h, validity(xt, k) = "Valid"
    PROVE  GoodEntry(chain, Validated(xt, k), h)
BY Attributes DEF GoodEntry, Validated

\* The types of the state that the steps rely on.
LEMMA PoolTypes ==
    ASSUME PoolInv
    PROVE  /\ block \in Nat /\ nextUnsignedAt \in Nat /\ UnsignedInterval \in Nat \ {0}
           /\ block \in 1 .. block
           /\ \A k \in 1 .. block : chain[k] \in ChainState /\ NextAt(chain, k) \in Nat
           /\ \A n \in Nodes : head[n] \in 1 .. block /\ head[n] \in Nat
<1>1. /\ block \in 1 .. MaxBlock /\ nextUnsignedAt \in Nat /\ UnsignedInterval \in Nat \ {0}
      /\ MaxBlock \in Nat
  BY OracleAssumption DEF PoolInv, Inv, TypeOK
<1>2. block \in Nat /\ block \in 1 .. block
  BY <1>1
<1>3. ASSUME NEW k \in 1 .. block PROVE chain[k] \in ChainState /\ NextAt(chain, k) \in Nat
  <2>1. chain[k] \in ChainState
    BY <1>3 DEF PoolInv, ChainInv
  <2> QED
    BY <2>1 DEF ChainState, NextAt
<1>4. ASSUME NEW n \in Nodes PROVE head[n] \in 1 .. block /\ head[n] \in Nat
  BY <1>2, <1>4 DEF PoolInv, PoolsGood
<1> QED
  BY <1>1, <1>2, <1>3, <1>4

-----------------------------------------------------------------------------
(* The steps. *)

\* Genesis satisfies the invariant.
LEMMA PoolInitInv == PoolInit => PoolInv
<1> SUFFICES ASSUME PoolInit PROVE PoolInv
  OBVIOUS
<1> USE OracleAssumption
<1> DEFINE g == [nextUnsignedAt |-> 0, prices |-> << >>, body |-> {}]
<1>1. Inv
  BY InitInv DEF PoolInit
<1>2. g \in ChainState
  BY DEF ChainState
<1>3. chain = <<g>> /\ chain \in Seq(ChainState) /\ Len(chain) = 1 /\ block = 1
      /\ nextUnsignedAt = 0 /\ applied = << >> /\ body = {}
  BY <1>2 DEF PoolInit, Init
<1>4. NextAt(chain, 1) = 0
  BY <1>3 DEF NextAt
<1>5. ChainInv
  BY <1>3, <1>4 DEF ChainInv
<1>6. PoolsGood
  BY <1>3 DEF PoolInit, PoolsGood, GoodPool
<1> QED
  BY <1>1, <1>5, <1>6 DEF PoolInv

\* A node's pool and head change, the chain does not.
LEMMA PoolStep ==
    ASSUME PoolInv, NEW n \in Nodes, NEW p, NEW h \in 1 .. block, GoodPool(chain, p, h),
           pool' = [pool EXCEPT ![n] = p], head' = [head EXCEPT ![n] = h],
           UNCHANGED <<oracleVars, chain, body>>
    PROVE  PoolInv'
<1>1. Inv'
  BY NextInv DEF PoolInv
<1>2. ChainInv'
  BY DEF PoolInv, ChainInv, oracleVars, IsUnsigned
<1>3. /\ pool'[n] = p /\ head'[n] = h
      /\ \A m \in Nodes : m # n => pool'[m] = pool[m] /\ head'[m] = head[m]
      /\ pool' = [m \in Nodes |-> pool'[m]]
  BY DEF PoolInv, PoolsGood
<1>4. head' \in [Nodes -> 1 .. block]
  BY DEF PoolInv, PoolsGood
<1>5. \A m \in Nodes : GoodPool(chain, pool'[m], head'[m])
  BY <1>3 DEF PoolInv, PoolsGood
<1>6. PoolsGood'
  BY <1>3, <1>4, <1>5 DEF PoolsGood, oracleVars
<1> QED
  BY <1>1, <1>2, <1>6 DEF PoolInv

\* The pool of one node changes, its head stays.
LEMMA PoolOnly ==
    ASSUME PoolInv, NEW n \in Nodes, NEW p, GoodPool(chain, p, head[n]),
           pool' = [pool EXCEPT ![n] = p], UNCHANGED <<oracleVars, chain, head, body>>
    PROVE  PoolInv'
<1>1. head' = [head EXCEPT ![n] = head[n]]
  BY DEF PoolInv, PoolsGood
<1>2. head[n] \in 1 .. block
  BY PoolTypes
<1> QED
  BY <1>1, <1>2, PoolStep

\* A transaction comes in with a verdict of its node's best block or an
\* older one.
LEMMA SubmitInv ==
    ASSUME PoolInv, NEW n \in Nodes, NEW xt \in PoolTx, NEW k \in VerdictBlocks(n, xt),
           Submit(n, xt, k)
    PROVE  PoolInv'
<1>1. head[n] \in Nat /\ head[n] \in 1 .. block /\ k \in 1 .. head[n]
  BY PoolTypes DEF VerdictBlocks
<1>2. GoodEntry(chain, Validated(xt, k), head[n])
  BY <1>1, ValidatedGood DEF Submit
<1>3. GoodPool(chain, Import(pool[n], {Validated(xt, k)}), head[n])
  <2>1. \A e \in pool[n] \cup {Validated(xt, k)} : GoodEntry(chain, e, head[n])
    BY <1>2 DEF PoolInv, PoolsGood, GoodPool
  <2> QED
    BY <2>1, ImportGood
<1>4. pool' = [pool EXCEPT ![n] = Import(pool[n], {Validated(xt, k)})]
  BY DEF Submit, PoolInv, PoolsGood
<1> QED
  BY <1>3, <1>4, PoolOnly DEF Submit

\* A transaction is validated again, for the best block.
LEMMA RevalidateInv ==
    ASSUME PoolInv, NEW n \in Nodes, NEW e \in pool[n], Revalidate(n, e)
    PROVE  PoolInv'
<1> DEFINE others == pool[n] \ {e}
           p == IF validity(e.xt, head[n]) = "Valid"
                THEN Import(others, {Validated(e.xt, head[n])}) ELSE others
<1>1. head[n] \in Nat /\ head[n] \in 1 .. head[n]
  BY PoolTypes
<1>2. GoodPool(chain, pool[n], head[n]) /\ e.xt \in PoolTx
  BY DEF PoolInv, PoolsGood, GoodPool, GoodEntry
<1>3. GoodPool(chain, others, head[n])
  BY <1>2, PartGood
<1>4. CASE validity(e.xt, head[n]) = "Valid"
  <2>1. GoodEntry(chain, Validated(e.xt, head[n]), head[n])
    BY <1>1, <1>2, <1>4, ValidatedGood
  <2>2. \A f \in others \cup {Validated(e.xt, head[n])} : GoodEntry(chain, f, head[n])
    BY <1>3, <2>1 DEF GoodPool
  <2>3. GoodPool(chain, p, head[n])
    BY <1>4, <2>2, ImportGood
  <2> QED
    BY <2>3, PoolOnly DEF Revalidate
<1>5. CASE validity(e.xt, head[n]) # "Valid"
  BY <1>3, <1>5, PoolOnly DEF Revalidate
<1> QED
  BY <1>4, <1>5

\* A node forgets its pool.
LEMMA RestartInv ==
    ASSUME PoolInv, NEW n \in Nodes, Restart(n)
    PROVE  PoolInv'
<1>1. GoodPool(chain, {}, head[n])
  BY DEF GoodPool
<1> QED
  BY <1>1, PoolOnly DEF Restart

\* A node imports a block, prunes its pool and validates again what shared a
\* tag with the block.
LEMMA ImportBlockInv ==
    ASSUME PoolInv, NEW n \in Nodes, ImportBlock(n)
    PROVE  PoolInv'
<1> DEFINE k == head[n]
           used == UsedTags(pool[n], k)
           kept == {e \in pool[n] : e.tag \notin used}
           again == {xt \in {e.xt : e \in pool[n] \ kept} \ chain[k + 1].body :
                       validity(xt, k + 1) = "Valid"}
           new == {Validated(xt, k + 1) : xt \in again}
           p == {e \in Import(kept, new) : k < valid_till(e)}
<1>1. /\ k \in Nat /\ k \in 1 .. block /\ k + 1 \in 1 .. block
      /\ k + 1 \in Nat /\ k + 1 \in 1 .. (k + 1) /\ k <= k + 1
  BY PoolTypes DEF ImportBlock
<1>2. /\ head' = [head EXCEPT ![n] = k + 1] /\ pool' = [pool EXCEPT ![n] = p]
      /\ UNCHANGED <<oracleVars, chain, author, body>>
  BY DEF ImportBlock
<1>3. \A e \in pool[n] : GoodEntry(chain, e, k) /\ e.xt \in PoolTx
  BY DEF PoolInv, PoolsGood, GoodPool, GoodEntry
<1>4. \A e \in kept : GoodEntry(chain, e, k + 1)
  <2> SUFFICES ASSUME NEW e \in pool[n] PROVE GoodEntry(chain, e, k + 1)
    OBVIOUS
  <2> HIDE DEF k
  <2> QED
    BY <1>1, <1>3, StaysGood
<1>5. \A e \in new : GoodEntry(chain, e, k + 1)
  <2> SUFFICES ASSUME NEW xt \in PoolTx, validity(xt, k + 1) = "Valid"
               PROVE  GoodEntry(chain, Validated(xt, k + 1), k + 1)
    BY <1>3
  <2> HIDE DEF k
  <2> QED
    BY <1>1, ValidatedGood
<1>6. GoodPool(chain, Import(kept, new), k + 1)
  <2> HIDE DEF k, kept, new
  <2> QED
    BY <1>4, <1>5, ImportGood
<1>7. GoodPool(chain, p, k + 1)
  <2>1. p \subseteq Import(kept, new)
    OBVIOUS
  <2> HIDE DEF k, kept, new, p
  <2> QED
    BY <1>6, <2>1, PartGood
<1> HIDE DEF k, kept, new, p
<1> QED
  BY <1>1, <1>2, <1>7, PoolStep

\* Something happens in the block under construction.
LEMMA BuildStep ==
    ASSUME PoolInv, Next, block' = block, UNCHANGED <<chain, head>>,
           body' \subseteq PoolTx,
           \/ nextUnsignedAt' = nextUnsignedAt
           \/ nextUnsignedAt' = block + UnsignedInterval,
           \E xt \in Extrinsic : applied' \in {applied, Append(applied, [xt |-> xt, at |-> block])},
           pool' = [n \in Nodes |-> pool'[n]],
           \A n \in Nodes : pool'[n] \subseteq pool[n]
    PROVE  PoolInv'
<1>1. Inv'
  BY NextInv DEF PoolInv
<1>2. PoolsGood'
  <2>1. \A n \in Nodes : GoodPool(chain, pool'[n], head[n])
    BY PartGood DEF PoolInv, PoolsGood
  <2> QED
    BY <2>1 DEF PoolInv, PoolsGood
<1>3. ASSUME NEW i \in 1 .. Len(applied'), NEW k \in 1 .. block,
             IsUnsigned(applied'[i].xt), applied'[i].at < k
      PROVE  NextAt(chain, k) >= applied'[i].at + UnsignedInterval
  <2>0. applied \in Seq(Entry) /\ block \in Nat /\ k \in Nat /\ ~ (block < k)
    BY PoolTypes DEF PoolInv, Inv, TypeOK
  <2>1. CASE applied' = applied
    BY <1>3, <2>1 DEF PoolInv, ChainInv
  <2>2. CASE applied' # applied
    <3>1. PICK xt \in Extrinsic : applied' = Append(applied, [xt |-> xt, at |-> block])
      BY <2>2
    <3>2. [xt |-> xt, at |-> block] \in Entry
      BY DEF Entry, PoolInv, Inv, TypeOK
    <3>3. CASE i \in 1 .. Len(applied)
      <4>1. applied'[i] = applied[i]
        BY <2>0, <3>1, <3>2, <3>3
      <4> QED
        BY <1>3, <3>3, <4>1 DEF PoolInv, ChainInv
    <3>4. CASE i = Len(applied) + 1
      <4>1. applied'[i] = [xt |-> xt, at |-> block]
        BY <2>0, <3>1, <3>2, <3>4
      <4> QED
        BY <1>3, <2>0, <4>1
    <3> QED
      BY <2>0, <3>1, <3>2, <3>3, <3>4
  <2> QED
    BY <2>1, <2>2
<1>4. \/ nextUnsignedAt' = NextAt(chain, block)
      \/ nextUnsignedAt' >= block + UnsignedInterval
  BY PoolTypes DEF PoolInv, ChainInv
<1>5. ChainInv'
  BY <1>3, <1>4 DEF PoolInv, ChainInv, IsUnsigned
<1> QED
  BY <1>1, <1>2, <1>5 DEF PoolInv

\* An unsigned price is applied: the cooldown starts in this block.
LEMMA ApplyPrice ==
    ASSUME NEW xt \in PoolTx, IsPrice(xt), Apply(xt)
    PROVE  /\ Next /\ block' = block
           /\ nextUnsignedAt' = block + UnsignedInterval
           /\ applied' = Append(applied, [xt |-> xt, at |-> block])
<1>1. xt \in Extrinsic /\ IsUnsigned(xt) /\ xt.call.fn # "submit_price"
  BY PriceIsExtrinsic
<1>2. ~ SignedPreDispatch(xt)
  BY <1>1, OracleAssumption DEF SignedPreDispatch, IsUnsigned
<1>3. submit_price_unsigned(xt) \/ submit_price_unsigned_with_signed_payload(xt)
  BY <1>1, <1>2 DEF Apply, submit_price, EnsureNoneFails
<1> QED
  BY <1>1, <1>3 DEF Next, submit_price_unsigned, submit_price_unsigned_with_signed_payload,
     add_price

\* The author fills a block with numbers and at most one price.
LEMMA ProposeInv ==
    ASSUME PoolInv, NEW n \in Nodes, NEW tried \in SUBSET pool[n], Propose(n, tried)
    PROVE  PoolInv' /\ [Next]_oracleVars
<1> DEFINE prices_tried == {e \in tried : IsPrice(e.xt)}
           valid == {e \in prices_tried :
                       validate_unsigned(e.xt.call, nextUnsignedAt, block) = "Valid"}
           numbers == {e.xt : e \in tried \ prices_tried}
<1>1. numbers \subseteq PoolTx /\ \A e \in valid : e.xt \in PoolTx /\ IsPrice(e.xt)
  BY DEF PoolInv, PoolsGood, GoodPool, GoodEntry
<1>2. UNCHANGED <<chain, head>>
  BY DEF Propose
<1>3. CASE /\ pool' = [pool EXCEPT ![n] = @ \ prices_tried]
           /\ body' = numbers
           /\ UNCHANGED oracleVars
  <2>1. GoodPool(chain, pool[n] \ prices_tried, head[n])
    BY PartGood DEF PoolInv, PoolsGood
  <2>2. Inv'
    BY <1>3, NextInv DEF PoolInv
  <2>3. ChainInv'
    BY <1>1, <1>2, <1>3 DEF PoolInv, ChainInv, oracleVars, IsUnsigned
  <2>4. \A m \in Nodes : GoodPool(chain, pool'[m], head[m])
    BY <1>3, <2>1 DEF PoolInv, PoolsGood
  <2>5. pool' = [m \in Nodes |-> pool'[m]]
    BY <1>3 DEF PoolInv, PoolsGood
  <2>6. PoolsGood'
    BY <1>2, <1>3, <2>4, <2>5 DEF PoolInv, PoolsGood, oracleVars
  <2> QED
    BY <1>3, <2>2, <2>3, <2>6 DEF PoolInv
<1>4. ASSUME NEW e \in valid, Apply(e.xt),
             pool' = [pool EXCEPT ![n] = @ \ (prices_tried \ {e})],
             body' = numbers \cup {e.xt}
      PROVE  PoolInv' /\ Next
  <2>1. /\ Next /\ block' = block /\ nextUnsignedAt' = block + UnsignedInterval
        /\ applied' = Append(applied, [xt |-> e.xt, at |-> block])
    BY <1>1, <1>4, ApplyPrice
  <2>2. body' \subseteq PoolTx /\ e.xt \in Extrinsic
    BY <1>1, <1>4, PriceIsExtrinsic
  <2>3. /\ pool' = [m \in Nodes |-> pool'[m]]
        /\ \A m \in Nodes : pool'[m] \subseteq pool[m]
    BY <1>4 DEF PoolInv, PoolsGood
  <2> QED
    BY <1>2, <2>1, <2>2, <2>3, BuildStep
<1> QED
  BY <1>3, <1>4 DEF Propose

\* A signed price in the block leaves the cooldown alone.
LEMMA PushSignedInv ==
    ASSUME PoolInv, NEW xt \in Extrinsic, PushSigned(xt)
    PROVE  PoolInv' /\ Next
<1>1. Next
  BY DEF PushSigned, Next, Apply
<1>2. /\ block' = block /\ nextUnsignedAt' = nextUnsignedAt
      /\ applied' = Append(applied, [xt |-> xt, at |-> block])
      /\ UNCHANGED <<chain, head, pool, body>>
  BY DEF PushSigned, submit_price, add_price
<1>3. body' \subseteq PoolTx /\ pool' = [m \in Nodes |-> pool'[m]]
      /\ \A m \in Nodes : pool'[m] \subseteq pool[m]
  BY <1>2 DEF PoolInv, ChainInv, PoolsGood
<1> QED
  BY <1>1, <1>2, <1>3, BuildStep

\* A sealed block adds a state to the chain.
LEMMA SealInv ==
    ASSUME PoolInv, Seal
    PROVE  PoolInv' /\ Next
<1> DEFINE s == [nextUnsignedAt |-> nextUnsignedAt, prices |-> prices, body |-> body]
<1>0. /\ block \in Nat /\ nextUnsignedAt \in Nat /\ UnsignedInterval \in Nat
      /\ block \in 1 .. block /\ applied \in Seq(Entry)
      /\ \A k \in 1 .. block : NextAt(chain, k) \in Nat
  BY PoolTypes DEF PoolInv, Inv, TypeOK
<1>1. Next /\ Inv'
  BY NextInv DEF Seal, Next, PoolInv
<1>2. /\ block' = block + 1 /\ chain' = Append(chain, s) /\ body' = {}
      /\ UNCHANGED <<nextUnsignedAt, applied, head, pool>>
  BY DEF Seal, NewBlock
<1>3. s \in ChainState
  BY DEF ChainState, PoolInv, ChainInv, Inv, TypeOK
<1>4. chain \in Seq(ChainState) /\ Len(chain) = block
  BY DEF PoolInv, ChainInv
<1>5. /\ chain' \in Seq(ChainState) /\ Len(chain') = block'
      /\ \A k \in 1 .. block : chain'[k] = chain[k]
      /\ chain'[block + 1] = s
  BY <1>0, <1>2, <1>3, <1>4
<1>6. /\ \A k \in 1 .. block : NextAt(chain', k) = NextAt(chain, k)
      /\ NextAt(chain', block + 1) = nextUnsignedAt
  BY <1>5 DEF NextAt
<1>7. ASSUME NEW j \in 1 .. (block + 1), NEW k \in 1 .. (block + 1), j <= k
      PROVE  \/ NextAt(chain', k) = NextAt(chain', j)
             \/ NextAt(chain', k) >= j + UnsignedInterval
  <2>1. CASE k \in 1 .. block
    <3>1. j \in 1 .. block
      BY <1>0, <1>7, <2>1
    <3> QED
      BY <1>6, <1>7, <2>1, <3>1 DEF PoolInv, ChainInv
  <2>2. CASE k = block + 1 /\ j = block + 1
    BY <2>2
  <2>3. CASE k = block + 1 /\ j \in 1 .. block
    <3>1. \/ NextAt(chain, block) = NextAt(chain, j)
          \/ NextAt(chain, block) >= j + UnsignedInterval
      BY <1>0, <2>3 DEF PoolInv, ChainInv
    <3>2. \/ nextUnsignedAt = NextAt(chain, block)
          \/ nextUnsignedAt >= block + UnsignedInterval
      BY DEF PoolInv, ChainInv
    <3>3. nextUnsignedAt = NextAt(chain, j) \/ nextUnsignedAt >= j + UnsignedInterval
      BY <1>0, <2>3, <3>1, <3>2
    <3> QED
      BY <1>6, <2>3, <3>3
  <2> QED
    BY <1>0, <2>1, <2>2, <2>3
<1>8. ASSUME NEW i \in 1 .. Len(applied), NEW k \in 1 .. (block + 1),
             IsUnsigned(applied[i].xt), applied[i].at < k
      PROVE  NextAt(chain', k) >= applied[i].at + UnsignedInterval
  <2>1. CASE k \in 1 .. block
    BY <1>6, <1>8, <2>1 DEF PoolInv, ChainInv
  <2>2. CASE k = block + 1
    <3>1. applied[i] \in Entry /\ applied[i].at \in Nat
      BY <1>0, <1>8, EntryType
    <3>2. applied[i].at + UnsignedInterval <= nextUnsignedAt
      BY <1>8 DEF PoolInv, Inv, AllRecorded, Recorded
    <3> QED
      BY <1>0, <1>6, <2>2, <3>1, <3>2
  <2> QED
    BY <1>0, <2>1, <2>2
<1>9. nextUnsignedAt = NextAt(chain', block + 1)
  BY <1>6
<1>10. ChainInv'
  BY <1>2, <1>5, <1>7, <1>8, <1>9 DEF ChainInv, IsUnsigned
<1>11. PoolsGood'
  <2>1. ASSUME NEW n \in Nodes PROVE GoodPool(chain', pool[n], head[n])
    <3>1. head[n] \in Nat /\ head[n] \in 1 .. block /\ head[n] <= head[n]
      BY PoolTypes
    <3>2. \A k \in 1 .. head[n] : chain'[k] = chain[k]
      BY <1>0, <1>5, <3>1
    <3>3. \A e \in pool[n] : GoodEntry(chain', e, head[n])
      BY <3>1, <3>2, StaysGood DEF PoolInv, PoolsGood, GoodPool
    <3> QED
      BY <3>3 DEF PoolInv, PoolsGood, GoodPool
  <2>2. head \in [Nodes -> 1 .. block'] /\ pool = [n \in Nodes |-> pool[n]]
    BY <1>0, <1>2 DEF PoolInv, PoolsGood
  <2> QED
    BY <1>2, <2>1, <2>2 DEF PoolsGood
<1> QED
  BY <1>1, <1>10, <1>11 DEF PoolInv

\* Every step keeps the invariant, and is a step or a stutter of the oracle.
LEMMA PoolNextInv == PoolInv /\ [PoolNext]_poolVars => PoolInv' /\ [Next]_oracleVars
<1> SUFFICES ASSUME PoolInv, [PoolNext]_poolVars PROVE PoolInv' /\ [Next]_oracleVars
  OBVIOUS
<1>1. CASE UNCHANGED poolVars
  <2>1. Inv'
    BY <1>1, NextInv DEF PoolInv, poolVars
  <2>2. ChainInv' /\ PoolsGood'
    BY <1>1 DEF PoolInv, ChainInv, PoolsGood, poolVars, oracleVars, IsUnsigned
  <2> QED
    BY <1>1, <2>1, <2>2 DEF PoolInv, poolVars
<1>2. ASSUME NEW n \in Nodes, NEW xt \in PoolTx, NEW k \in VerdictBlocks(n, xt),
             Submit(n, xt, k)
      PROVE  PoolInv' /\ UNCHANGED oracleVars
  BY <1>2, SubmitInv DEF Submit
<1>3. ASSUME NEW n \in Nodes, NEW e \in pool[n], Revalidate(n, e)
      PROVE  PoolInv' /\ UNCHANGED oracleVars
  BY <1>3, RevalidateInv DEF Revalidate
<1>4. ASSUME NEW n \in Nodes, ImportBlock(n) \/ Restart(n)
      PROVE  PoolInv' /\ UNCHANGED oracleVars
  BY <1>4, ImportBlockInv, RestartInv DEF ImportBlock, Restart
<1>5. ASSUME NEW n \in Authorities, NEW tried \in SUBSET pool[n], Propose(n, tried)
      PROVE  PoolInv' /\ [Next]_oracleVars
  BY <1>5, ProposeInv, PoolAssumption
<1> QED
  BY <1>1, <1>2, <1>3, <1>4, <1>5, PushSignedInv, SealInv DEF PoolNext

-----------------------------------------------------------------------------
\* The invariant holds in every reachable state.
THEOREM PoolInvariance == PoolSpec => []PoolInv
BY PoolInitInv, PoolNextInv, PTL DEF PoolSpec

\* Pools and block authors drive the chain by steps of PriceOracle only: the
\* oracle's guarantees hold whatever the pools do.
THEOREM PoolsDriveOracle == PoolSpec => Spec
<1>1. PoolInit => Init
  BY DEF PoolInit
<1> QED
  BY <1>1, PoolInvariance, PoolNextInv, PTL DEF PoolSpec, Spec

\* A price that is valid for the block after the head has the tag of the
\* current session: one that was let in by an earlier session is stale.
LEMMA CurrentTag ==
    ASSUME PoolInv, NEW n \in Nodes, NEW e \in pool[n], IsPrice(e.xt),
           validity(e.xt, head[n]) = "Valid"
    PROVE  e.tag = TagAt(chain, e.xt, head[n])
<1> DEFINE h == head[n]
<1>1. h \in Nat /\ h \in 1 .. block /\ block \in Nat /\ UnsignedInterval \in Nat \ {0}
  BY PoolTypes
<1>2. GoodEntry(chain, e, h)
  BY DEF PoolInv, PoolsGood, GoodPool
<1>3. e.xt \in PoolTx /\ e.at \in 1 .. h /\ e.at \in 1 .. block /\ e.at \in Nat /\ e.at <= h
  <2>1. e.xt \in PoolTx /\ e.at \in 1 .. h
    BY <1>2 DEF GoodEntry
  <2> HIDE DEF h
  <2> QED
    BY <1>1, <2>1
<1>4. NextAt(chain, e.at) \in Nat /\ NextAt(chain, h) \in Nat
  BY <1>1, <1>3, PoolTypes
<1>5. BlockOf(e.xt.call) \in Nat /\ BlockOf(e.xt.call) <= e.at
  BY <1>2, <1>3, <1>4, ValidPrice DEF GoodEntry
<1>6. NextAt(chain, h) <= BlockOf(e.xt.call)
  <2>1. ValidAt(chain, e.xt, h)
    BY Attributes
  <2> HIDE DEF h
  <2> QED
    BY <1>1, <1>3, <1>4, <2>1, ValidPrice
<1>7. \/ NextAt(chain, h) = NextAt(chain, e.at)
      \/ NextAt(chain, h) >= e.at + UnsignedInterval
  BY <1>1, <1>3 DEF PoolInv, ChainInv
<1>8. NextAt(chain, h) = NextAt(chain, e.at)
  <2> HIDE DEF h
  <2> QED
    BY <1>1, <1>3, <1>4, <1>5, <1>6, <1>7
<1> QED
  BY <1>2, <1>8 DEF GoodEntry, TagAt

\* In every pool at most one unsigned price is valid, for any number of
\* nodes, authors and transactions and any interval.
THEOREM OnePriceForSession == PoolSpec => []OneValidPrice
<1>1. PoolInv => OneValidPrice
  <2> SUFFICES ASSUME PoolInv, NEW n \in Nodes, NEW e \in pool[n], NEW f \in pool[n],
                      IsPrice(e.xt), validity(e.xt, head[n]) = "Valid",
                      IsPrice(f.xt), validity(f.xt, head[n]) = "Valid"
               PROVE  e = f
    BY DEF OneValidPrice
  <2>1. e.tag = TagAt(chain, e.xt, head[n]) /\ f.tag = TagAt(chain, f.xt, head[n])
    BY CurrentTag
  <2>2. e.tag = f.tag
    BY <2>1 DEF TagAt
  <2> QED
    BY <2>2 DEF PoolInv, PoolsGood, GoodPool
<1> QED
  BY <1>1, PoolInvariance, PTL

\* An included price never becomes valid again in the pool of a node that
\* knows the block.
THEOREM IncludedNeverValidAgain == PoolSpec => []NoReplayFromPool
<1>1. PoolInv => NoReplayFromPool
  <2> SUFFICES ASSUME PoolInv, NEW n \in Nodes, NEW e \in pool[n],
                      NEW i \in 1 .. Len(applied),
                      applied[i].xt = e.xt, applied[i].at < head[n],
                      validity(e.xt, head[n]) = "Valid"
               PROVE  FALSE
    BY DEF NoReplayFromPool
  <2>1. e.xt \in PoolTx /\ IsUnsigned(e.xt)
    BY DEF PoolInv, PoolsGood, GoodPool, GoodEntry, PoolTx, IsUnsigned
  <2>2. applied[i] \in Entry /\ applied[i].at \in Nat /\ applied[i].xt.call \in Call
    BY EntryType DEF PoolInv, Inv, TypeOK
  <2>3. IsPrice(e.xt)
    BY <2>2 DEF IsPrice, NumberFns, Call, SubmitPrice, SubmitPriceUnsigned, SubmitPriceWithPayload
  <2>4. /\ head[n] \in Nat /\ head[n] \in 1 .. block /\ UnsignedInterval \in Nat \ {0}
        /\ NextAt(chain, head[n]) \in Nat
    BY PoolTypes
  <2>5. BlockOf(e.xt.call) <= applied[i].at
    BY <2>1 DEF PoolInv, Inv, AllRecorded, Recorded
  <2>6. NextAt(chain, head[n]) >= applied[i].at + UnsignedInterval
    BY <2>1, <2>4 DEF PoolInv, ChainInv
  <2>7. BlockOf(e.xt.call) \in Nat /\ NextAt(chain, head[n]) <= BlockOf(e.xt.call)
    BY <2>1, <2>3, <2>4, Attributes, ValidPrice
  <2> QED
    BY <2>2, <2>4, <2>5, <2>6, <2>7
<1> QED
  BY <1>1, PoolInvariance, PTL

-----------------------------------------------------------------------------
(* The types of the pools.  The priority is a number because average_price   *)
(* is one for every window.                                                  *)

\* The priority that validation for block k sets.
LEMMA PriorityType ==
    ASSUME PoolInv, NEW xt \in PoolTx, NEW k \in 1 .. block
    PROVE  priority(xt, k) \in Nat
<1>1. UnsignedPriority \in Nat /\ UNSIGNED_TXS_PRIORITY \in Nat
  BY PoolAssumption
<1>2. CASE ~ IsPrice(xt)
  BY <1>1, <1>2 DEF priority
<1>3. CASE IsPrice(xt)
  <2> DEFINE window == chain[k].prices
             price == PriceOf(xt.call)
  <2>1. price \in Nat
    <3>1. price \in PriceSet
      BY <1>3, PriceIsExtrinsic, PriceType
    <3> HIDE DEF price
    <3> QED
      BY <3>1, OracleAssumption
  <2>2. window \in Seq(0 .. U32Max)
    <3>1. window \in Seq(PriceSet)
      BY PoolTypes DEF ChainState
    <3> HIDE DEF window
    <3> QED
      BY <3>1, WindowOfU32
  <2>3. window # << >> => average_price(window) \in Nat
    <3> HIDE DEF window
    <3> QED
      BY <2>2, AverageBounds
  <2>4. distance(price, k) \in Nat
    <3> DEFINE average == average_price(window)
    <3>1. distance(price, k) = IF window = << >> THEN 0
                               ELSE IF average > price THEN average - price ELSE price - average
      BY DEF distance
    <3> HIDE DEF window, price, average
    <3>2. window # << >> => average \in Nat
      BY <2>3 DEF average
    <3> QED
      BY <2>1, <3>1, <3>2
  <2> HIDE DEF price
  <2> QED
    BY <1>1, <1>3, <2>4 DEF priority, price
<1> QED
  BY <1>2, <1>3

\* What validation lets in is an entry.
LEMMA ValidatedType ==
    ASSUME PoolInv, NEW xt \in PoolTx, NEW k \in 1 .. block
    PROVE  Validated(xt, k) \in Entries
<1>1. priority(xt, k) \in Nat
  BY PriorityType
<1>2. k \in 1 .. MaxBlock
  BY OracleAssumption DEF PoolInv, Inv, TypeOK
<1>3. provides(xt, k) \in ({"ExampleOffchainWorker"} \X Nat) \cup ({"ocw-demo"} \X NumberFns)
  <2>1. IsPrice(xt) => provides(xt, k) = <<"ExampleOffchainWorker", NextAt(chain, k)>>
    BY DEF provides, NextAt
  <2>2. NextAt(chain, k) \in Nat
    BY PoolTypes
  <2>3. ~ IsPrice(xt) => /\ provides(xt, k) = <<"ocw-demo", xt.call.fn>>
                         /\ xt.call.fn \in NumberFns
    BY DEF provides, IsPrice
  <2> QED
    BY <2>1, <2>2, <2>3
<1> QED
  BY <1>1, <1>2, <1>3 DEF Validated, Entries

\* Entries are entries, and the author is an authority.
PoolsTyped ==
    /\ \A n \in Nodes : pool[n] \subseteq Entries
    /\ author \in Authorities \cup {NoNode}

\* Replacing one node's pool by entries.
LEMMA OnePool ==
    ASSUME PoolInv, PoolsTyped, NEW n \in Nodes, NEW p, p \subseteq Entries,
           pool' = [pool EXCEPT ![n] = p]
    PROVE  \A m \in Nodes : pool'[m] \subseteq Entries
<1>1. pool = [m \in Nodes |-> pool[m]]
  BY DEF PoolInv, PoolsGood
<1>2. \A m \in Nodes : pool'[m] = IF m = n THEN p ELSE pool[m]
  BY <1>1
<1> QED
  BY <1>2 DEF PoolsTyped

\* Every step keeps the pools typed.
LEMMA PoolsTypedNext == PoolInv /\ PoolsTyped /\ [PoolNext]_poolVars => PoolsTyped'
<1> SUFFICES ASSUME PoolInv, PoolsTyped, [PoolNext]_poolVars PROVE PoolsTyped'
  OBVIOUS
<1>0. \A p, new : Import(p, new) \subseteq p \cup new
  BY DEF Import
<1>1. ASSUME NEW n \in Nodes, NEW xt \in PoolTx, NEW k \in VerdictBlocks(n, xt),
             Submit(n, xt, k)
      PROVE  PoolsTyped'
  <2>1. k \in 1 .. block
    BY PoolTypes DEF VerdictBlocks
  <2>2. Import(pool[n], {Validated(xt, k)}) \subseteq Entries
    BY <1>0, <2>1, ValidatedType DEF PoolsTyped
  <2> QED
    BY <1>1, <2>2, OnePool DEF Submit, PoolsTyped
<1>2. ASSUME NEW n \in Nodes, NEW e \in pool[n], Revalidate(n, e)
      PROVE  PoolsTyped'
  <2>1. head[n] \in 1 .. block /\ e.xt \in PoolTx
    BY PoolTypes DEF PoolInv, PoolsGood, GoodPool, GoodEntry
  <2>2. Validated(e.xt, head[n]) \in Entries
    BY <2>1, ValidatedType
  <2> DEFINE others == pool[n] \ {e}
             p == IF validity(e.xt, head[n]) = "Valid"
                  THEN Import(others, {Validated(e.xt, head[n])}) ELSE others
  <2>3. p \subseteq Entries
    BY <1>0, <2>2 DEF PoolsTyped
  <2>4. pool' = [pool EXCEPT ![n] = p] /\ author' = author
    BY <1>2 DEF Revalidate
  <2> HIDE DEF p
  <2> QED
    BY <2>3, <2>4, OnePool DEF PoolsTyped
<1>3. ASSUME NEW n \in Authorities, NEW tried \in SUBSET pool[n], Propose(n, tried)
      PROVE  PoolsTyped'
  <2>1. n \in Nodes
    BY PoolAssumption
  <2>2. PICK out : pool' = [pool EXCEPT ![n] = @ \ out] /\ author' = n
    BY <1>3 DEF Propose
  <2>3. pool[n] \ out \subseteq Entries
    BY <2>1 DEF PoolsTyped
  <2> QED
    BY <2>1, <2>2, <2>3, OnePool DEF PoolsTyped
<1>4. ASSUME NEW n \in Nodes, ImportBlock(n) PROVE PoolsTyped'
  <2> DEFINE k == head[n]
             used == UsedTags(pool[n], k)
             kept == {e \in pool[n] : e.tag \notin used}
             again == {xt \in {e.xt : e \in pool[n] \ kept} \ chain[k + 1].body :
                         validity(xt, k + 1) = "Valid"}
             new == {Validated(xt, k + 1) : xt \in again}
             p == {e \in Import(kept, new) : k < valid_till(e)}
  <2>1. k + 1 \in 1 .. block
    BY <1>4, PoolTypes DEF ImportBlock
  <2>2. \A xt \in again : xt \in PoolTx
    BY DEF PoolInv, PoolsGood, GoodPool, GoodEntry
  <2>3. new \subseteq Entries
    <3> HIDE DEF again, k
    <3> QED
      BY <2>1, <2>2, ValidatedType
  <2>4. kept \subseteq Entries
    BY DEF PoolsTyped
  <2>5. p \subseteq Entries
    <3> HIDE DEF kept, new
    <3> QED
      BY <1>0, <2>3, <2>4
  <2>6. pool' = [pool EXCEPT ![n] = p] /\ author' = author
    BY <1>4 DEF ImportBlock
  <2> HIDE DEF p
  <2> QED
    BY <2>5, <2>6, OnePool DEF PoolsTyped
<1>5. ASSUME NEW n \in Nodes, Restart(n) PROVE PoolsTyped'
  <2>1. pool' = [pool EXCEPT ![n] = {}] /\ author' = author
    BY <1>5 DEF Restart
  <2> QED
    BY <2>1, OnePool DEF PoolsTyped
<1>6. ASSUME UNCHANGED <<pool, author>> PROVE PoolsTyped'
  BY <1>6 DEF PoolsTyped
<1>7. CASE Seal
  BY <1>7 DEF Seal, PoolsTyped
<1> QED
  BY <1>1, <1>2, <1>3, <1>4, <1>5, <1>6, <1>7 DEF PoolNext, PushSigned, poolVars

\* Pools, chain and the block under construction keep their types; the
\* priority of a price is a number for every window of the chain.
THEOREM PoolTypeCorrect == PoolSpec => []PoolTypeOK
<1>1. PoolInit => PoolsTyped
  BY DEF PoolInit, PoolsTyped
<1>2. PoolInv /\ PoolsTyped => PoolTypeOK
  <2> SUFFICES ASSUME PoolInv, PoolsTyped PROVE PoolTypeOK
    OBVIOUS
  <2>1. /\ TypeOK /\ chain \in Seq(ChainState) /\ Len(chain) = block
        /\ head \in [Nodes -> 1 .. block] /\ body \subseteq PoolTx
        /\ author \in Authorities \cup {NoNode}
    BY DEF PoolInv, Inv, ChainInv, PoolsGood, PoolsTyped
  <2>2. pool \in [Nodes -> SUBSET Entries]
    <3>1. pool = [n \in Nodes |-> pool[n]] /\ \A n \in Nodes : pool[n] \in SUBSET Entries
      BY DEF PoolInv, PoolsGood, PoolsTyped
    <3> QED
      BY <3>1
  <2> QED
    BY <2>1, <2>2 DEF PoolTypeOK
<1> QED
  BY <1>1, <1>2, PoolsTypedNext, PoolInvariance, PTL DEF PoolSpec
=============================================================================
