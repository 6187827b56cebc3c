------------------------- MODULE PriceOracleProofs -------------------------
(* Proofs about PriceOracle, for every value of its constants. *)
EXTENDS PriceOracle, FiniteSetTheorems, SequenceTheorems, TLAPS

\* What is known of an accepted price e in a state with this block, nonces
\* and NextUnsignedAt: it was accepted in a block that is not after the
\* current one; if it was unsigned, it claims a block that is not after the
\* accepting one, and NextUnsignedAt lies behind its session; if it was
\* signed, its nonce is used up.
Recorded(e, current, nonces, next) ==
    /\ e.at <= current
    /\ IsUnsigned(e.xt) =>
          /\ e.xt.call.fn # "submit_price"
          /\ BlockOf(e.xt.call) <= e.at
          /\ e.at + UnsignedInterval <= next
    /\ ~ IsUnsigned(e.xt) => e.xt.nonce < nonces[e.xt.signer]

AllRecorded ==
    \A i \in 1 .. Len(applied) : Recorded(applied[i], block, nonce, nextUnsignedAt)

\* The inductive invariant.
Inv ==
    /\ TypeOK
    /\ AllRecorded
    /\ UnsignedSession
    /\ AppliedOnce

-----------------------------------------------------------------------------
(* Facts about extrinsics. *)

\* The price a call carries is a price.
LEMMA PriceType == ASSUME NEW call \in Call PROVE PriceOf(call) \in PriceSet
BY DEF Call, SubmitPrice, SubmitPriceUnsigned, SubmitPriceWithPayload, PricePayload, PriceOf

\* The block an unsigned call claims is a natural number.
LEMMA BlockType ==
    ASSUME NEW call \in Call, call.fn # "submit_price"
    PROVE  BlockOf(call) \in Nat
BY OracleAssumption
   DEF Call, SubmitPrice, SubmitPriceUnsigned, SubmitPriceWithPayload, PricePayload,
       BlockOf, Blocks

\* The parts of a history entry.
LEMMA EntryType ==
    ASSUME NEW e \in Entry
    PROVE  /\ e.xt \in Extrinsic /\ e.at \in 1 .. MaxBlock /\ e.at \in Nat
           /\ e.xt.call \in Call
           /\ ~ IsUnsigned(e.xt) => e.xt.signer \in Accounts /\ e.xt.nonce \in Nat
           /\ IsUnsigned(e.xt) /\ e.xt.call.fn # "submit_price"
                 => BlockOf(e.xt.call) \in Nat
<1>1. e.xt \in Extrinsic /\ e.at \in 1 .. MaxBlock /\ e.at \in Nat
  BY OracleAssumption DEF Entry
<1>2. /\ e.xt.call \in Call
      /\ ~ IsUnsigned(e.xt) => e.xt.signer \in Accounts /\ e.xt.nonce \in Nat
  BY <1>1, OracleAssumption DEF Extrinsic, Nonces, IsUnsigned
<1> QED
  BY <1>1, <1>2, BlockType

\* An entry stays Recorded while block, nonces and NextUnsignedAt grow.
LEMMA RecordedStable ==
    ASSUME NEW e \in Entry,
           NEW b1 \in Nat, NEW b2 \in Nat, b1 <= b2,
           NEW n1 \in [Accounts -> 0 .. MaxNonce], NEW n2 \in [Accounts -> 0 .. MaxNonce],
           \A a \in Accounts : n1[a] <= n2[a],
           NEW u1 \in Nat, NEW u2 \in Nat, u1 <= u2,
           Recorded(e, b1, n1, u1)
    PROVE  Recorded(e, b2, n2, u2)
<1> USE OracleAssumption
<1>1. /\ e.at \in Nat
      /\ ~ IsUnsigned(e.xt) => e.xt.signer \in Accounts /\ e.xt.nonce \in Nat
  BY EntryType
<1>2. e.at <= b2
  BY <1>1 DEF Recorded
<1>3. IsUnsigned(e.xt) => e.at + UnsignedInterval <= u2
  BY <1>1 DEF Recorded
<1>4. ~ IsUnsigned(e.xt) => e.xt.nonce < n2[e.xt.signer]
  BY <1>1 DEF Recorded
<1> QED
  BY <1>2, <1>3, <1>4 DEF Recorded

\* WindowAfter keeps the window a sequence of prices, and makes it longer
\* only while it is short.
LEMMA WindowType ==
    ASSUME NEW w \in Seq(PriceSet), NEW p \in PriceSet, Len(w) <= MaxLen
    PROVE  /\ WindowAfter(w, p) \in Seq(PriceSet)
           /\ Len(WindowAfter(w, p)) = IF Len(w) < MaxLen THEN Len(w) + 1 ELSE Len(w)
<1>1. CASE Len(w) < MaxLen
  BY <1>1 DEF WindowAfter
<1>2. CASE ~ (Len(w) < MaxLen)
  <2>1. /\ p \in Int /\ MaxLen \in Nat \ {0}
    BY OracleAssumption
  <2>2. (p % MaxLen) + 1 \in 1 .. Len(w)
    BY <1>2, <2>1
  <2> QED
    BY <1>2, <2>2 DEF WindowAfter
<1> QED
  BY <1>1, <1>2

\* A call that passes validate_unsigned claims a block between
\* NextUnsignedAt and the current block.
LEMMA ValidCall ==
    ASSUME TypeOK, NEW call \in Call, validate_unsigned(call, nextUnsignedAt, block) = "Valid"
    PROVE  /\ call.fn # "submit_price"
           /\ nextUnsignedAt <= BlockOf(call)
           /\ BlockOf(call) <= block
<1>1. call.fn # "submit_price"
  BY DEF validate_unsigned, Call, SubmitPrice, SubmitPriceUnsigned, SubmitPriceWithPayload
<1>2. BlockOf(call) \in Nat
  BY <1>1, BlockType
<1>3. validate_transaction_parameters(BlockOf(call), nextUnsignedAt, block) = "Valid"
  BY <1>1 DEF validate_unsigned, BlockOf
<1> QED
  BY <1>1, <1>2, <1>3 DEF validate_transaction_parameters, TypeOK

-----------------------------------------------------------------------------
(* One accepted price keeps the invariant.  What the two kinds of accepted   *)
(* extrinsic have in common: the new entry is Recorded in the next state,    *)
(* and, if unsigned, claims a block behind every earlier session.            *)

\* Appending an applied extrinsic keeps the history typed and its entries in place.
LEMMA AppendEntry ==
    ASSUME Inv, NEW xt \in Extrinsic,
           block' = block,
           nonce' \in [Accounts -> 0 .. MaxNonce],
           \A a \in Accounts : nonce[a] <= nonce'[a],
           nextUnsignedAt' \in Nat, nextUnsignedAt <= nextUnsignedAt',
           add_price(xt),
           IsUnsigned(xt) =>
              /\ xt.call.fn # "submit_price"
              /\ nextUnsignedAt <= BlockOf(xt.call)
              /\ BlockOf(xt.call) <= block
              /\ block + UnsignedInterval <= nextUnsignedAt',
           ~ IsUnsigned(xt) => xt.nonce = nonce[xt.signer] /\ xt.nonce < nonce'[xt.signer]
    PROVE  Inv'
<1> DEFINE e == [xt |-> xt, at |-> block]
           N == Len(applied)
<1> USE OracleAssumption
<1>1. /\ xt.call \in Call /\ xt.signer \in Accounts \cup {NoAccount}
      /\ ~ IsUnsigned(xt) => xt.signer \in Accounts /\ xt.nonce \in Nat
  BY DEF Extrinsic, Nonces, IsUnsigned
<1>2. /\ applied \in Seq(Entry) /\ N \in Nat
      /\ e \in Entry
      /\ applied' = Append(applied, e)
  <2>1. applied \in Seq(Entry) /\ block \in 1 .. MaxBlock
    BY DEF Inv, TypeOK
  <2>2. N \in Nat /\ e \in Entry
    BY <2>1 DEF Entry
  <2> QED
    BY <2>1, <2>2 DEF add_price
<1>3. /\ applied' \in Seq(Entry)
      /\ Len(applied') = N + 1
      /\ \A i \in 1 .. N : applied'[i] = applied[i]
      /\ applied'[N + 1] = e
  BY <1>2
<1>4. /\ block \in Nat /\ block' \in Nat /\ block <= block' /\ nextUnsignedAt \in Nat
      /\ nonce \in [Accounts -> 0 .. MaxNonce]
  BY DEF Inv, TypeOK
<1>5. TypeOK'
  <2>1. PriceOf(xt.call) \in PriceSet
    BY <1>1, PriceType
  <2>2. /\ prices \in Seq(PriceSet) /\ Len(prices) <= MaxLen
        /\ Len(prices) = IF N < MaxLen THEN N ELSE MaxLen
    BY <1>2 DEF Inv, TypeOK
  <2>3. /\ prices' \in Seq(PriceSet)
        /\ Len(prices') = IF Len(prices) < MaxLen THEN Len(prices) + 1 ELSE Len(prices)
    BY <2>1, <2>2, WindowType DEF add_price
  <2>4. Len(prices') = IF Len(applied') < MaxLen THEN Len(applied') ELSE MaxLen
    BY <1>2, <1>3, <2>2, <2>3
  <2> QED
    BY <1>3, <2>3, <2>4 DEF Inv, TypeOK
<1>6. AllRecorded'
  <2>1. ASSUME NEW i \in 1 .. N
        PROVE  Recorded(applied[i], block', nonce', nextUnsignedAt')
    <3>1. Recorded(applied[i], block, nonce, nextUnsignedAt) /\ applied[i] \in Entry
      BY <1>2 DEF Inv, AllRecorded
    <3> QED
      BY <1>4, <3>1, RecordedStable
  <2>2. Recorded(e, block', nonce', nextUnsignedAt')
    BY <1>1, <1>4 DEF Recorded
  <2>3. \A i \in 1 .. Len(applied') : i \in 1 .. N \/ i = N + 1
    BY <1>2, <1>3
  <2> QED
    BY <1>3, <2>1, <2>2, <2>3 DEF AllRecorded
<1>7. UnsignedSession'
  <2> SUFFICES ASSUME NEW i \in 1 .. Len(applied'), NEW j \in 1 .. Len(applied'), i < j,
                      IsUnsigned(applied'[i].xt), IsUnsigned(applied'[j].xt)
               PROVE  /\ applied'[i].at + UnsignedInterval <= BlockOf(applied'[j].xt.call)
                      /\ BlockOf(applied'[j].xt.call) <= applied'[j].at
    BY DEF UnsignedSession, IsUnsigned, BlockOf
  <2>1. i \in 1 .. N /\ applied'[i] = applied[i] /\ applied[i] \in Entry
    BY <1>2, <1>3
  <2>2. CASE j \in 1 .. N
    BY <1>3, <2>1, <2>2 DEF Inv, UnsignedSession
  <2>3. CASE j = N + 1
    <3>1. applied[i].at + UnsignedInterval <= nextUnsignedAt
      BY <2>1 DEF Inv, AllRecorded, Recorded
    <3>2. BlockOf(xt.call) \in Nat /\ applied'[j].xt = xt /\ applied'[j].at = block
      BY <1>1, <1>3, <2>3, BlockType
    <3>3. applied[i].at \in Nat
      BY <2>1, EntryType
    <3> QED
      BY <1>3, <1>4, <2>1, <2>3, <3>1, <3>2, <3>3
  <2>4. j \in 1 .. N \/ j = N + 1
    <3>1. j \in 1 .. (N + 1) /\ N \in Nat
      BY <1>2, <1>3
    <3> HIDE DEF N
    <3> QED
      BY <3>1
  <2> QED
    BY <2>2, <2>3, <2>4
<1>8. AppliedOnce'
  <2>1. ASSUME NEW i \in 1 .. N PROVE applied[i].xt # xt
    <3>1. Recorded(applied[i], block, nonce, nextUnsignedAt) /\ applied[i] \in Entry
      BY <1>2 DEF Inv, AllRecorded
    <3>2. SUFFICES ASSUME applied[i].xt = xt PROVE FALSE
      OBVIOUS
    <3>3. CASE IsUnsigned(xt)
      <4>1. /\ applied[i].at \in Nat /\ BlockOf(xt.call) \in Nat
            /\ BlockOf(xt.call) <= applied[i].at
            /\ applied[i].at + UnsignedInterval <= nextUnsignedAt
        BY <3>1, <3>2, <3>3, EntryType DEF Recorded
      <4> QED
        BY <1>4, <3>3, <4>1
    <3>4. CASE ~ IsUnsigned(xt)
      BY <1>1, <1>4, <3>1, <3>2, <3>4 DEF Recorded
    <3> QED
      BY <3>3, <3>4
  <2>2. \A i, j \in 1 .. N : applied[i].xt = applied[j].xt => i = j
    BY DEF Inv, AppliedOnce
  <2>3. ASSUME NEW i \in 1 .. Len(applied'), NEW j \in 1 .. Len(applied'),
               applied'[i].xt = applied'[j].xt
        PROVE  i = j
    <3>1. (i \in 1 .. N \/ i = N + 1) /\ (j \in 1 .. N \/ j = N + 1)
      BY <1>2, <1>3
    <3>2. applied'[N + 1].xt = xt
      BY <1>3
    <3>3. CASE i \in 1 .. N /\ j \in 1 .. N
      BY <1>3, <2>2, <2>3, <3>3
    <3>4. CASE i \in 1 .. N /\ j = N + 1
      BY <1>3, <2>1, <2>3, <3>2, <3>4
    <3>5. CASE i = N + 1 /\ j \in 1 .. N
      BY <1>3, <2>1, <2>3, <3>2, <3>5
    <3> QED
      BY <3>1, <3>3, <3>4, <3>5
  <2> QED
    BY <2>3 DEF AppliedOnce
<1> QED
  BY <1>5, <1>6, <1>7, <1>8 DEF Inv

-----------------------------------------------------------------------------
\* The genesis state satisfies the invariant.
LEMMA InitInv == Init => Inv
BY OracleAssumption DEF Init, Inv, TypeOK, AllRecorded, UnsignedSession, AppliedOnce

\* The counter of a signed extrinsic's account moves past its nonce.
LEMMA SignedNonce ==
    ASSUME TypeOK, NEW xt \in Extrinsic, SignedPreDispatch(xt)
    PROVE  /\ nonce' \in [Accounts -> 0 .. MaxNonce]
           /\ \A a \in Accounts : nonce[a] <= nonce'[a]
           /\ ~ IsUnsigned(xt)
           /\ xt.nonce = nonce[xt.signer] /\ xt.nonce < nonce'[xt.signer]
BY OracleAssumption DEF TypeOK, SignedPreDispatch, IsUnsigned

\* Steps that accept no price leave the history as it is.
LEMMA NoEntry ==
    ASSUME Inv, UNCHANGED <<prices, nextUnsignedAt, applied>>,
           block' \in 1 .. MaxBlock, block <= block',
           nonce' \in [Accounts -> 0 .. MaxNonce],
           \A a \in Accounts : nonce[a] <= nonce'[a]
    PROVE  Inv'
<1> USE OracleAssumption
<1>1. TypeOK'
  BY DEF Inv, TypeOK
<1>2. AllRecorded'
  <2>1. /\ block \in Nat /\ block' \in Nat /\ nextUnsignedAt \in Nat
        /\ nonce \in [Accounts -> 0 .. MaxNonce] /\ applied \in Seq(Entry)
    BY DEF Inv, TypeOK
  <2>2. ASSUME NEW i \in 1 .. Len(applied)
        PROVE  Recorded(applied[i], block', nonce', nextUnsignedAt)
    <3>1. Recorded(applied[i], block, nonce, nextUnsignedAt) /\ applied[i] \in Entry
      BY <2>1 DEF Inv, AllRecorded
    <3>2. nextUnsignedAt <= nextUnsignedAt
      BY <2>1
    <3> QED
      BY <2>1, <3>1, <3>2, RecordedStable
  <2> QED
    BY <2>2 DEF AllRecorded
<1>3. UnsignedSession' /\ AppliedOnce'
  BY DEF Inv, UnsignedSession, AppliedOnce, IsUnsigned, BlockOf
<1> QED
  BY <1>1, <1>2, <1>3 DEF Inv

\* Every step of the pallet keeps the invariant.
LEMMA NextInv == Inv /\ [Next]_oracleVars => Inv'
<1> SUFFICES ASSUME Inv, [Next]_oracleVars PROVE Inv'
  OBVIOUS
<1> USE OracleAssumption
<1>0. TypeOK
  BY DEF Inv
<1>1. ASSUME NEW xt \in Extrinsic, submit_price(xt) PROVE Inv'
  BY <1>0, <1>1, SignedNonce, AppendEntry DEF submit_price, TypeOK
<1>2. ASSUME NEW xt \in Extrinsic, UnsignedPreDispatch(xt), add_price(xt),
             nextUnsignedAt' = block + UnsignedInterval, block' = block
      PROVE  Inv'
  <2>1. xt.call \in Call /\ IsUnsigned(xt) /\ validate_unsigned(xt.call, nextUnsignedAt, block) = "Valid"
    BY <1>2 DEF Extrinsic, UnsignedPreDispatch
  <2>2. /\ xt.call.fn # "submit_price"
        /\ nextUnsignedAt <= BlockOf(xt.call)
        /\ BlockOf(xt.call) <= block
        /\ BlockOf(xt.call) \in Nat
    BY <1>0, <2>1, ValidCall, BlockType
  <2>3. nextUnsignedAt <= nextUnsignedAt' /\ nextUnsignedAt' \in Nat
        /\ block + UnsignedInterval <= nextUnsignedAt'
    BY <1>0, <1>2, <2>2 DEF TypeOK
  <2>4. nonce' \in [Accounts -> 0 .. MaxNonce] /\ \A a \in Accounts : nonce[a] <= nonce'[a]
    BY <1>0, <1>2 DEF UnsignedPreDispatch, TypeOK
  <2> QED
    BY <1>2, <2>1, <2>2, <2>3, <2>4, AppendEntry
<1>3. ASSUME NEW xt \in Extrinsic, submit_price_unsigned(xt) PROVE Inv'
  BY <1>2, <1>3 DEF submit_price_unsigned
<1>4. ASSUME NEW xt \in Extrinsic, submit_price_unsigned_with_signed_payload(xt) PROVE Inv'
  BY <1>2, <1>4 DEF submit_price_unsigned_with_signed_payload
<1>5. ASSUME NEW xt \in Extrinsic, EnsureNoneFails(xt) PROVE Inv'
  BY <1>0, <1>5, SignedNonce, NoEntry DEF EnsureNoneFails, TypeOK
<1>6. CASE NewBlock
  BY <1>0, <1>6, NoEntry DEF NewBlock, TypeOK
<1>7. CASE UNCHANGED oracleVars
  BY <1>0, <1>7, NoEntry DEF oracleVars, TypeOK
<1>8. ASSUME NEW a \in Shared, OtherExtrinsic(a) PROVE Inv'
  <2>1. nonce' \in [Accounts -> 0 .. MaxNonce] /\ \A b \in Accounts : nonce[b] <= nonce'[b]
    BY <1>0, <1>8 DEF OtherExtrinsic, TypeOK
  <2> QED
    BY <1>0, <1>8, <2>1, NoEntry DEF OtherExtrinsic, TypeOK
<1> QED
  BY <1>1, <1>3, <1>4, <1>5, <1>6, <1>7, <1>8 DEF Next, Apply

\* The invariant holds in every reachable state.
THEOREM Invariance == Spec => []Inv
BY InitInv, NextInv, PTL DEF Spec

\* Storage keeps its types, and the window never grows past MaxLen.
THEOREM TypeCorrect == Spec => []TypeOK
<1>1. Inv => TypeOK
  BY DEF Inv
<1> QED
  BY <1>1, Invariance, PTL

\* For every interval and every set of extrinsics the network may deliver,
\* accepted unsigned prices lie a full UnsignedInterval apart.
THEOREM SessionsApart == Spec => []UnsignedSession
<1>1. Inv => UnsignedSession
  BY DEF Inv
<1> QED
  BY <1>1, Invariance, PTL

\* No extrinsic is applied twice.
THEOREM NoReplay == Spec => []AppliedOnce
<1>1. Inv => AppliedOnce
  BY DEF Inv
<1> QED
  BY <1>1, Invariance, PTL

\* The pallet implements the door of Cooldown: every accepted unsigned price
\* is a Pass, every new block a Tick, and nothing else touches the door.
THEOREM CooldownImplemented == Spec => CooldownSpec
<1>1. Init => Door!Init
  BY DEF Init, Door!Init
<1>2. Inv /\ [Next]_oracleVars => [Door!Next]_(Door!doorVars)
  <2> SUFFICES ASSUME Inv, [Next]_oracleVars
               PROVE  [Door!Next]_(Door!doorVars)
    OBVIOUS
  <2>0. TypeOK
    BY DEF Inv
  <2>1. ASSUME NEW xt \in Extrinsic, UnsignedPreDispatch(xt),
               nextUnsignedAt' = block + UnsignedInterval, block' = block
        PROVE  Door!Pass
    <3>1. xt.call \in Call /\ validate_unsigned(xt.call, nextUnsignedAt, block) = "Valid"
      BY <2>1 DEF Extrinsic, UnsignedPreDispatch
    <3>2. /\ nextUnsignedAt <= BlockOf(xt.call)
          /\ BlockOf(xt.call) <= block
          /\ BlockOf(xt.call) \in Nat
      BY <2>0, <3>1, ValidCall, BlockType
    <3> QED
      BY <2>0, <2>1, <3>2, OracleAssumption DEF TypeOK, Door!Pass
  <2>2. ASSUME block' = block + 1, nextUnsignedAt' = nextUnsignedAt PROVE Door!Tick
    BY <2>2 DEF Door!Tick
  <2>3. ASSUME UNCHANGED <<block, nextUnsignedAt>> PROVE UNCHANGED Door!doorVars
    BY <2>3 DEF Door!doorVars
  <2>4. ASSUME NEW xt \in Extrinsic, Apply(xt) PROVE [Door!Next]_(Door!doorVars)
    BY <2>1, <2>3, <2>4 DEF Apply, submit_price, submit_price_unsigned,
       submit_price_unsigned_with_signed_payload, EnsureNoneFails, Door!Next
  <2> QED
    BY <2>2, <2>3, <2>4 DEF Next, OtherExtrinsic, NewBlock, oracleVars, Door!Next
<1> QED
  BY <1>1, <1>2, Invariance, PTL DEF Spec, CooldownSpec, Door!Spec

-----------------------------------------------------------------------------
(* The contents of the window, as a fact about a window w and a history h.   *)

SlotOf(e) == (PriceOf(e.xt.call) % MaxLen) + 1

OverwritesOf(h, slot) == {j \in (MaxLen + 1) .. Len(h) : SlotOf(h[j]) = slot}

\* What slot holds: the price that filled it, or the newest that hit it.
Holds(w, h, slot) ==
    \/ /\ OverwritesOf(h, slot) = {}
       /\ w[slot] = PriceOf(h[slot].xt.call)
    \/ \E j \in OverwritesOf(h, slot) :
          /\ \A k \in OverwritesOf(h, slot) : k <= j
          /\ w[slot] = PriceOf(h[j].xt.call)

\* One accepted price keeps every slot of the window accounted for.
LEMMA WindowStep ==
    ASSUME NEW w \in Seq(PriceSet), NEW h \in Seq(Entry), NEW e \in Entry,
           Len(w) = IF Len(h) < MaxLen THEN Len(h) ELSE MaxLen,
           \A slot \in 1 .. Len(w) : Holds(w, h, slot)
    PROVE  LET v == WindowAfter(w, PriceOf(e.xt.call))
           IN  \A slot \in 1 .. Len(v) : Holds(v, Append(h, e), slot)
<1> DEFINE p == PriceOf(e.xt.call)
           v == WindowAfter(w, p)
           g == Append(h, e)
           L == Len(h)
<1>1. p \in PriceSet /\ p \in Nat /\ MaxLen \in Nat \ {0}
  <2>1. e.xt.call \in Call
    BY EntryType
  <2>2. p \in PriceSet
    BY <2>1, PriceType
  <2> HIDE DEF p
  <2>3. PriceSet \subseteq 0 .. U32Max /\ U32Max \in Nat /\ MaxLen \in Nat \ {0}
    BY OracleAssumption
  <2> QED
    BY <2>2, <2>3
<1>2. L \in Nat /\ Len(g) = L + 1 /\ g[L + 1] = e /\ \A j \in 1 .. L : g[j] = h[j]
  OBVIOUS
<1> SUFFICES ASSUME NEW slot \in 1 .. Len(v) PROVE Holds(v, g, slot)
  OBVIOUS
<1>3. CASE L < MaxLen
  <2>1. Len(w) = L /\ v = Append(w, p)
    BY <1>2, <1>3 DEF WindowAfter
  <2>2. Len(v) = L + 1 /\ v[L + 1] = p /\ \A i \in 1 .. L : v[i] = w[i]
    BY <1>1, <2>1
  <2>3. OverwritesOf(g, slot) = {} /\ OverwritesOf(h, slot) = {}
    BY <1>1, <1>2, <1>3 DEF OverwritesOf
  <2>4. CASE slot = L + 1
    BY <1>2, <2>2, <2>3, <2>4 DEF Holds
  <2>5. CASE slot \in 1 .. L
    <3>1. w[slot] = PriceOf(h[slot].xt.call)
      BY <2>1, <2>3, <2>5 DEF Holds
    <3> QED
      BY <1>2, <2>2, <2>3, <2>5, <3>1 DEF Holds
  <2>6. slot \in 1 .. (L + 1) => slot = L + 1 \/ slot \in 1 .. L
    BY <1>2
  <2> QED
    BY <2>2, <2>4, <2>5, <2>6
<1>4. CASE ~ (L < MaxLen)
  <2>1. Len(w) = MaxLen /\ v = [w EXCEPT ![SlotOf(e)] = p]
    BY <1>1, <1>2, <1>4 DEF WindowAfter, SlotOf
  <2>2. SlotOf(e) \in 1 .. Len(w)
    BY <1>1, <2>1 DEF SlotOf
  <2>3. Len(v) = Len(w) /\ v[SlotOf(e)] = p
        /\ \A i \in 1 .. Len(w) : i # SlotOf(e) => v[i] = w[i]
    BY <2>1, <2>2
  <2>4. \A j : j \in OverwritesOf(g, slot)
                <=> j \in OverwritesOf(h, slot) \/ (j = L + 1 /\ SlotOf(e) = slot)
    BY <1>1, <1>2, <1>4 DEF OverwritesOf
  <2>5. \A j \in OverwritesOf(h, slot) : j \in 1 .. L /\ j <= L + 1
    BY <1>1, <1>2 DEF OverwritesOf
  <2>6. CASE SlotOf(e) = slot
    <3>1. L + 1 \in OverwritesOf(g, slot) /\ \A k \in OverwritesOf(g, slot) : k <= L + 1
      BY <1>2, <2>4, <2>5, <2>6
    <3> QED
      BY <1>2, <2>3, <2>6, <3>1 DEF Holds
  <2>7. CASE SlotOf(e) # slot
    <3>1. OverwritesOf(g, slot) = OverwritesOf(h, slot)
      BY <2>4, <2>7
    <3>2. slot \in 1 .. Len(w) /\ v[slot] = w[slot] /\ slot \in 1 .. L /\ Holds(w, h, slot)
      <4>1. slot \in 1 .. Len(w) /\ slot \in 1 .. MaxLen
        BY <2>1, <2>3
      <4> QED
        BY <1>1, <1>2, <1>4, <2>3, <2>7, <4>1
    <3> QED
      BY <1>2, <2>5, <3>1, <3>2 DEF Holds
  <2> QED
    BY <2>6, <2>7
<1> QED
  BY <1>3, <1>4

\* Every slot of the window is accounted for by the history: the newest
\* price of its residue class, or the one that filled it.
WindowInv == \A slot \in 1 .. Len(prices) : Holds(prices, applied, slot)

\* The two ways to say it agree.
LEMMA WindowInvContents == WindowInv <=> WindowContents
BY DEF WindowInv, WindowContents, Holds, OverwritesOf, Overwrites, SlotOf

\* The window holds, slot by slot, the newest price of the slot's class, for
\* every capacity and every sequence of accepted prices.
THEOREM WindowAccounted == Spec => []WindowContents
<1>1. Init => WindowInv
  BY DEF Init, WindowInv
<1>2. Inv /\ WindowInv /\ [Next]_oracleVars => WindowInv'
  <2> SUFFICES ASSUME Inv, WindowInv, [Next]_oracleVars PROVE WindowInv'
    OBVIOUS
  <2>1. ASSUME NEW xt \in Extrinsic, add_price(xt) PROVE WindowInv'
    <3> DEFINE e == [xt |-> xt, at |-> block]
    <3>1. e \in Entry /\ e.xt = xt
      BY DEF Inv, TypeOK, Entry
    <3>2. /\ prices \in Seq(PriceSet) /\ applied \in Seq(Entry)
          /\ Len(prices) = IF Len(applied) < MaxLen THEN Len(applied) ELSE MaxLen
      BY DEF Inv, TypeOK
    <3>3. prices' = WindowAfter(prices, PriceOf(e.xt.call)) /\ applied' = Append(applied, e)
      BY <2>1, <3>1 DEF add_price
    <3> HIDE DEF e
    <3> QED
      BY <3>1, <3>2, <3>3, WindowStep DEF WindowInv
  <2>2. ASSUME UNCHANGED <<prices, applied>> PROVE WindowInv'
    BY <2>2 DEF WindowInv
  <2> QED
    BY <2>1, <2>2 DEF Next, Apply, submit_price, submit_price_unsigned,
       submit_price_unsigned_with_signed_payload, EnsureNoneFails, OtherExtrinsic,
       NewBlock, oracleVars
<1> QED
  BY <1>1, <1>2, Invariance, WindowInvContents, PTL DEF Spec

-----------------------------------------------------------------------------
(* Induction over numbers, as facts about sets: the induction theorems of    *)
(* the library take the formula itself as a parameter.                       *)

\* A set of natural numbers that is not empty has a least element.
LEMMA LeastNumber ==
    ASSUME NEW T \in SUBSET Nat, T # {}
    PROVE  \E m \in T : \A k \in T : m <= k
<1> DEFINE F == {0 .. m : m \in T}
<1>1. F \subseteq FiniteSubsetsOf(Nat) /\ F # {}
  <2>1. \A m \in T : IsFiniteSet(0 .. m) /\ 0 .. m \in SUBSET Nat
    BY FS_Interval
  <2> QED
    BY <2>1 DEF FiniteSubsetsOf
<1>2. \E x \in F : \A y \in F : ~ (<<y, x>> \in StrictSubsetOrdering(Nat))
  <2> HIDE DEF F
  <2> QED
    BY <1>1, FS_StrictSubsetOrderingWellFounded, WFMin
<1>3. PICK m \in T : \A k \in T : ~ (<<0 .. k, 0 .. m>> \in StrictSubsetOrdering(Nat))
  BY <1>2
<1>4. ASSUME NEW k \in T, k < m PROVE FALSE
  <2>1. /\ 0 .. k \subseteq 0 .. m /\ 0 .. k # 0 .. m
        /\ 0 .. k \in SUBSET Nat /\ 0 .. m \in SUBSET Nat
    BY <1>4
  <2>2. <<0 .. k, 0 .. m>> \in StrictSubsetOrdering(Nat)
    BY <2>1 DEF StrictSubsetOrdering
  <2> QED
    BY <1>3, <2>2
<1> QED
  BY <1>4

\* A set that holds 0 and, with a number, the next one, holds them all.
LEMMA SetInduction ==
    ASSUME NEW S, 0 \in S, \A n \in Nat : n \in S => n + 1 \in S
    PROVE  Nat \subseteq S
<1> SUFFICES ASSUME Nat \ S # {} PROVE FALSE
  OBVIOUS
<1>1. Nat \ S \in SUBSET Nat
  OBVIOUS
<1>2. PICK m \in Nat \ S : \A k \in Nat \ S : m <= k
  BY <1>1, LeastNumber
<1>3. m # 0 /\ m - 1 \in Nat
  BY <1>2
<1>4. m - 1 \in S
  BY <1>2, <1>3
<1> QED
  BY <1>2, <1>3, <1>4

\* Max and Min of a set of numbers up to n that is not empty.
LEMMA MaxMin ==
    ASSUME NEW n \in Nat, NEW T \in SUBSET (0 .. n), T # {}
    PROVE  /\ Max(T) \in T /\ \A k \in T : k <= Max(T)
           /\ Min(T) \in T /\ \A k \in T : Min(T) <= k
<1>1. \E m \in T : \A k \in T : m <= k
  <2>1. T \in SUBSET Nat
    OBVIOUS
  <2> QED
    BY <2>1, LeastNumber
<1>2. \E m \in T : \A k \in T : m >= k
  <2> DEFINE U == {v \in 0 .. n : n - v \in T}
  <2>1. U \in SUBSET Nat /\ U # {}
    <3>1. PICK t \in T : TRUE
      OBVIOUS
    <3>2. n - t \in 0 .. n /\ n - (n - t) = t
      OBVIOUS
    <3> QED
      BY <3>2
  <2>2. PICK u \in U : \A v \in U : u <= v
    <3> HIDE DEF U
    <3> QED
      BY <2>1, LeastNumber
  <2>3. ASSUME NEW k \in T PROVE n - u >= k
    <3>1. k \in 0 .. n /\ n - k \in 0 .. n /\ n - (n - k) = k
      OBVIOUS
    <3>2. u <= n - k /\ u \in 0 .. n
      BY <2>2, <3>1
    <3> QED
      BY <3>1, <3>2
  <2> QED
    BY <2>2, <2>3
<1>3. Min(T) \in T /\ \A k \in T : Min(T) <= k
  BY <1>1 DEF Min
<1>4. Max(T) \in T /\ \A k \in T : Max(T) >= k
  BY <1>2 DEF Max
<1> QED
  BY <1>3, <1>4

-----------------------------------------------------------------------------
(* The sums of average_price. *)

\* The function by which the library defines a fold over 1 .. k: it always
\* takes the largest index that is left; c[i][v] is the step from v at i.
FoldBy(it, c, k) ==
    \A s \in SUBSET (1 .. k) :
        it[s] = IF s = {} THEN 0 ELSE c[Max(s)][it[s \ {Max(s)}]]

IsFold(it, c, k) == it \in [SUBSET (1 .. k) -> Nat] /\ FoldBy(it, c, k)

\* It exists for every step.
LEMMA FoldExists ==
    ASSUME NEW n \in Nat, NEW c \in [1 .. n -> [Nat -> Nat]]
    PROVE  \E it : IsFold(it, c, n)
<1> DEFINE S == {k \in Nat : k <= n => \E it : IsFold(it, c, k)}
<1>1. 0 \in S
  <2> DEFINE g == [s \in SUBSET (1 .. 0) |-> 0]
  <2>1. \A s \in SUBSET (1 .. 0) : s = {}
    OBVIOUS
  <2>2. IsFold(g, c, 0)
    BY <2>1 DEF IsFold, FoldBy
  <2> QED
    BY <2>2
<1>2. ASSUME NEW k \in Nat, k \in S PROVE k + 1 \in S
  <2> SUFFICES ASSUME k + 1 <= n PROVE \E it : IsFold(it, c, k + 1)
    OBVIOUS
  <2>1. PICK g : IsFold(g, c, k)
    BY <1>2
  <2> DEFINE h == [s \in SUBSET (1 .. (k + 1)) |->
                     IF k + 1 \in s THEN c[k + 1][g[s \ {k + 1}]] ELSE g[s]]
  <2>2. \A s \in SUBSET (1 .. (k + 1)) :
           /\ s \ {k + 1} \in SUBSET (1 .. k)
           /\ k + 1 \notin s => s \in SUBSET (1 .. k)
    <3>1. \A i \in 1 .. (k + 1) : i = k + 1 \/ i \in 1 .. k
      OBVIOUS
    <3> QED
      BY <3>1
  <2>3. \A s \in SUBSET (1 .. (k + 1)) : k + 1 \in s => Max(s) = k + 1
    <3> SUFFICES ASSUME NEW s \in SUBSET (1 .. (k + 1)), k + 1 \in s
                 PROVE  Max(s) = k + 1
      OBVIOUS
    <3>1. s \in SUBSET (0 .. (k + 1)) /\ s # {} /\ k + 1 \in Nat
      OBVIOUS
    <3>2. Max(s) \in s /\ \A i \in s : i <= Max(s)
      BY <3>1, MaxMin
    <3>3. k + 1 <= Max(s)
      BY <3>2
    <3>4. Max(s) \in 1 .. (k + 1)
      BY <3>2
    <3>5. \A i \in 1 .. (k + 1) : k + 1 <= i => i = k + 1
      OBVIOUS
    <3> QED
      BY <3>3, <3>4, <3>5
  <2>4. h \in [SUBSET (1 .. (k + 1)) -> Nat]
    <3>1. g \in [SUBSET (1 .. k) -> Nat] /\ c[k + 1] \in [Nat -> Nat]
      BY <2>1 DEF IsFold, FoldBy
    <3>2. ASSUME NEW s \in SUBSET (1 .. (k + 1))
          PROVE  (IF k + 1 \in s THEN c[k + 1][g[s \ {k + 1}]] ELSE g[s]) \in Nat
      <4>1. g[s \ {k + 1}] \in Nat /\ (k + 1 \notin s => g[s] \in Nat)
        BY <2>2, <3>1
      <4> QED
        BY <3>1, <4>1
    <3> QED
      BY <3>2
  <2>5. ASSUME NEW s \in SUBSET (1 .. (k + 1))
        PROVE  h[s] = IF s = {} THEN 0 ELSE c[Max(s)][h[s \ {Max(s)}]]
    <3>1. CASE k + 1 \in s
      <4>1. h[s] = c[k + 1][g[s \ {k + 1}]] /\ Max(s) = k + 1 /\ s # {}
        BY <2>3, <3>1
      <4>2. s \ {k + 1} \in SUBSET (1 .. (k + 1)) /\ k + 1 \notin s \ {k + 1}
        OBVIOUS
      <4>3. h[s \ {k + 1}] = g[s \ {k + 1}]
        BY <4>2
      <4> QED
        BY <4>1, <4>3
    <3>2. CASE k + 1 \notin s
      <4>1. s \in SUBSET (1 .. k) /\ h[s] = g[s]
        BY <2>2, <3>2
      <4>2. /\ s \ {Max(s)} \in SUBSET (1 .. (k + 1))
            /\ k + 1 \notin s \ {Max(s)}
        BY <3>2
      <4>3. h[s \ {Max(s)}] = g[s \ {Max(s)}]
        BY <4>2
      <4> QED
        BY <2>1, <4>1, <4>3 DEF IsFold, FoldBy
    <3> QED
      BY <3>1, <3>2
  <2> HIDE DEF h
  <2> QED
    BY <2>4, <2>5 DEF IsFold, FoldBy
<1>3. n \in S
  <2> HIDE DEF S
  <2> QED
    BY <1>1, <1>2, SetInduction
<1>4. \E it : IsFold(it, c, n)
  BY <1>3
<1> QED
  BY <1>4

\* The index it takes first, and the ones that are left then.
LEMMA LastIndex ==
    ASSUME NEW k \in Nat
    PROVE  /\ Max(1 .. (k + 1)) = k + 1 /\ 1 .. (k + 1) # {}
           /\ (1 .. (k + 1)) \ {k + 1} = 1 .. k
<1>1. /\ 1 .. (k + 1) \in SUBSET (0 .. (k + 1)) /\ 1 .. (k + 1) # {}
      /\ k + 1 \in 1 .. (k + 1) /\ k + 1 \in Nat
  OBVIOUS
<1>2. Max(1 .. (k + 1)) = k + 1
  <2>1. /\ Max(1 .. (k + 1)) \in 1 .. (k + 1)
        /\ \A i \in 1 .. (k + 1) : i <= Max(1 .. (k + 1))
    BY <1>1, MaxMin
  <2>2. k + 1 <= Max(1 .. (k + 1))
    BY <1>1, <2>1
  <2>3. \A i \in 1 .. (k + 1) : k + 1 <= i => i = k + 1
    OBVIOUS
  <2> QED
    BY <2>1, <2>2, <2>3
<1>3. (1 .. (k + 1)) \ {k + 1} = 1 .. k
  OBVIOUS
<1> QED
  BY <1>1, <1>2, <1>3

\* The sum of average_price, entry by entry.
LEMMA SaturatingSum ==
    ASSUME NEW w \in Seq(0 .. U32Max)
    PROVE  \E g : /\ g[0] = 0 /\ g[Len(w)] = FoldLeft(saturating_add, 0, w)
                  /\ \A k \in 0 .. (Len(w) - 1) : g[k + 1] = saturating_add(g[k], w[k + 1])
<1> DEFINE n == Len(w)
           c == [i \in 1 .. n |-> [v \in Nat |-> saturating_add(v, w[i])]]
           Eq(it) == it = [s \in SUBSET (DOMAIN w) |-> IF s = {} THEN 0
                             ELSE saturating_add(it[s \ {Max(s)}], w[Max(s)])]
           sum == CHOOSE it : Eq(it)
<1>1. /\ n \in Nat /\ DOMAIN w = 1 .. n
      /\ \A i \in 1 .. n : w[i] \in 0 .. U32Max
      /\ U32Max \in Nat
  BY OracleAssumption
<1>2. FoldLeft(saturating_add, 0, w) = sum[DOMAIN w]
  BY DEF FoldLeft, MapThenFoldSet
<1> HIDE DEF n
<1>3. \E it : Eq(it)
  <2>1. c \in [1 .. n -> [Nat -> Nat]]
    BY <1>1 DEF saturating_add
  <2>2. PICK f : IsFold(f, c, n)
    <3> HIDE DEF c
    <3> QED
      BY <1>1, <2>1, FoldExists
  <2>3. ASSUME NEW s \in SUBSET (1 .. n), s # {}
        PROVE  f[s] = saturating_add(f[s \ {Max(s)}], w[Max(s)])
    <3>1. Max(s) \in 1 .. n
      <4>1. s \in SUBSET (0 .. n)
        BY <1>1
      <4> QED
        BY <1>1, <2>3, <4>1, MaxMin
    <3>2. f[s \ {Max(s)}] \in Nat
      BY <2>2 DEF IsFold
    <3>3. f[s] = c[Max(s)][f[s \ {Max(s)}]]
      <4> HIDE DEF c
      <4> QED
        BY <2>2, <2>3 DEF IsFold, FoldBy
    <3> QED
      BY <3>1, <3>2, <3>3
  <2>4. f \in [SUBSET (1 .. n) -> Nat] /\ f[{}] = 0
    BY <2>2 DEF IsFold, FoldBy
  <2>5. Eq(f)
    BY <1>1, <2>3, <2>4
  <2> QED
    BY <2>5
<1>4. Eq(sum)
  <2> HIDE DEF Eq
  <2> QED
    BY <1>3
<1> HIDE DEF sum
<1>5. sum[1 .. 0] = 0
  <2>1. 1 .. 0 = {} /\ {} \in SUBSET (1 .. n)
    OBVIOUS
  <2> QED
    BY <1>1, <1>4, <2>1
<1>6. ASSUME NEW k \in 0 .. (n - 1)
      PROVE  sum[1 .. (k + 1)] = saturating_add(sum[1 .. k], w[k + 1])
  <2>1. k \in Nat /\ 1 .. (k + 1) \in SUBSET (1 .. n)
    BY <1>1
  <2>2. /\ Max(1 .. (k + 1)) = k + 1 /\ 1 .. (k + 1) # {}
        /\ (1 .. (k + 1)) \ {k + 1} = 1 .. k
    BY <2>1, LastIndex
  <2> QED
    BY <1>1, <1>4, <2>1, <2>2
<1> DEFINE g == [k \in 0 .. n |-> sum[1 .. k]]
<1>7. g[0] = 0 /\ g[n] = sum[1 .. n]
  BY <1>1, <1>5
<1>8. \A k \in 0 .. (n - 1) : g[k + 1] = saturating_add(g[k], w[k + 1])
  BY <1>1, <1>6
<1> HIDE DEF g
<1> QED
  BY <1>1, <1>2, <1>7, <1>8 DEF n

\* The sum without its limit, entry by entry.
LEMMA PlainSum ==
    ASSUME NEW w \in Seq(0 .. U32Max)
    PROVE  \E g : /\ g[0] = 0 /\ g[Len(w)] = FoldLeft(LAMBDA a, b : a + b, 0, w)
                  /\ \A k \in 0 .. (Len(w) - 1) : g[k + 1] = g[k] + w[k + 1]
<1> DEFINE n == Len(w)
           c == [i \in 1 .. n |-> [v \in Nat |-> v + w[i]]]
           Eq(it) == it = [s \in SUBSET (DOMAIN w) |-> IF s = {} THEN 0
                             ELSE it[s \ {Max(s)}] + w[Max(s)]]
           sum == CHOOSE it : Eq(it)
<1>1. /\ n \in Nat /\ DOMAIN w = 1 .. n
      /\ \A i \in 1 .. n : w[i] \in 0 .. U32Max
      /\ U32Max \in Nat
  BY OracleAssumption
<1>2. FoldLeft(LAMBDA a, b : a + b, 0, w) = sum[DOMAIN w]
  BY DEF FoldLeft, MapThenFoldSet
<1> HIDE DEF n
<1>3. \E it : Eq(it)
  <2>1. c \in [1 .. n -> [Nat -> Nat]]
    BY <1>1
  <2>2. PICK f : IsFold(f, c, n)
    <3> HIDE DEF c
    <3> QED
      BY <1>1, <2>1, FoldExists
  <2>3. ASSUME NEW s \in SUBSET (1 .. n), s # {}
        PROVE  f[s] = f[s \ {Max(s)}] + w[Max(s)]
    <3>1. Max(s) \in 1 .. n
      <4>1. s \in SUBSET (0 .. n)
        BY <1>1
      <4> QED
        BY <1>1, <2>3, <4>1, MaxMin
    <3>2. f[s \ {Max(s)}] \in Nat
      BY <2>2 DEF IsFold
    <3>3. f[s] = c[Max(s)][f[s \ {Max(s)}]]
      <4> HIDE DEF c
      <4> QED
        BY <2>2, <2>3 DEF IsFold, FoldBy
    <3> QED
      BY <3>1, <3>2, <3>3
  <2>4. f \in [SUBSET (1 .. n) -> Nat] /\ f[{}] = 0
    BY <2>2 DEF IsFold, FoldBy
  <2>5. Eq(f)
    BY <1>1, <2>3, <2>4
  <2> QED
    BY <2>5
<1>4. Eq(sum)
  <2> HIDE DEF Eq
  <2> QED
    BY <1>3
<1> HIDE DEF sum
<1>5. sum[1 .. 0] = 0
  <2>1. 1 .. 0 = {} /\ {} \in SUBSET (1 .. n)
    OBVIOUS
  <2> QED
    BY <1>1, <1>4, <2>1
<1>6. ASSUME NEW k \in 0 .. (n - 1)
      PROVE  sum[1 .. (k + 1)] = sum[1 .. k] + w[k + 1]
  <2>1. k \in Nat /\ 1 .. (k + 1) \in SUBSET (1 .. n)
    BY <1>1
  <2>2. /\ Max(1 .. (k + 1)) = k + 1 /\ 1 .. (k + 1) # {}
        /\ (1 .. (k + 1)) \ {k + 1} = 1 .. k
    BY <2>1, LastIndex
  <2> QED
    BY <1>1, <1>4, <2>1, <2>2
<1> DEFINE g == [k \in 0 .. n |-> sum[1 .. k]]
<1>7. g[0] = 0 /\ g[n] = sum[1 .. n]
  BY <1>1, <1>5
<1>8. \A k \in 0 .. (n - 1) : g[k + 1] = g[k] + w[k + 1]
  BY <1>1, <1>6
<1> HIDE DEF g
<1> QED
  BY <1>1, <1>2, <1>7, <1>8 DEF n

\* A quotient lies between the bounds of its dividend.
LEMMA DivBounds ==
    ASSUME NEW a \in Nat, NEW n \in Nat \ {0}, NEW lo \in Nat, NEW hi \in Nat
    PROVE  /\ a \div n \in Nat
           /\ a <= n * hi => a \div n <= hi
           /\ n * lo <= a => lo <= a \div n
<1> DEFINE q == a \div n
<1>1. q \in Nat /\ n * q <= a /\ a < n * q + n
  OBVIOUS
<1> HIDE DEF q
<1>2. ASSUME a <= n * hi PROVE q <= hi
  <2> SUFFICES ASSUME hi + 1 <= q PROVE FALSE
    BY <1>1
  <2>1. n * (hi + 1) <= n * q /\ n * (hi + 1) = n * hi + n
    BY <1>1
  <2> QED
    BY <1>1, <1>2, <2>1
<1>3. ASSUME n * lo <= a PROVE lo <= q
  <2> SUFFICES ASSUME q + 1 <= lo PROVE FALSE
    BY <1>1
  <2>1. n * (q + 1) <= n * lo /\ n * (q + 1) = n * q + n
    BY <1>1
  <2> QED
    BY <1>1, <1>3, <2>1
<1> QED
  BY <1>1, <1>2, <1>3 DEF q

\* What average_price returns of a window that is not empty.
LEMMA AverageBounds ==
    ASSUME NEW w \in Seq(0 .. U32Max), w # << >>
    PROVE  /\ average_price(w) \in Nat
           /\ average_price(w) <= Max(ToSet(w))
           /\ FoldLeft(LAMBDA a, b : a + b, 0, w) <= U32Max
              => Min(ToSet(w)) <= average_price(w)
<1> DEFINE n == Len(w)
           hi == Max(ToSet(w))
           lo == Min(ToSet(w))
<1>1. n \in Nat \ {0} /\ U32Max \in Nat /\ \A i \in 1 .. n : w[i] \in 0 .. U32Max
  BY OracleAssumption
<1>2. /\ hi \in Nat /\ lo \in Nat
      /\ \A i \in 1 .. n : lo <= w[i] /\ w[i] <= hi
  <2>1. /\ ToSet(w) \in SUBSET (0 .. U32Max) /\ ToSet(w) # {}
        /\ \A i \in 1 .. n : w[i] \in ToSet(w)
    BY <1>1 DEF ToSet
  <2>2. /\ hi \in ToSet(w) /\ \A v \in ToSet(w) : v <= hi
        /\ lo \in ToSet(w) /\ \A v \in ToSet(w) : lo <= v
    BY <1>1, <2>1, MaxMin
  <2> HIDE DEF hi, lo
  <2> QED
    BY <1>1, <2>1, <2>2
<1>3. PICK g : /\ g[0] = 0 /\ g[n] = FoldLeft(saturating_add, 0, w)
               /\ \A k \in 0 .. (n - 1) : g[k + 1] = saturating_add(g[k], w[k + 1])
  BY SaturatingSum
<1>4. PICK h : /\ h[0] = 0 /\ h[n] = FoldLeft(LAMBDA a, b : a + b, 0, w)
               /\ \A k \in 0 .. (n - 1) : h[k + 1] = h[k] + w[k + 1]
  BY PlainSum
<1> HIDE DEF n, hi, lo
<1> DEFINE P(k) == /\ g[k] \in Nat /\ g[k] <= k * hi
                   /\ h[k] \in Nat /\ k * lo <= h[k]
                   /\ g[k] = h[k] \/ h[k] > U32Max
           S == {k \in Nat : k <= n => P(k)}
<1>5. 0 \in S
  <2>1. 0 * hi = 0 /\ 0 * lo = 0
    BY <1>2
  <2>2. g[0] = 0 /\ h[0] = 0
    BY <1>3, <1>4
  <2>3. P(0)
    BY <2>1, <2>2
  <2> HIDE DEF P
  <2> QED
    BY <2>3
<1>6. ASSUME NEW k \in Nat, k \in S PROVE k + 1 \in S
  <2> SUFFICES ASSUME k + 1 <= n PROVE P(k + 1)
    <3> HIDE DEF P
    <3> QED
      OBVIOUS
  <2>1. /\ g[k] \in Nat /\ g[k] <= k * hi
        /\ h[k] \in Nat /\ k * lo <= h[k]
        /\ g[k] = h[k] \/ h[k] > U32Max
    <3>1. P(k)
      <4> HIDE DEF P
      <4> QED
        BY <1>1, <1>6
    <3> QED
      BY <3>1
  <2>2. k \in 0 .. (n - 1) /\ k + 1 \in 1 .. n
    BY <1>1
  <2>3. /\ w[k + 1] \in 0 .. U32Max /\ lo <= w[k + 1] /\ w[k + 1] <= hi
        /\ g[k + 1] = saturating_add(g[k], w[k + 1]) /\ h[k + 1] = h[k] + w[k + 1]
    BY <1>1, <1>2, <1>3, <1>4, <2>2
  <2>4. (k + 1) * hi = k * hi + hi /\ (k + 1) * lo = k * lo + lo
        /\ k * hi \in Nat /\ k * lo \in Nat
    BY <1>2
  <2> DEFINE kh == k * hi
             kl == k * lo
  <2>5. /\ kh \in Nat /\ kl \in Nat /\ g[k] <= kh /\ kl <= h[k]
        /\ g[k] \in Nat /\ h[k] \in Nat
    BY <2>1, <2>4
  <2> HIDE DEF kh, kl, S
  <2>6. /\ g[k + 1] \in Nat /\ g[k + 1] <= kh + hi
        /\ h[k + 1] \in Nat /\ kl + lo <= h[k + 1]
    <3>1. w[k + 1] \in Nat
      BY <1>1, <2>3
    <3>2. g[k + 1] \in Nat /\ g[k + 1] <= g[k] + w[k + 1]
      BY <1>1, <2>1, <2>3, <3>1 DEF saturating_add
    <3> QED
      BY <1>2, <2>3, <2>5, <3>1, <3>2
  <2>7. g[k + 1] = h[k + 1] \/ h[k + 1] > U32Max
    BY <1>1, <2>1, <2>3 DEF saturating_add
  <2> QED
    BY <2>4, <2>6, <2>7 DEF kh, kl
<1>7. n \in S
  <2> HIDE DEF S
  <2> QED
    BY <1>1, <1>5, <1>6, SetInduction
<1>8. /\ g[n] \in Nat /\ g[n] <= n * hi
      /\ h[n] <= U32Max => n * lo <= g[n]
  <2>1. P(n)
    <3> HIDE DEF P
    <3> QED
      BY <1>1, <1>7
  <2> QED
    BY <1>1, <2>1
<1>9. average_price(w) = g[n] \div n
  BY <1>3 DEF average_price, n
<1>10. /\ g[n] \div n \in Nat /\ g[n] \div n <= hi
       /\ h[n] <= U32Max => lo <= g[n] \div n
  BY <1>1, <1>2, <1>8, DivBounds
<1> QED
  BY <1>4, <1>9, <1>10 DEF hi, lo

\* A window of prices is a sequence of u32 values.
LEMMA WindowOfU32 == ASSUME NEW w \in Seq(PriceSet) PROVE w \in Seq(0 .. U32Max)
BY OracleAssumption, SeqMonotonic

\* The average lies between the stored prices, whatever they are and however
\* many, unless the u32 sum saturated; and then it is still not above them.
THEOREM AverageBounded == Spec => []AverageInRange
<1>1. TypeOK => AverageInRange
  <2> SUFFICES ASSUME TypeOK, prices # << >>
               PROVE  LET total == FoldLeft(LAMBDA a, b : a + b, 0, prices)
                      IN  /\ average_price(prices) <= Max(ToSet(prices))
                          /\ total <= U32Max => Min(ToSet(prices)) <= average_price(prices)
    BY DEF AverageInRange
  <2>1. prices \in Seq(0 .. U32Max)
    BY WindowOfU32 DEF TypeOK
  <2> QED
    BY <2>1, AverageBounds
<1> QED
  BY <1>1, TypeCorrect, PTL
============================================================================
