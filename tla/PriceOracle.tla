---------------------------- MODULE PriceOracle ----------------------------
(***************************************************************************)
(* The on-chain half of pallets/example-offchain-worker: the storage items *)
(* Prices and NextUnsignedAt, the three dispatchables that write them and  *)
(* the unsigned-transaction validator that guards two of them.             *)
(*                                                                         *)
(* The chain is a sequence of blocks.  `block' is the number of the block  *)
(* being built (System::block_number() while an extrinsic is applied).     *)
(* The environment offers any well-formed extrinsic at any time, any       *)
(* number of times: this covers transactions that are lost, delayed,       *)
(* gossiped twice, reordered, or authored by somebody else.                *)
(***************************************************************************)
EXTENDS Integers, Sequences, SequencesExt

CONSTANTS
    Accounts,           \* accounts, also used as public keys
    NoAccount,          \* no signer, or a signature made by no key
    Shared,             \* accounts that sign extrinsics of other pallets too
    PriceSet,           \* the u32 prices extrinsics carry
    MaxLen,             \* MAX_LEN of add_price (64 in the code)
    U32Max,             \* the largest u32
    UnsignedInterval,   \* T::UnsignedInterval (3 in the runtime)
    MaxBlock,           \* bound: last block that is built
    MaxNonce,           \* bound: extrinsics per account
    MaxOther            \* bound: the first nonce no other pallet uses

ASSUME OracleAssumption ==
    /\ NoAccount \notin Accounts
    /\ Shared \subseteq Accounts
    /\ U32Max \in Nat
    /\ PriceSet \subseteq 0 .. U32Max
    /\ MaxLen \in Nat \ {0}
    /\ UnsignedInterval \in Nat \ {0}
    /\ MaxBlock \in Nat \ {0}
    /\ MaxNonce \in Nat
    /\ MaxOther \in 0 .. MaxNonce

VARIABLES
    block,              \* frame_system: number of the block being built
    nonce,              \* frame_system: next nonce of every account
    prices,             \* storage Prices
    nextUnsignedAt,     \* storage NextUnsignedAt
    applied             \* history: accepted prices, oldest first (the
                        \* NewPrice events, with extrinsic and block)

oracleVars == <<block, nonce, prices, nextUnsignedAt, applied>>

-----------------------------------------------------------------------------
(* Calls and extrinsics.  A payload signature is abstracted to the account *)
(* whose key signed exactly that payload.                                  *)

\* Block numbers an extrinsic may carry: any, one beyond the last included.
Blocks == 0 .. (MaxBlock + 1)

\* Nonces a signed extrinsic may carry, one beyond the last included.
Nonces == 0 .. (MaxNonce + 1)

PricePayload == [block_number : Blocks, price : PriceSet, public : Accounts]

SubmitPrice == [fn : {"submit_price"}, price : PriceSet]

SubmitPriceUnsigned ==
    [fn : {"submit_price_unsigned"}, block_number : Blocks, price : PriceSet]

SubmitPriceWithPayload ==
    [fn : {"submit_price_unsigned_with_signed_payload"},
     payload : PricePayload, signature : Accounts \cup {NoAccount}]

Call == SubmitPrice \cup SubmitPriceUnsigned \cup SubmitPriceWithPayload

\* An extrinsic carries a signer and its nonce, or (bare, "unsigned") neither.
Extrinsic == [signer : Accounts, nonce : Nonces, call : Call]
             \cup [signer : {NoAccount}, call : Call]

\* An entry of the history: an extrinsic and the block that accepted it.
Entry == [xt : Extrinsic, at : 1 .. MaxBlock]

IsUnsigned(xt) == xt.signer = NoAccount

PriceOf(call) ==
    IF call.fn = "submit_price_unsigned_with_signed_payload"
    THEN call.payload.price ELSE call.price

\* The block number an unsigned call claims to have been produced at.
BlockOf(call) ==
    IF call.fn = "submit_price_unsigned_with_signed_payload"
    THEN call.payload.block_number ELSE call.block_number

-----------------------------------------------------------------------------
(* Pure helpers of the pallet. *)

saturating_add(a, b) == IF a + b > U32Max THEN U32Max ELSE a + b

\* Slip: divide by the capacity of the window instead of its length.
average_price_of_capacity(window) ==
    FoldLeft(saturating_add, 0, window) \div MaxLen

\* Only meaningful on a non-empty window; the code returns None otherwise.
average_price(window) == FoldLeft(saturating_add, 0, window) \div Len(window)

\* Slip: <= where the code has <.
WindowAfter_off_by_one(window, price) ==
    IF Len(window) <= MaxLen
    THEN Append(window, price)
    ELSE [window EXCEPT ![(price % MaxLen) + 1] = price]

\* Slip: evict the oldest price, as the documentation says.
WindowAfter_fifo(window, price) ==
    Append(IF Len(window) < MaxLen THEN window ELSE Tail(window), price)

\* Prices::mutate in add_price: push while short, then overwrite the slot
\* the price itself selects.
WindowAfter(window, price) ==
    IF Len(window) < MaxLen
    THEN Append(window, price)
    ELSE [window EXCEPT ![(price % MaxLen) + 1] = price]

\* External: SignedPayload::verify, the signature check of frame_system.
verify(payload, signature) == signature = payload.public

\* Slip: no Stale check.
validate_without_stale(block_number, next_unsigned_at, current_block) ==
    IF current_block < block_number THEN "Future" ELSE "Valid"

\* The verdict in a state with this NextUnsignedAt and block number.
validate_transaction_parameters(block_number, next_unsigned_at, current_block) ==
    IF next_unsigned_at > block_number THEN "Stale"
    ELSE IF current_block < block_number THEN "Future"
    ELSE "Valid"

validate_unsigned(call, next_unsigned_at, current_block) ==
    IF call.fn = "submit_price" THEN "Call"
    ELSE IF /\ call.fn = "submit_price_unsigned_with_signed_payload"
            /\ ~ verify(call.payload, call.signature)
         THEN "BadProof"
    ELSE validate_transaction_parameters(BlockOf(call), next_unsigned_at, current_block)

-----------------------------------------------------------------------------
(* External: Executive::apply_extrinsic.  A signed extrinsic passes         *)
(* CheckNonce, which uses the nonce up whatever the dispatch returns; a     *)
(* bare one passes pre_dispatch, which runs validate_unsigned again in the  *)
(* block.                                                                   *)

SignedPreDispatch(xt) ==
    /\ xt.signer \in Accounts
    /\ xt.nonce = nonce[xt.signer]
    /\ xt.nonce < MaxNonce
    /\ nonce' = [nonce EXCEPT ![xt.signer] = @ + 1]

UnsignedPreDispatch(xt) ==
    /\ IsUnsigned(xt)
    /\ validate_unsigned(xt.call, nextUnsignedAt, block) = "Valid"
    /\ nonce' = nonce

-----------------------------------------------------------------------------
Init ==
    /\ block = 1
    /\ nonce = [a \in Accounts |-> 0]
    /\ prices = << >>
    /\ nextUnsignedAt = 0
    /\ applied = << >>

add_price(xt) ==
    /\ prices' = WindowAfter(prices, PriceOf(xt.call))
    /\ applied' = Append(applied, [xt |-> xt, at |-> block])

\* Slip: a signed price re-arms the cooldown, without the interval.
submit_price_rearms(xt) ==
    /\ xt.call.fn = "submit_price"
    /\ SignedPreDispatch(xt)
    /\ add_price(xt)
    /\ nextUnsignedAt' = block
    /\ UNCHANGED block

submit_price(xt) ==
    /\ xt.call.fn = "submit_price"
    /\ SignedPreDispatch(xt)
    /\ add_price(xt)
    /\ UNCHANGED <<block, nextUnsignedAt>>

\* Slip: the cooldown runs from the block the call claims.
submit_price_unsigned_from_claim(xt) ==
    /\ xt.call.fn = "submit_price_unsigned"
    /\ UnsignedPreDispatch(xt)
    /\ add_price(xt)
    /\ nextUnsignedAt' = xt.call.block_number + UnsignedInterval
    /\ UNCHANGED block

submit_price_unsigned(xt) ==
    /\ xt.call.fn = "submit_price_unsigned"
    /\ UnsignedPreDispatch(xt)
    /\ add_price(xt)
    /\ nextUnsignedAt' = block + UnsignedInterval
    /\ UNCHANGED block

submit_price_unsigned_with_signed_payload(xt) ==
    /\ xt.call.fn = "submit_price_unsigned_with_signed_payload"
    /\ UnsignedPreDispatch(xt)
    /\ add_price(xt)
    /\ nextUnsignedAt' = block + UnsignedInterval
    /\ UNCHANGED block

\* A signed extrinsic around a call that demands no origin: ensure_none
\* fails, only the nonce is spent.
EnsureNoneFails(xt) ==
    /\ xt.call.fn # "submit_price"
    /\ SignedPreDispatch(xt)
    /\ UNCHANGED <<block, prices, nextUnsignedAt, applied>>

Apply(xt) ==
    \/ submit_price(xt)
    \/ submit_price_unsigned(xt)
    \/ submit_price_unsigned_with_signed_payload(xt)
    \/ EnsureNoneFails(xt)

\* External: any other extrinsic an account signs (those of pallets/ocw, for
\* the node uses //Alice for both pallets) uses up a nonce.
OtherExtrinsic(a) ==
    /\ nonce[a] < MaxOther
    /\ nonce' = [nonce EXCEPT ![a] = @ + 1]
    /\ UNCHANGED <<block, prices, nextUnsignedAt, applied>>

\* External: the block is sealed and the next one initialised.
NewBlock ==
    /\ block < MaxBlock
    /\ block' = block + 1
    /\ UNCHANGED <<nonce, prices, nextUnsignedAt, applied>>

Next ==
    \/ \E xt \in Extrinsic : Apply(xt)
    \/ \E a \in Shared : OtherExtrinsic(a)
    \/ NewBlock

Spec == Init /\ [][Next]_oracleVars

\* The chain's view of the session: the door that unsigned prices pass.
Door == INSTANCE Cooldown WITH
    Interval <- UnsignedInterval, now <- block, opensAt <- nextUnsignedAt

-----------------------------------------------------------------------------
(* Properties. *)

\* Every storage item keeps its type; the window never exceeds MaxLen and
\* has one entry per accepted price until it is full (add_price).
TypeOK ==
    /\ block \in 1 .. MaxBlock
    /\ nonce \in [Accounts -> 0 .. MaxNonce]
    /\ prices \in Seq(PriceSet)
    /\ nextUnsignedAt \in Nat
    /\ applied \in Seq(Entry)
    /\ Len(prices) = IF Len(applied) < MaxLen THEN Len(applied) ELSE MaxLen

\* "This function can be called only once every T::UnsignedInterval blocks":
\* of two unsigned prices that were accepted, the later one was produced for
\* a block at least UnsignedInterval after the block that accepted the
\* earlier one, and was never accepted before the block it claims, however
\* late or often the network delivers it.
UnsignedSession ==
    \A i, j \in 1 .. Len(applied) :
        (i < j /\ IsUnsigned(applied[i].xt) /\ IsUnsigned(applied[j].xt))
        => /\ applied[i].at + UnsignedInterval <= BlockOf(applied[j].xt.call)
           /\ BlockOf(applied[j].xt.call) <= applied[j].at

\* No extrinsic contributes its price twice, whether it is protected by its
\* nonce (submit_price) or only by NextUnsignedAt (the unsigned calls, which
\* carry no nonce at all).
AppliedOnce ==
    \A i, j \in 1 .. Len(applied) :
        applied[i].xt = applied[j].xt => i = j

\* The overwrites that hit a slot once the window was full (slot % MaxLen).
Overwrites(slot) ==
    {j \in (MaxLen + 1) .. Len(applied) :
        (PriceOf(applied[j].xt.call) % MaxLen) + 1 = slot}

\* What add_price keeps is, slot by slot, the newest price of the slot's
\* residue class, or the price that filled the slot first.  In particular a
\* price whose class never comes back stays in the average for ever.
WindowContents ==
    \A slot \in 1 .. Len(prices) :
        \/ /\ Overwrites(slot) = {}
           /\ prices[slot] = PriceOf(applied[slot].xt.call)
        \/ \E j \in Overwrites(slot) :
              /\ \A k \in Overwrites(slot) : k <= j
              /\ prices[slot] = PriceOf(applied[j].xt.call)

\* average_price never exceeds the largest stored price, and is not below
\* the smallest one unless the u32 sum saturated.
AverageInRange ==
    prices # << >> =>
        LET total == FoldLeft(LAMBDA a, b : a + b, 0, prices)
        IN  /\ average_price(prices) <= Max(ToSet(prices))
            /\ total <= U32Max => Min(ToSet(prices)) <= average_price(prices)

\* "This function can be called only once every T::UnsignedInterval blocks":
\* seen from outside, NextUnsignedAt and the block number are the door of
\* Cooldown.  Only an accepted unsigned price re-arms it, in a block that is
\* past it, and no step shortens a cooldown that is already running.
CooldownSpec == Door!Spec

\* The pallet's documentation: the on-chain list holds "last `64` values"
\* submitted.  add_price overwrites slot price % 64 instead of the oldest.
LastPricesKept ==
    \A p \in PriceSet :
        LET newest == SubSeq(applied, Len(applied) - Len(prices) + 1, Len(applied))
        IN  Len(SelectSeq(prices, LAMBDA x : x = p))
            = Len(SelectSeq(newest, LAMBDA e : PriceOf(e.xt.call) = p))
============================================================================
