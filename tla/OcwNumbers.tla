----------------------------- MODULE OcwNumbers -----------------------------
(***************************************************************************)
(* pallets/ocw without its HTTP branch (RemoteInfo): the bounded list      *)
(* Numbers, the three calls that append to it, the validator of the        *)
(* unsigned ones, and the worker runs that submit the number of the block  *)
(* they were started for.  All nodes hold the same keys, and the price     *)
(* worker of pallets/example-offchain-worker signs for the same accounts   *)
(* (the node inserts //Alice under both key types).                        *)
(*                                                                         *)
(* A run keeps nothing in local storage and submits one extrinsic, built   *)
(* from the state of its block, so starting it and submitting is one step; *)
(* the extrinsic may then be applied at any later time, in any order, more *)
(* than once, or never.                                                    *)
(***************************************************************************)
EXTENDS Integers, Sequences

CONSTANTS
    Keys,           \* accounts with a "demo" key in the keystores
    Strangers,      \* accounts nobody's workers sign for
    NoKey,          \* no signer
    ForeignNumbers, \* numbers that strangers submit
    NumVecLen,      \* NUM_VEC_LEN (10 in the code)
    TxTypes,        \* TX_TYPES (4 in the code)
    PriceTypes,     \* a price is signed at the multiples of this (3 in the code)
    MaxBlock,       \* bound: last block built
    MaxAccepted,    \* bound: numbers accepted
    MaxNonce        \* bound: nonces other extrinsics use up

ASSUME NumbersAssumption ==
    /\ Keys \cap Strangers = {}
    /\ NoKey \notin Keys \cup Strangers
    /\ ForeignNumbers \subseteq 0 .. MaxBlock
    /\ NumVecLen \in Nat \ {0}
    /\ TxTypes \in Nat \ {0}
    /\ PriceTypes \in Nat \ {0}
    /\ MaxBlock \in Nat \ {0}
    /\ MaxAccepted \in Nat
    /\ MaxNonce \in Nat

VARIABLES
    block,          \* number of the block being built
    nonce,          \* next nonce of every account
    best,           \* the best block: its number, and the nonces in its state
    numbers,        \* storage Numbers
    sent,           \* extrinsics submitted by any run of any node
    accepted        \* history: applied extrinsics, oldest first (NewNumber)

vars == <<block, nonce, best, numbers, sent, accepted>>

Accounts == Keys \cup Strangers

Signed == [fn : {"submit_number_signed"}, number : 0 .. MaxBlock,
           signer : Accounts, nonce : Nat]

Unsigned == [fn : {"submit_number_unsigned"}, number : 0 .. MaxBlock]

WithPayload == [fn : {"submit_number_unsigned_with_signed_payload"},
                number : 0 .. MaxBlock, public : Accounts,
                signature : Accounts \cup {NoKey}]

Extrinsic == Signed \cup Unsigned \cup WithPayload

\* The calls are open to everybody: a stranger signs numbers with its own
\* account, submits bare ones, and signs payloads with its own key, but it
\* cannot sign for a key that is not its own.
Foreign ==
    [fn : {"submit_number_signed"}, number : ForeignNumbers,
     signer : Strangers, nonce : 0 .. MaxAccepted]
    \cup [fn : {"submit_number_unsigned"}, number : ForeignNumbers]
    \cup [fn : {"submit_number_unsigned_with_signed_payload"},
          number : ForeignNumbers, public : Accounts, signature : {NoKey}]
    \cup {[fn |-> "submit_number_unsigned_with_signed_payload",
           number |-> n, public |-> a, signature |-> a] :
             n \in ForeignNumbers, a \in Strangers}

\* Slip: the length is tested after it was exceeded.
append_without_pop(list, number) ==
    IF Len(list) > NumVecLen THEN Append(Tail(list), number) ELSE Append(list, number)

\* pop_front when full, then push_back.
append_or_replace_number(list, number) ==
    IF Len(list) = NumVecLen THEN Append(Tail(list), number) ELSE Append(list, number)

\* BadProof is the only refusal a bare extrinsic of these calls can meet.
validate_unsigned(xt) ==
    xt.fn = "submit_number_unsigned_with_signed_payload" => xt.signature = xt.public

Init ==
    /\ block = 1
    /\ nonce = [k \in Accounts |-> 0]
    /\ best = [number |-> 0, nonce |-> [k \in Accounts |-> 0]]
    /\ numbers = << >>
    /\ sent = {}
    /\ accepted = << >>

-----------------------------------------------------------------------------
(* Worker runs: offchain_worker takes the branch block_number % TX_TYPES.   *)
(* Without a key the two signing branches send nothing.                     *)

\* The price worker of the same call may have signed for the account before.
PriceSigned(block_number) == block_number % PriceTypes = 0

\* External: the nonces send_signed_transaction can find.  It reads the state
\* of the run's block, with the increment of an earlier submission of the
\* same call.
NonceRead(k) ==
    {best.nonce[k]} \cup (IF PriceSigned(best.number) THEN {best.nonce[k] + 1} ELSE {})

offchain_signed_tx(k) ==
    /\ best.number > 0 /\ best.number % TxTypes = 0
    /\ \E n \in NonceRead(k) :
          sent' = sent \cup {[fn |-> "submit_number_signed", number |-> best.number,
                             signer |-> k, nonce |-> n]}
    /\ UNCHANGED <<block, nonce, best, numbers, accepted>>

\* Slip: the number of the previous run of this branch, before there is one.
offchain_unsigned_tx_previous ==
    /\ best.number % TxTypes = 1
    /\ sent' = sent \cup {[fn |-> "submit_number_unsigned", number |-> best.number - 4]}
    /\ UNCHANGED <<block, nonce, best, numbers, accepted>>

offchain_unsigned_tx ==
    /\ best.number % TxTypes = 1
    /\ sent' = sent \cup {[fn |-> "submit_number_unsigned", number |-> best.number]}
    /\ UNCHANGED <<block, nonce, best, numbers, accepted>>

offchain_unsigned_tx_signed_payload(k) ==
    /\ best.number % TxTypes = 2
    /\ sent' = sent \cup {[fn |-> "submit_number_unsigned_with_signed_payload",
                           number |-> best.number, public |-> k, signature |-> k]}
    /\ UNCHANGED <<block, nonce, best, numbers, accepted>>

-----------------------------------------------------------------------------
(* Extrinsics applied in the block being built. *)

Accept(xt) ==
    /\ Len(accepted) < MaxAccepted
    /\ numbers' = append_or_replace_number(numbers, xt.number)
    /\ accepted' = Append(accepted, xt)

\* Slip: a transaction from the past is as good as the next one.
submit_number_signed_any_nonce(xt) ==
    /\ xt.fn = "submit_number_signed"
    /\ xt.nonce <= nonce[xt.signer]
    /\ nonce' = [nonce EXCEPT ![xt.signer] = @ + 1]
    /\ Accept(xt)
    /\ UNCHANGED <<block, best, sent>>

submit_number_signed(xt) ==
    /\ xt.fn = "submit_number_signed"
    /\ xt.nonce = nonce[xt.signer]
    /\ nonce' = [nonce EXCEPT ![xt.signer] = @ + 1]
    /\ Accept(xt)
    /\ UNCHANGED <<block, best, sent>>

submit_number_unsigned(xt) ==
    /\ xt.fn = "submit_number_unsigned"
    /\ validate_unsigned(xt)
    /\ Accept(xt)
    /\ UNCHANGED <<block, nonce, best, sent>>

submit_number_unsigned_with_signed_payload(xt) ==
    /\ xt.fn = "submit_number_unsigned_with_signed_payload"
    /\ validate_unsigned(xt)
    /\ Accept(xt)
    /\ UNCHANGED <<block, nonce, best, sent>>

\* External: any other extrinsic a key's account signs, such as submit_price, uses
\* up a nonce.
OtherExtrinsic(k) ==
    /\ nonce[k] < MaxNonce
    /\ nonce' = [nonce EXCEPT ![k] = @ + 1]
    /\ UNCHANGED <<block, best, numbers, sent, accepted>>

\* External: the block is sealed and imported, runs see its state.
ImportBlock ==
    /\ block < MaxBlock
    /\ block' = block + 1
    /\ best' = [number |-> block, nonce |-> nonce]
    /\ UNCHANGED <<nonce, numbers, sent, accepted>>

Work ==
    \/ offchain_unsigned_tx
    \/ \E k \in Keys :
          \/ offchain_signed_tx(k)
          \/ offchain_unsigned_tx_signed_payload(k)

Include ==
    \E xt \in sent \cup Foreign :
        \/ submit_number_signed(xt)
        \/ submit_number_unsigned(xt)
        \/ submit_number_unsigned_with_signed_payload(xt)

Next ==
    \/ Work
    \/ Include
    \/ \E k \in Keys : OtherExtrinsic(k)
    \/ ImportBlock

Spec == Init /\ [][Next]_vars

-----------------------------------------------------------------------------
(* Properties. *)

\* Storage, nonces and submitted extrinsics keep their types.
TypeOK ==
    /\ block \in 1 .. MaxBlock
    /\ nonce \in [Accounts -> Nat]
    /\ best \in [number : 0 .. MaxBlock, nonce : [Accounts -> Nat]]
    /\ numbers \in Seq(Nat)
    /\ sent \subseteq Extrinsic
    /\ accepted \in Seq(Extrinsic)

\* append_or_replace_number: Numbers is always exactly the last NumVecLen
\* numbers that were accepted, in the order they were accepted.
LastNumbers ==
    /\ Len(numbers) = IF Len(accepted) < NumVecLen THEN Len(accepted) ELSE NumVecLen
    /\ \A i \in 1 .. Len(numbers) :
          numbers[i] = accepted[Len(accepted) - Len(numbers) + i].number

\* A number signed for a key, which only the workers do.
SignedByRun(xt) == xt.fn = "submit_number_signed" /\ xt.signer \in Keys

\* Runs on several nodes and for several blocks race for the same nonce and
\* their extrinsics arrive late or in any order, yet a number a run signed is
\* never accepted after the number of a later block of the same account: the
\* nonce read from the state of a run's block rules it out.  The exception are
\* runs at whose block a price is signed too: they may carry the next nonce,
\* which lets them wait for, and follow, the number of a later block.
SignedInOrder ==
    \A i, j \in 1 .. Len(accepted) :
        (/\ i < j
         /\ SignedByRun(accepted[i]) /\ SignedByRun(accepted[j])
         /\ accepted[i].signer = accepted[j].signer
         /\ ~ PriceSigned(accepted[j].number))
        => accepted[i].number < accepted[j].number
=============================================================================
