-------------------------- MODULE OcwNumbersProofs --------------------------
(* Proofs about OcwNumbers, for any keys and any capacity of the list. *)
EXTENDS OcwNumbers, TLAPS

\* The best block is the parent of the block being built, and its nonces are
\* not ahead of the current ones.
BestIsParent ==
    /\ best.number + 1 = block
    /\ \A k \in Keys : best.nonce[k] <= nonce[k]

\* A signed extrinsic that was sent is not newer than the best block, unless
\* its run may have signed a price before.
SentNotAhead ==
    \A t \in sent :
        SignedByRun(t) /\ ~ PriceSigned(t.number) => t.nonce <= best.nonce[t.signer]

\* Only runs sign for a key, and they report at most the best block.
SentNumbers ==
    \A t \in sent \cup Foreign : SignedByRun(t) => t \in sent /\ t.number <= best.number

\* A signed number that was accepted used up its nonce; a run of the best
\* block that reads a later nonce reports a later block.
AcceptedBehind ==
    \A i \in 1 .. Len(accepted) : SignedByRun(accepted[i]) =>
        /\ accepted[i].nonce < nonce[accepted[i].signer]
        /\ accepted[i].number <= best.number
        /\ accepted[i].nonce < best.nonce[accepted[i].signer]
              => accepted[i].number < best.number

\* So does every extrinsic already sent with a later nonce.
SentAfterAccepted ==
    \A i \in 1 .. Len(accepted) : \A t \in sent :
        (/\ SignedByRun(accepted[i]) /\ SignedByRun(t)
         /\ accepted[i].signer = t.signer
         /\ accepted[i].nonce < t.nonce
         /\ ~ PriceSigned(t.number))
        => accepted[i].number < t.number

\* The inductive invariant.
Inv ==
    /\ TypeOK
    /\ LastNumbers
    /\ BestIsParent
    /\ SentNotAhead
    /\ SentNumbers
    /\ AcceptedBehind
    /\ SentAfterAccepted
    /\ SignedInOrder

-----------------------------------------------------------------------------
\* The fields of an extrinsic.
LEMMA XtType ==
    ASSUME NEW xt \in Extrinsic
    PROVE  /\ xt.number \in Nat
           /\ xt.fn = "submit_number_signed" => xt.signer \in Accounts /\ xt.nonce \in Nat
           /\ SignedByRun(xt) => xt.signer \in Keys /\ xt.nonce \in Nat
BY NumbersAssumption DEF Extrinsic, Signed, Unsigned, WithPayload, SignedByRun

\* Strangers do not sign for a key.
LEMMA ForeignType == Foreign \subseteq Extrinsic /\ \A t \in Foreign : ~ SignedByRun(t)
<1> USE NumbersAssumption
<1> SUFFICES ASSUME NEW t \in Foreign PROVE t \in Extrinsic /\ ~ SignedByRun(t)
  OBVIOUS
<1>1. CASE t \in [fn : {"submit_number_signed"}, number : ForeignNumbers,
                  signer : Strangers, nonce : 0 .. MaxAccepted]
  <2>1. t \in Signed
    <3>1. PICK n \in ForeignNumbers, a \in Strangers, c \in 0 .. MaxAccepted :
              t = [fn |-> "submit_number_signed", number |-> n, signer |-> a, nonce |-> c]
      BY <1>1
    <3>2. n \in 0 .. MaxBlock /\ a \in Accounts /\ c \in Nat
      BY DEF Accounts
    <3> QED
      BY <3>1, <3>2 DEF Signed
  <2> QED
    BY <1>1, <2>1 DEF Extrinsic, SignedByRun
<1>2. CASE t \in [fn : {"submit_number_unsigned"}, number : ForeignNumbers]
  BY <1>2 DEF Extrinsic, Unsigned, SignedByRun
<1>3. CASE t \in [fn : {"submit_number_unsigned_with_signed_payload"},
                  number : ForeignNumbers, public : Accounts, signature : {NoKey}]
  BY <1>3 DEF Extrinsic, WithPayload, SignedByRun
<1>4. ASSUME NEW n \in ForeignNumbers, NEW a \in Strangers,
             t = [fn |-> "submit_number_unsigned_with_signed_payload",
                  number |-> n, public |-> a, signature |-> a]
      PROVE  t \in Extrinsic /\ ~ SignedByRun(t)
  BY <1>4 DEF Extrinsic, WithPayload, SignedByRun, Accounts
<1> QED
  BY <1>1, <1>2, <1>3, <1>4 DEF Foreign

\* The genesis state satisfies the invariant.
LEMMA InitInv == Init => Inv
<1> SUFFICES ASSUME Init PROVE Inv
  OBVIOUS
<1> USE NumbersAssumption
<1>1. TypeOK
  BY DEF Init, TypeOK
<1>2. LastNumbers
  BY DEF Init, LastNumbers
<1>3. BestIsParent
  BY DEF Init, BestIsParent, Accounts
<1>4. SentNumbers
  BY ForeignType DEF Init, SentNumbers
<1> QED
  BY <1>1, <1>2, <1>3, <1>4
  DEF Init, Inv, SentNotAhead, AcceptedBehind, SentAfterAccepted, SignedInOrder

\* append_or_replace_number keeps the list equal to the end of the history.
LEMMA AppendKeepsLast ==
    ASSUME TypeOK, LastNumbers, NEW xt \in Extrinsic, Accept(xt)
    PROVE  /\ numbers' \in Seq(Nat) /\ LastNumbers'
           /\ accepted' \in Seq(Extrinsic)
           /\ Len(accepted') = Len(accepted) + 1
           /\ accepted'[Len(accepted) + 1] = xt
           /\ \A i \in 1 .. Len(accepted) : accepted'[i] = accepted[i]
<1> USE NumbersAssumption
<1> DEFINE A == Len(accepted)
           L == Len(numbers)
<1>1. /\ accepted \in Seq(Extrinsic) /\ numbers \in Seq(Nat) /\ A \in Nat /\ L \in Nat
      /\ xt.number \in Nat
      /\ accepted' = Append(accepted, xt)
      /\ numbers' = append_or_replace_number(numbers, xt.number)
  BY XtType DEF TypeOK, Accept
<1>2. /\ accepted' \in Seq(Extrinsic) /\ Len(accepted') = A + 1 /\ accepted'[A + 1] = xt
      /\ \A i \in 1 .. A : accepted'[i] = accepted[i]
  BY <1>1
<1>3. L = (IF A < NumVecLen THEN A ELSE NumVecLen)
      /\ \A i \in 1 .. L : numbers[i] = accepted[A - L + i].number
  BY DEF LastNumbers
<1>4. CASE L = NumVecLen
  <2>1. numbers' = Append(Tail(numbers), xt.number)
    BY <1>1, <1>4 DEF append_or_replace_number
  <2>2. /\ Tail(numbers) \in Seq(Nat) /\ Len(Tail(numbers)) = L - 1
        /\ \A i \in 1 .. (L - 1) : Tail(numbers)[i] = numbers[i + 1]
    BY <1>1, <1>4
  <2>3. /\ numbers' \in Seq(Nat) /\ Len(numbers') = L /\ numbers'[L] = xt.number
        /\ \A i \in 1 .. (L - 1) : numbers'[i] = numbers[i + 1]
    BY <1>1, <1>4, <2>1, <2>2
  <2>4. ASSUME NEW i \in 1 .. L PROVE numbers'[i] = accepted'[(A + 1) - L + i].number
    <3>0. i \in Int /\ (i = L \/ i \in 1 .. (L - 1))
      BY <1>1
    <3>1. CASE i = L
      <4>1. (A + 1) - L + i = A + 1
        BY <1>1, <3>1
      <4> QED
        BY <1>2, <2>3, <3>1, <4>1
    <3>2. CASE i \in 1 .. (L - 1)
      <4>0. i + 1 \in 1 .. L /\ numbers'[i] = numbers[i + 1]
        BY <1>1, <2>3, <3>2
      <4>1. numbers'[i] = accepted[A - L + (i + 1)].number
        BY <1>3, <4>0
      <4>2. A - L + (i + 1) \in 1 .. A /\ A - L + (i + 1) = (A + 1) - L + i
        <5>1. /\ A \in Int /\ L \in Int /\ i \in Int
              /\ L <= A /\ 1 <= i /\ i <= L - 1
          BY <1>1, <1>3, <3>2
        <5> HIDE DEF A, L
        <5> QED
          BY <5>1
      <4> QED
        BY <1>2, <4>1, <4>2
    <3> QED
      BY <3>0, <3>1, <3>2
  <2>5. Len(numbers') = IF Len(accepted') < NumVecLen THEN Len(accepted') ELSE NumVecLen
    BY <1>1, <1>2, <1>3, <1>4, <2>3
  <2>6. \A i \in 1 .. Len(numbers') :
            numbers'[i] = accepted'[Len(accepted') - Len(numbers') + i].number
    BY <1>2, <2>3, <2>4
  <2> QED
    BY <1>2, <2>3, <2>5, <2>6 DEF LastNumbers
<1>5. CASE L # NumVecLen
  <2>1. L = A /\ A < NumVecLen
    BY <1>1, <1>3, <1>5
  <2>2. numbers' = Append(numbers, xt.number)
    BY <1>1, <1>5 DEF append_or_replace_number
  <2>3. /\ numbers' \in Seq(Nat) /\ Len(numbers') = L + 1 /\ numbers'[L + 1] = xt.number
        /\ \A i \in 1 .. L : numbers'[i] = numbers[i]
    BY <1>1, <2>2
  <2>4. ASSUME NEW i \in 1 .. (L + 1)
        PROVE  numbers'[i] = accepted'[(A + 1) - (L + 1) + i].number
    <3>1. (A + 1) - (L + 1) + i = i /\ A - L + i = i /\ (i \in 1 .. L \/ i = L + 1)
      BY <1>1, <2>1
    <3> QED
      BY <1>1, <1>2, <1>3, <2>1, <2>3, <3>1
  <2>5. Len(numbers') = IF Len(accepted') < NumVecLen THEN Len(accepted') ELSE NumVecLen
    BY <1>1, <1>2, <2>1, <2>3
  <2> QED
    BY <1>1, <1>2, <2>3, <2>4, <2>5 DEF LastNumbers
<1> QED
  BY <1>4, <1>5

-----------------------------------------------------------------------------
\* Accepting an extrinsic that no run signed disturbs only the list, and the
\* nonces of strangers.
LEMMA AcceptOther ==
    ASSUME Inv, NEW xt \in Extrinsic, ~ SignedByRun(xt), Accept(xt),
           nonce' \in [Accounts -> Nat], \A k \in Keys : nonce'[k] = nonce[k],
           UNCHANGED <<block, best, sent>>
    PROVE  Inv'
<1>1. /\ numbers' \in Seq(Nat) /\ LastNumbers'
      /\ accepted' \in Seq(Extrinsic)
      /\ Len(accepted') = Len(accepted) + 1
      /\ accepted'[Len(accepted) + 1] = xt
      /\ \A i \in 1 .. Len(accepted) : accepted'[i] = accepted[i]
  BY AppendKeepsLast DEF Inv
<1>2. Len(accepted) \in Nat
  BY DEF Inv, TypeOK
<1>3. ASSUME NEW i \in 1 .. Len(accepted'), SignedByRun(accepted'[i])
      PROVE  i \in 1 .. Len(accepted) /\ accepted'[i] = accepted[i]
  <2>1. i \in 1 .. Len(accepted) \/ i = Len(accepted) + 1
    BY <1>1, <1>2
  <2> QED
    BY <1>1, <1>3, <2>1
<1>4. TypeOK' /\ BestIsParent' /\ SentNotAhead' /\ SentNumbers'
  BY <1>1 DEF Inv, TypeOK, BestIsParent, SentNotAhead, SentNumbers
<1>5. AcceptedBehind'
  <2> SUFFICES ASSUME NEW i \in 1 .. Len(accepted'), SignedByRun(accepted'[i])
               PROVE  /\ accepted'[i].nonce < nonce[accepted'[i].signer]
                      /\ accepted'[i].number <= best.number
                      /\ accepted'[i].nonce < best.nonce[accepted'[i].signer]
                            => accepted'[i].number < best.number
    BY DEF AcceptedBehind, SignedByRun
  <2> QED
    BY <1>3 DEF Inv, AcceptedBehind
<1>6. SentAfterAccepted'
  <2> SUFFICES ASSUME NEW i \in 1 .. Len(accepted'), NEW t \in sent,
                      SignedByRun(accepted'[i]), SignedByRun(t),
                      accepted'[i].signer = t.signer, accepted'[i].nonce < t.nonce,
                      ~ PriceSigned(t.number)
               PROVE  accepted'[i].number < t.number
    BY DEF SentAfterAccepted
  <2> QED
    BY <1>3 DEF Inv, SentAfterAccepted
<1>7. SignedInOrder'
  <2> SUFFICES ASSUME NEW i \in 1 .. Len(accepted'), NEW j \in 1 .. Len(accepted'), i < j,
                      SignedByRun(accepted'[i]), SignedByRun(accepted'[j]),
                      accepted'[i].signer = accepted'[j].signer,
                      ~ PriceSigned(accepted'[j].number)
               PROVE  accepted'[i].number < accepted'[j].number
    BY DEF SignedInOrder
  <2> QED
    BY <1>3 DEF Inv, SignedInOrder
<1> QED
  BY <1>1, <1>4, <1>5, <1>6, <1>7 DEF Inv

\* A run of the signed branch: what it sends is as new as the best block.
LEMMA SignedRunInv ==
    ASSUME Inv, NEW k \in Keys, offchain_signed_tx(k)
    PROVE  Inv'
<1> USE NumbersAssumption
<1>0. PICK n \in NonceRead(k) :
          sent' = sent \cup {[fn |-> "submit_number_signed", number |-> best.number,
                             signer |-> k, nonce |-> n]}
  BY DEF offchain_signed_tx
<1> DEFINE xt == [fn |-> "submit_number_signed", number |-> best.number,
                  signer |-> k, nonce |-> n]
<1>1. sent' = sent \cup {xt} /\ UNCHANGED <<block, nonce, best, numbers, accepted>>
  BY <1>0 DEF offchain_signed_tx
<1>2. /\ best.number \in 0 .. MaxBlock /\ best.nonce[k] \in Nat
      /\ best.nonce \in [Accounts -> Nat]
  BY DEF Inv, TypeOK, Accounts
<1>3. n \in Nat /\ xt \in Extrinsic
  BY <1>2 DEF Extrinsic, Signed, NonceRead, Accounts
<1>4. /\ SignedByRun(xt) /\ xt.signer = k /\ xt.number = best.number
      /\ ~ PriceSigned(best.number) => xt.nonce = best.nonce[k]
  BY DEF SignedByRun, NonceRead
<1> HIDE DEF xt
<1>5. TypeOK' /\ LastNumbers' /\ BestIsParent'
  BY <1>1, <1>3 DEF Inv, TypeOK, LastNumbers, BestIsParent
<1>6. AcceptedBehind' /\ SignedInOrder'
  BY <1>1 DEF Inv, AcceptedBehind, SignedInOrder
<1>7. SentNotAhead'
  BY <1>1, <1>2, <1>4 DEF Inv, SentNotAhead
<1>8. SentNumbers'
  BY <1>1, <1>2, <1>4 DEF Inv, SentNumbers
<1>9. SentAfterAccepted'
  BY <1>1, <1>4 DEF Inv, SentAfterAccepted, AcceptedBehind
<1> QED
  BY <1>5, <1>6, <1>7, <1>8, <1>9 DEF Inv

\* A run that sends something unsigned disturbs only the types.
LEMMA UnsignedRunInv ==
    ASSUME Inv, NEW xt \in Extrinsic, ~ SignedByRun(xt), sent' = sent \cup {xt},
           UNCHANGED <<block, nonce, best, numbers, accepted>>
    PROVE  Inv'
<1>1. TypeOK' /\ LastNumbers' /\ BestIsParent' /\ AcceptedBehind' /\ SignedInOrder'
  BY DEF Inv, TypeOK, LastNumbers, BestIsParent, AcceptedBehind, SignedInOrder
<1>2. SentNotAhead' /\ SentNumbers' /\ SentAfterAccepted'
  BY DEF Inv, SentNotAhead, SentNumbers, SentAfterAccepted
<1> QED
  BY <1>1, <1>2 DEF Inv

\* The signed call: the nonce check makes the accepted extrinsic the newest.
LEMMA SignedCallInv ==
    ASSUME Inv, NEW xt \in sent, SignedByRun(xt), submit_number_signed(xt)
    PROVE  Inv'
<1> USE NumbersAssumption
<1>0. xt \in Extrinsic /\ SignedByRun(xt) /\ Accept(xt)
  BY DEF Inv, TypeOK, SignedByRun, submit_number_signed
<1>1. /\ xt.signer \in Keys /\ xt.nonce \in Nat /\ xt.nonce = nonce[xt.signer]
      /\ nonce' = [nonce EXCEPT ![xt.signer] = @ + 1]
      /\ UNCHANGED <<block, best, sent>>
  BY <1>0, XtType DEF submit_number_signed
<1>2. /\ numbers' \in Seq(Nat) /\ LastNumbers'
      /\ accepted' \in Seq(Extrinsic)
      /\ Len(accepted') = Len(accepted) + 1
      /\ accepted'[Len(accepted) + 1] = xt
      /\ \A i \in 1 .. Len(accepted) : accepted'[i] = accepted[i]
  BY <1>0, AppendKeepsLast DEF Inv
<1>3. /\ nonce \in [Accounts -> Nat] /\ best.nonce \in [Accounts -> Nat] /\ best.number \in Nat
      /\ Len(accepted) \in Nat
  BY DEF Inv, TypeOK
<1>4. /\ nonce' \in [Accounts -> Nat] /\ nonce'[xt.signer] = xt.nonce + 1
      /\ \A k \in Keys : nonce[k] <= nonce'[k]
  BY <1>1, <1>3 DEF Accounts
<1>5. \A i \in 1 .. Len(accepted') :
         \/ i \in 1 .. Len(accepted) /\ accepted'[i] = accepted[i]
         \/ i = Len(accepted) + 1 /\ accepted'[i] = xt
  BY <1>2, <1>3
<1>6. TypeOK'
  BY <1>1, <1>2, <1>4 DEF Inv, TypeOK
<1>7. BestIsParent'
  BY <1>1, <1>3, <1>4 DEF Inv, BestIsParent
<1>8. SentNotAhead' /\ SentNumbers'
  BY <1>1 DEF Inv, SentNotAhead, SentNumbers
<1>9. AcceptedBehind'
  <2> SUFFICES ASSUME NEW i \in 1 .. Len(accepted'), SignedByRun(accepted'[i])
               PROVE  /\ accepted'[i].nonce < nonce'[accepted'[i].signer]
                      /\ accepted'[i].number <= best.number
                      /\ accepted'[i].nonce < best.nonce[accepted'[i].signer]
                            => accepted'[i].number < best.number
    BY <1>1 DEF AcceptedBehind
  <2>1. CASE i \in 1 .. Len(accepted) /\ accepted'[i] = accepted[i]
    <3>1. accepted[i] \in Extrinsic
      BY <2>1 DEF Inv, TypeOK
    <3>2. accepted[i].signer \in Keys /\ accepted[i].nonce \in Nat
      BY <2>1, <3>1, XtType
    <3>3. /\ accepted[i].nonce < nonce[accepted[i].signer]
          /\ accepted[i].number <= best.number
          /\ accepted[i].nonce < best.nonce[accepted[i].signer]
                => accepted[i].number < best.number
      BY <2>1 DEF Inv, AcceptedBehind
    <3> QED
      BY <1>3, <1>4, <2>1, <3>2, <3>3 DEF Accounts
  <2>2. CASE accepted'[i] = xt
    <3>1. xt.number <= best.number
      BY <1>0 DEF Inv, SentNumbers
    <3>2. best.nonce[xt.signer] <= xt.nonce
      BY <1>1 DEF Inv, BestIsParent
    <3> QED
      BY <1>1, <1>3, <1>4, <2>2, <3>1, <3>2
  <2> QED
    BY <1>5, <2>1, <2>2
<1>10. SentAfterAccepted'
  <2> SUFFICES ASSUME NEW i \in 1 .. Len(accepted'), NEW t \in sent,
                      SignedByRun(accepted'[i]), SignedByRun(t),
                      accepted'[i].signer = t.signer, accepted'[i].nonce < t.nonce,
                      ~ PriceSigned(t.number)
               PROVE  accepted'[i].number < t.number
    BY <1>1 DEF SentAfterAccepted
  <2>1. CASE i \in 1 .. Len(accepted) /\ accepted'[i] = accepted[i]
    BY <2>1 DEF Inv, SentAfterAccepted
  <2>2. CASE accepted'[i] = xt
    <3>1. t.nonce <= best.nonce[t.signer] /\ best.nonce[t.signer] <= nonce[t.signer]
      BY <1>1, <2>2 DEF Inv, SentNotAhead, BestIsParent
    <3>2. t \in Extrinsic /\ t.nonce \in Nat
      BY XtType DEF Inv, TypeOK
    <3> QED
      BY <1>1, <1>3, <2>2, <3>1, <3>2 DEF Accounts
  <2> QED
    BY <1>5, <2>1, <2>2
<1>11. SignedInOrder'
  <2> SUFFICES ASSUME NEW i \in 1 .. Len(accepted'), NEW j \in 1 .. Len(accepted'), i < j,
                      SignedByRun(accepted'[i]), SignedByRun(accepted'[j]),
                      accepted'[i].signer = accepted'[j].signer,
                      ~ PriceSigned(accepted'[j].number)
               PROVE  accepted'[i].number < accepted'[j].number
    BY DEF SignedInOrder
  <2>1. i \in 1 .. Len(accepted) /\ accepted'[i] = accepted[i]
    BY <1>2, <1>3
  <2>2. CASE j \in 1 .. Len(accepted) /\ accepted'[j] = accepted[j]
    BY <2>1, <2>2 DEF Inv, SignedInOrder
  <2>3. CASE accepted'[j] = xt
    <3>1. accepted[i].nonce < xt.nonce
      BY <1>1, <2>1, <2>3 DEF Inv, AcceptedBehind
    <3> QED
      BY <1>0, <2>1, <2>3, <3>1 DEF Inv, SentAfterAccepted
  <2> QED
    BY <1>5, <2>2, <2>3
<1> QED
  BY <1>2, <1>6, <1>7, <1>8, <1>9, <1>10, <1>11 DEF Inv

\* Another extrinsic of an account only moves its nonce forward.
LEMMA OtherInv == ASSUME Inv, NEW k \in Keys, OtherExtrinsic(k) PROVE Inv'
<1>1. /\ nonce' = [nonce EXCEPT ![k] = @ + 1]
      /\ UNCHANGED <<block, best, numbers, sent, accepted>>
  BY DEF OtherExtrinsic
<1>2. nonce \in [Accounts -> Nat] /\ best.nonce \in [Accounts -> Nat]
  BY DEF Inv, TypeOK
<1>3. nonce' \in [Accounts -> Nat] /\ \A a \in Keys : nonce[a] <= nonce'[a]
  BY <1>1, <1>2 DEF Accounts
<1>4. TypeOK' /\ LastNumbers' /\ SentNotAhead' /\ SentNumbers'
      /\ SentAfterAccepted' /\ SignedInOrder'
  BY <1>1, <1>3 DEF Inv, TypeOK, LastNumbers, SentNotAhead, SentNumbers,
                    SentAfterAccepted, SignedInOrder
<1>5. BestIsParent'
  BY <1>1, <1>2, <1>3 DEF Inv, BestIsParent
<1>6. AcceptedBehind'
  <2> SUFFICES ASSUME NEW i \in 1 .. Len(accepted), SignedByRun(accepted[i])
               PROVE  accepted[i].nonce < nonce'[accepted[i].signer]
    BY <1>1 DEF Inv, AcceptedBehind
  <2>1. accepted[i] \in Extrinsic
    BY DEF Inv, TypeOK
  <2>2. accepted[i].signer \in Keys /\ accepted[i].nonce \in Nat
    BY <2>1, XtType
  <2>3. accepted[i].nonce < nonce[accepted[i].signer]
    BY DEF Inv, AcceptedBehind
  <2> QED
    BY <1>2, <1>3, <2>2, <2>3 DEF Accounts
<1> QED
  BY <1>4, <1>5, <1>6 DEF Inv

\* Importing a block: runs of the new block report a number nobody has used.
LEMMA ImportInv == ASSUME Inv, ImportBlock PROVE Inv'
<1> USE NumbersAssumption
<1>1. /\ block < MaxBlock /\ block' = block + 1
      /\ best' = [number |-> block, nonce |-> nonce]
      /\ UNCHANGED <<nonce, numbers, sent, accepted>>
  BY DEF ImportBlock
<1>2. /\ block \in 1 .. MaxBlock /\ nonce \in [Accounts -> Nat]
      /\ best.nonce \in [Accounts -> Nat] /\ best.number \in Nat
      /\ best.number + 1 = block /\ \A k \in Keys : best.nonce[k] <= nonce[k]
  BY DEF Inv, TypeOK, BestIsParent
<1>3. best'.number = block /\ best'.nonce = nonce /\ best.number < best'.number
  BY <1>1, <1>2
<1>4. TypeOK'
  <2>1. block' \in 1 .. MaxBlock /\ best' \in [number : 0 .. MaxBlock, nonce : [Accounts -> Nat]]
    BY <1>1, <1>2
  <2> QED
    BY <1>1, <2>1 DEF Inv, TypeOK
<1>10. LastNumbers' /\ SentAfterAccepted' /\ SignedInOrder'
  BY <1>1 DEF Inv, LastNumbers, SentAfterAccepted, SignedInOrder
<1>5. BestIsParent'
  BY <1>1, <1>2, <1>3 DEF BestIsParent, Accounts
<1>6. ASSUME NEW t \in Extrinsic, SignedByRun(t)
      PROVE  t.signer \in Keys /\ t.nonce \in Nat /\ t.number \in Nat
  BY <1>6, XtType
<1>7. SentNotAhead'
  <2> SUFFICES ASSUME NEW t \in sent, SignedByRun(t), ~ PriceSigned(t.number)
               PROVE  t.nonce <= nonce[t.signer]
    BY <1>1, <1>3 DEF SentNotAhead
  <2>1. t.signer \in Keys /\ t.nonce \in Nat
    BY <1>6 DEF Inv, TypeOK
  <2>2. t.nonce <= best.nonce[t.signer]
    BY DEF Inv, SentNotAhead
  <2> QED
    BY <1>2, <2>1, <2>2 DEF Accounts
<1>8. SentNumbers'
  <2> SUFFICES ASSUME NEW t \in sent \cup Foreign, SignedByRun(t)
               PROVE  t \in sent /\ t.number <= best'.number
    BY <1>1 DEF SentNumbers
  <2>1. t \in sent /\ t.number <= best.number
    BY DEF Inv, SentNumbers
  <2>2. t.number \in Nat
    BY <1>6, <2>1 DEF Inv, TypeOK
  <2> QED
    BY <1>2, <1>3, <2>1, <2>2
<1>9. AcceptedBehind'
  <2> SUFFICES ASSUME NEW i \in 1 .. Len(accepted), SignedByRun(accepted[i])
               PROVE  /\ accepted[i].nonce < nonce[accepted[i].signer]
                      /\ accepted[i].number < best'.number
    <3>1. ASSUME NEW i \in 1 .. Len(accepted), SignedByRun(accepted[i]),
                 accepted[i].number < best'.number
          PROVE  accepted[i].number <= best'.number
      <4>1. accepted[i].number \in Nat
        BY <1>6, <3>1 DEF Inv, TypeOK
      <4> QED
        BY <1>2, <1>3, <3>1, <4>1
    <3> QED
      BY <1>1, <3>1 DEF AcceptedBehind
  <2>1. accepted[i].nonce < nonce[accepted[i].signer] /\ accepted[i].number <= best.number
    BY DEF Inv, AcceptedBehind
  <2>2. accepted[i].number \in Nat
    BY <1>6 DEF Inv, TypeOK
  <2> QED
    BY <1>2, <1>3, <2>1, <2>2
<1> QED
  BY <1>4, <1>5, <1>7, <1>8, <1>9, <1>10 DEF Inv

-----------------------------------------------------------------------------
\* Every step keeps the invariant.
LEMMA NextInv == Inv /\ [Next]_vars => Inv'
<1> SUFFICES ASSUME Inv, [Next]_vars PROVE Inv'
  OBVIOUS
<1> USE NumbersAssumption
<1>0. best.number \in 0 .. MaxBlock
  BY DEF Inv, TypeOK
<1>1. ASSUME NEW k \in Keys, offchain_signed_tx(k) PROVE Inv'
  BY <1>1, SignedRunInv
<1>2. CASE offchain_unsigned_tx
  <2> DEFINE xt == [fn |-> "submit_number_unsigned", number |-> best.number]
  <2>1. xt \in Extrinsic /\ ~ SignedByRun(xt)
    BY <1>0 DEF Extrinsic, Unsigned, SignedByRun
  <2> QED
    BY <1>2, <2>1, UnsignedRunInv DEF offchain_unsigned_tx
<1>3. ASSUME NEW k \in Keys, offchain_unsigned_tx_signed_payload(k) PROVE Inv'
  <2> DEFINE xt == [fn |-> "submit_number_unsigned_with_signed_payload",
                    number |-> best.number, public |-> k, signature |-> k]
  <2>1. xt \in Extrinsic /\ ~ SignedByRun(xt)
    BY <1>0 DEF Extrinsic, WithPayload, SignedByRun, Accounts
  <2> QED
    BY <1>3, <2>1, UnsignedRunInv DEF offchain_unsigned_tx_signed_payload
<1>4. ASSUME NEW xt \in sent \cup Foreign, submit_number_signed(xt) PROVE Inv'
  <2>1. CASE SignedByRun(xt)
    <3>1. xt \in sent
      BY <2>1 DEF Inv, SentNumbers
    <3> QED
      BY <1>4, <2>1, <3>1, SignedCallInv
  <2>2. CASE ~ SignedByRun(xt)
    <3>1. xt \in Extrinsic /\ xt.signer \in Accounts \ Keys
      <4>1. xt \in Extrinsic
        BY ForeignType DEF Inv, TypeOK
      <4> QED
        BY <1>4, <2>2, <4>1, XtType DEF SignedByRun, submit_number_signed
    <3>2. nonce \in [Accounts -> Nat] /\ Keys \subseteq Accounts
      BY DEF Inv, TypeOK, Accounts
    <3>3. /\ nonce' = [nonce EXCEPT ![xt.signer] = @ + 1]
          /\ Accept(xt) /\ UNCHANGED <<block, best, sent>>
      BY <1>4 DEF submit_number_signed
    <3>4. nonce' \in [Accounts -> Nat] /\ \A k \in Keys : nonce'[k] = nonce[k]
      BY <3>1, <3>2, <3>3
    <3> QED
      BY <2>2, <3>1, <3>3, <3>4, AcceptOther
  <2> QED
    BY <2>1, <2>2
<1>5. ASSUME NEW xt \in sent \cup Foreign,
             submit_number_unsigned(xt) \/ submit_number_unsigned_with_signed_payload(xt)
      PROVE  Inv'
  <2>1. xt \in Extrinsic
    BY ForeignType DEF Inv, TypeOK
  <2>2. /\ ~ SignedByRun(xt) /\ Accept(xt) /\ UNCHANGED <<block, nonce, best, sent>>
    BY <1>5 DEF submit_number_unsigned, submit_number_unsigned_with_signed_payload, SignedByRun
  <2>3. nonce' \in [Accounts -> Nat] /\ \A k \in Keys : nonce'[k] = nonce[k]
    BY <2>2 DEF Inv, TypeOK
  <2> QED
    BY <2>1, <2>2, <2>3, AcceptOther
<1>6. CASE ImportBlock
  BY <1>6, ImportInv
<1>7. CASE UNCHANGED vars
  BY <1>7 DEF Inv, vars, TypeOK, LastNumbers, BestIsParent, SentNotAhead, SentNumbers,
              AcceptedBehind, SentAfterAccepted, SignedInOrder
<1>8. ASSUME NEW k \in Keys, OtherExtrinsic(k) PROVE Inv'
  BY <1>8, OtherInv
<1> QED
  BY <1>1, <1>2, <1>3, <1>4, <1>5, <1>6, <1>7, <1>8 DEF Next, Work, Include

\* Inv holds in every reachable state.
THEOREM Invariance == Spec => []Inv
BY InitInv, NextInv, PTL DEF Spec

\* The storage Numbers, the nonces and the extrinsics that runs submit always
\* have their types.
THEOREM TypeCorrect == Spec => []TypeOK
<1>1. Inv => TypeOK
  BY DEF Inv
<1> QED
  BY Invariance, <1>1, PTL

\* Whatever the capacity NUM_VEC_LEN, Numbers always is the end of the
\* sequence of accepted numbers.
THEOREM ListIsLastNumbers == Spec => []LastNumbers
<1>1. Inv => LastNumbers
  BY DEF Inv
<1> QED
  BY Invariance, <1>1, PTL

\* However many nodes, runs and accounts compete, and however late their
\* extrinsics arrive, a signed number never follows that of a later block,
\* except where its run may carry a nonce moved on by a signed price.
THEOREM SignedNumbersInOrder == Spec => []SignedInOrder
<1>1. Inv => SignedInOrder
  BY DEF Inv
<1> QED
  BY Invariance, <1>1, PTL
=============================================================================
