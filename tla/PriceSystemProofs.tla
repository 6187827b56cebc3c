------------------------- MODULE PriceSystemProofs -------------------------
(* Proofs about PriceSystem, for any number of nodes, runs and keys. *)
EXTENDS PriceSystem, PriceOracleProofs

\* The types of the worker side; a price is at hand when one is sent.
WorkerTypes ==
    /\ best \in View
    /\ lastSend \in [Nodes -> {NeverSent} \cup Nat]
    /\ granted \in [Nodes -> Seq(Nat)]
    /\ run \in [Workers -> RunState]
    /\ \A r \in Workers : run[r].pc = "send" => run[r].price \in PriceSet
    /\ sent \subseteq Extrinsic

\* last_send is the last permit.
LastIsNewest ==
    \A n \in Nodes :
        /\ Len(granted[n]) = 0 => lastSend[n] = NeverSent
        /\ Len(granted[n]) > 0 => lastSend[n] = granted[n][Len(granted[n])]

MayGrant(last, b) == last = NeverSent \/ b >= last + GracePeriod

\* A run about to compare-and-set read a last_send that lets it through.
SeenAllows ==
    \A r \in Workers : run[r].pc = "cas" => MayGrant(run[r].seen, run[r].view.number)

\* The inductive invariant: the oracle's own, and the workers'.
SysInv ==
    /\ Inv
    /\ WorkerTypes
    /\ LastIsNewest
    /\ SeenAllows
    /\ GraceSpacing

-----------------------------------------------------------------------------
\* Runs and views start with their types.
LEMMA IdleType == Idle \in RunState /\ Idle.pc = "idle" /\ InitialView \in View
<1>1. InitialView \in View
  BY OracleAssumption DEF InitialView, View
<1> QED
  BY <1>1 DEF Idle, RunState

\* The initial state of the workers satisfies their invariant.
LEMMA WorkerInit == SysInit => SysInv
<1> SUFFICES ASSUME SysInit PROVE SysInv
  OBVIOUS
<1>1. Inv
  BY InitInv DEF SysInit
<1>2. WorkerTypes
  BY IdleType DEF SysInit, WorkerTypes
<1>3. LastIsNewest /\ GraceSpacing
  BY DEF SysInit, LastIsNewest, GraceSpacing
<1>4. SeenAllows
  BY IdleType DEF SysInit, SeenAllows
<1> QED
  BY <1>1, <1>2, <1>3, <1>4 DEF SysInv

\* The parts of a run record.
LEMMA RunType ==
    ASSUME WorkerTypes, NEW r \in Workers
    PROVE  /\ run[r] \in RunState /\ run[r].view \in View
           /\ run[r].view.number \in 0 .. MaxBlock /\ run[r].view.number \in Nat
           /\ run[r].view.number \in Blocks
           /\ run[r].seen \in {NeverSent} \cup Nat
           /\ run[r].view.nonce \in [Accounts -> 0 .. MaxNonce]
           /\ Host[r] \in Nodes
           /\ Keys[Host[r]] \subseteq Accounts
<1>1. run[r] \in RunState /\ Host[r] \in Nodes /\ Keys[Host[r]] \subseteq Accounts
  BY SystemAssumption DEF WorkerTypes
<1>2. run[r].view \in View /\ run[r].seen \in {NeverSent} \cup Nat
  BY <1>1 DEF RunState
<1> QED
  BY <1>1, <1>2, OracleAssumption DEF View, Blocks

\* One run moves and last_send stays.
LEMMA MoveRun ==
    ASSUME SysInv, NEW r \in Workers, NEW x \in RunState,
           run' = [run EXCEPT ![r] = x],
           x.pc = "send" => x.price \in PriceSet,
           x.pc = "cas" => MayGrant(x.seen, x.view.number),
           UNCHANGED <<oracleVars, best, lastSend, granted>>,
           sent' \subseteq Extrinsic
    PROVE  SysInv'
<1>1. Inv'
  BY NextInv DEF SysInv
<1>2. run'[r] = x /\ \A s \in Workers : s # r => run'[s] = run[s]
  BY DEF SysInv, WorkerTypes
<1>3. WorkerTypes'
  BY <1>2 DEF SysInv, WorkerTypes
<1>4. SeenAllows'
  BY <1>2 DEF SysInv, SeenAllows, MayGrant
<1>5. LastIsNewest' /\ GraceSpacing'
  BY DEF SysInv, LastIsNewest, GraceSpacing
<1> QED
  BY <1>1, <1>3, <1>4, <1>5 DEF SysInv

\* The extrinsics that runs build are well formed.
LEMMA BuiltType ==
    ASSUME WorkerTypes, NEW r \in Workers, run[r].pc = "send", NEW key \in Keys[Host[r]]
    PROVE  /\ \A other : SignedBy(r, key, other) \in Extrinsic
           /\ WithPayloadBy(r, key) \in Extrinsic
<1>1. /\ key \in Accounts /\ run[r].price \in PriceSet
      /\ run[r].view.nonce[key] \in 0 .. MaxNonce /\ BlockNumber(r) \in Blocks
  BY RunType DEF WorkerTypes, BlockNumber
<1>2. [fn |-> "submit_price", price |-> run[r].price] \in Call
  BY <1>1 DEF Call, SubmitPrice
<1>3. ASSUME NEW other PROVE SignedBy(r, key, other) \in Extrinsic
  <2>1. run[r].view.nonce[key] + (IF key = other THEN 1 ELSE 0) \in Nonces
    BY <1>1, OracleAssumption DEF Nonces
  <2> QED
    BY <1>1, <1>2, <2>1 DEF SignedBy, Extrinsic
<1>4. [block_number |-> BlockNumber(r), price |-> run[r].price, public |-> key]
        \in PricePayload
  BY <1>1 DEF PricePayload
<1>5. WithPayloadBy(r, key).call \in Call
  BY <1>1, <1>4 DEF WithPayloadBy, Call, SubmitPriceWithPayload
<1> QED
  BY <1>3, <1>5 DEF WithPayloadBy, Extrinsic

-----------------------------------------------------------------------------
\* The step that matters: a successful compare-and-set adds a permit.
LEMMA CasStep ==
    ASSUME SysInv, NEW r \in Workers, CasLastSend(r)
    PROVE  SysInv'
<1> USE SystemAssumption
<1> DEFINE n == Host[r]
           b == run[r].view.number
           L == Len(granted[n])
<1>0. /\ WorkerTypes /\ n \in Nodes /\ b \in Nat /\ b \in Blocks /\ L \in Nat
      /\ run[r] \in RunState /\ run[r].seen \in {NeverSent} \cup Nat
      /\ granted[n] \in Seq(Nat) /\ run[r].pc = "cas"
  BY RunType DEF SysInv, WorkerTypes, CasLastSend
<1>1. CASE lastSend[n] # run[r].seen
  <2>1. /\ run' = [run EXCEPT ![r] = Idle]
        /\ UNCHANGED <<oracleVars, best, lastSend, granted, sent>>
    BY <1>1 DEF CasLastSend, Return
  <2> QED
    BY <1>0, <2>1, IdleType, MoveRun DEF WorkerTypes
<1>2. CASE lastSend[n] = run[r].seen
  <2> DEFINE x == [run[r] EXCEPT !.pc = "check"]
  <2>1. /\ run' = [run EXCEPT ![r] = x]
        /\ lastSend' = [lastSend EXCEPT ![n] = b]
        /\ granted' = [granted EXCEPT ![n] = Append(@, b)]
        /\ UNCHANGED <<oracleVars, best, sent>>
    BY <1>2 DEF CasLastSend, Goto, BlockNumber
  <2>2. MayGrant(lastSend[n], b)
    BY <1>0, <1>2 DEF SysInv, SeenAllows
  <2>3. x \in RunState /\ x.pc = "check"
    BY <1>0 DEF RunState
  <2>4. run'[r] = x /\ \A s \in Workers : s # r => run'[s] = run[s]
    BY <1>0, <2>1 DEF WorkerTypes
  <2>5. /\ granted'[n] = Append(granted[n], b) /\ lastSend'[n] = b
        /\ \A m \in Nodes : m # n => granted'[m] = granted[m] /\ lastSend'[m] = lastSend[m]
    BY <1>0, <2>1 DEF WorkerTypes
  <2>6. /\ granted'[n] \in Seq(Nat) /\ Len(granted'[n]) = L + 1
        /\ granted'[n][L + 1] = b
        /\ \A i \in 1 .. L : granted'[n][i] = granted[n][i]
    BY <1>0, <2>5
  <2>7. WorkerTypes'
    <3>1. lastSend' \in [Nodes -> {NeverSent} \cup Nat] /\ granted' \in [Nodes -> Seq(Nat)]
      BY <1>0, <2>1 DEF WorkerTypes
    <3>2. run' \in [Workers -> RunState]
      BY <1>0, <2>1, <2>3 DEF WorkerTypes
    <3> QED
      BY <1>0, <2>1, <2>3, <2>4, <3>1, <3>2 DEF WorkerTypes
  <2>8. Inv'
    BY <2>1, NextInv DEF SysInv
  <2>9. LastIsNewest'
    <3> SUFFICES ASSUME NEW m \in Nodes
                 PROVE  /\ Len(granted'[m]) = 0 => lastSend'[m] = NeverSent
                        /\ Len(granted'[m]) > 0 => lastSend'[m] = granted'[m][Len(granted'[m])]
      BY DEF LastIsNewest
    <3>1. CASE m = n
      BY <1>0, <2>5, <2>6, <3>1
    <3>2. CASE m # n
      BY <2>5, <3>2 DEF SysInv, LastIsNewest
    <3> QED
      BY <3>1, <3>2
  <2>10. SeenAllows'
    BY <2>3, <2>4 DEF SysInv, SeenAllows, MayGrant
  <2>11. ASSUME NEW i \in 1 .. L PROVE granted[n][i] + GracePeriod <= b
    <3>1. lastSend[n] = granted[n][L] /\ granted[n][L] \in Nat /\ granted[n][i] \in Nat
      BY <1>0 DEF SysInv, LastIsNewest
    <3>2. granted[n][i] <= granted[n][L]
      <4>1. CASE i = L
        BY <3>1, <4>1
      <4>2. CASE i < L
        <5>1. granted[n][i] + GracePeriod <= granted[n][L]
          BY <1>0, <4>2 DEF SysInv, GraceSpacing
        <5> QED
          BY <3>1, <5>1
      <4> QED
        BY <1>0, <4>1, <4>2
    <3>3. lastSend[n] # NeverSent /\ b >= granted[n][L] + GracePeriod
      BY <2>2, <3>1 DEF MayGrant, NeverSent
    <3> DEFINE old == granted[n][i]
               newest == granted[n][L]
    <3>4. /\ old \in Nat /\ newest \in Nat /\ b \in Nat /\ GracePeriod \in Nat
          /\ old <= newest /\ newest + GracePeriod <= b
      BY <1>0, <3>1, <3>2, <3>3
    <3> HIDE DEF old, newest, b
    <3>5. old + GracePeriod <= b
      BY <3>4
    <3> QED
      BY <3>5 DEF old
  <2>12. GraceSpacing'
    <3> SUFFICES ASSUME NEW m \in Nodes, NEW i \in 1 .. Len(granted'[m]),
                        NEW j \in 1 .. Len(granted'[m]), i < j
                 PROVE  granted'[m][i] + GracePeriod <= granted'[m][j]
      BY DEF GraceSpacing
    <3>1. CASE m # n
      BY <2>5, <3>1 DEF SysInv, GraceSpacing
    <3>2. CASE m = n /\ j \in 1 .. L
      <4>1. i \in 1 .. L
        BY <1>0, <3>2
      <4> QED
        BY <2>6, <3>2, <4>1 DEF SysInv, GraceSpacing
    <3>3. CASE m = n /\ j = L + 1
      <4>1. i \in 1 .. L
        BY <1>0, <3>3
      <4> QED
        BY <2>6, <2>11, <3>3, <4>1
    <3> QED
      BY <1>0, <2>6, <3>1, <3>2, <3>3
  <2> QED
    BY <1>0, <2>7, <2>8, <2>9, <2>10, <2>12 DEF SysInv
<1> QED
  BY <1>1, <1>2

\* The chain moves, the workers do not.
LEMMA ChainStep ==
    ASSUME SysInv, Next, best' \in View, UNCHANGED workerVars
    PROVE  SysInv'
<1>1. Inv'
  BY NextInv DEF SysInv
<1>2. WorkerTypes' /\ LastIsNewest' /\ SeenAllows' /\ GraceSpacing'
  BY DEF SysInv, WorkerTypes, LastIsNewest, SeenAllows, GraceSpacing, workerVars, MayGrant
<1> QED
  BY <1>1, <1>2 DEF SysInv

\* What others author is well formed.
LEMMA ForeignType == Foreign \subseteq Extrinsic
BY SystemAssumption DEF AuthoredByOthers

\* Every step keeps the invariant.
LEMMA SysStep ==
    ASSUME SysInv, [SysNext]_sysVars
    PROVE  SysInv'
<1> USE SystemAssumption
<1>0. WorkerTypes /\ Inv /\ TypeOK
  BY DEF SysInv, Inv
<1>2. ASSUME NEW r \in Workers, Return(r), UNCHANGED <<oracleVars, best, lastSend, granted>>,
             sent' \subseteq Extrinsic
      PROVE  SysInv'
  BY <1>2, IdleType, MoveRun DEF Return
<1>3. ASSUME NEW r \in Workers, NEW pc \in {"check", "fetch"}, Goto(r, pc),
             UNCHANGED <<oracleVars, best, lastSend, granted, sent>>
      PROVE  SysInv'
  <2> DEFINE x == [run[r] EXCEPT !.pc = pc]
  <2>1. run[r] \in RunState
    BY <1>0, RunType
  <2>2. x \in RunState /\ x.pc = pc
    BY <2>1 DEF RunState
  <2> QED
    BY <1>0, <1>3, <2>2, MoveRun DEF Goto, WorkerTypes
<1>4. ASSUME NEW r \in Workers, offchain_worker(r)
      PROVE  SysInv'
  <2> DEFINE x == [Idle EXCEPT !.pc = "read", !.view = best]
  <2>1. x \in RunState /\ x.pc = "read"
    BY <1>0, IdleType DEF RunState, WorkerTypes
  <2> QED
    BY <1>0, <1>4, <2>1, MoveRun DEF offchain_worker, WorkerTypes
<1>5. ASSUME NEW r \in Workers, ReadLastSend(r)
      PROVE  SysInv'
  <2> DEFINE last == lastSend[Host[r]]
  <2>0. /\ UNCHANGED <<oracleVars, best, lastSend, granted, sent>>
        /\ last \in {NeverSent} \cup Nat
        /\ run[r] \in RunState /\ run[r].view.number \in Nat
    BY <1>0, <1>5, RunType DEF ReadLastSend, WorkerTypes
  <2>1. CASE last # NeverSent /\ BlockNumber(r) < last + GracePeriod
    BY <1>0, <1>2, <1>5, <2>0, <2>1 DEF ReadLastSend, WorkerTypes
  <2>2. CASE ~ (last # NeverSent /\ BlockNumber(r) < last + GracePeriod)
    <3> DEFINE x == [run[r] EXCEPT !.pc = "cas", !.seen = last]
    <3>1. run' = [run EXCEPT ![r] = x]
      BY <1>5, <2>2 DEF ReadLastSend
    <3>2. /\ x \in RunState /\ x.pc = "cas" /\ x.seen = last
          /\ x.view.number = run[r].view.number
      BY <2>0 DEF RunState
    <3>3. last = NeverSent \/ run[r].view.number >= last + GracePeriod
      BY <2>0, <2>2 DEF BlockNumber
    <3> QED
      BY <1>0, <2>0, <3>1, <3>2, <3>3, MoveRun DEF MayGrant, WorkerTypes
  <2> QED
    BY <2>1, <2>2
<1>6. ASSUME NEW r \in Workers, CheckBeforeFetch(r)
      PROVE  SysInv'
  BY <1>0, <1>2, <1>3, <1>6 DEF CheckBeforeFetch, WorkerTypes
<1>7. ASSUME NEW r \in Workers, FetchPrice(r)
      PROVE  SysInv'
  <2>0. run[r] \in RunState /\ UNCHANGED <<oracleVars, best, lastSend, granted, sent>>
    BY <1>0, <1>7, RunType DEF FetchPrice
  <2>1. ASSUME NEW p \in PriceSet, run' = [run EXCEPT ![r].pc = "send", ![r].price = p]
        PROVE  SysInv'
    <3> DEFINE x == [run[r] EXCEPT !.pc = "send", !.price = p]
    <3>1. run' = [run EXCEPT ![r] = x]
      BY <2>1
    <3>2. x \in RunState /\ x.pc = "send" /\ x.price = p
      BY <2>0 DEF RunState
    <3> QED
      BY <1>0, <2>0, <3>1, <3>2, MoveRun DEF WorkerTypes
  <2>2. CASE Return(r)
    BY <1>0, <1>2, <2>0, <2>2 DEF WorkerTypes
  <2> QED
    BY <1>7, <2>0, <2>1, <2>2 DEF FetchPrice
<1>8. ASSUME NEW r \in Workers,
             \/ fetch_price_and_send_signed(r)
             \/ fetch_price_and_send_unsigned_for_any_account(r)
             \/ fetch_price_and_send_unsigned_for_all_accounts(r)
      PROVE  SysInv'
  <2>1. /\ Return(r) /\ run[r].pc = "send"
        /\ UNCHANGED <<oracleVars, best, lastSend, granted>>
    BY <1>8 DEF fetch_price_and_send_signed, fetch_price_and_send_unsigned_for_any_account,
       fetch_price_and_send_unsigned_for_all_accounts
  <2>2. \A key \in Keys[Host[r]] :
           /\ \A other : SignedBy(r, key, other) \in Extrinsic
           /\ WithPayloadBy(r, key) \in Extrinsic
    BY <1>0, <2>1, BuiltType
  <2>3. sent' \subseteq Extrinsic
    BY <1>0, <1>8, <2>2
    DEF fetch_price_and_send_signed, fetch_price_and_send_unsigned_for_any_account,
        fetch_price_and_send_unsigned_for_all_accounts, WorkerTypes
  <2> QED
    BY <1>2, <2>1, <2>3
<1>9. ASSUME NEW n \in Nodes, Restart(n)
      PROVE  SysInv'
  <2>1. \A r \in Workers : run'[r] = Idle \/ run'[r] = run[r]
    BY <1>9 DEF Restart
  <2>2. WorkerTypes'
    BY <1>0, <1>9, <2>1, IdleType DEF Restart, WorkerTypes
  <2>3. SeenAllows'
    BY <2>1, IdleType DEF SysInv, SeenAllows, MayGrant
  <2>4. Inv' /\ LastIsNewest' /\ GraceSpacing'
    BY <1>9, NextInv DEF Restart, SysInv, LastIsNewest, GraceSpacing
  <2> QED
    BY <2>2, <2>3, <2>4 DEF SysInv
<1>10. CASE Include
  <2>1. Next /\ UNCHANGED <<best, workerVars>>
    BY <1>0, <1>10, ForeignType DEF Include, Next, WorkerTypes
  <2> QED
    BY <1>0, <2>1, ChainStep DEF WorkerTypes, workerVars
<1>11. CASE ImportBlock
  <2>1. Next /\ UNCHANGED workerVars
    BY <1>11 DEF ImportBlock, Next
  <2>2. best' \in View
    BY <1>0, <1>11, OracleAssumption DEF ImportBlock, View, TypeOK
  <2> QED
    BY <2>1, <2>2, ChainStep DEF workerVars
<1>12. CASE UNCHANGED sysVars
  <2>1. Inv'
    BY <1>0, <1>12, NextInv DEF sysVars
  <2>2. WorkerTypes' /\ LastIsNewest' /\ SeenAllows' /\ GraceSpacing'
    BY <1>12 DEF SysInv, WorkerTypes, LastIsNewest, SeenAllows, GraceSpacing,
       sysVars, workerVars, MayGrant
  <2> QED
    BY <2>1, <2>2 DEF SysInv
<1>13. ASSUME NEW r \in Workers, Work(r)
       PROVE  SysInv'
  BY <1>4, <1>5, <1>6, <1>7, <1>8, <1>13, CasStep DEF Work
<1> QED
  BY <1>9, <1>10, <1>11, <1>12, <1>13 DEF SysNext

\* The invariant of the workers holds in every reachable state of the system.
THEOREM SysInvariance == SysSpec => []SysInv
BY WorkerInit, SysStep, PTL DEF SysSpec

\* Every node's runs are let through at least GracePeriod blocks apart, for
\* any number of concurrent runs, restarts, and blocks run twice or late.
THEOREM GraceHolds == SysSpec => []GraceSpacing
<1>1. SysInv => GraceSpacing
  BY DEF SysInv
<1> QED
  BY <1>1, SysInvariance, PTL

\* The composed system keeps its types.
THEOREM SysTypeCorrect == SysSpec => []SysTypeOK
<1>1. SysInv => SysTypeOK
  BY DEF SysInv, Inv, WorkerTypes, SysTypeOK
<1> QED
  BY <1>1, SysInvariance, PTL

-----------------------------------------------------------------------------
(* The atomic permit. *)

\* A function that differs at one place.
LEMMA OnePlace ==
    ASSUME NEW S, NEW f, NEW g, NEW r \in S, NEW b,
           f = [s \in S |-> f[s]], g = [s \in S |-> g[s]],
           g[r] = b, \A s \in S : s # r => g[s] = f[s]
    PROVE  g = [f EXCEPT ![r] = b]
OBVIOUS

\* One run moves to the record x: what becomes of its place in Admitted.
LEMMA AdmittedAt ==
    ASSUME WorkerTypes, NEW r \in Workers, NEW x, run' = [run EXCEPT ![r] = x], NEW b,
           b = IF x.pc \in LetThrough THEN x.view.number ELSE NeverSent
    PROVE  Admitted' = [Admitted EXCEPT ![r] = b]
<1>1. run'[r] = x /\ \A s \in Workers : s # r => run'[s] = run[s]
  BY DEF WorkerTypes
<1>2. /\ Admitted = [s \in Workers |-> Admitted[s]]
      /\ Admitted' = [s \in Workers |-> Admitted'[s]]
  BY DEF Admitted
<1>3. Admitted'[r] = b /\ \A s \in Workers : s # r => Admitted'[s] = Admitted[s]
  BY <1>1 DEF Admitted, BlockNumber
<1> QED
  BY <1>2, <1>3, OnePlace

\* Runs go on as they were: nothing the permit speaks of changes.
LEMMA AdmittedStay ==
    ASSUME UNCHANGED <<lastSend, granted>>,
           \A s \in Workers : /\ run'[s].pc \in LetThrough <=> run[s].pc \in LetThrough
                              /\ run[s].pc \in LetThrough => run'[s].view = run[s].view
    PROVE  UNCHANGED Permit!permitVars
BY DEF Permit!permitVars, Admitted, BlockNumber

\* A run that is not let through (any more) leaves the others alone.
LEMMA AdmittedEnds ==
    ASSUME WorkerTypes, NEW r \in Workers, NEW x, x.pc \notin LetThrough,
           run' = [run EXCEPT ![r] = x], UNCHANGED <<lastSend, granted>>
    PROVE  [Permit!Next]_(Permit!permitVars)
<1>1. Admitted' = [Admitted EXCEPT ![r] = NeverSent]
  BY AdmittedAt
<1>2. Permit!End(r)
  BY <1>1 DEF Permit!End, Permit!NotAdmitted, NeverSent
<1> QED
  BY <1>2 DEF Permit!Next

\* A run that is let through moves on.
LEMMA AdmittedMoves ==
    ASSUME WorkerTypes, NEW r \in Workers, run[r].pc \in LetThrough,
           NEW x, x.pc \in LetThrough, x.view = run[r].view,
           run' = [run EXCEPT ![r] = x], UNCHANGED <<lastSend, granted>>
    PROVE  [Permit!Next]_(Permit!permitVars)
<1>1. run'[r] = x /\ \A s \in Workers : s # r => run'[s] = run[s]
  BY DEF WorkerTypes
<1> QED
  BY <1>1, AdmittedStay

\* The compare-and-set is a Grant, or the end of the run.
LEMMA CasGrants ==
    ASSUME SysInv, NEW r \in Workers, CasLastSend(r)
    PROVE  [Permit!Next]_(Permit!permitVars)
<1> DEFINE b == run[r].view.number
           x == [run[r] EXCEPT !.pc = "check"]
<1>0. /\ WorkerTypes /\ b \in Blocks /\ run[r] \in RunState /\ run[r].pc = "cas"
      /\ Idle.pc \notin LetThrough
  BY RunType, IdleType DEF SysInv, CasLastSend, LetThrough
<1>1. CASE lastSend[Host[r]] # run[r].seen
  BY <1>0, <1>1, AdmittedEnds DEF CasLastSend, Return
<1>2. CASE lastSend[Host[r]] = run[r].seen
  <2>1. /\ run' = [run EXCEPT ![r] = x]
        /\ lastSend' = [lastSend EXCEPT ![Host[r]] = b]
        /\ granted' = [granted EXCEPT ![Host[r]] = Append(@, b)]
    BY <1>2 DEF CasLastSend, Goto, BlockNumber
  <2>2. MayGrant(lastSend[Host[r]], b)
    BY <1>0, <1>2 DEF SysInv, SeenAllows
  <2>3. x.pc = "check" /\ x.view = run[r].view
    BY <1>0 DEF RunState
  <2>4. PICK c \in Blocks : c = b
    BY <1>0
  <2>5. Admitted' = [Admitted EXCEPT ![r] = c] /\ Admitted[r] = NeverSent
    <3>1. x.pc \in LetThrough /\ run[r].pc \notin LetThrough /\ c = x.view.number
      BY <1>0, <2>3, <2>4 DEF LetThrough
    <3>2. Admitted[r] = NeverSent
      BY <3>1 DEF Admitted
    <3> HIDE DEF x
    <3> QED
      BY <1>0, <2>1, <3>1, <3>2, AdmittedAt
  <2> HIDE DEF b, x
  <2>6. Permit!Grant(r, c)
    BY <2>1, <2>2, <2>4, <2>5
    DEF Permit!Grant, Permit!MayGrant, Permit!NeverSent, Permit!NotAdmitted, MayGrant, NeverSent
  <2> QED
    BY <2>6 DEF Permit!Next
<1> QED
  BY <1>1, <1>2

\* Every step is a step or a stutter of SendPermit.
LEMMA PermitNext ==
    ASSUME SysInv, [SysNext]_sysVars
    PROVE  [Permit!Next]_(Permit!permitVars)
<1>0. WorkerTypes /\ Idle.pc \notin LetThrough
  BY IdleType DEF SysInv, LetThrough
<1>1. ASSUME NEW r \in Workers, Return(r), UNCHANGED <<lastSend, granted>>
      PROVE  [Permit!Next]_(Permit!permitVars)
  BY <1>0, <1>1, AdmittedEnds DEF Return
<1>2. ASSUME NEW r \in Workers, offchain_worker(r)
      PROVE  [Permit!Next]_(Permit!permitVars)
  <2> DEFINE x == [Idle EXCEPT !.pc = "read", !.view = best]
  <2>1. x.pc \notin LetThrough /\ run' = [run EXCEPT ![r] = x] /\ UNCHANGED <<lastSend, granted>>
    BY <1>2 DEF offchain_worker, Idle, LetThrough
  <2> HIDE DEF x
  <2> QED
    BY <1>0, <2>1, AdmittedEnds
<1>3. ASSUME NEW r \in Workers, ReadLastSend(r)
      PROVE  [Permit!Next]_(Permit!permitVars)
  <2>1. UNCHANGED <<lastSend, granted>>
    BY <1>3 DEF ReadLastSend
  <2>2. CASE Return(r)
    BY <1>1, <2>1, <2>2
  <2>3. CASE run' = [run EXCEPT ![r].pc = "cas", ![r].seen = lastSend[Host[r]]]
    <3> DEFINE x == [run[r] EXCEPT !.pc = "cas", !.seen = lastSend[Host[r]]]
    <3>1. x.pc \notin LetThrough /\ run' = [run EXCEPT ![r] = x]
      BY <1>0, <2>3, RunType DEF RunState, LetThrough
    <3> HIDE DEF x
    <3> QED
      BY <1>0, <2>1, <3>1, AdmittedEnds
  <2> QED
    BY <1>3, <2>2, <2>3 DEF ReadLastSend
<1>4. ASSUME NEW r \in Workers, CheckBeforeFetch(r)
      PROVE  [Permit!Next]_(Permit!permitVars)
  <2>1. run[r].pc = "check" /\ UNCHANGED <<lastSend, granted>>
    BY <1>4 DEF CheckBeforeFetch
  <2>2. CASE Return(r)
    BY <1>1, <2>1, <2>2
  <2>3. CASE Goto(r, "fetch")
    <3> DEFINE x == [run[r] EXCEPT !.pc = "fetch"]
    <3>1. /\ x.pc \in LetThrough /\ x.view = run[r].view /\ run[r].pc \in LetThrough
          /\ run' = [run EXCEPT ![r] = x]
      BY <1>0, <2>1, <2>3, RunType DEF RunState, LetThrough, Goto
    <3> HIDE DEF x
    <3> QED
      BY <1>0, <2>1, <3>1, AdmittedMoves
  <2> QED
    BY <1>4, <2>2, <2>3 DEF CheckBeforeFetch
<1>5. ASSUME NEW r \in Workers, FetchPrice(r)
      PROVE  [Permit!Next]_(Permit!permitVars)
  <2>1. run[r].pc = "fetch" /\ UNCHANGED <<lastSend, granted>>
    BY <1>5 DEF FetchPrice
  <2>2. CASE Return(r)
    BY <1>1, <2>1, <2>2
  <2>3. ASSUME NEW p \in PriceSet, run' = [run EXCEPT ![r].pc = "send", ![r].price = p]
        PROVE  [Permit!Next]_(Permit!permitVars)
    <3> DEFINE x == [run[r] EXCEPT !.pc = "send", !.price = p]
    <3>1. /\ x.pc \in LetThrough /\ x.view = run[r].view /\ run[r].pc \in LetThrough
          /\ run' = [run EXCEPT ![r] = x]
      BY <1>0, <2>1, <2>3, RunType DEF RunState, LetThrough
    <3> HIDE DEF x
    <3> QED
      BY <1>0, <2>1, <3>1, AdmittedMoves
  <2> QED
    BY <1>5, <2>2, <2>3 DEF FetchPrice
<1>6. ASSUME NEW r \in Workers,
             \/ fetch_price_and_send_signed(r)
             \/ fetch_price_and_send_unsigned_for_any_account(r)
             \/ fetch_price_and_send_unsigned_for_all_accounts(r)
      PROVE  [Permit!Next]_(Permit!permitVars)
  BY <1>1, <1>6 DEF fetch_price_and_send_signed,
     fetch_price_and_send_unsigned_for_any_account,
     fetch_price_and_send_unsigned_for_all_accounts
<1>7. ASSUME NEW r \in Workers, Work(r) PROVE [Permit!Next]_(Permit!permitVars)
  BY <1>2, <1>3, <1>4, <1>5, <1>6, <1>7, CasGrants DEF Work
<1>8. ASSUME NEW n \in Nodes, Restart(n) PROVE [Permit!Next]_(Permit!permitVars)
  <2>1. Permit!Die(n)
    BY <1>0, <1>8 DEF Restart, Permit!Die, Permit!NotAdmitted, NeverSent, Admitted, BlockNumber
  <2> QED
    BY <2>1 DEF Permit!Next
<1>9. CASE UNCHANGED workerVars
  BY <1>9, AdmittedStay DEF workerVars
<1> QED
  BY <1>7, <1>8, <1>9 DEF SysNext, Include, ImportBlock, sysVars

\* Read and compare-and-set implement the atomic permit.
THEOREM PermitRefinement == SysSpec => PermitSpec
<1>1. SysInit => Permit!Init
  BY IdleType DEF SysInit, Permit!Init, NeverSent, Permit!NeverSent, Permit!NotAdmitted,
     LetThrough, Admitted
<1>2. SysInv /\ [SysNext]_sysVars => [Permit!Next]_(Permit!permitVars)
  BY PermitNext
<1> QED
  BY <1>1, <1>2, SysInvariance, PTL DEF SysSpec, PermitSpec, Permit!Spec

-----------------------------------------------------------------------------
(* The composition with the oracle. *)

\* The composed system is an instance of the oracle in its open environment,
\* so the guarantees proved of PriceOracle hold in it.
THEOREM OracleComposes == SysSpec => Spec
<1>1. SysInit => Init
  BY DEF SysInit
<1>2. SysInv /\ [SysNext]_sysVars => [Next]_oracleVars
  <2> SUFFICES ASSUME SysInv, [SysNext]_sysVars PROVE [Next]_oracleVars
    OBVIOUS
  <2>1. CASE Include
    BY <2>1, ForeignType DEF Include, Next, SysInv, WorkerTypes
  <2>2. CASE ImportBlock
    BY <2>2 DEF ImportBlock, Next
  <2>3. ASSUME NEW r \in Workers, Work(r) PROVE UNCHANGED oracleVars
    BY <2>3 DEF Work, offchain_worker, ReadLastSend, CasLastSend, CheckBeforeFetch, FetchPrice,
       fetch_price_and_send_signed, fetch_price_and_send_unsigned_for_any_account,
       fetch_price_and_send_unsigned_for_all_accounts
  <2>4. ASSUME NEW n \in Nodes, Restart(n) PROVE UNCHANGED oracleVars
    BY <2>4 DEF Restart
  <2>5. CASE UNCHANGED sysVars
    BY <2>5 DEF sysVars
  <2> QED
    BY <2>1, <2>2, <2>3, <2>4, <2>5 DEF SysNext
<1> QED
  BY <1>1, <1>2, SysInvariance, PTL DEF SysSpec, Spec

\* In the composed system accepted unsigned prices lie UnsignedInterval apart.
THEOREM SystemSessionsApart == SysSpec => []UnsignedSession
BY OracleComposes, SessionsApart, PTL

-----------------------------------------------------------------------------
(* Where unsigned prices come from. *)

\* Node n was given a permit for block b, according to the permits g.
Permitted(g, n, b) == \E k \in 1 .. Len(g[n]) : g[n][k] = b

FromPermit(g, xt) ==
    /\ xt.call.fn = "submit_price_unsigned_with_signed_payload"
    /\ \E n \in Nodes :
          /\ xt.call.payload.public \in Keys[n]
          /\ Permitted(g, n, xt.call.payload.block_number)

RunsPermitted ==
    \A r \in Workers : run[r].pc \in LetThrough => Permitted(granted, Host[r], BlockNumber(r))

SentPermitted == \A xt \in sent : IsUnsigned(xt) => FromPermit(granted, xt)

\* Bare, with a payload in the name of a key that only workers use.
ByWorkerKey(xt) ==
    /\ IsUnsigned(xt)
    /\ xt.call.fn = "submit_price_unsigned_with_signed_payload"
    /\ xt.call.payload.public \notin Others

AppliedPermitted ==
    \A i \in 1 .. Len(applied) : ByWorkerKey(applied[i].xt) => FromPermit(granted, applied[i].xt)

\* Inductive together with SysInv: a run past the compare-and-set holds a
\* permit for its block, and so does all that such runs have sent and all
\* with their keys that the chain has accepted.
PermitInv == RunsPermitted /\ SentPermitted /\ AppliedPermitted

\* A permit is never taken back.
LEMMA PermitsKept ==
    ASSUME WorkerTypes, NEW n \in Nodes, NEW b \in Nat,
           granted' = [granted EXCEPT ![n] = Append(@, b)]
    PROVE  /\ Permitted(granted', n, b)
           /\ \A m \in Nodes : \A c : Permitted(granted, m, c) => Permitted(granted', m, c)
           /\ \A xt : FromPermit(granted, xt) => FromPermit(granted', xt)
<1>1. granted \in [Nodes -> Seq(Nat)] /\ granted[n] \in Seq(Nat)
  BY DEF WorkerTypes
<1>2. granted'[n] = Append(granted[n], b) /\ \A m \in Nodes : m # n => granted'[m] = granted[m]
  BY <1>1
<1>3. /\ Len(granted[n]) \in Nat /\ Len(granted'[n]) = Len(granted[n]) + 1
      /\ granted'[n][Len(granted[n]) + 1] = b
      /\ \A k \in 1 .. Len(granted[n]) :
            granted'[n][k] = granted[n][k] /\ k \in 1 .. Len(granted'[n])
      /\ Len(granted[n]) + 1 \in 1 .. Len(granted'[n])
  BY <1>1, <1>2
<1>4. Permitted(granted', n, b)
  BY <1>3 DEF Permitted
<1>5. ASSUME NEW m \in Nodes, NEW c, Permitted(granted, m, c) PROVE Permitted(granted', m, c)
  <2>1. CASE m = n
    BY <1>3, <1>5, <2>1 DEF Permitted
  <2>2. CASE m # n
    BY <1>2, <1>5, <2>2 DEF Permitted
  <2> QED
    BY <2>1, <2>2
<1> QED
  BY <1>4, <1>5 DEF FromPermit

\* Runs end or go on for their block, and may send what they are permitted.
LEMMA RunsGoOn ==
    ASSUME PermitInv, UNCHANGED <<granted, applied>>,
           \A r \in Workers : run'[r].pc \in LetThrough
               => run[r].pc \in LetThrough /\ run'[r].view = run[r].view,
           \A xt \in sent' : xt \in sent \/ (IsUnsigned(xt) => FromPermit(granted, xt))
    PROVE  PermitInv'
<1>1. RunsPermitted'
  BY DEF PermitInv, RunsPermitted, BlockNumber
<1>2. SentPermitted' /\ AppliedPermitted'
  BY DEF PermitInv, SentPermitted, AppliedPermitted, IsUnsigned, ByWorkerKey
<1> QED
  BY <1>1, <1>2 DEF PermitInv

\* A run moves on: its record stays the one of a run of the same block.
LEMMA MovesOn ==
    ASSUME WorkerTypes, NEW s \in Workers,
           \/ Return(s)
           \/ run[s].pc \in LetThrough /\ \E pc \in LetThrough : Goto(s, pc)
           \/ \E p : /\ run[s].pc \in LetThrough
                     /\ run' = [run EXCEPT ![s].pc = "send", ![s].price = p]
           \/ \E x : x.pc \notin LetThrough /\ run' = [run EXCEPT ![s] = x]
    PROVE  \A r \in Workers : run'[r].pc \in LetThrough
               => run[r].pc \in LetThrough /\ run'[r].view = run[r].view
<1> SUFFICES ASSUME NEW r \in Workers, run'[r].pc \in LetThrough
             PROVE  run[r].pc \in LetThrough /\ run'[r].view = run[r].view
  OBVIOUS
<1>0. run \in [Workers -> RunState] /\ run[s] \in RunState
  BY DEF WorkerTypes
<1>1. CASE r # s
  BY <1>0, <1>1 DEF Return, Goto
<1>2. CASE r = s
  <2>1. CASE Return(s)
    BY <1>0, <1>2, <2>1, IdleType DEF Return, LetThrough
  <2>2. ASSUME NEW pc \in LetThrough, run[s].pc \in LetThrough, Goto(s, pc)
        PROVE  run[r].pc \in LetThrough /\ run'[r].view = run[r].view
    BY <1>0, <1>2, <2>2 DEF Goto, RunState
  <2>3. ASSUME NEW p, run[s].pc \in LetThrough,
               run' = [run EXCEPT ![s].pc = "send", ![s].price = p]
        PROVE  run[r].pc \in LetThrough /\ run'[r].view = run[r].view
    BY <1>0, <1>2, <2>3 DEF RunState
  <2>4. ASSUME NEW x, x.pc \notin LetThrough, run' = [run EXCEPT ![s] = x]
        PROVE  run[r].pc \in LetThrough /\ run'[r].view = run[r].view
    BY <1>0, <1>2, <2>4
  <2> QED
    BY <2>1, <2>2, <2>3, <2>4
<1> QED
  BY <1>1, <1>2

\* The compare-and-set gives a permit to the run it lets through.
LEMMA CasPermits ==
    ASSUME WorkerTypes, PermitInv, NEW s \in Workers, CasLastSend(s)
    PROVE  PermitInv'
<1> USE SystemAssumption
<1>0. /\ run \in [Workers -> RunState] /\ run[s] \in RunState
      /\ BlockNumber(s) \in Nat /\ Host[s] \in Nodes
  BY RunType DEF WorkerTypes, BlockNumber
<1>1. CASE Return(s) /\ UNCHANGED granted
  BY <1>1, MovesOn, RunsGoOn DEF CasLastSend, oracleVars
<1>2. CASE /\ granted' = [granted EXCEPT ![Host[s]] = Append(@, BlockNumber(s))]
           /\ Goto(s, "check")
  <2>1. /\ Permitted(granted', Host[s], BlockNumber(s))
        /\ \A m \in Nodes : \A c : Permitted(granted, m, c) => Permitted(granted', m, c)
        /\ \A xt : FromPermit(granted, xt) => FromPermit(granted', xt)
    BY <1>0, <1>2, PermitsKept
  <2>2. /\ run'[s].view = run[s].view
        /\ \A r \in Workers : r # s => run'[r] = run[r]
    BY <1>0, <1>2 DEF Goto, RunState
  <2>3. RunsPermitted'
    BY <2>1, <2>2 DEF PermitInv, RunsPermitted, BlockNumber
  <2>4. SentPermitted' /\ AppliedPermitted'
    BY <2>1 DEF PermitInv, SentPermitted, AppliedPermitted, CasLastSend, oracleVars, IsUnsigned,
       ByWorkerKey
  <2> QED
    BY <2>3, <2>4 DEF PermitInv
<1> QED
  BY <1>1, <1>2 DEF CasLastSend

\* What a permitted run sends is from a permit.
LEMMA SendsPermitted ==
    ASSUME WorkerTypes, PermitInv, NEW s \in Workers,
           \/ fetch_price_and_send_signed(s)
           \/ fetch_price_and_send_unsigned_for_any_account(s)
           \/ fetch_price_and_send_unsigned_for_all_accounts(s)
    PROVE  PermitInv'
<1> USE SystemAssumption
<1>1. Return(s) /\ run[s].pc = "send" /\ UNCHANGED <<granted, applied>>
  BY DEF fetch_price_and_send_signed, fetch_price_and_send_unsigned_for_any_account,
     fetch_price_and_send_unsigned_for_all_accounts, oracleVars
<1>2. Permitted(granted, Host[s], BlockNumber(s))
  BY <1>1 DEF PermitInv, RunsPermitted, LetThrough
<1>3. ASSUME NEW key \in Keys[Host[s]]
      PROVE  /\ FromPermit(granted, WithPayloadBy(s, key))
             /\ \A other : ~ IsUnsigned(SignedBy(s, key, other))
  <2>1. key # NoAccount /\ Host[s] \in Nodes
    BY OracleAssumption
  <2> QED
    BY <1>2, <2>1 DEF FromPermit, WithPayloadBy, SignedBy, IsUnsigned
<1>4. \A xt \in sent' : xt \in sent \/ (IsUnsigned(xt) => FromPermit(granted, xt))
  BY <1>3 DEF fetch_price_and_send_signed, fetch_price_and_send_unsigned_for_any_account,
     fetch_price_and_send_unsigned_for_all_accounts
<1> QED
  BY <1>1, <1>4, MovesOn, RunsGoOn

\* What the chain does with one extrinsic, as far as the history shows it.
LEMMA AppliedBy ==
    ASSUME NEW xt, Apply(xt)
    PROVE  \/ UNCHANGED applied
           \/ applied' = Append(applied, [xt |-> xt, at |-> block])
BY DEF Apply, submit_price, submit_price_unsigned, submit_price_unsigned_with_signed_payload,
   EnsureNoneFails, add_price

\* The history grows by an entry.
LEMMA EntryAdded ==
    ASSUME SysInv, NEW xt \in Extrinsic, applied' = Append(applied, [xt |-> xt, at |-> block])
    PROVE  /\ \A i \in 1 .. Len(applied) : applied'[i] = applied[i]
           /\ \A i \in 1 .. Len(applied') : i \in 1 .. Len(applied) \/ applied'[i].xt = xt
<1> DEFINE e == [xt |-> xt, at |-> block]
<1>1. applied \in Seq(Entry) /\ e \in Entry /\ e.xt = xt
  BY DEF SysInv, Inv, TypeOK, Entry
<1> HIDE DEF e
<1>2. /\ Len(applied') = Len(applied) + 1 /\ applied'[Len(applied) + 1] = e
      /\ \A i \in 1 .. Len(applied) : applied'[i] = applied[i]
      /\ \A i \in 1 .. Len(applied') : i \in 1 .. Len(applied) \/ i = Len(applied) + 1
  BY <1>1 DEF e
<1> QED
  BY <1>1, <1>2

\* A payload in the name of a key that only workers use is not accepted from
\* others: validate_unsigned refuses a signature that is not the key's own.
LEMMA ForeignRefused ==
    ASSUME NEW xt \in Foreign, ByWorkerKey(xt), Apply(xt)
    PROVE  UNCHANGED applied
<1> USE OracleAssumption, SystemAssumption
<1>1. xt \in Extrinsic /\ xt.call.signature \in Others \cup {NoAccount}
  BY DEF AuthoredByOthers, ByWorkerKey
<1>2. xt.call.payload.public \in Accounts
  <2>1. xt.call \in Call
    BY <1>1 DEF Extrinsic
  <2>2. xt.call \in SubmitPriceWithPayload
    BY <2>1 DEF Call, SubmitPrice, SubmitPriceUnsigned, ByWorkerKey
  <2> QED
    BY <2>2 DEF SubmitPriceWithPayload, PricePayload
<1>3. ~ verify(xt.call.payload, xt.call.signature)
  BY <1>1, <1>2 DEF verify, ByWorkerKey
<1>4. ~ UnsignedPreDispatch(xt)
  BY <1>3 DEF UnsignedPreDispatch, validate_unsigned, ByWorkerKey
<1> QED
  BY <1>4 DEF Apply, submit_price, submit_price_unsigned,
     submit_price_unsigned_with_signed_payload, EnsureNoneFails, ByWorkerKey

\* With a worker's key the chain accepts only what a worker sent.
LEMMA IncludePermitted ==
    ASSUME SysInv, PermitInv, Include
    PROVE  PermitInv'
<1>1. UNCHANGED workerVars /\ sent \subseteq Extrinsic
  BY DEF Include, SysInv, WorkerTypes
<1>2. RunsPermitted' /\ SentPermitted'
  BY <1>1 DEF PermitInv, RunsPermitted, SentPermitted, BlockNumber, workerVars, IsUnsigned
<1>3. CASE UNCHANGED applied
  <2>1. AppliedPermitted'
    BY <1>1, <1>3 DEF PermitInv, AppliedPermitted, workerVars, IsUnsigned, ByWorkerKey
  <2> QED
    BY <1>2, <2>1 DEF PermitInv
<1>4. ASSUME NEW xt \in Extrinsic, applied' = Append(applied, [xt |-> xt, at |-> block]),
             ByWorkerKey(xt) => FromPermit(granted, xt)
      PROVE  PermitInv'
  <2>1. /\ \A i \in 1 .. Len(applied) : applied'[i] = applied[i]
        /\ \A i \in 1 .. Len(applied') : i \in 1 .. Len(applied) \/ applied'[i].xt = xt
    BY <1>4, EntryAdded
  <2>2. AppliedPermitted'
    BY <1>1, <1>4, <2>1 DEF PermitInv, AppliedPermitted, workerVars, IsUnsigned, ByWorkerKey
  <2> QED
    BY <1>2, <2>2 DEF PermitInv
<1>5. ASSUME NEW xt \in sent, Apply(xt) PROVE PermitInv'
  <2>1. xt \in Extrinsic /\ (ByWorkerKey(xt) => FromPermit(granted, xt))
    BY <1>1, <1>5 DEF PermitInv, SentPermitted, ByWorkerKey
  <2> QED
    BY <1>3, <1>4, <1>5, <2>1, AppliedBy
<1>6. ASSUME NEW xt \in Foreign, Apply(xt) PROVE PermitInv'
  BY <1>3, <1>4, <1>6, ForeignType, ForeignRefused, AppliedBy
<1>7. ASSUME NEW a \in Shared, OtherExtrinsic(a) PROVE PermitInv'
  BY <1>3, <1>7 DEF OtherExtrinsic
<1> QED
  BY <1>5, <1>6, <1>7 DEF Include

\* Every step keeps the permits in order.
LEMMA PermitStep ==
    ASSUME SysInv, PermitInv, [SysNext]_sysVars
    PROVE  PermitInv'
<1>0. WorkerTypes
  BY DEF SysInv
<1>1. ASSUME NEW s \in Workers, offchain_worker(s) PROVE PermitInv'
  <2> DEFINE x == [Idle EXCEPT !.pc = "read", !.view = best]
  <2>1. x.pc \notin LetThrough /\ run' = [run EXCEPT ![s] = x]
    BY <1>1 DEF offchain_worker, Idle, LetThrough
  <2> HIDE DEF x
  <2> QED
    BY <1>0, <1>1, <2>1, MovesOn, RunsGoOn DEF offchain_worker, oracleVars
<1>2. ASSUME NEW s \in Workers, ReadLastSend(s) PROVE PermitInv'
  <2>1. CASE Return(s)
    BY <1>0, <1>2, <2>1, MovesOn, RunsGoOn DEF ReadLastSend, oracleVars
  <2>2. CASE run' = [run EXCEPT ![s].pc = "cas", ![s].seen = lastSend[Host[s]]]
    <3> DEFINE x == [run[s] EXCEPT !.pc = "cas", !.seen = lastSend[Host[s]]]
    <3>1. x.pc \notin LetThrough /\ run' = [run EXCEPT ![s] = x]
      BY <1>0, <2>2, RunType DEF RunState, LetThrough
    <3> HIDE DEF x
    <3> QED
      BY <1>0, <1>2, <3>1, MovesOn, RunsGoOn DEF ReadLastSend, oracleVars
  <2> QED
    BY <1>2, <2>1, <2>2 DEF ReadLastSend
<1>3. ASSUME NEW s \in Workers, CheckBeforeFetch(s) PROVE PermitInv'
  <2>1. Return(s) \/ (run[s].pc \in LetThrough /\ \E pc \in LetThrough : Goto(s, pc))
    BY <1>3 DEF CheckBeforeFetch, LetThrough
  <2> QED
    BY <1>0, <1>3, <2>1, MovesOn, RunsGoOn DEF CheckBeforeFetch, oracleVars
<1>4. ASSUME NEW s \in Workers, FetchPrice(s) PROVE PermitInv'
  <2>1. \/ Return(s)
        \/ \E p : /\ run[s].pc \in LetThrough
                  /\ run' = [run EXCEPT ![s].pc = "send", ![s].price = p]
    BY <1>4 DEF FetchPrice, LetThrough
  <2> QED
    BY <1>0, <1>4, <2>1, MovesOn, RunsGoOn DEF FetchPrice, oracleVars
<1>5. ASSUME NEW s \in Workers, Work(s) PROVE PermitInv'
  BY <1>0, <1>1, <1>2, <1>3, <1>4, <1>5, CasPermits, SendsPermitted DEF Work
<1>6. ASSUME NEW n \in Nodes, Restart(n) PROVE PermitInv'
  <2>1. \A r \in Workers : run'[r].pc \in LetThrough
            => run[r].pc \in LetThrough /\ run'[r].view = run[r].view
    BY <1>6, IdleType DEF Restart, LetThrough
  <2> QED
    BY <1>6, <2>1, RunsGoOn DEF Restart, oracleVars
<1>7. CASE ImportBlock
  BY <1>7, RunsGoOn DEF ImportBlock, NewBlock, workerVars
<1>8. CASE UNCHANGED sysVars
  BY <1>8, RunsGoOn DEF sysVars, oracleVars, workerVars
<1> QED
  BY <1>5, <1>6, <1>7, <1>8, IncludePermitted DEF SysNext

\* Every unsigned price on the chain with the signature of a key that only
\* workers use was permitted for the block it claims, on a node that holds the
\* key, for any number of nodes, runs and crashes, and whatever others submit.
THEOREM UnsignedPermitted == SysSpec => []UnsignedFromPermit
<1>1. SysInit => PermitInv
  BY IdleType DEF SysInit, Init, PermitInv, RunsPermitted, SentPermitted, AppliedPermitted,
     LetThrough
<1>2. SysInv /\ PermitInv /\ [SysNext]_sysVars => PermitInv'
  BY PermitStep
<1>3. PermitInv => UnsignedFromPermit
  BY DEF PermitInv, AppliedPermitted, UnsignedFromPermit, FromPermit, Permitted, ByWorkerKey
<1> QED
  BY <1>1, <1>2, <1>3, SysInvariance, PTL DEF SysSpec

-----------------------------------------------------------------------------
(* How many signed prices an account has on the chain. *)

SentBy(a) == {xt \in sent : xt.signer = a}

\* The run was let through to send a signed price in the name of a.
Signing(r, a) ==
    /\ run[r].pc \in LetThrough
    /\ a \in Keys[Host[r]]
    /\ transaction_type(BlockNumber(r)) = "Signed"

Pending(a) == {r \in Workers : Signing(r, a)}

\* Every permit pays for one extrinsic: sent already, or still to be sent by
\* the run that got the permit.
Balance(S, P, G) ==
    /\ IsFiniteSet(S) /\ IsFiniteSet(P) /\ IsFiniteSet(G)
    /\ Cardinality(S) + Cardinality(P) <= Cardinality(G)

Balanced == \A a \in Accounts : Balance(SentBy(a), Pending(a), SignedPermits(a))

\* For an account that only workers use, they sent all that was accepted.
AppliedSent ==
    \A i \in 1 .. Len(applied) :
        applied[i].xt.signer \in Accounts \ Others => applied[i].xt \in sent

\* Inductive together with SysInv.
BalanceInv == Balanced /\ AppliedSent

\* A run ends.
LEMMA BalanceEnd ==
    ASSUME NEW S, NEW P, NEW G, Balance(S, P, G), NEW Q \in SUBSET P
    PROVE  Balance(S, Q, G)
BY FS_Subset, FS_CardinalityType DEF Balance

\* A permit is given, to a run.
LEMMA BalanceGrant ==
    ASSUME NEW S, NEW P, NEW G, Balance(S, P, G), NEW r, NEW g, g \notin G,
           NEW Q \in SUBSET (P \cup {r})
    PROVE  Balance(S, Q, G \cup {g})
<1>0. /\ IsFiniteSet(S) /\ IsFiniteSet(P) /\ IsFiniteSet(G)
      /\ Cardinality(S) \in Nat /\ Cardinality(P) \in Nat /\ Cardinality(G) \in Nat
  BY FS_CardinalityType DEF Balance
<1>1. /\ IsFiniteSet(P \cup {r}) /\ IsFiniteSet(G \cup {g})
      /\ Cardinality(P \cup {r}) <= Cardinality(P) + 1
      /\ Cardinality(G \cup {g}) = Cardinality(G) + 1
  <2>1. /\ IsFiniteSet(P \cup {r})
        /\ Cardinality(P \cup {r}) = IF r \in P THEN Cardinality(P) ELSE Cardinality(P) + 1
    BY <1>0, FS_AddElement
  <2>2. IsFiniteSet(G \cup {g}) /\ Cardinality(G \cup {g}) = Cardinality(G) + 1
    BY <1>0, FS_AddElement
  <2> QED
    BY <1>0, <2>1, <2>2
<1>2. IsFiniteSet(Q) /\ Cardinality(Q) <= Cardinality(P \cup {r})
  BY <1>1, FS_Subset
<1>3. Cardinality(Q) \in Nat /\ Cardinality(P \cup {r}) \in Nat
  BY <1>1, <1>2, FS_CardinalityType
<1> QED
  BY <1>0, <1>1, <1>2, <1>3 DEF Balance

\* A run sends, and ends.
LEMMA BalanceSend ==
    ASSUME NEW S, NEW P, NEW G, Balance(S, P, G), NEW r \in P, NEW x,
           NEW T \in SUBSET (S \cup {x}), NEW Q \in SUBSET (P \ {r})
    PROVE  Balance(T, Q, G)
<1>0. /\ IsFiniteSet(S) /\ IsFiniteSet(P) /\ IsFiniteSet(G)
      /\ Cardinality(S) \in Nat /\ Cardinality(P) \in Nat /\ Cardinality(G) \in Nat
  BY FS_CardinalityType DEF Balance
<1>1. /\ IsFiniteSet(S \cup {x}) /\ IsFiniteSet(P \ {r})
      /\ Cardinality(S \cup {x}) <= Cardinality(S) + 1
      /\ Cardinality(P \ {r}) = Cardinality(P) - 1
  <2>1. /\ IsFiniteSet(S \cup {x})
        /\ Cardinality(S \cup {x}) = IF x \in S THEN Cardinality(S) ELSE Cardinality(S) + 1
    BY <1>0, FS_AddElement
  <2>2. IsFiniteSet(P \ {r}) /\ Cardinality(P \ {r}) = Cardinality(P) - 1
    BY <1>0, FS_RemoveElement
  <2> QED
    BY <1>0, <2>1, <2>2
<1>2. /\ IsFiniteSet(T) /\ Cardinality(T) <= Cardinality(S \cup {x})
      /\ IsFiniteSet(Q) /\ Cardinality(Q) <= Cardinality(P \ {r})
  BY <1>1, FS_Subset
<1>3. /\ Cardinality(T) \in Nat /\ Cardinality(S \cup {x}) \in Nat
      /\ Cardinality(Q) \in Nat /\ Cardinality(P \ {r}) \in Nat
  BY <1>1, <1>2, FS_CardinalityType
<1> QED
  BY <1>0, <1>1, <1>2, <1>3 DEF Balance

\* The signed permits of an account, for the permits g of the nodes.
PermitsOf(g, a) ==
    UNION {{n} \X {k \in 1 .. Len(g[n]) : transaction_type(g[n][k]) = "Signed"} :
             n \in {m \in Nodes : a \in Keys[m]}}

\* What they are.
LEMMA InSignedPermits ==
    ASSUME NEW g, NEW a, NEW p
    PROVE  p \in PermitsOf(g, a)
           <=> \E n \in Nodes : \E k \in 1 .. Len(g[n]) :
                  /\ a \in Keys[n] /\ transaction_type(g[n][k]) = "Signed"
                  /\ p = <<n, k>>
BY DEF PermitsOf

\* Runs end or go on, and only unsigned prices are sent.
LEMMA BalanceQuiet ==
    ASSUME BalanceInv, UNCHANGED <<granted, applied>>,
           \A r \in Workers : run'[r].pc \in LetThrough
               => run[r].pc \in LetThrough /\ run'[r].view = run[r].view,
           sent \subseteq sent', \A xt \in sent' : xt \in sent \/ IsUnsigned(xt)
    PROVE  BalanceInv'
<1>1. ASSUME NEW a \in Accounts
      PROVE  Balance(SentBy(a)', Pending(a)', SignedPermits(a)')
  <2>1. SentBy(a)' = SentBy(a)
    BY OracleAssumption DEF SentBy, IsUnsigned
  <2>2. Pending(a)' \in SUBSET Pending(a)
    BY DEF Pending, Signing, BlockNumber
  <2>3. SignedPermits(a)' = SignedPermits(a)
    BY DEF SignedPermits
  <2>4. Balance(SentBy(a), Pending(a), SignedPermits(a))
    BY DEF BalanceInv, Balanced
  <2> QED
    BY <2>1, <2>2, <2>3, <2>4, BalanceEnd
<1>2. AppliedSent'
  BY DEF BalanceInv, AppliedSent
<1> QED
  BY <1>1, <1>2 DEF BalanceInv, Balanced

\* The permit that the compare-and-set gives, as an element.
LEMMA PermitsGrow ==
    ASSUME WorkerTypes, NEW n \in Nodes, NEW b \in Nat, NEW a,
           granted' = [granted EXCEPT ![n] = Append(@, b)]
    PROVE  LET g == <<n, Len(granted[n]) + 1>>
           IN  /\ g \notin SignedPermits(a)
               /\ SignedPermits(a)'
                  = IF a \in Keys[n] /\ transaction_type(b) = "Signed"
                    THEN SignedPermits(a) \cup {g} ELSE SignedPermits(a)
<1> DEFINE L == Len(granted[n])
           g == <<n, L + 1>>
<1>0. SignedPermits(a) = PermitsOf(granted, a) /\ SignedPermits(a)' = PermitsOf(granted', a)
  BY DEF SignedPermits, PermitsOf, transaction_type
<1>1. granted \in [Nodes -> Seq(Nat)] /\ granted[n] \in Seq(Nat) /\ L \in Nat
  BY DEF WorkerTypes
<1>2. /\ Len(granted'[n]) = L + 1 /\ granted'[n][L + 1] = b
      /\ \A k \in 1 .. L : granted'[n][k] = granted[n][k]
      /\ \A m \in Nodes : m # n => granted'[m] = granted[m]
  BY <1>1
<1>3. g \notin SignedPermits(a)
  <2> SUFFICES ASSUME g \in SignedPermits(a) PROVE FALSE
    OBVIOUS
  <2>1. L + 1 \in 1 .. L
    BY <1>0, InSignedPermits
  <2> QED
    BY <1>1, <2>1
<1>4. ASSUME NEW p
      PROVE  p \in SignedPermits(a)'
             <=> p \in SignedPermits(a)
                 \/ (p = g /\ a \in Keys[n] /\ transaction_type(b) = "Signed")
  <2>1. p \in SignedPermits(a)'
        <=> \E m \in Nodes : \E k \in 1 .. Len(granted'[m]) :
               /\ a \in Keys[m] /\ transaction_type(granted'[m][k]) = "Signed"
               /\ p = <<m, k>>
    <3> DEFINE h == granted'
    <3>1. p \in PermitsOf(h, a)
          <=> \E m \in Nodes : \E k \in 1 .. Len(h[m]) :
                 /\ a \in Keys[m] /\ transaction_type(h[m][k]) = "Signed"
                 /\ p = <<m, k>>
      <4> HIDE DEF h
      <4> QED
        BY InSignedPermits
    <3> QED
      BY <1>0, <3>1
  <2>2. \A k : k \in 1 .. (L + 1) <=> k \in 1 .. L \/ k = L + 1
    BY <1>1
  <2>3. ASSUME NEW m \in Nodes, NEW k, a \in Keys[m], p = <<m, k>>
        PROVE  (k \in 1 .. Len(granted'[m]) /\ transaction_type(granted'[m][k]) = "Signed")
               <=> \/ k \in 1 .. Len(granted[m]) /\ transaction_type(granted[m][k]) = "Signed"
                   \/ m = n /\ k = L + 1 /\ transaction_type(b) = "Signed"
    <3>1. CASE m # n
      BY <1>2, <3>1
    <3>2. CASE m = n
      <4>1. k = L + 1 => ~ (k \in 1 .. L)
        BY <1>1
      <4> QED
        BY <1>2, <2>2, <3>2, <4>1
    <3> QED
      BY <3>1, <3>2
  <2>4. p \in SignedPermits(a)
        <=> \E m \in Nodes : \E k \in 1 .. Len(granted[m]) :
               /\ a \in Keys[m] /\ transaction_type(granted[m][k]) = "Signed"
               /\ p = <<m, k>>
    BY <1>0, InSignedPermits
  <2>5. L + 1 \in 1 .. Len(granted'[n])
    BY <1>1, <1>2
  <2> HIDE DEF L
  <2>6. ASSUME p \in SignedPermits(a)'
        PROVE  p \in SignedPermits(a)
               \/ (p = g /\ a \in Keys[n] /\ transaction_type(b) = "Signed")
    <3>1. PICK m \in Nodes : \E k \in 1 .. Len(granted'[m]) :
             /\ a \in Keys[m] /\ transaction_type(granted'[m][k]) = "Signed"
             /\ p = <<m, k>>
      BY <2>1, <2>6
    <3>2. PICK k \in 1 .. Len(granted'[m]) :
             /\ a \in Keys[m] /\ transaction_type(granted'[m][k]) = "Signed"
             /\ p = <<m, k>>
      BY <3>1
    <3>3. \/ k \in 1 .. Len(granted[m]) /\ transaction_type(granted[m][k]) = "Signed"
          \/ m = n /\ k = L + 1 /\ transaction_type(b) = "Signed"
      BY <2>3, <3>2
    <3> QED
      BY <2>4, <3>2, <3>3
  <2>7. ASSUME p \in SignedPermits(a) PROVE p \in SignedPermits(a)'
    <3>1. PICK m \in Nodes : \E k \in 1 .. Len(granted[m]) :
             /\ a \in Keys[m] /\ transaction_type(granted[m][k]) = "Signed"
             /\ p = <<m, k>>
      BY <2>4, <2>7
    <3>2. PICK k \in 1 .. Len(granted[m]) :
             /\ a \in Keys[m] /\ transaction_type(granted[m][k]) = "Signed"
             /\ p = <<m, k>>
      BY <3>1
    <3>3. k \in 1 .. Len(granted'[m]) /\ transaction_type(granted'[m][k]) = "Signed"
      BY <2>3, <3>2
    <3> QED
      BY <2>1, <3>2, <3>3
  <2>8. ASSUME p = g, a \in Keys[n], transaction_type(b) = "Signed"
        PROVE  p \in SignedPermits(a)'
    BY <1>2, <2>1, <2>5, <2>8
  <2> QED
    BY <2>6, <2>7, <2>8
<1> QED
  BY <1>3, <1>4

\* The compare-and-set gives one permit, to the run that goes on with it.
LEMMA BalanceCas ==
    ASSUME WorkerTypes, BalanceInv, NEW s \in Workers, CasLastSend(s)
    PROVE  BalanceInv'
<1> USE SystemAssumption
<1>0. /\ run \in [Workers -> RunState] /\ run[s] \in RunState
      /\ BlockNumber(s) \in Nat /\ Host[s] \in Nodes
  BY RunType DEF WorkerTypes, BlockNumber
<1>1. CASE Return(s) /\ UNCHANGED granted
  BY <1>1, MovesOn, BalanceQuiet DEF CasLastSend, oracleVars
<1>2. CASE /\ granted' = [granted EXCEPT ![Host[s]] = Append(@, BlockNumber(s))]
           /\ Goto(s, "check")
  <2> DEFINE n == Host[s]
             g == <<n, Len(granted[n]) + 1>>
  <2>1. UNCHANGED <<sent, applied>>
    BY DEF CasLastSend, oracleVars
  <2>2. /\ run'[s].view = run[s].view
        /\ \A r \in Workers : r # s => run'[r] = run[r]
    BY <1>0, <1>2 DEF Goto, RunState
  <2>3. ASSUME NEW a \in Accounts
        PROVE  Balance(SentBy(a)', Pending(a)', SignedPermits(a)')
    <3>1. /\ g \notin SignedPermits(a)
          /\ SignedPermits(a)'
             = IF a \in Keys[n] /\ transaction_type(BlockNumber(s)) = "Signed"
               THEN SignedPermits(a) \cup {g} ELSE SignedPermits(a)
      BY <1>0, <1>2, PermitsGrow
    <3>2. SentBy(a)' = SentBy(a)
      BY <2>1 DEF SentBy
    <3>3. Balance(SentBy(a), Pending(a), SignedPermits(a))
      BY DEF BalanceInv, Balanced
    <3>4. \A r \in Workers : r # s => (Signing(r, a)' <=> Signing(r, a))
      BY <2>2 DEF Signing, BlockNumber
    <3>5. Signing(s, a)' => a \in Keys[n] /\ transaction_type(BlockNumber(s)) = "Signed"
      BY <2>2 DEF Signing, BlockNumber
    <3>6. CASE a \in Keys[n] /\ transaction_type(BlockNumber(s)) = "Signed"
      <4>1. Pending(a)' \in SUBSET (Pending(a) \cup {s})
        BY <3>4 DEF Pending
      <4> HIDE DEF g
      <4>2. Balance(SentBy(a), Pending(a)', SignedPermits(a) \cup {g})
        BY <3>1, <3>3, <4>1, BalanceGrant
      <4> QED
        BY <3>1, <3>2, <3>6, <4>2
    <3>7. CASE ~ (a \in Keys[n] /\ transaction_type(BlockNumber(s)) = "Signed")
      <4>1. Pending(a)' \in SUBSET Pending(a)
        BY <3>4, <3>5, <3>7 DEF Pending
      <4> QED
        BY <3>1, <3>2, <3>3, <3>7, <4>1, BalanceEnd
    <3> QED
      BY <3>6, <3>7
  <2>4. AppliedSent'
    BY <2>1 DEF BalanceInv, AppliedSent
  <2> QED
    BY <2>3, <2>4 DEF BalanceInv, Balanced
<1> QED
  BY <1>1, <1>2 DEF CasLastSend

\* A run sends at most one signed price for each key, and ends.
LEMMA BalanceSigned ==
    ASSUME WorkerTypes, BalanceInv, NEW s \in Workers, fetch_price_and_send_signed(s)
    PROVE  BalanceInv'
<1>1. PICK other : sent' = sent \cup {SignedBy(s, key, other) : key \in Keys[Host[s]]}
  BY DEF fetch_price_and_send_signed
<1>2. /\ Return(s) /\ run[s].pc = "send" /\ transaction_type(BlockNumber(s)) = "Signed"
      /\ UNCHANGED <<granted, applied>>
  BY DEF fetch_price_and_send_signed, oracleVars
<1>3. /\ \A r \in Workers : run'[r].pc \in LetThrough
             => run[r].pc \in LetThrough /\ run'[r].view = run[r].view
      /\ run'[s].pc \notin LetThrough
  BY <1>2, MovesOn, IdleType DEF Return, LetThrough, WorkerTypes
<1>4. ASSUME NEW a \in Accounts
      PROVE  Balance(SentBy(a)', Pending(a)', SignedPermits(a)')
  <2>1. SignedPermits(a)' = SignedPermits(a)
    BY <1>2 DEF SignedPermits
  <2>2. Balance(SentBy(a), Pending(a), SignedPermits(a))
    BY DEF BalanceInv, Balanced
  <2>3. Pending(a)' \in SUBSET (Pending(a) \ {s})
    BY <1>3 DEF Pending, Signing, BlockNumber
  <2>4. CASE a \in Keys[Host[s]]
    <3>1. s \in Pending(a)
      BY <1>2, <2>4 DEF Pending, Signing, LetThrough
    <3>2. SentBy(a)' \in SUBSET (SentBy(a) \cup {SignedBy(s, a, other)})
      BY <1>1 DEF SentBy, SignedBy
    <3>3. Balance(SentBy(a)', Pending(a)', SignedPermits(a))
      BY <2>2, <2>3, <3>1, <3>2, BalanceSend
    <3> QED
      BY <2>1, <3>3
  <2>5. CASE a \notin Keys[Host[s]]
    <3>1. SentBy(a)' = SentBy(a)
      BY <1>1, <2>5 DEF SentBy, SignedBy
    <3>2. Pending(a)' \in SUBSET Pending(a)
      BY <2>3
    <3> QED
      BY <2>1, <2>2, <3>1, <3>2, BalanceEnd
  <2> QED
    BY <2>4, <2>5
<1>5. AppliedSent'
  BY <1>1, <1>2 DEF BalanceInv, AppliedSent
<1> QED
  BY <1>4, <1>5 DEF BalanceInv, Balanced

\* The unsigned senders add no signed price.
LEMMA BalanceUnsigned ==
    ASSUME WorkerTypes, BalanceInv, NEW s \in Workers,
           \/ fetch_price_and_send_unsigned_for_any_account(s)
           \/ fetch_price_and_send_unsigned_for_all_accounts(s)
    PROVE  BalanceInv'
<1>1. Return(s) /\ UNCHANGED <<granted, applied>>
  BY DEF fetch_price_and_send_unsigned_for_any_account,
     fetch_price_and_send_unsigned_for_all_accounts, oracleVars
<1>2. \A key : IsUnsigned(WithPayloadBy(s, key))
  BY DEF IsUnsigned, WithPayloadBy
<1>3. sent \subseteq sent' /\ \A xt \in sent' : xt \in sent \/ IsUnsigned(xt)
  BY <1>2 DEF fetch_price_and_send_unsigned_for_any_account,
     fetch_price_and_send_unsigned_for_all_accounts
<1> QED
  BY <1>1, <1>3, MovesOn, BalanceQuiet

\* For an account that only workers use, the chain accepts what they sent.
LEMMA BalanceInclude ==
    ASSUME SysInv, BalanceInv, Include
    PROVE  BalanceInv'
<1>1. UNCHANGED workerVars /\ sent \subseteq Extrinsic
  BY DEF Include, SysInv, WorkerTypes
<1>2. Balanced'
  BY <1>1 DEF BalanceInv, Balanced, SentBy, Pending, Signing, BlockNumber, SignedPermits,
     workerVars
<1>3. CASE UNCHANGED applied
  BY <1>1, <1>2, <1>3 DEF BalanceInv, AppliedSent, workerVars
<1>4. ASSUME NEW xt \in Extrinsic, applied' = Append(applied, [xt |-> xt, at |-> block]),
             xt.signer \in Accounts \ Others => xt \in sent
      PROVE  BalanceInv'
  <2>1. /\ \A i \in 1 .. Len(applied) : applied'[i] = applied[i]
        /\ \A i \in 1 .. Len(applied') : i \in 1 .. Len(applied) \/ applied'[i].xt = xt
    BY <1>4, EntryAdded
  <2>2. AppliedSent'
    BY <1>1, <1>4, <2>1 DEF BalanceInv, AppliedSent, workerVars
  <2> QED
    BY <1>2, <2>2 DEF BalanceInv
<1>5. ASSUME NEW xt \in sent, Apply(xt) PROVE BalanceInv'
  BY <1>1, <1>3, <1>4, <1>5, AppliedBy
<1>6. ASSUME NEW xt \in Foreign, Apply(xt) PROVE BalanceInv'
  <2>1. xt.signer \notin Accounts \ Others
    BY OracleAssumption, SystemAssumption DEF AuthoredByOthers
  <2> QED
    BY <1>3, <1>4, <1>6, <2>1, ForeignType, AppliedBy
<1>7. ASSUME NEW a \in Shared, OtherExtrinsic(a) PROVE BalanceInv'
  BY <1>3, <1>7 DEF OtherExtrinsic
<1> QED
  BY <1>5, <1>6, <1>7 DEF Include

\* Every step keeps permits and signed prices in balance.
LEMMA BalanceStep ==
    ASSUME SysInv, BalanceInv, [SysNext]_sysVars
    PROVE  BalanceInv'
<1>0. WorkerTypes
  BY DEF SysInv
<1>1. ASSUME NEW s \in Workers, offchain_worker(s) PROVE BalanceInv'
  <2> DEFINE x == [Idle EXCEPT !.pc = "read", !.view = best]
  <2>1. x.pc \notin LetThrough /\ run' = [run EXCEPT ![s] = x]
    BY <1>1 DEF offchain_worker, Idle, LetThrough
  <2> HIDE DEF x
  <2> QED
    BY <1>0, <1>1, <2>1, MovesOn, BalanceQuiet DEF offchain_worker, oracleVars
<1>2. ASSUME NEW s \in Workers, ReadLastSend(s) PROVE BalanceInv'
  <2>1. CASE Return(s)
    BY <1>0, <1>2, <2>1, MovesOn, BalanceQuiet DEF ReadLastSend, oracleVars
  <2>2. CASE run' = [run EXCEPT ![s].pc = "cas", ![s].seen = lastSend[Host[s]]]
    <3> DEFINE x == [run[s] EXCEPT !.pc = "cas", !.seen = lastSend[Host[s]]]
    <3>1. x.pc \notin LetThrough /\ run' = [run EXCEPT ![s] = x]
      BY <1>0, <2>2, RunType DEF RunState, LetThrough
    <3> HIDE DEF x
    <3> QED
      BY <1>0, <1>2, <3>1, MovesOn, BalanceQuiet DEF ReadLastSend, oracleVars
  <2> QED
    BY <1>2, <2>1, <2>2 DEF ReadLastSend
<1>3. ASSUME NEW s \in Workers, CheckBeforeFetch(s) PROVE BalanceInv'
  <2>1. Return(s) \/ (run[s].pc \in LetThrough /\ \E pc \in LetThrough : Goto(s, pc))
    BY <1>3 DEF CheckBeforeFetch, LetThrough
  <2> QED
    BY <1>0, <1>3, <2>1, MovesOn, BalanceQuiet DEF CheckBeforeFetch, oracleVars
<1>4. ASSUME NEW s \in Workers, FetchPrice(s) PROVE BalanceInv'
  <2>1. \/ Return(s)
        \/ \E p : /\ run[s].pc \in LetThrough
                  /\ run' = [run EXCEPT ![s].pc = "send", ![s].price = p]
    BY <1>4 DEF FetchPrice, LetThrough
  <2> QED
    BY <1>0, <1>4, <2>1, MovesOn, BalanceQuiet DEF FetchPrice, oracleVars
<1>5. ASSUME NEW s \in Workers, Work(s) PROVE BalanceInv'
  BY <1>0, <1>1, <1>2, <1>3, <1>4, <1>5, BalanceCas, BalanceSigned, BalanceUnsigned DEF Work
<1>6. ASSUME NEW n \in Nodes, Restart(n) PROVE BalanceInv'
  <2>1. \A r \in Workers : run'[r].pc \in LetThrough
            => run[r].pc \in LetThrough /\ run'[r].view = run[r].view
    BY <1>6, IdleType DEF Restart, LetThrough
  <2> QED
    BY <1>6, <2>1, BalanceQuiet DEF Restart, oracleVars
<1>7. CASE ImportBlock
  BY <1>7, BalanceQuiet DEF ImportBlock, NewBlock, workerVars
<1>8. CASE UNCHANGED sysVars
  BY <1>8, BalanceQuiet DEF sysVars, oracleVars, workerVars
<1> QED
  BY <1>5, <1>6, <1>7, <1>8, BalanceInclude DEF SysNext

\* The workers' accepted prices of an account are as many as the extrinsics
\* they have sent for it, at most: none is accepted twice.
LEMMA AppliedAtMostSent ==
    ASSUME SysInv, BalanceInv, NEW a \in Accounts
    PROVE  Cardinality(WorkerPrices(a)) <= Cardinality(SentBy(a))
<1> DEFINE D == WorkerPrices(a)
           f == [i \in D |-> applied[i].xt]
<1>1. f \in [D -> SentBy(a)]
  BY DEF BalanceInv, AppliedSent, SentBy, WorkerPrices
<1>2. \A i, j \in D : f[i] = f[j] => i = j
  BY DEF SysInv, Inv, AppliedOnce, WorkerPrices
<1>3. f \in Injection(D, SentBy(a))
  <2> HIDE DEF D, f
  <2> QED
    BY <1>1, <1>2 DEF Injection, IsInjective
<1>4. IsFiniteSet(SentBy(a))
  BY DEF BalanceInv, Balanced, Balance
<1> HIDE DEF D, f
<1>5. Cardinality(D) <= Cardinality(SentBy(a))
  BY <1>3, <1>4, FS_Injection
<1> QED
  BY <1>5 DEF D

\* However many nodes hold an account's key and race for its nonce, among
\* themselves and with others who use it, the workers' signed prices of the
\* account on the chain never outnumber the permits of its holders.
THEOREM SignedBounded == SysSpec => []SignedBoundedByPermits
<1>1. SysInit => BalanceInv
  <2> SUFFICES ASSUME SysInit PROVE BalanceInv
    OBVIOUS
  <2>1. ASSUME NEW a \in Accounts PROVE Balance(SentBy(a), Pending(a), SignedPermits(a))
    <3>1. SentBy(a) = {} /\ Pending(a) = {}
      BY IdleType DEF SysInit, SentBy, Pending, Signing, LetThrough
    <3>2. SignedPermits(a) = {}
      BY DEF SysInit, SignedPermits
    <3> QED
      BY <3>1, <3>2, FS_EmptySet DEF Balance
  <2>2. AppliedSent
    BY DEF SysInit, Init, AppliedSent
  <2> QED
    BY <2>1, <2>2 DEF BalanceInv, Balanced
<1>2. SysInv /\ BalanceInv /\ [SysNext]_sysVars => BalanceInv'
  BY BalanceStep
<1>3. SysInv /\ BalanceInv => SignedBoundedByPermits
  <2> SUFFICES ASSUME SysInv, BalanceInv, NEW a \in Accounts
               PROVE  Cardinality(WorkerPrices(a)) <= Cardinality(SignedPermits(a))
    BY DEF SignedBoundedByPermits
  <2> DEFINE D == WorkerPrices(a)
  <2>1. Cardinality(D) <= Cardinality(SentBy(a))
    BY AppliedAtMostSent
  <2>2. /\ IsFiniteSet(SentBy(a)) /\ IsFiniteSet(Pending(a)) /\ IsFiniteSet(SignedPermits(a))
        /\ Cardinality(SentBy(a)) + Cardinality(Pending(a)) <= Cardinality(SignedPermits(a))
    BY DEF BalanceInv, Balanced, Balance
  <2>3. /\ Cardinality(SentBy(a)) \in Nat /\ Cardinality(Pending(a)) \in Nat
        /\ Cardinality(SignedPermits(a)) \in Nat
    BY <2>2, FS_CardinalityType
  <2>4. Cardinality(D) \in Nat
    <3>1. D \in SUBSET (1 .. Len(applied)) /\ Len(applied) \in Int
      BY DEF SysInv, Inv, TypeOK, WorkerPrices
    <3>2. IsFiniteSet(1 .. Len(applied))
      BY <3>1, FS_Interval
    <3> HIDE DEF D
    <3>3. IsFiniteSet(D)
      BY <3>1, <3>2, FS_Subset
    <3> QED
      BY <3>3, FS_CardinalityType
  <2> HIDE DEF D
  <2>5. Cardinality(D) <= Cardinality(SignedPermits(a))
    BY <2>1, <2>2, <2>3, <2>4
  <2> QED
    BY <2>5 DEF D
<1> QED
  BY <1>1, <1>2, <1>3, SysInvariance, PTL DEF SysSpec
============================================================================
