-------------------------- MODULE RemoteInfoProofs --------------------------
(* Proofs about RemoteInfo, for any number of runs and any time limits. *)
EXTENDS RemoteInfo, TLAPS

\* While nobody outlived its deadline: the entry is the holder's own, and it
\* has not expired.
HolderInTime ==
    ~ overran => \A r \in Runs : InSection(r) =>
        /\ lock = run[r].deadline
        /\ clock <= run[r].deadline.timestamp

\* A run about to compare-and-set saw no entry, or one that had expired.
SeenExpired ==
    \A r \in Runs : run[r].pc = "cas" /\ run[r].seen # NoLock
                    => clock > run[r].seen.timestamp

\* The inductive invariant.
Inv ==
    /\ TypeOK
    /\ HolderInTime
    /\ MutualExclusion
    /\ SeenExpired
    /\ LockHasHolder

\* A run that has not started has its type and saw no lock.
LEMMA IdleType == Idle \in RunState /\ Idle.pc = "idle" /\ Idle.seen = NoLock
BY DEF Idle, RunState, PC, Deadline

\* An empty local storage satisfies the invariant.
LEMMA InitInv == Init => Inv
<1> SUFFICES ASSUME Init PROVE Inv
  OBVIOUS
<1>1. TypeOK
  <2>1. run \in [Runs -> RunState]
    BY IdleType DEF Init
  <2>2. lock \in Deadline \cup {NoLock} /\ clock \in Nat /\ best \in 0 .. MaxBlock
    BY RemoteInfoAssumption DEF Init
  <2>3. cached \in BOOLEAN /\ overran \in BOOLEAN /\ crashed \in BOOLEAN
    BY DEF Init
  <2> QED
    BY <2>1, <2>2, <2>3 DEF TypeOK
<1>2. \A r \in Runs : ~ InSection(r) /\ run[r].pc # "cas"
  BY IdleType DEF Init, InSection
<1> QED
  BY <1>1, <1>2
  DEF Init, Inv, HolderInTime, MutualExclusion, SeenExpired, LockHasHolder

\* The parts of a run record.
LEMMA RunType ==
    ASSUME TypeOK, NEW r \in Runs
    PROVE  /\ run[r].pc \in PC /\ run[r].at \in Nat /\ run[r].timeout \in Nat
           /\ run[r].deadline \in Deadline
           /\ run[r].deadline # NoLock
           /\ run[r].deadline.timestamp \in Nat
           /\ run[r].seen \in Deadline \cup {NoLock}
           /\ run[r].seen # NoLock => run[r].seen.timestamp \in Nat
BY RemoteInfoAssumption DEF TypeOK, RunState, Deadline

\* Steps that only move one run, within the section or outside of it, and
\* leave clock and storage lock alone.
LEMMA MoveRun ==
    ASSUME Inv, NEW r \in Runs, NEW x \in RunState,
           run' = [run EXCEPT ![r] = x],
           cached' \in BOOLEAN,
           UNCHANGED <<clock, best, lock, overran, crashed>>,
           InSection(r) <=> x.pc \in {"send", "wait", "body", "store", "unlock"},
           InSection(r) => x.deadline = run[r].deadline,
           x.pc = "cas" /\ x.seen # NoLock => clock > x.seen.timestamp
    PROVE  Inv'
<1>1. TypeOK'
  BY DEF Inv, TypeOK
<1>2. run'[r] = x /\ \A s \in Runs : s # r => run'[s] = run[s]
  BY DEF Inv, TypeOK
<1>3. \A s \in Runs : InSection(s)' <=> InSection(s)
  BY <1>2 DEF InSection
<1>4. \A s \in Runs : InSection(s) => run'[s].deadline = run[s].deadline
  BY <1>2
<1>5. HolderInTime'
  BY <1>3, <1>4 DEF Inv, HolderInTime
<1>6. MutualExclusion'
  BY <1>3 DEF Inv, MutualExclusion
<1>7. SeenExpired'
  BY <1>2 DEF Inv, SeenExpired
<1>8. LockHasHolder'
  BY <1>3, <1>4 DEF Inv, LockHasHolder
<1> QED
  BY <1>1, <1>5, <1>6, <1>7, <1>8 DEF Inv

-----------------------------------------------------------------------------
(* The steps that MoveRun does not cover: those that write the lock entry,   *)
(* those that let time pass, and the restart.                                *)

\* Taking the lock (the second half of try_lock) keeps the invariant.
LEMMA LockCasInv == ASSUME Inv, NEW r \in Runs, LockCas(r) PROVE Inv'
<1> USE RemoteInfoAssumption
<1>0. TypeOK
  BY DEF Inv
<1>1. CASE lock # run[r].seen
  <2>1. /\ run' = [run EXCEPT ![r] = Idle] /\ ~ InSection(r)
        /\ UNCHANGED <<clock, best, cached, lock, overran, crashed>>
    BY <1>1 DEF LockCas, Return, InSection
  <2> QED
    BY <1>0, <2>1, IdleType, MoveRun DEF TypeOK
<1>2. CASE lock = run[r].seen
  <2> DEFINE x == [run[r] EXCEPT !.pc = "send"]
  <2>1. /\ run' = [run EXCEPT ![r] = x]
        /\ lock' = run[r].deadline
        /\ overran' = (overran \/ clock > run[r].deadline.timestamp)
        /\ UNCHANGED <<clock, best, cached, crashed>>
        /\ run[r].pc = "cas"
    BY <1>2 DEF LockCas, Goto
  <2>2. x \in RunState /\ x.pc = "send" /\ x.deadline = run[r].deadline
    BY <1>0 DEF TypeOK, RunState, PC
  <2>3. run'[r] = x /\ \A s \in Runs : s # r => run'[s] = run[s]
    BY <1>0, <2>1 DEF TypeOK
  <2>4. TypeOK'
    BY <1>0, <2>1, <2>2, RunType DEF TypeOK
  <2>5. InSection(r)' /\ \A s \in Runs : s # r => (InSection(s)' <=> InSection(s))
    BY <2>2, <2>3 DEF InSection
  \* Nobody else is inside: an absent entry has no holder, and an expired
  \* one would have one that overran.
  <2>6. ~ overran => \A s \in Runs : ~ InSection(s)
    <3> SUFFICES ASSUME ~ overran, NEW s \in Runs, InSection(s) PROVE FALSE
      OBVIOUS
    <3>1. lock = run[s].deadline /\ clock <= run[s].deadline.timestamp
      BY DEF Inv, HolderInTime
    <3>2. lock # NoLock
      BY <1>0, <3>1, RunType
    <3>3. clock > lock.timestamp
      BY <1>2, <2>1, <3>2 DEF Inv, SeenExpired
    <3> QED
      BY <1>0, <3>1, <3>3, RunType DEF TypeOK
  <2>7. HolderInTime'
    <3> SUFFICES ASSUME ~ overran', NEW s \in Runs, InSection(s)'
                 PROVE  lock' = run'[s].deadline /\ clock' <= run'[s].deadline.timestamp
      BY DEF HolderInTime
    <3>1. ~ overran /\ ~ (clock > run[r].deadline.timestamp)
      BY <2>1
    <3>2. s = r
      BY <2>5, <2>6, <3>1
    <3>3. clock <= run[r].deadline.timestamp
      BY <1>0, <3>1, RunType DEF TypeOK
    <3> QED
      BY <2>1, <2>2, <2>3, <3>2, <3>3
  <2>8. MutualExclusion'
    BY <2>1, <2>5, <2>6 DEF MutualExclusion
  <2>9. SeenExpired'
    BY <2>1, <2>2, <2>3 DEF Inv, SeenExpired
  <2>10. LockHasHolder'
    BY <2>1, <2>2, <2>3, <2>5 DEF LockHasHolder
  <2> QED
    BY <2>4, <2>7, <2>8, <2>9, <2>10 DEF Inv
<1> QED
  BY <1>1, <1>2

\* Dropping the guard keeps the invariant.
LEMMA UnlockInv == ASSUME Inv, NEW r \in Runs, Unlock(r) PROVE Inv'
<1>0. TypeOK
  BY DEF Inv
<1>1. /\ run' = [run EXCEPT ![r] = Idle] /\ lock' = NoLock /\ InSection(r)
      /\ UNCHANGED <<clock, best, cached, overran, crashed>>
  BY DEF Unlock, Return, InSection
<1>2. run'[r] = Idle /\ \A s \in Runs : s # r => run'[s] = run[s]
  BY <1>0, <1>1 DEF TypeOK
<1>3. TypeOK'
  BY <1>0, <1>1, IdleType DEF TypeOK
<1>4. ~ InSection(r)' /\ \A s \in Runs : s # r => (InSection(s)' <=> InSection(s))
  BY <1>2, IdleType DEF InSection
<1>5. ~ overran' => \A s \in Runs : ~ InSection(s)'
  BY <1>1, <1>4 DEF Inv, MutualExclusion
<1>6. HolderInTime' /\ MutualExclusion'
  BY <1>5 DEF HolderInTime, MutualExclusion
<1>7. SeenExpired'
  BY <1>1, <1>2, IdleType DEF Inv, SeenExpired
<1>8. LockHasHolder'
  BY <1>1 DEF LockHasHolder
<1> QED
  BY <1>3, <1>6, <1>7, <1>8 DEF Inv

\* The clock keeps the invariant: a lock only gets more expired.
LEMMA TickInv == ASSUME Inv, Tick PROVE Inv'
<1>0. TypeOK
  BY DEF Inv
<1>1. /\ clock' = clock + 1
      /\ overran' = (overran \/ \E r \in Runs :
                        InSection(r) /\ clock + 1 > run[r].deadline.timestamp)
      /\ UNCHANGED <<best, cached, lock, run, crashed>>
  BY DEF Tick
<1>2. TypeOK'
  BY <1>0, <1>1 DEF TypeOK
<1>3. \A r \in Runs : InSection(r)' <=> InSection(r)
  BY <1>1 DEF InSection
<1>4. HolderInTime'
  <2> SUFFICES ASSUME ~ overran', NEW r \in Runs, InSection(r)'
               PROVE  lock' = run'[r].deadline /\ clock' <= run'[r].deadline.timestamp
    BY DEF HolderInTime
  <2>1. ~ overran /\ InSection(r) /\ ~ (clock + 1 > run[r].deadline.timestamp)
    BY <1>1, <1>3
  <2>2. lock = run[r].deadline
    BY <2>1 DEF Inv, HolderInTime
  <2>3. clock + 1 <= run[r].deadline.timestamp
    BY <1>0, <2>1, RunType DEF TypeOK
  <2> QED
    BY <1>1, <2>2, <2>3
<1>5. MutualExclusion' /\ LockHasHolder'
  BY <1>1, <1>3 DEF Inv, MutualExclusion, LockHasHolder
<1>6. SeenExpired'
  <2> SUFFICES ASSUME NEW r \in Runs, run[r].pc = "cas", run[r].seen # NoLock
               PROVE  clock + 1 > run[r].seen.timestamp
    BY <1>1 DEF SeenExpired
  <2> QED
    BY <1>0, RunType DEF Inv, SeenExpired, TypeOK
<1> QED
  BY <1>2, <1>4, <1>5, <1>6 DEF Inv

\* A crash and restart of the node keeps the invariant.
LEMMA RestartInv == ASSUME Inv, Restart PROVE Inv'
<1>1. TypeOK'
  BY IdleType DEF Restart, Inv, TypeOK
<1>2. \A r \in Runs : ~ InSection(r)' /\ run'[r].pc # "cas"
  BY IdleType DEF Restart, InSection
<1> QED
  BY <1>1, <1>2
  DEF Restart, Inv, HolderInTime, MutualExclusion, SeenExpired, LockHasHolder

-----------------------------------------------------------------------------
\* Every step keeps the invariant.
LEMMA NextInv == Inv /\ [Next]_vars => Inv'
<1> SUFFICES ASSUME Inv, [Next]_vars PROVE Inv'
  OBVIOUS
<1> USE RemoteInfoAssumption
<1>0. TypeOK
  BY DEF Inv
\* A run that only changes its pc, or returns, outside of try_lock.
<1>1. ASSUME NEW r \in Runs, NEW pc \in PC, Goto(r, pc), run[r].pc # "cas", pc # "cas",
             InSection(r) <=> pc \in {"send", "wait", "body", "store", "unlock"},
             cached' \in BOOLEAN,
             UNCHANGED <<clock, best, lock, overran, crashed>>
      PROVE  Inv'
  <2> DEFINE x == [run[r] EXCEPT !.pc = pc]
  <2>1. run' = [run EXCEPT ![r] = x]
    BY <1>1 DEF Goto
  <2>2. x \in RunState /\ x.pc = pc /\ x.deadline = run[r].deadline
    BY <1>0 DEF TypeOK, RunState
  <2> QED
    BY <1>1, <2>1, <2>2, MoveRun
<1>2. ASSUME NEW r \in Runs, Return(r), ~ InSection(r),
             UNCHANGED <<clock, best, cached, lock, overran, crashed>>
      PROVE  Inv'
  BY <1>0, <1>2, IdleType, MoveRun DEF Return, TypeOK
<1>3. ASSUME NEW r \in Runs, offchain_worker(r) PROVE Inv'
  <2> DEFINE x == [Idle EXCEPT !.pc = "check", !.at = best]
  <2>1. x \in RunState /\ x.pc = "check"
    <3>1. best \in Nat
      BY <1>0 DEF TypeOK
    <3> QED
      BY <3>1, IdleType DEF RunState, PC
  <2>2. run' = [run EXCEPT ![r] = x] /\ ~ InSection(r)
        /\ UNCHANGED <<clock, best, cached, lock, overran, crashed>>
    BY <1>3 DEF offchain_worker, InSection
  <2> QED
    BY <1>0, <2>1, <2>2, MoveRun DEF TypeOK
<1>4. ASSUME NEW r \in Runs, CheckCache(r) PROVE Inv'
  BY <1>0, <1>1, <1>2, <1>4 DEF CheckCache, InSection, PC, TypeOK
<1>5. ASSUME NEW r \in Runs, LockRead(r) PROVE Inv'
  <2>0. run[r].pc = "lock" /\ ~ InSection(r)
        /\ UNCHANGED <<clock, best, cached, lock, overran, crashed>>
    BY <1>5 DEF LockRead, InSection
  <2>1. CASE lock # NoLock /\ ~ has_expired(lock, run[r].at)
    BY <1>2, <1>5, <2>0, <2>1 DEF LockRead
  <2>2. CASE lock = NoLock \/ has_expired(lock, run[r].at)
    <3> DEFINE x == [run[r] EXCEPT !.pc = "cas", !.seen = lock, !.deadline = NewDeadline(r)]
    <3>1. run' = [run EXCEPT ![r] = x]
      BY <1>5, <2>2 DEF LockRead
    <3>2. NewDeadline(r) \in Deadline
      BY <1>0, RunType DEF NewDeadline, Deadline, TypeOK
    <3>3. x \in RunState /\ x.pc = "cas" /\ x.seen = lock
      BY <1>0, <3>2 DEF TypeOK, RunState, PC
    <3>4. x.seen # NoLock => clock > x.seen.timestamp
      BY <2>2, <3>3 DEF has_expired
    <3> QED
      BY <1>0, <2>0, <3>1, <3>3, <3>4, MoveRun DEF TypeOK
  <2> QED
    BY <2>1, <2>2
<1>6. ASSUME NEW r \in Runs, SendRequest(r) PROVE Inv'
  <2>0. run[r].pc = "send" /\ InSection(r)
        /\ UNCHANGED <<clock, best, cached, lock, overran, crashed>>
    BY <1>6 DEF SendRequest, InSection
  <2>1. CASE Goto(r, "unlock")
    BY <1>0, <1>1, <2>0, <2>1 DEF PC, TypeOK
  <2>2. CASE run' = [run EXCEPT ![r].pc = "wait", ![r].timeout = clock + FetchTimeout]
    <3> DEFINE x == [run[r] EXCEPT !.pc = "wait", !.timeout = clock + FetchTimeout]
    <3>1. run' = [run EXCEPT ![r] = x]
      BY <2>2
    <3>2. x \in RunState /\ x.pc = "wait" /\ x.deadline = run[r].deadline
      <4>1. run[r] \in RunState /\ clock + FetchTimeout \in Nat
        BY <1>0 DEF TypeOK
      <4> QED
        BY <4>1 DEF RunState, PC
    <3> QED
      BY <1>0, <2>0, <3>1, <3>2, MoveRun DEF TypeOK
  <2> QED
    BY <1>6, <2>1, <2>2 DEF SendRequest
<1>7. ASSUME NEW r \in Runs, Answer(r) \/ DeadlineReached(r) \/ ReadBody(r) \/ Store(r)
      PROVE  Inv'
  <2>1. /\ run[r].pc \in {"wait", "body", "store"}
        /\ Goto(r, "body") \/ Goto(r, "store") \/ Goto(r, "unlock")
        /\ cached' \in BOOLEAN
        /\ UNCHANGED <<clock, best, lock, overran, crashed>>
    BY <1>0, <1>7 DEF Answer, DeadlineReached, ReadBody, Store, TypeOK
  <2>2. InSection(r) /\ run[r].pc # "cas"
    BY <2>1 DEF InSection
  <2> QED
    BY <1>1, <2>1, <2>2 DEF PC
<1>8. CASE NewBlock
  <2>1. TypeOK'
    BY <1>0, <1>8 DEF NewBlock, TypeOK
  <2> QED
    BY <1>8, <2>1 DEF NewBlock, Inv, HolderInTime, MutualExclusion, SeenExpired,
       LockHasHolder, InSection
<1>9. CASE UNCHANGED vars
  <2>1. TypeOK'
    BY <1>0, <1>9 DEF vars, TypeOK
  <2> QED
    BY <1>9, <2>1 DEF vars, Inv, HolderInTime, MutualExclusion, SeenExpired,
       LockHasHolder, InSection
<1> QED
  BY <1>3, <1>4, <1>5, <1>6, <1>7, <1>8, <1>9, LockCasInv, UnlockInv, TickInv, RestartInv
  DEF Next, Step

\* The invariant of the lock holds in every reachable state.
THEOREM Invariance == Spec => []Inv
BY InitInv, NextInv, PTL DEF Spec

\* Clock, storage entries and run records keep their types.
THEOREM TypeCorrect == Spec => []TypeOK
<1>1. Inv => TypeOK
  BY DEF Inv
<1> QED
  BY <1>1, Invariance, PTL

\* The guarded section of fetch_remote_info is exclusive for any number of
\* runs, unless a holder has outlived its deadline.
THEOREM SectionExclusive == Spec => []MutualExclusion
<1>1. Inv => MutualExclusion
  BY DEF Inv
<1> QED
  BY <1>1, Invariance, PTL

\* Until then every holder finds its own entry when it clears the lock.
THEOREM HolderClearsOwnLock == Spec => []HolderOwnsLock
<1>1. Inv => HolderOwnsLock
  BY DEF Inv, HolderInTime, HolderOwnsLock
<1> QED
  BY <1>1, Invariance, PTL

\* Only a killed node leaves a lock entry without a holder.
THEOREM LockNotLeaked == Spec => []LockHasHolder
<1>1. Inv => LockHasHolder
  BY DEF Inv
<1> QED
  BY <1>1, Invariance, PTL

-----------------------------------------------------------------------------
(* The entry expires. *)

\* A deadline within both limits of the lock.
Near(d) == d.timestamp <= clock + LockTimeout /\ d.block <= best + LockBlocks

\* The strengthening: runs see blocks that were imported, and what a run is
\* about to write is within the limits like the entry itself.
ExpiryInv ==
    /\ \A r \in Runs : run[r].at <= best
    /\ \A r \in Runs : run[r].pc = "cas" => Near(run[r].deadline)
    /\ LockExpires

\* What a step of run r, which makes its record x, can mean for the entry.
Harmless(r, x) ==
    /\ x.at <= best
    /\ x.pc = "cas" => Near(x.deadline)
    /\ lock' \in {lock, NoLock} \/ (run[r].pc = "cas" /\ lock' = run[r].deadline)

\* Every step of a run is harmless.
LEMMA StepHarmless ==
    ASSUME TypeOK, ExpiryInv, NEW r \in Runs, Step(r)
    PROVE  \E x : run' = [run EXCEPT ![r] = x] /\ UNCHANGED <<clock, best>> /\ Harmless(r, x)
<1> DEFINE Goal == \E x : /\ run' = [run EXCEPT ![r] = x]
                          /\ UNCHANGED <<clock, best>> /\ Harmless(r, x)
<1>1. run[r] \in RunState /\ run[r].at <= best /\ run[r].at \in Nat
      /\ best \in Nat /\ clock \in Nat
  BY RunType DEF TypeOK, ExpiryInv
<1>2. ASSUME NEW pc, Goto(r, pc), pc # "cas", UNCHANGED <<clock, best>>,
             lock' \in {lock, NoLock} \/ (run[r].pc = "cas" /\ lock' = run[r].deadline)
      PROVE  Goal
  <2> DEFINE x == [run[r] EXCEPT !.pc = pc]
  <2>1. run' = [run EXCEPT ![r] = x] /\ x.pc = pc /\ x.at = run[r].at
    BY <1>1, <1>2 DEF Goto, RunState
  <2>2. Harmless(r, x)
    BY <1>1, <1>2, <2>1 DEF Harmless
  <2> QED
    BY <1>2, <2>1, <2>2
<1>3. ASSUME Return(r), lock' \in {lock, NoLock}, UNCHANGED <<clock, best>>
      PROVE  Goal
  <2>1. Idle.at = 0 /\ Idle.pc = "idle"
    BY DEF Idle
  <2>2. Harmless(r, Idle)
    BY <1>1, <1>3, <2>1 DEF Harmless
  <2> QED
    BY <1>3, <2>2 DEF Return
<1>4. CASE offchain_worker(r)
  <2> DEFINE x == [Idle EXCEPT !.pc = "check", !.at = best]
  <2>1. x.pc = "check" /\ x.at = best
    BY DEF Idle
  <2>2. run' = [run EXCEPT ![r] = x] /\ UNCHANGED <<clock, best, lock>>
    BY <1>4 DEF offchain_worker
  <2>3. Harmless(r, x)
    BY <1>1, <2>1, <2>2 DEF Harmless
  <2> QED
    BY <2>2, <2>3
<1>5. CASE CheckCache(r)
  BY <1>2, <1>3, <1>5 DEF CheckCache
<1>6. CASE LockRead(r)
  <2>1. UNCHANGED <<clock, best, lock>>
    BY <1>6 DEF LockRead
  <2>2. CASE lock # NoLock /\ ~ has_expired(lock, run[r].at)
    BY <1>3, <1>6, <2>1, <2>2 DEF LockRead
  <2>3. CASE lock = NoLock \/ has_expired(lock, run[r].at)
    <3> DEFINE x == [run[r] EXCEPT !.pc = "cas", !.seen = lock, !.deadline = NewDeadline(r)]
    <3>1. run' = [run EXCEPT ![r] = x]
      BY <1>6, <2>3 DEF LockRead
    <3>2. x.at = run[r].at /\ x.deadline = NewDeadline(r)
      BY <1>1 DEF RunState
    <3>3. Near(NewDeadline(r))
      BY <1>1, RemoteInfoAssumption DEF NewDeadline, Near
    <3>4. Harmless(r, x)
      BY <1>1, <2>1, <3>2, <3>3 DEF Harmless
    <3> QED
      BY <2>1, <3>1, <3>4
  <2> QED
    BY <2>2, <2>3
<1>7. CASE LockCas(r)
  BY <1>2, <1>3, <1>7 DEF LockCas
<1>8. CASE SendRequest(r)
  <2>1. UNCHANGED <<clock, best, lock>>
    BY <1>8 DEF SendRequest
  <2>2. CASE Goto(r, "unlock")
    BY <1>2, <2>1, <2>2
  <2>3. CASE run' = [run EXCEPT ![r].pc = "wait", ![r].timeout = clock + FetchTimeout]
    <3> DEFINE x == [run[r] EXCEPT !.pc = "wait", !.timeout = clock + FetchTimeout]
    <3>1. run' = [run EXCEPT ![r] = x]
      BY <2>3
    <3>2. x.pc = "wait" /\ x.at = run[r].at
      BY <1>1 DEF RunState
    <3>3. Harmless(r, x)
      BY <1>1, <2>1, <3>2 DEF Harmless
    <3> QED
      BY <2>1, <3>1, <3>3
  <2> QED
    BY <1>8, <2>2, <2>3 DEF SendRequest
<1>9. CASE Answer(r) \/ DeadlineReached(r) \/ ReadBody(r) \/ Store(r)
  <2>1. /\ Goto(r, "body") \/ Goto(r, "store") \/ Goto(r, "unlock")
        /\ UNCHANGED <<clock, best, lock>>
    BY <1>9 DEF Answer, DeadlineReached, ReadBody, Store
  <2> QED
    BY <1>2, <2>1
<1>10. CASE Unlock(r)
  BY <1>3, <1>10 DEF Unlock
<1> QED
  BY <1>4, <1>5, <1>6, <1>7, <1>8, <1>9, <1>10 DEF Step

\* What is within the limits stays there while time and blocks go by.
LEMMA NearStays ==
    ASSUME TypeOK, NEW d \in Deadline, Near(d),
           clock' \in Nat, best' \in Nat, clock <= clock', best <= best'
    PROVE  Near(d)'
<1>1. d.timestamp \in Nat /\ d.block \in Nat /\ clock \in Nat /\ best \in Nat
  BY DEF Deadline, TypeOK
<1>2. LockTimeout \in Nat /\ LockBlocks \in Nat
  BY RemoteInfoAssumption
<1> QED
  BY <1>1, <1>2 DEF Near

\* A lock entry, also one whose maker died or never ends, always expires
\* within the two limits from now: for any number of runs and any timing.
THEOREM OrphanExpires == Spec => []LockExpires
<1>1. Init => ExpiryInv
  BY IdleType DEF Init, Idle, ExpiryInv, LockExpires
<1>2. TypeOK /\ ExpiryInv /\ [Next]_vars => ExpiryInv'
  <2> SUFFICES ASSUME TypeOK, ExpiryInv, [Next]_vars
               PROVE  ExpiryInv'
    OBVIOUS
  <2>0. /\ clock \in Nat /\ best \in Nat
        /\ \A r \in Runs : run[r].at \in Nat /\ run[r].deadline \in Deadline
        /\ \A r \in Runs : run[r].deadline # NoLock
        /\ lock # NoLock => lock \in Deadline
    BY RunType DEF TypeOK
  <2>1. ASSUME NEW r \in Runs, Step(r)
        PROVE  ExpiryInv'
    <3>1. PICK x : /\ run' = [run EXCEPT ![r] = x]
                   /\ UNCHANGED <<clock, best>> /\ Harmless(r, x)
      BY <2>1, StepHarmless
    <3>2. run'[r] = x /\ \A q \in Runs : q # r => run'[q] = run[q]
      BY <3>1 DEF TypeOK
    <3>3. LockExpires'
      BY <3>1 DEF ExpiryInv, LockExpires, Harmless, Near
    <3>4. \A q \in Runs : run'[q].at <= best /\ (run'[q].pc = "cas" => Near(run'[q].deadline))
      BY <3>1, <3>2 DEF ExpiryInv, Harmless
    <3> QED
      BY <3>1, <3>3, <3>4 DEF ExpiryInv, Near
  <2>2. CASE Tick \/ NewBlock
    <3>1. /\ UNCHANGED <<lock, run>> /\ clock' \in Nat /\ best' \in Nat
          /\ clock <= clock' /\ best <= best'
      BY <2>0, <2>2 DEF Tick, NewBlock
    <3>2. LockExpires'
      <4> SUFFICES ASSUME lock # NoLock PROVE Near(lock)'
        BY <3>1 DEF LockExpires, Near
      <4> QED
        BY <2>0, <3>1, NearStays DEF ExpiryInv, LockExpires, Near
    <3>3. ASSUME NEW q \in Runs
          PROVE  run'[q].at <= best' /\ (run'[q].pc = "cas" => Near(run[q].deadline)')
      <4>1. run[q].at <= best' /\ run'[q] = run[q]
        BY <2>0, <3>1 DEF ExpiryInv
      <4>2. PICK d \in Deadline : d = run[q].deadline
        BY <2>0
      <4>3. run[q].pc = "cas" => Near(d)'
        BY <3>1, <4>2, NearStays DEF ExpiryInv
      <4> QED
        BY <3>1, <4>1, <4>2, <4>3 DEF Near
    <3> QED
      BY <3>1, <3>2, <3>3 DEF ExpiryInv
  <2>3. CASE Restart
    BY <2>0, <2>3, IdleType DEF Restart, ExpiryInv, LockExpires, Idle
  <2>4. CASE UNCHANGED vars
    BY <2>4 DEF vars, ExpiryInv, LockExpires, Near
  <2> QED
    BY <2>1, <2>2, <2>3, <2>4 DEF Next
<1>3. ExpiryInv => LockExpires
  BY DEF ExpiryInv
<1> QED
  BY <1>1, <1>2, <1>3, TypeCorrect, PTL DEF Spec

-----------------------------------------------------------------------------
(* The lock is a lease. *)

\* A run about to compare-and-set wants no more than the length of the lock.
\* Its deadline dates from the read, when the clock stood no later.
DeadlineNear ==
    \A r \in Runs : run[r].pc = "cas" => run[r].deadline.timestamp <= clock + LockTimeout

SectionPC == {"send", "wait", "body", "store", "unlock"}

\* What a step of run r, which makes its record x, can mean for the lock.
Quiet(r, x) ==
    /\ UNCHANGED <<lock, overran>>
    /\ InSection(r) <=> x.pc \in SectionPC
    /\ InSection(r) => x.deadline = run[r].deadline
    /\ x.pc = "cas" => x.deadline.timestamp <= clock + LockTimeout

Granted(r, x) ==
    /\ run[r].pc = "cas" /\ lock = run[r].seen
    /\ x.pc = "send" /\ x.deadline = run[r].deadline
    /\ lock' = run[r].deadline
    /\ overran' = (overran \/ clock > run[r].deadline.timestamp)

Left(r, x) ==
    /\ InSection(r) /\ x = Idle
    /\ lock' = NoLock /\ overran' = overran

\* Every step of a run is one of the three.
LEMMA StepMeaning ==
    ASSUME TypeOK, NEW r \in Runs, Step(r)
    PROVE  \E x : /\ run' = [run EXCEPT ![r] = x] /\ clock' = clock
                  /\ Quiet(r, x) \/ Granted(r, x) \/ Left(r, x)
<1> DEFINE Goal == \E x : /\ run' = [run EXCEPT ![r] = x] /\ clock' = clock
                          /\ Quiet(r, x) \/ Granted(r, x) \/ Left(r, x)
<1>1. run[r] \in RunState
  BY DEF TypeOK
<1>2. ASSUME NEW pc, Goto(r, pc), InSection(r) <=> pc \in SectionPC, pc # "cas",
             UNCHANGED <<clock, lock, overran>>
      PROVE  Goal
  <2> DEFINE x == [run[r] EXCEPT !.pc = pc]
  <2>1. run' = [run EXCEPT ![r] = x] /\ x.pc = pc /\ x.deadline = run[r].deadline
    BY <1>1, <1>2 DEF Goto, RunState
  <2>2. Quiet(r, x)
    BY <1>2, <2>1 DEF Quiet
  <2> QED
    BY <1>2, <2>1, <2>2
<1>3. ASSUME Return(r), ~ InSection(r), UNCHANGED <<clock, lock, overran>>
      PROVE  Goal
  <2>1. Quiet(r, Idle)
    BY <1>3, IdleType DEF Quiet, SectionPC
  <2> QED
    BY <1>3, <2>1 DEF Return
<1>4. CASE offchain_worker(r)
  <2> DEFINE x == [Idle EXCEPT !.pc = "check", !.at = best]
  <2>1. x.pc = "check" /\ ~ InSection(r)
    BY <1>4 DEF offchain_worker, InSection, Idle
  <2>2. run' = [run EXCEPT ![r] = x] /\ UNCHANGED <<clock, lock, overran>>
    BY <1>4 DEF offchain_worker
  <2>3. Quiet(r, x)
    BY <2>1, <2>2 DEF Quiet, SectionPC
  <2> QED
    BY <2>2, <2>3
<1>5. CASE CheckCache(r)
  BY <1>2, <1>3, <1>5 DEF CheckCache, InSection, SectionPC
<1>6. CASE LockRead(r)
  <2>1. run[r].pc = "lock" /\ ~ InSection(r) /\ UNCHANGED <<clock, lock, overran>>
    BY <1>6 DEF LockRead, InSection
  <2>2. CASE lock # NoLock /\ ~ has_expired(lock, run[r].at)
    BY <1>3, <1>6, <2>1, <2>2 DEF LockRead
  <2>3. CASE lock = NoLock \/ has_expired(lock, run[r].at)
    <3> DEFINE x == [run[r] EXCEPT !.pc = "cas", !.seen = lock, !.deadline = NewDeadline(r)]
    <3>1. run' = [run EXCEPT ![r] = x]
      BY <1>6, <2>3 DEF LockRead
    <3>2. x.pc = "cas" /\ x.deadline = NewDeadline(r)
      BY <1>1 DEF RunState
    <3>3. NewDeadline(r).timestamp = clock + LockTimeout
      BY DEF NewDeadline
    <3>4. clock + LockTimeout <= clock + LockTimeout
      BY RemoteInfoAssumption DEF TypeOK
    <3>5. Quiet(r, x)
      BY <2>1, <3>2, <3>3, <3>4 DEF Quiet, SectionPC
    <3> QED
      BY <2>1, <3>1, <3>5
  <2> QED
    BY <2>2, <2>3
<1>7. CASE LockCas(r)
  <2>1. CASE lock # run[r].seen
    BY <1>3, <1>7, <2>1 DEF LockCas, InSection
  <2>2. CASE lock = run[r].seen
    <3> DEFINE x == [run[r] EXCEPT !.pc = "send"]
    <3>1. run' = [run EXCEPT ![r] = x] /\ x.pc = "send" /\ x.deadline = run[r].deadline
      BY <1>1, <1>7, <2>2 DEF LockCas, Goto, RunState
    <3>2. Granted(r, x) /\ clock' = clock
      BY <1>7, <2>2, <3>1 DEF LockCas, Granted
    <3> QED
      BY <3>1, <3>2
  <2> QED
    BY <2>1, <2>2
<1>8. CASE SendRequest(r)
  <2>1. run[r].pc = "send" /\ InSection(r) /\ UNCHANGED <<clock, lock, overran>>
    BY <1>8 DEF SendRequest, InSection
  <2>2. CASE Goto(r, "unlock")
    BY <1>2, <2>1, <2>2 DEF SectionPC
  <2>3. CASE run' = [run EXCEPT ![r].pc = "wait", ![r].timeout = clock + FetchTimeout]
    <3> DEFINE x == [run[r] EXCEPT !.pc = "wait", !.timeout = clock + FetchTimeout]
    <3>1. run' = [run EXCEPT ![r] = x]
      BY <2>3
    <3>2. x.pc = "wait" /\ x.deadline = run[r].deadline
      BY <1>1 DEF RunState
    <3>3. Quiet(r, x)
      BY <2>1, <3>2 DEF Quiet, SectionPC
    <3> QED
      BY <2>1, <3>1, <3>3
  <2> QED
    BY <1>8, <2>2, <2>3 DEF SendRequest
<1>9. CASE Answer(r) \/ DeadlineReached(r) \/ ReadBody(r) \/ Store(r)
  <2>1. /\ run[r].pc \in {"wait", "body", "store"}
        /\ Goto(r, "body") \/ Goto(r, "store") \/ Goto(r, "unlock")
        /\ UNCHANGED <<clock, lock, overran>>
    BY <1>9 DEF Answer, DeadlineReached, ReadBody, Store
  <2> QED
    BY <1>2, <2>1 DEF InSection, SectionPC
<1>10. CASE Unlock(r)
  <2>1. Left(r, Idle) /\ run' = [run EXCEPT ![r] = Idle] /\ clock' = clock
    BY <1>10 DEF Unlock, Return, Left, InSection
  <2> QED
    BY <2>1
<1> QED
  BY <1>4, <1>5, <1>6, <1>7, <1>8, <1>9, <1>10 DEF Step

\* Deadlines stay near.
LEMMA NearNext == TypeOK /\ DeadlineNear /\ [Next]_vars => DeadlineNear'
<1> SUFFICES ASSUME TypeOK, DeadlineNear, [Next]_vars
             PROVE  DeadlineNear'
  OBVIOUS
<1>1. ASSUME NEW r \in Runs, Step(r)
      PROVE  DeadlineNear'
  <2>1. PICK x : /\ run' = [run EXCEPT ![r] = x] /\ clock' = clock
                 /\ Quiet(r, x) \/ Granted(r, x) \/ Left(r, x)
    BY <1>1, StepMeaning
  <2>2. run'[r] = x /\ \A q \in Runs : q # r => run'[q] = run[q]
    BY <2>1 DEF TypeOK
  <2>3. x.pc = "cas" => x.deadline.timestamp <= clock + LockTimeout
    BY <2>1, IdleType DEF Quiet, Granted, Left
  <2> QED
    BY <2>1, <2>2, <2>3 DEF DeadlineNear
<1>2. CASE Tick
  <2> SUFFICES ASSUME NEW r \in Runs, run[r].pc = "cas"
               PROVE  run[r].deadline.timestamp <= (clock + 1) + LockTimeout
    BY <1>2 DEF DeadlineNear, Tick
  <2>1. run[r].deadline.timestamp <= clock + LockTimeout
    BY DEF DeadlineNear
  <2>2. run[r].deadline.timestamp \in Nat /\ clock \in Nat /\ LockTimeout \in Nat
    BY RunType, RemoteInfoAssumption DEF TypeOK
  <2> QED
    BY <2>1, <2>2
<1>3. CASE NewBlock
  BY <1>3 DEF NewBlock, DeadlineNear
<1>4. CASE Restart
  BY <1>4, IdleType DEF Restart, DeadlineNear
<1>5. CASE UNCHANGED vars
  BY <1>5 DEF vars, DeadlineNear
<1> QED
  BY <1>1, <1>2, <1>3, <1>4, <1>5 DEF Next

\* The lease as the lock and the runs show it.
Entry(l) == IF l = NoLock THEN {} ELSE {l.timestamp}

Until == [r \in Runs |-> IF InSection(r) THEN {run[r].deadline.timestamp} ELSE {}]

\* A step of a run grants the lease, gives it up, or does not touch it.
LEMMA LeaseStep ==
    ASSUME Inv, DeadlineNear, NEW r \in Runs, Step(r)
    PROVE  [Lock!Next]_(Lock!leaseVars)
<1>1. TypeOK
  BY DEF Inv
<1>2. PICK x : /\ run' = [run EXCEPT ![r] = x] /\ clock' = clock
               /\ Quiet(r, x) \/ Granted(r, x) \/ Left(r, x)
  BY <1>1, StepMeaning
<1>3. run'[r] = x /\ \A q \in Runs : q # r => run'[q] = run[q]
  BY <1>1, <1>2 DEF TypeOK
<1>4. \A q \in Runs : q # r => Until'[q] = Until[q]
  BY <1>3 DEF Until, InSection
<1>5. Until'[r] = IF x.pc \in SectionPC THEN {x.deadline.timestamp} ELSE {}
  BY <1>3 DEF Until, InSection, SectionPC
<1>6. Until \in [Runs -> {Until[q] : q \in Runs}] /\ DOMAIN Until' = Runs
  BY DEF Until
<1>7. CASE Quiet(r, x)
  <2>1. Until'[r] = Until[r]
    BY <1>5, <1>7 DEF Quiet, Until
  <2>2. Until' = Until
    BY <1>4, <2>1 DEF Until
  <2> QED
    BY <1>2, <1>7, <2>2 DEF Quiet, Lock!leaseVars, Until
<1>8. CASE Granted(r, x)
  <2>0. PICK d : d = run[r].deadline.timestamp
    OBVIOUS
  <2>1. d \in 0 .. (clock + LockTimeout)
    BY <1>1, <1>8, <2>0, RunType, RemoteInfoAssumption DEF Granted, DeadlineNear, TypeOK
  <2>2. Until[r] = {}
    BY <1>8 DEF Granted, Until, InSection
  <2>3. \A e \in Entry(lock) : e < clock
    <3>1. lock # NoLock => clock > lock.timestamp
      BY <1>8 DEF Granted, Inv, SeenExpired
    <3>2. lock # NoLock => lock.timestamp \in Nat /\ clock \in Nat
      BY <1>1 DEF TypeOK, Deadline
    <3> QED
      BY <3>1, <3>2 DEF Entry
  <2>4. lock' # NoLock /\ Entry(lock') = {d}
    BY <1>1, <1>8, <2>0, RunType DEF Granted, Entry
  <2>5. Until' = [Until EXCEPT ![r] = {d}]
    <3>1. Until'[r] = {d}
      BY <1>5, <1>8, <2>0 DEF Granted, SectionPC
    <3> QED
      BY <1>4, <3>1 DEF Until
  <2>6. overran' = (overran \/ d < clock)
    <3>1. clock > d <=> d < clock
      BY <1>1, <2>0, RunType DEF TypeOK
    <3> QED
      BY <1>8, <2>0, <3>1 DEF Granted
  <2>7. Lock!Grant(r, d)
    BY <1>2, <2>2, <2>3, <2>4, <2>5, <2>6 DEF Lock!Grant, Entry, Until
  <2> QED
    BY <2>1, <2>7 DEF Lock!Next
<1>9. CASE Left(r, x)
  <2>1. Until[r] # {}
    BY <1>9 DEF Left, Until
  <2>2. Until'[r] = {}
    BY <1>5, <1>9, IdleType DEF Left, SectionPC
  <2>3. Until' = [Until EXCEPT ![r] = {}]
    BY <1>4, <2>2 DEF Until
  <2>4. Lock!Leave(r)
    BY <1>2, <1>9, <2>1, <2>3 DEF Left, Lock!Leave, Until
  <2> QED
    BY <2>4 DEF Lock!Next
<1> QED
  BY <1>2, <1>7, <1>8, <1>9

\* try_lock, the guard and the clock implement Lease, for any number of runs
\* and any delay between the read and the compare-and-set.
THEOREM LeaseImplemented == Spec => LeaseSpec
<1>1. Init => DeadlineNear /\ Lock!Init
  <2> SUFFICES ASSUME Init
               PROVE  DeadlineNear /\ Lock!Init
    OBVIOUS
  <2>1. \A r \in Runs : run[r].pc = "idle" /\ ~ InSection(r)
    BY IdleType DEF Init, InSection
  <2> QED
    BY <2>1 DEF Init, DeadlineNear, Lock!Init
<1>2. Inv /\ DeadlineNear /\ [Next]_vars => [Lock!Next]_(Lock!leaseVars)
  <2> SUFFICES ASSUME Inv, DeadlineNear, [Next]_vars
               PROVE  [Lock!Next]_(Lock!leaseVars)
    OBVIOUS
  <2>1. CASE Tick
    <3>1. /\ clock' = clock + 1 /\ lock' = lock /\ run' = run
          /\ overran' = (overran \/ \E r \in Runs :
                            InSection(r) /\ clock + 1 > run[r].deadline.timestamp)
      BY <2>1 DEF Tick
    <3>2. \A r \in Runs : clock + 1 > run[r].deadline.timestamp
                          <=> run[r].deadline.timestamp < clock + 1
      BY RunType DEF Inv, TypeOK
    <3>3. (\E r \in Runs : InSection(r) /\ clock + 1 > run[r].deadline.timestamp)
            <=> \E r \in Runs : \E d \in Until[r] : d < clock + 1
      BY <3>2 DEF Until
    <3>4. Until' = Until
      BY <3>1 DEF Until, InSection
    <3>5. overran' = (overran \/ \E r \in Runs : \E d \in Until[r] : d < clock + 1)
      BY <3>1, <3>3
    <3>6. Lock!Wait
      BY <3>1, <3>4, <3>5 DEF Lock!Wait, Until
    <3> QED
      BY <3>6 DEF Lock!Next
  <2>2. CASE NewBlock \/ UNCHANGED vars
    <3>1. UNCHANGED <<clock, lock, run, overran>>
      BY <2>2 DEF NewBlock, vars
    <3>2. Until' = Until
      BY <3>1 DEF Until, InSection
    <3> QED
      BY <3>1, <3>2 DEF Lock!leaseVars, Until
  <2>3. CASE Restart
    <3>1. UNCHANGED <<clock, lock, overran>> /\ \A r \in Runs : ~ InSection(r)'
      BY <2>3, IdleType DEF Restart, InSection
    <3>2. Until' = [r \in Runs |-> {}]
      BY <3>1 DEF Until
    <3>3. Lock!Vanish
      BY <3>1, <3>2 DEF Lock!Vanish, Until
    <3> QED
      BY <3>3 DEF Lock!Next
  <2> QED
    BY <2>1, <2>2, <2>3, LeaseStep DEF Next
<1>3. Inv => TypeOK
  BY DEF Inv
<1> QED
  BY <1>1, <1>2, <1>3, NearNext, Invariance, PTL DEF Spec, LeaseSpec, Lock!Spec

-----------------------------------------------------------------------------
(* PromptSpec: with the pallet's margin no holder outlives its deadline.     *)

\* Where a run's deadlines lie, at time c.
TimelyRun(x, c) ==
    /\ x.pc \in {"cas", "send"} => x.deadline.timestamp = c + LockTimeout
    /\ x.pc \in {"wait", "body"} =>
          x.deadline.timestamp + FetchTimeout = x.timeout + LockTimeout
    /\ x.pc = "wait" => c <= x.timeout
    /\ x.pc = "body" => c <= x.timeout + BodySlack
    /\ x.pc \in {"store", "unlock"} => c <= x.deadline.timestamp

Timely == ~ overran /\ \A r \in Runs : TimelyRun(run[r], clock)

\* A run that has not started is on time.
LEMMA IdleTimely == ASSUME NEW c PROVE TimelyRun(Idle, c)
BY IdleType DEF TimelyRun

\* One run moves, in time.
LEMMA MoveTimely ==
    ASSUME TypeOK, Timely, NEW r \in Runs, NEW x,
           run' = [run EXCEPT ![r] = x], TimelyRun(x, clock),
           clock' = clock, overran' = overran
    PROVE  Timely'
<1>1. run'[r] = x /\ \A s \in Runs : s # r => run'[s] = run[s]
  BY DEF TypeOK
<1>2. \A s \in Runs : TimelyRun(run'[s], clock')
  BY <1>1 DEF Timely
<1> QED
  BY <1>2 DEF Timely

\* A step of a prompt run keeps it on time.
LEMMA TimelyStep ==
    ASSUME FetchTimeout + BodySlack <= LockTimeout,
           TypeOK, Timely, NEW r \in Runs, Step(r)
    PROVE  Timely'
<1> USE RemoteInfoAssumption
<1>0. /\ TimelyRun(run[r], clock) /\ run[r] \in RunState /\ clock \in Nat
      /\ run[r].timeout \in Nat /\ run[r].deadline.timestamp \in Nat
  BY RunType DEF Timely, TypeOK
<1>1. ASSUME Return(r), clock' = clock, overran' = overran PROVE Timely'
  BY <1>1, IdleTimely, MoveTimely DEF Return
<1>2. ASSUME NEW pc, Goto(r, pc), clock' = clock, overran' = overran,
             TimelyRun([run[r] EXCEPT !.pc = pc], clock)
      PROVE  Timely'
  BY <1>2, MoveTimely DEF Goto
<1>3. CASE offchain_worker(r)
  <2> DEFINE x == [Idle EXCEPT !.pc = "check", !.at = best]
  <2>1. x.pc = "check"
    BY IdleType DEF RunState
  <2> QED
    BY <1>3, <2>1, MoveTimely DEF offchain_worker, TimelyRun
<1>4. CASE CheckCache(r)
  <2>1. TimelyRun([run[r] EXCEPT !.pc = "lock"], clock)
    BY <1>0 DEF TimelyRun, RunState
  <2> QED
    BY <1>1, <1>2, <1>4, <2>1 DEF CheckCache
<1>5. CASE LockRead(r)
  <2> DEFINE x == [run[r] EXCEPT !.pc = "cas", !.seen = lock, !.deadline = NewDeadline(r)]
  <2>1. x.pc = "cas" /\ x.deadline.timestamp = clock + LockTimeout
    BY <1>0 DEF RunState, NewDeadline
  <2>2. TimelyRun(x, clock)
    BY <2>1 DEF TimelyRun
  <2>3. clock' = clock /\ overran' = overran /\ (Return(r) \/ run' = [run EXCEPT ![r] = x])
    BY <1>5 DEF LockRead
  <2> QED
    BY <1>1, <2>2, <2>3, MoveTimely
<1>6. CASE LockCas(r)
  <2>1. run[r].deadline.timestamp = clock + LockTimeout
    BY <1>0, <1>6 DEF LockCas, TimelyRun
  <2>2. TimelyRun([run[r] EXCEPT !.pc = "send"], clock)
    BY <1>0, <2>1 DEF TimelyRun, RunState
  <2>3. ~ (clock > run[r].deadline.timestamp) /\ ~ overran
    BY <1>0, <2>1 DEF Timely
  <2>4. /\ clock' = clock
        /\ \/ Goto(r, "send") /\ ~ overran'
           \/ Return(r) /\ overran' = overran
    BY <1>6, <2>3 DEF LockCas
  <2>5. CASE Goto(r, "send") /\ ~ overran'
    <3> DEFINE x == [run[r] EXCEPT !.pc = "send"]
    <3>1. run'[r] = x /\ \A s \in Runs : s # r => run'[s] = run[s]
      BY <2>5 DEF Goto, TypeOK
    <3>2. \A s \in Runs : TimelyRun(run'[s], clock')
      BY <2>2, <2>4, <3>1 DEF Timely
    <3> QED
      BY <2>5, <3>2 DEF Timely
  <2> QED
    BY <1>1, <2>4, <2>5
<1>7. CASE SendRequest(r)
  <2> DEFINE x == [run[r] EXCEPT !.pc = "wait", !.timeout = clock + FetchTimeout]
  <2>1. run[r].deadline.timestamp = clock + LockTimeout
    BY <1>0, <1>7 DEF SendRequest, TimelyRun
  <2>2. /\ x.pc = "wait" /\ x.timeout = clock + FetchTimeout
        /\ x.deadline.timestamp = clock + LockTimeout
    BY <1>0, <2>1 DEF RunState
  <2>3. TimelyRun(x, clock)
    BY <1>0, <2>2 DEF TimelyRun
  <2>4. TimelyRun([run[r] EXCEPT !.pc = "unlock"], clock)
    BY <1>0, <2>1 DEF TimelyRun, RunState
  <2>5. clock' = clock /\ overran' = overran
        /\ (Goto(r, "unlock") \/ run' = [run EXCEPT ![r] = x])
    BY <1>7 DEF SendRequest
  <2> QED
    BY <1>2, <2>3, <2>4, <2>5, MoveTimely
<1>8. CASE Answer(r) \/ DeadlineReached(r)
  <2>1. /\ run[r].pc = "wait" /\ clock <= run[r].timeout
        /\ run[r].deadline.timestamp + FetchTimeout = run[r].timeout + LockTimeout
    BY <1>0, <1>8 DEF Answer, DeadlineReached, TimelyRun
  <2>2. clock <= run[r].timeout + BodySlack /\ clock <= run[r].deadline.timestamp
    BY <1>0, <2>1
  <2>3. TimelyRun([run[r] EXCEPT !.pc = "body"], clock)
    BY <1>0, <2>1, <2>2 DEF TimelyRun, RunState
  <2>4. TimelyRun([run[r] EXCEPT !.pc = "unlock"], clock)
    BY <1>0, <2>2 DEF TimelyRun, RunState
  <2>5. clock' = clock /\ overran' = overran /\ (Goto(r, "body") \/ Goto(r, "unlock"))
    BY <1>8 DEF Answer, DeadlineReached
  <2> QED
    BY <1>2, <2>3, <2>4, <2>5
<1>9. CASE ReadBody(r) \/ Store(r)
  <2>1. clock <= run[r].deadline.timestamp
    <3>1. CASE ReadBody(r)
      BY <1>0, <3>1 DEF ReadBody, TimelyRun
    <3>2. CASE Store(r)
      BY <1>0, <3>2 DEF Store, TimelyRun
    <3> QED
      BY <1>9, <3>1, <3>2
  <2>2. /\ TimelyRun([run[r] EXCEPT !.pc = "store"], clock)
        /\ TimelyRun([run[r] EXCEPT !.pc = "unlock"], clock)
    BY <1>0, <2>1 DEF TimelyRun, RunState
  <2>3. clock' = clock /\ overran' = overran /\ (Goto(r, "store") \/ Goto(r, "unlock"))
    BY <1>9 DEF ReadBody, Store
  <2> QED
    BY <1>2, <2>2, <2>3
<1>10. CASE Unlock(r)
  BY <1>1, <1>10 DEF Unlock
<1> QED
  BY <1>3, <1>4, <1>5, <1>6, <1>7, <1>8, <1>9, <1>10 DEF Step

\* The clock of PromptSpec never lets a run fall behind.
LEMMA TimelyTick ==
    ASSUME FetchTimeout + BodySlack <= LockTimeout, TypeOK, Timely, PromptTick
    PROVE  Timely'
<1> USE RemoteInfoAssumption
<1>1. clock' = clock + 1 /\ run' = run
  BY DEF PromptTick, Tick
<1>2. ASSUME NEW r \in Runs
      PROVE  /\ TimelyRun(run[r], clock + 1)
             /\ InSection(r) => clock + 1 <= run[r].deadline.timestamp
  <2>1. /\ TimelyRun(run[r], clock) /\ clock \in Nat
        /\ run[r].timeout \in Nat /\ run[r].deadline.timestamp \in Nat
    BY RunType DEF Timely, TypeOK
  <2>2. CASE run[r].pc = "idle"
    BY <2>2 DEF TimelyRun, InSection
  <2>3. CASE run[r].pc = "wait" /\ clock < run[r].timeout
    BY <2>1, <2>3 DEF TimelyRun
  <2>4. CASE run[r].pc = "body" /\ clock < run[r].timeout + BodySlack
    BY <2>1, <2>4 DEF TimelyRun
  <2> QED
    BY <2>2, <2>3, <2>4 DEF PromptTick
<1>3. ASSUME NEW r \in Runs, InSection(r), clock + 1 > run[r].deadline.timestamp PROVE FALSE
  <2>1. clock \in Nat /\ run[r].deadline.timestamp \in Nat
    BY RunType DEF TypeOK
  <2> QED
    BY <1>2, <1>3, <2>1
<1>4. ~ overran'
  BY <1>3 DEF PromptTick, Tick, Timely
<1> QED
  BY <1>1, <1>2, <1>4 DEF Timely

\* If local steps take no time and a response body is complete BodySlack
\* after the request's timeout at the latest, then a lock that outlasts the
\* timeout by BodySlack makes fetches exclusive: restarts, skipped blocks and
\* blocks run twice included.
THEOREM MarginSuffices ==
    ASSUME FetchTimeout + BodySlack <= LockTimeout
    PROVE  PromptSpec => []Exclusive
<1>1. Init => Inv /\ Timely
  <2>1. Init => Timely
    BY IdleTimely DEF Init, Timely
  <2> QED
    BY <2>1, InitInv
<1>2. Inv /\ Timely /\ [PromptNext]_vars => (Inv /\ Timely)'
  <2> SUFFICES ASSUME Inv, Timely, [PromptNext]_vars PROVE Inv' /\ Timely'
    OBVIOUS
  <2>1. Inv'
    <3>1. [Next]_vars
      BY DEF PromptNext, PromptTick, Next
    <3> QED
      BY <3>1, NextInv
  <2>2. TypeOK
    BY DEF Inv
  <2>3. ASSUME UNCHANGED <<clock, run, overran>> PROVE Timely'
    BY <2>3 DEF Timely
  <2>4. CASE Restart
    BY <2>1, <2>4, IdleTimely DEF Restart, Timely
  <2>5. CASE NewBlock
    BY <2>1, <2>3, <2>5 DEF NewBlock
  <2>6. CASE UNCHANGED vars
    BY <2>1, <2>3, <2>6 DEF vars
  <2>7. CASE PromptTick
    BY <2>1, <2>2, <2>7, TimelyTick
  <2>8. ASSUME NEW r \in Runs, Step(r) PROVE Timely'
    BY <2>2, <2>8, TimelyStep
  <2> QED
    BY <2>1, <2>4, <2>5, <2>6, <2>7, <2>8 DEF PromptNext
<1>3. Inv /\ Timely => Exclusive
  BY DEF Inv, Timely, MutualExclusion, Exclusive
<1> QED
  BY <1>1, <1>2, <1>3, PTL DEF PromptSpec
=============================================================================
