----------------------------- MODULE RemoteInfo -----------------------------
(***************************************************************************)
(* fetch_remote_info of pallets/ocw on one node: concurrent off-chain      *)
(* worker runs share a persistent cache entry and a persistent lock that   *)
(* expires by block AND by time.  Each run goes, step by step and          *)
(* interleaved with the others, through                                    *)
(*                                                                         *)
(*   check -> lock -> cas -> send -> wait -> body -> store -> unlock       *)
(*                                                                         *)
(* with the early returns of the code.  From "send" to "unlock" the run    *)
(* holds the guard of try_lock (the critical section).                     *)
(***************************************************************************)
EXTENDS Integers, FiniteSets

CONSTANTS
    Runs,           \* slots for concurrently executing worker runs
    NoLock,         \* the lock entry is absent from local storage
    TxTypes,        \* TX_TYPES
    FetchTimeout,   \* FETCH_TIMEOUT_PERIOD
    LockTimeout,    \* LOCK_TIMEOUT_EXPIRATION
    LockBlocks,     \* LOCK_BLOCK_EXPIRATION
    BodySlack,      \* PromptSpec only: longest body read beyond the timeout
    MaxClock,       \* bound: no run starts, idle time stops
    MaxBlock        \* bound: last block imported

Deadline == [timestamp : Nat, block : Nat]

ASSUME RemoteInfoAssumption ==
    /\ NoLock \notin Deadline
    /\ TxTypes \in Nat \ {0}
    /\ FetchTimeout \in Nat
    /\ LockTimeout \in Nat
    /\ LockBlocks \in Nat
    /\ BodySlack \in Nat
    /\ MaxClock \in Nat
    /\ MaxBlock \in Nat

VARIABLES
    clock,          \* sp_io::offchain::timestamp()
    best,           \* number of the best block imported
    cached,         \* local storage offchain-demo::hn-info is present
    lock,           \* local storage offchain-demo::lock
    run,            \* the runs in progress
    overran,        \* history: a holder was still busy after its deadline
    crashed         \* history: the node was killed at least once

vars == <<clock, best, cached, lock, run, overran, crashed>>

PC == {"idle", "check", "lock", "cas", "send", "wait", "body", "store", "unlock"}

RunState ==
    [pc : PC,
     at : Nat,                          \* block whose state the run sees
     deadline : Deadline,               \* deadline try_lock wants to write
     seen : Deadline \cup {NoLock},     \* lock value mutate read
     timeout : Nat]                     \* deadline of the HTTP request

Idle == [pc |-> "idle", at |-> 0, deadline |-> [timestamp |-> 0, block |-> 0],
         seen |-> NoLock, timeout |-> 0]

InSection(r) == run[r].pc \in {"send", "wait", "body", "store", "unlock"}

Goto(r, pc) == run' = [run EXCEPT ![r].pc = pc]
Return(r)   == run' = [run EXCEPT ![r] = Idle]

-----------------------------------------------------------------------------
(* External: StorageLock<BlockAndTime<Self>>.  current_block_number() is   *)
(* the block whose state the run executes on.                              *)

\* Slip: either limit is enough.
has_expired_either(dl, at) == clock > dl.timestamp \/ at > dl.block

has_expired(dl, at) == clock > dl.timestamp /\ at > dl.block

\* Slip: the lock lasts as long as the request may, with no margin.
NewDeadline_no_margin(r) ==
    [timestamp |-> clock + FetchTimeout, block |-> run[r].at + LockBlocks]

\* Slip: sub instead of add.
NewDeadline_sub(r) ==
    [timestamp |-> clock - LockTimeout, block |-> run[r].at + LockBlocks]

\* Slip: the block at which the lock ends, where the number of blocks it lasts
\* is asked for.
NewDeadline_absolute(r) ==
    [timestamp |-> clock + LockTimeout, block |-> run[r].at + (run[r].at + LockBlocks)]

NewDeadline(r) ==
    [timestamp |-> clock + LockTimeout, block |-> run[r].at + LockBlocks]

-----------------------------------------------------------------------------
Init ==
    /\ clock = 0
    /\ best = 0
    /\ cached = FALSE
    /\ lock = NoLock
    /\ run = [r \in Runs |-> Idle]
    /\ overran = FALSE
    /\ crashed = FALSE

\* offchain_worker on an imported block that maps to fetch_remote_info.  A
\* block may be skipped, or run twice.
offchain_worker(r) ==
    /\ run[r].pc = "idle"
    /\ best % TxTypes = 3 % TxTypes
    /\ clock < MaxClock
    /\ run' = [run EXCEPT ![r] = [Idle EXCEPT !.pc = "check", !.at = best]]
    /\ UNCHANGED <<clock, best, cached, lock, overran, crashed>>

\* if let Ok(Some(info)) = s_info.get() { return }
CheckCache(r) ==
    /\ run[r].pc = "check"
    /\ IF cached THEN Return(r) ELSE Goto(r, "lock")
    /\ UNCHANGED <<clock, best, cached, lock, overran, crashed>>

\* try_lock, first half: compute the new deadline, read the entry, give up
\* if it is there and has not expired.
LockRead(r) ==
    /\ run[r].pc = "lock"
    /\ IF lock # NoLock /\ ~ has_expired(lock, run[r].at)
       THEN Return(r)
       ELSE run' = [run EXCEPT ![r].pc = "cas", ![r].seen = lock,
                               ![r].deadline = NewDeadline(r)]
    /\ UNCHANGED <<clock, best, cached, lock, overran, crashed>>

\* Slip: set instead of compare_and_set.
LockSet(r) ==
    /\ run[r].pc = "cas"
    /\ lock' = run[r].deadline
    /\ overran' = (overran \/ clock > run[r].deadline.timestamp)
    /\ Goto(r, "send")
    /\ UNCHANGED <<clock, best, cached, crashed>>

\* try_lock, second half: compare_and_set fails if the entry changed since.
LockCas(r) ==
    /\ run[r].pc = "cas"
    /\ \/ /\ lock = run[r].seen
          /\ lock' = run[r].deadline
          /\ overran' = (overran \/ clock > run[r].deadline.timestamp)
          /\ Goto(r, "send")
       \/ /\ lock # run[r].seen
          /\ Return(r)
          /\ UNCHANGED <<lock, overran>>
    /\ UNCHANGED <<clock, best, cached, crashed>>

\* The timeout is fixed, then the request is sent or refused by the host.
SendRequest(r) ==
    /\ run[r].pc = "send"
    /\ \/ run' = [run EXCEPT ![r].pc = "wait", ![r].timeout = clock + FetchTimeout]
       \/ Goto(r, "unlock")
    /\ UNCHANGED <<clock, best, cached, lock, overran, crashed>>

\* try_wait: an answer in time with status 200, or an I/O error or another
\* status.
Answer(r) ==
    /\ run[r].pc = "wait"
    /\ clock <= run[r].timeout
    /\ \/ Goto(r, "body")
       \/ Goto(r, "unlock")
    /\ UNCHANGED <<clock, best, cached, lock, overran, crashed>>

\* Slip: wait() instead of try_wait(timeout).
DeadlineIgnored(r) ==
    /\ run[r].pc = "wait"
    /\ FALSE
    /\ UNCHANGED vars

\* Slip: the error return forgets the guard.
DeadlineLeaksGuard(r) ==
    /\ run[r].pc = "wait"
    /\ clock >= run[r].timeout
    /\ Return(r)
    /\ UNCHANGED <<clock, best, cached, lock, overran, crashed>>

\* try_wait: the deadline is reached.
DeadlineReached(r) ==
    /\ run[r].pc = "wait"
    /\ clock >= run[r].timeout
    /\ Goto(r, "unlock")
    /\ UNCHANGED <<clock, best, cached, lock, overran, crashed>>

\* response.body().collect(), which has no deadline, then from_utf8 and
\* from_str, either of which may refuse what was read.
ReadBody(r) ==
    /\ run[r].pc = "body"
    /\ \/ Goto(r, "store")
       \/ Goto(r, "unlock")
    /\ UNCHANGED <<clock, best, cached, lock, overran, crashed>>

\* s_info.set(&info)
Store(r) ==
    /\ run[r].pc = "store"
    /\ cached' = TRUE
    /\ Goto(r, "unlock")
    /\ UNCHANGED <<clock, best, lock, overran, crashed>>

\* The guard is dropped, on the success path and on every early return: the
\* entry is cleared, whatever it holds.
Unlock(r) ==
    /\ run[r].pc = "unlock"
    /\ lock' = NoLock
    /\ Return(r)
    /\ UNCHANGED <<clock, best, cached, overran, crashed>>

-----------------------------------------------------------------------------
(* Environment. *)

\* Time passes.  The bound lets a pending request still reach its timeout.
Tick ==
    /\ clock < MaxClock \/ \E r \in Runs : run[r].pc = "wait" /\ clock < run[r].timeout
    /\ clock' = clock + 1
    /\ overran' = (overran \/ \E r \in Runs :
                      InSection(r) /\ clock + 1 > run[r].deadline.timestamp)
    /\ UNCHANGED <<best, cached, lock, run, crashed>>

NewBlock ==
    /\ best < MaxBlock
    /\ best' = best + 1
    /\ UNCHANGED <<clock, cached, lock, run, overran, crashed>>

\* The node process dies and is started again: the runs are gone, local
\* storage persists.
Restart ==
    /\ run' = [r \in Runs |-> Idle]
    /\ crashed' = TRUE
    /\ UNCHANGED <<clock, best, cached, lock, overran>>

Step(r) ==
    \/ offchain_worker(r)
    \/ CheckCache(r)
    \/ LockRead(r)
    \/ LockCas(r)
    \/ SendRequest(r)
    \/ Answer(r)
    \/ DeadlineReached(r)
    \/ ReadBody(r)
    \/ Store(r)
    \/ Unlock(r)

Next ==
    \/ \E r \in Runs : Step(r)
    \/ Tick
    \/ NewBlock
    \/ Restart

\* A run that can execute goes on executing, time passes.  Nothing is
\* assumed of the remote server: no fairness for Answer or ReadBody.
Fairness ==
    /\ WF_vars(Tick)
    /\ \A r \in Runs :
          /\ WF_vars(CheckCache(r))
          /\ WF_vars(LockRead(r))
          /\ WF_vars(LockCas(r))
          /\ WF_vars(SendRequest(r))
          /\ WF_vars(DeadlineReached(r))
          /\ WF_vars(Store(r))
          /\ WF_vars(Unlock(r))

Spec == Init /\ [][Next]_vars /\ Fairness

\* The timing the constants of the pallet are made for: local steps take no
\* time, the host ends a wait at its timeout, and a body is complete at most
\* BodySlack after it.
PromptTick ==
    /\ \A r \in Runs :
          \/ run[r].pc = "idle"
          \/ run[r].pc = "wait" /\ clock < run[r].timeout
          \/ run[r].pc = "body" /\ clock < run[r].timeout + BodySlack
    /\ Tick

PromptNext ==
    \/ \E r \in Runs : Step(r)
    \/ PromptTick
    \/ NewBlock
    \/ Restart

PromptSpec == Init /\ [][PromptNext]_vars

-----------------------------------------------------------------------------
(* Properties. *)

\* Clock, block, storage entries and run records keep their types.
TypeOK ==
    /\ clock \in Nat
    /\ best \in 0 .. MaxBlock
    /\ cached \in BOOLEAN
    /\ lock \in Deadline \cup {NoLock}
    /\ run \in [Runs -> RunState]
    /\ overran \in BOOLEAN
    /\ crashed \in BOOLEAN

\* As long as no holder has outlived its deadline, at most one run is inside
\* the section that try_lock guards in fetch_remote_info.
MutualExclusion ==
    ~ overran => \A r, s \in Runs : InSection(r) /\ InSection(s) => r = s

\* ... and the entry that Unlock will clear is the holder's own.
HolderOwnsLock ==
    ~ overran => \A r \in Runs : InSection(r) => lock = run[r].deadline

\* A lock entry always has a living holder, so the guard is dropped on every
\* early return of fetch_n_parse, unless the node was killed.
LockHasHolder ==
    lock # NoLock /\ ~ crashed =>
        \E r \in Runs : InSection(r) /\ run[r].deadline = lock

\* Whoever made the entry, and whether it crashed, is stuck reading a body or
\* is slow between the read and the compare-and-set of try_lock: it keeps the
\* others out for at most LOCK_TIMEOUT_EXPIRATION and LOCK_BLOCK_EXPIRATION
\* from now.
LockExpires ==
    lock # NoLock =>
        /\ lock.timestamp <= clock + LockTimeout
        /\ lock.block <= best + LockBlocks

\* The lock entry and the holders' deadlines as a lease.
Lock == INSTANCE Lease WITH
    Holders <- Runs, Length <- LockTimeout, now <- clock,
    entry <- IF lock = NoLock THEN {} ELSE {lock.timestamp},
    until <- [r \in Runs |-> IF InSection(r) THEN {run[r].deadline.timestamp} ELSE {}],
    late <- overran

\* Whatever runs, blocks and time pass between the read and the
\* compare-and-set of try_lock, the two grant a lease in one step: never over
\* an entry whose time has not passed, and never for more than
\* LOCK_TIMEOUT_EXPIRATION.  Nothing but dropping the guard takes it away.
LeaseSpec == Lock!Spec

\* Every run of fetch_remote_info ends, unless the node is left reading a
\* response body, the one wait that has no deadline.
RunEnds ==
    \A r \in Runs : run[r].pc # "idle" ~> run[r].pc \in {"idle", "body"}

\* Under PromptSpec the margin of LOCK_TIMEOUT_EXPIRATION over
\* FETCH_TIMEOUT_PERIOD is enough: two fetches never overlap.
Exclusive ==
    \A r, s \in Runs : InSection(r) /\ InSection(s) => r = s

\* "Check if we have fetched the data before.  If yes, we can use the cached
\* version": the remote is not asked when the cache is filled.
FetchOnlyIfNotCached ==
    \A r \in Runs : run[r].pc = "wait" => ~ cached
=============================================================================
