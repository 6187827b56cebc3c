# TLA+ development for substrate-node-template (off-chain workers)

This directory specifies the parts of the repository that carry its own logic:
the two off-chain worker pallets, `pallets/example-offchain-worker` (a BTC/USD
price oracle) and `pallets/ocw` (a demo of signed, unsigned and signed-payload
transactions and of a cached HTTP fetch), the template pallet, the pools that
hold their transactions, and the start-up and life of a node. TLC checks the modules on small
instances; TLAPS proves the main properties for every value of the constants.
`PROJECT.json` lists runs, mutants, the map from definitions to source lines,
findings, hazards and theorems.

## 1. Inventory

| Component | State | Operations | What is hard |
|---|---|---|---|
| Price oracle, on chain (`example-offchain-worker`) | `Prices`, `NextUnsignedAt` | `submit_price`, `submit_price_unsigned`, `submit_price_unsigned_with_signed_payload`, `validate_unsigned`, `average_price` | unsigned transactions carry no nonce and arrive late, twice or reordered; the slot rule of a full list |
| Price workers, off chain | per node: persistent `example_ocw::last_send`, keystore | `offchain_worker`, `choose_transaction_type`, four `fetch_price_and_send_*`, `fetch_price`, `parse_price` | concurrent runs on one node, runs that lag behind the chain, crashes, nodes that share //Alice, stale reads before a slow request |
| Number list, on chain (`ocw`) | `Numbers` | `submit_number_signed`, `submit_number_unsigned`, `submit_number_unsigned_with_signed_payload`, `validate_unsigned` | the bound of the list; racing nonces |
| Number workers, off chain | none | `offchain_signed_tx`, `offchain_unsigned_tx`, `offchain_unsigned_tx_signed_payload` | the account is shared with the price workers |
| Cached remote fetch (`ocw`) | per node: persistent `offchain-demo::hn-info` and `offchain-demo::lock` | `fetch_remote_info`, `fetch_n_parse`, `fetch_from_remote` | an expiring lock, slow servers, crashes that leave the lock behind |
| Template pallet | `Something` | `do_something`, `cause_error` | overflow at the largest u32 |
| Runtime | constants, signed extensions | `create_transaction`, runtime APIs | nonces read from a block's state |
| Transaction pool (library, driven by the two validators) | per node: ready transactions with tag, priority and the block they were validated for | submission, revalidation, replacement, block building, pruning | a verdict is older than the pool it enters; entries of different sessions side by side; nodes that lag |
| Node service and command line | keystore (in memory), tasks, task manager, database | `run`, `load_spec`, `new_partial`, `new_full`, `new_light`, genesis | tasks run, and end, while the start-up goes on; steps fail half-way; the network starter and the keys stand far from what needs them |
| RPC | none | `create_full` | nothing |

Interactions. A node imports a block and calls the off-chain workers of both
pallets with the state of that block. A run reads that state and the node's
local storage, may make an HTTP request, and submits extrinsics. Some author
includes them in a later block, where the signed extensions (nonce) or
`validate_unsigned` decide again. Runs communicate only through local storage
(one node) and through the chain (all nodes).

What makes each part correct:

* oracle: unsigned prices are accepted once per session, nothing is applied
  twice, the list and its average follow the code's rule, the cooldown never
  shrinks;
* price workers: permits to send are `GracePeriod` blocks apart on each node,
  and nothing a worker sends reaches the chain without a permit (the calls are open
  to everybody, so prices of others need none);
* number list: it is the last `NUM_VEC_LEN` accepted numbers; signed numbers of
  an account keep the order of their blocks;
* remote fetch: at most one fetch at a time, the lock is never leaked, and if its
  holder dies or is stuck it expires, every run ends;
* `parse_price`: the result is the price in cents;
* template pallet: the stored value is accounted for by the calls that
  succeeded, and never overflows;
* pool: at most one unsigned price in it is valid for the next block, and none
  that a block already carries;
* node: its workers can send from the first block on, it takes part in the
  network whole or not at all, and it goes down with its essential tasks.

## 2. Modules

| Module | Models |
|---|---|
| `PriceOracle` | the chain half of the oracle, in an environment that offers any well-formed extrinsic at any time, any number of times |
| `Cooldown` | abstract specification: a door passed at most once in `UnsignedInterval` blocks; `PriceOracle` implements it |
| `Lease` | abstract specification: an entry with a deadline, granted atomically when absent or expired; `RemoteInfo` implements it |
| `SendPermit` | abstract specification: one atomic action checks and replaces the stored `last_send`, records a permit and lets a run through; `PriceSystem` implements it |
| `PriceSystem` | `PriceOracle` composed with nodes, keystores, local storage and worker runs, beside others who submit prices of their own |
| `TxPool` | `PriceOracle` composed with the transaction pools of several nodes and a block author |
| `ParsePrice` | the arithmetic of `parse_price` on a parsed JSON number, against the value of the literal |
| `RemoteInfo` | `fetch_remote_info` on one node, run by run and step by step |
| `OcwNumbers` | the number list, its calls, its validator, its worker runs |
| `TemplatePallet` | the optional u32 of `pallets/template` and its two calls |
| `NodeService` | the life of a node process, from the command line to its end |
| `MC*` | small instances for TLC |
| `*Proofs` | inductive invariants, lemmas and theorems, one module for each component above |

Definitions keep the names of the code. Operators commented "Slip" are plausible
mistakes in the definition that follows them; `PROJECT.json` pairs each
property with one that must break it.

**PriceOracle.** `block` and `nonce` stand for frame_system, `prices` and
`nextUnsignedAt` for the storage items, `applied` is the history of accepted
prices (the `NewPrice` events). One action per dispatchable; signed extrinsics
pass `SignedPreDispatch` (CheckNonce), bare ones `UnsignedPreDispatch`
(`validate_unsigned` in the block). `EnsureNoneFails` is a signed extrinsic
around a call that demands no origin, `OtherExtrinsic` any transaction of
another pallet by one of the `Shared` accounts. A signature is the account
that made it. Priority, tag and longevity of a valid transaction only concern
the pool, which may here do anything and is modelled in `TxPool`. `Door` is
`Cooldown` with `block` for its clock and `nextUnsignedAt` for the time it opens;
every extrinsic other than an unsigned price is a stutter of it.

**PriceSystem.** A run goes through `read`, `cas`, `check`, `fetch`, `send`.
`StorageValueRef::mutate` is two steps, a read with the closure's decision and a
compare-and-set, because that is where other runs get in between. `best` is the
state that a new run sees; a run keeps it as its `view`. `sent` collects what
runs submit and never loses anything: the chain may apply an element at any
time, again, or never. A worker call executes both pallets, and the second one
to sign for an account finds the nonce incremented; `SignedBy` and `NonceRead`
(in `OcwNumbers`) allow for that in either order. `Restart` ends the runs of a
node and keeps its storage. `fetch_price_and_send_raw_unsigned` cannot be
reached (`block_number % 3` is 0, 1 or 2) and has no action.

The calls are open to everybody: `submit_price` to any account that signs,
`submit_price_unsigned` to anybody, and the call with a payload to anybody who signs
it with a key of his own. `Others` are the accounts whose keys somebody besides the workers
uses, `AuthoredByOthers` is all they can author, and `Include` applies elements of
`Foreign`, any subset of it. What the properties say of the chain is therefore about
what workers send: `UnsignedFromPermit` about payloads signed with a key outside
`Others`, `SignedBoundedByPermits` about all signed prices of such a key and, for a key
in `Others`, about those that a worker sent. A bare unsigned price proves nothing about
its origin, and no property mentions one.

`Permit` is `SendPermit` over the code's own `lastSend` and `granted`; `Admitted` reads
off the run records which runs are past `choose_transaction_type`. `PermitSpec` so says
more than `GraceSpacing`: no run fetches or sends without a permit of its own, the
entry always is the block of the last permit, and neither the end of a run nor the
death of a node changes it.

**TxPool.** `chain[k]` is the state before block `k`, `head[n]` the block for which
node `n` validates. `Submit` takes a verdict from any block up to `head[n]`, because
validation runs beside block import and its result is applied afterwards; the
entry keeps that block's tag and priority, its longevity counts from there.
`Import` is the library's rule: one entry for each tag, the higher priority
replaces, an equal one does not. `Propose` is the author's loop over its pool by
priority, cut off at any point: of the prices it tries, the first that is valid in
the block goes in and makes the rest stale. `ImportBlock` prunes what the block
used up, validates again what shared a tag with it, and clears what is too old: an
entry validated in the state of block `b` goes with block `b` + longevity (`valid_till`).
Signed prices enter blocks directly (`PushSigned`); they matter because they
move the average, and so the priorities.

**NodeService.** `Program` turns a command and a configuration into the sequence of
SDK calls that `run`, `new_partial`, `new_full` and `new_light` make, in source
order. A call is recorded as whether its error is propagated (`may`), what it
spawns and how, which keys it inserts, and whether it starts the network. `StepOk`
and `StepErr` execute the next one; beside them tasks end (`TaskEnds`), blocks are
imported, and the process may be killed. The runner watches the essential tasks
only after the start-up (`Started`, `Notice`). Nothing but the database survives the process:
the keystore entries are made by `sr25519_generate_new` with a seed, which the
library keeps in memory. `refused` records that a worker ran for a block and had
no key, or no funds, to send with.

**RemoteInfo.** A run goes through `check`, `lock`, `cas`, `send`, `wait`,
`body`, `store`, `unlock`; from `send` on it holds the guard. `try_lock` is again
a read and a compare-and-set. The library's lock expires when both its block and
its time have passed. `overran` records that a holder was still inside after its
deadline, `crashed` that the node was killed. `PromptSpec` restricts time: local
steps take none, a wait ends at its timeout, and a body is complete `BodySlack`
later. `Lock` is `Lease` with the entry's time for its entry and the deadlines of the
runs inside for its holders'; the lock's block limit only makes grants rarer.

**OcwNumbers.** Runs keep no local state, so starting one and submitting is one
step. `Strangers` submit through all three calls (`Foreign`): numbers signed for their own
accounts, bare ones, payloads signed with their own key or with none that fits.
`SignedInOrder` is about the accounts of `Keys`, for which only workers sign numbers.

**TemplatePallet.** `something` is the storage item, `result` the last dispatch
result; a call that fails changes nothing else.

**ParsePrice.** lite-json's number (signed integer, fraction, digits of the fraction,
exponent) is the input; the four ways to find no number give `NoPrice`. `Pow10` is
exact: 10 to the 19 still fits the u64 that the code uses.

## 3. Runs

| Run | Expect | Shows |
|---|---|---|
| `price_oracle` | pass | `TypeOK`, `UnsignedSession`, `AppliedOnce`, `WindowContents`, `AverageInRange`, refinement `CooldownSpec` |
| `price_window` | violation | `LastPricesKept`: "last 64 values" is not what a full list holds |
| `price_system` | pass | `SysTypeOK`, `GraceSpacing`, `UnsignedFromPermit`, `SignedBoundedByPermits`, refinement `PermitSpec` |
| `remote_info` | pass | `TypeOK`, `MutualExclusion`, `HolderOwnsLock`, `LockHasHolder`, `LockExpires`, refinement `LeaseSpec`, liveness `RunEnds` |
| `remote_info_prompt` | pass | `Exclusive` with three runs under `PromptSpec` |
| `remote_info_refetch` | violation | `FetchOnlyIfNotCached`: the cache is not checked again under the lock |
| `parse_price` | pass | `CentsExact`, `DollarsExact` |
| `parse_price_cents` | violation | `PriceInCents`: one digit after the point (1.5 gives 105 cents) |
| `template` | pass | `TypeOK`, `ValueIsAccountedFor` |
| `numbers` | pass | `TypeOK`, `LastNumbers`, `SignedInOrder` |
| `tx_pool` | pass | `PoolTypeOK`, `OneValidPrice`, `NoReplayFromPool` |
| `node_service` | pass | `TypeOK`, `WorkersCanSend`, `WholeNodeOnNetwork`, liveness `EssentialFailureStops`, `StartEnds` |

Bounds, and why they are enough:

* `price_oracle`: two slots, three prices (1 and 3 share a slot), `U32Max` 4 so
  that sums saturate, four blocks with an interval of 2, so two sessions fit and
  a claim can be stale, current or in the future; two nonces for replays.
* `price_system`: one node with two concurrent runs (interchangeable, so up to
  symmetry), one with one run and a second key, sharing `bob`; `alice`'s key is also
  used by somebody else. One price of others is accepted (`MaxForeign`), any of a signed
  one, a bare one and a payload with a signature of its own; one in the name of `bob`
  is offered all the time and never passes. Blocks 1 to 3 take each transaction type once;
  `GracePeriod` 2 lets a node send twice. `TxTypes` 3 makes block 3 one where
  both pallets sign, which in the code first happens at block 12. One price:
  no property of this run tells prices apart. `MaxOther` 1 lets the other
  pallet use one nonce of `alice`.
* `remote_info`: two runs (three in `remote_info_prompt`, up to symmetry), blocks
  3 and 7 start runs and are `LockBlocks` + 1 apart, so a lock can expire by
  block and by time; the clock passes `LockTimeout` twice. The clock bound stops
  new runs and idle time but lets a pending request reach its timeout.
* `parse_price`: three digits after the point cover none, fewer, exactly and more
  than two; 12 dollars pass `U32Size` 1024 cents, so wrapping happens, and so it does
  for negative integer parts.
* `numbers`: capacity 2 with three accepted numbers fills and shifts the list.
  `TxTypes` 3 and `PriceTypes` 2 make block 3 sign a number only and
  block 6 possibly a price as well (in the code: 4, 8 and 12). One key, one stranger.
* `template`: the largest u32 is 2, so every value meets the overflow within five
  successful calls.
* `tx_pool`: two nodes, one of them the author, so a pool can lag, be ahead of the
  author's or be the author's. Prices for blocks 1 and 2, one of them at the average
  and one off it, and an interval of 1: three blocks hold two sessions, and a
  verdict, an entry and the pool's head can each stem from a different one. The
  priorities put numbers between the two prices; two numbers compete for one tag.
  Longevities of 3 and 2 expire within the three blocks.
* `node_service`: every combination of role, worker, telemetry, keystore and
  GRANDPA switches, on both built-in chains and on one from a file that funds
  nobody with a key, and all subcommands. Two tasks may end in one life, two
  blocks are imported; restarts are unbounded.

Deadlock is checked where the model never stops (`remote_info*`, `template`,
`node_service`); elsewhere the bounds end every behaviour.

Fairness is assumed in `NodeService!Spec` and in `RemoteInfo!Spec`. A node's start-up
is straight-line code and goes on step by step; the runner polls its select,
notices the end of an essential task and shuts down. No such assumption is made
for subcommands, whose work may last, nor for tasks, blocks or signals. In
`RemoteInfo`, time passes, and a run that can
take a local step eventually takes it, since the executor runs each worker on a
thread of its own; the host ends a wait when its deadline has passed. Nothing is
assumed of the remote server (`Answer`, `ReadBody`) nor of new blocks or runs. So
`RunEnds` excludes a run that is reading a body, the one wait without deadline.

What the runs found: the three violations above are disagreements between
comments and code, each with a trace of a few steps. More observations:
`parse_price` ignores the exponent, so 1.5e3 is read like 1.5, and casts a negative
integer part to a large u32 (`Representable` excludes both);
reading the body of a response has no deadline, although a comment limits "the
call" to 3 s; after a crash of its holder the persistent lock turns runs away until it
expires, although a comment infers that a run is fetching; a light node starts
off-chain workers but inserts no keys for them (`WorkersCanSend` excludes it), and
does not refuse a remote keystore as a full node does; with the runtime's
`GracePeriod` of 3 and the choice by `block_number % 3` an
undisturbed node always sends the same kind of transaction; and because both
pallets sign for //Alice in one worker call, a number submitted at a block where
a price is signed too can be accepted after the number of a later block
(`SignedInOrder` states the exception).

After a holder of the fetch lock has outlived its deadline, the code promises
little: it drops its guard over the lock of the next holder, and a third run may then
fetch beside the second. `MutualExclusion` and `HolderOwnsLock` hold until the first such
overrun, `Exclusive` says when there is none; `LeaseSpec` and `LockExpires` hold
afterwards too.

## 4. Proofs

Everything below holds for all values of the constants that satisfy the named
assumptions (`OracleAssumption`, `SystemAssumption`, `PoolAssumption`,
`RemoteInfoAssumption`, `NumbersAssumption`, `TemplateAssumption`, `ParseAssumption`,
`ServiceAssumption`), which only give the constants their types. Every invariant and
every refinement that a passing run checks is a theorem.

* `PriceOracleProofs`: `TypeCorrect`, `SessionsApart`, `NoReplay`,
  `CooldownImplemented`, `WindowAccounted`, `AverageBounded`. `UnsignedSession` and
  `AppliedOnce` speak of pairs of
  old entries only, so the invariant adds `AllRecorded`: every accepted unsigned
  price lies `UnsignedInterval` behind `nextUnsignedAt`, every signed one has a
  nonce below its account's. A new entry then differs from all old ones. A step
  that accepts an unsigned price is a `Pass` of the door, since the validator's two
  checks put `nextUnsignedAt` at or before the current block. `WindowInv` is
  `WindowContents` as a statement about a list and a history; with the length that
  `TypeOK` gives the list, `WindowStep` carries it over one accepted price.
  `AverageBounded` is about a fold over the list: `FoldExists` unfolds `FoldLeft` into
  partial sums, `SaturatingSum` and `PlainSum` bound them by induction over the length, and
  `DivBounds` carries the bounds over the division.
* `PriceSystemProofs`: `GraceHolds`, `SysTypeCorrect`, `PermitRefinement`,
  `OracleComposes` (the composition implements `PriceOracle!Spec`) and from it
  `SystemSessionsApart`. The invariant adds that `lastSend` is the newest permit
  (`LastIsNewest`) and that a run before its compare-and-set has read a value
  that lets it through (`SeenAllows`); the compare-and-set succeeds only if that
  value is still there, which makes it a `Grant` (`CasGrants`); every other step ends runs
  let through, or moves none of them (`PermitNext`). `UnsignedPermitted` follows a
  permit along its way: to the run that was let through (`RunsPermitted`), to what
  it sends, to what the chain accepts; no permit is ever taken back. What others
  author cannot pass for it: a payload in the name of a key outside `Others` would need
  that key's signature (`ForeignRefused`, `ByWorkerKey`). `SignedBounded`
  compares two counts, and neither changes with the other: the invariant
  `Balanced` says that for each account the extrinsics sent and the runs still
  about to send together do not exceed the permits, and `AppliedOnce` injects
  the workers' prices that are applied into what was sent. For an account outside `Others`
  these are all its signed prices (`AppliedSent`); for one in `Others`, those in `sent`.
* `TxPoolProofs`: `PoolsDriveOracle` (the composition implements `PriceOracle!Spec`),
  `PoolTypeCorrect`, `OnePriceForSession`, `IncludedNeverValidAgain`. Two valid prices
  in one pool would need different tags, so validations in states with different
  `nextUnsignedAt`. `ChainInv` says that a later state has the same
  `nextUnsignedAt` or one a full interval behind the earlier block, in which case
  whatever was valid for the earlier block is stale; `PoolsGood` says that every
  entry was valid for the block whose tag it carries and that tags are unique.
  The types of the pools rest on those of the average.
* `ParsePriceProofs`: `CentsAreExact`, `DollarsAreExact`, for any width of the casts and
  up to the 19 digits a u64 holds. `Powers` gives the recursive `Pow10` its
  equations, the `Quotient` lemmas compare the code's division by
  `10^(length - 2)` with the definition's by `10^length`, and `ParsedNumber` shows that
  no cast of a representable price wraps. The invariant `ParseInv` only says that the
  result is that of the response.
* `NodeServiceProofs`: `ServiceTypeCorrect`, `WorkersSend`, `WholeNode`. The first half
  is about the programs. `Part` describes a stretch of a program by the tasks it
  spawns (each once) and the keys it inserts; parts are joined (`JoinParts`) in the
  order of `new_partial`, `new_full` and `new_light`, up to `ProgramSound`: nothing is
  spawned twice, only `run` starts the network, last and after all that
  `Wanted` lists, and a full node's workers come after their keys. The second half is
  the invariant `ServiceInv`: while a process lives, its tasks (alive or ended), its
  keys and the open network are exactly what the steps before `pc` left.
* `TemplatePalletProofs`: `TypeCorrect`, `ValueAccounted`; the two together are
  inductive.
* `RemoteInfoProofs`: `TypeCorrect`, `SectionExclusive`, `HolderClearsOwnLock`,
  `LockNotLeaked`, `OrphanExpires`, `LeaseImplemented` and `MarginSuffices`. The invariant ties the lock
  entry to its holder's deadline as long as nobody overran. `OrphanExpires` needs
  neither: runs see imported blocks only, and what a run is about to write is within the
  limits like the entry itself (`ExpiryInv`). For the lease it is
  that a run before its compare-and-set saw no entry or an expired one (`SeenExpired`)
  and asks for a deadline no further than `LockTimeout` away (`DeadlineNear`); both survive
  the time between the two steps because the clock only moves on. `MarginSuffices` assumes
  `FetchTimeout + BodySlack <= LockTimeout` and uses where each run's deadlines
  lie relative to the clock (`TimelyRun`) to show that nobody overruns.
* `OcwNumbersProofs`: `TypeCorrect`, `ListIsLastNumbers`, `SignedNumbersInOrder`.
  For the order, the invariant follows an accepted number's nonce: it is used up,
  and every extrinsic sent with a later nonce reports a later block. What strangers
  sign moves only their own nonces (`AcceptOther`).

Induction. The library's induction theorems take the formula as a parameter, which the
provers cannot instantiate. `LeastNumber` derives from the well-foundedness of finite
sets under inclusion that a set of naturals has a least element, and `SetInduction`
from it that a set closed under successor holds all of them; applied to the set of
numbers for which a fact holds, they are induction. Folds and `Pow10` are proved
about this way.

Only model-checked: `RunEnds`, `EssentialFailureStops` and `StartEnds`, liveness under
fairness, which is out of the prover's reach; and the three violations, which are
counterexamples.

## 5. Not modelled

* A thief of a key. Whoever signs with a key is a worker of a node that holds it or,
  for the accounts in `Others` (`Strangers` in `OcwNumbers`), somebody else. With the
  keys of a well-known seed such as //Alice everybody is somebody else: then `Others`
  contains the account, and only what is said of `sent` remains.
* Forks and re-orgs. In `PriceSystem` a re-org shows only as runs that are skipped or
  started twice; in `TxPool` blocks are never retracted, and an author does not
  die between filling and sealing a block.
* The queue of signed transactions in the pool, its size limits and bans: they
  depend on nothing in this repository but the nonce, and the chain model lets a
  signed transaction be dropped or included at any time.
* SDK pallets, consensus, fees and weights, mortality of signed transactions
  (`BlockHashCount` is far beyond the bounds). Funds appear only as the genesis
  endowment that `NodeService` looks at.
* `rpc.rs` registers two library handlers and has no state. Mocks, benchmarks and
  weights are test support or generated.
* `fetch_price_and_send_raw_unsigned`, which cannot be reached.
* The content of HTTP answers beyond what is said above, and the JSON grammar.
* Block numbers do not wrap: a u32 of blocks lasts for centuries.

## 6. Plan

Done, in this order: `PriceOracle`, `RemoteInfo`, `SendPermit` and `PriceSystem`,
`ParsePrice`, `OcwNumbers`, `TemplatePallet`, `Cooldown`, `TxPool`, `NodeService`,
`Lease`, and the proofs above. Open:

1. One composition of both pallets' workers in a single call, in place of
   `NumberSigners` and `NonceRead`, with the nonce incremented within the call.
2. Exclusion as a theorem of `Lease` itself, so that it carries over to whatever
   implements it.
3. Forks in `TxPool`, with retracted blocks whose transactions come back.
