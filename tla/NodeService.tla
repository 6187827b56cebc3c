---------------------------- MODULE NodeService ----------------------------
(***************************************************************************)
(* The life of a node process: the command line selects what to run, a     *)
(* full or a light service is built step by step, and the task manager     *)
(* watches what was spawned.  Tasks run from the moment they are spawned,  *)
(* beside the rest of the start-up, and may end at any time; most steps    *)
(* may fail, and the process may be killed anywhere.                       *)
(*                                                                         *)
(* The SDK functions that the steps call are library code; a step says     *)
(* what its call leaves behind and whether its error is propagated.        *)
(***************************************************************************)
EXTENDS Integers, Sequences, FiniteSets

CONSTANTS
    Configs,        \* the configurations nodes are started with
    NoConfig,       \* no process, no configuration
    FileGenesis,    \* genesis of a chain specification read from a file
    MaxEnded,       \* bound: tasks that end by themselves in one life
    MaxBest         \* bound: blocks in the database

Roles == {"Authority", "Full", "Light"}

Chains == {"dev", "local", "file"}

Seeds == {"Alice", "Bob", "Charlie", "Dave", "Eve", "Ferdie"}

NoSeed == "no seed"

Config ==
    [role : Roles, chain : Chains, seed : Seeds \cup {NoSeed},
     offchain_worker : BOOLEAN, keystore_remote : BOOLEAN,
     disable_grandpa : BOOLEAN, telemetry : BOOLEAN]

\* Subcommands that build partial components, and those that only read the
\* configuration; "run" stands for no subcommand, "none" for no process.
PartialCommands == {"CheckBlock", "ExportBlocks", "ExportState", "ImportBlocks", "Revert"}

SyncCommands == {"BuildSpec", "PurgeChain", "Benchmark"}

Commands == {"run", "Key"} \cup SyncCommands \cup PartialCommands

\* The key types of the two pallets' workers.
KeyTypes == {"pallet_ocw", "pallet_example_offchain_worker"}

Tasks ==
    {"telemetry", "txpool", "import-queue", "network-worker", "offchain-workers",
     "rpc", "aura", "grandpa-voter", "grandpa-observer"}

ASSUME ServiceAssumption ==
    /\ Configs \subseteq Config /\ NoConfig \notin Configs
    /\ FileGenesis \in [authorities : SUBSET Seeds, endowed : SUBSET Seeds]
    /\ MaxEnded \in Nat
    /\ MaxBest \in Nat

VARIABLES
    status,     \* "down", "starting", "running" or "closing"
    command,    \* what the process runs
    config,
    pc,         \* the next step of the start-up
    keys,       \* keystore, in memory: pairs of key type and account
    tasks,      \* tasks that are alive
    essential,  \* tasks spawned with spawn_essential_handle
    ended,      \* tasks that ended by themselves
    open,       \* start_network was called
    refused,    \* pallets whose worker could not send, in this life
    best        \* blocks in the database

memory == <<pc, keys, tasks, essential, ended, open, refused>>

serviceVars == <<status, command, config, memory, best>>

-----------------------------------------------------------------------------
(* Genesis (chain_spec.rs).  The stash accounts are left out. *)

testnet_genesis(initial_authorities, endowed_accounts) ==
    [authorities |-> initial_authorities, endowed |-> endowed_accounts]

development_config == testnet_genesis({"Alice"}, {"Alice", "Bob"})

local_testnet_config == testnet_genesis({"Alice", "Bob"}, Seeds)

load_spec(id) ==
    CASE id = "dev" -> development_config
      [] id = "local" -> local_testnet_config
      [] id = "file" -> FileGenesis

-----------------------------------------------------------------------------
(* Steps of the start-up: how a call may end, and what it leaves behind. *)

Call(may) == [may |-> may, spawn |-> {}, essential |-> FALSE, keys |-> {}, start |-> FALSE]

Infallible == {"ok"}

Fallible == {"ok", "err"}

Refuse == Call({"err"})

Spawn(t, may) == [Call(may) EXCEPT !.spawn = {t}]

SpawnEssential(t, may) == [Call(may) EXCEPT !.spawn = {t}, !.essential = TRUE]

generate_new(key_type) == [Call(Infallible) EXCEPT !.keys = {<<key_type, "Alice">>}]

StartNetwork == [Call(Infallible) EXCEPT !.start = TRUE]

When(condition, steps) == IF condition THEN steps ELSE << >>

\* Slip: keys only for the nodes that author blocks.
insert_keys_of_authority(c) ==
    When(c.offchain_worker /\ c.role = "Authority",
         <<generate_new("pallet_ocw"), generate_new("pallet_example_offchain_worker")>>)

insert_keys(c) ==
    When(c.offchain_worker,
         <<generate_new("pallet_ocw"), generate_new("pallet_example_offchain_worker")>>)

\* Telemetry, client and keystore, pool, block import, slot duration, queue.
new_partial(c) ==
    When(c.keystore_remote, <<Refuse>>)
    \o When(c.telemetry, <<Call(Fallible)>>)
    \o <<Call(Fallible)>>
    \o insert_keys(c)
    \o When(c.telemetry, <<Spawn("telemetry", Infallible)>>)
    \o <<SpawnEssential("txpool", Infallible), Call(Fallible), Call(Fallible),
         SpawnEssential("import-queue", Fallible)>>

\* Slip: the authoring task is spawned like any other.
author_not_essential(c) ==
    When(c.role = "Authority", <<Call(Fallible), Spawn("aura", Fallible)>>)

\* Slot duration and authoring task of an authority.
author(c) ==
    When(c.role = "Authority", <<Call(Fallible), SpawnEssential("aura", Fallible)>>)

\* The GRANDPA voter, of authorities and other full nodes alike.
voter(c) == When(~ c.disable_grandpa, <<SpawnEssential("grandpa-voter", Fallible)>>)

\* A full service before its network starts.
full_tasks(c) ==
    new_partial(c)
    \o When(c.keystore_remote, <<Refuse>>)
    \o <<Spawn("network-worker", Fallible)>>
    \o When(c.offchain_worker, <<Spawn("offchain-workers", Infallible)>>)
    \o <<Spawn("rpc", Fallible)>>
    \o author(c)
    \o voter(c)

\* Slip: the network starter is dropped.
new_full_drops_starter(c) == full_tasks(c)

new_full(c) == full_tasks(c) \o <<StartNetwork>>

\* A light service up to its RPC server: no key is inserted, and a remote
\* keystore is not refused.
light_tasks(c) ==
    When(c.telemetry, <<Call(Fallible)>>)
    \o <<Call(Fallible)>>
    \o When(c.telemetry, <<Spawn("telemetry", Infallible)>>)
    \o <<SpawnEssential("txpool", Infallible), Call(Fallible), Call(Fallible),
         SpawnEssential("import-queue", Fallible), Spawn("network-worker", Fallible)>>
    \o When(c.offchain_worker, <<Spawn("offchain-workers", Infallible)>>)
    \o When(~ c.disable_grandpa, <<Spawn("grandpa-observer", Fallible)>>)

\* Slip: the network starts before the RPC server.
new_light_starts_early(c) == light_tasks(c) \o <<StartNetwork, Spawn("rpc", Fallible)>>

new_light(c) == light_tasks(c) \o <<Spawn("rpc", Fallible), StartNetwork>>

\* The steps of a command.  All but Key first build a configuration, with
\* the chain specification; the last step of a subcommand is its own work.
Program(cmd, c) ==
    CASE cmd = "run" ->
           <<Call(Fallible)>> \o (IF c.role = "Light" THEN new_light(c) ELSE new_full(c))
      [] cmd = "Key" -> <<Call(Fallible)>>
      [] cmd \in SyncCommands -> <<Call(Fallible), Call(Fallible)>>
      [] cmd \in PartialCommands ->
           <<Call(Fallible)>> \o new_partial(c) \o <<Call(Fallible)>>

-----------------------------------------------------------------------------
Cleared ==
    /\ pc' = 1
    /\ keys' = {} /\ tasks' = {} /\ essential' = {} /\ ended' = {}
    /\ open' = FALSE /\ refused' = {}

\* The process is gone, and with it everything but the database.
Down == status' = "down" /\ command' = "none" /\ config' = NoConfig /\ Cleared

Init ==
    /\ status = "down"
    /\ command = "none" /\ config = NoConfig
    /\ pc = 1
    /\ keys = {} /\ tasks = {} /\ essential = {} /\ ended = {}
    /\ open = FALSE /\ refused = {}
    /\ best = 0

\* run() of command.rs: the arguments select command and configuration.
Run(cmd, c) ==
    /\ status = "down"
    /\ status' = "starting" /\ command' = cmd /\ config' = c
    /\ Cleared
    /\ UNCHANGED best

Steps == Program(command, config)

\* External: what the last step of a subcommand may do to the database,
\* wherever in its work it ends, fails or is killed.
NewBest ==
    IF command = "run" \/ pc # Len(Steps) THEN {best}
    ELSE CASE command = "ImportBlocks" -> best .. MaxBest
           [] command = "Revert" -> 0 .. best
           [] command = "PurgeChain" -> {0, best}
           [] OTHER -> {best}

\* A step succeeds.
StepOk ==
    /\ status = "starting" /\ pc <= Len(Steps)
    /\ "ok" \in Steps[pc].may
    /\ pc' = pc + 1
    /\ keys' = keys \cup Steps[pc].keys
    /\ tasks' = tasks \cup Steps[pc].spawn
    /\ essential' = essential \cup (IF Steps[pc].essential THEN Steps[pc].spawn ELSE {})
    /\ open' = (open \/ Steps[pc].start)
    /\ best' \in NewBest
    /\ UNCHANGED <<status, command, config, ended, refused>>

\* Slip: the tasks of a start-up that failed go on.
StepErr_leaks_tasks ==
    /\ status = "starting" /\ pc <= Len(Steps)
    /\ "err" \in Steps[pc].may
    /\ status' = "down"
    /\ best' \in NewBest
    /\ UNCHANGED <<command, config, memory>>

\* A step fails: the error goes up to run(), the task manager is dropped.
StepErr ==
    /\ status = "starting" /\ pc <= Len(Steps)
    /\ "err" \in Steps[pc].may
    /\ Down
    /\ best' \in NewBest

\* The service is handed to the runner, or a subcommand is through.
Started ==
    /\ status = "starting" /\ pc > Len(Steps)
    /\ status' = IF command = "run" THEN "running" ELSE "closing"
    /\ UNCHANGED <<command, config, memory, best>>

\* External: the runner's select over the task manager and the signals.
Notice ==
    /\ status = "running"
    /\ ended \cap essential # {}
    /\ status' = "closing"
    /\ UNCHANGED <<command, config, memory, best>>

Signal ==
    /\ status = "running"
    /\ status' = "closing"
    /\ UNCHANGED <<command, config, memory, best>>

Shutdown ==
    /\ status = "closing"
    /\ Down
    /\ UNCHANGED best

Crash ==
    /\ status # "down"
    /\ Down
    /\ best' \in NewBest

\* A task returns or panics.
TaskEnds(t) ==
    /\ status # "down"
    /\ Cardinality(ended) < MaxEnded
    /\ tasks' = tasks \ {t}
    /\ ended' = ended \cup {t}
    /\ UNCHANGED <<status, command, config, pc, keys, essential, open, refused, best>>

\* A pallet's worker signs with the keys of its type, for an account that
\* can pay.
CanSend(pallet) ==
    \E key \in keys : key[1] = pallet /\ key[2] \in load_spec(config.chain).endowed

\* A block comes from the authoring task or from the network, and the
\* workers of both pallets run for it.
ImportBlock ==
    /\ \/ /\ "aura" \in tasks
          /\ config.seed \in load_spec(config.chain).authorities
       \/ open /\ {"network-worker", "import-queue"} \subseteq tasks
    /\ best < MaxBest
    /\ best' = best + 1
    /\ refused' = IF "offchain-workers" \in tasks
                  THEN refused \cup {p \in KeyTypes : ~ CanSend(p)} ELSE refused
    /\ UNCHANGED <<status, command, config, pc, keys, tasks, essential, ended, open>>

Next ==
    \/ \E cmd \in Commands, c \in Configs : Run(cmd, c)
    \/ StepOk \/ StepErr \/ Started
    \/ Notice \/ Signal \/ Shutdown \/ Crash
    \/ \E t \in tasks : TaskEnds(t)
    \/ ImportBlock

\* The start-up of a node is straight-line code and goes on; how long a
\* subcommand works is not assumed.  The runner polls its select and then
\* shuts down.
Fairness ==
    /\ WF_serviceVars(command = "run" /\ (StepOk \/ StepErr \/ Started))
    /\ WF_serviceVars(Notice)
    /\ WF_serviceVars(Shutdown)

Spec == Init /\ [][Next]_serviceVars /\ Fairness

-----------------------------------------------------------------------------
(* Properties. *)

\* The variables keep their types, and nothing that a process had in memory
\* (tasks of a start-up that failed above all) outlives it.
TypeOK ==
    /\ status \in {"down", "starting", "running", "closing"}
    /\ IF status = "down"
       THEN command = "none" /\ config = NoConfig /\ keys = {} /\ tasks = {} /\ ~ open
       ELSE command \in Commands /\ config \in Configs /\ pc \in 1 .. (Len(Steps) + 1)
    /\ keys \subseteq KeyTypes \X Seeds
    /\ tasks \subseteq Tasks /\ ended \subseteq Tasks /\ tasks \cap ended = {}
    /\ essential \subseteq tasks \cup ended
    /\ open \in BOOLEAN
    /\ refused \subseteq KeyTypes
    /\ best \in 0 .. MaxBest

\* What a node that takes part in the network runs.
Wanted(c) ==
    {"txpool", "import-queue", "network-worker", "rpc"}
    \cup (IF c.telemetry THEN {"telemetry"} ELSE {})
    \cup (IF c.offchain_worker THEN {"offchain-workers"} ELSE {})
    \cup (IF c.role = "Authority" THEN {"aura"} ELSE {})
    \cup (IF c.disable_grandpa THEN {}
          ELSE {IF c.role = "Light" THEN "grandpa-observer" ELSE "grandpa-voter"})

\* "so learners can see the transactions submitted simply running the node":
\* on the built-in chains, a full node's workers have keys and funds for both
\* pallets from the first block they see, in whatever order the steps of the
\* start-up, restarts and the first blocks come.
WorkersCanSend == refused # {} => config.role = "Light" \/ config.chain = "file"

\* Only a node with everything it was configured for takes part in the
\* network, although start_network and the spawning of each task are far
\* apart; and no subcommand ever does, although it shares new_partial.
WholeNodeOnNetwork ==
    open => command = "run" /\ Wanted(config) = tasks \cup ended

\* "the AURA authoring task is considered essential, i.e. if it fails we
\* take down the service with it", and likewise the GRANDPA voter, the pool
\* and the import queue: also when one of them ends while the start-up is
\* still going on and nobody watches.
EssentialFailureStops ==
    \A t \in {"aura", "grandpa-voter", "txpool", "import-queue"} :
        (command = "run" /\ t \in ended) ~> status = "down"

\* A node that starts ends up on the network or down, never built and silent.
StartEnds == (command = "run" /\ status = "starting") ~> (open \/ status = "down")
=============================================================================
