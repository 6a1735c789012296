# Verification of the TuFT server

TuFT serves fine-tuning to many tenants over the Tinker API: clients create LoRA
training runs, send sequenced training operations, save and load checkpoints, sample
from adapters, and collect every result by polling a *future*. The server is one
asyncio event loop with a thread pool; state is kept in memory, in a key-value store
(Redis or a file), in checkpoint directories and in GPU backends, and a restart has to
put the four back together. This directory models that core in TLA+, checks it with TLC
on small instances and proves some of it with TLAPS for all of them.

Paths below are relative to `src/src/tuft/` unless they start with `docs/` or `tests/`.

## 1. Inventory

| Component | State | Operations | Hard behaviour | What makes it correct |
|---|---|---|---|---|
| Future store, `futures.py` | registry of records with events, running tasks, next id; records in the key-value store with a TTL | enqueue, create_ready_future, runner and publication, retrieve, cleanup, shutdown, marking during recovery | one lock held over a save in a worker thread; status written before the save and event set after it; retrieves that wait, time out or belong to somebody else; crash between any two | an outcome is durable before it is visible and does not change; ids are unique and ordered; every pending future has a task; every task ends in an outcome |
| Training controller, `training_controller.py` | runs with next sequence number, name counters, checkpoint maps, execution locks; adapters in a backend | create_model, sequence guard, forward, forward_backward, optim_step, save, load, delete_checkpoint, set_visibility, unload_model, restore | coroutines queue on a lock and check their number only then; records are serialised in threads while the loop stores them too; three handlers take no lock; restart loads older weights under a newer counter | operations exclude each other, apply in order and once; the stored counter covers what was reported and what is in checkpoints; checkpoints keep their own files |
| Checkpoint records, `checkpoints.py` | directories `<root>/<run>/<name>` with files, metadata and a visibility | made, filled, completed by metadata, rewritten, deleted | metadata last; directories shared by name; files that are old, lost or damaged | a stored record has complete files; what is accepted fits the adapter |
| Server state and recovery, `state.py`, `server.py` | wiring of the others | `_queue_future`, save with the current future id, `_restore_from_checkpoints`, construction, `async_init`, `shutdown` | the boundary F of a checkpoint orders futures against weights; recovery itself may be cut short; a start fails half-way | after a restart no future claims what the weights do not have, none waits for a task that is gone, none that was cancelled is in the weights; nobody is served by half a server, nothing is left behind |
| Sequence executor, `sequence_executor.py` | heap of tasks, a running flag, one loop | submit with timeout, process | tasks arrive out of order; timed-out tasks stay; ties in the heap | least number first; every task runs |
| Sampling controller and backends, `sampling_controller.py`, `backends/sampling_backend.py`, `backends/vllm_engine.py` | session records with histories, adapters of N engines, one lock per engine | create session (adapter on all engines, roll back), record and sample, restore, rebuild | partial failure across engines; private index rebuilt at restart; sessions of models that are switched off | engines agree; recording before sampling; history only grows; sessions survive restarts |
| FSDP backend, `backends/fsdp_training_backend.py`, `backends/fsdp_engine.py` | a group of actors, a pool of adapter slots on every rank, map from run to slot | form the group, create, remove, forward, optim, save, load, shut down | a slot is released while operations on it are queued; actors may disagree after a failure; collectives need every actor; a group forms in steps that may each fail | a slot belongs to one run, whose operations alone act on it; actors agree; everybody is answered; a recorded group is whole |
| HF backend, `backends/hf_training_model.py`, `backends/training_backend.py` | adapters and optimizers of one model actor | the same operations, in a Ray actor | the active adapter is global to the model; micro-batches that fail halfway | an operation acts on its own adapter; adapters of runs that are gone leave the memory |
| Requests and losses, `backends/loss_inputs.py`, `loss_fn/` | none | fields to tensors, division of rows among actors and micro-batches, sums and means | actors must refuse, and divide, alike; rows are packed one after the other | results do not depend on the division; no position is scored against another row |
| LoRA modules, `backends/lora_modules.py`, `backends/vllm_lora_compat.py`, `config.py` | what runs and checkpoints recorded | flags to modules, slots of a configuration, compatibility | the same question is asked in six places; the configuration changes between processes | whatever one place accepts, the next one takes |
| Key-value persistence, `persistence/` | keys with TTL; a JSON file for `file_redis.py`; a signature of the configuration | set, setex, get, delete, scan, pipeline, signature check, `tuft clear persistence` | a file rewritten by every call; writes that fail are swallowed; starts and clears that are cut short | acknowledged is durable, transactions are atomic, records are only taken over under the models that wrote them |
| OpenAI-compatible routes, `oai/` | names of loaded adapters | resolve, load on all engines, forward | loads that race and fail in part; what is remembered is stale | the engine that is asked knows the name, and the name means the checkpoint |
| Embedded runtime, `runtime/`, `cli.py` | globals and a lock in each process, address file, child processes | discover, launch, stop | two threads at once, stale files, servers that die or do not start | no second server, no child left behind |
| Sessions and authentication, `state.py`, `auth.py` | sessions with heartbeats, keys of users | create, heartbeat, require | none | a map and a comparison |
| Command line, console, telemetry, compatibility layer | none to speak of | input and output | none | not modelled |

Interactions. A route wraps an operation in a future (`_queue_future`). The future's
task awaits the operation, which takes the execution lock of its run (training) or goes
through the executor of its session (sampling), and publishes the result under the lock
of the store. A training operation ends in a backend, which shares one model among all
runs. Training saves checkpoints that sampling sessions and OpenAI requests are made
from. Every component restores itself from the key-value store; then `state.py` prepares
the engines, rebuilds sampling adapters, restores each run from its latest checkpoint and
reconciles the run's futures with the boundary `future_id` F stored in it.

The hazards these behaviours cause are listed, each at its line, in `PROJECT.json`
under `hazards`, with the properties that watch them.

## 2. Modules

| Module | What it is |
|---|---|
| `FutureStore` | the future store, one action per handler step that the event loop or a thread can separate |
| `FutureContract` | what the store promises: durable, then visible, then unchanging; recovery only revokes; and the one hole in it, by name |
| `FutureRefinement` | the refinement mapping from the first to the second |
| `FutureStoreProofs` | theorems about `FutureStore`, and that it implements `FutureContract` |
| `TrainingController` | runs, sequence guard, operations, checkpoints and directories, restore |
| `TuftServer` | the composition of the two with recovery (`_restore_from_checkpoints`) |
| `TuftServerProofs` | theorems about `TrainingController`, and about `TuftServer`: that it implements both components, and what follows for the two together |
| `SequenceExecutor` | heapq and the executor as values with operators |
| `SamplingSessions` | sampling sessions over N engines, each with an executor |
| `SamplingSessionsProofs` | theorems about `SamplingSessions`: engines, histories, the executors' heaps |
| `AdapterContent`, `PrivateAdapters` | what an adapter holds and what operations do to it; what a training backend promises: every run has an adapter of its own |
| `FSDPSlots` | the FSDP backend in Ray mode: slots lent to runs, on N actors that compute collectively |
| `FSDPSlotsProofs` | theorems about `FSDPSlots`, that it implements `PrivateAdapters`, and theorems about the division of data in `TrainingBatch` |
| `HFAdapters` | the HF backend: adapters, optimizers and the active adapter of one model |
| `HFAdaptersProofs` | theorems about it, and that it implements `PrivateAdapters` |
| `TrainingBatch`, `TrainingResults` | one forward_backward request: its rows among actors and micro-batches, its fields, its labels; what is put together from the parts |
| `TrainingBatchCheck` | the evaluation of what is proved or claimed of them on small requests |
| `LoraGeometry` | which modules an adapter covers, in the model map, the configuration, the slots, runs and checkpoints |
| `LoraGeometryCheck` | the evaluation of the theorems on geometry, on configurations that tell all cases apart |
| `ConfigSignature`, `PersistentStore` | the signature of a configuration; the key-value store across starts, clears and crashes |
| `PersistentStoreProofs` | theorems about `PersistentStore` |
| `OpenAIRouter` | the OpenAI routes in front of N engines |
| `EmbeddedRuntime`, `EmbeddedRuntimeProofs` | `tuft.init`, discovery, the launched child and the address file; theorems about them |
| `ServerLifecycle`, `ServerLifecycleProofs` | construction, start, formation of FSDP groups and shutdown of a server; theorems about them, about `LoraGeometry` and about `OpenAIRouter` |
| `MC*` | constants for TLC, no definitions that the specifications use |

An operator whose name begins with `Mutant` is a plausible bug in the operator after it
and is used by no specification; each property has one it catches.

How they fit together. `TuftServer` composes futures and training. `FSDPSlots` and
`HFAdapters` are two implementations of `PrivateAdapters`, which is what
`TrainingController` takes a backend to be. `FSDPSlots` takes the division of data from
`TrainingBatch` and assumes a group that exists, as `ServerLifecycle` ends in.
`SamplingSessions` assumes engines that are prepared, likewise. All treat the key-value
store as atomic per key and per transaction, which `PersistentStoreProofs` shows of the
file and of Redis. The one outcome that the geometry checks are in `TrainingController` is
decided in `LoraGeometry`.

### FutureStore

`registry`, `records` and `nextId` are the attributes of `FutureStore` (futures.py:126),
`stored` and `db` the key-value store, `task` the coroutine of each request with its
program counter, `lock` the store's `asyncio.Lock`, `waiting` the clients inside
`retrieve`. `told` remembers what every owner was told; it is what `FutureContract` calls
`answers`. A retrieve concludes as soon as the status is not "pending", whether the event
is set or not, and so does the mapping (`View`): a pending record that another user's
retrieve has marked shows its owner an empty answer, which the contract calls "denied". The event
loop runs a handler from await to await, so an action is the code between two awaits:
`Enqueue` is the whole handler under the lock; `MarkBegin`, `MarkSave`, `MarkEnd` are the
three parts of a publication (status, save in a thread, event); a process may end between
any two. `_save_future` has three outcomes, `SaveOutcomes`: full, without its payload
(the retry at line 162), lost. Payloads are one value, "result", and their absence.

### TrainingController

An operation passes `Start` (what is done before the lock), the lock's queue, the
sequence check, its backend call or file writes, the counter, and the save of the run in
a worker thread, which is split into serialising and writing because `update_activity`,
`set_visibility` and `delete_checkpoint` store the same record in between. Weights are
the set of operations whose effect they contain, gradients likewise; a checkpoint
directory is absent, partial or complete with weights. `Faults` names what the
environment may do. Names are numbers; `AutoName` asks for the generated one. Adapter
geometry checks (`_check_adapter_compatible`) are one nondeterministic outcome.

### TuftServer

Extends `TrainingController` and instantiates `FutureStore` (`Futures!`) over the same
`phase` and `restarts`; the request of a future is the coroutine of its operation
(`Requests == Ops`). The store's own faults are left out here (no write of a future is
lost, nothing expires); the controller's are there, though `Server_core` has none.
`MaxFuture`, the controller's bound on the values of F, is the number of requests. One action per route that
queues a future: `ForwardBackward`, `OptimStep`, `SaveCheckpoint`, `SaveWeights`,
`SaveWeightsForSampler`, `LoadWeights`. `RecoverRun` is the turn of
`_restore_from_checkpoints` for one run; the marking of its futures follows in a step of
its own and may be cut short after any of its saves.

### SequenceExecutor and SamplingSessions

Entries of the executor's heap are tuples with dictionaries inside, so that comparing two
entries with one number raises `TypeError`. Which comparisons are made depends on the
array, hence `Lift`, `Push` and `Pop` follow heapq (CPython's C implementation, which
swaps as it goes: a push that raises leaves its entry in the heap, a pop that raises has
already lost the entry it was to return). `Submitted` and `Advanced` are the two critical
sections of the executor; its lock is never held across an await, so each is one step.

`SamplingSessions` keeps for each session its record in memory, with the private index,
its stored record without, the progress of its creation on every engine, and the engines'
locks, registries (`adapters`) and contents (`loaded`). The round-robin counter is also
advanced by OpenAI requests, so a request may meet any engine. Rebuilding one session at
a restart is one step because nothing else runs then; the process may end between two.

### FSDPSlots

`slotOf` is `_lora_id_to_adapter_name`, `lock` the queue of the backend's lock, which only
`create_adapter` and `remove_adapter` take, `inbox` the calls each Ray actor has still to
finish. The calls of one operation are made without an await in between, and an actor
executes its calls one by one in the order in which they were made; hence `Sent` appends
to several queues at once. `allocated` and `content` are each actor's marks and its shard
of each slot: the operations whose gradients, weights and optimizer moments are in it.
`Compute` is the part of one actor in an operation; except for `optim_step`, which is no
collective unless it clips, it waits until all actors are in it, with equal numbers of
micro-batches (`Joined`, `Meets`). `Reject` is an operation that raises on an actor:
before it meets the others or after, on all actors at one point (the fault "request"), on
one that keeps the others waiting ("early"), or on some at points of their own ("late"):
`opt.step`, the read of `optimizer.pt`, the lead's write. What it had done by then stays
in the shard (`Interrupted`). Nothing is reset by `remove_adapter`
until the actor comes to it, so `HeldSlot` looks for the release in the lead's queue.
`Raise` is a reset that raises half-way: allocation has marked the slot by then, release
has not unmarked it.

`AdaptersArePrivate` is the refinement: mapped through `HeldSlot`, the lead's slots behave
as adapters of which each run has its own, fresh when it was created.

### HFAdapters

The actor's methods hold its lock without suspending in it, so each is one step
(`CreateAdapter`, `RemoveAdapter`, `Method`), but `await`s before them let calls start in
any order. `adapters` and `active` are the PeftModel's (external), `optimizer` says whose
parameters the optimizer of a run was made from. `Raise` leaves what the method had done
by then: gradients of some micro-batches, a step whose gradients are still there, weights
that were loaded without their optimizer, another active adapter (`InForward`,
`InOptimStep`, `InLoadState`). A creation that raises after `add_adapter` leaves the
adapter (the fault "half", in the run). An optimizer is made from the parameters
that require gradients, which are those of the active adapter: that is why activation
matters twice. `AdaptersArePrivate` is the same refinement as for FSDP, with the
identity for content and `Age` for what the controller sees of a run. The fault "late" (a
load that starts after the removal) is in the module and not in the run; section 5 says
what it does.

### TrainingBatch and TrainingResults

Operators, no state: `ShardSize`, `ShardStart`, `MicroBatchSize` and `MicroBatches` follow
the loops that divide rows; `FSDPAccepts`, `ActorAccepts`, `Prepares`, `Stacks` are the
checks of the request, of an actor's shard and of a micro-batch, in that order; `Rolled`
is the label a position gets when all rows of a micro-batch are packed one after the
other and rolled by one. `TrainingResults` gives every token a weight that tells it from
every other one and adds them up the way the engines, the actors and the backend do.

### LoraGeometry

Operators as well. `Resolve` goes from a client's flags to modules, `ValidModel` is what
the validators of a configuration let pass, `RankSlots`, `SlotGeometry` and `Starts` what
the FSDP backend makes of it, `SlotAccepts` the check of a request, `NewRun`, `Resumes`,
`Compatible` and `SlotTakes` what is recorded of a run, compared at a restart, compared
before a load, and compared by the slot. Two models of one configuration before and after
a restart are two arguments.

### ConfigSignature and PersistentStore

A process has one call in `FileRedis._lock` at a time. In FILE mode it changes the
process's `cache` at once, and the dump opens, fills and moves a temporary file in three
steps; a raise, or the end of the process, may come before each. The server goes through
its start (validation of the signature, search for data, restoration, writing of the
signature), serves saves, deletes and transactions, and the clear command is a second
process. `promised` is what the last acknowledged save of a key wrote; `owners`,
`troubled`, `blind` and `unread` say which excuses there are for records under a wrong
signature and are assigned by nothing but the events they name.

### OpenAIRouter

A call resolves a name, draws an engine's turn, asks all engines to load the adapter
(`Register` is the engine's part, `Remember` the router's, and between them the answer may
get lost) and is forwarded. A name is the training run's id, as in model_resolver.py:79.

### EmbeddedRuntime

Processes with globals and a lock, threads with a program counter, some of them daemons,
for which the exit of the interpreter does not wait, server processes that are launched
by one of them or by hand, and one address file. A server's command line tells the
process scan an address (`told`): that of its `--port` or, where it has none that the scan
reads, the default. Faults are clients that cannot be constructed, exceptions that leave
a health check or the poll of a child (`Escape`), crashes of servers and kills. `adrift`
and `unclaimed` remember the children such an exception, or the exit, took from the call
that launched them; only the properties read them. What happens between two
looks at something other processes change is one action: each discovery step, each poll
of a starting child, each signal, the check and the removal of the file.

### ServerLifecycle

`Construct`, `StartUp` and `Lifespan` follow `create_root_app` and the lifespan; the
engines prepare concurrently and each may raise; a group of FSDP actors is made by the
first `create_adapter` that finds none, in steps of which each may fail or run into its
deadline; every attempt meets at the same address and port, so actors of an earlier one
that failed, `strays`, may be there and take the seats of the new ones (`Guests` in
`Meet`); the shutdown visits training backends, then engines. `Exit` is the end of the
process at any time, which takes its actors along (external: they are not detached).

## 3. Runs

Bounds are CONSTANTS of the specifications (`MaxRestarts`, `MaxSeq`, `MaxCalls`,
`MaxLaunches`, `MaxWrites`, `MaxFaults`, the finite sets) and guards on counters; there is
no state constraint. Deadlock is checked in `Store_core` and `Lifecycle_core`, where
something can always be done. It is not checked in the others: their instances end when
the requests are used up and the process stays up.

| Run | Instance | Shows |
|---|---|---|
| `FutureStore_core` | 2 requests, 2 users, 2 restarts, reliable store | the contract (durable before visible, unchanging, revoked only by recovery, every answer covered by it); answers are durable; memory and store agree |
| `FutureStore_faulty` | 2 requests, 1 user, 1 restart, every save outcome, expiry, cleanup, fair | ids stay fresh; pending futures have tasks; every future completes and every waiter is woken |
| `Training_core` | 1 run, 3 operations of all kinds, 1 restart, backend and configuration faults | effects in sequence; counters in the store beyond checkpoints, names and reported results; checkpoints keep their weights |
| `Training_chaos` | 1 run, 2 operations, all faults, both checkpoint types, chosen names, 1 restart | exclusion and monotone counters survive everything at once |
| `Server_core` | 2 requests on 1 run, saves of both types and optimizer steps, 2 restarts, fair | late futures are failed; successes are counted; cancelled work is not in the weights; every request is resolved |
| `Sampling_core` | 2 sessions, 2 engines, 2 requests of one session, 2 restarts, all faults but lost writes, fair | engines agree; recorded before sampled; sessions and their histories are permanent; tasks run, and in order; creations end |
| `Slots_core` | 2 runs, 2 actors, 1 or 2 slots, 2 operations (gradients then a step of either run, or a checkpoint and a load of the other), data of 0, 1 or 3 items, 1 call that raises (a reset, or an operation part of the way on one or both actors), fair | slots are exclusive and come back; actors agree where operations ended alike; adapters are private; everyone is answered |
| `Adapters_core` | 2 runs, 3 operations of all kinds on one model, refused and half-made adapters, calls that raise before, during or after their work, removals at any time | optimizers are the runs' own; adapters come back; adapters are private |
| `Store_core` | 2 keys, file and Redis, 3 launches with 3 configurations, 2 saves, deletes, clears, dumps that raise, ends of both processes | acknowledged saves are durable; transactions are whole; records are restored under their models; no server is refused without a difference |
| `Runtime_core` | 2 threads of a process, one of them a daemon, 2 addresses, 3 calls or launches by hand, all faults | no stray child and an exit leaves no server, but for children that an exception or the exit took from the call that launched them; no needless launch |
| `Lifecycle_core` | an HF model, 2 groups of 2 actors, 2 engines, 2 runs restored and 2 created, fair | nobody is served before all engines are ready; groups are whole; nothing is left; starts and calls end |
| `OpenAI_stale` | 2 engines, 2 calls, checkpoints of 2 runs and a bare one | violated: a call is answered with the weights of another checkpoint (section 5) |

Some runs carry assumptions that TLC evaluates when it starts. `MCSamplingSessions`:
`HeapKeepsOrder`, for every order of up to six distinct numbers `Push` builds an ordered
heap and `Pop` removes the least. `TrainingBatchCheck` (with `Slots_core`): shards and
micro-batches are the request again, actors agree on their number, accepted fields pass
in every shard, losses find their inputs, sums, means, gradients and outputs do not depend
on the division, for requests of up to 9 rows (fewer where rows have contents), 4 actors,
micro-batches of up to 5. `LoraGeometryCheck` (with `Lifecycle_core`): the theorems of
`ServerLifecycleProofs` about geometry and that their hypotheses are met, over ten models,
seven lists of modules and all flags. `SomeStart`, `SomeDoNot`, `SomeMicroBatchesAreUsed` and
`OneShardCanBeRefused` are there to say that both sides of a case distinction happen.

Why these bounds. A publication race needs two requests and a waiting client, an
ownership race a second user, a stale id a restart and a new request, a cut-short
recovery a second restart. Three operations are a checkpoint, work after it and its
retry; two restarts are a recovery and the recovery of a recovery. Two engines are the
least that can disagree and two sessions the least that compete for their locks; three
entries are the least heap in which siblings are compared. Two actors are the least that
can disagree or wait for each other, one slot the least two runs compete for, and an odd
length of data gives shards of different lengths. Two runs are the least that can mix
their adapters, and three operations let one of the other run come between a forward and
its step. One run is enough for the controller because runs share no state except the
clock of checkpoints, which only orders them. Two keys are a transaction and a bystander;
three launches write, change and come back, and the three configurations differ by order
and capabilities only, by a checked field, and by a model. Two threads meet in `init`
whether they are of one process or, through the file and the ports, of two; three calls
are an init, a shutdown and an init while a server is there.

What the bounds leave out. `Training_core` allows generated names of one type because
section 5 shows what happens otherwise. `Server_core` has saves and steps: forward
passes and loads are requests like them for the futures, and their effects on weights are
in `Training_core`; with them the instance does not finish in five minutes. With
requests of both kinds and a third of them, a directory number that is used twice
(section 5) would also break `CancelledIsNotApplied`. `Runtime_core`
has one process, `Store_core` no failing reads, `Slots_core` not the fault "early" and
`Adapters_core` not the fault "late", for the reasons in section 5.

### Fairness

Weak fairness is given to what the event loop and the thread pool schedule by
themselves: tasks of accepted requests, woken waiters, recovery, the executor's loop,
a creation that began. asyncio locks are first come, first served, and each is taken a
bounded number of times by the finitely many coroutines of an instance, so weak fairness
is enough; in `ServerLifecycle`, where a lock has no queue, `Acquire` is strongly fair
instead. Backend and engine calls return or raise; a call that never returns is outside
the model, and the code has no timeout for it, except where a group of actors is formed.
Loads of engines end, and so does every attempt to form a group, if only because
`torch.distributed` gives a meeting up (`Attempt` is fair as a whole: a step or its end). Nothing obliges a
client to call, a process to end, a checkpoint to be deleted or a timeout to fire.
`FutureStore_faulty` relies on no timeout to wake a retrieve. In `Slots_core` every actor
works through its queue; the fault "early", for which that is not enough (section 5), is
left out. `Store_core`, `Runtime_core` and `Adapters_core` check safety only.

## 4. Proofs

Checked by TLAPS for any constants that satisfy the named assumptions of the modules and
those of a theorem. A hypothesis excludes a fault, or a way to use the server, with which the
property is false: each theorem below says which and section 5 why. In `FutureStoreProofs`
`Reliable` means that saves are full, no key expires and no record is cleaned up.

- `TypeCorrect`, `PublicationsExclude`, `IdsAreFresh` (`FutureStoreProofs`): from the
  inductive invariant `IdInv`. Uniqueness of ids is not inductive: a restart reads ids
  back from the store, so `IdInv` adds that every stored record belongs to a known future
  and has its id, that every known id is below `nextId`, and that the publisher is known.
  `GreatestBelow` and `NextAfterType` say that the id counter rebuilt by
  `_restore_from_redis` is beyond every restored id.
- `NobodyIsForgotten`: what is not completed has a task or was read back by recovery as
  work of a training run. The latter is an exception and not a promise: such a future is
  failed by its run's reconciliation or stays pending for ever (section 5). `TaskInv` is about recovery: what it reads back without an
  event is still pending, and no sample once `MarkPendingSamples` has run.
- `AnswersAreDurable`: under `Reliable` an answered payload is stored. `DurableInv` ties
  the event of a record to its stored copy at each point of a publication and what was
  told to the event.
- `StoreImplementsContract`, `MemoryAndStoreAgree` (`FutureStoreProofs`): under
  `Reliable`, `Spec => ImplementsContract`, that is, every step of the store is a step of
  `FutureContract` or none, with one lemma for each group of actions. The steps include
  the answers: an owner is given a durable outcome, or the empty answer while its future
  is "denied". `AgreeInv` adds what is true inside a publication (the record has the
  outcome, the store will get it before the event is set), that only the publisher's own
  record differs from what is stored (`Whole`) and what a record shows (`Shown`), and
  what holds between a crash in a marking loop and the next start.
- `OperationsExclude` (`TuftServerProofs`): `LockInv` says that whoever waits is
  in the queue of its run's lock and whoever executes is its head; two heads are equal.
- `SequenceIdsDoNotRewind`: the stored counter of a run never decreases. Several writers
  store the record, one of them from a copy made earlier, so `CountInv` says that the
  copy of the operation that holds the lock still has the counter of memory (`Fresh`), and
  that nothing stored is ahead of memory. The first needs `LockInv`: nobody else counts
  while a copy is on its way. No assumption about faults is made.
- `EverythingIsTyped` (`TuftServerProofs`): types under all faults. What is not
  obvious is that every checkpoint's name is in `Names`, though `next_checkpoint` counts
  without a guard: `NamesInv` bounds the counters by the number of operations that have
  begun, for which `OpsAssumption` says that there are finitely many.
- `NumbersAreUsedUp`, `OperationsTakeEffectInSequence`: `CompletedIsCounted`,
  `CheckpointsBelowCounter` and `EffectsInSequence`, for every kind of operation, names,
  both types and all faults but two (`Reliable`: the store refuses no write, nobody
  unloads the run). `SettledInv` follows the effects of operations: in a directory, and
  in the weights a save is about to write, there are only operations whose number is
  stored (`Settled`); in an adapter there is beside those at most the holder of the lock,
  whose number is not stored yet (`Underway`). So the counter that a restart reads is
  beyond everything a restore may bring back. Without `Reliable` it is false: a write
  that is lost leaves the checkpoint without the number.
- `NamesAreUsedUp`, `StoredCountersCover`: `StoredCounterCoversNames`, and with the two
  before it all of `CountersCover`. `NumberedInv` says that the checkpoint being made has
  a name below the counter in memory and that the copy on its way to the store has that
  counter. Hypothesis `GeneratedNames`: clients choose no names, and `set_visibility` does
  not store the record of a checkpoint whose save is under way. Writes may be lost.
- `RecordsFindTheirFiles`: `CheckpointsKeepTheirWeights`, with lost writes, failing
  backends and the process ending anywhere. `FilesInv` says that the directory a save
  writes into has a name no stored record has, until its own record is stored, complete.
  Hypothesis `KeptFiles`: `GeneratedNames`, one type of checkpoint in use (both share
  directories), no `delete_checkpoint`.
- `ServerImplementsController`, `ServerImplementsFutureStore` (`TuftServerProofs`):
  `ServerSpec => Spec` and `ServerSpec => Futures!Spec`, for any constants and faults, so
  that what is proved of the two parts holds in the server. What the parts do not know
  of each other is that an operation has the future of its own task (`LinkInv`: no task
  runs twice, and one that is told to begin has begun nothing), that it ends with the
  outcome its future is told (`DoneInv`), and that F is the id of a future: that needs
  `DatedInv`, since recovery takes F from the latest checkpoint, which has to be one
  (dates are unique) and to carry an F that was given out.
- `SuccessesAreCounted`: `SuccessIsCounted`, under `Reliable` of the controller. The parts
  are written counter first; the invariant of `NumbersAreUsedUp` says that the counter is
  stored once the operation is done, `LinkInv` that the future has that outcome, and both
  stay true through recovery, which only takes successes back.
- `FuturesPastTheBoundaryFail`: `LateFuturesFailed`, without hypothesis. `LateInv` says
  that recovery reconciles one run at a time, to the end or to the end of the process;
  that a future read back from the store has no task, so that nothing but recovery
  changes it, and what recovery failed stays failed; and that a run recovery has passed
  stays as corrupted, or as intact, as it was (`IntactBefore`).
- `CancelledWorkIsGone`: `CancelledIsNotApplied`, under `RightWeights`: `KeptFiles`, no
  fault "config", and, where clients load, one run and no fault "backend". The ids of
  futures and the Fs of checkpoints go up together (`OrderedInv`): a save reads the last
  id as it gets in line for the lock, whoever is ahead of it in the line has a lower one
  (`Line`, `Asked`), and so has what is in the weights at its turn (`Covers`, `InOrder`).
  What recovery puts back is thus no younger than the boundary (`Bounded`), and what it
  fails is; or the run is given up, with nothing in its adapter (`CorruptInv`), before its
  futures are failed. `MemoryInv` says that a load takes what a record says and `PastInv`
  that what is cancelled has no coroutine any more. With these `WithdrawnInv` is inductive:
  a cancelled operation belongs to a run given up, or is in no weights and no checkpoint.
- `EnginesAlwaysAgree` (`SamplingSessionsProofs`): for any number of sessions, engines,
  faults and restarts. `EnginesAgree` speaks of a server that serves; `AdapterInv` adds
  what is true on the way there: how far the creation of a session has come tells what
  each engine may hold (`Adding`: a roll back must not have missed an engine that is
  still loading), and during a restart every session is served, still to be rebuilt or to
  be dropped, one of the three (`Booting`). The shapes of the records are part of it
  (`Shape`), full types are not: nothing about histories or executors is needed.
- `AnswersAreInTheHistory`, `ReturnedSessionsStay` (`SamplingSessionsProofs`):
  `RecordedBeforeSampled` and the action property `SessionsArePermanent`. `HistoryInv`
  ties memory to the store (`History`: the private index is the history, and the store is
  not ahead of it) and requests to both (`Answered`). It needs that an executor runs only
  tasks of its own session (`Executing`), hence that `Push`, `Pop` and `Lift` keep the
  entries of the heap, which is proved of heapq as modelled, also where a comparison
  raises half-way; that they keep the order is not needed. Hypothesis `Durable`, the store
  refuses no write: `save_record` swallows a refusal, and the request is answered.
- `SlotsStayExclusive` (`FSDPSlotsProofs`): for any number of runs, actors, slots and
  calls that raise. The property speaks of the slot a run holds; `SlotInv` adds that the
  lead has marked every claimed slot, that a run's call to the lead agrees with its
  progress and is the only one (`SlotCalls`), and that a run without an answer claims
  nothing (`Progress`). The backend's lock is not needed: the order of the lead's calls
  is enough. `LeastOf` says that the first free slot exists and is free.
- `SlotsAlwaysComeBack`: a slot marked on the lead has a run that was lent it and claims
  it, or one of whose calls raised. `UseInv` follows the claim from the lead's answer to
  the backend's map and from there to the release in the lead's queue, and says that it
  is the same slot all the way (`Lent`, `LeadCalls`).
- `SlotsImplementPrivateAdapters` (`FSDPSlotsProofs`): `Spec => AdaptersArePrivate`, the
  refinement of `PrivateAdapters`, for any number of runs, actors, slots and operations
  and all faults. The end of a creation is `Create`; a step of the lead's queue is a step of
  the specification: a release or a reset that raises `Remove`, an operation that raises
  `Fail`, with what it did in part, one that returns `Perform`; all else stutters, among it `remove_adapter`, whose
  release is still in the queue. `HeldSlot` finds a run's slot there. `PrivateInv` says
  that an operation in the lead's queue is about the slot its run has at that time, whose
  release, if it is queued, is behind it (`OwnSlot`): no operation meets a slot that was
  lent again. It adds that the slot of a creation that has not been answered is fresh
  and that no operation is in the queue twice.
- `ActorsAlwaysAgree`: `ActorsAgree` for any number of runs, actors and operations and all
  faults. Actors are at different places in their queues, so `AgreeInv` speaks of what
  each will have in a slot when its queue is empty: `Leading` follows the results of the
  calls about the slot that are left there, one after the other (`Path`), also of those
  that will raise part of the way, and its end is the same on all actors (`Agreeing`).
  The exception is a run that an operation tears, because it raises on some actors only or
  not at one point: from the time it is queued (`Tearing`) until the slot is given back
  (`Torn`). What is queued about a slot is its run's (`OwnCalls`), so nothing of it meets
  another run; and a slot is lent anew only when nothing about it is queued on the lead,
  and on the others behind a call that resets it (`Reserving`, `Awaited`).
- `OptimizersStayOwn`, `AdaptersAlwaysComeBack` (`HFAdaptersProofs`): `OwnInv` says that
  an optimizer is its run's own, whose adapter is in the model, whatever raises and
  whatever loads come late. `LifeInv` adds that it is there if and only if its run is
  alive, and that the adapters in the model are those of runs that are alive and those
  whose creation raised half-way; that needs the hypothesis `Prompt` (no fault "late"),
  and is false without it.
- `OneModelServesAll`: under `Prompt`, `HFAdapters` implements `PrivateAdapters`, with one
  lemma per action, also for calls that raise half-way (`Fail`). A step of the actor acts on
  whatever is active, so the argument is that activation and `OwnInv` make that, and the
  parameters its optimizer steps, the run's own.
- `EnginesServeTogether`, `RecordedGroupsAreWhole`, `ShutdownLeavesNothing`
  (`ServerLifecycleProofs`): for any number of engines, groups, actors and requests,
  whatever raises and whoever takes part in a meeting. `GroupInv` says that a group may be
  half made only while a request holds its lock, and then is not recorded; `CloseInv` that during a shutdown what still
  lives is still to be visited. The two meet in `CallInv`: requests are served only while
  nothing is being closed, so a shutdown finds no lock held. That backends of different
  kinds are different (`BackendsAssumption`) is all that is assumed of them.
- `ForwardedNamesAreKnown` (`ServerLifecycleProofs`): for any number of engines, calls and
  checkpoints, what the router remembers is so, and a forwarded call meets an engine that
  knows its name. `RouterInv` adds what each call has been told by each engine
  (`CallsToldTrue`). That
  the name means the checkpoint is false (section 5).
- `ExitsStopTheirServers`, `LaunchesAreNeeded`, `ChildrenAreKnown`
  (`EmbeddedRuntimeProofs`): `ExitStopsServers`, `NoNeedlessLaunch` and `NoStrayChild`,
  for any number of threads, processes, servers and calls.
  `InCalls` says that one thread of a process at a time is inside the lock. A server's id
  is used once and a server only ages, so what served when a discovery began serves all
  the while or never again (`Looked`), at the address its command line tells or out of
  the scan's sight (`Hidden`). Every living child is registered for exit, in the hands of
  an `init`, or adrift (`Minded`, `Kept`), and it is the one the global names, unless
  it is adrift or unclaimed (`OneChild`, `Loose`): those two sets get a child only from an
  exception that leaves its `init`, from the end of the process its daemon runs in, or
  from a client that could not be constructed. All faults are allowed.
- `AcknowledgedStaysDurable` (`PersistentStoreProofs`): for any keys, in a file and in
  Redis, whatever raises and whenever processes end. `DurableInv` says that a server and a
  clear never use the file together (`Alone`), hence that the file a process moves has
  what the process has in memory (`Moved`), and that memory and disk have what was
  promised (`Kept`), also where memory has more, for a dump that raised.
- `TransactionsStayWhole`: `SavesAreAtomic` without hypothesis. `AtomicInv` states the
  order of values for every image: the disk, the temporary file, each memory, and for a
  Redis transaction on its way that it is newer than what it meets.
- `ServersTakeTheirOwnRecords`: `RestoredUnderItsModels`. `OwnerInv` says that at any
  time all records, and signatures, wherever they are, belong to one set of models; that
  a server which passed `validate_config_signature` has those; and that what it reads as
  empty is empty on the disk too (`Mirrored`).
- `RefusalsAreJustified`: `RefusedOnlyOnMismatch`. `SignInv` says that no image has
  records without a signature, and each signature is of a server that came that far
  (`Beside`), unless a start met a failing store or a clear a running server (`troubled`).
  The hypothesis of this theorem, the one before and the first is `Apart`, no fault
  "online". `ConfigsAssumption` says that the signatures of configurations, which have
  the fields of `AppConfig`, are values and not absent ones.
- `MicroBatchesAgree` and the four after it (`FSDPSlotsProofs`): for any number of rows, actors and micro-batch size, shards are
  even and contiguous and actors make equally many micro-batches; fields accepted in the
  whole request are accepted in every part of it; no position with a default weight is
  scored against another row.
- `MaxRankIsServed`, `StartedServersAreUsable`, `RecordsTellTheSlots`,
  `AcceptedLoadsFit`, `ResumedRunsTakeOldCheckpoints`, `OwnCheckpointsLoad`
  (`ServerLifecycleProofs`): for every configuration, request and checkpoint, what one
  check accepts the next one takes: a server that starts accepts some client, a run records
  what its slot has, a run that goes on under a new configuration still takes the
  checkpoints it could load before, a checkpoint that the
  controller accepts passes the slot's check, and a run's own checkpoints load.

Only model-checked: what must eventually happen (`EveryFutureCompletes`,
`EveryRequestResolves`, `QueuedTasksRun`, `CreationsEnd`, `EveryoneIsAnswered`,
`StartsAndCallsEnd`), since TLAPS cannot treat fairness or ENABLED here. Every other
property of a run is stated by a theorem, but for `AnsweredByNamed`, which is false.
Nor is there induction over data, so the order of the executor's heap,
the concatenation of shards and the sums of `TrainingResults` are compared with their
purpose on bounded inputs only (`FSDPResultsAreTheRequest`, `ShardsAreTheRequest`,
`HeapKeepsOrder`). No module declares a recursive operator.

## 5. Where the code falls short

One run ends in a violation, `OpenAI_stale`: the router remembers, and the engines
register, an adapter under the training run's id (model_resolver.py:79, router.py:178), so
the second checkpoint of a run that is asked for is answered with the weights of the
first. `PROJECT.json` quotes the line it contradicts under `findings`.

What else was met while modelling. Where an instance excludes a case so that the
properties hold, the reason is here.

*Futures and recovery*

- `retrieve` of somebody else's pending request marks it failed (futures.py:482), and
  its owner then receives an empty payload while the operation still runs, later its
  outcome. Nothing of that is stored. `FutureContract` has it as `Deny` and `Withdraw`.
- Futures queued before a save and unfinished at a crash have an id up to F and stay
  pending for ever (state.py:211).
- F is read before the execution lock is granted (state.py:319): work that runs after
  the save may be older than F and keeps its success although the weights lost it.
- A run that cannot be restored is stored as corrupted before its futures are
  reconciled (training_controller.py:1153). If the process ends in between, the next
  recovery takes the branch for corrupted runs (state.py:176-187), which fails pending
  futures only: successes past the boundary stay. `LateFuturesFailed` therefore speaks of
  runs that can be restored (`Intact`).
- A recovery with training disabled fails the pending futures of a run with the advice to
  enable it and retry (state.py:188-200), but their operations may be in the latest
  checkpoint. A start that enables it again restores the run with those weights, and the
  retry applies the work twice: with the fault "config", `CancelledIsNotApplied` fails.
- A recovery whose load fails stores the run as corrupted. The next start passes it over
  and fails its pending futures (state.py:176-187), though their operations may be in its
  checkpoints, from which a client may still load: then a cancelled step is back in the
  weights, and `CancelledIsNotApplied` fails. So it does when another run has loaded the
  weights before, and its checkpoint is loaded in turn.
- The id counter is rebuilt from stored futures; when the newest have expired it goes
  back (futures.py:150). Ids still never collide with a known one (`FreshIds`), but
  docs/persistence.md speaks of a monotone order.

*Training runs and checkpoints*

- Training and sampler checkpoints are numbered separately but share directories
  (training_controller.py:654-660, checkpoints.py:389): number 1 of one type replaces the
  files of number 1 of the other.
- A save under a name that exists replaces the files in place before its record is
  stored; a crash in between leaves the old record with new weights.
- `delete_checkpoint` removes files before records; after a crash in between, recovery
  tries only the latest record and gives the run up although an older one is intact.
- `set_visibility` stores a checkpoint record without the counters of its run, also for
  one whose save has not stored them yet.
- `unload_model` takes no lock, and its `evict_model` compares the id of the run with
  ids of sampling sessions (sampling_controller.py:281, 436): it evicts nothing, and
  adapters of sessions are never removed from the engines. A session that a crash stored
  but did not return is restored for ever.
- With changed `fsdp_train_*` flags a run that has no checkpoint passes the comparison of
  its recorded geometry (`Resumes`), but `create_adapter` refuses it; that is logged only
  (training_controller.py:1095-1110), and the run goes on, not corrupted, without an
  adapter.

*Executor*

- Repeated sequence numbers are compared as dictionaries inside heapq and can end the
  executor of a session (sequence_executor.py:42, 60). `Sampling_core` has different
  numbers; with three requests of two numbers `QueuedTasksRun` fails.

*Backends*

- Data that only one FSDP actor refuses (a row without tokens, targets of another length)
  makes it raise in `_prepare_micro_batch` (fsdp_engine.py:105, 125), before its
  collectives or between two of them; the others wait in theirs for ever, and with them
  the actors' queues. `OneShardCanBeRefused` is a witness, `AcceptedFieldsPassInEveryPart`
  says that fields are no other. The fault "early" of `FSDPSlots` models it; with it
  `EveryoneIsAnswered` fails. That collectives nobody joins wait, and are not given up by
  a watchdog of NCCL, is assumed of them.
- An operation that raises on some FSDP actors only, in `opt.step`, in the read of
  `optimizer.pt` or in the lead's write (fsdp_training_backend.py:687, 871, 699-813), or at
  different points, leaves their shards of the adapter different, and nothing notices:
  the client sees an error, and the next operation of the run goes on with them.
  `ActorsAgree` excepts such a run until its slot is given back.
- Without Ray, the FSDP backend looks the slot up before it waits for its lock
  (fsdp_training_backend.py:1394), so that a removal and a creation queued before it lend
  the slot to another run. Not modelled: only the mode with Ray is.
- A slot whose reset raised stays marked and is lent no more (fsdp_training_backend.py:878,
  896).
- An operation that raises does not put back what it had done: a forward_backward that
  fails in a later micro-batch leaves the gradients of the earlier ones, which a retry
  adds again (hf_training_model.py:400, fsdp_engine.py:327-371); a load that fails at the
  optimizer has replaced the weights (hf_training_model.py:302, fsdp_training_backend.py:846).
  It stays in the run's own adapter; that is all `AdaptersArePrivate` says of it.
- A creation of an HF adapter that raises after `add_adapter` (hf_training_model.py:210)
  leaves the adapter in the model: `remove_adapter` knows it by its optimizer only.
- The HF actor's `load_state` makes an adapter if there is none: one that runs after the
  removal brings the adapter back, for good. With the fault "late", `AdaptersComeBack`
  fails.
- The last position of a row is scored against the first token of the next one. Its
  default weight is zero (`NoForeignLabels`), but weights that a client sends without
  `target_tokens`, and the losses with advantages, count it, so that the loss depends on
  which rows share a micro-batch (fsdp_engine.py:256-263).
- HF refuses a `cross_entropy` request without `weights` that FSDP accepts
  (`LossesFindTheirInputs`).
- FSDP `load_checkpoint` leaves accumulated gradients, and the optimizer when the
  checkpoint has none (`After`); HF begins a new one (`Resumed`).

*Start and end of a server*

- The ranks of a group whose formation failed may still be in `init_dist`, at the same
  port, when the next call starts a new group, and take the seats of the new ones: then
  the attempt is given up when the others time out, or goes on. `GroupsAreWhole` says of a
  recorded group that each of its own actors came through the meeting and built a worker,
  not that no guest has a place in the process group of `torch.distributed`. The port is
  `fsdp_master_port` plus an index and may be taken.
- An engine whose GPUs are never scheduled keeps `prepare` waiting for ever; the deadline
  of `_wait_for_openai_server` ends in a warning. The port of an engine's API is found by
  a bind and released before it is used.

*Key-value store*

- A start that could not read the file takes it for empty and overwrites it
  (file_redis.py:63); `AcknowledgedIsDurable` excludes it (`unread`), and
  `RestoredUnderItsModels` also the case that the search for data raised (`blind`).
- A delete that is repeated after a dump that failed finds nothing in memory and is
  acknowledged without a write (file_redis.py:151-160). `RedisPipeline.__exit__` swallows
  what its dump raises, so that `save_records_atomic` reports success; hence only single
  saves are promises. A signature that could not be saved is a warning (server.py:96).
- `tuft clear persistence` on a file that a server uses shares the temporary file with
  it; with the fault "online", which models it, `AcknowledgedIsDurable` fails.

*Embedded runtime*

- A call of `init` that raises after it set the key leaves it behind
  (runtime/\_\_init\_\_.py:149-151, 305, 314), for the next one to use; a key that is given
  together with `model=` is ignored.
- A process that ends by a signal or a crash leaves its child: docs/embedded-mode.md:98
  says that services end with the process, which the handlers of an exit do
  (`ExitStopsServers`) and a kill does not.
- An exception that is none of `ConnectError`, `TimeoutException` and `OSError` leaves the
  poll of a starting child (_launcher.py:144-149) and `start`, before `_terminate` and
  before `atexit.register`: the child lives on in a session of its own, no exit stops it,
  and the next `init` may put another in its place. A Ctrl-C during the poll does the same.
  `NoStrayChild` and `ExitStopsServers` except it (`adrift`). A Ctrl-C elsewhere, for one
  between the launch and the poll, is not modelled.
- A child for which the client cannot be constructed stays registered for the exit, but
  `init` has failed, and the next may replace it in `_embedded_server`; `NoStrayChild`
  excepts it (`unclaimed`).
- The process scan takes the port from `--port N` and `-p N` only (_discovery.py:82-91). A
  server started with TUFT_PORT or `--port=N` at another port than the default is not
  found once the address file is stale: `NoNeedlessLaunch` speaks of servers that answer
  where their command line tells. All addresses are on one host.
- A daemon thread is cut off where it is when the interpreter exits; a child it waits for
  is then left (`adrift`), as is one that answers only once the handlers run. What a
  daemon's `shutdown` and a handler do to the fields of one server at the same time is not
  modelled.
- Two processes that launch at one port: the one whose child fails to bind removes the
  address file of the other's. A start that failed leaves its address file, which
  discovery then skips.

*OpenAI routes*

- A checkpoint without an adapter directory is answered by the base model, silently
  (`Bare`); errors of the HTTP client become a 500; names listed for models are made from
  session ids; vLLM's integer ids of adapters loaded here may be those that
  sampling_backend.py:353 counts.

## 6. What is left out

Not modelled: request validation and wire formats, metrics, tracing and logging, tensor
contents and the formulas of losses, generation, the mode of the FSDP backend without
Ray, the dummy backends, streaming, the configuration the embedded runtime generates,
patches of third-party loaders, and the components that section 1 says so of: sessions
and authentication, command line, console, telemetry and the compatibility layer, which
keep no state that several steps depend on. Listings and ownership checks change nothing
and are left out everywhere. The key-value store is atomic per key and per transaction in
all modules but `PersistentStore`; TTLs are keys that may expire at any time.

Worth doing next, in order:

1. *Sampling in the composition*: samples as futures in `TuftServer`, and sessions made by
   `save_weights_for_sampler` (server.py:456), whose second half may fail after the first
   has been counted.
2. *The controller over its backends*: `TrainingController` with `PrivateAdapters` in
   place of its own weights, so that retries meet the gradients of failed calls.
3. *The FSDP backend without Ray*, with its lookup before the lock.
