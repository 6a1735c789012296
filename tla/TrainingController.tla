-------------------------- MODULE TrainingController --------------------------
(***************************************************************************)
(* The training runs of the server (training_controller.py).  Each run     *)
(* keeps a counter of the sequence number it expects next, a map of        *)
(* checkpoints per type and an execution lock; the operations of its       *)
(* clients are coroutines that pass a sequence guard under that lock.      *)
(* Everything is written to the key-value store by worker threads, weights *)
(* live in the adapters of a training backend and in checkpoint            *)
(* directories, and a restart rebuilds the adapters from those.            *)
(*                                                                         *)
(* Weights are abstracted to the set of operations whose effect they       *)
(* contain: forward_backward puts an operation into the gradients of the   *)
(* adapter, optim_step moves the gradients and itself into the weights.    *)
(*                                                                         *)
(* An operator whose name begins with Mutant is a plausible bug in the one *)
(* that follows it; no specification uses it.                              *)
(***************************************************************************)
EXTENDS Naturals, FiniteSets, Sequences

CONSTANTS
    Runs,           \* model ids; uuids, never reused
    Ops,            \* coroutines, one per accepted request
    Kinds,          \* the kinds of operation clients ask for
    Types,          \* the checkpoint types in use
    NameArgs,       \* the names clients ask for; AutoName stands for none
    MaxSeq,         \* bound on sequence numbers
    MaxFuture,      \* bound on the future ids passed to save_checkpoint
    Faults,         \* which faults the environment may inject
    MaxRestarts     \* bound on the number of process ends

(* Checkpoint names are numbers: n is "checkpoint-000n", which a client    *)
(* may also ask for by name; AutoName asks for the next free number.       *)
AutoName == 0
NoSeq == 0

(* "lost": the store refuses a write; "backend": a backend call raises;    *)
(* "delete", "unload", "visibility": clients call the operations that do   *)
(* not take the execution lock; "config": training may be switched off, or the      *)
(* run's geometry may stop matching, from one process to the next.         *)
Fault == {"lost", "backend", "delete", "unload", "visibility", "config"}

ASSUME RunsAssumption == Runs # {}
ASSUME OpsAssumption == IsFiniteSet(Ops)
ASSUME KindsAssumption ==
    Kinds \subseteq {"forward", "forward_backward", "optim_step", "save", "load"}
ASSUME TypesAssumption == Types \subseteq {"training", "sampler"}
ASSUME NameArgsAssumption == NameArgs \subseteq Nat
ASSUME FaultsAssumption == Faults \subseteq Fault
ASSUME BoundsAssumption == MaxSeq \in Nat /\ MaxFuture \in Nat /\ MaxRestarts \in Nat

(* A run saves at most once per operation.                                 *)
Names == (NameArgs \cup 1..Cardinality(Ops)) \ {AutoName}

(* A CheckpointRecord.  `created` orders the records as created_at does;   *)
(* `weights`, the contents at the time of the save, is there for the       *)
(* properties only.                                                        *)
Checkpoint ==
    [type: Types, name: Names, created: Nat, future: Nat, weights: SUBSET Ops]

Run == [nextSeq: Nat, nextName: [Types -> Nat], corrupted: BOOLEAN]
Adapter == [here: BOOLEAN, weights: SUBSET Ops, grads: SUBSET Ops]
Directory == [state: {"absent", "partial", "complete"}, weights: SUBSET Ops]

Stages == {"new", "waiting", "executing", "storing", "writing",
           "counting", "finishing", "done", "lost"}
Results == {"none", "ready", "failed"}

VARIABLES
    phase,      \* the life of the server process
    restarts,   \* process ends so far
    enabled,    \* this process has a training backend for the base model
    runs,       \* keys of TrainingController.training_runs
    run,        \* the fields of the run records that are serialised
    ckpts,      \* the checkpoint maps of the run records
    queue,      \* the execution lock of a run: its holder and waiters, in order
    op,         \* the arguments of an operation
    stage,      \* where its coroutine stands
    result,     \* how it ended
    making,     \* the checkpoint a save operation is working on
    snap,       \* what its worker thread has serialised and not yet written
    adapters,   \* the adapters of the backend
    dirs,       \* the checkpoint directories
    dbRuns,     \* keys of the training runs in the key-value store
    dbRun,      \* their contents
    dbCkpts,    \* the checkpoint records stored for a run
    clock,      \* order of checkpoint creation
    created,    \* model ids handed out so far
    unloading,  \* runs whose unload_model is past the backend call
    recovered   \* runs this process has restored

coroutines == <<queue, op, stage, result, making, snap>>
objects == <<runs, run, ckpts>>
durable == <<dbRuns, dbRun, dbCkpts>>
control == <<phase, restarts, enabled, created, unloading, recovered>>
trainingVars == <<control, coroutines, objects, durable, adapters, dirs, clock>>

-----------------------------------------------------------------------------
(* Helpers *)

FreshRun == [nextSeq |-> 1, nextName |-> [t \in Types |-> 1], corrupted |-> FALSE]
NoAdapter == [here |-> FALSE, weights |-> {}, grads |-> {}]
FreshAdapter == [here |-> TRUE, weights |-> {}, grads |-> {}]
NoDirectory == [state |-> "absent", weights |-> {}]
AnyRun == CHOOSE m \in Runs : TRUE
NoArguments == [run |-> AnyRun, source |-> AnyRun, kind |-> "forward", seq |-> NoSeq,
                type |-> "training", name |-> AutoName, future |-> 0]
NoCheckpoint == [type |-> "training", name |-> 1, created |-> 0, future |-> 0, weights |-> {}]
NothingToWrite == [run |-> FALSE, value |-> FreshRun, ckpts |-> {}]

(* What the execution lock of o protects.                                  *)
Mine(o) == op[o].run

(* The newest of the records S: max(..., key=created_at) takes one of these. *)
Latest(S) == {c \in S : \A d \in S : d.created <= c.created}

(* _save_training_run: a save that finds no record does nothing.           *)
StoreRun(m, value) ==
    \/ /\ dbRuns' = dbRuns \cup {m}
       /\ dbRun' = [dbRun EXCEPT ![m] = value]
    \/ /\ "lost" \in Faults
       /\ UNCHANGED <<dbRuns, dbRun>>

StoreCheckpoints(m, S) ==
    dbCkpts' = [dbCkpts EXCEPT ![m] =
        {d \in @ : \A c \in S : d.type # c.type \/ d.name # c.name} \cup S]

Serving == phase = "serving"

MutantRelease(o, res) ==
    queue' = IF res = "failed" THEN queue ELSE [queue EXCEPT ![Mine(o)] = Tail(@)]

Release(o, res) == queue' = [queue EXCEPT ![Mine(o)] = Tail(@)]

(* The coroutine of o ends and lets go of the execution lock, whatever its *)
(* result.                                                                 *)
Finish(o, res) ==
    /\ stage' = [stage EXCEPT ![o] = "done"]
    /\ result' = [result EXCEPT ![o] = res]
    /\ Release(o, res)
    /\ making' = [making EXCEPT ![o] = NoCheckpoint]
    /\ snap' = [snap EXCEPT ![o] = NothingToWrite]
    /\ UNCHANGED op

GoTo(o, s) == stage' = [stage EXCEPT ![o] = s]

-----------------------------------------------------------------------------
(* create_model: the client learns the id after the run was stored, so     *)
(* nobody acts on the run between the adapter and the save.                *)
CreateModel(m) ==
    /\ Serving /\ enabled
    /\ m \notin created
    /\ created' = created \cup {m}
    /\ adapters' = [adapters EXCEPT ![m] = FreshAdapter]
    /\ runs' = runs \cup {m}
    /\ StoreRun(m, FreshRun)
    /\ UNCHANGED <<phase, restarts, enabled, unloading, recovered, run, ckpts, coroutines,
                   dbCkpts, dirs, clock>>

-----------------------------------------------------------------------------
(* The operations, up to the execution lock *)

(* load_checkpoint resolves its source before it waits for the lock: the   *)
(* directory must have metadata, the record must be in the map.            *)
Loadable(src, t, n) ==
    /\ src \in runs
    /\ dirs[src][n].state # "absent"
    /\ \E c \in ckpts[src] : c.type = t /\ c.name = n

(* The checks of run_forward, run_optim_step, save_checkpoint and          *)
(* load_checkpoint.                                                        *)
Accepts(m, k, src, t, n) ==
    /\ m \in runs
    /\ enabled
    /\ k = "save" => ~run[m].corrupted
    /\ k = "load" => Loadable(src, t, n)

(* The coroutine gets in line for the execution lock, an asyncio.Lock,     *)
(* which serves its waiters in order, without giving up the event loop.    *)
(* Only run_forward and run_optim_step update the activity of the run,     *)
(* which stores the whole record.                                          *)
Start(o, m, k, s, src, t, n, F) ==
    /\ Serving
    /\ stage[o] = "new"
    /\ m \in created
    /\ op' = [op EXCEPT ![o] = [run |-> m, source |-> src, kind |-> k, seq |-> s,
                                type |-> t, name |-> n, future |-> F]]
    /\ IF Accepts(m, k, src, t, n)
       THEN /\ stage' = [stage EXCEPT ![o] = "waiting"]
            /\ queue' = [queue EXCEPT ![m] = Append(@, o)]
            /\ UNCHANGED result
            /\ IF k \in {"save", "load"} THEN UNCHANGED <<dbRuns, dbRun>>
                                         ELSE StoreRun(m, run[m])
       ELSE /\ stage' = [stage EXCEPT ![o] = "done"]
            /\ result' = [result EXCEPT ![o] = "failed"]
            /\ UNCHANGED <<queue, dbRuns, dbRun>>
    /\ UNCHANGED <<control, objects, making, snap, dbCkpts, adapters, dirs, clock>>

-----------------------------------------------------------------------------
(* _with_sequence_guard *)

MutantCanEnter(o) == Serving /\ stage[o] = "waiting"
CanEnter(o) == Serving /\ stage[o] = "waiting" /\ Head(queue[Mine(o)]) = o
MutantExpected(o) == op[o].seq <= run[Mine(o)].nextSeq
Expected(o) == op[o].seq \in {NoSeq, run[Mine(o)].nextSeq}

(* SequenceConflictException.                                              *)
Conflict(o) ==
    /\ CanEnter(o)
    /\ ~Expected(o)
    /\ Finish(o, "failed")
    /\ UNCHANGED <<control, objects, durable, adapters, dirs, clock>>

Enter(o) ==
    /\ CanEnter(o)
    /\ Expected(o)
    /\ op[o].kind # "save"
    /\ GoTo(o, "executing")
    /\ UNCHANGED <<control, objects, durable, queue, op, result, making, snap, adapters, dirs, clock>>

SaveName(o) ==
    IF op[o].name = AutoName THEN run[Mine(o)].nextName[op[o].type] ELSE op[o].name

MutantTakeName(o) == UNCHANGED run

(* The counter of the type moves on, also for a name the client chose.     *)
TakeName(o) == run' = [run EXCEPT ![Mine(o)].nextName[op[o].type] = @ + 1]

MutantNewCheckpoint(o) ==
    [type |-> op[o].type, name |-> SaveName(o), created |-> clock + 1,
     future |-> 0, weights |-> adapters[Mine(o)].weights]

NewCheckpoint(o) ==
    [type |-> op[o].type, name |-> SaveName(o), created |-> clock + 1,
     future |-> op[o].future, weights |-> adapters[Mine(o)].weights]

(* A save goes on to choose its name, create the directory and call the    *)
(* backend, which writes into it.                                          *)
EnterSave(o) ==
    /\ CanEnter(o)
    /\ Expected(o)
    /\ op[o].kind = "save"
    /\ GoTo(o, "executing")
    /\ TakeName(o)
    /\ clock' = clock + 1
    /\ making' = [making EXCEPT ![o] = NewCheckpoint(o)]
    /\ dirs' = [dirs EXCEPT ![Mine(o)][SaveName(o)] = [state |-> "partial", weights |-> {}]]
    /\ UNCHANGED <<control, durable, runs, ckpts, queue, op, result, snap, adapters>>

(* The counter moves in the same step in which the operation returns.      *)
Count(o) == run' = [run EXCEPT ![Mine(o)].nextSeq = IF op[o].seq = NoSeq THEN @ ELSE @ + 1]

(* The backend call of a forward, optimizer step or load returns.          *)
Effect(o, a) ==
    CASE op[o].kind = "forward"          -> a
      [] op[o].kind = "forward_backward" -> [a EXCEPT !.grads = @ \cup {o}]
      [] op[o].kind = "optim_step"       -> [a EXCEPT !.weights = @ \cup a.grads \cup {o},
                                                      !.grads = {}]

Computing(o) == Serving /\ stage[o] = "executing" /\ op[o].kind # "save"

Compute(o) ==
    /\ Computing(o)
    /\ op[o].kind # "load"
    /\ adapters[Mine(o)].here
    /\ adapters' = [adapters EXCEPT ![Mine(o)] = Effect(o, @)]
    /\ Count(o)
    /\ GoTo(o, "counting")
    /\ UNCHANGED <<control, durable, runs, ckpts, queue, op, result, making, snap, dirs, clock>>

(* A load brings the weights back; gradients that were accumulated stay or *)
(* go with the parameters the backend replaces.                            *)
Source(o) == dirs[op[o].source][op[o].name]

Load(o) ==
    /\ Computing(o)
    /\ op[o].kind = "load"
    /\ Source(o).state = "complete"
    /\ \E g \in {{}, adapters[Mine(o)].grads} :
        adapters' = [adapters EXCEPT ![Mine(o)] =
                        [here |-> TRUE, weights |-> Source(o).weights, grads |-> g]]
    /\ Count(o)
    /\ GoTo(o, "counting")
    /\ UNCHANGED <<control, durable, runs, ckpts, queue, op, result, making, snap, dirs, clock>>

(* The call raises: the adapter is gone, the files are unusable, or the    *)
(* backend fails.  A batch is processed in micro-batches, so that a        *)
(* forward_backward that fails may have accumulated part of its gradient.  *)
ComputeFails(o) ==
    /\ Computing(o)
    /\ \/ "backend" \in Faults
       \/ op[o].kind # "load" /\ ~adapters[Mine(o)].here
       \/ op[o].kind = "load" /\ Source(o).state # "complete"
    /\ Finish(o, "failed")
    /\ \/ UNCHANGED adapters
       \/ /\ "backend" \in Faults
          /\ op[o].kind = "forward_backward" /\ adapters[Mine(o)].here
          /\ adapters' = [adapters EXCEPT ![Mine(o)].grads = @ \cup {o}]
    /\ UNCHANGED <<control, objects, durable, dirs, clock>>

(* The backend has written the files: metadata.json is added and the       *)
(* record enters the map of the run.                                       *)
SaveState(o) ==
    LET m == Mine(o)
        c == making[o]
    IN  /\ Serving /\ stage[o] = "executing" /\ op[o].kind = "save"
        /\ adapters[m].here
        /\ dirs' = [dirs EXCEPT ![m][c.name] =
                      [state |-> IF @.state = "partial" THEN "complete" ELSE "partial",
                       weights |-> c.weights]]
        /\ ckpts' = [ckpts EXCEPT ![m] =
                      {d \in @ : d.type # c.type \/ d.name # c.name} \cup {c}]
        /\ GoTo(o, "storing")
        /\ UNCHANGED <<control, durable, runs, run, queue, op, result, making, snap,
                       adapters, clock>>

(* The name counter keeps its new value, the directory what was written.   *)
SaveStateFails(o) ==
    /\ Serving /\ stage[o] = "executing" /\ op[o].kind = "save"
    /\ "backend" \in Faults \/ ~adapters[Mine(o)].here
    /\ Finish(o, "failed")
    /\ UNCHANGED <<control, objects, durable, adapters, dirs, clock>>

(* _save_training_run_with_checkpoint in the worker thread: it looks up    *)
(* the run and the checkpoint and serialises both ...                      *)
SerialiseCheckpoint(o) ==
    LET m == Mine(o)
        found == {c \in ckpts[m] : c.type = making[o].type /\ c.name = making[o].name}
    IN  /\ Serving /\ stage[o] = "storing"
        /\ snap' = [snap EXCEPT ![o] =
                      IF m \in runs THEN [run |-> TRUE, value |-> run[m], ckpts |-> found]
                                    ELSE NothingToWrite]
        /\ GoTo(o, "writing")
        /\ UNCHANGED <<control, objects, durable, queue, op, result, making, adapters,
                       dirs, clock>>

WriteBoth(o) ==
    /\ dbRuns' = dbRuns \cup {Mine(o)}
    /\ dbRun' = [dbRun EXCEPT ![Mine(o)] = snap[o].value]
    /\ StoreCheckpoints(Mine(o), snap[o].ckpts)

(* ... and writes them in one transaction; then the operation returns.     *)
StoreCheckpoint(o) ==
    /\ Serving /\ stage[o] = "writing"
    /\ \/ snap[o].run /\ WriteBoth(o)
       \/ (~snap[o].run \/ "lost" \in Faults) /\ UNCHANGED durable
    /\ snap' = [snap EXCEPT ![o] = NothingToWrite]
    /\ Count(o)
    /\ GoTo(o, "counting")
    /\ UNCHANGED <<control, runs, ckpts, queue, op, result, making, adapters, dirs, clock>>

(* The guard's own save, again in two halves, before the lock is released. *)
SerialiseCount(o) ==
    /\ Serving /\ stage[o] = "counting"
    /\ snap' = [snap EXCEPT ![o] =
                  IF Mine(o) \in runs THEN [run |-> TRUE, value |-> run[Mine(o)], ckpts |-> {}]
                                      ELSE NothingToWrite]
    /\ GoTo(o, "finishing")
    /\ UNCHANGED <<control, objects, durable, queue, op, result, making, adapters, dirs, clock>>

MutantWriteCount(o) == UNCHANGED <<dbRuns, dbRun>>

WriteCount(o) ==
    IF snap[o].run THEN StoreRun(Mine(o), snap[o].value) ELSE UNCHANGED <<dbRuns, dbRun>>

StoreCount(o) ==
    /\ Serving /\ stage[o] = "finishing"
    /\ WriteCount(o)
    /\ Finish(o, "ready")
    /\ UNCHANGED <<control, objects, dbCkpts, adapters, dirs, clock>>

-----------------------------------------------------------------------------
(* Operations that do not take the execution lock *)

(* delete_checkpoint prefers a training checkpoint of that name.  All of   *)
(* it is one step of the event loop.                                       *)
Doomed(m, n) ==
    LET named == {c \in ckpts[m] : c.name = n}
        training == {c \in named : c.type = "training"}
    IN  IF training # {} THEN training ELSE named

DeleteCheckpoint(m, n) ==
    LET gone == Doomed(m, n) IN
    /\ "delete" \in Faults
    /\ Serving
    /\ m \in runs
    /\ gone # {}
    /\ ckpts' = [ckpts EXCEPT ![m] = @ \ gone]
    /\ dirs' = [dirs EXCEPT ![m][n] = NoDirectory]
    /\ StoreRun(m, run[m])
    /\ dbCkpts' = [dbCkpts EXCEPT ![m] = {d \in @ : \A c \in gone : d.type # c.type \/ d.name # n}]
    /\ UNCHANGED <<control, coroutines, runs, run, adapters, clock>>

(* The process dies between removing the files and deleting the record.    *)
CrashWhileDeleting(m, n) ==
    /\ "delete" \in Faults
    /\ Serving
    /\ restarts < MaxRestarts
    /\ m \in runs
    /\ Doomed(m, n) # {}
    /\ dirs' = [dirs EXCEPT ![m][n] = NoDirectory]
    /\ StoreRun(m, run[m])
    /\ phase' = "down"
    /\ restarts' = restarts + 1
    /\ UNCHANGED <<enabled, created, unloading, recovered, coroutines, objects, dbCkpts, adapters, clock>>

(* set_visibility rewrites metadata.json and stores the record.            *)
SetVisibility(m, c) ==
    /\ "visibility" \in Faults
    /\ Serving
    /\ m \in runs
    /\ c \in ckpts[m]
    /\ dirs[m][c.name].state # "absent"
    /\ \/ StoreCheckpoints(m, {c})
       \/ "lost" \in Faults /\ UNCHANGED dbCkpts
    /\ UNCHANGED <<control, coroutines, objects, dbRuns, dbRun, adapters, dirs, clock>>

(* unload_model awaits the backend, then forgets the run.                  *)
RemoveAdapter(m) ==
    /\ "unload" \in Faults
    /\ Serving
    /\ m \in runs \ unloading
    /\ unloading' = unloading \cup {m}
    /\ adapters' = [adapters EXCEPT ![m] = NoAdapter]
    /\ UNCHANGED <<phase, restarts, enabled, created, recovered, coroutines, objects,
                   durable, dirs, clock>>

ForgetRun(m) ==
    /\ Serving
    /\ m \in runs \cap unloading
    /\ runs' = runs \ {m}
    /\ dbRuns' = dbRuns \ {m}
    /\ dbRun' = [dbRun EXCEPT ![m] = FreshRun]
    /\ dbCkpts' = [dbCkpts EXCEPT ![m] = {}]
    /\ UNCHANGED <<control, coroutines, run, ckpts, adapters, dirs, clock>>

-----------------------------------------------------------------------------
(* Process end and recovery *)

ProcessEnds ==
    /\ phase # "down"
    /\ restarts < MaxRestarts
    /\ phase' = "down"
    /\ restarts' = restarts + 1
    /\ UNCHANGED <<enabled, created, unloading, recovered, coroutines, objects, durable, adapters,
                   dirs, clock>>

MutantRestoredRun(m) == IF m \in dbRuns THEN [dbRun[m] EXCEPT !.nextSeq = 1] ELSE FreshRun

RestoredRun(m) == IF m \in dbRuns THEN dbRun[m] ELSE FreshRun

(* _restore_from_redis: the counters and the checkpoint records come back, *)
(* the adapters do not.                                                    *)
Restart ==
    /\ phase = "down"
    /\ phase' = "recovering"
    /\ enabled' \in (IF "config" \in Faults THEN BOOLEAN ELSE {TRUE})
    /\ recovered' = {}
    /\ unloading' = {}
    /\ runs' = dbRuns
    /\ run' = [m \in Runs |-> RestoredRun(m)]
    /\ ckpts' = [m \in Runs |-> IF m \in dbRuns THEN dbCkpts[m] ELSE {}]
    /\ adapters' = [m \in Runs |-> NoAdapter]
    /\ queue' = [m \in Runs |-> <<>>]
    /\ stage' = [o \in Ops |-> IF stage[o] \in {"new", "done"} THEN stage[o] ELSE "lost"]
    /\ snap' = [o \in Ops |-> NothingToWrite]
    /\ making' = [o \in Ops |-> NoCheckpoint]
    /\ UNCHANGED <<restarts, created, op, result, durable, dirs, clock>>

CanRecover(m) == phase = "recovering" /\ m \in runs \ recovered

(* A corrupted run, or one without a backend, is left as it is.            *)
SkipRun(m) ==
    /\ CanRecover(m)
    /\ run[m].corrupted \/ ~enabled
    /\ recovered' = recovered \cup {m}
    /\ UNCHANGED <<phase, restarts, enabled, created, unloading, coroutines, objects, durable,
                   adapters, dirs, clock>>

(* restore_from_checkpoint of a run that has no checkpoint.                *)
RecoverFresh(m) ==
    /\ CanRecover(m)
    /\ ~run[m].corrupted /\ enabled
    /\ ckpts[m] = {}
    /\ \/ adapters' = [adapters EXCEPT ![m] = FreshAdapter]
       \/ "backend" \in Faults /\ UNCHANGED adapters
    /\ recovered' = recovered \cup {m}
    /\ UNCHANGED <<phase, restarts, enabled, created, unloading, coroutines, objects, durable, dirs, clock>>

(* The latest checkpoint of either type is loaded.                         *)
RecoverFromCheckpoint(m) ==
    /\ CanRecover(m)
    /\ ~run[m].corrupted /\ enabled
    /\ \E c \in Latest(ckpts[m]) :
        /\ dirs[m][c.name].state = "complete"
        /\ adapters' = [adapters EXCEPT ![m] =
                           [FreshAdapter EXCEPT !.weights = dirs[m][c.name].weights]]
    /\ recovered' = recovered \cup {m}
    /\ UNCHANGED <<phase, restarts, enabled, created, unloading, coroutines, objects, durable, dirs, clock>>

(* The geometry or the scale no longer matches, or the load fails twice:   *)
(* the run is marked corrupted, and stored so.                             *)
RecoverCorrupted(m) ==
    /\ CanRecover(m)
    /\ ~run[m].corrupted /\ enabled
    /\ \/ "config" \in Faults
       \/ ckpts[m] # {} /\ "backend" \in Faults
       \/ \E c \in Latest(ckpts[m]) : dirs[m][c.name].state # "complete"
    /\ run' = [run EXCEPT ![m].corrupted = TRUE]
    /\ StoreRun(m, run'[m])
    /\ recovered' = recovered \cup {m}
    /\ UNCHANGED <<phase, restarts, enabled, created, unloading, coroutines, runs, ckpts, dbCkpts,
                   adapters, dirs, clock>>

FinishRecovery ==
    /\ phase = "recovering"
    /\ runs \subseteq recovered
    /\ phase' = "serving"
    /\ UNCHANGED <<restarts, enabled, created, unloading, recovered, coroutines, objects, durable,
                   adapters, dirs, clock>>

-----------------------------------------------------------------------------
(* Specification *)

Init ==
    /\ phase = "recovering"
    /\ restarts = 0
    /\ enabled = TRUE
    /\ runs = {} /\ created = {} /\ unloading = {} /\ recovered = {}
    /\ run = [m \in Runs |-> FreshRun]
    /\ ckpts = [m \in Runs |-> {}]
    /\ queue = [m \in Runs |-> <<>>]
    /\ op = [o \in Ops |-> NoArguments]
    /\ stage = [o \in Ops |-> "new"]
    /\ result = [o \in Ops |-> "none"]
    /\ making = [o \in Ops |-> NoCheckpoint]
    /\ snap = [o \in Ops |-> NothingToWrite]
    /\ adapters = [m \in Runs |-> NoAdapter]
    /\ dirs = [m \in Runs |-> [n \in Names |-> NoDirectory]]
    /\ dbRuns = {}
    /\ dbRun = [m \in Runs |-> FreshRun]
    /\ dbCkpts = [m \in Runs |-> {}]
    /\ clock = 0

Request(o) ==
    \E m \in Runs, k \in Kinds, s \in 0..MaxSeq, F \in 0..MaxFuture :
        \/ /\ k \notin {"save", "load"} /\ F = 0
           /\ Start(o, m, k, s, m, "training", AutoName, F)
        \/ /\ k = "save"
           /\ \E t \in Types, n \in NameArgs : Start(o, m, k, s, m, t, n, F)
        \/ /\ k = "load" /\ F = 0
           /\ \E src \in Runs, t \in Types, n \in Names : Start(o, m, k, s, src, t, n, F)

(* The steps of an accepted operation.                                     *)
Proceed(o) ==
    \/ Conflict(o) \/ Enter(o) \/ EnterSave(o)
    \/ Compute(o) \/ Load(o) \/ ComputeFails(o)
    \/ SaveState(o) \/ SaveStateFails(o)
    \/ SerialiseCheckpoint(o) \/ StoreCheckpoint(o)
    \/ SerialiseCount(o) \/ StoreCount(o)

Unlocked(m) ==
    \/ CreateModel(m)
    \/ \E n \in Names : DeleteCheckpoint(m, n) \/ CrashWhileDeleting(m, n)
    \/ \E c \in ckpts[m] : SetVisibility(m, c)
    \/ RemoveAdapter(m)
    \/ ForgetRun(m)

Recover(m) ==
    \/ SkipRun(m) \/ RecoverFresh(m) \/ RecoverFromCheckpoint(m) \/ RecoverCorrupted(m)

Next ==
    \/ \E o \in Ops : Request(o) \/ Proceed(o)
    \/ \E m \in Runs : Unlocked(m) \/ Recover(m)
    \/ FinishRecovery
    \/ ProcessEnds
    \/ Restart

Spec == Init /\ [][Next]_trainingVars

-----------------------------------------------------------------------------
(* Properties *)

Active == {"executing", "storing", "writing", "counting", "finishing"}

(* The operations of one run exclude each other from the sequence check to *)
(* the end of the save of the counter (_with_sequence_guard).              *)
OneOperationPerRun ==
    Serving => \A o, p \in Ops :
        stage[o] \in Active /\ stage[p] \in Active /\ Mine(o) = Mine(p) => o = p

(* The operations of run m among S that carried a sequence number and did  *)
(* not fail.  (A failed one may have left part of its gradient behind.)    *)
Sequenced(m, S) == {o \in S : op[o].run = m /\ op[o].seq # NoSeq /\ result[o] # "failed"}

Applied(m) == adapters[m].weights \cup adapters[m].grads

(* The adapter of a run takes the operations of the run in the order of    *)
(* their sequence numbers and none of them twice, also after a restart has *)
(* put older weights back.                                                 *)
EffectsInSequence ==
    [][\A m \in Runs, o \in Ops :
        stage[o] = "executing" /\ stage'[o] = "counting" /\ Mine(o) = m /\ op[o].seq # NoSeq =>
            \A p \in Sequenced(m, Applied(m)) : op[p].seq < op[o].seq]_trainingVars

(* No checkpoint directory holds the effect of an operation that a restart *)
(* would accept again: the stored counter is beyond it, because every      *)
(* operation saves the counter before the next one starts.  Holds when     *)
(* saves succeed.                                                          *)
CheckpointsBelowCounter ==
    \A m \in dbRuns, n \in Names :
        \A o \in Sequenced(m, dirs[m][n].weights) : op[o].seq < dbRun[m].nextSeq

(* Sequence ids do not rewind, neither by a restart nor by a worker thread *)
(* that writes what it serialised earlier (persistence.md).                *)
StoredCounterNeverDecreases ==
    [][\A m \in dbRuns \cap dbRuns' : dbRun'[m].nextSeq >= dbRun[m].nextSeq]_trainingVars

(* An operation reports success only after its sequence number can no      *)
(* longer be used again, whenever the process ends.  Holds when saves      *)
(* succeed.                                                                *)
CompletedIsCounted ==
    \A o \in Ops :
        result[o] = "ready" /\ op[o].seq # NoSeq /\ Mine(o) \in dbRuns =>
            op[o].seq < dbRun[Mine(o)].nextSeq

(* A stored checkpoint record finds the files it was made for: complete,   *)
(* and with the weights of its own save.  The record is written last.      *)
CheckpointsKeepTheirWeights ==
    \A m \in dbRuns : \A c \in dbCkpts[m] :
        dirs[m][c.name] = [state |-> "complete", weights |-> c.weights]

(* Every stored checkpoint was named by a counter value that the stored    *)
(* run has moved past, so that no restart hands the name out again: the    *)
(* two are saved in one transaction for that.                              *)
StoredCounterCoversNames ==
    \A m \in dbRuns : \A c \in dbCkpts[m] : c.name < dbRun[m].nextName[c.type]

(* The stored counters of a run cover what the run has done: whatever was  *)
(* reported, checkpointed or named is never accepted or handed out again,  *)
(* wherever the process ends.                                              *)
CountersCover == CheckpointsBelowCounter /\ CompletedIsCounted /\ StoredCounterCoversNames

=============================================================================
