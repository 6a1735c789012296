----------------------------- MODULE FutureStore -----------------------------
(***************************************************************************)
(* The registry of asynchronous results (futures.py).  Every long request  *)
(* of the HTTP API becomes a future: `enqueue` records it, starts a task,  *)
(* and the client polls `retrieve`.  A task that finishes publishes its    *)
(* outcome under one store-wide lock which stays held while a worker       *)
(* thread writes the record to the key-value store.  When the process      *)
(* ends, only that store is left; the next process reads it back and the   *)
(* recovery of state.py fails the futures it cannot vouch for.             *)
(*                                                                         *)
(* An operator whose name begins with Mutant is a plausible bug in the one *)
(* that follows it; no specification uses it.                              *)
(*                                                                         *)
(* `_records` is split in two: `registry` is its key set and `records`     *)
(* holds the record objects, which waiting coroutines keep a reference to  *)
(* after `cleanup` dropped the key.  `stored` and `db` are the key set and *)
(* the contents of the key-value store.                                    *)
(***************************************************************************)
EXTENDS Naturals, FiniteSets

CONSTANTS
    Requests,       \* request ids; a uuid, never reused
    Models,         \* training runs a future may belong to
    Users,          \* users, each with at most one retrieve in progress
    NoRequest,      \* "nobody" for the lock, "nothing" for a retrieve
    SaveOutcomes,   \* how save_record may end: see SaveOutcome below
    Expiry,         \* TRUE when the keys of futures have a TTL that may pass
    Cleanups,       \* TRUE when somebody calls cleanup (no handler does)
    MaxRestarts     \* bound on the number of process ends

Statuses == {"pending", "ready", "failed"}
FutureKinds == {"train", "sample", "immediate"}
Payloads == {"none", "result"}
Errors   == {"none", "operation", "cancelled"}
Answers  == {"payload", "empty", "error"}

(***************************************************************************)
(* "full": the record is stored; "stripped": the payload would not         *)
(* serialise and the second attempt stored the record without it; "lost":  *)
(* the store refused the write, which `_save_future` does not notice.      *)
(***************************************************************************)
SaveOutcome == {"full", "stripped", "lost"}

ASSUME NoRequestAssumption == NoRequest \notin Requests
ASSUME SaveAssumption == SaveOutcomes \subseteq SaveOutcome /\ SaveOutcomes # {}
ASSUME OptionsAssumption == Expiry \in BOOLEAN /\ Cleanups \in BOOLEAN
ASSUME InhabitedAssumption == Models # {} /\ Users # {}
ASSUME RestartsAssumption == MaxRestarts \in Nat

Record ==
    [fid: Nat, model: Models, user: Users, kind: FutureKinds, status: Statuses,
     payload: Payloads, error: Errors, event: BOOLEAN]

(* The `event` of a record is excluded from serialisation.                 *)
Durable ==
    [fid: Nat, model: Models, user: Users, kind: FutureKinds, status: Statuses,
     payload: Payloads, error: Errors]

TaskStates == {"none", "running", "resolving", "saving", "saved", "done"}
Phases == {"recovering", "serving", "down"}

VARIABLES
    phase,      \* the life of the server process
    registry,   \* keys of FutureStore._records
    records,    \* the record objects of this process
    nextId,     \* FutureStore._next_future_id
    lock,       \* holder of FutureStore._lock across an await
    task,       \* where the runner of a request stands
    outcome,    \* how the operation of a request ended
    waiting,    \* the request a user's retrieve waits for
    told,       \* every conclusive answer the owner of a request was given
    stored,     \* keys of the futures in the key-value store
    db,         \* their contents
    used,       \* request ids handed out so far
    restored,   \* requests this process read back from the store
    sampled,    \* recovery has dealt with the pending sample futures
    restarts    \* process ends so far

memory  == <<registry, records, nextId, lock, task, outcome, waiting, restored>>
durable == <<stored, db>>
control == <<phase, sampled, restarts>>
vars == <<memory, durable, control, told, used>>

-----------------------------------------------------------------------------
(* Helpers *)

Blank(m, u) ==
    [fid |-> 0, model |-> m, user |-> u, kind |-> "train", status |-> "pending",
     payload |-> "none", error |-> "none", event |-> FALSE]

(* The value of a key that is not there.                                   *)
NoRecord == Blank(CHOOSE m \in Models : TRUE, CHOOSE u \in Users : TRUE)

Stored(rec) ==
    [fid |-> rec.fid, model |-> rec.model, user |-> rec.user, kind |-> rec.kind,
     status |-> rec.status, payload |-> rec.payload, error |-> rec.error]

(* A record rebuilt from the store has its event set if it is completed.   *)
Loaded(d) ==
    [fid |-> d.fid, model |-> d.model, user |-> d.user, kind |-> d.kind,
     status |-> d.status, payload |-> d.payload, error |-> d.error,
     event |-> d.status # "pending"]

(* _save_future of the record `rec` of request r, ending in outcome o.     *)
SaveFuture(r, rec, o) ==
    \/ /\ o = "lost"
       /\ UNCHANGED <<stored, db>>
    \/ /\ o # "lost"
       /\ stored' = stored \cup {r}
       /\ db' = [db EXCEPT ![r] = IF o = "full" THEN Stored(rec)
                                  ELSE [Stored(rec) EXCEPT !.payload = "none"]]

Failed(rec) == [rec EXCEPT !.status = "failed", !.error = "cancelled", !.event = TRUE]

MutantConclusion(rec) == rec.status

(* What retrieve returns for a record it considers completed.              *)
Conclusion(rec) ==
    IF rec.status = "failed" /\ rec.error # "none" THEN "error"
    ELSE IF rec.payload = "result" THEN "payload" ELSE "empty"

(* delete_record, and what an expired key amounts to.                      *)
DeleteFuture(r) ==
    /\ stored' = stored \ {r}
    /\ db' = [db EXCEPT ![r] = Stored(NoRecord)]

Tell(r, a) == told' = [told EXCEPT ![r] = @ \cup {a}]

MutantNextAfter(ids) == IF ids = {} THEN 1 ELSE CHOOSE n \in ids : \A i \in ids : i <= n

(* _restore_from_redis leaves the counter above every id it read.          *)
NextAfter(ids) == IF ids = {} THEN 1 ELSE (CHOOSE n \in ids : \A i \in ids : i <= n) + 1

(* `async with self._lock` gets the lock, which is not reentrant.          *)
LockFree == lock = NoRequest

MutantUnlock == UNCHANGED lock

Unlock == lock' = NoRequest

-----------------------------------------------------------------------------
(* Creating futures.  These handlers hold the lock without giving up the   *)
(* event loop, so each is one step that needs the lock to be free.         *)

Register(r, rec, o) ==
    /\ phase = "serving"
    /\ LockFree
    /\ r \notin used
    /\ used' = used \cup {r}
    /\ nextId' = nextId + 1
    /\ registry' = registry \cup {r}
    /\ records' = [records EXCEPT ![r] = rec]
    /\ SaveFuture(r, rec, o)
    /\ UNCHANGED <<control, lock, outcome, waiting, restored, told>>

(* A record without a payload always serialises.                           *)
Enqueue(r, u, m, k) ==
    \E o \in SaveOutcomes \ {"stripped"} :
        /\ Register(r, [Blank(m, u) EXCEPT !.fid = nextId, !.kind = k], o)
        /\ task' = [task EXCEPT ![r] = "running"]

CreateReadyFuture(r, u, m) ==
    \E o \in SaveOutcomes :
        /\ Register(r, [Blank(m, u) EXCEPT !.fid = nextId, !.kind = "immediate",
                                           !.status = "ready", !.payload = "result",
                                           !.event = TRUE], o)
        /\ UNCHANGED task

-----------------------------------------------------------------------------
(* The runner of one request *)

(* The operation of r returns ("ready") or raises ("failed").              *)
OperationEnds(r, res) ==
    /\ phase = "serving"
    /\ task[r] = "running"
    /\ task' = [task EXCEPT ![r] = "resolving"]
    /\ outcome' = [outcome EXCEPT ![r] = res]
    /\ UNCHANGED <<durable, control, registry, records, nextId, lock, waiting, restored, told, used>>

MutantResolved(rec, res) ==
    IF res = "ready"
    THEN [rec EXCEPT !.payload = "result", !.status = "ready", !.error = "none", !.event = TRUE]
    ELSE [rec EXCEPT !.status = "failed", !.error = "operation", !.event = TRUE]

(* _mark_ready / _mark_failed up to the await: the record already shows    *)
(* the outcome, its event is not set yet.                                  *)
Resolved(rec, res) ==
    IF res = "ready"
    THEN [rec EXCEPT !.payload = "result", !.status = "ready", !.error = "none"]
    ELSE [rec EXCEPT !.status = "failed", !.error = "operation"]

MarkBegin(r) ==
    /\ phase = "serving"
    /\ task[r] = "resolving"
    /\ LockFree
    /\ IF r \in registry
       THEN /\ records' = [records EXCEPT ![r] = Resolved(@, outcome[r])]
            /\ lock' = r
            /\ task' = [task EXCEPT ![r] = "saving"]
       ELSE /\ task' = [task EXCEPT ![r] = "done"]
            /\ UNCHANGED <<records, lock>>
    /\ UNCHANGED <<durable, control, registry, nextId, outcome, waiting, restored, told, used>>

(* The worker thread writes the record.                                    *)
MarkSave(r) ==
    /\ phase = "serving"
    /\ task[r] = "saving"
    /\ \E o \in SaveOutcomes :
        /\ o = "stripped" => records[r].payload = "result"
        /\ SaveFuture(r, records[r], o)
    /\ task' = [task EXCEPT ![r] = "saved"]
    /\ UNCHANGED <<control, registry, records, nextId, lock, outcome, waiting, restored, told, used>>

Published(rec) == [rec EXCEPT !.event = TRUE]

(* The runner resumes: it wakes the waiters and lets go of the lock.       *)
MarkEnd(r) ==
    /\ phase = "serving"
    /\ task[r] = "saved"
    /\ records' = [records EXCEPT ![r] = Published(@)]
    /\ Unlock
    /\ task' = [task EXCEPT ![r] = "done"]
    /\ UNCHANGED <<durable, control, registry, nextId, outcome, waiting, restored, told, used>>

-----------------------------------------------------------------------------
(* Retrieving.  The record is looked up under the lock; everything up to   *)
(* the wait happens in the same step.  An unknown request is refused with  *)
(* FutureNotFoundException, which changes nothing and is left out.         *)

CanRetrieve(u) == phase = "serving" /\ LockFree /\ waiting[u] = NoRequest

(* What the record keeps of a retrieve by somebody else.                   *)
Denied(rec) == [rec EXCEPT !.status = "failed"]

RetrieveOfOther(u, r) ==
    /\ CanRetrieve(u)
    /\ r \in registry
    /\ records[r].user # u
    /\ records' = [records EXCEPT ![r] = Denied(@)]
    /\ UNCHANGED <<durable, control, registry, nextId, lock, task, outcome, waiting, restored, told, used>>

RetrieveCompleted(u, r) ==
    /\ CanRetrieve(u)
    /\ r \in registry
    /\ records[r].user = u
    /\ records[r].status # "pending"
    /\ Tell(r, Conclusion(records[r]))
    /\ UNCHANGED <<memory, durable, control, used>>

RetrieveWait(u, r) ==
    /\ CanRetrieve(u)
    /\ r \in registry
    /\ records[r].user = u
    /\ records[r].status = "pending"
    /\ waiting' = [waiting EXCEPT ![u] = r]
    /\ UNCHANGED <<durable, control, registry, records, nextId, lock, task, outcome, restored, told, used>>

RetrieveWake(u) ==
    /\ phase = "serving"
    /\ waiting[u] # NoRequest
    /\ records[waiting[u]].event
    /\ Tell(waiting[u], Conclusion(records[waiting[u]]))
    /\ waiting' = [waiting EXCEPT ![u] = NoRequest]
    /\ UNCHANGED <<durable, control, registry, records, nextId, lock, task, outcome, restored, used>>

(* TryAgainResponse: the client will poll again.                           *)
RetrieveTimeout(u) ==
    /\ phase = "serving"
    /\ waiting[u] # NoRequest
    /\ waiting' = [waiting EXCEPT ![u] = NoRequest]
    /\ UNCHANGED <<durable, control, registry, records, nextId, lock, task, outcome, restored, told, used>>

Cleanup(r) ==
    /\ Cleanups
    /\ phase = "serving"
    /\ LockFree
    /\ r \in registry
    /\ registry' = registry \ {r}
    /\ DeleteFuture(r)
    /\ UNCHANGED <<control, records, nextId, lock, task, outcome, waiting, restored, told, used>>

-----------------------------------------------------------------------------
(* Process end and recovery *)

(* The TTL of a stored future passes.                                      *)
Expire(r) ==
    /\ Expiry
    /\ r \in stored
    /\ DeleteFuture(r)
    /\ UNCHANGED <<memory, control, told, used>>

(* A crash, or `shutdown`: it cancels the runners, and CancelledError is   *)
(* not one of the exceptions they turn into a failed future.               *)
ProcessEnds ==
    /\ phase # "down"
    /\ restarts < MaxRestarts
    /\ phase' = "down"
    /\ restarts' = restarts + 1
    /\ UNCHANGED <<memory, durable, sampled, told, used>>

Restart ==
    /\ phase = "down"
    /\ phase' = "recovering"
    /\ sampled' = FALSE
    /\ registry' = stored
    /\ restored' = stored
    /\ records' = [r \in Requests |-> IF r \in stored THEN Loaded(db[r]) ELSE NoRecord]
    /\ nextId' = NextAfter({db[r].fid : r \in stored})
    /\ lock' = NoRequest
    /\ task' = [r \in Requests |-> "none"]
    /\ outcome' = [r \in Requests |-> "none"]
    /\ waiting' = [u \in Users |-> NoRequest]
    /\ UNCHANGED <<durable, restarts, told, used>>

PendingOf(S) == {r \in S : records[r].status = "pending"}
OfModel(m) == {r \in registry : records[r].model = m}

(* The three functions of the store that recovery calls, as the set of     *)
(* records each one fails.  A missing checkpoint is the cut-off 0.         *)
PendingSamples == {r \in PendingOf(registry) : records[r].kind = "sample"}
PendingOfModel(m) == PendingOf(OfModel(m))
MutantAfterCheckpoint(m, F) == {r \in PendingOfModel(m) : records[r].fid > F}
AfterCheckpoint(m, F) == {r \in OfModel(m) : records[r].fid > F}

(* Each record is changed and then saved; `saved` are those whose save     *)
(* took effect.                                                            *)
FailAll(S, saved) ==
    /\ records' = [r \in Requests |-> IF r \in S THEN Failed(records[r]) ELSE records[r]]
    /\ stored' = stored \cup saved
    /\ db' = [r \in Requests |-> IF r \in saved THEN Stored(Failed(records[r])) ELSE db[r]]
    /\ UNCHANGED <<registry, nextId, lock, task, outcome, waiting, restored, told, used>>

MutantSavedOf(S) == {{}}
SavedOf(S) == IF "lost" \in SaveOutcomes THEN SUBSET S ELSE {S}

MarkPendingSamples ==
    /\ phase = "recovering"
    /\ ~sampled
    /\ \E saved \in SavedOf(PendingSamples) : FailAll(PendingSamples, saved)
    /\ sampled' = TRUE
    /\ UNCHANGED <<phase, restarts>>

(* The recovery of one run: a run without a usable backend fails its       *)
(* pending futures, the others everything above their checkpoint.          *)
RecoverRun(S) ==
    /\ phase = "recovering"
    /\ sampled
    /\ \E saved \in SavedOf(S) : FailAll(S, saved)
    /\ UNCHANGED control

RecoverySets ==
    {PendingSamples}
        \cup {PendingOfModel(m) : m \in Models}
        \cup {AfterCheckpoint(m, F) : m \in Models, F \in 0..Cardinality(Requests)}

(* The process dies in the loop of a marking function: some of the saves   *)
(* have been made.                                                         *)
CrashWhileMarking(S) ==
    /\ phase = "recovering"
    /\ restarts < MaxRestarts
    /\ \E saved \in SUBSET S : FailAll(S, saved)
    /\ phase' = "down"
    /\ restarts' = restarts + 1
    /\ UNCHANGED sampled

MutantFinishRecovery ==
    /\ phase = "recovering"
    /\ phase' = "serving"
    /\ UNCHANGED <<memory, durable, sampled, restarts, told, used>>

(* Requests are served once async_init has returned.                       *)
FinishRecovery ==
    /\ phase = "recovering"
    /\ sampled
    /\ phase' = "serving"
    /\ UNCHANGED <<memory, durable, sampled, restarts, told, used>>

-----------------------------------------------------------------------------
(* Specification *)

Init ==
    /\ phase = "recovering"
    /\ registry = {}
    /\ records = [r \in Requests |-> NoRecord]
    /\ db = [r \in Requests |-> Stored(NoRecord)]
    /\ nextId = 1
    /\ lock = NoRequest
    /\ task = [r \in Requests |-> "none"]
    /\ outcome = [r \in Requests |-> "none"]
    /\ waiting = [u \in Users |-> NoRequest]
    /\ told = [r \in Requests |-> {}]
    /\ stored = {}
    /\ used = {}
    /\ restored = {}
    /\ sampled = FALSE
    /\ restarts = 0

Client(u) ==
    \/ \E r \in Requests :
        \/ \E m \in Models : \/ \E k \in {"train", "sample"} : Enqueue(r, u, m, k)
                             \/ CreateReadyFuture(r, u, m)
        \/ RetrieveOfOther(u, r)
        \/ RetrieveCompleted(u, r)
        \/ RetrieveWait(u, r)
    \/ RetrieveTimeout(u)

(* The steps the event loop and the worker threads owe a request.          *)
Runner(r) ==
    \/ \E res \in {"ready", "failed"} : OperationEnds(r, res)
    \/ MarkBegin(r)
    \/ MarkSave(r)
    \/ MarkEnd(r)

Recovery ==
    \/ MarkPendingSamples
    \/ \E S \in RecoverySets : RecoverRun(S) \/ CrashWhileMarking(S)
    \/ FinishRecovery

Environment ==
    \/ ProcessEnds
    \/ Restart
    \/ \E r \in Requests : Expire(r) \/ Cleanup(r)

Next ==
    \/ \E u \in Users : Client(u) \/ RetrieveWake(u)
    \/ \E r \in Requests : Runner(r)
    \/ Recovery
    \/ Environment

Spec == Init /\ [][Next]_vars

(* The event loop runs every task that can run and the worker threads      *)
(* finish; an operation returns or raises; a process that was started      *)
(* finishes its recovery.  Nothing makes a client call or a process end.   *)
Fairness ==
    /\ \A r \in Requests : WF_vars(Runner(r))
    /\ \A u \in Users : WF_vars(RetrieveWake(u))
    /\ WF_vars(MarkPendingSamples)
    /\ WF_vars(FinishRecovery)
    /\ WF_vars(Restart)

FairSpec == Spec /\ Fairness

-----------------------------------------------------------------------------
(* Properties *)

(* Every variable keeps its type.                                          *)
TypeOK ==
    /\ phase \in Phases
    /\ registry \subseteq Requests
    /\ records \in [Requests -> Record]
    /\ nextId \in Nat
    /\ lock \in Requests \cup {NoRequest}
    /\ task \in [Requests -> TaskStates]
    /\ outcome \in [Requests -> {"none", "ready", "failed"}]
    /\ waiting \in [Users -> Requests \cup {NoRequest}]
    /\ told \in [Requests -> SUBSET Answers]
    /\ stored \subseteq Requests
    /\ db \in [Requests -> Durable]
    /\ used \subseteq Requests
    /\ restored \subseteq Requests
    /\ sampled \in BOOLEAN
    /\ restarts \in Nat

(* Publications never overlap: the store-wide lock is held exactly by the  *)
(* one runner that is between its status change and its event, so that no  *)
(* retrieve or enqueue sees a half-published record.                       *)
OnePublication ==
    \A r \in Requests : task[r] \in {"saving", "saved"} <=> lock = r

(* No two futures the server knows share a future_id, and a new one will   *)
(* not repeat an id that is known or stored: recovery orders futures       *)
(* against checkpoints by these ids (state.py).                            *)
FreshIds ==
    /\ \A r, s \in registry : records[r].fid = records[s].fid => r = s
    /\ phase # "down" => \A r \in registry \cup stored :
                            (IF r \in registry THEN records[r] ELSE Loaded(db[r])).fid < nextId

(* A client that was given a result was given one that survives a crash:   *)
(* the event is set after the save, so the stored record of an answered    *)
(* request is completed, unless recovery cancelled it since.  Holds when   *)
(* saves succeed and keys stay.                                            *)
AnsweredIsDurable ==
    \A r \in Requests :
        "payload" \in told[r] => \/ db[r].status = "ready" /\ db[r].payload = "result"
                                \/ db[r].error = "cancelled"

(* The outcome of a record, whatever a retrieve by another user left in    *)
(* its status.                                                             *)
Outcome(rec) ==
    IF ~rec.event THEN "pending" ELSE IF rec.error = "none" THEN "ready" ELSE "failed"

(* Outside a publication, memory and store agree on the outcome of every   *)
(* known future, so a restart changes nothing by itself.  Holds when saves *)
(* succeed and keys stay.                                                  *)
MemoryMatchesStore ==
    \A r \in registry :
        phase # "down" /\ lock # r => r \in stored /\ db[r].status = Outcome(records[r])

(* A future that is not completed has a task that will complete it, or was *)
(* read back from the store by this process; of those, sample requests     *)
(* have been failed by the time it serves.                                 *)
PendingHasTask ==
    \A r \in registry :
        ~records[r].event =>
            \/ task[r] \in {"running", "resolving", "saving", "saved"}
            \/ r \in restored /\ (phase = "serving" => records[r].kind # "sample")
            \/ phase = "down"

(* Every future that was given a task is completed, and every retrieve     *)
(* that waits for it is woken without counting on its timeout, unless the  *)
(* process ends or somebody cleans the future up.                          *)
EveryFutureCompletes ==
    \A r \in Requests :
        /\ task[r] = "running" ~> (records[r].event \/ r \notin registry \/ phase = "down")
        /\ \A u \in Users :
               waiting[u] = r /\ task[r] # "none" ~>
                   (waiting[u] # r \/ r \notin registry \/ phase = "down")
=============================================================================
