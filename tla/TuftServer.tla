------------------------------ MODULE TuftServer ------------------------------
(***************************************************************************)
(* The server as state.py wires it: the training controller, with a future *)
(* for each of its requests. After a restart the futures of each run are   *)
(* reconciled with the checkpoint the run was restored from.  The two      *)
(* components share the process (`phase`, `restarts`), and the request of  *)
(* a future is the coroutine of its operation.                             *)
(***************************************************************************)
EXTENDS TrainingController

CONSTANTS
    Users,          \* as in FutureStore
    Nobody          \* FutureStore's NoRequest

(* An operation is a future; what the store may do wrong is in FutureStore *)
(* and is left out here, but for the end of the process.                   *)
Requests == Ops
Models == Runs
NoRequest == Nobody
SaveOutcomes == {"full"}
Expiry == FALSE
Cleanups == FALSE

ASSUME UsersAssumption == Users # {} /\ Nobody \notin Requests
ASSUME FuturesAssumption == MaxFuture = Cardinality(Requests)

VARIABLES
    registry, records, nextId, lock, task, outcome, waiting, told,
    stored, db, used, restored, sampled,
    reconcile,  \* the run whose futures recovery is about to reconcile, as a set
    boundary    \* F of the checkpoint each run was restored from; 0 if none

futureVars == <<registry, records, nextId, lock, task, outcome, waiting, told,
                stored, db, used, restored, sampled>>
runVars == <<enabled, runs, run, ckpts, queue, op, stage, result, making, snap, adapters,
             dirs, dbRuns, dbRun, dbCkpts, clock, created, unloading, recovered>>
recoveryVars == <<reconcile, boundary>>
serverVars == <<phase, restarts, futureVars, runVars, recoveryVars>>

Futures == INSTANCE FutureStore

-----------------------------------------------------------------------------
(* Serving *)

(* A POST handler enqueues the operation (server.py, _queue_future).       *)
Submit(r, u, m) ==
    /\ m \in created
    /\ Futures!Enqueue(r, u, m, "train")
    /\ UNCHANGED <<runVars, recoveryVars>>

(* ServerState.get_current_future_id, read when save_checkpoint starts.    *)
CurrentFutureId == nextId - 1

(* The operations the handlers enqueue, each on run m with sequence number *)
(* s.  Only a save reads F, in the first step of its operation: not when   *)
(* the request arrives, and not when the save reaches the execution lock.  *)
ForwardBackward(r, m, s) ==
    \E k \in Kinds \cap {"forward", "forward_backward"} :
        Start(r, m, k, s, m, "training", AutoName, 0)

OptimStep(r, m, s) ==
    /\ "optim_step" \in Kinds
    /\ Start(r, m, "optim_step", s, m, "training", AutoName, 0)

SaveCheckpoint(r, m, s, t) ==
    /\ "save" \in Kinds
    /\ \E n \in NameArgs : Start(r, m, "save", s, m, t, n, CurrentFutureId)

SaveWeights(r, m, s) == "training" \in Types /\ SaveCheckpoint(r, m, s, "training")

SaveWeightsForSampler(r, m, s) == "sampler" \in Types /\ SaveCheckpoint(r, m, s, "sampler")

LoadWeights(r, m, s) ==
    /\ "load" \in Kinds
    /\ \E src \in Runs, t \in Types, n \in Names : Start(r, m, "load", s, src, t, n, 0)

(* The task of the future starts the operation it was enqueued with.       *)
Begin(r) ==
    /\ task[r] = "running"
    /\ \E s \in 0..MaxSeq :
        LET m == records[r].model
        IN  \/ ForwardBackward(r, m, s) \/ OptimStep(r, m, s)
            \/ SaveWeights(r, m, s) \/ SaveWeightsForSampler(r, m, s) \/ LoadWeights(r, m, s)
    /\ UNCHANGED <<futureVars, recoveryVars>>

Operate(r) == Proceed(r) /\ UNCHANGED <<futureVars, recoveryVars>>

(* The operation is over and the task resolves the future with its result. *)
Return(r) ==
    /\ stage[r] = "done"
    /\ Futures!OperationEnds(r, result[r])
    /\ UNCHANGED <<runVars, recoveryVars>>

Publish(r) ==
    /\ Futures!MarkBegin(r) \/ Futures!MarkSave(r) \/ Futures!MarkEnd(r)
    /\ UNCHANGED <<runVars, recoveryVars>>

Manage(m) == Unlocked(m) /\ UNCHANGED <<futureVars, reconcile, boundary>>

-----------------------------------------------------------------------------
(* Process end and _restore_from_checkpoints *)

Crash ==
    /\ ProcessEnds
    /\ Futures!ProcessEnds
    /\ UNCHANGED recoveryVars

Boot ==
    /\ Restart
    /\ Futures!Restart
    /\ reconcile' = {}
    /\ boundary' = [m \in Runs |-> 0]

FailPendingSamples ==
    /\ Futures!MarkPendingSamples
    /\ UNCHANGED <<runVars, recoveryVars>>

(* The loop over the runs: a corrupted run, or one without a backend, is   *)
(* passed over; any other is restored, whatever comes of it ...            *)
Pass(m) == SkipRun(m) /\ reconcile' = {[run |-> m, pendingOnly |-> TRUE]}

Restore(m) ==
    /\ \/ RecoverFresh(m)
       \/ RecoverFromCheckpoint(m)
       \/ RecoverCorrupted(m)
    /\ reconcile' = {[run |-> m, pendingOnly |-> FALSE]}

LatestFuture(m) ==
    IF ckpts[m] = {} THEN 0 ELSE (CHOOSE c \in Latest(ckpts[m]) : TRUE).future

RecoverRun(m) ==
    /\ sampled
    /\ reconcile = {}
    /\ Pass(m) \/ Restore(m)
    /\ boundary' = [boundary EXCEPT ![m] = LatestFuture(m)]
    /\ UNCHANGED futureVars

(* ... and then its futures are failed: the pending ones of a run that was *)
(* passed over, those past the boundary of the others.                     *)
ToFail(x) ==
    IF x.pendingOnly THEN Futures!PendingOfModel(x.run)
                     ELSE Futures!AfterCheckpoint(x.run, boundary[x.run])

ReconcileFutures ==
    \E x \in reconcile :
        /\ Futures!RecoverRun(ToFail(x))
        /\ reconcile' = {}
        /\ UNCHANGED <<runVars, boundary>>

CrashWhileReconciling ==
    \E x \in reconcile :
        /\ Futures!CrashWhileMarking(ToFail(x))
        /\ UNCHANGED <<runVars, recoveryVars>>

Open ==
    /\ reconcile = {}
    /\ FinishRecovery
    /\ Futures!FinishRecovery
    /\ UNCHANGED recoveryVars

-----------------------------------------------------------------------------
(* Specification *)

ServerInit ==
    /\ Init
    /\ Futures!Init
    /\ reconcile = {}
    /\ boundary = [m \in Runs |-> 0]

Progress(r) == Begin(r) \/ Operate(r) \/ Return(r) \/ Publish(r)

ServerNext ==
    \/ \E r \in Requests :
        \/ \E u \in Users, m \in Runs : Submit(r, u, m)
        \/ Progress(r)
    \/ \E m \in Runs : Manage(m) \/ RecoverRun(m)
    \/ Crash
    \/ Boot
    \/ FailPendingSamples
    \/ ReconcileFutures
    \/ CrashWhileReconciling
    \/ Open

ServerSpec == ServerInit /\ [][ServerNext]_serverVars

(* Tasks that can run do, and a started process finishes its recovery; the *)
(* execution lock and the store's lock are first come, first served, and   *)
(* each is taken a bounded number of times.                                *)
FairSpec ==
    /\ ServerSpec
    /\ \A r \in Requests : WF_serverVars(Progress(r))
    /\ \A m \in Runs : WF_serverVars(RecoverRun(m))
    /\ WF_serverVars(FailPendingSamples)
    /\ WF_serverVars(ReconcileFutures)
    /\ WF_serverVars(Open)

-----------------------------------------------------------------------------
(* Properties *)

(* A future the server knows from an earlier process.                      *)
Restored(m) == {r \in registry \cap restored : records[r].model = m}

(* This process trains the run: it has a backend for it and could restore  *)
(* its weights.                                                            *)
Intact(m) == enabled /\ ~run[m].corrupted

(* Once the server serves, no future past the boundary of a run that it    *)
(* could restore is presented as a success: "for each training run that is *)
(* not corrupted and has a usable backend ... all futures for that run     *)
(* with future_id > F are marked failed" (persistence.md), and all of them *)
(* without a checkpoint, wherever earlier processes and recoveries ended.  *)
LateFuturesFailed ==
    phase = "serving" =>
        \A m \in runs \cap recovered : \A r \in Restored(m) :
            Intact(m) /\ records[r].fid > boundary[m] => Futures!Outcome(records[r]) = "failed"

(* A success in the store is backed by the counter in the store: no        *)
(* process can offer the sequence number of a request it reports as done.  *)
(* The two are written by different components, counter first.             *)
SuccessIsCounted ==
    \A r \in stored :
        db[r].status = "ready" /\ op[r].seq # NoSeq /\ db[r].model \in dbRuns =>
            op[r].seq < dbRun[db[r].model].nextSeq

(* Recovery asks for retries of work that is really gone: an optimizer     *)
(* step whose future it failed is not in the weights it restored, so that  *)
(* the retry does not apply it twice.  The record of a checkpoint, with    *)
(* its F, is stored in one transaction, but after the files.               *)
CancelledIsNotApplied ==
    phase = "serving" =>
        \A m \in runs \cap recovered : \A r \in Restored(m) :
            records[r].error = "cancelled" /\ op[r].kind = "optim_step" =>
                r \notin adapters[m].weights

(* Every training request that was accepted is eventually resolved, if the *)
(* process lives: no operation waits forever for the execution lock of its *)
(* run or for the lock of the future store.                                *)
EveryRequestResolves ==
    \A r \in Requests : task[r] = "running" ~> (records[r].event \/ phase = "down")
=============================================================================
