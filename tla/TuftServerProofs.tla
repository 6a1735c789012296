--------------------------- MODULE TuftServerProofs ---------------------------
(* Theorems about TuftServer, for any runs, requests, users, arguments and  *)
(* numbers of restarts.  First, about the training controller alone, under  *)
(* the faults it meets; then, that a server is such a controller and a      *)
(* future store, and that what the two say of a request agrees.             *)
EXTENDS TuftServer, SequenceTheorems, FiniteSetTheorems, WellFoundedInduction, TLAPS

-----------------------------------------------------------------------------
(* The execution lock.  That the operations of a run exclude each other is  *)
(* not inductive: it holds because whoever executes is at the head of the   *)
(* queue, and whoever waits is somewhere in it.                             *)

InLine(o) == \E i \in 1..Len(queue[Mine(o)]) : queue[Mine(o)][i] = o
AtHead(o) == queue[Mine(o)] # <<>> /\ Head(queue[Mine(o)]) = o

LockInv ==
    /\ \A o \in Ops : Mine(o) \in Runs
    /\ DOMAIN op = Ops
    /\ queue \in [Runs -> Seq(Ops)]
    /\ stage \in [Ops -> Stages]
    /\ \A o \in Ops : stage[o] = "waiting" => InLine(o)
    /\ \A o \in Ops : stage[o] \in Active => AtHead(o)

LEMMA NoLockStep ==
    ASSUME LockInv, UNCHANGED <<queue, op, stage>>
    PROVE  LockInv'
BY DEF LockInv, InLine, AtHead, Mine

(* The head of the queue is in it.                                         *)
LEMMA CanEnterAtHead ==
    ASSUME LockInv, NEW o \in Ops, CanEnter(o)
    PROVE  AtHead(o)
BY DEF LockInv, CanEnter, InLine, AtHead

(* An operation at the head of its queue goes on to hold the lock.         *)
LEMMA HolderStep ==
    ASSUME LockInv, NEW o \in Ops, AtHead(o), NEW s \in Active, GoTo(o, s),
           UNCHANGED <<queue, op>>
    PROVE  LockInv'
<1> USE DEF LockInv
<1>1. Active \subseteq Stages
    BY DEF Active, Stages
<1>2. stage' = [stage EXCEPT ![o] = s]
    BY DEF GoTo
<1>3. \A p \in Ops : Mine(p)' = Mine(p) /\ InLine(p)' = InLine(p) /\ AtHead(p)' = AtHead(p)
    BY DEF Mine, InLine, AtHead
<1>4. "waiting" \notin Active
    BY DEF Active
<1> QED BY <1>1, <1>2, <1>3, <1>4

(* It leaves the queue when it ends.                                       *)
LEMMA FinishStep ==
    ASSUME LockInv, NEW o \in Ops, AtHead(o), NEW res, Finish(o, res)
    PROVE  LockInv'
<1> USE DEF LockInv
<1> DEFINE m == Mine(o)
<1>1. /\ stage' = [stage EXCEPT ![o] = "done"] /\ op' = op
      /\ queue' = [queue EXCEPT ![m] = Tail(@)]
    BY DEF Finish, Release
<1>2. queue[m] \in Seq(Ops) /\ queue[m] # <<>> /\ Head(queue[m]) = o
    BY DEF AtHead
<1>3. Tail(queue[m]) \in Seq(Ops)
    BY <1>2
<1>4. \A p \in Ops : Mine(p)' = Mine(p)
    BY <1>1 DEF Mine
<1>5. ASSUME NEW p \in Ops, stage'[p] = "waiting" PROVE InLine(p)'
    <2>1. p # o /\ stage[p] = "waiting"
        BY <1>1, <1>5
    <2>2. PICK i \in 1..Len(queue[Mine(p)]) : queue[Mine(p)][i] = p
        BY <2>1 DEF InLine
    <2>3. CASE Mine(p) = m
        <3>1. i # 1
            BY <1>2, <2>1, <2>2, <2>3
        <3>2. i - 1 \in 1..Len(Tail(queue[m])) /\ Tail(queue[m])[i - 1] = p
            BY <1>2, <2>2, <2>3, <3>1
        <3>3. queue'[Mine(p)'] = Tail(queue[m])
            BY <1>1, <1>4, <2>3
        <3> QED BY <3>2, <3>3 DEF InLine
    <2>4. CASE Mine(p) # m
        BY <1>1, <1>4, <2>2, <2>4 DEF InLine
    <2> QED BY <2>3, <2>4
<1>6. ASSUME NEW p \in Ops, stage'[p] \in Active PROVE AtHead(p)'
    <2>1. p # o /\ AtHead(p)
        BY <1>1, <1>6 DEF Active
    <2>2. Mine(p) # m
        BY <1>2, <2>1 DEF AtHead
    <2> QED BY <1>1, <1>4, <2>1, <2>2 DEF AtHead
<1>7. queue' \in [Runs -> Seq(Ops)] /\ stage' \in [Ops -> Stages]
    BY <1>1, <1>3 DEF Stages
<1> QED BY <1>1, <1>4, <1>5, <1>6, <1>7

(* A new operation goes to the end of the queue.                           *)
LEMMA StartStep ==
    ASSUME LockInv, NEW o \in Ops, NEW m \in Runs, NEW k, NEW s, NEW src, NEW t, NEW n, NEW F,
           Start(o, m, k, s, src, t, n, F)
    PROVE  LockInv'
<1> USE DEF LockInv
<1>1. stage[o] = "new"
    BY DEF Start
<1>2. Mine(o)' = m /\ \A p \in Ops \ {o} : Mine(p)' = Mine(p)
    BY DEF Start, Mine
<1>3. DOMAIN op' = Ops
    BY DEF Start
<1>4. \/ stage' = [stage EXCEPT ![o] = "waiting"] /\ queue' = [queue EXCEPT ![m] = Append(@, o)]
      \/ stage' = [stage EXCEPT ![o] = "done"] /\ queue' = queue
    BY DEF Start
<1>5. CASE stage' = [stage EXCEPT ![o] = "done"] /\ queue' = queue
    <2>1. \A p \in Ops \ {o} : stage'[p] = stage[p] /\ InLine(p)' = InLine(p) /\ AtHead(p)' = AtHead(p)
        BY <1>2, <1>5 DEF InLine, AtHead
    <2>2. stage'[o] = "done" /\ stage' \in [Ops -> Stages]
        BY <1>5 DEF Stages
    <2> QED BY <1>2, <1>3, <1>5, <2>1, <2>2 DEF Active
<1>6. CASE stage' = [stage EXCEPT ![o] = "waiting"] /\ queue' = [queue EXCEPT ![m] = Append(@, o)]
    <2> DEFINE q == queue[m]
    <2>1. q \in Seq(Ops) /\ queue'[m] = Append(q, o) /\ queue' \in [Runs -> Seq(Ops)]
        BY <1>6
    <2>2. \A r \in Runs \ {m} : queue'[r] = queue[r]
        BY <1>6
    <2>3. stage'[o] = "waiting" /\ stage' \in [Ops -> Stages]
        BY <1>6 DEF Stages
    <2>4. InLine(o)'
        <3>1. Len(q) + 1 \in 1..Len(Append(q, o)) /\ Append(q, o)[Len(q) + 1] = o
            BY <2>1
        <3> QED BY <1>2, <2>1, <3>1 DEF InLine
    <2>5. ASSUME NEW p \in Ops \ {o}, stage'[p] = "waiting" PROVE InLine(p)'
        <3>1. PICK i \in 1..Len(queue[Mine(p)]) : queue[Mine(p)][i] = p
            BY <1>6, <2>5 DEF InLine
        <3>2. CASE Mine(p) = m
            <4>1. i \in 1..Len(Append(q, o)) /\ Append(q, o)[i] = p
                BY <2>1, <3>1, <3>2
            <4> QED BY <1>2, <2>1, <3>2, <4>1 DEF InLine
        <3>3. CASE Mine(p) # m
            BY <1>2, <2>2, <3>1, <3>3 DEF InLine
        <3> QED BY <3>2, <3>3
    <2>6. ASSUME NEW p \in Ops, stage'[p] \in Active PROVE AtHead(p)'
        <3>1. p # o /\ AtHead(p)
            BY <1>6, <2>6 DEF Active
        <3>2. CASE Mine(p) = m
            <4>1. q # <<>> /\ Head(q) = p
                BY <3>1, <3>2 DEF AtHead
            <4>2. Append(q, o) # <<>> /\ Head(Append(q, o)) = p
                <5> HIDE DEF q
                <5>1. Append(q, o) # <<>>
                    BY <2>1, AppendProperties, Zenon
                <5>2. Head(Append(q, o)) = IF q = <<>> THEN o ELSE Head(q)
                    BY <2>1, HeadTailAppend, Zenon
                <5> QED BY <4>1, <5>1, <5>2
            <4> QED BY <1>2, <2>1, <3>2, <4>2 DEF AtHead
        <3>3. CASE Mine(p) # m
            BY <1>2, <2>2, <3>1, <3>3 DEF AtHead
        <3> QED BY <3>2, <3>3
    <2> QED BY <1>2, <1>3, <2>1, <2>3, <2>4, <2>5, <2>6
<1> QED BY <1>4, <1>5, <1>6

(* The operations that do not take the lock, and the recovery of a run.    *)
LEMMA OutsideStep ==
    ASSUME LockInv, NEW m \in Runs, Unlocked(m) \/ Recover(m)
    PROVE  LockInv'
<1>1. UNCHANGED <<queue, op, stage>>
    BY DEF Unlocked, CreateModel, DeleteCheckpoint, CrashWhileDeleting, SetVisibility,
        RemoveAdapter, ForgetRun, Recover, SkipRun, RecoverFresh, RecoverFromCheckpoint,
        RecoverCorrupted, coroutines
<1> QED BY <1>1, NoLockStep

LEMMA ProceedStep ==
    ASSUME LockInv, NEW o \in Ops, Proceed(o)
    PROVE  LockInv'
<1>1. ASSUME NEW s \in Active, stage[o] = s PROVE AtHead(o)
    BY <1>1 DEF LockInv
<1>2. {"executing", "storing", "writing", "counting", "finishing"} = Active
    BY DEF Active
<1>3. CASE Conflict(o)
    BY <1>3, CanEnterAtHead, FinishStep DEF Conflict
<1>4. CASE Enter(o)
    BY <1>2, <1>4, CanEnterAtHead, HolderStep DEF Enter
<1>5. CASE EnterSave(o)
    BY <1>2, <1>5, CanEnterAtHead, HolderStep DEF EnterSave
<1>6. CASE Compute(o)
    BY <1>1, <1>2, <1>6, HolderStep DEF Compute, Computing
<1>7. CASE Load(o)
    BY <1>1, <1>2, <1>7, HolderStep DEF Load, Computing
<1>8. CASE ComputeFails(o)
    BY <1>1, <1>2, <1>8, FinishStep DEF ComputeFails, Computing
<1>9. CASE SaveState(o)
    BY <1>1, <1>2, <1>9, HolderStep DEF SaveState
<1>10. CASE SaveStateFails(o)
    BY <1>1, <1>2, <1>10, FinishStep DEF SaveStateFails
<1>11. CASE SerialiseCheckpoint(o)
    BY <1>1, <1>2, <1>11, HolderStep DEF SerialiseCheckpoint
<1>12. CASE StoreCheckpoint(o)
    BY <1>1, <1>2, <1>12, HolderStep DEF StoreCheckpoint
<1>13. CASE SerialiseCount(o)
    BY <1>1, <1>2, <1>13, HolderStep DEF SerialiseCount
<1>14. CASE StoreCount(o)
    BY <1>1, <1>2, <1>14, FinishStep DEF StoreCount
<1> QED BY <1>3, <1>4, <1>5, <1>6, <1>7, <1>8, <1>9, <1>10, <1>11, <1>12, <1>13, <1>14
        DEF Proceed

(* A new process has no queues, and no coroutine that waits for one.       *)
LEMMA RestartStep ==
    ASSUME LockInv, Restart
    PROVE  LockInv'
<1>1. /\ queue' = [m \in Runs |-> <<>>] /\ op' = op
      /\ stage' = [o \in Ops |-> IF stage[o] \in {"new", "done"} THEN stage[o] ELSE "lost"]
    BY DEF Restart
<1>2. stage' \in [Ops -> {"new", "done", "lost"}]
    BY <1>1
<1> QED BY <1>1, <1>2 DEF LockInv, Active, Stages, Mine

LEMMA LockNext == LockInv /\ [Next]_trainingVars => LockInv'
<1> SUFFICES ASSUME LockInv, [Next]_trainingVars PROVE LockInv'
    OBVIOUS
<1>1. ASSUME NEW o \in Ops, Request(o) PROVE LockInv'
    BY <1>1, StartStep DEF Request
<1>2. ASSUME FinishRecovery \/ ProcessEnds \/ UNCHANGED trainingVars PROVE LockInv'
    BY <1>2, NoLockStep DEF FinishRecovery, ProcessEnds, trainingVars, coroutines
<1> QED BY <1>1, <1>2, ProceedStep, OutsideStep, RestartStep DEF Next

LEMMA LockInit == Init => LockInv
BY RunsAssumption DEF Init, LockInv, Mine, NoArguments, AnyRun, Stages, Active

(* The operations of one run exclude each other from the sequence check to *)
(* the save of the counter, whatever fails and whenever the process ends:  *)
(* the guard of one never runs while another is between reading the        *)
(* expected number and storing the next.                                   *)
THEOREM OperationsExclude == Spec => []OneOperationPerRun
<1>1. Init => LockInv
    BY LockInit
<1>2. LockInv /\ [Next]_trainingVars => LockInv'
    BY LockNext
<1>3. LockInv => OneOperationPerRun
    BY DEF LockInv, AtHead, OneOperationPerRun
<1> QED BY <1>1, <1>2, <1>3, PTL DEF Spec

-----------------------------------------------------------------------------
(* Sequence ids do not rewind.  The stored counter of a run follows the one*)
(* in memory: whoever writes the record writes the run as it is, or what   *)
(* its own worker thread serialised, and that cannot be old, because only  *)
(* the holder of the execution lock moves the counter.                     *)

CountedRun == {r \in Run : r.nextSeq >= 1}

Fresh(o) ==
    stage[o] \in {"writing", "finishing"} /\ snap[o].run =>
        snap[o].value \in CountedRun /\ snap[o].value.nextSeq = run[Mine(o)].nextSeq

CountInv ==
    /\ run \in [Runs -> CountedRun] /\ dbRun \in [Runs -> CountedRun]
    /\ created \subseteq Runs /\ runs \subseteq created /\ dbRuns \subseteq created
    /\ \A m \in dbRuns : dbRun[m].nextSeq <= run[m].nextSeq
    /\ \A o \in Ops : stage[o] # "new" => Mine(o) \in created
    /\ DOMAIN snap = Ops
    /\ \A o \in Ops : Fresh(o)

NoRewind == \A m \in dbRuns \cap dbRuns' : dbRun'[m].nextSeq >= dbRun[m].nextSeq

LEMMA FreshRunIsCounted == FreshRun \in CountedRun
BY DEF FreshRun, CountedRun, Run

LEMMA CountInit == Init => CountInv
BY FreshRunIsCounted DEF Init, CountInv, Fresh

(* A step that writes the record of at most one run, with a counter that   *)
(* is neither below the stored one nor above the new one in memory.        *)
LEMMA WriteStep ==
    ASSUME CountInv, NEW m \in created, NEW v \in CountedRun,
           StoreRun(m, v) \/ UNCHANGED <<dbRuns, dbRun>>,
           m \in dbRuns => v.nextSeq >= dbRun[m].nextSeq,
           run' \in [Runs -> CountedRun], v.nextSeq <= run'[m].nextSeq,
           \A r \in Runs : run[r].nextSeq <= run'[r].nextSeq
    PROVE  /\ dbRun' \in [Runs -> CountedRun] /\ dbRuns' \subseteq created
           /\ \A r \in dbRuns' : dbRun'[r].nextSeq <= run'[r].nextSeq
           /\ NoRewind
<1> USE DEF CountInv
<1>1. m \in Runs
    OBVIOUS
<1>2. \A r \in CountedRun : r.nextSeq \in Nat
    BY DEF CountedRun, Run
<1>3. CASE dbRuns' = dbRuns \cup {m} /\ dbRun' = [dbRun EXCEPT ![m] = v]
    <2>1. \A r \in Runs : dbRun'[r] = IF r = m THEN v ELSE dbRun[r]
        BY <1>3
    <2>2. ASSUME NEW r \in dbRuns' PROVE dbRun'[r].nextSeq <= run'[r].nextSeq
        <3>1. CASE r = m
            BY <2>1, <3>1
        <3>2. CASE r # m
            <4>1. r \in dbRuns /\ r \in Runs /\ dbRun'[r] = dbRun[r]
                BY <1>3, <2>1, <3>2
            <4>2. /\ dbRun[r].nextSeq <= run[r].nextSeq /\ run[r].nextSeq <= run'[r].nextSeq
                  /\ dbRun[r] \in CountedRun /\ run[r] \in CountedRun /\ run'[r] \in CountedRun
                BY <4>1
            <4> QED BY <1>2, <4>1, <4>2
        <3> QED BY <3>1, <3>2
    <2>3. NoRewind
        BY <1>2, <2>1 DEF NoRewind
    <2> QED BY <1>3, <2>2, <2>3
<1>4. CASE UNCHANGED <<dbRuns, dbRun>>
    <2>1. ASSUME NEW r \in dbRuns PROVE dbRun[r].nextSeq <= run'[r].nextSeq
        <3>1. /\ dbRun[r].nextSeq <= run[r].nextSeq /\ run[r].nextSeq <= run'[r].nextSeq
              /\ dbRun[r] \in CountedRun /\ run[r] \in CountedRun /\ run'[r] \in CountedRun
            OBVIOUS
        <3> QED BY <1>2, <3>1
    <2> QED BY <1>2, <1>4, <2>1 DEF NoRewind
<1> QED BY <1>3, <1>4 DEF StoreRun

(* Nothing about records and counters changes.                             *)
LEMMA QuietStep ==
    ASSUME CountInv, UNCHANGED <<run, runs, created, dbRuns, dbRun, op, stage, snap>>
    PROVE  CountInv' /\ NoRewind
<1>1. \A r \in CountedRun : r.nextSeq \in Nat
    BY DEF CountedRun, Run
<1> QED BY <1>1 DEF CountInv, Fresh, Mine, NoRewind

(* The record of a run is stored as it is.                                 *)
LEMMA StoreOwnStep ==
    ASSUME CountInv, NEW m \in runs, StoreRun(m, run[m]),
           UNCHANGED <<run, runs, created, op, stage, snap>>
    PROVE  CountInv' /\ NoRewind
<1>1. /\ dbRun' \in [Runs -> CountedRun] /\ dbRuns' \subseteq created
      /\ \A r \in dbRuns' : dbRun'[r].nextSeq <= run'[r].nextSeq
      /\ NoRewind
    <2>1. \A r \in CountedRun : r.nextSeq \in Nat
        BY DEF CountedRun, Run
    <2>2. m \in created /\ run[m] \in CountedRun
        BY DEF CountInv
    <2> QED BY <2>1, <2>2, WriteStep DEF CountInv
<1>2. \A o \in Ops : Fresh(o)'
    BY DEF CountInv, Fresh, Mine
<1> QED BY <1>1, <1>2 DEF CountInv, Mine

LEMMA StartCounts ==
    ASSUME CountInv, NEW o \in Ops, NEW m \in Runs, NEW k, NEW s, NEW src, NEW t, NEW n, NEW F,
           DOMAIN op = Ops, stage \in [Ops -> Stages], Start(o, m, k, s, src, t, n, F)
    PROVE  CountInv' /\ NoRewind
<1>1. /\ UNCHANGED <<run, runs, created, snap>> /\ m \in created
      /\ StoreRun(m, run[m]) \/ UNCHANGED <<dbRuns, dbRun>>
    BY DEF Start, objects, control
<1>2. /\ Mine(o)' = m /\ \A p \in Ops \ {o} : Mine(p)' = Mine(p) /\ stage'[p] = stage[p]
      /\ stage'[o] \in {"waiting", "done"}
    BY DEF Start, Mine
<1>3. /\ dbRun' \in [Runs -> CountedRun] /\ dbRuns' \subseteq created
      /\ \A r \in dbRuns' : dbRun'[r].nextSeq <= run'[r].nextSeq
      /\ NoRewind
    <2>1. \A r \in CountedRun : r.nextSeq \in Nat
        BY DEF CountedRun, Run
    <2>2. run[m] \in CountedRun
        BY DEF CountInv
    <2> QED BY <1>1, <2>1, <2>2, WriteStep DEF CountInv
<1>4. \A p \in Ops : Fresh(p)'
    BY <1>1, <1>2 DEF CountInv, Fresh
<1> QED BY <1>1, <1>2, <1>3, <1>4 DEF CountInv

(* The holder of the lock moves the counter: no other operation of its run *)
(* has serialised anything.                                                *)
LEMMA CountedStep ==
    ASSUME LockInv, CountInv, NEW o \in Ops, stage[o] \in Active, Count(o), GoTo(o, "counting"),
           UNCHANGED <<runs, created, op>>,
           snap' = snap \/ snap' = [snap EXCEPT ![o] = NothingToWrite],
           \/ UNCHANGED <<dbRuns, dbRun>>
           \/ /\ snap[o].run /\ stage[o] = "writing"
              /\ StoreRun(Mine(o), snap[o].value)
    PROVE  CountInv' /\ NoRewind
<1> DEFINE m == Mine(o)
<1> DEFINE v == IF UNCHANGED <<dbRuns, dbRun>> THEN run[m] ELSE snap[o].value
<1>1. \A r \in CountedRun : r.nextSeq \in Nat /\ r.nextSeq >= 1 /\ r \in Run
    BY DEF CountedRun, Run
<1>2. m \in created /\ m \in Runs /\ run[m] \in CountedRun
    BY DEF CountInv, LockInv, Active
<1>3. /\ run' \in [Runs -> CountedRun]
      /\ run'[m].nextSeq \in {run[m].nextSeq, run[m].nextSeq + 1}
      /\ \A r \in Runs \ {m} : run'[r] = run[r]
    <2> DEFINE new == [run[m] EXCEPT !.nextSeq = IF op[o].seq = NoSeq THEN @ ELSE @ + 1]
    <2>1. run' = [run EXCEPT ![m] = new]
        BY DEF Count
    <2>2. new \in CountedRun /\ new.nextSeq \in {run[m].nextSeq, run[m].nextSeq + 1}
        BY <1>1, <1>2 DEF CountedRun, Run
    <2> HIDE DEF new
    <2> QED BY <1>2, <2>1, <2>2 DEF CountInv
<1>4. \A r \in Runs : run[r].nextSeq <= run'[r].nextSeq
    BY <1>1, <1>2, <1>3 DEF CountInv
<1>5. v \in CountedRun /\ v.nextSeq = run[m].nextSeq
    BY <1>2 DEF CountInv, Fresh
<1>6. /\ dbRun' \in [Runs -> CountedRun] /\ dbRuns' \subseteq created
      /\ \A r \in dbRuns' : dbRun'[r].nextSeq <= run'[r].nextSeq
      /\ NoRewind
    <2>1. StoreRun(m, v) \/ UNCHANGED <<dbRuns, dbRun>>
        OBVIOUS
    <2>2. m \in dbRuns => v.nextSeq >= dbRun[m].nextSeq
        BY <1>1, <1>2, <1>5 DEF CountInv
    <2>3. v.nextSeq <= run'[m].nextSeq
        BY <1>1, <1>2, <1>3, <1>5
    <2> HIDE DEF v, m
    <2> QED BY <1>2, <1>3, <1>4, <1>5, <2>1, <2>2, <2>3, WriteStep
<1>7. ASSUME NEW p \in Ops PROVE Fresh(p)'
    <2>1. CASE p = o
        BY <2>1 DEF GoTo, Fresh, LockInv
    <2>2. CASE p # o
        <3>1. stage'[p] = stage[p] /\ snap'[p] = snap[p] /\ Mine(p)' = Mine(p)
            BY <2>2 DEF GoTo, Mine, LockInv, CountInv
        <3>2. stage[p] \in {"writing", "finishing"} => Mine(p) # m /\ Mine(p) \in Runs
            BY <2>2 DEF LockInv, AtHead, Active
        <3> QED BY <1>3, <3>1, <3>2 DEF Fresh, CountInv
    <2> QED BY <2>1, <2>2
<1>8. \A p \in Ops : stage'[p] # "new" => Mine(p)' \in created'
    BY <1>2 DEF GoTo, Mine, CountInv, LockInv
<1>9. DOMAIN snap' = Ops
    BY DEF CountInv
<1> QED BY <1>3, <1>6, <1>7, <1>8, <1>9 DEF CountInv

(* A step of an operation that leaves all counters alone.                  *)
LEMMA HolderKeepsCounters ==
    ASSUME LockInv, CountInv, NEW o \in Ops, stage[o] # "new",
           UNCHANGED <<run, runs, created, op>>,
           \A p \in Ops \ {o} : stage'[p] = stage[p] /\ snap'[p] = snap[p],
           DOMAIN snap' = Ops, Fresh(o)',
           \/ UNCHANGED <<dbRuns, dbRun>>
           \/ stage[o] = "finishing" /\ snap[o].run /\ StoreRun(Mine(o), snap[o].value)
    PROVE  CountInv' /\ NoRewind
<1> DEFINE m == Mine(o)
<1> DEFINE v == IF UNCHANGED <<dbRuns, dbRun>> THEN run[m] ELSE snap[o].value
<1>1. \A r \in CountedRun : r.nextSeq \in Nat
    BY DEF CountedRun, Run
<1>2. m \in created /\ m \in Runs /\ v \in CountedRun /\ v.nextSeq = run[m].nextSeq
    BY DEF CountInv, Fresh
<1>3. \A r \in Runs : run[r].nextSeq <= run'[r].nextSeq
    BY <1>1 DEF CountInv
<1>4. /\ dbRun' \in [Runs -> CountedRun] /\ dbRuns' \subseteq created
      /\ \A r \in dbRuns' : dbRun'[r].nextSeq <= run'[r].nextSeq
      /\ NoRewind
    <2>1. StoreRun(m, v) \/ UNCHANGED <<dbRuns, dbRun>>
        OBVIOUS
    <2>2. /\ m \in dbRuns => v.nextSeq >= dbRun[m].nextSeq
          /\ v.nextSeq <= run'[m].nextSeq /\ run' \in [Runs -> CountedRun]
        BY <1>1, <1>2 DEF CountInv
    <2> HIDE DEF v, m
    <2> QED BY <1>2, <1>3, <2>1, <2>2, WriteStep
<1>5. \A p \in Ops : Fresh(p)'
    BY DEF CountInv, Fresh, Mine
<1>6. \A p \in Ops : stage'[p] # "new" => Mine(p)' \in created'
    BY DEF CountInv, Mine
<1> QED BY <1>4, <1>5, <1>6 DEF CountInv

(* A run changes in memory, but not its counter, and may be stored.        *)
LEMMA OtherFieldStep ==
    ASSUME CountInv, NEW m \in Runs, NEW new \in CountedRun, new.nextSeq = run[m].nextSeq,
           run' = [run EXCEPT ![m] = new],
           (m \in runs /\ StoreRun(m, new)) \/ UNCHANGED <<dbRuns, dbRun>>,
           UNCHANGED <<runs, created, op, snap>>,
           \A p \in Ops : \/ stage'[p] = stage[p]
                          \/ stage[p] # "new" /\ stage'[p] = "executing"
    PROVE  CountInv' /\ NoRewind
<1>1. \A r \in CountedRun : r.nextSeq \in Nat
    BY DEF CountedRun, Run
<1>2. /\ run' \in [Runs -> CountedRun] /\ \A r \in Runs : run'[r].nextSeq = run[r].nextSeq
    BY DEF CountInv
<1>3. /\ dbRun' \in [Runs -> CountedRun] /\ dbRuns' \subseteq created
      /\ \A r \in dbRuns' : dbRun'[r].nextSeq <= run'[r].nextSeq
      /\ NoRewind
    <2>1. CASE m \in runs /\ StoreRun(m, new)
        <3>1. m \in created /\ (m \in dbRuns => new.nextSeq >= dbRun[m].nextSeq)
            BY <1>1, <2>1 DEF CountInv
        <3>2. /\ new.nextSeq <= run'[m].nextSeq
              /\ \A r \in Runs : run[r].nextSeq <= run'[r].nextSeq
            BY <1>1, <1>2 DEF CountInv
        <3> QED BY <1>2, <2>1, <3>1, <3>2, WriteStep
    <2>2. CASE UNCHANGED <<dbRuns, dbRun>>
        BY <1>1, <1>2, <2>2 DEF CountInv, NoRewind
    <2> QED BY <2>1, <2>2
<1>4. \A p \in Ops : Fresh(p)' /\ (stage'[p] # "new" => Mine(p)' \in created)
    <2>1. \A p \in Ops : stage[p] # "new" => Mine(p) \in Runs
        BY DEF CountInv
    <2> QED BY <1>2, <2>1 DEF CountInv, Fresh, Mine
<1> QED BY <1>2, <1>3, <1>4 DEF CountInv

LEMMA FinishCounts ==
    ASSUME LockInv, CountInv, NEW o \in Ops, stage[o] # "new", NEW res, Finish(o, res),
           UNCHANGED <<run, runs, created>>,
           \/ UNCHANGED <<dbRuns, dbRun>>
           \/ stage[o] = "finishing" /\ snap[o].run /\ StoreRun(Mine(o), snap[o].value)
    PROVE  CountInv' /\ NoRewind
<1>1. /\ \A p \in Ops \ {o} : stage'[p] = stage[p] /\ snap'[p] = snap[p]
      /\ DOMAIN snap' = Ops /\ op' = op /\ stage'[o] = "done"
    BY DEF Finish, LockInv, CountInv
<1>2. Fresh(o)'
    BY <1>1 DEF Fresh
<1> QED BY <1>1, <1>2, HolderKeepsCounters

LEMMA SerialiseCounts ==
    ASSUME LockInv, CountInv, NEW o \in Ops, stage[o] # "new", NEW s, NEW C,
           snap' = [snap EXCEPT ![o] = IF Mine(o) \in runs
                                       THEN [run |-> TRUE, value |-> run[Mine(o)], ckpts |-> C]
                                       ELSE NothingToWrite],
           GoTo(o, s), UNCHANGED <<run, runs, created, op, dbRuns, dbRun>>
    PROVE  CountInv' /\ NoRewind
<1>1. /\ \A p \in Ops \ {o} : stage'[p] = stage[p] /\ snap'[p] = snap[p]
      /\ DOMAIN snap' = Ops
    BY DEF GoTo, LockInv, CountInv
<1>2. Fresh(o)'
    BY DEF Fresh, NothingToWrite, Mine, CountInv
<1> QED BY <1>1, <1>2, HolderKeepsCounters

LEMMA ProceedCounts ==
    ASSUME LockInv, CountInv, NEW o \in Ops, Proceed(o)
    PROVE  CountInv' /\ NoRewind
<1>1. UNCHANGED <<runs, created>>
    BY DEF Proceed, Conflict, Enter, EnterSave, Compute, Load, ComputeFails, SaveState,
        SaveStateFails, SerialiseCheckpoint, StoreCheckpoint, SerialiseCount, StoreCount,
        control, objects
<1>2. CASE Conflict(o)
    BY <1>1, <1>2, FinishCounts DEF Conflict, CanEnter, objects, durable
<1>3. CASE Enter(o) \/ SaveState(o)
    <2>1. /\ \E s \in {"executing", "storing"} : GoTo(o, s)
          /\ stage[o] # "new" /\ UNCHANGED <<run, op, snap, dbRuns, dbRun>>
        BY <1>3 DEF Enter, CanEnter, SaveState, objects, durable
    <2>2. \A p \in Ops \ {o} : stage'[p] = stage[p] /\ snap'[p] = snap[p]
        BY <2>1 DEF GoTo, LockInv
    <2>3. Fresh(o)' /\ DOMAIN snap' = Ops
        BY <2>1 DEF GoTo, Fresh, LockInv, CountInv
    <2> QED BY <1>1, <2>1, <2>2, <2>3, HolderKeepsCounters
<1>4. CASE EnterSave(o)
    <2> DEFINE m == Mine(o)
    <2> DEFINE t == op[o].type
    <2> DEFINE new == [run[m] EXCEPT !.nextName[t] = @ + 1]
    <2>1. m \in Runs /\ run[m] \in CountedRun
        BY DEF LockInv, CountInv
    <2>2. new \in CountedRun /\ new.nextSeq = run[m].nextSeq
        BY <2>1 DEF CountedRun, Run
    <2>3. run' = [run EXCEPT ![m] = new] /\ UNCHANGED <<op, snap, dbRuns, dbRun>>
        BY <1>4 DEF EnterSave, TakeName, durable
    <2>4. \A p \in Ops : stage'[p] = stage[p] \/ (stage[p] # "new" /\ stage'[p] = "executing")
        BY <1>4 DEF EnterSave, CanEnter, GoTo, LockInv
    <2> HIDE DEF new, m
    <2> QED BY <1>1, <2>1, <2>2, <2>3, <2>4, OtherFieldStep
<1>5. CASE Compute(o) \/ Load(o)
    BY <1>1, <1>5, CountedStep DEF Compute, Load, Computing, Active, durable
<1>6. CASE ComputeFails(o) \/ SaveStateFails(o)
    BY <1>1, <1>6, FinishCounts DEF ComputeFails, Computing, SaveStateFails, objects, durable
<1>7. CASE SerialiseCheckpoint(o)
    <2>1. stage[o] # "new" /\ UNCHANGED <<run, op, dbRuns, dbRun>> /\ GoTo(o, "writing")
        BY <1>7 DEF SerialiseCheckpoint, objects, durable
    <2> QED BY <1>1, <1>7, <2>1, SerialiseCounts DEF SerialiseCheckpoint
<1>8. CASE StoreCheckpoint(o)
    <2>1. \/ UNCHANGED <<dbRuns, dbRun>>
          \/ snap[o].run /\ StoreRun(Mine(o), snap[o].value)
        BY <1>8 DEF StoreCheckpoint, WriteBoth, StoreRun, durable
    <2>2. /\ stage[o] = "writing" /\ Count(o) /\ GoTo(o, "counting") /\ op' = op
          /\ snap' = [snap EXCEPT ![o] = NothingToWrite]
        BY <1>8 DEF StoreCheckpoint
    <2> QED BY <1>1, <2>1, <2>2, CountedStep DEF Active
<1>9. CASE SerialiseCount(o)
    <2>1. stage[o] # "new" /\ UNCHANGED <<run, op, dbRuns, dbRun>> /\ GoTo(o, "finishing")
        BY <1>9 DEF SerialiseCount, objects, durable
    <2> QED BY <1>1, <1>9, <2>1, SerialiseCounts DEF SerialiseCount
<1>10. CASE StoreCount(o)
    BY <1>1, <1>10, FinishCounts DEF StoreCount, WriteCount, objects
<1> QED BY <1>2, <1>3, <1>4, <1>5, <1>6, <1>7, <1>8, <1>9, <1>10 DEF Proceed

LEMMA OutsideCounts ==
    ASSUME CountInv, NEW m \in Runs, Unlocked(m) \/ Recover(m)
    PROVE  CountInv' /\ NoRewind
<1>1. UNCHANGED <<op, stage, snap>>
    BY DEF Unlocked, CreateModel, DeleteCheckpoint, CrashWhileDeleting, SetVisibility,
        RemoveAdapter, ForgetRun, Recover, SkipRun, RecoverFresh, RecoverFromCheckpoint,
        RecoverCorrupted, coroutines
<1>2. \A r \in CountedRun : r.nextSeq \in Nat
    BY DEF CountedRun, Run
<1>3. CASE CreateModel(m)
    <2>1. /\ m \notin created /\ created' = created \cup {m} /\ runs' = runs \cup {m}
          /\ run' = run /\ m \notin dbRuns
          /\ StoreRun(m, FreshRun)
        BY <1>3 DEF CreateModel, CountInv
    <2>2. /\ dbRun' \in [Runs -> CountedRun] /\ dbRuns' \subseteq created'
          /\ \A r \in dbRuns : dbRun'[r] = dbRun[r]
          /\ m \in dbRuns' => dbRun'[m] = FreshRun
          /\ dbRuns' \subseteq dbRuns \cup {m}
        BY <2>1, FreshRunIsCounted DEF StoreRun, CountInv
    <2>3. FreshRun.nextSeq = 1 /\ run[m].nextSeq >= 1
        BY DEF FreshRun, CountedRun, CountInv
    <2>4. \A r \in dbRuns' : dbRun'[r].nextSeq <= run'[r].nextSeq
        BY <1>2, <2>1, <2>2, <2>3 DEF CountInv
    <2>5. NoRewind
        BY <1>2, <2>1, <2>2 DEF NoRewind, CountInv
    <2>6. \A p \in Ops : Fresh(p)' /\ (stage'[p] # "new" => Mine(p)' \in created')
        BY <1>1, <2>1 DEF Fresh, Mine, CountInv
    <2> QED BY <1>1, <2>1, <2>2, <2>4, <2>5, <2>6 DEF CountInv
<1>4. ASSUME NEW n \in Names, DeleteCheckpoint(m, n) \/ CrashWhileDeleting(m, n)
      PROVE  CountInv' /\ NoRewind
    <2>1. m \in runs /\ StoreRun(m, run[m]) /\ UNCHANGED <<run, runs, created>>
        BY <1>4 DEF DeleteCheckpoint, CrashWhileDeleting, objects, control
    <2> QED BY <1>1, <2>1, StoreOwnStep
<1>5. ASSUME \/ \E c \in ckpts[m] : SetVisibility(m, c)
             \/ RemoveAdapter(m) \/ SkipRun(m) \/ RecoverFresh(m) \/ RecoverFromCheckpoint(m)
      PROVE  CountInv' /\ NoRewind
    <2>1. UNCHANGED <<run, runs, created, dbRuns, dbRun>>
        BY <1>5 DEF SetVisibility, RemoveAdapter, SkipRun, RecoverFresh, RecoverFromCheckpoint,
            objects, control, durable
    <2> QED BY <1>1, <2>1, QuietStep
<1>6. CASE ForgetRun(m)
    <2>1. /\ UNCHANGED <<run, created>> /\ runs' \subseteq runs /\ dbRuns' = dbRuns \ {m}
          /\ dbRun' \in [Runs -> CountedRun] /\ \A r \in dbRuns' : dbRun'[r] = dbRun[r]
        BY <1>6, FreshRunIsCounted DEF ForgetRun, control, CountInv
    <2> QED BY <1>1, <1>2, <2>1 DEF CountInv, Fresh, Mine, NoRewind
<1>7. CASE RecoverCorrupted(m)
    <2> DEFINE new == [run[m] EXCEPT !.corrupted = TRUE]
    <2>1. new \in CountedRun /\ new.nextSeq = run[m].nextSeq
        BY DEF CountedRun, Run, CountInv
    <2>2. /\ run' = [run EXCEPT ![m] = new] /\ m \in runs /\ StoreRun(m, run'[m])
          /\ UNCHANGED <<runs, created>>
        BY <1>7 DEF RecoverCorrupted, CanRecover
    <2>3. run'[m] = new
        BY <2>2 DEF CountInv
    <2> HIDE DEF new
    <2> QED BY <1>1, <2>1, <2>2, <2>3, OtherFieldStep
<1> QED BY <1>3, <1>4, <1>5, <1>6, <1>7 DEF Unlocked, Recover

(* What a new process reads is what was stored.                            *)
LEMMA RestartCounts ==
    ASSUME CountInv, Restart
    PROVE  CountInv' /\ NoRewind
<1>1. /\ UNCHANGED <<created, op, dbRuns, dbRun>> /\ runs' = dbRuns
      /\ run' = [m \in Runs |-> RestoredRun(m)]
      /\ stage' = [o \in Ops |-> IF stage[o] \in {"new", "done"} THEN stage[o] ELSE "lost"]
      /\ snap' = [o \in Ops |-> NothingToWrite]
    BY DEF Restart, durable
<1>2. \A m \in Runs : run'[m] \in CountedRun /\ (m \in dbRuns => run'[m] = dbRun[m])
    BY <1>1, FreshRunIsCounted DEF RestoredRun, CountInv
<1>3. run' \in [Runs -> CountedRun]
    BY <1>1, <1>2
<1>4. \A r \in CountedRun : r.nextSeq \in Nat
    BY DEF CountedRun, Run
<1>5. \A o \in Ops : Fresh(o)' /\ (stage'[o] # "new" => Mine(o)' \in created)
    BY <1>1 DEF Fresh, Mine, CountInv
<1> QED BY <1>1, <1>2, <1>3, <1>4, <1>5 DEF CountInv, NoRewind

LEMMA CountNext == LockInv /\ CountInv /\ [Next]_trainingVars => CountInv' /\ NoRewind
<1> SUFFICES ASSUME LockInv, CountInv, [Next]_trainingVars PROVE CountInv' /\ NoRewind
    OBVIOUS
<1>1. ASSUME NEW o \in Ops, Request(o) PROVE CountInv' /\ NoRewind
    BY <1>1, StartCounts DEF Request, LockInv
<1>2. ASSUME FinishRecovery \/ ProcessEnds \/ UNCHANGED trainingVars PROVE CountInv' /\ NoRewind
    BY <1>2, QuietStep
    DEF FinishRecovery, ProcessEnds, trainingVars, coroutines, objects, durable, control
<1> QED BY <1>1, <1>2, ProceedCounts, OutsideCounts, RestartCounts DEF Next

(* The stored counter of a run never decreases, whatever writes are lost,  *)
(* whoever deletes, unloads or restores beside the operations, and however *)
(* late a worker thread writes: a number that was used up stays so.        *)
THEOREM SequenceIdsDoNotRewind == Spec => StoredCounterNeverDecreases
<1>1. Init => LockInv /\ CountInv
    BY LockInit, CountInit
<1>2. LockInv /\ CountInv /\ [Next]_trainingVars => LockInv' /\ CountInv'
    BY LockNext, CountNext
<1>3. LockInv /\ CountInv /\ [Next]_trainingVars =>
        [\A m \in dbRuns \cap dbRuns' : dbRun'[m].nextSeq >= dbRun[m].nextSeq]_trainingVars
    BY CountNext DEF NoRewind
<1> QED BY <1>1, <1>2, <1>3, PTL DEF Spec, StoredCounterNeverDecreases

-----------------------------------------------------------------------------
(* What everything is made of.  Type correctness needs one idea: a name     *)
(* that comes from a counter is a name, because every save that moves the   *)
(* counter is an operation of its own.                                      *)

(* What Request passes to Start.                                           *)
Arguments(o) ==
    /\ op[o].kind \in {"forward", "forward_backward", "optim_step", "save", "load"}
    /\ op[o].seq \in Nat /\ op[o].future \in Nat
    /\ op[o].kind = "save" => op[o].type \in Types /\ op[o].name \in NameArgs
    /\ op[o].kind = "load" => op[o].source \in Runs /\ op[o].name \in Names

Ended ==
    /\ DOMAIN result = Ops
    /\ \A o \in Ops : result[o] # "none" => stage[o] = "done"
    /\ \A o \in Ops : Arguments(o)

(* The operations that passed the guard, or did not.                       *)
Begun == {o \in Ops : stage[o] \notin {"new", "waiting"}}
NameCounters == [Types -> 1..(Cardinality(Begun) + 1)]

(* A save has chosen its checkpoint.                                       *)
Naming(o) ==
    stage[o] \in {"storing", "writing"} \/ (stage[o] = "executing" /\ op[o].kind = "save")

TypedInv ==
    /\ adapters \in [Runs -> Adapter]
    /\ dirs \in [Runs -> [Names -> Directory]]
    /\ ckpts \in [Runs -> SUBSET Checkpoint]
    /\ dbCkpts \in [Runs -> SUBSET Checkpoint]
    /\ clock \in Nat
    /\ DOMAIN making = Ops
    /\ \A o \in Ops : making[o].weights \subseteq Ops
    /\ \A o \in Ops : Naming(o) => making[o] \in Checkpoint
    /\ \A o \in Ops : stage[o] = "writing" => snap[o].ckpts \subseteq Checkpoint

NamesInv ==
    /\ \A m \in Runs : run[m].nextName \in NameCounters /\ dbRun[m].nextName \in NameCounters
    /\ \A o \in Ops : stage[o] \in {"writing", "finishing"} /\ snap[o].run =>
                         snap[o].value.nextName \in NameCounters

(* A step of an operation changes nothing of another operation, and nothing *)
(* of another run.                                                          *)
OthersKept(m) ==
    \A r \in Runs \ {m} :
        /\ run'[r] = run[r] /\ adapters'[r] = adapters[r]
        /\ dirs'[r] = dirs[r] /\ ckpts'[r] = ckpts[r]
        /\ dbRun'[r] = dbRun[r] /\ dbCkpts'[r] = dbCkpts[r]
        /\ r \in dbRuns' <=> r \in dbRuns

OnlyOf(o) ==
    /\ op' = op /\ created' = created /\ runs' = runs /\ unloading' = unloading
    /\ phase' = phase
    /\ \A p \in Ops \ {o} : /\ stage'[p] = stage[p] /\ result'[p] = result[p]
                            /\ making'[p] = making[p] /\ snap'[p] = snap[p]
    /\ OthersKept(Mine(o))
    /\ stage[o] \in Active \cup {"waiting"} /\ stage'[o] \in Active \cup {"done"}
    /\ result'[o] = result[o] \/ stage'[o] = "done"
    /\ DOMAIN result' = DOMAIN result /\ DOMAIN making' = DOMAIN making
    /\ DOMAIN snap' = DOMAIN snap

LEMMA OnlyOfFinish ==
    ASSUME LockInv, CountInv, Ended, TypedInv, NEW o \in Ops, NEW res, Finish(o, res),
           stage[o] \in Active \cup {"waiting"},
           UNCHANGED <<phase, created, unloading, runs, run, ckpts, dirs, dbCkpts>>,
           \A m \in Runs \ {Mine(o)} : adapters'[m] = adapters[m],
           (WriteCount(o) \/ UNCHANGED <<dbRuns, dbRun>>)
    PROVE  OnlyOf(o)
<1>1. /\ \A p \in Ops \ {o} : /\ stage'[p] = stage[p] /\ result'[p] = result[p]
                              /\ making'[p] = making[p] /\ snap'[p] = snap[p]
      /\ op' = op /\ stage'[o] = "done"
      /\ DOMAIN result' = DOMAIN result /\ DOMAIN making' = DOMAIN making
      /\ DOMAIN snap' = DOMAIN snap
    BY DEF Finish, LockInv, CountInv, Ended, TypedInv
<1>2. \A m \in Runs \ {Mine(o)} : dbRun'[m] = dbRun[m] /\ (m \in dbRuns' <=> m \in dbRuns)
    BY DEF WriteCount, StoreRun, CountInv
<1> QED BY <1>1, <1>2 DEF OnlyOf, OthersKept

LEMMA OnlyOfGo ==
    ASSUME LockInv, CountInv, NEW o \in Ops, NEW s \in Active, GoTo(o, s),
           stage[o] \in Active \cup {"waiting"}, op' = op,
           UNCHANGED <<phase, created, unloading, runs, result>>,
           \/ making' = making
           \/ \E c : making' = [making EXCEPT ![o] = c],
           \/ snap' = snap
           \/ \E c : snap' = [snap EXCEPT ![o] = c],
           OthersKept(Mine(o)), TypedInv
    PROVE  OnlyOf(o)
<1>1. \A p \in Ops \ {o} : stage'[p] = stage[p] /\ making'[p] = making[p] /\ snap'[p] = snap[p]
    BY DEF GoTo, LockInv, CountInv, TypedInv
<1>2. /\ DOMAIN making' = DOMAIN making /\ DOMAIN snap' = DOMAIN snap /\ stage'[o] = s
    BY DEF GoTo, LockInv
<1>3. /\ op' = op /\ created' = created /\ runs' = runs /\ unloading' = unloading
      /\ phase' = phase /\ result' = result
    OBVIOUS
<1> QED BY <1>1, <1>2, <1>3 DEF OnlyOf

LEMMA ProceedOnlyOf ==
    ASSUME LockInv, CountInv, Ended, TypedInv, NEW o \in Ops, Proceed(o)
    PROVE  OnlyOf(o)
<1> DEFINE m == Mine(o)
<1>0. {"executing", "storing", "writing", "counting", "finishing"} = Active
    BY DEF Active
<1>1. CASE Conflict(o)
    BY <1>1, OnlyOfFinish DEF Conflict, CanEnter, control, objects, durable
<1>2. CASE Enter(o)
    BY <1>0, <1>2, OnlyOfGo DEF Enter, CanEnter, OthersKept, control, objects, durable
<1>3. CASE EnterSave(o)
    <2>1. OthersKept(m)
        BY <1>3 DEF OthersKept, EnterSave, TakeName, durable, CountInv, TypedInv
    <2>2. /\ UNCHANGED <<phase, created, unloading, runs, result, op, snap>>
          /\ making' = [making EXCEPT ![o] = NewCheckpoint(o)] /\ GoTo(o, "executing")
          /\ stage[o] = "waiting"
        BY <1>3 DEF EnterSave, CanEnter, control
    <2> QED BY <1>0, <2>1, <2>2, OnlyOfGo
<1>4. CASE Compute(o)
    <2>1. OthersKept(m)
        BY <1>4 DEF OthersKept, Compute, Count, durable, CountInv, TypedInv
    <2>2. /\ UNCHANGED <<phase, created, unloading, runs, result, op, snap, making>>
          /\ GoTo(o, "counting") /\ stage[o] = "executing"
        BY <1>4 DEF Compute, Computing, control
    <2> QED BY <1>0, <2>1, <2>2, OnlyOfGo
<1>5. CASE Load(o)
    <2>1. OthersKept(m)
        BY <1>5 DEF OthersKept, Load, Count, durable, CountInv, TypedInv
    <2>2. /\ UNCHANGED <<phase, created, unloading, runs, result, op, snap, making>>
          /\ GoTo(o, "counting") /\ stage[o] = "executing"
        BY <1>5 DEF Load, Computing, control
    <2> QED BY <1>0, <2>1, <2>2, OnlyOfGo
<1>6. CASE ComputeFails(o)
    <2>1. \A r \in Runs \ {m} : adapters'[r] = adapters[r]
        BY <1>6 DEF ComputeFails, TypedInv
    <2>2. /\ UNCHANGED <<phase, created, unloading, runs, run, ckpts, dirs, dbCkpts, dbRuns, dbRun>>
          /\ Finish(o, "failed") /\ stage[o] = "executing"
        BY <1>6 DEF ComputeFails, Computing, control, objects, durable
    <2> QED BY <1>0, <2>1, <2>2, OnlyOfFinish
<1>7. CASE SaveState(o)
    <2>1. OthersKept(m)
        BY <1>7 DEF OthersKept, SaveState, durable, TypedInv
    <2>2. /\ UNCHANGED <<phase, created, unloading, runs, result, op, snap, making>>
          /\ GoTo(o, "storing") /\ stage[o] = "executing"
        BY <1>7 DEF SaveState, control
    <2> QED BY <1>0, <2>1, <2>2, OnlyOfGo
<1>8. CASE SaveStateFails(o)
    BY <1>0, <1>8, OnlyOfFinish DEF SaveStateFails, control, objects, durable
<1>9. CASE SerialiseCheckpoint(o)
    <2>1. OthersKept(m)
        BY <1>9 DEF OthersKept, SerialiseCheckpoint, durable, objects
    <2>2. /\ UNCHANGED <<phase, created, unloading, runs, result, op, making>>
          /\ \E c : snap' = [snap EXCEPT ![o] = c]
          /\ GoTo(o, "writing") /\ stage[o] = "storing"
        BY <1>9 DEF SerialiseCheckpoint, control, objects
    <2> QED BY <1>0, <2>1, <2>2, OnlyOfGo
<1>10. CASE StoreCheckpoint(o)
    <2>1. OthersKept(m)
        BY <1>10 DEF OthersKept, StoreCheckpoint, WriteBoth, StoreCheckpoints, Count, durable, TypedInv, CountInv
    <2>2. /\ UNCHANGED <<phase, created, unloading, runs, result, op, making>>
          /\ \E c : snap' = [snap EXCEPT ![o] = c]
          /\ GoTo(o, "counting") /\ stage[o] = "writing"
        BY <1>10 DEF StoreCheckpoint, control
    <2> QED BY <1>0, <2>1, <2>2, OnlyOfGo
<1>11. CASE SerialiseCount(o)
    <2>1. OthersKept(m)
        BY <1>11 DEF OthersKept, SerialiseCount, durable, objects
    <2>2. /\ UNCHANGED <<phase, created, unloading, runs, result, op, making>>
          /\ \E c : snap' = [snap EXCEPT ![o] = c]
          /\ GoTo(o, "finishing") /\ stage[o] = "counting"
        BY <1>11 DEF SerialiseCount, control, objects
    <2> QED BY <1>0, <2>1, <2>2, OnlyOfGo
<1>12. CASE StoreCount(o)
    BY <1>0, <1>12, OnlyOfFinish DEF StoreCount, control, objects
<1> QED BY <1>1, <1>2, <1>3, <1>4, <1>5, <1>6, <1>7, <1>8, <1>9, <1>10, <1>11, <1>12 DEF Proceed

LEMMA OutsideKeeps ==
    ASSUME NEW m \in Runs, Unlocked(m) \/ Recover(m)
    PROVE  UNCHANGED coroutines /\ created \subseteq created'
BY DEF Unlocked, CreateModel, DeleteCheckpoint, CrashWhileDeleting, SetVisibility,
    RemoveAdapter, ForgetRun, Recover, SkipRun, RecoverFresh, RecoverFromCheckpoint,
    RecoverCorrupted, control

LEMMA QuietKeeps ==
    ASSUME FinishRecovery \/ ProcessEnds \/ UNCHANGED trainingVars
    PROVE  UNCHANGED <<coroutines, objects, durable, adapters, dirs, clock, enabled, created,
                       unloading, recovered>>
BY DEF FinishRecovery, ProcessEnds, trainingVars, control

(* An operation is requested once and ends once.                           *)
OpsStep ==
    /\ created \subseteq created'
    /\ \A o \in Ops :
        /\ stage[o] # "new" => /\ op'[o] = op[o] /\ stage'[o] # "new"
                               /\ result[o] = "failed" => result'[o] = "failed"
        /\ stage[o] \notin {"new", "waiting"} => stage'[o] \notin {"new", "waiting"}

LEMMA StartEnded ==
    ASSUME LockInv, Ended, NEW o \in Ops, NEW m \in Runs, NEW k \in Kinds, NEW s \in Nat,
           NEW src \in Runs, NEW t, NEW n, NEW F \in Nat, Start(o, m, k, s, src, t, n, F),
           k = "save" => t \in Types /\ n \in NameArgs,
           k = "load" => n \in Names
    PROVE  Ended' /\ OpsStep
<1>1. /\ op' = [op EXCEPT ![o] = [run |-> m, source |-> src, kind |-> k, seq |-> s,
                                  type |-> t, name |-> n, future |-> F]]
      /\ created' = created /\ stage[o] = "new"
      /\ stage'[o] \in {"waiting", "done"} /\ (result'[o] = result[o] \/ stage'[o] = "done")
      /\ \A p \in Ops \ {o} : stage'[p] = stage[p] /\ result'[p] = result[p]
      /\ DOMAIN result' = Ops
    BY DEF Start, control, LockInv, Ended
<1>2. Arguments(o)' /\ \A p \in Ops \ {o} : op'[p] = op[p]
    BY <1>1, KindsAssumption DEF Arguments, LockInv
<1>3. \A p \in Ops : Arguments(p)'
    BY <1>2 DEF Arguments, Ended
<1>4. Ended'
    BY <1>1, <1>3 DEF Ended
<1>5. OpsStep
    BY <1>1, <1>2 DEF OpsStep
<1> QED BY <1>4, <1>5

LEMMA EndedNext ==
    ASSUME LockInv, CountInv, Ended, TypedInv, [Next]_trainingVars
    PROVE  Ended' /\ OpsStep
<1>1. ASSUME NEW o \in Ops, Request(o) PROVE Ended' /\ OpsStep
    <2> PICK m \in Runs, k \in Kinds, s \in 0..MaxSeq, F \in 0..MaxFuture :
            \/ /\ k \notin {"save", "load"} /\ F = 0
               /\ Start(o, m, k, s, m, "training", AutoName, F)
            \/ /\ k = "save"
               /\ \E t \in Types, n \in NameArgs : Start(o, m, k, s, m, t, n, F)
            \/ /\ k = "load" /\ F = 0
               /\ \E src \in Runs, t \in Types, n \in Names : Start(o, m, k, s, src, t, n, F)
        BY <1>1 DEF Request
    <2>1. s \in Nat /\ F \in Nat
        BY BoundsAssumption
    <2> QED BY <2>1, StartEnded
<1>2. ASSUME NEW o \in Ops, Proceed(o) PROVE Ended' /\ OpsStep
    <2>1. OnlyOf(o)
        BY <1>2, ProceedOnlyOf
    <2>2. op' = op /\ created' = created /\ DOMAIN result' = Ops
        BY <2>1 DEF OnlyOf, Ended
    <2>3. \A p \in Ops : Arguments(p)'
        BY <2>2 DEF Arguments, Ended
    <2>4. /\ \A p \in Ops \ {o} : stage'[p] = stage[p] /\ result'[p] = result[p]
          /\ stage[o] \notin {"new", "done"} /\ stage'[o] \notin {"new", "waiting"}
          /\ result'[o] = result[o] \/ stage'[o] = "done"
        BY <2>1 DEF OnlyOf, Active
    <2>5. result[o] = "none"
        BY <2>4 DEF Ended
    <2>6. Ended'
        BY <2>2, <2>3, <2>4, <2>5 DEF Ended
    <2>7. OpsStep
        BY <2>2, <2>4, <2>5 DEF OpsStep
    <2> QED BY <2>6, <2>7
<1>3. ASSUME UNCHANGED <<op, stage, result>>, created \subseteq created' PROVE Ended' /\ OpsStep
    BY <1>3 DEF Ended, OpsStep, Arguments
<1>4. ASSUME NEW m \in Runs, Unlocked(m) \/ Recover(m) PROVE Ended' /\ OpsStep
    BY <1>3, <1>4, OutsideKeeps DEF coroutines
<1>5. CASE Restart
    <2>1. /\ op' = op /\ result' = result /\ created' = created
          /\ stage' = [o \in Ops |-> IF stage[o] \in {"new", "done"} THEN stage[o] ELSE "lost"]
        BY <1>5 DEF Restart
    <2> QED BY <2>1 DEF Ended, OpsStep, Arguments
<1>6. ASSUME FinishRecovery \/ ProcessEnds \/ UNCHANGED trainingVars PROVE Ended' /\ OpsStep
    BY <1>3, <1>6, QuietKeeps DEF coroutines
<1> QED BY <1>1, <1>2, <1>4, <1>5, <1>6 DEF Next

LEMMA BegunIsFinite == IsFiniteSet(Begun) /\ Cardinality(Begun) \in Nat
<1>1. Begun \subseteq Ops
    BY DEF Begun
<1> QED BY <1>1, OpsAssumption, FS_Subset, FS_CardinalityType

LEMMA CountersGrow ==
    ASSUME OpsStep
    PROVE  NameCounters \subseteq NameCounters'
<1>1. Begun \subseteq Begun' /\ Begun' \subseteq Ops
    BY DEF Begun, OpsStep
<1>2. IsFiniteSet(Begun')
    BY <1>1, OpsAssumption, FS_Subset
<1>3. Cardinality(Begun') \in Nat
    BY <1>2, FS_CardinalityType
<1>4. Cardinality(Begun) <= Cardinality(Begun')
    BY <1>1, <1>2, FS_Subset
<1>5. 1..(Cardinality(Begun) + 1) \subseteq 1..(Cardinality(Begun') + 1)
    BY <1>3, <1>4, BegunIsFinite
<1> QED BY <1>5 DEF NameCounters

(* A save that chooses its name is the first step of its operation.        *)
LEMMA SaveBegins ==
    ASSUME LockInv, NEW o \in Ops, stage[o] = "waiting", GoTo(o, "executing")
    PROVE  /\ Cardinality(Begun') = Cardinality(Begun) + 1
           /\ Cardinality(Begun) + 1 <= Cardinality(Ops)
<1>1. Begun' = Begun \cup {o} /\ o \notin Begun /\ Begun' \subseteq Ops
    BY DEF Begun, GoTo, LockInv
<1>2. Cardinality(Begun') = Cardinality(Begun) + 1
    BY <1>1, BegunIsFinite, FS_AddElement
<1>3. Cardinality(Begun') <= Cardinality(Ops)
    BY <1>1, OpsAssumption, FS_Subset
<1> QED BY <1>2, <1>3

LEMMA FreshName == FreshRun.nextName \in NameCounters
BY BegunIsFinite DEF FreshRun, NameCounters

(* Counters that come from counters.                                       *)
LEMMA NamesStay ==
    ASSUME OpsStep,
           \A m \in Runs : run'[m].nextName \in NameCounters /\ dbRun'[m].nextName \in NameCounters,
           \A o \in Ops : stage'[o] \in {"writing", "finishing"} /\ snap'[o].run =>
                              snap'[o].value.nextName \in NameCounters
    PROVE  NamesInv'
BY CountersGrow DEF NamesInv

LEMMA CountKeepsNames ==
    ASSUME CountInv, NEW o \in Ops, Count(o)
    PROVE  \A m \in Runs : run'[m].nextName = run[m].nextName
BY DEF Count, CountInv, CountedRun, Run

LEMMA ProceedNames ==
    ASSUME LockInv, CountInv, Ended, TypedInv, NamesInv, OpsStep, NEW o \in Ops, Proceed(o)
    PROVE  NamesInv'
<1> DEFINE m == Mine(o)
<1>1. OnlyOf(o) /\ m \in Runs
    BY ProceedOnlyOf DEF LockInv
<1>2. \A p \in Ops \ {o} : stage'[p] = stage[p] /\ snap'[p] = snap[p]
    BY <1>1 DEF OnlyOf
<1>3. \A r \in Runs \ {m} : run'[r] = run[r] /\ dbRun'[r] = dbRun[r]
    BY <1>1 DEF OnlyOf, OthersKept
<1>4. dbRun'[m].nextName \in NameCounters
    <2>1. \/ dbRun'[m] = dbRun[m]
          \/ stage[o] \in {"writing", "finishing"} /\ snap[o].run /\ dbRun'[m] = snap[o].value
        BY DEF Proceed, Conflict, Enter, EnterSave, Compute, Load, ComputeFails, SaveState,
            SaveStateFails, SerialiseCheckpoint, StoreCheckpoint, SerialiseCount, StoreCount,
            WriteCount, WriteBoth, StoreRun, durable, CountInv
    <2> QED BY <1>1, <2>1 DEF NamesInv
<1>5. CASE EnterSave(o)
    <2> DEFINE t == op[o].type
    <2>1. stage[o] = "waiting" /\ GoTo(o, "executing") /\ stage'[o] = "executing"
        BY <1>5 DEF EnterSave, CanEnter, GoTo, LockInv
    <2>2. Cardinality(Begun') = Cardinality(Begun) + 1
        BY <2>1, SaveBegins
    <2>3. /\ run' = [run EXCEPT ![m].nextName[t] = @ + 1] /\ run[m] \in Run
          /\ run[m].nextName \in NameCounters
        BY <1>1, <1>5 DEF EnterSave, TakeName, CountInv, CountedRun, NamesInv
    <2>4. run'[m].nextName = [run[m].nextName EXCEPT ![t] = @ + 1]
        BY <1>1, <2>3 DEF CountInv, Run
    <2>5. run'[m].nextName \in NameCounters'
        <3> DEFINE N == Cardinality(Begun)
        <3> DEFINE f == run[m].nextName
        <3>1. N \in Nat /\ f \in [Types -> 1..(N + 1)]
            BY <2>3, BegunIsFinite DEF NameCounters
        <3>2. NameCounters' = [Types -> 1..((N + 1) + 1)]
            BY <2>2 DEF NameCounters
        <3> HIDE DEF N, f
        <3>3. [f EXCEPT ![t] = @ + 1] \in [Types -> 1..((N + 1) + 1)]
            <4> HIDE DEF t
            <4>1. \A u \in Types : f[u] \in Nat /\ f[u] >= 1 /\ f[u] <= N + 1
                BY <3>1
            <4>2. \A u \in Types : [f EXCEPT ![t] = @ + 1][u] \in 1..((N + 1) + 1)
                BY <3>1, <4>1
            <4> QED BY <3>1, <4>2
        <3> QED BY <2>4, <3>2, <3>3 DEF f
    <2>6. \A r \in Runs : run'[r].nextName \in NameCounters' /\ dbRun'[r].nextName \in NameCounters'
        BY <1>3, <1>4, <2>5, CountersGrow DEF NamesInv
    <2>7. ASSUME NEW p \in Ops, stage'[p] \in {"writing", "finishing"}, snap'[p].run
          PROVE  snap'[p].value.nextName \in NameCounters'
        BY <1>2, <2>1, <2>7, CountersGrow DEF NamesInv
    <2> QED BY <2>6, <2>7 DEF NamesInv
<1>6. CASE ~EnterSave(o)
    <2>1. run'[m].nextName = run[m].nextName
        <3>1. run' = run \/ Count(o)
            BY <1>6 DEF Proceed, Conflict, Enter, Compute, Load, ComputeFails, SaveState,
                SaveStateFails, SerialiseCheckpoint, StoreCheckpoint, SerialiseCount, StoreCount,
                objects
        <3> QED BY <1>1, <3>1, CountKeepsNames
    <2>2. stage'[o] \in {"writing", "finishing"} /\ snap'[o].run => snap'[o].value = run[m]
        <3>1. \/ SerialiseCheckpoint(o) \/ SerialiseCount(o)
              \/ \E s \in {"done", "executing", "counting", "storing"} : stage'[o] = s
            BY <1>6 DEF Proceed, Conflict, Enter, Compute, Load, ComputeFails, SaveState,
                SaveStateFails, StoreCheckpoint, StoreCount, Finish, GoTo, LockInv
        <3> QED BY <3>1 DEF SerialiseCheckpoint, SerialiseCount, NothingToWrite, CountInv
    <2>3. \A r \in Runs : run'[r].nextName \in NameCounters /\ dbRun'[r].nextName \in NameCounters
        BY <1>3, <1>4, <2>1 DEF NamesInv
    <2>4. \A p \in Ops : stage'[p] \in {"writing", "finishing"} /\ snap'[p].run =>
                              snap'[p].value.nextName \in NameCounters
        BY <1>1, <1>2, <2>2 DEF NamesInv
    <2> QED BY <2>3, <2>4, NamesStay
<1> QED BY <1>5, <1>6

LEMMA NamesNext ==
    ASSUME LockInv, CountInv, Ended, TypedInv, NamesInv, OpsStep, [Next]_trainingVars
    PROVE  NamesInv'
<1>1. ASSUME NEW o \in Ops, Request(o) PROVE NamesInv'
    <2>1. PICK m, k, s, src, t, n, F : m \in Runs /\ Start(o, m, k, s, src, t, n, F)
        BY <1>1 DEF Request
    <2>2. run' = run /\ snap' = snap
        BY <2>1 DEF Start, objects
    <2>3. \A p \in Ops : stage'[p] \in {"writing", "finishing"} => stage'[p] = stage[p]
        BY <2>1 DEF Start, LockInv
    <2>4. \A r \in Runs : dbRun'[r] = dbRun[r] \/ dbRun'[r] = run[r]
        BY <2>1 DEF Start, StoreRun, CountInv
    <2> QED BY <2>2, <2>3, <2>4, NamesStay DEF NamesInv
<1>2. ASSUME UNCHANGED <<stage, snap>>,
             \A r \in Runs : run'[r].nextName = run[r].nextName,
             \A r \in Runs : \/ dbRun'[r].nextName = dbRun[r].nextName
                             \/ dbRun'[r].nextName = run[r].nextName
                             \/ dbRun'[r] = FreshRun
      PROVE  NamesInv'
    BY <1>2, NamesStay, FreshName DEF NamesInv
<1>3. ASSUME NEW m \in Runs, Unlocked(m) \/ Recover(m) PROVE NamesInv'
    <2>1. UNCHANGED <<stage, snap>>
        BY <1>3, OutsideKeeps DEF coroutines
    <2>2. CASE RecoverCorrupted(m)
        <3>1. /\ run' = [run EXCEPT ![m].corrupted = TRUE]
              /\ StoreRun(m, run'[m])
            BY <2>2 DEF RecoverCorrupted
        <3>2. \A r \in Runs : run'[r].nextName = run[r].nextName
            BY <3>1 DEF CountInv, CountedRun, Run
        <3>3. \A r \in Runs : dbRun'[r] = dbRun[r] \/ dbRun'[r] = run'[r]
            BY <3>1 DEF StoreRun, CountInv
        <3> QED BY <1>2, <2>1, <3>2, <3>3
    <2>3. CASE ~RecoverCorrupted(m)
        <3>1. run' = run
            BY <1>3, <2>3 DEF Unlocked, CreateModel, DeleteCheckpoint, CrashWhileDeleting,
                SetVisibility, RemoveAdapter, ForgetRun, Recover, SkipRun, RecoverFresh,
                RecoverFromCheckpoint, objects
        <3>2. \A r \in Runs : dbRun'[r] = dbRun[r] \/ dbRun'[r] = run[r] \/ dbRun'[r] = FreshRun
            BY <1>3, <2>3 DEF Unlocked, CreateModel, DeleteCheckpoint, CrashWhileDeleting,
                SetVisibility, RemoveAdapter, ForgetRun, Recover, SkipRun, RecoverFresh,
                RecoverFromCheckpoint, StoreRun, durable, CountInv
        <3> QED BY <1>2, <2>1, <3>1, <3>2
    <2> QED BY <2>2, <2>3
<1>4. CASE Restart
    <2>1. /\ \A r \in Runs : run'[r] = dbRun[r] \/ run'[r] = FreshRun
          /\ dbRun' = dbRun
        BY <1>4 DEF Restart, RestoredRun, durable
    <2>2. \A p \in Ops : stage'[p] \notin {"writing", "finishing"}
        BY <1>4 DEF Restart
    <2> QED BY <2>1, <2>2, NamesStay, FreshName DEF NamesInv
<1>5. ASSUME FinishRecovery \/ ProcessEnds \/ UNCHANGED trainingVars PROVE NamesInv'
    BY <1>2, <1>5, QuietKeeps DEF coroutines, objects, durable
<1> QED BY <1>1, <1>3, <1>4, <1>5, ProceedNames DEF Next

LEMMA RecordTypes ==
    /\ NoAdapter \in Adapter /\ FreshAdapter \in Adapter
    /\ \A W : W \subseteq Ops => [FreshAdapter EXCEPT !.weights = W] \in Adapter
    /\ NoDirectory \in Directory
    /\ NoCheckpoint.weights = {} /\ NothingToWrite.ckpts = {}
BY DEF NoAdapter, FreshAdapter, Adapter, NoDirectory, Directory, NoCheckpoint, NothingToWrite

(* The name a save chooses is one of Names.                                *)
LEMMA SaveNameIsName ==
    ASSUME LockInv, Ended, NamesInv, NEW o \in Ops, stage[o] = "waiting", op[o].kind = "save",
           GoTo(o, "executing")
    PROVE  SaveName(o) \in Names
<1>1. op[o].type \in Types /\ op[o].name \in NameArgs /\ Mine(o) \in Runs
    BY DEF Ended, Arguments, LockInv
<1>2. CASE op[o].name # AutoName
    BY <1>1, <1>2 DEF SaveName, Names
<1>3. CASE op[o].name = AutoName
    <2>1. SaveName(o) \in 1..(Cardinality(Begun) + 1)
        BY <1>1, <1>3 DEF SaveName, NamesInv, NameCounters
    <2>2. SaveName(o) \in 1..Cardinality(Ops) /\ SaveName(o) # AutoName
        <3>1. Cardinality(Begun) + 1 <= Cardinality(Ops)
            BY SaveBegins
        <3>2. Cardinality(Ops) \in Nat
            BY OpsAssumption, FS_CardinalityType
        <3> QED BY <2>1, <3>1, <3>2, BegunIsFinite DEF AutoName
    <2> QED BY <2>2 DEF Names
<1> QED BY <1>2, <1>3

LEMMA NewCheckpointIsTyped ==
    ASSUME LockInv, Ended, NamesInv, TypedInv, NEW o \in Ops, EnterSave(o)
    PROVE  NewCheckpoint(o) \in Checkpoint /\ SaveName(o) \in Names
<1>1. stage[o] = "waiting" /\ op[o].kind = "save" /\ GoTo(o, "executing")
    BY DEF EnterSave, CanEnter
<1>2. SaveName(o) \in Names
    BY <1>1, SaveNameIsName
<1>3. /\ op[o].type \in Types /\ op[o].future \in Nat /\ clock + 1 \in Nat
      /\ adapters[Mine(o)].weights \subseteq Ops
    BY <1>1 DEF Ended, Arguments, LockInv, TypedInv, Adapter
<1> QED BY <1>2, <1>3 DEF NewCheckpoint, Checkpoint

LEMMA ProceedTyped ==
    ASSUME LockInv, CountInv, Ended, TypedInv, NamesInv, NEW o \in Ops, Proceed(o)
    PROVE  TypedInv'
<1> DEFINE m == Mine(o)
<1>1. OnlyOf(o) /\ m \in Runs
    BY ProceedOnlyOf DEF LockInv
<1>2. \A p \in Ops \ {o} : /\ stage'[p] = stage[p] /\ snap'[p] = snap[p] /\ making'[p] = making[p]
                           /\ op'[p] = op[p]
    BY <1>1 DEF OnlyOf
<1>3. adapters' \in [Runs -> Adapter]
    <2>1. CASE adapters' = adapters
        BY <2>1 DEF TypedInv
    <2>2. CASE Compute(o)
        <3>1. adapters[m] \in Adapter
            BY <1>1 DEF TypedInv
        <3>2. op[o].kind \in {"forward", "forward_backward", "optim_step"}
            BY <2>2 DEF Compute, Computing, Ended, Arguments
        <3>3. Effect(o, adapters[m]) \in Adapter
            BY <3>1, <3>2 DEF Effect, Adapter
        <3>4. adapters' = [adapters EXCEPT ![m] = Effect(o, adapters[m])]
            BY <2>2 DEF Compute
        <3> QED BY <3>3, <3>4 DEF TypedInv
    <2>3. CASE Load(o)
        <3>1. op[o].source \in Runs /\ op[o].name \in Names
            BY <2>3 DEF Load, Ended, Arguments
        <3>2. Source(o).weights \subseteq Ops /\ adapters[m].grads \subseteq Ops
            BY <1>1, <3>1 DEF Source, TypedInv, Directory, Adapter
        <3>3. PICK g \in {{}, adapters[m].grads} :
                adapters' = [adapters EXCEPT ![m] =
                                [here |-> TRUE, weights |-> Source(o).weights, grads |-> g]]
            BY <2>3 DEF Load
        <3>4. [here |-> TRUE, weights |-> Source(o).weights, grads |-> g] \in Adapter
            BY <3>2, <3>3 DEF Adapter
        <3> QED BY <3>3, <3>4 DEF TypedInv
    <2>4. CASE adapters' = [adapters EXCEPT ![m].grads = @ \cup {o}]
        <3>1. adapters[m] \in Adapter
            BY <1>1 DEF TypedInv
        <3>2. [adapters[m] EXCEPT !.grads = @ \cup {o}] \in Adapter
            BY <3>1 DEF Adapter
        <3> QED BY <2>4, <3>2 DEF TypedInv
    <2> QED BY <2>1, <2>2, <2>3, <2>4 DEF Proceed, Conflict, Enter, EnterSave, ComputeFails,
            SaveState, SaveStateFails, SerialiseCheckpoint, StoreCheckpoint, SerialiseCount,
            StoreCount
<1>4. dirs' \in [Runs -> [Names -> Directory]]
    <2>1. CASE EnterSave(o)
        <3>1. [state |-> "partial", weights |-> {}] \in Directory
            BY DEF Directory
        <3> QED BY <2>1, <3>1 DEF EnterSave, TypedInv
    <2>2. CASE SaveState(o)
        <3>1. making[o].weights \subseteq Ops
            BY DEF TypedInv
        <3>2. \A d : [state |-> IF d = "partial" THEN "complete" ELSE "partial",
                      weights |-> making[o].weights] \in Directory
            BY <3>1 DEF Directory
        <3> QED BY <2>2, <3>2 DEF SaveState, TypedInv
    <2> QED BY <2>1, <2>2 DEF Proceed, Conflict, Enter, Compute, Load, ComputeFails,
            SaveStateFails, SerialiseCheckpoint, StoreCheckpoint, SerialiseCount,
            StoreCount, TypedInv
<1>5. ckpts' \in [Runs -> SUBSET Checkpoint]
    <2>1. CASE SaveState(o)
        <3>1. making[o] \in Checkpoint
            BY <2>1 DEF SaveState, TypedInv, Naming
        <3> QED BY <2>1, <3>1 DEF SaveState, TypedInv
    <2> QED BY <2>1 DEF Proceed, Conflict, Enter, EnterSave, Compute, Load, ComputeFails,
            SaveStateFails, SerialiseCheckpoint, StoreCheckpoint, SerialiseCount,
            StoreCount, TypedInv, objects
<1>6. dbCkpts' \in [Runs -> SUBSET Checkpoint]
    <2>1. CASE StoreCheckpoint(o)
        <3>1. snap[o].ckpts \subseteq Checkpoint
            BY <2>1 DEF StoreCheckpoint, TypedInv
        <3> QED BY <2>1, <3>1 DEF StoreCheckpoint, WriteBoth, StoreCheckpoints, TypedInv, durable
    <2> QED BY <2>1 DEF Proceed, Conflict, Enter, EnterSave, Compute, Load, ComputeFails, SaveState,
            SaveStateFails, SerialiseCheckpoint, SerialiseCount, StoreCount, TypedInv, durable
<1>7. clock' \in Nat
    BY DEF Proceed, Conflict, Enter, EnterSave, Compute, Load, ComputeFails, SaveState,
        SaveStateFails, SerialiseCheckpoint, StoreCheckpoint, SerialiseCount, StoreCount, TypedInv
<1>8. DOMAIN making' = Ops
    BY <1>1 DEF OnlyOf, TypedInv
<1>9. making'[o].weights \subseteq Ops /\ (Naming(o)' => making'[o] \in Checkpoint)
    <2>1. CASE EnterSave(o)
        <3>1. making'[o] = NewCheckpoint(o) /\ NewCheckpoint(o) \in Checkpoint
            BY <2>1, NewCheckpointIsTyped DEF EnterSave, TypedInv
        <3> QED BY <3>1 DEF Checkpoint
    <2>2. CASE Enter(o) \/ Compute(o) \/ Load(o) \/ SaveState(o) \/ SerialiseCheckpoint(o)
               \/ StoreCheckpoint(o) \/ SerialiseCount(o)
        <3>1. making' = making /\ op' = op
            BY <2>2 DEF Enter, Compute, Load, SaveState, SerialiseCheckpoint,
                StoreCheckpoint, SerialiseCount
        <3>2. Naming(o)' => Naming(o)
            BY <2>2 DEF Enter, Compute, Load, SaveState, SerialiseCheckpoint,
                StoreCheckpoint, SerialiseCount, Naming, GoTo, LockInv
        <3> QED BY <3>1, <3>2 DEF TypedInv
    <2>3. CASE Conflict(o) \/ ComputeFails(o) \/ SaveStateFails(o) \/ StoreCount(o)
        <3>1. \E res : Finish(o, res)
            BY <2>3 DEF Conflict, ComputeFails, SaveStateFails, StoreCount
        <3>2. stage'[o] = "done" /\ making'[o] = NoCheckpoint
            BY <3>1 DEF Finish, LockInv, TypedInv
        <3> QED BY <3>2, RecordTypes DEF Naming
    <2> QED BY <2>1, <2>2, <2>3 DEF Proceed
<1>10. stage'[o] = "writing" => snap'[o].ckpts \subseteq Checkpoint
    <2>1. CASE SerialiseCheckpoint(o)
        BY <1>1, <2>1, RecordTypes DEF SerialiseCheckpoint, TypedInv, CountInv
    <2>2. CASE ~SerialiseCheckpoint(o)
        <3>1. stage'[o] # "writing"
            BY <2>2 DEF Proceed, Conflict, Enter, EnterSave, Compute, Load, ComputeFails, SaveState,
                SaveStateFails, StoreCheckpoint, SerialiseCount, StoreCount, GoTo, Finish, LockInv
        <3> QED BY <3>1
    <2> QED BY <2>1, <2>2
<1>11. /\ \A p \in Ops : making'[p].weights \subseteq Ops
       /\ \A p \in Ops : Naming(p)' => making'[p] \in Checkpoint
       /\ \A p \in Ops : stage'[p] = "writing" => snap'[p].ckpts \subseteq Checkpoint
    BY <1>2, <1>9, <1>10 DEF TypedInv, Naming
<1> QED BY <1>3, <1>4, <1>5, <1>6, <1>7, <1>8, <1>11 DEF TypedInv

(* The newest records are records.                                         *)
LEMMA LatestAreRecords ==
    ASSUME TypedInv, NEW m \in Runs, NEW c \in Latest(ckpts[m])
    PROVE  c \in ckpts[m] /\ c \in Checkpoint /\ c.name \in Names
BY DEF Latest, TypedInv, Checkpoint

LEMMA OutsideTyped ==
    ASSUME TypedInv, NEW m \in Runs, Unlocked(m) \/ Recover(m)
    PROVE  TypedInv'
<1>1. UNCHANGED <<op, stage, making, snap>>
    BY OutsideKeeps DEF coroutines
<1>2. adapters' \in [Runs -> Adapter]
    <2>1. CASE RecoverFromCheckpoint(m)
        <3>1. PICK c \in Latest(ckpts[m]) :
                adapters' = [adapters EXCEPT ![m] =
                               [FreshAdapter EXCEPT !.weights = dirs[m][c.name].weights]]
            BY <2>1 DEF RecoverFromCheckpoint
        <3>2. c.name \in Names
            BY LatestAreRecords
        <3>3. dirs[m][c.name].weights \subseteq Ops
            BY <3>2 DEF TypedInv, Directory
        <3> QED BY <3>1, <3>3, RecordTypes DEF TypedInv
    <2>2. CASE ~RecoverFromCheckpoint(m)
        <3>1. \/ adapters' = adapters
              \/ \E a \in Adapter : adapters' = [adapters EXCEPT ![m] = a]
            BY <2>2, RecordTypes DEF Unlocked, CreateModel, DeleteCheckpoint, CrashWhileDeleting,
                SetVisibility, RemoveAdapter, ForgetRun, Recover, SkipRun, RecoverFresh,
                RecoverCorrupted
        <3> QED BY <3>1 DEF TypedInv
    <2> QED BY <2>1, <2>2
<1>3. dirs' \in [Runs -> [Names -> Directory]]
    <2>1. \/ dirs' = dirs
          \/ \E n \in Names : dirs' = [dirs EXCEPT ![m][n] = NoDirectory]
        BY DEF Unlocked, CreateModel, DeleteCheckpoint, CrashWhileDeleting, SetVisibility,
            RemoveAdapter, ForgetRun, Recover, SkipRun, RecoverFresh, RecoverFromCheckpoint,
            RecoverCorrupted
    <2> QED BY <2>1, RecordTypes DEF TypedInv
<1>4. ckpts' \in [Runs -> SUBSET Checkpoint]
    <2>1. \/ ckpts' = ckpts
          \/ \E gone : ckpts' = [ckpts EXCEPT ![m] = @ \ gone]
        BY DEF Unlocked, CreateModel, DeleteCheckpoint, CrashWhileDeleting, SetVisibility,
            RemoveAdapter, ForgetRun, Recover, SkipRun, RecoverFresh, RecoverFromCheckpoint,
            RecoverCorrupted, objects
    <2> QED BY <2>1 DEF TypedInv
<1>5. dbCkpts' \in [Runs -> SUBSET Checkpoint]
    <2>1. CASE \E c \in ckpts[m] : SetVisibility(m, c)
        BY <2>1 DEF SetVisibility, StoreCheckpoints, TypedInv
    <2>2. CASE \E n \in Names : DeleteCheckpoint(m, n)
        BY <2>2 DEF DeleteCheckpoint, TypedInv
    <2>3. CASE ForgetRun(m)
        BY <2>3 DEF ForgetRun, TypedInv
    <2>4. CASE dbCkpts' = dbCkpts
        BY <2>4 DEF TypedInv
    <2> QED BY <2>1, <2>2, <2>3, <2>4 DEF Unlocked, CreateModel, CrashWhileDeleting,
            RemoveAdapter, Recover, SkipRun, RecoverFresh, RecoverFromCheckpoint,
            RecoverCorrupted, durable
<1>6. clock' = clock
    BY DEF Unlocked, CreateModel, DeleteCheckpoint, CrashWhileDeleting, SetVisibility,
        RemoveAdapter, ForgetRun, Recover, SkipRun, RecoverFresh, RecoverFromCheckpoint,
        RecoverCorrupted
<1> QED BY <1>1, <1>2, <1>3, <1>4, <1>5, <1>6 DEF TypedInv, Naming

LEMMA TypedNext ==
    ASSUME LockInv, CountInv, Ended, TypedInv, NamesInv, OpsStep, [Next]_trainingVars
    PROVE  TypedInv'
<1>1. ASSUME NEW o \in Ops, Request(o) PROVE TypedInv'
    <2>1. PICK m, k, s, src, t, n, F : m \in Runs /\ Start(o, m, k, s, src, t, n, F)
        BY <1>1 DEF Request
    <2>2. UNCHANGED <<adapters, dirs, ckpts, dbCkpts, clock, making, snap>>
        BY <2>1 DEF Start, objects
    <2>3. stage[o] = "new" /\ stage'[o] \in {"waiting", "done"}
        BY <2>1 DEF Start, LockInv
    <2>4. \A p \in Ops \ {o} : stage'[p] = stage[p] /\ op'[p] = op[p]
        BY <2>1 DEF Start, LockInv
    <2>5. \A p \in Ops : /\ Naming(p)' => Naming(p)
                         /\ stage'[p] = "writing" => stage[p] = "writing"
        BY <2>3, <2>4 DEF Naming
    <2> QED BY <2>2, <2>5 DEF TypedInv
<1>2. CASE Restart
    <2>1. /\ UNCHANGED <<dirs, dbCkpts, clock>>
          /\ ckpts' = [m \in Runs |-> IF m \in dbRuns THEN dbCkpts[m] ELSE {}]
          /\ adapters' = [m \in Runs |-> NoAdapter]
          /\ making' = [o \in Ops |-> NoCheckpoint]
          /\ \A o \in Ops : stage'[o] \in {"new", "done", "lost"}
        BY <1>2 DEF Restart, durable
    <2>2. /\ \A o \in Ops : ~Naming(o)' /\ stage'[o] # "writing"
          /\ \A o \in Ops : making'[o].weights = {}
        BY <2>1, RecordTypes DEF Naming
    <2>3. ckpts' \in [Runs -> SUBSET Checkpoint] /\ adapters' \in [Runs -> Adapter]
        BY <2>1, RecordTypes DEF TypedInv
    <2> QED BY <2>1, <2>2, <2>3 DEF TypedInv
<1>3. ASSUME FinishRecovery \/ ProcessEnds \/ UNCHANGED trainingVars PROVE TypedInv'
    <2>1. UNCHANGED <<adapters, dirs, ckpts, dbCkpts, clock, making, snap, op, stage>>
        BY <1>3, QuietKeeps DEF coroutines, objects, durable
    <2> QED BY <2>1 DEF TypedInv, Naming
<1> QED BY <1>1, <1>2, <1>3, ProceedTyped, OutsideTyped DEF Next

LEMMA TypedInit == Init => Ended /\ TypedInv /\ NamesInv
<1> SUFFICES ASSUME Init PROVE Ended /\ TypedInv /\ NamesInv
    OBVIOUS
<1>1. Ended
    BY RunsAssumption DEF Init, Ended, Arguments, NoArguments, NoSeq
<1>2. TypedInv
    BY RecordTypes DEF Init, TypedInv, Naming
<1>3. NamesInv
    BY FreshName DEF Init, NamesInv
<1> QED BY <1>1, <1>2, <1>3

(* All of it together.                                                     *)
BaseInv == LockInv /\ CountInv /\ Ended /\ TypedInv /\ NamesInv

LEMMA BaseInit == Init => BaseInv
BY LockInit, CountInit, TypedInit DEF BaseInv

LEMMA BaseNext == BaseInv /\ [Next]_trainingVars => BaseInv' /\ NoRewind /\ OpsStep
BY LockNext, CountNext, EndedNext, NamesNext, TypedNext DEF BaseInv

(* Type correctness: whatever is deleted, lost or restored, records, files, *)
(* adapters and arguments are what they are declared to be; the name of     *)
(* every checkpoint is one of Names although the counters grow without a    *)
(* guard.                                                                   *)
THEOREM EverythingIsTyped == Spec => [](Ended /\ TypedInv /\ NamesInv)
<1>1. BaseInv => Ended /\ TypedInv /\ NamesInv
    BY DEF BaseInv
<1> QED BY <1>1, BaseInit, BaseNext, PTL DEF Spec

-----------------------------------------------------------------------------
(* What the stored counters cover.  With a store that takes its writes, and *)
(* without unload_model, a run is on record from the moment its client      *)
(* knows it, so that every number an operation has used up is below the     *)
(* stored counter as soon as the operation lets go of the lock.  The        *)
(* invariant follows the effects: in a checkpoint directory, or in the      *)
(* weights a save is about to write, there are only operations whose number *)
(* is stored; in an adapter there is, beside those, at most the operation   *)
(* that holds the lock of the run and has not stored its number yet.        *)

Reliable == Faults \cap {"lost", "unload"} = {}

OnRecord == runs = created /\ dbRuns = created /\ unloading = {}

Passed(o) ==
    /\ stage[o] \in {"executing", "storing", "writing"} =>
         op[o].seq = NoSeq \/ op[o].seq = run[Mine(o)].nextSeq
    /\ stage[o] \in {"counting", "finishing"} => op[o].seq < run[Mine(o)].nextSeq
    /\ stage[o] = "finishing" => snap[o].run

PassedInv == \A o \in Ops : Passed(o)

Counted(o) ==
    op[o].seq # NoSeq /\ result[o] # "failed" => op[o].seq < dbRun[Mine(o)].nextSeq

Known(o) == o \in Ops /\ stage[o] # "new" /\ Counted(o)
Settled(S) == \A o \in S : Known(o)

Underway(o, m) == o \in Ops /\ Mine(o) = m /\ stage[o] \in {"counting", "finishing"}

EffectsInv ==
    /\ \A o \in Ops : result[o] = "ready" => Known(o)
    /\ \A o \in Ops : Settled(making[o].weights)
    /\ \A m \in Runs : \A n \in Names : Settled(dirs[m][n].weights)
    /\ \A m \in Runs : \A o \in Applied(m) : Known(o) \/ Underway(o, m)

SettledInv == OnRecord /\ PassedInv /\ EffectsInv

LEMMA OnRecordNext ==
    ASSUME Reliable, BaseInv, OnRecord, [Next]_trainingVars
    PROVE  OnRecord'
<1> USE DEF OnRecord
<1>1. ASSUME NEW o \in Ops, Request(o) PROVE OnRecord'
    <2>1. PICK m, k, s, src, t, n, F : m \in Runs /\ Start(o, m, k, s, src, t, n, F)
        BY <1>1 DEF Request
    <2>2. /\ UNCHANGED <<runs, created, unloading>> /\ m \in created
          /\ StoreRun(m, run[m]) \/ UNCHANGED <<dbRuns, dbRun>>
        BY <2>1 DEF Start, objects, control
    <2> QED BY <2>2 DEF StoreRun
<1>2. ASSUME NEW o \in Ops, Proceed(o) PROVE OnRecord'
    <2>1. OnlyOf(o)
        BY <1>2, ProceedOnlyOf DEF BaseInv
    <2>2. UNCHANGED <<runs, created, unloading>> /\ Mine(o) \in created
        BY <2>1 DEF OnlyOf, BaseInv, CountInv, Active
    <2>3. dbRuns' = dbRuns \/ dbRuns' = dbRuns \cup {Mine(o)}
        BY <1>2 DEF Proceed, Conflict, Enter, EnterSave, Compute, Load, ComputeFails, SaveState,
            SaveStateFails, SerialiseCheckpoint, StoreCheckpoint, SerialiseCount, StoreCount,
            WriteCount, WriteBoth, StoreRun, durable
    <2> QED BY <2>2, <2>3
<1>3. ASSUME NEW m \in Runs, Unlocked(m) \/ Recover(m) PROVE OnRecord'
    <2>1. CASE CreateModel(m)
        BY <2>1 DEF CreateModel, StoreRun, Reliable
    <2>2. ASSUME NEW n \in Names, DeleteCheckpoint(m, n) \/ CrashWhileDeleting(m, n)
          PROVE  OnRecord'
        BY <2>2 DEF DeleteCheckpoint, CrashWhileDeleting, StoreRun, objects, control
    <2>3. CASE RecoverCorrupted(m)
        BY <2>3 DEF RecoverCorrupted, CanRecover, StoreRun
    <2>4. ~RemoveAdapter(m) /\ ~ForgetRun(m)
        BY DEF RemoveAdapter, ForgetRun, Reliable
    <2>5. CASE \/ \E c \in ckpts[m] : SetVisibility(m, c)
               \/ SkipRun(m) \/ RecoverFresh(m) \/ RecoverFromCheckpoint(m)
        BY <2>5 DEF SetVisibility, SkipRun, RecoverFresh, RecoverFromCheckpoint, objects,
            control, durable
    <2> QED BY <1>3, <2>1, <2>2, <2>3, <2>4, <2>5 DEF Unlocked, Recover
<1>4. CASE Restart
    BY <1>4 DEF Restart, durable
<1>5. ASSUME FinishRecovery \/ ProcessEnds \/ UNCHANGED trainingVars PROVE OnRecord'
    BY <1>5, QuietKeeps DEF objects, durable
<1> QED BY <1>1, <1>2, <1>3, <1>4, <1>5 DEF Next

(* Two operations of a run are not active together.                        *)
LEMMA Alone ==
    ASSUME LockInv, NEW o \in Ops, NEW p \in Ops, AtHead(o), AtHead(p), Mine(o) = Mine(p)
    PROVE  o = p
BY DEF AtHead

LEMMA ProceedAtHead ==
    ASSUME LockInv, NEW o \in Ops, Proceed(o)
    PROVE  AtHead(o)
<1>1. CASE CanEnter(o)
    BY <1>1, CanEnterAtHead
<1>2. CASE stage[o] \in Active
    BY <1>2 DEF LockInv
<1> QED BY <1>1, <1>2 DEF Proceed, Conflict, Enter, EnterSave, Compute, Load, ComputeFails, SaveState,
        SaveStateFails, SerialiseCheckpoint, StoreCheckpoint, SerialiseCount, StoreCount, Computing, Active

LEMMA ProceedPassed ==
    ASSUME BaseInv, OnRecord, PassedInv, NEW o \in Ops, Proceed(o)
    PROVE  PassedInv'
<1> DEFINE m == Mine(o)
<1> USE DEF BaseInv
<1>1. OnlyOf(o) /\ AtHead(o) /\ m \in Runs /\ op' = op
    BY ProceedOnlyOf, ProceedAtHead DEF LockInv, OnlyOf
<1>2. ASSUME NEW p \in Ops \ {o} PROVE Passed(p)'
    <2>1. stage'[p] = stage[p] /\ snap'[p] = snap[p] /\ Mine(p)' = Mine(p)
        BY <1>1 DEF OnlyOf, Mine
    <2>2. stage[p] \in Active => Mine(p) # m /\ Mine(p) \in Runs
        BY <1>1, Alone DEF LockInv
    <2>3. stage[p] \in Active => run'[Mine(p)] = run[Mine(p)]
        BY <1>1, <2>2 DEF OnlyOf, OthersKept
    <2> QED BY <1>1, <2>1, <2>3 DEF PassedInv, Passed, Active
<1>3. /\ run[m] \in CountedRun /\ run[m].nextSeq \in Nat /\ run[m].nextSeq >= 1
      /\ op[o].seq \in Nat /\ m \in runs /\ NoSeq = 0
    BY <1>1 DEF CountInv, CountedRun, Run, Ended, Arguments, OnRecord, OnlyOf, Active, NoSeq
<1>4. Mine(o)' = m
    BY <1>1 DEF Mine
<1>5. Passed(o)'
    <2>1. CASE Enter(o) \/ EnterSave(o)
        <3>1. op[o].seq = NoSeq \/ op[o].seq = run[m].nextSeq
            BY <2>1 DEF Enter, EnterSave, Expected
        <3>2. stage'[o] = "executing"
            BY <2>1 DEF Enter, EnterSave, GoTo, LockInv
        <3>3. run'[m].nextSeq = run[m].nextSeq
            BY <1>1, <1>3, <2>1 DEF Enter, EnterSave, TakeName, objects, CountInv, CountedRun, Run
        <3> QED BY <1>1, <1>4, <3>1, <3>2, <3>3 DEF Passed
    <2>2. CASE Compute(o) \/ Load(o) \/ StoreCheckpoint(o)
        <3>1. stage'[o] = "counting" /\ Count(o) /\ stage[o] \in {"executing", "writing"}
            BY <2>2 DEF Compute, Load, StoreCheckpoint, Computing, GoTo, LockInv
        <3>2. op[o].seq = NoSeq \/ op[o].seq = run[m].nextSeq
            BY <3>1 DEF PassedInv, Passed
        <3>3. run'[m].nextSeq = IF op[o].seq = NoSeq THEN run[m].nextSeq ELSE run[m].nextSeq + 1
            BY <1>1, <1>3, <3>1 DEF Count, CountInv, CountedRun, Run
        <3>4. op[o].seq < run'[m].nextSeq
            BY <1>3, <3>2, <3>3
        <3> QED BY <1>1, <1>4, <3>1, <3>4 DEF Passed
    <2>3. CASE SaveState(o) \/ SerialiseCheckpoint(o) \/ SerialiseCount(o)
        <3>1. /\ run' = run
              /\ \/ stage[o] \in {"executing", "storing"} /\ stage'[o] \in {"storing", "writing"}
                 \/ stage[o] = "counting" /\ stage'[o] = "finishing"
              /\ stage'[o] = "finishing" => snap'[o].run
            BY <1>3, <2>3 DEF SaveState, SerialiseCheckpoint, SerialiseCount, GoTo, LockInv, objects,
                CountInv
        <3> QED BY <1>1, <1>4, <3>1 DEF PassedInv, Passed
    <2>4. CASE Conflict(o) \/ ComputeFails(o) \/ SaveStateFails(o) \/ StoreCount(o)
        <3>1. stage'[o] = "done"
            BY <2>4 DEF Conflict, ComputeFails, SaveStateFails, StoreCount, Finish, LockInv
        <3> QED BY <3>1 DEF Passed
    <2> QED BY <2>1, <2>2, <2>3, <2>4 DEF Proceed
<1> QED BY <1>2, <1>5 DEF PassedInv

LEMMA PassedNext ==
    ASSUME BaseInv, OnRecord, PassedInv, [Next]_trainingVars
    PROVE  PassedInv'
<1> USE DEF BaseInv
<1>1. ASSUME UNCHANGED <<op, stage, snap>>,
             \A r \in Runs : run'[r].nextSeq = run[r].nextSeq
      PROVE  PassedInv'
    BY <1>1 DEF PassedInv, Passed, Mine, LockInv
<1>2. ASSUME NEW o \in Ops, Request(o) PROVE PassedInv'
    <2>1. PICK m, k, s, src, t, n, F : m \in Runs /\ Start(o, m, k, s, src, t, n, F)
        BY <1>2 DEF Request
    <2>2. run' = run /\ snap' = snap /\ stage'[o] \in {"waiting", "done"}
        BY <2>1 DEF Start, objects, LockInv
    <2>3. \A p \in Ops \ {o} : stage'[p] = stage[p] /\ op'[p] = op[p]
        BY <2>1 DEF Start, LockInv
    <2>4. \A p \in Ops \ {o} : Passed(p)'
        BY <2>2, <2>3 DEF PassedInv, Passed, Mine
    <2>5. Passed(o)'
        BY <2>2 DEF Passed
    <2> QED BY <2>4, <2>5 DEF PassedInv
<1>3. ASSUME NEW m \in Runs, Unlocked(m) \/ Recover(m) PROVE PassedInv'
    <2>1. CASE RecoverCorrupted(m)
        <3>1. \A r \in Runs : run'[r].nextSeq = run[r].nextSeq
            BY <2>1 DEF RecoverCorrupted, CountInv, CountedRun, Run
        <3> QED BY <1>1, <1>3, <3>1, OutsideKeeps DEF coroutines
    <2>2. CASE ~RecoverCorrupted(m)
        <3>1. run' = run
            BY <1>3, <2>2 DEF Unlocked, CreateModel, DeleteCheckpoint, CrashWhileDeleting,
                SetVisibility, RemoveAdapter, ForgetRun, Recover, SkipRun, RecoverFresh,
                RecoverFromCheckpoint, objects
        <3> QED BY <1>1, <1>3, <3>1, OutsideKeeps DEF coroutines
    <2> QED BY <2>1, <2>2
<1>4. CASE Restart
    <2>1. \A o \in Ops : stage'[o] \in {"new", "done", "lost"}
        BY <1>4 DEF Restart
    <2> QED BY <2>1 DEF PassedInv, Passed
<1>5. ASSUME FinishRecovery \/ ProcessEnds \/ UNCHANGED trainingVars PROVE PassedInv'
    BY <1>1, <1>5, QuietKeeps DEF coroutines, objects
<1> QED BY <1>2, <1>3, <1>4, <1>5, ProceedPassed DEF Next

(* A number that is stored stays stored.                                   *)
LEMMA KnownStays ==
    ASSUME BaseInv, BaseInv', OnRecord, OnRecord', OpsStep, NoRewind, NEW o, Known(o)
    PROVE  Known(o)'
<1>1. o \in Ops /\ stage[o] # "new" /\ Counted(o)
    BY DEF Known
<1>2. /\ op'[o] = op[o] /\ stage'[o] # "new" /\ (result[o] = "failed" => result'[o] = "failed")
      /\ Mine(o) \in created /\ created \subseteq created'
    BY <1>1 DEF OpsStep, BaseInv, CountInv
<1>3. Mine(o) \in dbRuns \cap dbRuns' /\ Mine(o)' = Mine(o) /\ Mine(o) \in Runs
    BY <1>2 DEF OnRecord, Mine, BaseInv, CountInv
<1>4. dbRun'[Mine(o)].nextSeq >= dbRun[Mine(o)].nextSeq
    BY <1>3 DEF NoRewind
<1>5. /\ op[o].seq \in Nat /\ dbRun[Mine(o)].nextSeq \in Nat /\ dbRun'[Mine(o)].nextSeq \in Nat
    BY <1>1, <1>3 DEF BaseInv, Ended, Arguments, CountInv, CountedRun, Run
<1>6. Counted(o)'
    BY <1>1, <1>2, <1>3, <1>4, <1>5 DEF Counted
<1> QED BY <1>1, <1>2, <1>6 DEF Known

(* The operation that ends has stored its number.                          *)
LEMMA StoredWhenDone ==
    ASSUME Reliable, BaseInv, OnRecord, PassedInv, NEW o \in Ops, StoreCount(o)
    PROVE  Known(o)'
<1> USE DEF BaseInv
<1>1. /\ stage[o] = "finishing" /\ WriteCount(o) /\ Finish(o, "ready")
    BY DEF StoreCount
<1>2. /\ snap[o].run /\ op[o].seq < run[Mine(o)].nextSeq /\ Mine(o) \in Runs
      /\ snap[o].value.nextSeq = run[Mine(o)].nextSeq
    BY <1>1 DEF PassedInv, Passed, CountInv, Fresh, LockInv
<1>3. dbRun'[Mine(o)] = snap[o].value
    BY <1>1, <1>2 DEF WriteCount, StoreRun, Reliable, CountInv
<1>4. stage'[o] = "done" /\ op' = op
    BY <1>1 DEF Finish, LockInv
<1> QED BY <1>2, <1>3, <1>4 DEF Known, Counted, Mine

(* When an operation enters, nothing of its run is under way.              *)
LEMMA NothingUnderway ==
    ASSUME BaseInv, EffectsInv, NEW o \in Ops, AtHead(o), stage[o] \notin {"counting", "finishing"}
    PROVE  Settled(Applied(Mine(o)))
<1>1. ASSUME NEW p \in Applied(Mine(o)) PROVE Known(p)
    <2>1. CASE Underway(p, Mine(o))
        <3>1. p \in Ops /\ AtHead(p) /\ Mine(p) = Mine(o)
            BY <2>1 DEF Underway, BaseInv, LockInv, Active
        <3> QED BY <2>1, <3>1, Alone DEF Underway, BaseInv
    <2> QED BY <2>1 DEF EffectsInv, BaseInv, LockInv
<1> QED BY <1>1 DEF Settled

LEMMA ProceedEffects ==
    ASSUME Reliable, BaseInv, BaseInv', OnRecord, OnRecord', PassedInv, OpsStep, NoRewind,
           EffectsInv, NEW o \in Ops, Proceed(o)
    PROVE  EffectsInv'
<1> DEFINE m == Mine(o)
<1>1. OnlyOf(o) /\ AtHead(o) /\ m \in Runs /\ op' = op /\ m' = m
    BY ProceedOnlyOf, ProceedAtHead DEF BaseInv, LockInv, OnlyOf, Mine
<1>2. \A p : Known(p) => Known(p)'
    BY KnownStays
<1>3. \A p \in Ops : result'[p] = "ready" => Known(p)'
    <2>1. \A p \in Ops \ {o} : result'[p] = result[p]
        BY <1>1 DEF OnlyOf
    <2>2. CASE StoreCount(o)
        BY <1>2, <2>1, <2>2, StoredWhenDone DEF EffectsInv
    <2>3. CASE ~StoreCount(o)
        <3>1. result'[o] = result[o] \/ result'[o] = "failed"
            BY <2>3 DEF Proceed, Conflict, Enter, EnterSave, Compute, Load, ComputeFails, SaveState,
                SaveStateFails, SerialiseCheckpoint, StoreCheckpoint, SerialiseCount, Finish,
                BaseInv, Ended
        <3> QED BY <1>2, <2>1, <3>1 DEF EffectsInv
    <2> QED BY <2>2, <2>3
<1>4. \A p \in Ops : \A q \in making'[p].weights : Known(q)'
    <2>1. \A p \in Ops \ {o} : making'[p] = making[p]
        BY <1>1 DEF OnlyOf
    <2>2. \A p \in Ops \ {o} : \A q \in making'[p].weights : Known(q)'
        BY <1>2, <2>1 DEF EffectsInv, Settled
    <2>3. \A q \in making'[o].weights : Known(q)'
        <3>1. CASE EnterSave(o)
            <4>1. stage[o] = "waiting" /\ making'[o].weights = adapters[m].weights
                BY <3>1 DEF EnterSave, CanEnter, NewCheckpoint, BaseInv, TypedInv
            <4>2. Settled(adapters[m].weights)
                BY <1>1, <4>1, NothingUnderway DEF Applied, Settled
            <4> QED BY <1>2, <4>1, <4>2 DEF Settled
        <3>2. CASE ~EnterSave(o)
            <4>1. making'[o] = making[o] \/ making'[o] = NoCheckpoint
                BY <3>2 DEF Proceed, Conflict, Enter, Compute, Load, ComputeFails, SaveState,
                    SaveStateFails, SerialiseCheckpoint, StoreCheckpoint, SerialiseCount,
                    StoreCount, Finish, BaseInv, TypedInv
            <4> QED BY <1>2, <4>1, RecordTypes DEF EffectsInv, Settled
        <3> QED BY <3>1, <3>2
    <2> QED BY <2>2, <2>3
<1>5. \A r \in Runs : \A n \in Names : \A q \in dirs'[r][n].weights : Known(q)'
    <2>1. ASSUME NEW r \in Runs, NEW n \in Names
          PROVE  dirs'[r][n].weights \in {dirs[r][n].weights, {}, making[o].weights}
        <3>1. \/ dirs' = dirs
              \/ dirs' = [dirs EXCEPT ![m][SaveName(o)] = [state |-> "partial", weights |-> {}]]
              \/ \E s : dirs' = [dirs EXCEPT ![m][making[o].name] =
                                    [state |-> s, weights |-> making[o].weights]]
            BY DEF Proceed, Conflict, Enter, EnterSave, Compute, Load, ComputeFails, SaveState,
                SaveStateFails, SerialiseCheckpoint, StoreCheckpoint, SerialiseCount, StoreCount
        <3>2. dirs \in [Runs -> [Names -> Directory]]
            BY DEF BaseInv, TypedInv
        <3>3. ASSUME NEW x, NEW d, dirs' = [dirs EXCEPT ![m][x] = d]
              PROVE  dirs'[r][n] = dirs[r][n] \/ dirs'[r][n] = d
            BY <3>2, <3>3
        <3>4. CASE dirs' = dirs
            BY <3>4
        <3>5. CASE dirs' = [dirs EXCEPT ![m][SaveName(o)] = [state |-> "partial", weights |-> {}]]
            BY <3>3, <3>5
        <3>6. CASE \E s : dirs' = [dirs EXCEPT ![m][making[o].name] =
                                      [state |-> s, weights |-> making[o].weights]]
            BY <3>3, <3>6
        <3> QED BY <3>1, <3>4, <3>5, <3>6
    <2> QED BY <1>2, <2>1 DEF EffectsInv, Settled
<1>6. ASSUME NEW r \in Runs, NEW p \in Applied(r)' PROVE Known(p)' \/ Underway(p, r)'
    <2>1. CASE r # m
        <3>1. Applied(r)' = Applied(r)
            BY <1>1, <2>1 DEF OnlyOf, OthersKept, Applied
        <3>2. Underway(p, r) => Underway(p, r)'
            BY <1>1, <2>1 DEF Underway, OnlyOf, Mine
        <3> QED BY <1>2, <3>1, <3>2 DEF EffectsInv
    <2>2. CASE r = m
        <3>1. CASE p \in Applied(m)
            <4>1. CASE Known(p)
                BY <1>2, <4>1
            <4>2. CASE Underway(p, m)
                <5>1. p = o
                    BY <1>1, <4>2, Alone DEF Underway, BaseInv, LockInv, Active
                <5>2. stage[o] \in {"counting", "finishing"}
                    BY <4>2, <5>1 DEF Underway
                <5>3. SerialiseCount(o) \/ StoreCount(o)
                    BY <5>2 DEF Proceed, Conflict, Enter, EnterSave, Compute, Load, ComputeFails,
                        SaveState, SaveStateFails, SerialiseCheckpoint, StoreCheckpoint,
                        CanEnter, Computing
                <5>4. CASE SerialiseCount(o)
                    BY <1>1, <2>2, <5>1, <5>4 DEF SerialiseCount, GoTo, Underway, BaseInv, LockInv
                <5>5. CASE StoreCount(o)
                    BY <5>1, <5>5, StoredWhenDone
                <5> QED BY <5>3, <5>4, <5>5
            <4> QED BY <3>1, <4>1, <4>2, <1>1 DEF EffectsInv
        <3>2. CASE p \notin Applied(m)
            <4>1. p \in adapters'[m].weights \cup adapters'[m].grads
                BY <2>2 DEF Applied
            <4>2. adapters \in [Runs -> Adapter] /\ adapters[m] \in Adapter
                BY <1>1 DEF BaseInv, TypedInv
            <4>3. CASE Compute(o)
                <5>1. op[o].kind \in {"forward", "forward_backward", "optim_step"}
                    BY <4>3 DEF Compute, Computing, BaseInv, Ended, Arguments
                <5>2. adapters'[m] = Effect(o, adapters[m])
                    BY <1>1, <4>2, <4>3 DEF Compute
                <5>3. Effect(o, adapters[m]).weights \cup Effect(o, adapters[m]).grads
                        \subseteq Applied(m) \cup {o}
                    BY <4>2, <5>1 DEF Effect, Applied, Adapter
                <5>4. p = o
                    BY <3>2, <4>1, <5>2, <5>3
                <5> QED BY <1>1, <2>2, <4>3, <5>4 DEF Compute, GoTo, Underway, BaseInv, LockInv
            <4>4. CASE Load(o)
                <5>1. op[o].source \in Runs /\ op[o].name \in Names
                    BY <4>4 DEF Load, BaseInv, Ended, Arguments
                <5>2. \E g \in {{}, adapters[m].grads} :
                        adapters'[m] = [here |-> TRUE, weights |-> Source(o).weights, grads |-> g]
                    BY <1>1, <4>2, <4>4 DEF Load
                <5>3. p \in Source(o).weights
                    BY <3>2, <4>1, <5>2 DEF Applied
                <5>4. Known(p)
                    BY <5>1, <5>3 DEF EffectsInv, Settled, Source
                <5> QED BY <1>2, <5>4
            <4>5. CASE ComputeFails(o)
                <5>1. \/ adapters' = adapters
                      \/ adapters' = [adapters EXCEPT ![m].grads = @ \cup {o}]
                    BY <4>5 DEF ComputeFails
                <5>2. p = o
                    BY <1>1, <3>2, <4>1, <4>2, <5>1 DEF Applied, Adapter
                <5>3. result'[o] = "failed" /\ stage'[o] = "done"
                    BY <4>5 DEF ComputeFails, Finish, BaseInv, Ended, LockInv
                <5> QED BY <5>2, <5>3 DEF Known, Counted
            <4>6. CASE ~Compute(o) /\ ~Load(o) /\ ~ComputeFails(o)
                <5>1. adapters' = adapters
                    BY <4>6 DEF Proceed, Conflict, Enter, EnterSave, SaveState, SaveStateFails,
                        SerialiseCheckpoint, StoreCheckpoint, SerialiseCount, StoreCount
                <5> QED BY <3>2, <4>1, <5>1 DEF Applied
            <4> QED BY <4>3, <4>4, <4>5, <4>6
        <3> QED BY <3>1, <3>2
    <2> QED BY <2>1, <2>2
<1> QED BY <1>3, <1>4, <1>5, <1>6 DEF EffectsInv, Settled

LEMMA EffectsNext ==
    ASSUME Reliable, BaseInv, BaseInv', OnRecord, OnRecord', PassedInv, OpsStep, NoRewind,
           EffectsInv, [Next]_trainingVars
    PROVE  EffectsInv'
<1>1. \A p : Known(p) => Known(p)'
    BY KnownStays
<1>2. ASSUME UNCHANGED <<result, making>>,
             \A r \in Runs : \A n \in Names : dirs'[r][n].weights \subseteq dirs[r][n].weights,
             \A r \in Runs : \A p \in Applied(r)' : \/ Known(p)
                                                    \/ Underway(p, r) /\ Underway(p, r)'
      PROVE  EffectsInv'
    BY <1>1, <1>2 DEF EffectsInv, Settled
<1>3. ASSUME NEW o \in Ops, Request(o) PROVE EffectsInv'
    <2>1. PICK m, k, s, src, t, n, F : m \in Runs /\ Start(o, m, k, s, src, t, n, F)
        BY <1>3 DEF Request
    <2>2. /\ UNCHANGED <<making, dirs, adapters>> /\ stage[o] = "new"
          /\ result'[o] = result[o] \/ result'[o] = "failed"
          /\ \A p \in Ops \ {o} : result'[p] = result[p] /\ op'[p] = op[p] /\ stage'[p] = stage[p]
        BY <2>1 DEF Start, BaseInv, Ended, LockInv
    <2>3. \A p \in Ops : result'[p] = "ready" => Known(p)'
        BY <1>1, <2>2 DEF EffectsInv
    <2>4. \A r \in Runs : \A p \in Applied(r)' : Known(p)' \/ Underway(p, r)'
        BY <1>1, <2>2 DEF EffectsInv, Applied, Underway, Mine
    <2> QED BY <1>1, <2>2, <2>3, <2>4 DEF EffectsInv, Settled
<1>4. ASSUME NEW m \in Runs, Unlocked(m) \/ Recover(m) PROVE EffectsInv'
    <2>1. UNCHANGED <<result, making, op, stage>>
        BY <1>4, OutsideKeeps DEF coroutines
    <2>2. \A r \in Runs : \A n \in Names : dirs'[r][n].weights \subseteq dirs[r][n].weights
        <3>1. \/ dirs' = dirs
              \/ \E n \in Names : dirs' = [dirs EXCEPT ![m][n] = NoDirectory]
            BY <1>4 DEF Unlocked, CreateModel, DeleteCheckpoint, CrashWhileDeleting, SetVisibility,
                RemoveAdapter, ForgetRun, Recover, SkipRun, RecoverFresh, RecoverFromCheckpoint,
                RecoverCorrupted
        <3>2. NoDirectory.weights = {} /\ dirs \in [Runs -> [Names -> Directory]]
            BY DEF NoDirectory, BaseInv, TypedInv
        <3>3. ASSUME NEW n \in Names, dirs' = [dirs EXCEPT ![m][n] = NoDirectory],
                     NEW r \in Runs, NEW x \in Names
              PROVE  dirs'[r][x] = dirs[r][x] \/ dirs'[r][x] = NoDirectory
            BY <3>2, <3>3
        <3> QED BY <3>1, <3>2, <3>3
    <2>3. ASSUME NEW r \in Runs, NEW p \in Applied(r)'
          PROVE  Known(p) \/ (Underway(p, r) /\ Underway(p, r)')
        <3>1. Underway(p, r)' <=> Underway(p, r)
            BY <2>1 DEF Underway, Mine
        <3>2. CASE RecoverFromCheckpoint(m)
            <4>1. PICK c \in Latest(ckpts[m]) :
                    adapters' = [adapters EXCEPT ![m] =
                                   [FreshAdapter EXCEPT !.weights = dirs[m][c.name].weights]]
                BY <3>2 DEF RecoverFromCheckpoint
            <4>2. c.name \in Names
                BY <1>4, LatestAreRecords DEF BaseInv
            <4>3. p \in Applied(r) \/ p \in dirs[m][c.name].weights
                BY <4>1 DEF Applied, FreshAdapter, BaseInv, TypedInv
            <4> QED BY <3>1, <4>2, <4>3 DEF EffectsInv, Settled
        <3>3. CASE ~RecoverFromCheckpoint(m)
            <4>1. \/ adapters' = adapters
                  \/ \E a \in {FreshAdapter, NoAdapter} : adapters' = [adapters EXCEPT ![m] = a]
                BY <1>4, <3>3 DEF Unlocked, CreateModel, DeleteCheckpoint, CrashWhileDeleting,
                    SetVisibility, RemoveAdapter, ForgetRun, Recover, SkipRun, RecoverFresh,
                    RecoverCorrupted
            <4>2. FreshAdapter.weights = {} /\ FreshAdapter.grads = {}
                  /\ NoAdapter.weights = {} /\ NoAdapter.grads = {}
                BY DEF FreshAdapter, NoAdapter
            <4>3. ASSUME NEW a \in {FreshAdapter, NoAdapter},
                         adapters' = [adapters EXCEPT ![m] = a]
                  PROVE  adapters'[r] = adapters[r] \/ adapters'[r] = a
                BY <4>3 DEF BaseInv, TypedInv
            <4>4. p \in adapters'[r].weights \cup adapters'[r].grads
                BY DEF Applied
            <4>5. p \in Applied(r)
                BY <4>1, <4>2, <4>3, <4>4 DEF Applied
            <4> QED BY <3>1, <4>5 DEF EffectsInv
        <3> QED BY <3>2, <3>3
    <2> QED BY <1>2, <2>1, <2>2, <2>3
<1>5. CASE Restart
    <2>1. /\ UNCHANGED <<dirs, result, op>>
          /\ adapters' = [r \in Runs |-> NoAdapter]
          /\ making' = [o \in Ops |-> NoCheckpoint]
        BY <1>5 DEF Restart
    <2>2. \A r \in Runs : Applied(r)' = {}
        BY <2>1 DEF Applied, NoAdapter
    <2>3. \A o \in Ops : making'[o].weights = {}
        BY <2>1, RecordTypes
    <2> QED BY <1>1, <2>1, <2>2, <2>3 DEF EffectsInv, Settled
<1>6. ASSUME FinishRecovery \/ ProcessEnds \/ UNCHANGED trainingVars PROVE EffectsInv'
    <2>1. UNCHANGED <<result, making, op, stage, dirs, adapters>>
        BY <1>6, QuietKeeps DEF coroutines
    <2> QED BY <1>2, <2>1 DEF Applied, Underway, Mine, EffectsInv
<1> QED BY <1>3, <1>4, <1>5, <1>6, ProceedEffects DEF Next

LEMMA SettledInit == Init => SettledInv
BY RecordTypes DEF Init, SettledInv, OnRecord, PassedInv, Passed, EffectsInv, Settled, Applied,
    NoAdapter, NoDirectory

LEMMA SettledNext ==
    ASSUME Reliable, BaseInv, SettledInv, [Next]_trainingVars
    PROVE  SettledInv'
<1>1. BaseInv' /\ NoRewind /\ OpsStep
    BY BaseNext
<1>2. OnRecord'
    BY OnRecordNext DEF SettledInv
<1> QED BY <1>1, <1>2, PassedNext, EffectsNext DEF SettledInv

(* What was reported as done, and what a checkpoint directory holds, is     *)
(* below the stored counter of its run whenever the process ends: the       *)
(* client's retry is refused, and no restart accepts the same number for    *)
(* something else.  This for every kind of operation, name and fault except *)
(* a write the store refuses and unload_model.                              *)
THEOREM NumbersAreUsedUp ==
    ASSUME Reliable
    PROVE  Spec => [](CheckpointsBelowCounter /\ CompletedIsCounted)
<1>1. Init => BaseInv /\ SettledInv
    BY BaseInit, SettledInit
<1>2. BaseInv /\ SettledInv /\ [Next]_trainingVars => BaseInv' /\ SettledInv'
    BY BaseNext, SettledNext
<1>3. BaseInv /\ SettledInv => CheckpointsBelowCounter /\ CompletedIsCounted
    <2> SUFFICES ASSUME BaseInv, SettledInv PROVE CheckpointsBelowCounter /\ CompletedIsCounted
        OBVIOUS
    <2>1. CheckpointsBelowCounter
        BY DEF CheckpointsBelowCounter, Sequenced, SettledInv, EffectsInv, Settled, Known, Counted,
            BaseInv, CountInv, Mine
    <2>2. CompletedIsCounted
        BY DEF CompletedIsCounted, SettledInv, EffectsInv, Known, Counted
    <2> QED BY <2>1, <2>2
<1> QED BY <1>1, <1>2, <1>3, PTL DEF Spec

(* The operation that holds the lock is beyond all that its adapter holds.  *)
InSequence ==
    \A m \in Runs, o \in Ops :
        stage[o] = "executing" /\ stage'[o] = "counting" /\ Mine(o) = m /\ op[o].seq # NoSeq =>
            \A p \in Sequenced(m, Applied(m)) : op[p].seq < op[o].seq

LEMMA InSequenceStep ==
    ASSUME BaseInv, SettledInv
    PROVE  InSequence
<1> SUFFICES ASSUME NEW m \in Runs, NEW o \in Ops, stage[o] = "executing", Mine(o) = m,
                    op[o].seq # NoSeq, NEW p \in Sequenced(m, Applied(m))
             PROVE  op[p].seq < op[o].seq
    BY DEF InSequence
<1>1. AtHead(o) /\ op[o].seq = run[m].nextSeq
    BY DEF BaseInv, LockInv, Active, SettledInv, PassedInv, Passed
<1>2. Known(p)
    <2>1. Settled(Applied(m))
        BY <1>1, NothingUnderway DEF SettledInv
    <2> QED BY <2>1 DEF Settled, Sequenced
<1>3. op[p].seq < dbRun[m].nextSeq /\ m \in dbRuns /\ p \in Ops
    BY <1>2 DEF Known, Counted, Sequenced, Mine, BaseInv, CountInv, SettledInv, OnRecord
<1>4. dbRun[m].nextSeq <= run[m].nextSeq /\ dbRun[m].nextSeq \in Nat /\ run[m].nextSeq \in Nat
    BY <1>3 DEF BaseInv, CountInv, CountedRun, Run
<1>5. op[p].seq \in Nat /\ op[o].seq \in Nat
    BY <1>3 DEF BaseInv, Ended, Arguments
<1> QED BY <1>1, <1>3, <1>4, <1>5

(* An adapter takes the operations of its run in the order of their         *)
(* sequence numbers and none of them twice, also when a restart or a load   *)
(* has put older weights back: what is in the adapter is stored, and what   *)
(* is stored is below the number the guard accepts.                         *)
THEOREM OperationsTakeEffectInSequence ==
    ASSUME Reliable
    PROVE  Spec => EffectsInSequence
<1>1. Init => BaseInv /\ SettledInv
    BY BaseInit, SettledInit
<1>2. BaseInv /\ SettledInv /\ [Next]_trainingVars => BaseInv' /\ SettledInv'
    BY BaseNext, SettledNext
<1>3. BaseInv /\ SettledInv /\ [Next]_trainingVars =>
        [\A m \in Runs, o \in Ops :
            stage[o] = "executing" /\ stage'[o] = "counting" /\ Mine(o) = m /\ op[o].seq # NoSeq =>
                \A p \in Sequenced(m, Applied(m)) : op[p].seq < op[o].seq]_trainingVars
    BY InSequenceStep DEF InSequence
<1> QED BY <1>1, <1>2, <1>3, PTL DEF Spec, EffectsInSequence

-----------------------------------------------------------------------------
(* Names.  A restart goes on counting from the stored run, so a record may  *)
(* only be stored together with a counter beyond its name.  The counter in  *)
(* memory is beyond the checkpoint that is being made, and what a worker    *)
(* thread serialised has the counter of the memory, since only the holder   *)
(* of the lock moves it.  This needs that names come from the counter, and  *)
(* that set_visibility does not store the record of a checkpoint whose save *)
(* is still under way.                                                      *)

GeneratedNames == NameArgs \subseteq {AutoName} /\ "visibility" \notin Faults

NotAfter(f, g) == \A t \in Types : f[t] <= g[t]

StoredNames(m) ==
    /\ m \in dbRuns => NotAfter(dbRun[m].nextName, run[m].nextName)
    /\ m \in dbRuns => \A c \in dbCkpts[m] : c.name < dbRun[m].nextName[c.type]
    /\ m \notin dbRuns => dbCkpts[m] = {}

ChosenName(o) ==
    /\ Naming(o) => making[o].name < run[Mine(o)].nextName[making[o].type]
    /\ stage[o] \in {"writing", "finishing"} /\ snap[o].run =>
         snap[o].value.nextName = run[Mine(o)].nextName
    /\ stage[o] = "writing" =>
         \A c \in snap[o].ckpts : c.type = making[o].type /\ c.name = making[o].name

NumberedInv == (\A m \in Runs : StoredNames(m)) /\ \A o \in Ops : ChosenName(o)

LEMMA NamesAreNumbers == Names \subseteq Nat
<1>1. Cardinality(Ops) \in Nat
    BY OpsAssumption, FS_CardinalityType
<1>2. 1..Cardinality(Ops) \subseteq Nat
    BY <1>1
<1>3. NameArgs \subseteq Nat
    BY NameArgsAssumption
<1> QED BY <1>2, <1>3 DEF Names

LEMMA CounterTypes ==
    ASSUME BaseInv, NEW m \in Runs
    PROVE  /\ run[m].nextName \in [Types -> Nat] /\ dbRun[m].nextName \in [Types -> Nat]
           /\ \A t \in Types : run[m].nextName[t] >= 1
           /\ \A c \in dbCkpts[m] : c.type \in Types /\ c.name \in Nat
<1>2. \A f \in NameCounters : f \in [Types -> Nat] /\ \A t \in Types : f[t] >= 1
    BY BegunIsFinite DEF NameCounters
<1>3. run[m].nextName \in NameCounters /\ dbRun[m].nextName \in NameCounters
    BY DEF BaseInv, NamesInv
<1>4. dbCkpts[m] \subseteq Checkpoint
    BY DEF BaseInv, TypedInv
<1>5. \A c \in Checkpoint : c.type \in Types /\ c.name \in Nat
    BY NamesAreNumbers DEF Checkpoint
<1> QED BY <1>2, <1>3, <1>4, <1>5

(* The ways in which the record of a run is written.                       *)
LEMMA StoredNamesStay ==
    ASSUME BaseInv, BaseInv', NEW m \in Runs, StoredNames(m),
           NotAfter(run[m].nextName, run'[m].nextName),
           \A c \in dbCkpts'[m] \ dbCkpts[m] : c.name < run[m].nextName[c.type],
           \/ /\ dbRun'[m] = dbRun[m] /\ (m \in dbRuns' <=> m \in dbRuns)
              /\ dbCkpts'[m] \subseteq dbCkpts[m]
           \/ dbRun'[m].nextName = run[m].nextName /\ m \in dbRuns'
    PROVE  StoredNames(m)'
<1>1. /\ run[m].nextName \in [Types -> Nat] /\ dbRun[m].nextName \in [Types -> Nat]
      /\ run'[m].nextName \in [Types -> Nat]
      /\ \A c \in dbCkpts[m] : c.type \in Types /\ c.name \in Nat
    <2>1. run'[m] \in Run
        BY DEF BaseInv, CountInv, CountedRun
    <2> QED BY <2>1, CounterTypes DEF Run
<1>2. CASE /\ dbRun'[m] = dbRun[m] /\ (m \in dbRuns' <=> m \in dbRuns)
           /\ dbCkpts'[m] \subseteq dbCkpts[m]
    <2>1. m \in dbRuns' => NotAfter(dbRun'[m].nextName, run'[m].nextName)
        <3> SUFFICES ASSUME m \in dbRuns, NEW t \in Types
                     PROVE  dbRun[m].nextName[t] <= run'[m].nextName[t]
            BY <1>2 DEF NotAfter
        <3>1. /\ dbRun[m].nextName[t] <= run[m].nextName[t]
              /\ run[m].nextName[t] <= run'[m].nextName[t]
            BY DEF StoredNames, NotAfter
        <3>2. /\ dbRun[m].nextName[t] \in Nat /\ run[m].nextName[t] \in Nat
              /\ run'[m].nextName[t] \in Nat
            BY <1>1
        <3> QED BY <3>1, <3>2
    <2>2. m \in dbRuns' => \A c \in dbCkpts'[m] : c.name < dbRun'[m].nextName[c.type]
        BY <1>2 DEF StoredNames
    <2>3. m \notin dbRuns' => dbCkpts'[m] = {}
        BY <1>2 DEF StoredNames
    <2> QED BY <2>1, <2>2, <2>3 DEF StoredNames
<1>3. CASE dbRun'[m].nextName = run[m].nextName /\ m \in dbRuns'
    <2>1. ASSUME NEW c \in dbCkpts'[m] PROVE c.name < dbRun'[m].nextName[c.type]
        <3>1. CASE c \notin dbCkpts[m]
            BY <1>3, <3>1
        <3>2. CASE c \in dbCkpts[m]
            <4>1. m \in dbRuns
                BY <3>2 DEF StoredNames
            <4>2. /\ c.name < dbRun[m].nextName[c.type]
                  /\ dbRun[m].nextName[c.type] <= run[m].nextName[c.type]
                BY <1>1, <3>2, <4>1 DEF StoredNames, NotAfter
            <4>3. /\ c.name \in Nat /\ dbRun[m].nextName[c.type] \in Nat
                  /\ run[m].nextName[c.type] \in Nat
                BY <1>1, <3>2
            <4> QED BY <1>3, <4>2, <4>3
        <3> QED BY <1>3, <3>1, <3>2
    <2> QED BY <1>3, <2>1 DEF StoredNames
<1> QED BY <1>2, <1>3

LEMMA NotAfterSelf ==
    ASSUME BaseInv, NEW m \in Runs
    PROVE  NotAfter(run[m].nextName, run[m].nextName)
<1>1. \A t \in Types : run[m].nextName[t] \in Nat
    BY CounterTypes
<1> QED BY <1>1 DEF NotAfter

LEMMA ProceedStoredNames ==
    ASSUME BaseInv, BaseInv', NumberedInv, NEW o \in Ops, Proceed(o)
    PROVE  \A r \in Runs : StoredNames(r)'
<1> DEFINE m == Mine(o)
<1>1. OnlyOf(o) /\ m \in Runs
    BY ProceedOnlyOf DEF BaseInv, LockInv
<1>2. ASSUME NEW r \in Runs \ {m} PROVE StoredNames(r)'
    <2>1. /\ run'[r] = run[r] /\ dbRun'[r] = dbRun[r] /\ dbCkpts'[r] = dbCkpts[r]
          /\ r \in dbRuns' <=> r \in dbRuns
        BY <1>1 DEF OnlyOf, OthersKept
    <2> QED BY <2>1 DEF NumberedInv, StoredNames
<1>3. ASSUME NEW r \in Runs, r = m PROVE StoredNames(r)'
    <2>1. StoredNames(r) /\ m = r
        BY <1>3 DEF NumberedInv
    <2>2. NotAfter(run[r].nextName, run'[r].nextName)
        <3>1. CASE EnterSave(o)
            <4>1. /\ run'[r].nextName = [run[r].nextName EXCEPT ![op[o].type] = @ + 1]
                  /\ run[r].nextName \in [Types -> Nat]
                BY <1>3, <3>1, CounterTypes
                DEF EnterSave, TakeName, BaseInv, CountInv, CountedRun, Run
            <4>2. ASSUME NEW t \in Types PROVE run[r].nextName[t] <= run'[r].nextName[t]
                BY <4>1
            <4> QED BY <4>2 DEF NotAfter
        <3>2. CASE ~EnterSave(o)
            <4>1. run' = run \/ Count(o)
                BY <3>2 DEF Proceed, Conflict, Enter, Compute, Load, ComputeFails, SaveState,
                    SaveStateFails, SerialiseCheckpoint, StoreCheckpoint, SerialiseCount,
                    StoreCount, objects
            <4>2. run'[r].nextName = run[r].nextName
                BY <4>1, CountKeepsNames DEF BaseInv
            <4> QED BY <4>2, NotAfterSelf
        <3> QED BY <3>1, <3>2
    <2>3. CASE StoreCheckpoint(o) /\ snap[o].run /\ WriteBoth(o)
        <3>1. /\ dbRun'[r] = snap[o].value /\ r \in dbRuns'
              /\ dbCkpts'[r] \subseteq dbCkpts[r] \cup snap[o].ckpts
            BY <1>3, <2>3 DEF WriteBoth, StoreCheckpoints, BaseInv, CountInv, TypedInv
        <3>2. /\ stage[o] = "writing" /\ ChosenName(o) /\ Naming(o)
            BY <2>3 DEF StoreCheckpoint, NumberedInv, Naming
        <3>3. /\ snap[o].value.nextName = run[r].nextName
              /\ making[o].name < run[r].nextName[making[o].type]
              /\ \A c \in snap[o].ckpts : c.type = making[o].type /\ c.name = making[o].name
            BY <1>3, <2>3, <3>2 DEF ChosenName
        <3>4. \A c \in dbCkpts'[r] \ dbCkpts[r] : c.name < run[r].nextName[c.type]
            BY <3>1, <3>3
        <3> QED BY <2>1, <2>2, <3>1, <3>3, <3>4, StoredNamesStay
    <2>4. CASE StoreCount(o) /\ ~UNCHANGED <<dbRuns, dbRun>>
        <3>1. dbCkpts' = dbCkpts /\ stage[o] = "finishing" /\ snap[o].run
            BY <2>4 DEF StoreCount, WriteCount
        <3>2. dbRun'[r] = snap[o].value /\ r \in dbRuns'
            BY <1>3, <2>4, <3>1 DEF StoreCount, WriteCount, StoreRun, BaseInv, CountInv
        <3>3. dbRun'[r].nextName = run[r].nextName
            BY <1>3, <3>1, <3>2 DEF NumberedInv, ChosenName
        <3> QED BY <2>1, <2>2, <3>1, <3>2, <3>3, StoredNamesStay
    <2>5. CASE UNCHANGED durable
        BY <2>1, <2>2, <2>5, StoredNamesStay DEF durable
    <2> QED BY <2>3, <2>4, <2>5 DEF Proceed, Conflict, Enter, EnterSave, Compute, Load, ComputeFails,
            SaveState, SaveStateFails, SerialiseCheckpoint, StoreCheckpoint, SerialiseCount, StoreCount,
            durable
<1> QED BY <1>2, <1>3

LEMMA ProceedChosenNames ==
    ASSUME GeneratedNames, BaseInv, BaseInv', NumberedInv, NEW o \in Ops, Proceed(o)
    PROVE  \A p \in Ops : ChosenName(p)'
<1> DEFINE m == Mine(o)
<1>1. OnlyOf(o) /\ AtHead(o) /\ m \in Runs /\ op' = op /\ Mine(o)' = m
    BY ProceedOnlyOf, ProceedAtHead DEF BaseInv, LockInv, OnlyOf, Mine
<1>2. ASSUME NEW p \in Ops \ {o} PROVE ChosenName(p)'
    <2>1. /\ stage'[p] = stage[p] /\ snap'[p] = snap[p] /\ making'[p] = making[p]
          /\ Mine(p)' = Mine(p) /\ op'[p] = op[p]
        BY <1>1 DEF OnlyOf, Mine
    <2>2. stage[p] \in Active => run'[Mine(p)] = run[Mine(p)]
        BY <1>1, Alone DEF BaseInv, LockInv, OnlyOf, OthersKept
    <2>3. Naming(p)' = Naming(p) /\ (Naming(p) => stage[p] \in Active)
        BY <2>1 DEF Naming, Active
    <2>4. ChosenName(p)
        BY DEF NumberedInv
    <2> QED BY <2>1, <2>2, <2>3, <2>4 DEF ChosenName, Active
<1>3. ChosenName(o)
    BY DEF NumberedInv
<1>4. ChosenName(o)'
    <2>1. CASE EnterSave(o)
        <3> DEFINE t == op[o].type
        <3>1. t \in Types /\ op[o].name = AutoName
            BY <2>1 DEF EnterSave, BaseInv, Ended, Arguments, GeneratedNames
        <3>2. /\ making'[o].name = run[m].nextName[t] /\ making'[o].type = t
            BY <2>1, <3>1 DEF EnterSave, NewCheckpoint, SaveName, BaseInv, TypedInv
        <3>3. /\ run'[m].nextName = [run[m].nextName EXCEPT ![t] = @ + 1]
              /\ run[m].nextName \in [Types -> Nat]
            BY <1>1, <2>1, CounterTypes
            DEF EnterSave, TakeName, BaseInv, CountInv, CountedRun, Run
        <3>4. making'[o].name < run'[m].nextName[making'[o].type]
            BY <3>1, <3>2, <3>3
        <3>5. stage'[o] = "executing"
            BY <2>1 DEF EnterSave, GoTo, BaseInv, LockInv
        <3> QED BY <1>1, <3>4, <3>5 DEF ChosenName
    <2>2. CASE ~EnterSave(o)
        <3>1. run'[m].nextName = run[m].nextName
            <4>1. run' = run \/ Count(o)
                BY <2>2 DEF Proceed, Conflict, Enter, Compute, Load, ComputeFails, SaveState,
                    SaveStateFails, SerialiseCheckpoint, StoreCheckpoint, SerialiseCount, StoreCount,
                    objects
            <4> QED BY <1>1, <4>1, CountKeepsNames DEF BaseInv
        <3>2. CASE SaveState(o)
            <4>1. /\ Naming(o) /\ making' = making /\ stage'[o] = "storing"
                BY <3>2 DEF SaveState, Naming, GoTo, BaseInv, LockInv
            <4> QED BY <1>1, <1>3, <3>1, <4>1 DEF ChosenName
        <3>3. CASE SerialiseCheckpoint(o)
            <4>1. /\ Naming(o) /\ making' = making /\ stage'[o] = "writing" /\ run' = run
                  /\ snap'[o].run => snap'[o].value = run[m]
                  /\ \A c \in snap'[o].ckpts : c.type = making[o].type /\ c.name = making[o].name
                BY <3>3 DEF SerialiseCheckpoint, Naming, GoTo, NothingToWrite, BaseInv, LockInv,
                    CountInv, objects
            <4> QED BY <1>1, <1>3, <4>1 DEF ChosenName
        <3>4. CASE SerialiseCount(o)
            <4>1. /\ stage'[o] = "finishing" /\ run' = run
                  /\ snap'[o].run => snap'[o].value = run[m]
                BY <3>4 DEF SerialiseCount, GoTo, NothingToWrite, BaseInv, LockInv, CountInv, objects
            <4> QED BY <1>1, <4>1 DEF ChosenName, Naming
        <3>5. CASE ~SaveState(o) /\ ~SerialiseCheckpoint(o) /\ ~SerialiseCount(o)
            <4>1. ~Naming(o)' /\ stage'[o] \notin {"writing", "finishing"}
                BY <2>2, <3>5 DEF Proceed, Conflict, Enter, Compute, Load, ComputeFails,
                    SaveStateFails, StoreCheckpoint, StoreCount, Finish, GoTo, Naming, BaseInv, LockInv
            <4> QED BY <4>1 DEF ChosenName
        <3> QED BY <3>2, <3>3, <3>4, <3>5
    <2> QED BY <2>1, <2>2
<1> QED BY <1>2, <1>4

LEMMA StartNumbered ==
    ASSUME BaseInv, BaseInv', NumberedInv, NEW o \in Ops, NEW m \in Runs, NEW k, NEW s, NEW src,
           NEW t, NEW n, NEW F, Start(o, m, k, s, src, t, n, F)
    PROVE  NumberedInv'
<1>1. /\ UNCHANGED <<run, making, snap, dbCkpts>> /\ stage'[o] \in {"waiting", "done"}
      /\ StoreRun(m, run[m]) \/ UNCHANGED <<dbRuns, dbRun>>
    BY DEF Start, objects, BaseInv, LockInv
<1>2. \A p \in Ops \ {o} : stage'[p] = stage[p] /\ op'[p] = op[p]
    BY DEF Start, BaseInv, LockInv
<1>3. ASSUME NEW r \in Runs PROVE StoredNames(r)'
    <2>1. NotAfter(run[r].nextName, run'[r].nextName)
        BY <1>1, NotAfterSelf
    <2>2. \/ dbRun'[r] = dbRun[r] /\ (r \in dbRuns' <=> r \in dbRuns)
          \/ dbRun'[r] = run[r] /\ r \in dbRuns'
        BY <1>1 DEF StoreRun, BaseInv, CountInv
    <2> QED BY <1>1, <2>1, <2>2, StoredNamesStay DEF NumberedInv
<1>4. ASSUME NEW p \in Ops PROVE ChosenName(p)'
    <2>1. CASE p = o
        BY <1>1, <2>1 DEF ChosenName, Naming
    <2>2. CASE p # o
        BY <1>1, <1>2, <2>2 DEF NumberedInv, ChosenName, Naming, Mine
    <2> QED BY <2>1, <2>2
<1> QED BY <1>3, <1>4 DEF NumberedInv

LEMMA OutsideNumbered ==
    ASSUME GeneratedNames, BaseInv, BaseInv', NumberedInv, NEW m \in Runs, Unlocked(m) \/ Recover(m)
    PROVE  NumberedInv'
<1>1. UNCHANGED <<op, stage, making, snap>>
    BY OutsideKeeps DEF coroutines
<1>2. \A r \in Runs : run'[r].nextName = run[r].nextName
    <2>1. CASE RecoverCorrupted(m)
        BY <2>1 DEF RecoverCorrupted, BaseInv, CountInv, CountedRun, Run
    <2>2. CASE ~RecoverCorrupted(m)
        BY <2>2 DEF Unlocked, CreateModel, DeleteCheckpoint, CrashWhileDeleting,
            SetVisibility, RemoveAdapter, ForgetRun, Recover, SkipRun, RecoverFresh,
            RecoverFromCheckpoint, objects
    <2> QED BY <2>1, <2>2
<1>3. \A p \in Ops : ChosenName(p)'
    BY <1>1, <1>2 DEF NumberedInv, ChosenName, Naming, Mine, BaseInv, LockInv
<1>4. \A r \in Runs : StoredNames(r) /\ NotAfter(run[r].nextName, run'[r].nextName)
    BY <1>2, NotAfterSelf DEF NumberedInv
<1>5. CASE CreateModel(m)
    <2>1. \A r \in Runs \ {m} : /\ dbRun'[r] = dbRun[r] /\ dbCkpts'[r] = dbCkpts[r]
                                /\ r \in dbRuns' <=> r \in dbRuns
        BY <1>5 DEF CreateModel, StoreRun, BaseInv, CountInv
    <2>2. ASSUME NEW r \in Runs \ {m} PROVE StoredNames(r)'
        BY <1>4, <2>1, StoredNamesStay
    <2>3. /\ dbCkpts'[m] = {} /\ run' = run
          /\ m \in dbRuns' => dbRun'[m] = FreshRun
        BY <1>4, <1>5 DEF CreateModel, StoreRun, BaseInv, CountInv, StoredNames
    <2>4. NotAfter(FreshRun.nextName, run[m].nextName)
        BY CounterTypes DEF NotAfter, FreshRun
    <2>5. StoredNames(m)'
        BY <2>3, <2>4 DEF StoredNames
    <2> QED BY <1>3, <2>2, <2>5 DEF NumberedInv
<1>6. CASE ForgetRun(m)
    <2>1. \A r \in Runs \ {m} : /\ dbRun'[r] = dbRun[r] /\ dbCkpts'[r] = dbCkpts[r]
                                /\ r \in dbRuns' <=> r \in dbRuns
        BY <1>6 DEF ForgetRun, BaseInv, CountInv, TypedInv
    <2>2. ASSUME NEW r \in Runs \ {m} PROVE StoredNames(r)'
        BY <1>4, <2>1, StoredNamesStay
    <2>3. m \notin dbRuns' /\ dbCkpts'[m] = {}
        BY <1>6 DEF ForgetRun, BaseInv, TypedInv
    <2>4. StoredNames(m)'
        BY <2>3 DEF StoredNames
    <2> QED BY <1>3, <2>2, <2>4 DEF NumberedInv
<1>7. CASE ~CreateModel(m) /\ ~ForgetRun(m)
    <2>1. \A r \in Runs : dbCkpts'[r] \subseteq dbCkpts[r]
        <3>1. dbCkpts' = dbCkpts \/ \E n \in Names : DeleteCheckpoint(m, n)
            BY <1>7 DEF Unlocked, CrashWhileDeleting, SetVisibility, RemoveAdapter, Recover, SkipRun,
                RecoverFresh, RecoverFromCheckpoint, RecoverCorrupted, durable, GeneratedNames
        <3> QED BY <3>1 DEF DeleteCheckpoint, BaseInv, TypedInv
    <2>2. \A r \in Runs : \/ dbRun'[r] = dbRun[r] /\ (r \in dbRuns' <=> r \in dbRuns)
                          \/ dbRun'[r] \in {run[r], run'[r]} /\ r \in dbRuns'
        BY <1>7 DEF Unlocked, DeleteCheckpoint, CrashWhileDeleting, SetVisibility, RemoveAdapter,
            Recover, SkipRun, RecoverFresh, RecoverFromCheckpoint, RecoverCorrupted, durable,
            StoreRun, BaseInv, CountInv
    <2>3. ASSUME NEW r \in Runs PROVE StoredNames(r)'
        BY <1>2, <1>4, <2>1, <2>2, StoredNamesStay
    <2> QED BY <1>3, <2>3 DEF NumberedInv
<1> QED BY <1>5, <1>6, <1>7

LEMMA NumberedNext ==
    ASSUME GeneratedNames, BaseInv, BaseInv', NumberedInv, [Next]_trainingVars
    PROVE  NumberedInv'
<1>1. ASSUME NEW o \in Ops, Request(o) PROVE NumberedInv'
    <2>1. PICK m, k, s, src, t, n, F : m \in Runs /\ Start(o, m, k, s, src, t, n, F)
        BY <1>1 DEF Request
    <2> QED BY <2>1, StartNumbered
<1>2. ASSUME NEW o \in Ops, Proceed(o) PROVE NumberedInv'
    BY <1>2, ProceedStoredNames, ProceedChosenNames DEF NumberedInv
<1>3. CASE Restart
    <2>1. /\ UNCHANGED durable /\ run' = [m \in Runs |-> RestoredRun(m)]
          /\ \A o \in Ops : stage'[o] \in {"new", "done", "lost"}
        BY <1>3 DEF Restart
    <2>2. ASSUME NEW m \in Runs PROVE StoredNames(m)'
        <3>1. StoredNames(m) /\ dbRun'[m] = dbRun[m] /\ dbCkpts'[m] = dbCkpts[m] /\ dbRuns' = dbRuns
            BY <2>1 DEF NumberedInv, durable
        <3>2. m \in dbRuns => run'[m] = dbRun[m]
            BY <2>1 DEF RestoredRun
        <3>3. NotAfter(dbRun[m].nextName, dbRun[m].nextName)
            <4>1. \A t \in Types : dbRun[m].nextName[t] \in Nat
                BY CounterTypes
            <4> QED BY <4>1 DEF NotAfter
        <3> QED BY <3>1, <3>2, <3>3 DEF StoredNames
    <2>3. \A o \in Ops : ChosenName(o)'
        BY <2>1 DEF ChosenName, Naming
    <2> QED BY <2>2, <2>3 DEF NumberedInv
<1>4. ASSUME FinishRecovery \/ ProcessEnds \/ UNCHANGED trainingVars PROVE NumberedInv'
    BY <1>4, QuietKeeps
    DEF coroutines, objects, durable, NumberedInv, StoredNames, ChosenName, Naming, Mine
<1> QED BY <1>1, <1>2, <1>3, <1>4, OutsideNumbered DEF Next

LEMMA NumberedInit == Init => NumberedInv
BY DEF Init, NumberedInv, StoredNames, ChosenName, Naming

(* A stored record never has a name that the stored run could give away     *)
(* again, whatever is lost, deleted or unloaded: the two are written in one *)
(* transaction.                                                             *)
THEOREM NamesAreUsedUp ==
    ASSUME GeneratedNames
    PROVE  Spec => []StoredCounterCoversNames
<1>1. Init => BaseInv /\ NumberedInv
    BY BaseInit, NumberedInit
<1>2. BaseInv /\ NumberedInv /\ [Next]_trainingVars => BaseInv' /\ NumberedInv'
    BY BaseNext, NumberedNext
<1>3. BaseInv /\ NumberedInv => StoredCounterCoversNames
    BY DEF NumberedInv, StoredNames, StoredCounterCoversNames, BaseInv, CountInv
<1> QED BY <1>1, <1>2, <1>3, PTL DEF Spec

(* The stored counters of a run cover what the run has done, wherever the   *)
(* process ends: whatever was reported, checkpointed or named is never      *)
(* accepted or handed out again.                                            *)
THEOREM StoredCountersCover ==
    ASSUME Reliable, GeneratedNames
    PROVE  Spec => []CountersCover
<1>1. Spec => [](CheckpointsBelowCounter /\ CompletedIsCounted)
    BY NumbersAreUsedUp
<1>2. Spec => []StoredCounterCoversNames
    BY NamesAreUsedUp
<1>3. CheckpointsBelowCounter /\ CompletedIsCounted /\ StoredCounterCoversNames => CountersCover
    BY DEF CountersCover
<1> QED BY <1>1, <1>2, <1>3, PTL

-----------------------------------------------------------------------------
(* Files.  A record that is stored finds its files, because a save writes   *)
(* into a directory whose name no stored record has, and because its record *)
(* is stored only when the directory is complete.  Needs one type in use,   *)
(* since directories are named without the type, and no delete_checkpoint,  *)
(* which may run beside a save and stop half-way.                           *)

OneType == \A t, u \in Types : t = u
KeptFiles == GeneratedNames /\ OneType /\ "delete" \notin Faults

Written(m, c) == dirs[m][c.name] = [state |-> "complete", weights |-> c.weights]

Making(o) ==
    /\ stage[o] = "executing" /\ op[o].kind = "save" =>
        /\ dirs[Mine(o)][making[o].name].state = "partial"
        /\ \A c \in dbCkpts[Mine(o)] : c.name # making[o].name
    /\ stage[o] \in {"storing", "writing"} => Written(Mine(o), making[o])
    /\ stage[o] = "storing" =>
        \A c \in ckpts[Mine(o)] : c.type = making[o].type /\ c.name = making[o].name => c = making[o]
    /\ stage[o] = "writing" => snap[o].ckpts \subseteq {making[o]}

FilesInv ==
    /\ \A m \in Runs : \A c \in dbCkpts[m] : Written(m, c)
    /\ \A o \in Ops : Making(o)

(* A save begins in a directory of its own.                                *)
LEMMA NewNameIsUnused ==
    ASSUME KeptFiles, BaseInv, NumberedInv, NEW o \in Ops, EnterSave(o)
    PROVE  /\ \A c \in dbCkpts[Mine(o)] : c.name # SaveName(o)
           /\ SaveName(o) \in Names /\ Mine(o) \in Runs
<1> DEFINE m == Mine(o)
<1> DEFINE t == op[o].type
<1>1. /\ t \in Types /\ op[o].name = AutoName /\ m \in Runs
    BY DEF EnterSave, BaseInv, Ended, Arguments, KeptFiles, GeneratedNames, LockInv
<1>2. SaveName(o) = run[m].nextName[t]
    BY <1>1 DEF SaveName
<1>3. ASSUME NEW c \in dbCkpts[m] PROVE c.name < run[m].nextName[t]
    <2>1. m \in dbRuns /\ StoredNames(m)
        BY <1>1, <1>3 DEF NumberedInv, StoredNames
    <2>2. c.type = t /\ c.name \in Nat /\ run[m].nextName[t] \in Nat /\ dbRun[m].nextName[t] \in Nat
        BY <1>1, <1>3, CounterTypes DEF KeptFiles, OneType
    <2>3. c.name < dbRun[m].nextName[t] /\ dbRun[m].nextName[t] <= run[m].nextName[t]
        BY <1>1, <1>3, <2>1, <2>2 DEF StoredNames, NotAfter
    <2> QED BY <2>2, <2>3
<1>4. \A c \in dbCkpts[m] : c.name # SaveName(o)
    BY <1>1, <1>2, <1>3, CounterTypes
<1> QED BY <1>1, <1>4, NewCheckpointIsTyped DEF BaseInv

LEMMA ProceedFiles ==
    ASSUME KeptFiles, BaseInv, NumberedInv, FilesInv, NEW o \in Ops, Proceed(o)
    PROVE  FilesInv'
<1> DEFINE m == Mine(o)
<1>1. OnlyOf(o) /\ AtHead(o) /\ m \in Runs /\ op' = op /\ Mine(o)' = m
    BY ProceedOnlyOf, ProceedAtHead DEF BaseInv, LockInv, OnlyOf, Mine
<1>2. ASSUME NEW p \in Ops \ {o} PROVE Making(p)'
    <2>1. /\ stage'[p] = stage[p] /\ snap'[p] = snap[p] /\ making'[p] = making[p]
          /\ Mine(p)' = Mine(p) /\ op'[p] = op[p]
        BY <1>1 DEF OnlyOf, Mine
    <2>2. stage[p] \in Active =>
            /\ dirs'[Mine(p)] = dirs[Mine(p)] /\ ckpts'[Mine(p)] = ckpts[Mine(p)]
            /\ dbCkpts'[Mine(p)] = dbCkpts[Mine(p)]
        BY <1>1, Alone DEF BaseInv, LockInv, OnlyOf, OthersKept
    <2>3. Making(p)
        BY DEF FilesInv
    <2> QED BY <2>1, <2>2, <2>3 DEF Making, Written, Active
<1>3. ASSUME NEW r \in Runs \ {m} PROVE \A c \in dbCkpts'[r] : Written(r, c)'
    <2>1. dirs'[r] = dirs[r] /\ dbCkpts'[r] = dbCkpts[r]
        BY <1>1 DEF OnlyOf, OthersKept
    <2>2. \A c \in dbCkpts[r] : Written(r, c)
        BY DEF FilesInv
    <2>3. ASSUME NEW c \in dbCkpts'[r] PROVE Written(r, c)'
        BY <2>1, <2>2, <2>3 DEF Written
    <2> QED BY <2>3
<1>4. Making(o) /\ (\A c \in dbCkpts[m] : Written(m, c)) /\ dbCkpts[m] \subseteq Checkpoint
    BY <1>1 DEF FilesInv, BaseInv, TypedInv
<1>5. Making(o)' /\ \A c \in dbCkpts'[m] : dirs'[m][c.name] = [state |-> "complete", weights |-> c.weights]
    <2>1. CASE EnterSave(o)
        <3> DEFINE n == SaveName(o)
        <3>1. n \in Names /\ \A c \in dbCkpts[m] : c.name # n
            BY <2>1, NewNameIsUnused
        <3>2. /\ dbCkpts' = dbCkpts /\ stage'[o] = "executing"
              /\ making'[o] = NewCheckpoint(o) /\ NewCheckpoint(o).name = n
              /\ dirs' = [dirs EXCEPT ![m][n] = [state |-> "partial", weights |-> {}]]
            BY <2>1 DEF EnterSave, GoTo, BaseInv, LockInv, TypedInv, NewCheckpoint, durable
        <3>3. /\ dirs'[m][n].state = "partial"
              /\ \A x \in Names \ {n} : dirs'[m][x] = dirs[m][x]
            BY <1>1, <3>1, <3>2 DEF BaseInv, TypedInv
        <3>4. \A c \in dbCkpts[m] : c.name \in Names \ {n}
            BY <1>4, <3>1 DEF Checkpoint
        <3>5. Making(o)'
            BY <1>1, <3>1, <3>2, <3>3 DEF Making
        <3>6. \A c \in dbCkpts'[m] : dirs'[m][c.name] = dirs[m][c.name]
            BY <3>2, <3>3, <3>4
        <3> QED BY <1>4, <3>2, <3>5, <3>6 DEF Written
    <2>2. CASE SaveState(o)
        <3> DEFINE k == making[o]
        <3>1. /\ stage[o] = "executing" /\ op[o].kind = "save" /\ stage'[o] = "storing"
              /\ dbCkpts' = dbCkpts /\ making' = making
            BY <2>2 DEF SaveState, GoTo, BaseInv, LockInv, durable
        <3>2. k \in Checkpoint /\ k.name \in Names
            BY <3>1 DEF BaseInv, TypedInv, Naming, Checkpoint
        <3>3. dirs[m][k.name].state = "partial" /\ \A c \in dbCkpts[m] : c.name # k.name
            BY <1>4, <3>1 DEF Making
        <3>4. dirs' = [dirs EXCEPT ![m][k.name] =
                          [state |-> IF @.state = "partial" THEN "complete" ELSE "partial",
                           weights |-> k.weights]]
            BY <2>2 DEF SaveState
        <3>5. /\ dirs'[m][k.name] = [state |-> "complete", weights |-> k.weights]
              /\ \A x \in Names \ {k.name} : dirs'[m][x] = dirs[m][x]
            BY <1>1, <3>2, <3>3, <3>4 DEF BaseInv, TypedInv
        <3>6. \A c \in dbCkpts[m] : c.name \in Names \ {k.name}
            BY <1>4, <3>3 DEF Checkpoint
        <3>7. \A c \in ckpts'[m] : c.type = k.type /\ c.name = k.name => c = k
            BY <1>1, <2>2 DEF SaveState, BaseInv, TypedInv
        <3>8. Making(o)'
            BY <1>1, <3>1, <3>5, <3>7 DEF Making, Written
        <3>9. \A c \in dbCkpts'[m] : dirs'[m][c.name] = dirs[m][c.name]
            BY <3>1, <3>5, <3>6
        <3> QED BY <1>4, <3>1, <3>8, <3>9 DEF Written
    <2>3. CASE SerialiseCheckpoint(o)
        <3>1. /\ stage[o] = "storing" /\ stage'[o] = "writing"
              /\ UNCHANGED <<dirs, ckpts, dbCkpts, making>>
              /\ \A c \in snap'[o].ckpts :
                    c \in ckpts[m] /\ c.type = making[o].type /\ c.name = making[o].name
            BY <2>3, RecordTypes
            DEF SerialiseCheckpoint, GoTo, BaseInv, LockInv, CountInv, objects, durable
        <3>2. Making(o)'
            BY <1>1, <1>4, <3>1 DEF Making, Written
        <3> QED BY <1>4, <3>1, <3>2 DEF Written
    <2>4. CASE StoreCheckpoint(o)
        <3>1. /\ stage[o] = "writing" /\ stage'[o] = "counting" /\ dirs' = dirs
              /\ dbCkpts'[m] \subseteq dbCkpts[m] \cup snap[o].ckpts
            BY <1>1, <2>4 DEF StoreCheckpoint, WriteBoth, StoreCheckpoints, GoTo, BaseInv, LockInv,
                TypedInv, durable
        <3>2. \A c \in snap[o].ckpts : Written(m, c)
            BY <1>4, <3>1 DEF Making
        <3>3. Making(o)'
            BY <3>1 DEF Making
        <3> QED BY <1>4, <3>1, <3>2, <3>3 DEF Written
    <2>5. CASE ~EnterSave(o) /\ ~SaveState(o) /\ ~SerialiseCheckpoint(o) /\ ~StoreCheckpoint(o)
        <3>1. dirs' = dirs /\ dbCkpts' = dbCkpts
            BY <2>5 DEF Proceed, Conflict, Enter, Compute, Load, ComputeFails, SaveStateFails,
                SerialiseCount, StoreCount, durable
        <3>2. /\ stage'[o] \notin {"storing", "writing"}
              /\ ~(stage'[o] = "executing" /\ op[o].kind = "save")
            BY <2>5 DEF Proceed, Conflict, Enter, Compute, Load, ComputeFails, SaveStateFails,
                SerialiseCount, StoreCount, Finish, GoTo, BaseInv, LockInv
        <3>3. Making(o)'
            BY <1>1, <3>2 DEF Making
        <3> QED BY <1>4, <3>1, <3>3 DEF Written
    <2> QED BY <2>1, <2>2, <2>3, <2>4, <2>5
<1>6. ASSUME NEW r \in Runs, NEW c \in dbCkpts'[r] PROVE Written(r, c)'
    <2>1. CASE r = m
        BY <1>5, <1>6, <2>1 DEF Written
    <2>2. CASE r # m
        BY <1>3, <1>6, <2>2
    <2> QED BY <2>1, <2>2
<1>7. ASSUME NEW p \in Ops PROVE Making(p)'
    BY <1>2, <1>5
<1> QED BY <1>6, <1>7 DEF FilesInv

LEMMA FilesNext ==
    ASSUME KeptFiles, BaseInv, NumberedInv, FilesInv, [Next]_trainingVars
    PROVE  FilesInv'
<1>1. ASSUME UNCHANGED dirs, \A r \in Runs : dbCkpts'[r] \subseteq dbCkpts[r],
             \A p \in Ops : \/ stage'[p] \in {"new", "waiting", "done", "lost"}
                            \/ /\ stage'[p] = stage[p] /\ op'[p] = op[p] /\ making'[p] = making[p]
                               /\ snap'[p] = snap[p] /\ UNCHANGED ckpts
      PROVE  FilesInv'
    <2>1. ASSUME NEW r \in Runs, NEW c \in dbCkpts'[r] PROVE Written(r, c)'
        BY <1>1, <2>1 DEF FilesInv, Written
    <2>2. ASSUME NEW p \in Ops PROVE Making(p)'
        <3>1. CASE stage'[p] \in {"new", "waiting", "done", "lost"}
            BY <3>1 DEF Making
        <3>2. CASE /\ stage'[p] = stage[p] /\ op'[p] = op[p] /\ making'[p] = making[p]
                   /\ snap'[p] = snap[p] /\ UNCHANGED ckpts
            <4>1. Mine(p)' = Mine(p) /\ Mine(p) \in Runs /\ Making(p)
                BY <3>2 DEF Mine, FilesInv, BaseInv, LockInv
            <4>2. dbCkpts'[Mine(p)] \subseteq dbCkpts[Mine(p)]
                BY <1>1, <4>1
            <4> QED BY <1>1, <3>2, <4>1, <4>2 DEF Making, Written
        <3> QED BY <1>1, <3>1, <3>2
    <2> QED BY <2>1, <2>2 DEF FilesInv
<1>2. ASSUME NEW o \in Ops, Request(o) PROVE FilesInv'
    <2>1. PICK m, k, s, src, t, n, F : m \in Runs /\ Start(o, m, k, s, src, t, n, F)
        BY <1>2 DEF Request
    <2>2. /\ UNCHANGED <<dirs, dbCkpts, ckpts, making, snap>> /\ stage'[o] \in {"waiting", "done"}
          /\ \A p \in Ops \ {o} : stage'[p] = stage[p] /\ op'[p] = op[p]
        BY <2>1 DEF Start, objects, BaseInv, LockInv
    <2> QED BY <1>1, <2>2
<1>3. ASSUME NEW m \in Runs, Unlocked(m) \/ Recover(m) PROVE FilesInv'
    <2>1. UNCHANGED <<op, stage, making, snap>>
        BY <1>3, OutsideKeeps DEF coroutines
    <2>2. UNCHANGED <<dirs, ckpts>>
        BY <1>3 DEF Unlocked, CreateModel, DeleteCheckpoint, CrashWhileDeleting, SetVisibility,
            RemoveAdapter, ForgetRun, Recover, SkipRun, RecoverFresh, RecoverFromCheckpoint,
            RecoverCorrupted, objects, KeptFiles
    <2>3. \A r \in Runs : dbCkpts'[r] \subseteq dbCkpts[r]
        <3>1. CASE ForgetRun(m)
            BY <3>1 DEF ForgetRun, BaseInv, TypedInv
        <3>2. CASE ~ForgetRun(m)
            BY <1>3, <3>2 DEF Unlocked, CreateModel, DeleteCheckpoint, CrashWhileDeleting, SetVisibility,
                RemoveAdapter, Recover, SkipRun, RecoverFresh, RecoverFromCheckpoint,
                RecoverCorrupted, durable, KeptFiles, GeneratedNames
        <3> QED BY <3>1, <3>2
    <2> QED BY <1>1, <2>1, <2>2, <2>3
<1>4. CASE Restart
    <2>1. UNCHANGED <<dirs, dbCkpts>> /\ \A p \in Ops : stage'[p] \in {"new", "done", "lost"}
        BY <1>4 DEF Restart, durable
    <2> QED BY <1>1, <2>1
<1>5. ASSUME FinishRecovery \/ ProcessEnds \/ UNCHANGED trainingVars PROVE FilesInv'
    BY <1>1, <1>5, QuietKeeps DEF coroutines, objects, durable
<1> QED BY <1>2, <1>3, <1>4, <1>5, ProceedFiles DEF Next

LEMMA FilesInit == Init => FilesInv
BY DEF Init, FilesInv, Making

(* A stored checkpoint record finds the files it was made for: complete and *)
(* with the weights of its own save, also when saves fail half-way, when    *)
(* the process ends between two steps of one, and when its write is lost.   *)
THEOREM RecordsFindTheirFiles ==
    ASSUME KeptFiles
    PROVE  Spec => []CheckpointsKeepTheirWeights
<1>1. Init => BaseInv /\ NumberedInv /\ FilesInv
    BY BaseInit, NumberedInit, FilesInit
<1>2. BaseInv /\ NumberedInv /\ FilesInv /\ [Next]_trainingVars =>
        BaseInv' /\ NumberedInv' /\ FilesInv'
    BY BaseNext, NumberedNext, FilesNext DEF KeptFiles
<1>3. BaseInv /\ FilesInv => CheckpointsKeepTheirWeights
    BY DEF FilesInv, Written, CheckpointsKeepTheirWeights, BaseInv, CountInv
<1> QED BY <1>1, <1>2, <1>3, PTL DEF Spec

-----------------------------------------------------------------------------
(* Futures in the server.  No write is lost here and none expires, so what  *)
(* is known is what is stored and was handed out.                           *)

FutureInv ==
    /\ used \subseteq Ops /\ registry = used /\ stored = used
    /\ records \in [Ops -> Futures!Record] /\ db \in [Ops -> Futures!Durable]
    /\ DOMAIN task = Ops /\ DOMAIN outcome = Ops
    /\ \A r \in Ops : task[r] # "none" => r \in used
    /\ nextId \in 1..(Cardinality(used) + 1)
    /\ \A r \in used : /\ db[r].fid < nextId
                       /\ records[r].fid = db[r].fid /\ records[r].model = db[r].model

(* What recovery does to the records.                                      *)
Marks(S, saved) == saved \subseteq S /\ S \subseteq registry /\ Futures!FailAll(S, saved)

Recovers(S) ==
    phase = "recovering" /\ (S = Futures!PendingSamples \/ \E x \in reconcile : S = ToFail(x))

(* What a server step does to the futures.                                 *)
FutureStep ==
    \/ UNCHANGED futureVars
    \/ \E r \in Ops, u \in Users, m \in created : Futures!Enqueue(r, u, m, "train")
    \/ \E r \in Ops : Return(r)
    \/ \E r \in Ops : Publish(r)
    \/ Boot
    \/ \E S, saved : Recovers(S) /\ Marks(S, saved) /\ (phase' = "down" \/ saved = S)

LEMMA PendingAreKnown ==
    /\ Futures!PendingSamples \subseteq registry
    /\ \A x : ToFail(x) \subseteq registry
BY DEF Futures!PendingSamples, Futures!PendingOf, ToFail, Futures!PendingOfModel,
    Futures!AfterCheckpoint, Futures!OfModel

LEMMA EveryFutureStep == ASSUME [ServerNext]_serverVars PROVE FutureStep
<1>1. ASSUME NEW r \in Ops, NEW u \in Users, NEW m \in Runs, Submit(r, u, m) PROVE FutureStep
    BY <1>1 DEF Submit, FutureStep
<1>2. ASSUME NEW r \in Ops, Progress(r) PROVE FutureStep
    BY <1>2 DEF Progress, Begin, Operate, FutureStep
<1>3. ASSUME NEW m \in Runs, Manage(m) \/ RecoverRun(m) PROVE FutureStep
    BY <1>3 DEF Manage, RecoverRun, FutureStep
<1>4. CASE Crash
    BY <1>4 DEF Crash, Futures!ProcessEnds, Futures!memory, Futures!durable, futureVars, FutureStep
<1>5. CASE Open
    BY <1>5 DEF Open, Futures!FinishRecovery, Futures!memory, Futures!durable, futureVars, FutureStep
<1>6. CASE FailPendingSamples
    <2>1. PICK saved \in Futures!SavedOf(Futures!PendingSamples) :
            Futures!FailAll(Futures!PendingSamples, saved)
        BY <1>6 DEF FailPendingSamples, Futures!MarkPendingSamples
    <2>2. saved = Futures!PendingSamples
        BY <2>1 DEF Futures!SavedOf, SaveOutcomes
    <2>3. Recovers(Futures!PendingSamples)
        BY <1>6 DEF FailPendingSamples, Futures!MarkPendingSamples, Recovers
    <2> QED BY <2>1, <2>2, <2>3, PendingAreKnown DEF FutureStep, Marks
<1>7. CASE ReconcileFutures
    <2>1. PICK x \in reconcile : Futures!RecoverRun(ToFail(x))
        BY <1>7 DEF ReconcileFutures
    <2>2. PICK saved \in Futures!SavedOf(ToFail(x)) : Futures!FailAll(ToFail(x), saved)
        BY <2>1 DEF Futures!RecoverRun
    <2>3. saved = ToFail(x)
        BY <2>2 DEF Futures!SavedOf, SaveOutcomes
    <2>4. Marks(ToFail(x), saved)
        BY <2>2, <2>3, PendingAreKnown DEF Marks
    <2>5. Recovers(ToFail(x))
        BY <2>1 DEF Futures!RecoverRun, Recovers
    <2> QED BY <2>3, <2>4, <2>5, Zenon DEF FutureStep
<1>8. CASE CrashWhileReconciling
    <2>1. PICK x \in reconcile : Futures!CrashWhileMarking(ToFail(x))
        BY <1>8 DEF CrashWhileReconciling
    <2>2. PICK saved \in SUBSET ToFail(x) : Futures!FailAll(ToFail(x), saved)
        BY <2>1 DEF Futures!CrashWhileMarking
    <2>3. phase' = "down"
        BY <2>1 DEF Futures!CrashWhileMarking
    <2>4. Marks(ToFail(x), saved)
        BY <2>2, PendingAreKnown, Zenon DEF Marks
    <2>5. Recovers(ToFail(x))
        BY <2>1 DEF Futures!CrashWhileMarking, Recovers
    <2> QED BY <2>3, <2>4, <2>5, Zenon DEF FutureStep
<1>9. CASE Boot
    BY <1>9 DEF FutureStep
<1>10. CASE UNCHANGED serverVars
    BY <1>10 DEF serverVars, FutureStep
<1> QED BY <1>1, <1>2, <1>3, <1>4, <1>5, <1>6, <1>7, <1>8, <1>9, <1>10
    DEF ServerNext, Requests

(* The future id of the counter is beyond all ids there are.               *)
LEMMA NoRecordIsTyped ==
    Futures!NoRecord \in Futures!Record /\ Futures!Stored(Futures!NoRecord) \in Futures!Durable
BY RunsAssumption, UsersAssumption
DEF Futures!NoRecord, Futures!Blank, Futures!Record, Futures!Stored, Futures!Durable, Models,
    Futures!FutureKinds, Futures!Statuses, Futures!Payloads, Futures!Errors

(* The record of a request that is enqueued with future id i.              *)
Queued(m, u, i) == [Futures!Blank(m, u) EXCEPT !.fid = i, !.kind = "train"]

LEMMA QueuedIsTyped ==
    ASSUME NEW u \in Users, NEW m \in Runs, NEW i \in Nat
    PROVE  LET rec == Queued(m, u, i)
           IN  /\ rec \in Futures!Record /\ Futures!Stored(rec) \in Futures!Durable
               /\ rec.fid = i /\ rec.model = m /\ rec.status = "pending" /\ rec.error = "none"
               /\ Futures!Stored(rec).fid = i /\ Futures!Stored(rec).model = m
               /\ Futures!Stored(rec).status = "pending" /\ Futures!Stored(rec).error = "none"
BY DEF Queued, Futures!Blank, Futures!Record, Futures!Stored, Futures!Durable, Models,
    Futures!FutureKinds, Futures!Statuses, Futures!Payloads, Futures!Errors

(* Resolving, failing, publishing, storing and loading a record leave its  *)
(* id and its run alone.                                                   *)
LEMMA RecordsKeepIds ==
    ASSUME NEW rec \in Futures!Record, NEW res
    PROVE  /\ \A r \in {Futures!Resolved(rec, res), Futures!Failed(rec), Futures!Published(rec)} :
                r \in Futures!Record /\ r.fid = rec.fid /\ r.model = rec.model
           /\ Futures!Stored(rec) \in Futures!Durable
           /\ Futures!Stored(rec).fid = rec.fid /\ Futures!Stored(rec).model = rec.model
<1>1. /\ Futures!Failed(rec) \in Futures!Record
      /\ Futures!Failed(rec).fid = rec.fid /\ Futures!Failed(rec).model = rec.model
    BY DEF Futures!Failed, Futures!Record, Futures!Statuses, Futures!Errors
<1>2. /\ Futures!Published(rec) \in Futures!Record
      /\ Futures!Published(rec).fid = rec.fid /\ Futures!Published(rec).model = rec.model
    BY DEF Futures!Published, Futures!Record
<1>3. /\ Futures!Resolved(rec, res) \in Futures!Record
      /\ Futures!Resolved(rec, res).fid = rec.fid /\ Futures!Resolved(rec, res).model = rec.model
    BY DEF Futures!Resolved, Futures!Record, Futures!Statuses, Futures!Errors, Futures!Payloads
<1>4. /\ Futures!Stored(rec) \in Futures!Durable
      /\ Futures!Stored(rec).fid = rec.fid /\ Futures!Stored(rec).model = rec.model
    BY DEF Futures!Stored, Futures!Record, Futures!Durable
<1> QED BY <1>1, <1>2, <1>3, <1>4

LEMMA LoadedRecord ==
    ASSUME NEW d \in Futures!Durable
    PROVE  /\ Futures!Loaded(d) \in Futures!Record
           /\ Futures!Loaded(d).fid = d.fid /\ Futures!Loaded(d).model = d.model
           /\ Futures!Loaded(d).status = d.status /\ Futures!Loaded(d).error = d.error
           /\ Futures!Loaded(d).event = (d.status # "pending")
BY DEF Futures!Loaded, Futures!Record, Futures!Durable

(* Of numbers up to some bound one is the greatest: that which is the      *)
(* least distance from the bound.                                          *)
LEMMA GreatestOf ==
    ASSUME NEW S, S \subseteq Nat, S # {}, NEW n \in Nat, \A i \in S : i <= n
    PROVE  \E k \in S : \A i \in S : i <= k
<1> DEFINE Less == {p \in Nat \X Nat : p[1] < p[2]}
<1> DEFINE D == {d \in Nat : n - d \in S}
<1>1. IsWellFoundedOn(Less, Nat)
    BY NatLessThanWellFounded, Zenon DEF OpToRel
<1>2. D \subseteq Nat /\ D # {}
    <2>1. PICK i \in S : TRUE
        OBVIOUS
    <2>2. n - i \in Nat /\ n - (n - i) = i
        BY <2>1
    <2> QED BY <2>1, <2>2
<1> HIDE DEF Less
<1>3. PICK d \in D : \A e \in D : ~ (<<e, d>> \in Less)
    BY <1>1, <1>2, WFMin
<1>4. \A e \in D : ~ (e < d)
    <2>1. \A e, f \in Nat : e < f => <<e, f>> \in Less
        BY DEF Less
    <2> QED BY <1>2, <1>3, <2>1
<1>5. ASSUME NEW i \in S PROVE i <= n - d
    <2>1. n - i \in D
        <3>1. n - i \in Nat /\ n - (n - i) = i
            OBVIOUS
        <3> QED BY <3>1
    <2> QED BY <1>3, <1>4, <2>1
<1> QED BY <1>3, <1>5

(* The counter that a restart rebuilds.                                    *)
LEMMA Rebuilt ==
    ASSUME NEW S, S \subseteq Nat, NEW n \in Nat, \A i \in S : i <= n
    PROVE  /\ Futures!NextAfter(S) \in 1..(n + 1)
           /\ \A i \in S : i < Futures!NextAfter(S)
<1>1. CASE S = {}
    BY <1>1 DEF Futures!NextAfter
<1>2. CASE S # {}
    <2>1. PICK j \in S : \A i \in S : i <= j
        BY <1>2, GreatestOf
    <2> DEFINE g == CHOOSE k \in S : \A i \in S : i <= k
    <2>2. g \in S /\ \A i \in S : i <= g
        BY <2>1
    <2>3. Futures!NextAfter(S) = g + 1
        BY <1>2 DEF Futures!NextAfter
    <2> HIDE DEF g
    <2>4. g \in Nat /\ g <= n
        BY <2>2
    <2> QED BY <2>2, <2>3, <2>4
<1> QED BY <1>1, <1>2

LEMMA FutureInit == ServerInit => FutureInv
<1>1. Cardinality({}) = 0
    BY FS_EmptySet
<1> QED BY <1>1, NoRecordIsTyped DEF ServerInit, Futures!Init, FutureInv, Requests

LEMMA EnqueueKeeps ==
    ASSUME BaseInv, FutureInv, NEW r \in Ops, NEW u \in Users, NEW m \in created,
           Futures!Enqueue(r, u, m, "train")
    PROVE  FutureInv'
<1> DEFINE rec == Queued(m, u, nextId)
<1>1. /\ r \notin used /\ used' = used \cup {r} /\ nextId' = nextId + 1
      /\ registry' = registry \cup {r} /\ records' = [records EXCEPT ![r] = rec]
      /\ stored' = stored \cup {r} /\ db' = [db EXCEPT ![r] = Futures!Stored(rec)]
      /\ task' = [task EXCEPT ![r] = "running"] /\ outcome' = outcome
    BY DEF Futures!Enqueue, Futures!Register, Futures!SaveFuture, SaveOutcomes, Queued
<1>2. m \in Runs /\ nextId \in Nat
    BY DEF BaseInv, CountInv, FutureInv
<1>3. /\ rec \in Futures!Record /\ Futures!Stored(rec) \in Futures!Durable
      /\ rec.fid = nextId /\ rec.model = m
      /\ Futures!Stored(rec).fid = nextId /\ Futures!Stored(rec).model = m
    BY <1>2, QueuedIsTyped
<1> HIDE DEF rec
<1>4. IsFiniteSet(used) /\ Cardinality(used) \in Nat
    BY OpsAssumption, FS_Subset, FS_CardinalityType DEF FutureInv
<1>5. Cardinality(used') = Cardinality(used) + 1
    BY <1>1, <1>4, FS_AddElement
<1>6. nextId' \in 1..(Cardinality(used') + 1)
    BY <1>1, <1>4, <1>5 DEF FutureInv
<1>7. /\ records' \in [Ops -> Futures!Record] /\ db' \in [Ops -> Futures!Durable]
      /\ records'[r].fid = nextId /\ db'[r].fid = nextId
      /\ records'[r].model = m /\ db'[r].model = m
      /\ \A q \in Ops \ {r} : records'[q] = records[q] /\ db'[q] = db[q]
    BY <1>1, <1>3 DEF FutureInv
<1>8. \A q \in used : db[q].fid \in Nat
    BY DEF FutureInv, Futures!Durable
<1>9. \A q \in used' : /\ db'[q].fid < nextId'
                       /\ records'[q].fid = db'[q].fid /\ records'[q].model = db'[q].model
    BY <1>1, <1>2, <1>7, <1>8 DEF FutureInv
<1> QED BY <1>1, <1>6, <1>7, <1>9 DEF FutureInv

LEMMA PublishKeeps ==
    ASSUME FutureInv, NEW r \in Ops, Publish(r)
    PROVE  FutureInv'
<1>1. records[r] \in Futures!Record
    BY DEF FutureInv
<1>2. r \in used
    BY DEF FutureInv, Publish, Futures!MarkBegin, Futures!MarkSave, Futures!MarkEnd
<1>3. CASE Futures!MarkSave(r)
    <2>1. /\ UNCHANGED <<registry, records, nextId, outcome, used>>
          /\ stored' = stored \cup {r} /\ db' = [db EXCEPT ![r] = Futures!Stored(records[r])]
          /\ task' = [task EXCEPT ![r] = "saved"]
        BY <1>3 DEF Futures!MarkSave, Futures!SaveFuture, SaveOutcomes
    <2> QED BY <1>1, <1>2, <2>1, RecordsKeepIds DEF FutureInv
<1>4. ASSUME UNCHANGED <<registry, stored, db, nextId, outcome, used>>,
             NEW s, task' = [task EXCEPT ![r] = s],
             NEW rec \in {records[r], Futures!Resolved(records[r], outcome[r]),
                          Futures!Published(records[r])},
             records' = [records EXCEPT ![r] = rec]
      PROVE  FutureInv'
    <2>1. rec \in Futures!Record /\ rec.fid = records[r].fid /\ rec.model = records[r].model
        BY <1>1, RecordsKeepIds
    <2>2. records' \in [Ops -> Futures!Record] /\ \A q \in Ops :
            records'[q].fid = records[q].fid /\ records'[q].model = records[q].model
        BY <1>4, <2>1 DEF FutureInv
    <2> QED BY <1>2, <1>4, <2>2 DEF FutureInv
<1>5. CASE Futures!MarkBegin(r)
    <2>1. /\ UNCHANGED <<registry, stored, db, nextId, outcome, used>>
          /\ \E s : task' = [task EXCEPT ![r] = s]
          /\ \/ records' = records
             \/ records' = [records EXCEPT ![r] = Futures!Resolved(records[r], outcome[r])]
        BY <1>5 DEF Futures!MarkBegin, Futures!durable
    <2>2. PICK s : task' = [task EXCEPT ![r] = s]
        BY <2>1
    <2>3. records = [records EXCEPT ![r] = records[r]]
        BY DEF FutureInv
    <2> QED BY <1>4, <2>1, <2>2, <2>3
<1>6. CASE Futures!MarkEnd(r)
    <2>1. /\ UNCHANGED <<registry, stored, db, nextId, outcome, used>>
          /\ task' = [task EXCEPT ![r] = "done"]
          /\ records' = [records EXCEPT ![r] = Futures!Published(records[r])]
        BY <1>6 DEF Futures!MarkEnd, Futures!durable
    <2> QED BY <1>4, <2>1
<1> QED BY <1>3, <1>5, <1>6 DEF Publish

LEMMA BootKeeps ==
    ASSUME FutureInv, Boot
    PROVE  FutureInv'
<1>1. /\ registry' = stored /\ stored' = stored /\ db' = db /\ used' = used
      /\ records' = [r \in Ops |-> IF r \in stored THEN Futures!Loaded(db[r]) ELSE Futures!NoRecord]
      /\ nextId' = Futures!NextAfter({db[r].fid : r \in stored})
      /\ task' = [r \in Ops |-> "none"] /\ outcome' = [r \in Ops |-> "none"]
    BY DEF Boot, Futures!Restart, Futures!durable, Requests
<1>2. records' \in [Ops -> Futures!Record]
    BY <1>1, NoRecordIsTyped, LoadedRecord DEF FutureInv
<1> DEFINE ids == {db[r].fid : r \in stored}
<1>3. Cardinality(used) \in Nat
    BY OpsAssumption, FS_Subset, FS_CardinalityType DEF FutureInv
<1>4. ids \subseteq Nat /\ \A i \in ids : i <= Cardinality(used)
    BY <1>3 DEF FutureInv, Futures!Durable
<1>5. nextId' \in 1..(Cardinality(used) + 1) /\ \A i \in ids : i < nextId'
    BY <1>1, <1>3, <1>4, Rebuilt
<1>6. \A r \in used : records'[r].fid = db'[r].fid /\ records'[r].model = db'[r].model
    BY <1>1, LoadedRecord DEF FutureInv
<1> QED BY <1>1, <1>2, <1>5, <1>6 DEF FutureInv

LEMMA MarksKeep ==
    ASSUME FutureInv, NEW S, NEW saved, Marks(S, saved)
    PROVE  FutureInv'
<1>1. /\ saved \subseteq S /\ S \subseteq used /\ stored' = stored \cup saved
      /\ records' = [r \in Ops |-> IF r \in S THEN Futures!Failed(records[r]) ELSE records[r]]
      /\ db' = [r \in Ops |-> IF r \in saved THEN Futures!Stored(Futures!Failed(records[r]))
                                               ELSE db[r]]
      /\ UNCHANGED <<registry, nextId, task, outcome, used>>
    BY DEF Marks, Futures!FailAll, Requests, FutureInv
<1>2. \A r \in Ops :
        LET rec == Futures!Failed(records[r])
        IN  /\ rec \in Futures!Record /\ rec.fid = records[r].fid /\ rec.model = records[r].model
            /\ Futures!Stored(rec) \in Futures!Durable
            /\ Futures!Stored(rec).fid = rec.fid /\ Futures!Stored(rec).model = rec.model
    BY RecordsKeepIds DEF FutureInv
<1>3. records' \in [Ops -> Futures!Record] /\ db' \in [Ops -> Futures!Durable]
    BY <1>1, <1>2 DEF FutureInv
<1>4. \A r \in Ops : records'[r].fid = records[r].fid /\ records'[r].model = records[r].model
    BY <1>1, <1>2
<1>5. ASSUME NEW r \in used PROVE db'[r].fid = db[r].fid /\ db'[r].model = db[r].model
    <2>1. r \in Ops /\ records[r].fid = db[r].fid /\ records[r].model = db[r].model
        BY DEF FutureInv
    <2> DEFINE rec == Futures!Stored(Futures!Failed(records[r]))
    <2>2. rec.fid = records[r].fid /\ rec.model = records[r].model
        BY <1>2, <2>1
    <2> HIDE DEF rec
    <2>3. db'[r] = IF r \in saved THEN rec ELSE db[r]
        BY <1>1, <2>1 DEF rec
    <2> QED BY <2>1, <2>2, <2>3
<1>6. registry' = used' /\ stored' = used'
    BY <1>1 DEF FutureInv
<1>7. \A r \in used' : /\ db'[r].fid < nextId'
                       /\ records'[r].fid = db'[r].fid /\ records'[r].model = db'[r].model
    <2>1. used' = used /\ nextId' = nextId /\ used \subseteq Ops
        BY <1>1 DEF FutureInv
    <2>2. \A r \in used : /\ db[r].fid < nextId
                         /\ records[r].fid = db[r].fid /\ records[r].model = db[r].model
        BY DEF FutureInv
    <2> QED BY <1>4, <1>5, <2>1, <2>2
<1>8. UNCHANGED <<nextId, task, outcome, used>>
    BY <1>1
<1>9. /\ used' \subseteq Ops /\ nextId' \in 1..(Cardinality(used') + 1)
      /\ DOMAIN task' = Ops /\ DOMAIN outcome' = Ops
      /\ \A r \in Ops : task'[r] # "none" => r \in used'
    BY <1>8 DEF FutureInv
<1> QED BY <1>3, <1>6, <1>7, <1>9 DEF FutureInv

LEMMA FutureNext ==
    ASSUME BaseInv, FutureInv, FutureStep
    PROVE  FutureInv'
<1>1. CASE UNCHANGED futureVars
    BY <1>1 DEF FutureInv, futureVars
<1>2. ASSUME NEW r \in Ops, Return(r) PROVE FutureInv'
    <2>1. /\ UNCHANGED <<registry, records, nextId, stored, db, used>>
          /\ task' = [task EXCEPT ![r] = "resolving"] /\ task[r] = "running"
          /\ outcome' = [outcome EXCEPT ![r] = result[r]]
        BY <1>2 DEF Return, Futures!OperationEnds, Futures!durable
    <2> QED BY <2>1 DEF FutureInv
<1> QED BY <1>1, <1>2, EnqueueKeeps, PublishKeeps, BootKeeps, MarksKeep DEF FutureStep

-----------------------------------------------------------------------------
(* The server is a training controller.                                    *)

(* The future id that a save reads is one a future can have.               *)
LEMMA CurrentIsBounded == FutureInv => CurrentFutureId \in 0..MaxFuture
<1> SUFFICES ASSUME FutureInv PROVE CurrentFutureId \in 0..MaxFuture
    OBVIOUS
<1>1. used \subseteq Ops /\ nextId \in 1..(Cardinality(used) + 1)
    BY DEF FutureInv
<1>2. /\ Cardinality(used) \in Nat /\ Cardinality(Ops) \in Nat
      /\ Cardinality(used) <= Cardinality(Ops)
    BY <1>1, OpsAssumption, FS_Subset, FS_CardinalityType
<1> QED BY <1>1, <1>2, FuturesAssumption DEF CurrentFutureId, Requests

LEMMA BeginRequests ==
    ASSUME FutureInv, NEW r \in Ops, Begin(r)
    PROVE  /\ Request(r) /\ r \in used
           /\ \E k, s, src, t, n, F : Start(r, records[r].model, k, s, src, t, n, F)
<1> DEFINE m == records[r].model
<1>1. m \in Runs /\ r \in used
    BY DEF FutureInv, Futures!Record, Models, Begin
<1>2. 0 \in 0..MaxFuture /\ CurrentFutureId \in 0..MaxFuture
    BY CurrentIsBounded, BoundsAssumption
<1>3. PICK s \in 0..MaxSeq :
        \/ ForwardBackward(r, m, s) \/ OptimStep(r, m, s)
        \/ SaveWeights(r, m, s) \/ SaveWeightsForSampler(r, m, s) \/ LoadWeights(r, m, s)
    BY DEF Begin
<1> HIDE DEF m
<1>4. ASSUME NEW k \in Kinds \ {"save", "load"}, Start(r, m, k, s, m, "training", AutoName, 0)
      PROVE  Request(r)
    BY <1>1, <1>2, <1>4 DEF Request
<1>5. ASSUME NEW t \in Types, SaveCheckpoint(r, m, s, t)
      PROVE  Request(r)
    <2>1. PICK n \in NameArgs : Start(r, m, "save", s, m, t, n, CurrentFutureId)
        BY <1>5 DEF SaveCheckpoint
    <2>2. "save" \in Kinds
        BY <1>5 DEF SaveCheckpoint
    <2> QED BY <1>1, <1>2, <2>1, <2>2 DEF Request
<1>6. ASSUME LoadWeights(r, m, s)
      PROVE  Request(r)
    BY <1>1, <1>2, <1>6 DEF LoadWeights, Request
<1>7. Request(r)
    BY <1>3, <1>4, <1>5, <1>6
    DEF ForwardBackward, OptimStep, SaveWeights, SaveWeightsForSampler
<1>8. \E k, src, t, n, F : Start(r, m, k, s, src, t, n, F)
    BY <1>3 DEF ForwardBackward, OptimStep, SaveWeights, SaveWeightsForSampler, SaveCheckpoint,
        LoadWeights
<1> QED BY <1>1, <1>7, <1>8 DEF m

LEMMA QuietFutureStep ==
    ASSUME UNCHANGED runVars, UNCHANGED <<phase, restarts>>
    PROVE  UNCHANGED trainingVars
BY DEF runVars, trainingVars, control, coroutines, objects, durable

LEMMA TrainingStep ==
    ASSUME FutureInv, [ServerNext]_serverVars
    PROVE  [Next]_trainingVars
<1>1. ASSUME NEW r \in Ops, NEW u \in Users, NEW m \in Runs, Submit(r, u, m)
      PROVE  UNCHANGED trainingVars
    BY <1>1, QuietFutureStep
    DEF Submit, Futures!Enqueue, Futures!Register, Futures!control
<1>2. ASSUME NEW r \in Ops, Return(r) \/ Publish(r)
      PROVE  UNCHANGED trainingVars
    BY <1>2, QuietFutureStep
    DEF Return, Publish, Futures!OperationEnds, Futures!MarkBegin, Futures!MarkSave,
        Futures!MarkEnd, Futures!control
<1>3. ASSUME NEW r \in Ops, Begin(r) \/ Operate(r)
      PROVE  Next
    BY <1>3, BeginRequests DEF Operate, Next
<1>4. ASSUME NEW m \in Runs, Manage(m) \/ RecoverRun(m)
      PROVE  Next
    BY <1>4 DEF Manage, RecoverRun, Pass, Restore, Recover, Next
<1>5. CASE Crash
    BY <1>5 DEF Crash, Next
<1>6. CASE Boot
    BY <1>6 DEF Boot, Next
<1>7. CASE Open
    BY <1>7 DEF Open, Next
<1>8. CASE FailPendingSamples
    BY <1>8, QuietFutureStep DEF FailPendingSamples, Futures!MarkPendingSamples
<1>9. CASE ReconcileFutures
    BY <1>9, QuietFutureStep DEF ReconcileFutures, Futures!RecoverRun, Futures!control, runVars,
        recoveryVars
<1>10. CASE CrashWhileReconciling
    <2>1. PICK x \in reconcile : /\ Futures!CrashWhileMarking(ToFail(x))
                                 /\ UNCHANGED <<runVars, recoveryVars>>
        BY <1>10 DEF CrashWhileReconciling
    <2>2. /\ phase = "recovering" /\ restarts < MaxRestarts
          /\ phase' = "down" /\ restarts' = restarts + 1
        BY <2>1 DEF Futures!CrashWhileMarking
    <2>3. ProcessEnds
        BY <2>1, <2>2 DEF ProcessEnds, runVars, coroutines, objects, durable
    <2> QED BY <2>3 DEF Next
<1>11. CASE UNCHANGED serverVars
    BY <1>11, QuietFutureStep DEF serverVars
<1> QED BY <1>1, <1>2, <1>3, <1>4, <1>5, <1>6, <1>7, <1>8, <1>9, <1>10, <1>11
    DEF ServerNext, Progress, Requests

-----------------------------------------------------------------------------
(* What the future store and the controller say of a request.              *)

(* An operation ends once, with a result.                                  *)
DoneInv == \A o \in Ops : stage[o] = "done" => result[o] \in {"ready", "failed"}

DoneStep ==
    \A o \in Ops : stage[o] = "done" => stage'[o] = "done" /\ result'[o] = result[o]

LEMMA DoneNext ==
    ASSUME BaseInv, DoneInv, [Next]_trainingVars
    PROVE  DoneInv' /\ DoneStep
<1> USE DEF BaseInv
<1>1. ASSUME NEW o \in Ops, Request(o) PROVE DoneInv' /\ DoneStep
    <2>1. PICK m, k, s, src, t, n, F : Start(o, m, k, s, src, t, n, F)
        BY <1>1 DEF Request
    <2>2. /\ stage[o] = "new"
          /\ \/ stage' = [stage EXCEPT ![o] = "waiting"] /\ result' = result
             \/ /\ stage' = [stage EXCEPT ![o] = "done"]
                /\ result' = [result EXCEPT ![o] = "failed"]
        BY <2>1, Zenon DEF Start
    <2> QED BY <2>2 DEF DoneInv, DoneStep, LockInv, Ended
<1>2. ASSUME NEW o \in Ops, Proceed(o) PROVE DoneInv' /\ DoneStep
    <2>1. /\ \A p \in Ops \ {o} : stage'[p] = stage[p] /\ result'[p] = result[p]
          /\ stage[o] \in Active \cup {"waiting"}
        BY <1>2, ProceedOnlyOf DEF OnlyOf
    <2>2. stage'[o] = "done" => result'[o] \in {"ready", "failed"}
        <3>1. ASSUME NEW res \in {"ready", "failed"}, Finish(o, res)
              PROVE  result'[o] \in {"ready", "failed"}
            BY <3>1 DEF Finish, Ended
        <3>2. ASSUME NEW s, GoTo(o, s) PROVE stage'[o] = s
            BY <3>2 DEF GoTo, LockInv
        <3>3. \/ \E res \in {"ready", "failed"} : Finish(o, res)
              \/ \E s \in {"executing", "storing", "writing", "counting", "finishing"} : GoTo(o, s)
            BY <1>2 DEF Proceed, Conflict, Enter, EnterSave, Compute, Load, ComputeFails, SaveState,
                SaveStateFails, SerialiseCheckpoint, StoreCheckpoint, SerialiseCount, StoreCount
        <3> QED BY <3>1, <3>2, <3>3
    <2> QED BY <2>1, <2>2 DEF DoneInv, DoneStep, Active
<1>3. ASSUME UNCHANGED coroutines PROVE DoneInv' /\ DoneStep
    BY <1>3 DEF coroutines, DoneInv, DoneStep
<1>4. ASSUME NEW m \in Runs, Unlocked(m) \/ Recover(m) PROVE DoneInv' /\ DoneStep
    BY <1>3, <1>4, OutsideKeeps
<1>5. CASE FinishRecovery \/ ProcessEnds \/ UNCHANGED trainingVars
    BY <1>3, <1>5, QuietKeeps
<1>6. CASE Restart
    <2>1. /\ result' = result
          /\ stage' = [o \in Ops |-> IF stage[o] \in {"new", "done"} THEN stage[o] ELSE "lost"]
        BY <1>6 DEF Restart
    <2> QED BY <2>1 DEF DoneInv, DoneStep
<1> QED BY <1>1, <1>2, <1>4, <1>5, <1>6 DEF Next

(* An operation that was requested is one of a future, on the run of that  *)
(* future; the outcome that the future takes, and shows once it is ready,  *)
(* is the result of the operation.                                         *)
LinkInv ==
    \A r \in Ops :
        /\ stage[r] # "new" => r \in used /\ db[r].model = Mine(r)
        /\ outcome[r] # "none" => stage[r] = "done" /\ outcome[r] = result[r]
        /\ r \in used /\ (records[r].status = "ready" \/ db[r].status = "ready") =>
               result[r] = "ready"

(* A step keeps the futures, with their ids and runs; a future turns ready *)
(* from the outcome it took, and an outcome is taken from a result.        *)
ReadyIs(r) == records[r].status = "ready" \/ db[r].status = "ready"

FutureKeeps ==
    /\ used \subseteq used'
    /\ \A r \in used : db'[r].fid = db[r].fid /\ db'[r].model = db[r].model
    /\ \A r \in used' : ReadyIs(r)' => outcome[r] = "ready" \/ (r \in used /\ ReadyIs(r))
    /\ \A r \in Ops : outcome'[r] \notin {"none", outcome[r]} =>
                        stage[r] = "done" /\ outcome'[r] = result[r]

LEMMA StatusAfter ==
    ASSUME NEW rec \in Futures!Record, NEW res
    PROVE  /\ Futures!Failed(rec).status = "failed"
           /\ Futures!Published(rec).status = rec.status
           /\ Futures!Stored(rec).status = rec.status
           /\ Futures!Resolved(rec, res).status = "ready" => res = "ready"
BY DEF Futures!Failed, Futures!Published, Futures!Stored, Futures!Resolved, Futures!Record

LEMMA NoRecordIsPending ==
    Futures!NoRecord.status = "pending" /\ Futures!Stored(Futures!NoRecord).status = "pending"
BY DEF Futures!NoRecord, Futures!Blank, Futures!Stored

LEMMA EnqueueEffects ==
    ASSUME BaseInv, FutureInv, NEW r \in Ops, NEW u \in Users, NEW m \in created,
           Futures!Enqueue(r, u, m, "train")
    PROVE  FutureKeeps
<1> DEFINE rec == Queued(m, u, nextId)
<1>1. /\ r \notin used /\ used' = used \cup {r} /\ outcome' = outcome
      /\ records' = [records EXCEPT ![r] = rec] /\ db' = [db EXCEPT ![r] = Futures!Stored(rec)]
    BY DEF Futures!Enqueue, Futures!Register, Futures!SaveFuture, SaveOutcomes, Queued
<1>2. m \in Runs /\ nextId \in Nat
    BY DEF BaseInv, CountInv, FutureInv
<1>3. rec.status = "pending" /\ Futures!Stored(rec).status = "pending"
    BY <1>2, QueuedIsTyped
<1> HIDE DEF rec
<1>4. /\ \A q \in used : db'[q] = db[q] /\ records'[q] = records[q]
      /\ records'[r] = rec /\ db'[r] = Futures!Stored(rec)
    BY <1>1 DEF FutureInv
<1> QED BY <1>1, <1>3, <1>4 DEF FutureKeeps, ReadyIs

LEMMA PublishEffects ==
    ASSUME FutureInv, NEW r \in Ops, Publish(r)
    PROVE  FutureKeeps
<1>1. records[r] \in Futures!Record /\ r \in used
    BY DEF FutureInv, Publish, Futures!MarkBegin, Futures!MarkSave, Futures!MarkEnd
<1>2. CASE Futures!MarkSave(r)
    <2> DEFINE d == Futures!Stored(records[r])
    <2>1. UNCHANGED <<records, outcome, used>> /\ db' = [db EXCEPT ![r] = d]
        BY <1>2 DEF Futures!MarkSave, Futures!SaveFuture, SaveOutcomes
    <2>2. d.fid = records[r].fid /\ d.model = records[r].model /\ d.status = records[r].status
        BY <1>1, RecordsKeepIds, StatusAfter
    <2> HIDE DEF d
    <2>3. db'[r] = d /\ \A q \in Ops \ {r} : db'[q] = db[q]
        BY <2>1 DEF FutureInv
    <2>4. \A q \in used : q \in Ops /\ records[q].fid = db[q].fid /\ records[q].model = db[q].model
        BY DEF FutureInv
    <2> QED BY <1>1, <2>1, <2>2, <2>3, <2>4 DEF FutureKeeps, ReadyIs
<1>3. ASSUME UNCHANGED <<db, outcome, used>>,
             NEW rec, rec.status = "ready" => outcome[r] = "ready" \/ records[r].status = "ready",
             records' = [records EXCEPT ![r] = rec]
      PROVE  FutureKeeps
    <2>1. records'[r] = rec /\ \A q \in Ops \ {r} : records'[q] = records[q]
        BY <1>3 DEF FutureInv
    <2>2. used \subseteq Ops
        BY DEF FutureInv
    <2> QED BY <1>1, <1>3, <2>1, <2>2 DEF FutureKeeps, ReadyIs
<1>4. CASE Futures!MarkBegin(r)
    <2>1. /\ UNCHANGED <<db, outcome, used>>
          /\ \/ records' = records
             \/ records' = [records EXCEPT ![r] = Futures!Resolved(records[r], outcome[r])]
        BY <1>4 DEF Futures!MarkBegin, Futures!durable
    <2>2. records = [records EXCEPT ![r] = records[r]]
        BY DEF FutureInv
    <2>3. CASE records' = records
        BY <1>3, <2>1, <2>2, <2>3
    <2>4. CASE records' = [records EXCEPT ![r] = Futures!Resolved(records[r], outcome[r])]
        BY <1>1, <1>3, <2>1, <2>4, StatusAfter
    <2> QED BY <2>1, <2>3, <2>4
<1>5. CASE Futures!MarkEnd(r)
    <2>1. /\ UNCHANGED <<db, outcome, used>>
          /\ records' = [records EXCEPT ![r] = Futures!Published(records[r])]
        BY <1>5 DEF Futures!MarkEnd, Futures!durable
    <2> QED BY <1>1, <1>3, <2>1, StatusAfter
<1> QED BY <1>2, <1>4, <1>5 DEF Publish

LEMMA MarksEffects ==
    ASSUME FutureInv, NEW S, NEW saved, Marks(S, saved)
    PROVE  FutureKeeps
<1> DEFINE F(r) == Futures!Failed(records[r])
<1>1. /\ saved \subseteq S /\ S \subseteq used /\ used' = used /\ outcome' = outcome
      /\ records' = [r \in Ops |-> IF r \in S THEN F(r) ELSE records[r]]
      /\ db' = [r \in Ops |-> IF r \in saved THEN Futures!Stored(F(r)) ELSE db[r]]
    BY DEF Marks, Futures!FailAll, Requests, FutureInv
<1>2. \A r \in Ops : /\ F(r).status = "failed" /\ Futures!Stored(F(r)).status = "failed"
                     /\ Futures!Stored(F(r)).fid = records[r].fid
                     /\ Futures!Stored(F(r)).model = records[r].model
    <2> SUFFICES ASSUME NEW r \in Ops
                 PROVE  /\ F(r).status = "failed" /\ Futures!Stored(F(r)).status = "failed"
                        /\ Futures!Stored(F(r)).fid = records[r].fid
                        /\ Futures!Stored(F(r)).model = records[r].model
        OBVIOUS
    <2>1. records[r] \in Futures!Record
        BY DEF FutureInv
    <2>2. F(r) \in Futures!Record /\ F(r).fid = records[r].fid /\ F(r).model = records[r].model
        BY <2>1, RecordsKeepIds
    <2> HIDE DEF F
    <2>3. /\ Futures!Stored(F(r)).status = F(r).status
          /\ Futures!Stored(F(r)).fid = F(r).fid /\ Futures!Stored(F(r)).model = F(r).model
        BY <2>2, StatusAfter, RecordsKeepIds
    <2>4. F(r).status = "failed"
        BY <2>1, StatusAfter DEF F
    <2> QED BY <2>2, <2>3, <2>4
<1> HIDE DEF F
<1>3. \A r \in used : r \in Ops /\ records[r].fid = db[r].fid /\ records[r].model = db[r].model
    BY DEF FutureInv
<1>4. \A r \in used :
        /\ records'[r] = records[r] \/ records'[r] = F(r)
        /\ db'[r] = db[r] \/ db'[r] = Futures!Stored(F(r))
    BY <1>1, <1>3
<1>5. \A r \in used : db'[r].fid = db[r].fid /\ db'[r].model = db[r].model
    BY <1>2, <1>3, <1>4
<1>6. \A r \in used : ReadyIs(r)' => ReadyIs(r)
    BY <1>2, <1>3, <1>4 DEF ReadyIs
<1>7. used' = used /\ outcome' = outcome
    BY <1>1
<1> QED BY <1>5, <1>6, <1>7 DEF FutureKeeps

LEMMA FutureEffects ==
    ASSUME BaseInv, FutureInv, FutureStep
    PROVE  FutureKeeps
<1>1. CASE UNCHANGED futureVars
    BY <1>1 DEF FutureKeeps, ReadyIs, futureVars
<1>2. ASSUME NEW r \in Ops, Return(r) PROVE FutureKeeps
    <2>1. /\ UNCHANGED <<records, db, used>> /\ stage[r] = "done"
          /\ outcome' = [outcome EXCEPT ![r] = result[r]]
        BY <1>2 DEF Return, Futures!OperationEnds, Futures!durable
    <2> QED BY <2>1 DEF FutureKeeps, ReadyIs, FutureInv
<1>3. CASE Boot
    <2>1. /\ db' = db /\ used' = used /\ outcome' = [r \in Ops |-> "none"]
          /\ records' = [r \in Ops |-> IF r \in stored THEN Futures!Loaded(db[r])
                                                       ELSE Futures!NoRecord]
        BY <1>3 DEF Boot, Futures!Restart, Futures!durable, Requests
    <2>2. \A r \in used : r \in Ops /\ r \in stored /\ db[r] \in Futures!Durable
        BY DEF FutureInv
    <2>3. \A r \in used : records'[r].status = db[r].status
        BY <2>1, <2>2, LoadedRecord
    <2> QED BY <2>1, <2>3 DEF FutureKeeps, ReadyIs
<1> QED BY <1>1, <1>2, <1>3, EnqueueEffects, PublishEffects, MarksEffects DEF FutureStep

(* An operation is requested by the task of its future, on its run.        *)
LEMMA RequestedByTask ==
    ASSUME BaseInv, FutureInv, [ServerNext]_serverVars, NEW r \in Ops,
           stage[r] = "new", stage'[r] # "new"
    PROVE  r \in used /\ op'[r].run = db[r].model
<1> USE DEF BaseInv
<1>1. ASSUME NEW q \in Ops, Begin(q) PROVE r \in used /\ op'[r].run = db[r].model
    <2>1. PICK k, s, src, t, n, F : Start(q, records[q].model, k, s, src, t, n, F)
        BY <1>1, BeginRequests
    <2>2. q \in used
        BY <1>1, BeginRequests
    <2>3. /\ op' = [op EXCEPT ![q] = [run |-> records[q].model, source |-> src, kind |-> k, seq |-> s,
                                      type |-> t, name |-> n, future |-> F]]
          /\ \/ stage' = [stage EXCEPT ![q] = "waiting"]
             \/ stage' = [stage EXCEPT ![q] = "done"]
        BY <2>1, Zenon DEF Start
    <2>4. r = q
        BY <2>3 DEF LockInv
    <2>5. op'[q].run = records[q].model
        BY <2>3 DEF LockInv
    <2> QED BY <2>2, <2>4, <2>5 DEF FutureInv
<1>2. ASSUME NEW q \in Ops, Operate(q) PROVE FALSE
    <2>1. \A p \in Ops \ {q} : stage'[p] = stage[p]
        BY <1>2, ProceedOnlyOf DEF Operate, OnlyOf
    <2>2. stage[q] # "new"
        BY <1>2, ProceedOnlyOf DEF Operate, OnlyOf, Active
    <2> QED BY <2>1, <2>2
<1>3. ASSUME UNCHANGED coroutines PROVE FALSE
    BY <1>3 DEF coroutines
<1>4. ASSUME NEW m \in Runs, Manage(m) \/ RecoverRun(m) PROVE FALSE
    BY <1>3, <1>4, OutsideKeeps DEF Manage, RecoverRun, Pass, Restore, Recover
<1>5. CASE Crash \/ Open
    BY <1>3, <1>5, QuietKeeps DEF Crash, Open
<1>6. CASE Boot
    <2>1. stage' = [o \in Ops |-> IF stage[o] \in {"new", "done"} THEN stage[o] ELSE "lost"]
        BY <1>6 DEF Boot, Restart
    <2> QED BY <2>1
<1>7. ASSUME UNCHANGED runVars PROVE FALSE
    BY <1>3, <1>7 DEF runVars, coroutines
<1>8. CASE FailPendingSamples \/ ReconcileFutures \/ CrashWhileReconciling \/ UNCHANGED serverVars
    BY <1>7, <1>8 DEF FailPendingSamples, ReconcileFutures, CrashWhileReconciling, serverVars
<1>9. ASSUME NEW q \in Ops, NEW u \in Users, NEW m \in Runs, Submit(q, u, m) PROVE FALSE
    BY <1>7, <1>9 DEF Submit
<1>10. ASSUME NEW q \in Ops, Return(q) \/ Publish(q) PROVE FALSE
    BY <1>7, <1>10 DEF Return, Publish
<1> QED BY <1>1, <1>2, <1>4, <1>5, <1>6, <1>8, <1>9, <1>10 DEF ServerNext, Progress, Requests

LEMMA LinkNext ==
    ASSUME BaseInv, DoneInv, FutureInv, LinkInv, [ServerNext]_serverVars
    PROVE  LinkInv'
<1>1. [Next]_trainingVars /\ FutureKeeps
    BY TrainingStep, EveryFutureStep, FutureEffects
<1>2. BaseInv' /\ OpsStep /\ DoneStep
    BY <1>1, BaseNext, DoneNext
<1> SUFFICES ASSUME NEW r \in Ops
             PROVE  /\ stage'[r] # "new" => r \in used' /\ db'[r].model = Mine(r)'
                    /\ outcome'[r] # "none" => stage'[r] = "done" /\ outcome'[r] = result'[r]
                    /\ r \in used' /\ ReadyIs(r)' => result'[r] = "ready"
    BY DEF LinkInv, ReadyIs
<1>3. result[r] = "ready" => result'[r] = "ready"
    BY <1>2 DEF BaseInv, Ended, DoneStep
<1>4. stage'[r] # "new" => r \in used' /\ db'[r].model = Mine(r)'
    <2>1. CASE stage[r] = "new" /\ stage'[r] # "new"
        <3>1. r \in used /\ op'[r].run = db[r].model
            BY <2>1, RequestedByTask
        <3> QED BY <1>1, <3>1 DEF FutureKeeps, Mine
    <2>2. CASE stage[r] # "new"
        <3>1. r \in used /\ db[r].model = op[r].run /\ op'[r] = op[r]
            BY <1>2, <2>2 DEF LinkInv, OpsStep, Mine
        <3> QED BY <1>1, <3>1 DEF FutureKeeps, Mine
    <2> QED BY <2>1, <2>2
<1>5. outcome'[r] # "none" => stage'[r] = "done" /\ outcome'[r] = result'[r]
    BY <1>1, <1>2 DEF FutureKeeps, DoneStep, LinkInv
<1>6. r \in used' /\ ReadyIs(r)' => result'[r] = "ready"
    BY <1>1, <1>3 DEF FutureKeeps, LinkInv, ReadyIs
<1> QED BY <1>4, <1>5, <1>6

ServerInv == BaseInv /\ DoneInv /\ FutureInv /\ LinkInv

LEMMA ServerInvInit == ServerInit => ServerInv
<1> SUFFICES ASSUME ServerInit PROVE ServerInv
    OBVIOUS
<1>1. BaseInv /\ FutureInv
    BY BaseInit, FutureInit DEF ServerInit
<1>2. DoneInv
    BY DEF ServerInit, Init, DoneInv
<1>3. LinkInv
    BY DEF ServerInit, Init, Futures!Init, LinkInv, Requests
<1> QED BY <1>1, <1>2, <1>3 DEF ServerInv

LEMMA ServerInvNext ==
    ServerInv /\ [ServerNext]_serverVars => ServerInv' /\ [Next]_trainingVars
BY TrainingStep, EveryFutureStep, BaseNext, DoneNext, FutureNext, LinkNext DEF ServerInv

(* The server implements the training controller: every call that its      *)
(* tasks, its recovery and its process make is one that the controller     *)
(* allows, so that what is proved of the controller holds of the server.   *)
THEOREM ServerImplementsController == ServerSpec => Spec
<1>1. ServerInit => Init
    BY DEF ServerInit
<1> QED BY <1>1, ServerInvInit, ServerInvNext, PTL DEF ServerSpec, Spec

(* A success in the store is one of an operation that succeeded, so that   *)
(* its number is used up in the stored record of its run, when the store   *)
(* takes its writes and no run is unloaded.                                *)
THEOREM SuccessesAreCounted ==
    ASSUME Reliable
    PROVE  ServerSpec => []SuccessIsCounted
<1>1. ServerInit => ServerInv /\ SettledInv
    BY ServerInvInit, SettledInit DEF ServerInit
<1>2. ServerInv /\ SettledInv /\ [ServerNext]_serverVars => ServerInv' /\ SettledInv'
    BY ServerInvNext, SettledNext DEF ServerInv
<1>3. ServerInv /\ SettledInv => SuccessIsCounted
    <2> SUFFICES ASSUME ServerInv, SettledInv, NEW r \in stored,
                        db[r].status = "ready", op[r].seq # NoSeq
                 PROVE  op[r].seq < dbRun[db[r].model].nextSeq
        BY DEF SuccessIsCounted
    <2>1. r \in used /\ r \in Ops /\ result[r] = "ready"
        BY DEF ServerInv, FutureInv, LinkInv
    <2>2. stage[r] = "done" /\ db[r].model = Mine(r)
        BY <2>1 DEF ServerInv, BaseInv, Ended, LinkInv
    <2>3. Counted(r)
        BY <2>1 DEF SettledInv, EffectsInv, Known
    <2> QED BY <2>1, <2>2, <2>3 DEF Counted
<1> QED BY <1>1, <1>2, <1>3, PTL DEF ServerSpec

-----------------------------------------------------------------------------
(* The records of checkpoints, from the save that makes one on: in memory, *)
(* in the hands of a worker thread, in the store.  A step of the           *)
(* controller moves them about, and only a save makes one.                 *)

Made(m, c) ==
    \/ c \in ckpts[m] \/ c \in dbCkpts[m]
    \/ \E o \in Ops : /\ Mine(o) = m
                      /\ \/ Naming(o) /\ c = making[o]
                         \/ stage[o] = "writing" /\ c \in snap[o].ckpts

Chosen(o, m, c) == EnterSave(o) /\ Mine(o) = m /\ c = NewCheckpoint(o)

LEMMA MadeByProceed ==
    ASSUME BaseInv, NEW o \in Ops, Proceed(o), NEW m \in Runs, NEW c, Made(m, c)'
    PROVE  Made(m, c) \/ Chosen(o, m, c)
<1>1. OnlyOf(o) /\ op' = op
    BY ProceedOnlyOf DEF BaseInv, OnlyOf
<1>2. ASSUME NEW p \in Ops \ {o}, Mine(p)' = m,
             \/ Naming(p)' /\ c = making'[p]
             \/ stage'[p] = "writing" /\ c \in snap'[p].ckpts
      PROVE  Made(m, c)
    <2>1. stage'[p] = stage[p] /\ making'[p] = making[p] /\ snap'[p] = snap[p] /\ op'[p] = op[p]
        BY <1>1 DEF OnlyOf
    <2> QED BY <1>2, <2>1 DEF Made, Naming, Mine
<1>3. CASE m # Mine(o)
    <2>1. ckpts'[m] = ckpts[m] /\ dbCkpts'[m] = dbCkpts[m]
        BY <1>1, <1>3 DEF OnlyOf, OthersKept
    <2>2. Mine(o)' # m
        BY <1>1, <1>3 DEF Mine
    <2> QED BY <1>2, <2>1, <2>2 DEF Made
<1>4. CASE m = Mine(o)
    <2>0. Mine(o)' = m /\ stage \in [Ops -> Stages] /\ DOMAIN making = Ops /\ DOMAIN snap = Ops
          /\ m \in Runs /\ ckpts \in [Runs -> SUBSET Checkpoint]
          /\ dbCkpts \in [Runs -> SUBSET Checkpoint]
        BY <1>1, <1>4 DEF Mine, BaseInv, LockInv, CountInv, TypedInv
    <2>1. CASE EnterSave(o)
        <3>1. ckpts' = ckpts /\ dbCkpts' = dbCkpts
            BY <2>1 DEF EnterSave, durable
        <3>2. stage'[o] = "executing" /\ making'[o] = NewCheckpoint(o)
            BY <2>0, <2>1 DEF EnterSave, GoTo
        <3>3. Naming(o)' => Chosen(o, m, making'[o])
            BY <1>4, <2>1, <3>2 DEF Chosen
        <3> QED BY <1>2, <3>1, <3>2, <3>3 DEF Made
    <2>2. CASE SaveState(o)
        <3>1. /\ dbCkpts' = dbCkpts /\ making' = making /\ Naming(o) /\ stage'[o] = "storing"
              /\ ckpts'[m] \subseteq ckpts[m] \cup {making[o]}
            BY <1>4, <2>0, <2>2 DEF SaveState, GoTo, Naming, durable
        <3> QED BY <1>2, <1>4, <3>1 DEF Made
    <2>3. CASE SerialiseCheckpoint(o)
        <3>1. /\ ckpts' = ckpts /\ dbCkpts' = dbCkpts /\ making' = making /\ Naming(o)
              /\ snap'[o].ckpts \subseteq ckpts[m]
            BY <1>4, <2>0, <2>3, RecordTypes DEF SerialiseCheckpoint, Naming, objects, durable
        <3> QED BY <1>2, <1>4, <3>1 DEF Made
    <2>4. CASE StoreCheckpoint(o)
        <3>1. /\ ckpts' = ckpts /\ stage[o] = "writing" /\ stage'[o] = "counting"
              /\ dbCkpts'[m] \subseteq dbCkpts[m] \cup snap[o].ckpts
            BY <1>4, <2>0, <2>4 DEF StoreCheckpoint, WriteBoth, StoreCheckpoints, GoTo, durable
        <3> QED BY <1>2, <1>4, <3>1 DEF Made, Naming
    <2>5. CASE ~EnterSave(o) /\ ~SaveState(o) /\ ~SerialiseCheckpoint(o) /\ ~StoreCheckpoint(o)
        <3>1. ckpts' = ckpts /\ dbCkpts' = dbCkpts
            BY <2>5 DEF Proceed, Conflict, Enter, Compute, Load, ComputeFails, SaveStateFails,
                SerialiseCount, StoreCount, objects, durable
        <3>2. ~Naming(o)' /\ stage'[o] # "writing"
            BY <1>1, <2>0, <2>5 DEF Proceed, Conflict, Enter, Compute, Load, ComputeFails,
                SaveStateFails, SerialiseCount, StoreCount, Finish, GoTo, Naming
        <3> QED BY <1>2, <3>1, <3>2 DEF Made
    <2> QED BY <2>1, <2>2, <2>3, <2>4, <2>5
<1> QED BY <1>3, <1>4

LEMMA MadeStep ==
    ASSUME BaseInv, [Next]_trainingVars, NEW m \in Runs, NEW c, Made(m, c)'
    PROVE  Made(m, c) \/ \E o \in Ops : Chosen(o, m, c)
<1>1. ASSUME NEW o \in Ops, Request(o) PROVE Made(m, c)
    <2>1. PICK r, k, s, src, t, n, F : Start(o, r, k, s, src, t, n, F)
        BY <1>1 DEF Request
    <2>2. /\ UNCHANGED <<dbCkpts, ckpts, making, snap>> /\ stage'[o] \in {"waiting", "done"}
          /\ \A p \in Ops \ {o} : stage'[p] = stage[p] /\ op'[p] = op[p]
        BY <2>1 DEF Start, objects, BaseInv, LockInv
    <2> QED BY <2>2 DEF Made, Naming, Mine
<1>2. ASSUME NEW r \in Runs, Unlocked(r) \/ Recover(r) PROVE Made(m, c)
    <2>1. UNCHANGED <<op, stage, making, snap>>
        BY <1>2, OutsideKeeps DEF coroutines
    <2>2. ckpts'[m] \subseteq ckpts[m]
        <3>1. CASE \E n \in Names : DeleteCheckpoint(r, n)
            BY <3>1 DEF DeleteCheckpoint, BaseInv, TypedInv
        <3>2. CASE ckpts' = ckpts
            BY <3>2
        <3> QED BY <1>2, <3>1, <3>2 DEF Unlocked, CreateModel, CrashWhileDeleting, SetVisibility,
                RemoveAdapter, ForgetRun, Recover, SkipRun, RecoverFresh, RecoverFromCheckpoint,
                RecoverCorrupted, objects
    <2>3. dbCkpts'[m] \subseteq dbCkpts[m] \cup ckpts[m]
        <3>1. CASE \E x \in ckpts[r] : SetVisibility(r, x)
            BY <3>1 DEF SetVisibility, StoreCheckpoints, BaseInv, TypedInv
        <3>2. CASE ForgetRun(r) \/ \E n \in Names : DeleteCheckpoint(r, n)
            BY <3>2 DEF ForgetRun, DeleteCheckpoint, BaseInv, TypedInv
        <3>3. CASE dbCkpts' = dbCkpts
            BY <3>3
        <3> QED BY <1>2, <3>1, <3>2, <3>3 DEF Unlocked, CreateModel, CrashWhileDeleting,
                RemoveAdapter, Recover, SkipRun, RecoverFresh, RecoverFromCheckpoint,
                RecoverCorrupted, durable
    <2> QED BY <2>1, <2>2, <2>3 DEF Made, Naming, Mine
<1>3. CASE Restart
    <2>1. /\ dbCkpts' = dbCkpts /\ ckpts'[m] \subseteq dbCkpts[m]
          /\ \A p \in Ops : stage'[p] \in {"new", "done", "lost"}
        BY <1>3 DEF Restart, durable
    <2> QED BY <2>1 DEF Made, Naming
<1>4. CASE FinishRecovery \/ ProcessEnds \/ UNCHANGED trainingVars
    BY <1>4, QuietKeeps DEF coroutines, objects, durable, Made, Naming, Mine
<1> QED BY <1>1, <1>2, <1>3, <1>4, MadeByProceed DEF Next

(* The ways in which an operation gets into an adapter: the backend takes  *)
(* it in, or weights that have it are loaded.                              *)
Taken(p) == p \in Ops /\ stage[p] = "executing" /\ Proceed(p)
Loaded(m, p) == \E o \in Ops : Load(o) /\ Mine(o) = m /\ p \in Source(o).weights
Recovered(m, p) ==
    \E c \in Latest(ckpts[m]) : phase = "recovering" /\ p \in dirs[m][c.name].weights

LEMMA AppliedByProceed ==
    ASSUME BaseInv, NEW o \in Ops, Proceed(o), NEW m \in Runs, NEW p, p \in Applied(m)'
    PROVE  p \in Applied(m) \/ (Taken(p) /\ Mine(p) = m) \/ Loaded(m, p)
<1>1. OnlyOf(o) /\ op' = op
    BY ProceedOnlyOf DEF BaseInv, OnlyOf
<1>2. adapters \in [Runs -> Adapter] /\ adapters[m] \in Adapter
    BY DEF BaseInv, TypedInv
<1>3. CASE m # Mine(o)
    BY <1>1, <1>3 DEF OnlyOf, OthersKept, Applied
<1>4. CASE m = Mine(o) /\ p \notin Applied(m)
    <2>0. p \in adapters'[m].weights \cup adapters'[m].grads
        BY DEF Applied
    <2>1. CASE Compute(o)
        <3>1. stage[o] = "executing" /\ op[o].kind \in {"forward", "forward_backward", "optim_step"}
            BY <2>1 DEF Compute, Computing, BaseInv, Ended, Arguments
        <3>2. adapters'[m] = Effect(o, adapters[m])
            BY <1>2, <1>4, <2>1 DEF Compute
        <3>3. Effect(o, adapters[m]).weights \cup Effect(o, adapters[m]).grads
                \subseteq Applied(m) \cup {o}
            BY <1>2, <3>1 DEF Effect, Applied, Adapter
        <3>4. p = o
            BY <1>4, <2>0, <3>2, <3>3
        <3> QED BY <1>4, <3>1, <3>4 DEF Taken
    <2>2. CASE Load(o)
        <3>1. \E g \in {{}, adapters[m].grads} :
                adapters'[m] = [here |-> TRUE, weights |-> Source(o).weights, grads |-> g]
            BY <1>2, <1>4, <2>2 DEF Load
        <3>2. p \in Source(o).weights
            BY <1>4, <2>0, <3>1 DEF Applied
        <3> QED BY <1>4, <2>2, <3>2 DEF Loaded
    <2>3. CASE ComputeFails(o)
        <3>1. /\ stage[o] = "executing"
              /\ \/ adapters' = adapters
                 \/ adapters' = [adapters EXCEPT ![m].grads = @ \cup {o}]
            BY <1>4, <2>3 DEF ComputeFails, Computing
        <3>2. p = o
            BY <1>2, <1>4, <2>0, <3>1 DEF Applied, Adapter
        <3> QED BY <1>4, <3>1, <3>2 DEF Taken
    <2>4. CASE ~Compute(o) /\ ~Load(o) /\ ~ComputeFails(o)
        <3>1. adapters' = adapters
            BY <2>4 DEF Proceed, Conflict, Enter, EnterSave, SaveState, SaveStateFails,
                SerialiseCheckpoint, StoreCheckpoint, SerialiseCount, StoreCount
        <3> QED BY <1>4, <2>0, <3>1 DEF Applied
    <2> QED BY <2>1, <2>2, <2>3, <2>4
<1> QED BY <1>3, <1>4

LEMMA AppliedStep ==
    ASSUME BaseInv, [Next]_trainingVars, NEW m \in Runs, NEW p, p \in Applied(m)'
    PROVE  \/ p \in Applied(m) \/ (Taken(p) /\ Mine(p) = m)
           \/ Loaded(m, p) \/ Recovered(m, p)
<1>1. CASE adapters' = adapters
    BY <1>1 DEF Applied
<1>2. ASSUME NEW o \in Ops, Request(o) PROVE adapters' = adapters
    BY <1>2 DEF Request, Start
<1>3. ASSUME NEW r \in Runs, Unlocked(r) \/ Recover(r)
      PROVE  p \in Applied(m) \/ Recovered(m, p)
    <2>1. CASE RecoverFromCheckpoint(r)
        <3>1. PICK c \in Latest(ckpts[r]) :
                adapters' = [adapters EXCEPT ![r] =
                               [FreshAdapter EXCEPT !.weights = dirs[r][c.name].weights]]
            BY <2>1 DEF RecoverFromCheckpoint
        <3>2. phase = "recovering"
            BY <2>1 DEF RecoverFromCheckpoint, CanRecover
        <3>3. CASE m = r
            <4>1. p \in dirs[r][c.name].weights
                BY <3>1, <3>3 DEF Applied, FreshAdapter, BaseInv, TypedInv
            <4> QED BY <3>2, <3>3, <4>1 DEF Recovered
        <3>4. CASE m # r
            BY <3>1, <3>4 DEF Applied, BaseInv, TypedInv
        <3> QED BY <3>3, <3>4
    <2>2. CASE ~RecoverFromCheckpoint(r)
        <3>1. \/ adapters' = adapters
              \/ \E a \in {FreshAdapter, NoAdapter} : adapters' = [adapters EXCEPT ![r] = a]
            BY <1>3, <2>2 DEF Unlocked, CreateModel, DeleteCheckpoint, CrashWhileDeleting,
                SetVisibility, RemoveAdapter, ForgetRun, Recover, SkipRun, RecoverFresh,
                RecoverCorrupted
        <3>2. FreshAdapter.weights = {} /\ FreshAdapter.grads = {}
              /\ NoAdapter.weights = {} /\ NoAdapter.grads = {}
            BY DEF FreshAdapter, NoAdapter
        <3>3. ASSUME NEW a \in {FreshAdapter, NoAdapter},
                     adapters' = [adapters EXCEPT ![r] = a]
              PROVE  adapters'[m] = adapters[m] \/ adapters'[m] = a
            BY <3>3 DEF BaseInv, TypedInv
        <3>4. p \in adapters'[m].weights \cup adapters'[m].grads
            BY DEF Applied
        <3> QED BY <3>1, <3>2, <3>3, <3>4 DEF Applied
    <2> QED BY <2>1, <2>2
<1>4. CASE Restart
    <2>1. adapters'[m] = NoAdapter
        BY <1>4 DEF Restart
    <2> QED BY <2>1 DEF Applied, NoAdapter
<1>5. CASE FinishRecovery \/ ProcessEnds \/ UNCHANGED trainingVars
    BY <1>1, <1>5, QuietKeeps
<1> QED BY <1>1, <1>2, <1>3, <1>4, <1>5, AppliedByProceed DEF Next

(* Everywhere that the weights of a run are.                               *)
Held(p) ==
    \/ \E m \in Runs : p \in Applied(m)
    \/ \E m \in Runs, n \in Names : p \in dirs[m][n].weights
    \/ \E o \in Ops : p \in making[o].weights

LEMMA FilesStep ==
    ASSUME BaseInv, [Next]_trainingVars, NEW p,
           \/ \E m \in Runs, n \in Names : p \in dirs'[m][n].weights
           \/ \E o \in Ops : p \in making'[o].weights
    PROVE  Held(p)
<1>0. /\ dirs \in [Runs -> [Names -> Directory]] /\ DOMAIN making = Ops
      /\ NoDirectory.weights = {} /\ NoCheckpoint.weights = {}
    BY DEF BaseInv, TypedInv, NoDirectory, NoCheckpoint
<1>1. ASSUME \A m \in Runs, n \in Names : dirs'[m][n].weights \subseteq dirs[m][n].weights,
             making' = making \/ \A o \in Ops : making'[o] = NoCheckpoint
      PROVE  Held(p)
    BY <1>0, <1>1 DEF Held
<1>2. ASSUME NEW o \in Ops, Request(o) PROVE Held(p)
    <2>1. UNCHANGED <<dirs, making>>
        BY <1>2 DEF Request, Start
    <2> QED BY <1>1, <2>1
<1>3. ASSUME NEW o \in Ops, Proceed(o) PROVE Held(p)
    <2>0. Mine(o) \in Runs
        BY DEF BaseInv, LockInv
    <2>1. \/ UNCHANGED <<dirs, making>>
          \/ making' = [making EXCEPT ![o] = NoCheckpoint] /\ dirs' = dirs
          \/ /\ making' = [making EXCEPT ![o] = NewCheckpoint(o)]
             /\ dirs' = [dirs EXCEPT ![Mine(o)][SaveName(o)] = [state |-> "partial", weights |-> {}]]
          \/ /\ making' = making
             /\ \E s : dirs' = [dirs EXCEPT ![Mine(o)][making[o].name] =
                                   [state |-> s, weights |-> making[o].weights]]
        BY <1>3 DEF Proceed, Conflict, Enter, EnterSave, Compute, Load, ComputeFails, SaveState,
            SaveStateFails, SerialiseCheckpoint, StoreCheckpoint, SerialiseCount, StoreCount, Finish
    <2>2. ASSUME NEW x, NEW d, dirs' = [dirs EXCEPT ![Mine(o)][x] = d],
                 NEW m \in Runs, NEW n \in Names
          PROVE  dirs'[m][n] = dirs[m][n] \/ dirs'[m][n] = d
        BY <1>0, <2>2
    <2>3. ASSUME NEW c, making' = [making EXCEPT ![o] = c], NEW q \in Ops
          PROVE  making'[q] = making[q] \/ making'[q] = c
        BY <1>0, <2>3
    <2>4. CASE /\ dirs' = dirs
               /\ making' = making \/ making' = [making EXCEPT ![o] = NoCheckpoint]
        <3>1. \A q \in Ops : making'[q].weights \subseteq making[q].weights
            BY <1>0, <2>3, <2>4
        <3> QED BY <2>4, <3>1 DEF Held
    <2>5. CASE /\ making' = [making EXCEPT ![o] = NewCheckpoint(o)]
               /\ dirs' = [dirs EXCEPT ![Mine(o)][SaveName(o)] = [state |-> "partial", weights |-> {}]]
        <3>1. \A q \in Ops : making'[q] = making[q] \/ making'[q] = NewCheckpoint(o)
            BY <2>3, <2>5
        <3>2. NewCheckpoint(o).weights \subseteq Applied(Mine(o))
            BY DEF NewCheckpoint, Applied
        <3>3. \A m \in Runs, n \in Names : dirs'[m][n].weights \subseteq dirs[m][n].weights
            BY <2>2, <2>5
        <3> QED BY <2>0, <3>1, <3>2, <3>3 DEF Held
    <2>6. ASSUME making' = making,
                 NEW s, dirs' = [dirs EXCEPT ![Mine(o)][making[o].name] =
                                    [state |-> s, weights |-> making[o].weights]]
          PROVE  Held(p)
        <3>1. \A m \in Runs, n \in Names :
                dirs'[m][n].weights \in {dirs[m][n].weights, making[o].weights}
            BY <2>2, <2>6
        <3> QED BY <2>6, <3>1 DEF Held
    <2> QED BY <2>1, <2>4, <2>5, <2>6
<1>4. ASSUME NEW m \in Runs, Unlocked(m) \/ Recover(m) PROVE Held(p)
    <2>1. making' = making
        BY <1>4, OutsideKeeps DEF coroutines
    <2>2. \/ dirs' = dirs
          \/ \E n \in Names : dirs' = [dirs EXCEPT ![m][n] = NoDirectory]
        BY <1>4 DEF Unlocked, CreateModel, DeleteCheckpoint, CrashWhileDeleting, SetVisibility,
            RemoveAdapter, ForgetRun, Recover, SkipRun, RecoverFresh, RecoverFromCheckpoint,
            RecoverCorrupted
    <2>3. ASSUME NEW n \in Names, dirs' = [dirs EXCEPT ![m][n] = NoDirectory],
                 NEW r \in Runs, NEW x \in Names
          PROVE  dirs'[r][x] = dirs[r][x] \/ dirs'[r][x] = NoDirectory
        BY <1>0, <2>3
    <2> QED BY <1>0, <1>1, <2>1, <2>2, <2>3
<1>5. CASE Restart
    BY <1>1, <1>5 DEF Restart
<1>6. CASE FinishRecovery \/ ProcessEnds \/ UNCHANGED trainingVars
    BY <1>1, <1>6, QuietKeeps DEF coroutines
<1> QED BY <1>2, <1>3, <1>4, <1>5, <1>6 DEF Next

LEMMA HeldStep ==
    ASSUME BaseInv, [Next]_trainingVars, NEW p, Held(p)'
    PROVE  Held(p) \/ Taken(p)
<1>1. ASSUME NEW m \in Runs, p \in Applied(m)' PROVE Held(p) \/ Taken(p)
    <2>1. CASE Loaded(m, p)
        <3>1. PICK o \in Ops : Load(o) /\ p \in Source(o).weights
            BY <2>1 DEF Loaded
        <3>2. op[o].source \in Runs /\ op[o].name \in Names
            BY <3>1 DEF Load, BaseInv, Ended, Arguments
        <3> QED BY <3>1, <3>2 DEF Held, Source
    <2>2. CASE Recovered(m, p)
        <3>1. PICK c \in Latest(ckpts[m]) : p \in dirs[m][c.name].weights
            BY <2>2 DEF Recovered
        <3>2. c.name \in Names
            BY LatestAreRecords DEF BaseInv
        <3> QED BY <3>1, <3>2 DEF Held
    <2> QED BY <1>1, <2>1, <2>2, AppliedStep DEF Held
<1> QED BY <1>1, FilesStep DEF Held

(* Checkpoints of a run are made one after the other.                      *)
DatedInv ==
    /\ \A o \in Ops : op[o].future <= MaxFuture
    /\ \A m \in Runs : \A c : Made(m, c) => c.created <= clock /\ c.future <= MaxFuture
    /\ \A m \in Runs : \A c, d : Made(m, c) /\ Made(m, d) /\ c.created = d.created => c = d

LEMMA MadeIsTyped ==
    ASSUME BaseInv, NEW m \in Runs, NEW c, Made(m, c)
    PROVE  /\ c \in Checkpoint
           /\ c.created \in Nat /\ c.future \in Nat /\ c.weights \subseteq Ops
BY DEF BaseInv, TypedInv, Made, Checkpoint

LEMMA ChosenIsNew ==
    ASSUME BaseInv, NEW m \in Runs, NEW o \in Ops, NEW c, Chosen(o, m, c)
    PROVE  /\ c.created = clock + 1 /\ clock' = clock + 1 /\ c.future = op[o].future
           /\ c.weights = adapters[m].weights /\ AtHead(o) /\ op[o].kind = "save" /\ Mine(o) = m
           /\ stage[o] = "waiting" /\ stage'[o] = "executing"
           /\ UNCHANGED <<op, queue, adapters, ckpts>>
BY CanEnterAtHead
DEF Chosen, EnterSave, NewCheckpoint, CanEnter, GoTo, BaseInv, LockInv

LEMMA ClockMoves ==
    ASSUME BaseInv, [Next]_trainingVars
    PROVE  clock' = clock \/ clock' = clock + 1
<1>1. ASSUME NEW o \in Ops, Request(o) PROVE clock' = clock
    BY <1>1 DEF Request, Start
<1>2. ASSUME NEW o \in Ops, Proceed(o) PROVE clock' = clock \/ clock' = clock + 1
    BY <1>2 DEF Proceed, Conflict, Enter, EnterSave, Compute, Load, ComputeFails, SaveState,
        SaveStateFails, SerialiseCheckpoint, StoreCheckpoint, SerialiseCount, StoreCount
<1>3. ASSUME NEW m \in Runs, Unlocked(m) \/ Recover(m) PROVE clock' = clock
    BY <1>3 DEF Unlocked, CreateModel, DeleteCheckpoint, CrashWhileDeleting, SetVisibility,
        RemoveAdapter, ForgetRun, Recover, SkipRun, RecoverFresh, RecoverFromCheckpoint,
        RecoverCorrupted
<1>4. ASSUME Restart PROVE clock' = clock
    BY <1>4 DEF Restart
<1> QED BY <1>1, <1>2, <1>3, <1>4, QuietKeeps DEF Next

LEMMA DatedNext ==
    ASSUME BaseInv, DatedInv, [Next]_trainingVars
    PROVE  DatedInv'
<1>0. clock \in Nat /\ MaxFuture \in Nat
    BY BoundsAssumption DEF BaseInv, TypedInv
<1>1. ASSUME NEW o \in Ops PROVE op'[o].future <= MaxFuture
    <2>2. CASE op'[o] = op[o]
        BY <2>2 DEF DatedInv
    <2>3. ASSUME NEW q \in Ops, Request(q) PROVE op'[o].future <= MaxFuture
        <3>1. PICK F \in 0..MaxFuture :
                \E m, k, s, src, t, n : Start(q, m, k, s, src, t, n, F)
            BY <2>3, Zenon DEF Request
        <3>2. op'[q].future = F /\ (o # q => op'[o] = op[o])
            BY <3>1 DEF Start, BaseInv, LockInv
        <3> QED BY <1>0, <2>2, <3>2
    <2>4. CASE op' = op
        BY <2>2, <2>4
    <2>5. ASSUME NEW q \in Ops, Proceed(q) PROVE op' = op
        BY <2>5, ProceedOnlyOf DEF BaseInv, OnlyOf
    <2>6. ASSUME NEW m \in Runs, Unlocked(m) \/ Recover(m) PROVE op' = op
        BY <2>6, OutsideKeeps DEF coroutines
    <2>7. ASSUME FinishRecovery \/ ProcessEnds \/ Restart \/ UNCHANGED trainingVars PROVE op' = op
        BY <2>7, QuietKeeps DEF coroutines, Restart
    <2> QED BY <2>3, <2>4, <2>5, <2>6, <2>7 DEF Next
<1>2. ASSUME NEW m \in Runs, NEW c, Made(m, c)'
      PROVE  /\ Made(m, c) \/ \E o \in Ops : Chosen(o, m, c)
             /\ c.created <= clock' /\ c.future <= MaxFuture
    <2>1. Made(m, c) \/ \E o \in Ops : Chosen(o, m, c)
        BY <1>2, MadeStep
    <2>2. CASE Made(m, c)
        BY <1>0, <2>2, ClockMoves, MadeIsTyped DEF DatedInv
    <2>3. ASSUME NEW o \in Ops, Chosen(o, m, c) PROVE c.created <= clock' /\ c.future <= MaxFuture
        BY <1>0, <2>3, ChosenIsNew DEF DatedInv
    <2> QED BY <2>1, <2>2, <2>3
<1>3. ASSUME NEW m \in Runs, NEW c, NEW d, Made(m, c)', Made(m, d)', c.created = d.created
      PROVE  c = d
    <2>1. ASSUME NEW x, NEW y, Made(m, x), NEW o \in Ops, Chosen(o, m, y), x.created = y.created
          PROVE  FALSE
        <3>1. y.created = clock + 1
            BY <2>1, ChosenIsNew
        <3>2. x.created <= clock /\ x.created \in Nat
            BY <2>1, MadeIsTyped DEF DatedInv
        <3> QED BY <1>0, <2>1, <3>1, <3>2
    <2>2. ASSUME NEW o \in Ops, NEW q \in Ops, Chosen(o, m, c), Chosen(q, m, d) PROVE c = d
        <3>1. o = q
            BY <2>2, ChosenIsNew, Alone DEF BaseInv
        <3> QED BY <2>2, <3>1 DEF Chosen
    <2>3. CASE Made(m, c) /\ Made(m, d)
        BY <1>3, <2>3 DEF DatedInv
    <2> QED BY <1>2, <1>3, <2>1, <2>2, <2>3
<1> QED BY <1>1, <1>2, <1>3 DEF DatedInv

LEMMA DatedInit == Init => DatedInv
BY BoundsAssumption DEF Init, DatedInv, Made, Naming, NoArguments

(* A run that has checkpoints has a latest one, and only one.              *)
LEMMA LatestIsOne ==
    ASSUME BaseInv, DatedInv, NEW m \in Runs, ckpts[m] # {}
    PROVE  \E c \in Latest(ckpts[m]) : Latest(ckpts[m]) = {c}
<1>1. \A c \in ckpts[m] : /\ Made(m, c) /\ c.created \in Nat /\ c.created <= clock
    BY MadeIsTyped DEF Made, DatedInv
<1> DEFINE dates == {c.created : c \in ckpts[m]}
<1>2. dates # {} /\ dates \subseteq Nat /\ clock \in Nat /\ \A i \in dates : i <= clock
    BY <1>1 DEF BaseInv, TypedInv
<1> HIDE DEF dates
<1>3. PICK k \in dates : \A i \in dates : i <= k
    BY <1>2, GreatestOf
<1>4. PICK c \in ckpts[m] : c.created = k
    BY <1>3 DEF dates
<1>5. \A d \in ckpts[m] : d.created <= c.created
    BY <1>3, <1>4 DEF dates
<1>6. c \in Latest(ckpts[m])
    BY <1>4, <1>5 DEF Latest
<1>7. ASSUME NEW d \in Latest(ckpts[m]) PROVE d = c
    <2>1. d \in ckpts[m] /\ c.created <= d.created /\ d.created <= c.created
        BY <1>4, <1>5, <1>7 DEF Latest
    <2>2. d.created = c.created
        BY <1>1, <1>4, <2>1
    <2> QED BY <1>1, <1>4, <2>1, <2>2 DEF DatedInv
<1> QED BY <1>6, <1>7

LEMMA LatestFutureIs ==
    ASSUME BaseInv, DatedInv, NEW m \in Runs
    PROVE  /\ LatestFuture(m) \in 0..MaxFuture
           /\ ckpts[m] = {} => LatestFuture(m) = 0
           /\ \A c \in Latest(ckpts[m]) : LatestFuture(m) = c.future
<1>1. CASE ckpts[m] = {}
    BY <1>1, BoundsAssumption DEF LatestFuture, Latest
<1>2. CASE ckpts[m] # {}
    <2>1. PICK c \in Latest(ckpts[m]) : Latest(ckpts[m]) = {c}
        BY <1>2, LatestIsOne
    <2>2. LatestFuture(m) = c.future
        BY <1>2, <2>1 DEF LatestFuture
    <2>3. c.future \in Nat /\ c.future <= MaxFuture
        <3>1. Made(m, c)
            BY <2>1, LatestAreRecords DEF Made, BaseInv
        <3> QED BY <3>1, MadeIsTyped DEF DatedInv
    <2> QED BY <1>2, <2>1, <2>2, <2>3, BoundsAssumption
<1> QED BY <1>1, <1>2

-----------------------------------------------------------------------------
(* The server is a future store.                                           *)

RecoveryInv ==
    /\ reconcile \subseteq [run: Runs, pendingOnly: BOOLEAN]
    /\ boundary \in [Runs -> 0..MaxFuture]

LEMMA RecoveryNext ==
    ASSUME BaseInv, DatedInv, RecoveryInv, [ServerNext]_serverVars
    PROVE  RecoveryInv'
<1>1. CASE UNCHANGED recoveryVars
    BY <1>1 DEF recoveryVars, RecoveryInv
<1>2. ASSUME NEW m \in Runs, RecoverRun(m) PROVE RecoveryInv'
    <2>1. LatestFuture(m) \in 0..MaxFuture
        BY LatestFutureIs
    <2>2. \E b \in BOOLEAN : reconcile' = {[run |-> m, pendingOnly |-> b]}
        BY <1>2 DEF RecoverRun, Pass, Restore
    <2>3. boundary' = [boundary EXCEPT ![m] = LatestFuture(m)]
        BY <1>2 DEF RecoverRun
    <2> QED BY <2>1, <2>2, <2>3 DEF RecoveryInv
<1>3. CASE ReconcileFutures
    BY <1>3 DEF ReconcileFutures, RecoveryInv
<1>4. CASE Boot
    BY <1>4, BoundsAssumption DEF Boot, RecoveryInv
<1>5. ASSUME NEW m \in Runs, Manage(m) PROVE UNCHANGED recoveryVars
    BY <1>5 DEF Manage, recoveryVars
<1> QED BY <1>1, <1>2, <1>3, <1>4, <1>5
    DEF ServerNext, Submit, Progress, Begin, Operate, Return, Publish, Manage, Crash,
        FailPendingSamples, CrashWhileReconciling, Open, serverVars, recoveryVars

LEMMA RecoveryInit == ServerInit => RecoveryInv
BY BoundsAssumption DEF ServerInit, RecoveryInv

LEMMA QuietStoreStep ==
    ASSUME UNCHANGED futureVars, UNCHANGED <<phase, restarts>>
    PROVE  UNCHANGED Futures!vars
BY DEF futureVars, Futures!vars, Futures!memory, Futures!durable, Futures!control

LEMMA FuturesCount == Futures!Cardinality(Requests) = Cardinality(Requests)
BY DEF Futures!Cardinality, Cardinality

LEMMA StoreStep ==
    ASSUME BaseInv, DoneInv, FutureInv, RecoveryInv, [ServerNext]_serverVars
    PROVE  [Futures!Next]_Futures!vars
<1>1. ASSUME NEW r \in Ops, NEW u \in Users, NEW m \in Runs, Submit(r, u, m)
      PROVE  Futures!Next
    BY <1>1 DEF Submit, Futures!Next, Futures!Client, Requests, Models
<1>2. ASSUME NEW r \in Ops, Begin(r) PROVE UNCHANGED Futures!vars
    BY <1>2, BeginRequests, QuietStoreStep DEF Begin, Start, control
<1>3. ASSUME NEW r \in Ops, Operate(r) PROVE UNCHANGED Futures!vars
    <2>1. UNCHANGED control
        BY <1>3 DEF Operate, Proceed, Conflict, Enter, EnterSave, Compute, Load, ComputeFails,
            SaveState, SaveStateFails, SerialiseCheckpoint, StoreCheckpoint, SerialiseCount, StoreCount
    <2> QED BY <1>3, <2>1, QuietStoreStep DEF Operate, control
<1>4. ASSUME NEW r \in Ops, Return(r) PROVE Futures!Next
    <2>1. result[r] \in {"ready", "failed"}
        BY <1>4 DEF Return, DoneInv
    <2> QED BY <1>4, <2>1 DEF Return, Futures!Next, Futures!Runner, Requests
<1>5. ASSUME NEW r \in Ops, Publish(r) PROVE Futures!Next
    BY <1>5 DEF Publish, Futures!Next, Futures!Runner, Requests
<1>6. ASSUME NEW m \in Runs, Manage(m) PROVE [Futures!Next]_Futures!vars
    <2>1. ASSUME NEW n \in Names, CrashWhileDeleting(m, n) PROVE Futures!Next
        <3>1. Futures!ProcessEnds
            BY <1>6, <2>1 DEF Manage, CrashWhileDeleting, Serving, Futures!ProcessEnds, futureVars,
                Futures!memory, Futures!durable
        <3> QED BY <3>1 DEF Futures!Next, Futures!Environment
    <2>2. CASE UNCHANGED <<phase, restarts>>
        BY <1>6, <2>2, QuietStoreStep DEF Manage
    <2> QED BY <1>6, <2>1, <2>2 DEF Manage, Unlocked, CreateModel, DeleteCheckpoint, SetVisibility,
            RemoveAdapter, ForgetRun, control
<1>7. ASSUME NEW m \in Runs, RecoverRun(m) PROVE UNCHANGED Futures!vars
    BY <1>7, QuietStoreStep DEF RecoverRun, Pass, Restore, SkipRun, RecoverFresh,
        RecoverFromCheckpoint, RecoverCorrupted
<1>8. CASE Crash \/ Boot
    BY <1>8 DEF Crash, Boot, Futures!Next, Futures!Environment
<1>9. CASE Open \/ FailPendingSamples
    BY <1>9 DEF Open, FailPendingSamples, Futures!Next, Futures!Recovery
<1>10. ASSUME NEW x \in reconcile PROVE ToFail(x) \in Futures!RecoverySets
    <2>1. x.run \in Runs /\ boundary[x.run] \in 0..Cardinality(Requests)
        BY FuturesAssumption DEF RecoveryInv
    <2>2. Futures!PendingOfModel(x.run) \in Futures!RecoverySets
        BY <2>1 DEF Futures!RecoverySets, Models
    <2>3. Futures!AfterCheckpoint(x.run, boundary[x.run]) \in Futures!RecoverySets
        BY <2>1, FuturesCount DEF Futures!RecoverySets, Models
    <2> QED BY <2>2, <2>3 DEF ToFail
<1>11. CASE ReconcileFutures \/ CrashWhileReconciling
    <2>1. PICK x \in reconcile : Futures!RecoverRun(ToFail(x)) \/ Futures!CrashWhileMarking(ToFail(x))
        BY <1>11, Zenon DEF ReconcileFutures, CrashWhileReconciling
    <2>2. ToFail(x) \in Futures!RecoverySets
        BY <1>10, <2>1
    <2>3. Futures!Recovery
        BY <2>1, <2>2, Zenon DEF Futures!Recovery
    <2> QED BY <2>3 DEF Futures!Next
<1>12. CASE UNCHANGED serverVars
    BY <1>12, QuietStoreStep DEF serverVars
<1> QED BY <1>1, <1>2, <1>3, <1>4, <1>5, <1>6, <1>7, <1>8, <1>9, <1>11, <1>12
    DEF ServerNext, Progress, Requests

RestartInv == ServerInv /\ DatedInv /\ RecoveryInv

LEMMA RestartInvInit == ServerInit => RestartInv
BY ServerInvInit, DatedInit, RecoveryInit DEF RestartInv, ServerInit

LEMMA RestartInvNext == RestartInv /\ [ServerNext]_serverVars => RestartInv'
BY ServerInvNext, DatedNext, RecoveryNext DEF RestartInv, ServerInv

(* The server implements the future store: it submits, resolves, publishes *)
(* and fails futures only as the store allows, and each set of futures     *)
(* that recovery fails is one that the store knows, with a cut-off that is *)
(* a future id; so that what is proved of the store holds of the server.   *)
THEOREM ServerImplementsFutureStore == ServerSpec => Futures!Spec
<1>1. ServerInit => Futures!Init
    BY DEF ServerInit
<1>2. RestartInv /\ [ServerNext]_serverVars => [Futures!Next]_Futures!vars
    BY StoreStep DEF RestartInv, ServerInv
<1> QED BY <1>1, <1>2, RestartInvInit, RestartInvNext, PTL DEF ServerSpec, Futures!Spec

-----------------------------------------------------------------------------
(* Recovery fails the futures past the boundary of a run.                  *)

LateIsFailed(m) ==
    \A r \in Restored(m) : records[r].fid > boundary[m] => Futures!Outcome(records[r]) = "failed"

(* A future of an earlier process has no task in this one, so that nothing *)
(* but recovery changes its record.                                        *)
OldInv == restored \subseteq used /\ \A r \in restored : task[r] = "none"

LateInv ==
    /\ recovered \subseteq Runs
    /\ \A x, y \in reconcile : x = y
    /\ phase = "serving" => reconcile = {}
    /\ phase # "down" =>
          /\ \A x \in reconcile : x.pendingOnly => ~Intact(x.run)
          /\ \A m \in recovered :
                Intact(m) /\ (\A x \in reconcile : x.run # m) => LateIsFailed(m)

LEMMA OldStep ==
    ASSUME FutureInv, OldInv, FutureStep, ~Boot
    PROVE  /\ restored' = restored
           /\ \A r \in restored :
                /\ task'[r] = "none"
                /\ records'[r] \in {records[r], Futures!Failed(records[r])}
<1>0. \A r \in restored : r \in Ops /\ r \in used /\ task[r] = "none"
    BY DEF OldInv, FutureInv
<1>1. CASE UNCHANGED futureVars
    BY <1>0, <1>1 DEF futureVars
<1>2. ASSUME NEW r \in Ops, NEW u \in Users, NEW m \in created, Futures!Enqueue(r, u, m, "train")
      PROVE  /\ restored' = restored
             /\ \A q \in restored : task'[q] = "none" /\ records'[q] = records[q]
    <2>1. /\ r \notin used /\ restored' = restored
          /\ task' = [task EXCEPT ![r] = "running"]
          /\ records' = [records EXCEPT ![r] = Queued(m, u, nextId)]
        BY <1>2 DEF Futures!Enqueue, Futures!Register, Queued
    <2> QED BY <1>0, <2>1 DEF FutureInv
<1>3. ASSUME NEW r \in Ops, Return(r) \/ Publish(r)
      PROVE  /\ restored' = restored
             /\ \A q \in restored : task'[q] = "none" /\ records'[q] = records[q]
    <2>1. /\ task[r] # "none" /\ restored' = restored
          /\ \E s : task' = [task EXCEPT ![r] = s]
          /\ records' = records \/ \E rec : records' = [records EXCEPT ![r] = rec]
        BY <1>3 DEF Return, Publish, Futures!OperationEnds, Futures!MarkBegin, Futures!MarkSave,
            Futures!MarkEnd
    <2> QED BY <1>0, <2>1 DEF FutureInv
<1>4. ASSUME NEW S, NEW saved, Marks(S, saved)
      PROVE  /\ restored' = restored /\ task' = task
             /\ \A q \in Ops : records'[q] \in {records[q], Futures!Failed(records[q])}
    <2>1. /\ restored' = restored /\ task' = task
          /\ records' = [r \in Ops |-> IF r \in S THEN Futures!Failed(records[r]) ELSE records[r]]
        BY <1>4 DEF Marks, Futures!FailAll, Requests
    <2> QED BY <2>1
<1> QED BY <1>0, <1>1, <1>2, <1>3, <1>4 DEF FutureStep

LEMMA FailedStays ==
    ASSUME NEW rec \in Futures!Record, NEW new \in {rec, Futures!Failed(rec)}
    PROVE  /\ new.fid = rec.fid /\ new.model = rec.model
           /\ Futures!Outcome(rec) = "failed" => Futures!Outcome(new) = "failed"
           /\ Futures!Outcome(Futures!Failed(rec)) = "failed"
<1>1. Futures!Failed(rec).event /\ Futures!Failed(rec).error = "cancelled"
    BY DEF Futures!Failed, Futures!Record
<1>2. Futures!Outcome(Futures!Failed(rec)) = "failed"
    BY <1>1 DEF Futures!Outcome
<1>3. Futures!Failed(rec).fid = rec.fid /\ Futures!Failed(rec).model = rec.model
    BY DEF Futures!Failed, Futures!Record
<1> QED BY <1>2, <1>3

LEMMA LateStays ==
    ASSUME FutureInv, OldInv, FutureStep, ~Boot, NEW m \in Runs, boundary'[m] = boundary[m],
           LateIsFailed(m)
    PROVE  LateIsFailed(m)'
<1> SUFFICES ASSUME NEW r \in Restored(m)', records'[r].fid > boundary'[m]
             PROVE  Futures!Outcome(records[r])' = "failed"
    BY DEF LateIsFailed
<1>1. /\ r \in restored /\ r \in registry /\ r \in Ops
      /\ records'[r] \in {records[r], Futures!Failed(records[r])} /\ records'[r].model = m
    BY OldStep DEF Restored, OldInv, FutureInv
<1>2. records[r] \in Futures!Record
    BY <1>1 DEF FutureInv
<1>3. records'[r].fid = records[r].fid /\ records'[r].model = records[r].model
    BY <1>1, <1>2, FailedStays
<1>4. r \in Restored(m) /\ records[r].fid > boundary[m]
    BY <1>1, <1>3 DEF Restored
<1>5. Futures!Outcome(records[r]) = "failed"
    BY <1>4 DEF LateIsFailed
<1>6. Futures!Outcome(records'[r]) = "failed"
    BY <1>1, <1>2, <1>5, FailedStays
<1> QED BY <1>6 DEF Futures!Outcome

(* Within one process a backend stays and a corrupted run stays corrupted. *)
LEMMA IntactBefore ==
    ASSUME BaseInv, [Next]_trainingVars, ~Restart, NEW m \in Runs, Intact(m)'
    PROVE  Intact(m)
<1>0. /\ run \in [Runs -> Run] /\ DOMAIN run = Runs /\ DOMAIN run[m] = {"nextSeq", "nextName", "corrupted"}
      /\ \A r \in Runs : run[r] \in Run
    BY DEF BaseInv, TypedInv, CountInv, CountedRun, Run
<1>1. CASE run' = run /\ enabled' = enabled
    BY <1>1 DEF Intact
<1>2. ASSUME NEW o \in Ops, Request(o) PROVE Intact(m)
    <2>1. run' = run /\ enabled' = enabled
        BY <1>2 DEF Request, Start, control, objects
    <2> QED BY <1>1, <2>1
<1>3. ASSUME NEW o \in Ops, Proceed(o) PROVE Intact(m)
    <2>1. enabled' = enabled
        BY <1>3 DEF Proceed, Conflict, Enter, EnterSave, Compute, Load, ComputeFails, SaveState,
            SaveStateFails, SerialiseCheckpoint, StoreCheckpoint, SerialiseCount, StoreCount, control
    <2>2. run' = run \/ Count(o) \/ TakeName(o)
        BY <1>3 DEF Proceed, Conflict, Enter, EnterSave, Compute, Load, ComputeFails, SaveState,
            SaveStateFails, SerialiseCheckpoint, StoreCheckpoint, SerialiseCount, StoreCount, objects
    <2>3. ASSUME Count(o) PROVE run'[m].corrupted = run[m].corrupted
        BY <1>0, <2>3 DEF Count
    <2>4. ASSUME TakeName(o) PROVE run'[m].corrupted = run[m].corrupted
        BY <1>0, <2>4 DEF TakeName
    <2>5. CASE run' = run
        BY <1>1, <2>1, <2>5
    <2> QED BY <2>1, <2>2, <2>3, <2>4, <2>5 DEF Intact
<1>4. ASSUME NEW r \in Runs, Unlocked(r) \/ Recover(r) PROVE Intact(m)
    <2>1. enabled' = enabled
        BY <1>4 DEF Unlocked, CreateModel, DeleteCheckpoint, CrashWhileDeleting, SetVisibility,
            RemoveAdapter, ForgetRun, Recover, SkipRun, RecoverFresh, RecoverFromCheckpoint,
            RecoverCorrupted, control
    <2>2. run' = run \/ run' = [run EXCEPT ![r].corrupted = TRUE]
        BY <1>4 DEF Unlocked, CreateModel, DeleteCheckpoint, CrashWhileDeleting, SetVisibility,
            RemoveAdapter, ForgetRun, Recover, SkipRun, RecoverFresh, RecoverFromCheckpoint,
            RecoverCorrupted, objects
    <2>3. run[m].corrupted => run'[m].corrupted
        BY <1>0, <2>2
    <2> QED BY <2>1, <2>3 DEF Intact
<1>5. CASE FinishRecovery \/ ProcessEnds \/ UNCHANGED trainingVars
    BY <1>1, <1>5, QuietKeeps DEF objects
<1> QED BY <1>2, <1>3, <1>4, <1>5 DEF Next

(* What the steps other than those of recovery leave alone.                *)
LEMMA AwayFromRecovery ==
    ASSUME BaseInv, [ServerNext]_serverVars, ~Boot, ~ReconcileFutures, \A m \in Runs : ~RecoverRun(m)
    PROVE  /\ UNCHANGED <<reconcile, boundary, recovered>> /\ ~Restart
           /\ phase' # "down" => phase # "down"
           /\ phase' = "serving" => phase = "serving" \/ reconcile = {}
<1>1. CASE UNCHANGED runVars /\ UNCHANGED recoveryVars /\ (phase' = phase \/ phase' = "down")
    BY <1>1 DEF runVars, recoveryVars, Restart
<1>2. ASSUME NEW r \in Ops, NEW u \in Users, NEW m \in Runs, Submit(r, u, m)
      PROVE  UNCHANGED runVars /\ UNCHANGED recoveryVars /\ phase' = phase
    BY <1>2 DEF Submit, Futures!Enqueue, Futures!Register, Futures!control
<1>3. ASSUME NEW r \in Ops, Return(r) \/ Publish(r)
      PROVE  UNCHANGED runVars /\ UNCHANGED recoveryVars /\ phase' = phase
    BY <1>3 DEF Return, Publish, Futures!OperationEnds, Futures!MarkBegin, Futures!MarkSave,
        Futures!MarkEnd, Futures!control
<1>4. ASSUME NEW r \in Ops, Begin(r) \/ Operate(r)
      PROVE  UNCHANGED <<reconcile, boundary, recovered, phase>> /\ phase = "serving"
    <2>1. UNCHANGED <<reconcile, boundary>>
        BY <1>4 DEF Begin, Operate, recoveryVars
    <2>2. CASE Begin(r)
        BY <2>1, <2>2, BeginRequests DEF Begin, Start, control, Serving, ForwardBackward, OptimStep,
            SaveWeights, SaveWeightsForSampler, SaveCheckpoint, LoadWeights
    <2>3. CASE Operate(r)
        BY <2>1, <2>3, CanEnterAtHead DEF Operate, Proceed, Conflict, Enter, EnterSave, CanEnter,
            Compute, Load, ComputeFails, Computing, SaveState, SaveStateFails, SerialiseCheckpoint,
            StoreCheckpoint, SerialiseCount, StoreCount, control, Serving
    <2> QED BY <1>4, <2>2, <2>3
<1>5. ASSUME NEW m \in Runs, Manage(m)
      PROVE  /\ UNCHANGED <<reconcile, boundary, recovered>> /\ phase = "serving"
             /\ phase' \in {"serving", "down"}
    BY <1>5 DEF Manage, Unlocked, CreateModel, DeleteCheckpoint, CrashWhileDeleting, SetVisibility,
        RemoveAdapter, ForgetRun, control, Serving
<1>6. CASE Crash \/ Open
    BY <1>6 DEF Crash, Open, ProcessEnds, FinishRecovery, recoveryVars, Restart
<1>7. ASSUME FailPendingSamples \/ CrashWhileReconciling
      PROVE  UNCHANGED runVars /\ UNCHANGED recoveryVars /\ (phase' = phase \/ phase' = "down")
    BY <1>7 DEF FailPendingSamples, CrashWhileReconciling, Futures!MarkPendingSamples,
        Futures!CrashWhileMarking
<1>8. CASE UNCHANGED serverVars
    BY <1>1, <1>8 DEF serverVars
<1> QED BY <1>1, <1>2, <1>3, <1>4, <1>5, <1>6, <1>7, <1>8
    DEF ServerNext, Progress, Requests, Restart

(* The futures of a run that recovery has just dealt with.                 *)
LEMMA ReconciledRun ==
    ASSUME FutureInv, OldInv, NEW m \in Runs, NEW x, x.run = m, ~x.pendingOnly,
           boundary' = boundary, Futures!RecoverRun(ToFail(x))
    PROVE  LateIsFailed(m)'
<1> SUFFICES ASSUME NEW r \in Restored(m)', records'[r].fid > boundary[m]
             PROVE  Futures!Outcome(records[r])' = "failed"
    BY DEF LateIsFailed
<1>1. /\ registry' = registry /\ restored' = restored
      /\ records' = [q \in Ops |-> IF q \in ToFail(x) THEN Futures!Failed(records[q]) ELSE records[q]]
    BY DEF Futures!RecoverRun, Futures!FailAll, Requests
<1>2. r \in registry /\ r \in Ops /\ records[r] \in Futures!Record /\ records'[r].model = m
    BY <1>1 DEF Restored, FutureInv
<1>3. records'[r] \in {records[r], Futures!Failed(records[r])}
    BY <1>1, <1>2
<1>4. records[r].model = m /\ records[r].fid > boundary[m]
    BY <1>2, <1>3, FailedStays
<1>5. r \in ToFail(x)
    BY <1>2, <1>4 DEF ToFail, Futures!AfterCheckpoint, Futures!OfModel
<1>6. Futures!Outcome(records'[r]) = "failed"
    BY <1>1, <1>2, <1>5, FailedStays
<1> QED BY <1>6 DEF Futures!Outcome

LEMMA LateNext ==
    ASSUME BaseInv, FutureInv, RecoveryInv, OldInv, LateInv, [ServerNext]_serverVars
    PROVE  OldInv' /\ LateInv'
<1>0. FutureStep /\ [Next]_trainingVars
    BY EveryFutureStep, TrainingStep
<1>1. CASE Boot
    <2>1. /\ reconcile' = {} /\ recovered' = {} /\ restored' = stored /\ used' = used
          /\ task' = [r \in Ops |-> "none"]
        BY <1>1 DEF Boot, Restart, Futures!Restart, Requests
    <2> QED BY <2>1 DEF OldInv, LateInv, FutureInv
<1>2. CASE ~Boot
    <2>1. /\ restored' = restored
          /\ \A r \in restored : task'[r] = "none"
        BY <1>0, <1>2, OldStep
    <2>2. used \subseteq used'
        BY <1>0, FutureEffects DEF FutureKeeps
    <2>3. OldInv'
        BY <2>1, <2>2 DEF OldInv
    <2>4. ASSUME ~ReconcileFutures, \A m \in Runs : ~RecoverRun(m) PROVE LateInv'
        <3>1. /\ UNCHANGED <<reconcile, boundary, recovered>> /\ ~Restart
              /\ phase' # "down" => phase # "down"
              /\ phase' = "serving" => phase = "serving" \/ reconcile = {}
            BY <1>2, <2>4, AwayFromRecovery
        <3>2. \A m \in Runs : Intact(m)' => Intact(m)
            BY <1>0, <3>1, IntactBefore
        <3>3. \A m \in Runs : LateIsFailed(m) => LateIsFailed(m)'
            BY <1>0, <1>2, <3>1, LateStays
        <3>4. recovered \subseteq Runs /\ \A x \in reconcile : x.run \in Runs
            BY DEF LateInv, RecoveryInv
        <3>5. (\A x \in reconcile : x.pendingOnly => ~Intact(x.run)) =>
                \A x \in reconcile' : x.pendingOnly => ~Intact(x.run)'
            BY <3>1, <3>2, <3>4
        <3> QED BY <3>1, <3>2, <3>3, <3>4, <3>5 DEF LateInv
    <2>5. ASSUME NEW m \in Runs, RecoverRun(m) PROVE LateInv'
        <3>1. /\ reconcile = {} /\ phase = "recovering" /\ phase' = "recovering" /\ ~Restart
              /\ recovered' = recovered \cup {m} /\ m \notin recovered
              /\ \A r \in Runs \ {m} : boundary'[r] = boundary[r]
            BY <2>5 DEF RecoverRun, Pass, Restore, SkipRun, RecoverFresh, RecoverFromCheckpoint,
                RecoverCorrupted, CanRecover, Restart, RecoveryInv
        <3>2. /\ \E b \in BOOLEAN : reconcile' = {[run |-> m, pendingOnly |-> b]}
              /\ \A x \in reconcile' : x.pendingOnly => ~Intact(m)'
            <4>1. CASE Pass(m)
                BY <4>1 DEF Pass, SkipRun, Intact, objects
            <4>2. ASSUME Restore(m) PROVE reconcile' = {[run |-> m, pendingOnly |-> FALSE]}
                BY <4>2 DEF Restore
            <4>3. ASSUME Restore(m), NEW x \in reconcile' PROVE ~x.pendingOnly
                BY <4>2, <4>3
            <4>4. Pass(m) \/ Restore(m)
                BY <2>5 DEF RecoverRun
            <4> QED BY <4>1, <4>2, <4>3, <4>4
        <3>3. \A r \in Runs : Intact(r)' => Intact(r)
            BY <1>0, <3>1, IntactBefore
        <3>4. \A r \in Runs \ {m} : LateIsFailed(r) => LateIsFailed(r)'
            BY <1>0, <1>2, <3>1, LateStays
        <3>5. recovered \subseteq Runs /\ m \in Runs
            BY DEF LateInv
        <3>6. \A x \in reconcile' : x.run = m
            BY <3>2
        <3>7. \A x, y \in reconcile' : x = y
            BY <3>2
        <3>8. \A r \in recovered' : Intact(r)' /\ (\A x \in reconcile' : x.run # r) => LateIsFailed(r)'
            BY <3>1, <3>2, <3>3, <3>4, <3>5 DEF LateInv
        <3>9. \A x \in reconcile' : x.pendingOnly => ~Intact(x.run)'
            BY <3>2, <3>6 DEF Intact
        <3> QED BY <3>1, <3>7, <3>8, <3>9 DEF LateInv
    <2>6. ASSUME ReconcileFutures PROVE LateInv'
        <3>1. PICK x \in reconcile : Futures!RecoverRun(ToFail(x))
            BY <2>6 DEF ReconcileFutures
        <3>2. /\ reconcile' = {} /\ boundary' = boundary /\ recovered' = recovered /\ run' = run
              /\ enabled' = enabled /\ phase = "recovering" /\ phase' = "recovering"
            BY <2>6 DEF ReconcileFutures, runVars, Futures!RecoverRun, Futures!control
        <3>3. x.run \in Runs /\ \A y \in reconcile : y = x
            BY <3>1 DEF RecoveryInv, LateInv
        <3>4. ASSUME NEW m \in recovered, Intact(m)' PROVE LateIsFailed(m)'
            <4>1. m \in Runs /\ Intact(m)
                BY <3>2, <3>4 DEF LateInv, Intact
            <4>2. CASE m = x.run
                <5>1. ~x.pendingOnly
                    BY <3>1, <3>2, <4>1, <4>2 DEF LateInv
                <5> QED BY <3>1, <3>2, <4>1, <4>2, <5>1, ReconciledRun
            <4>3. CASE m # x.run
                <5>1. LateIsFailed(m)
                    BY <3>2, <3>3, <4>1, <4>3 DEF LateInv
                <5> QED BY <1>0, <1>2, <3>2, <4>1, <5>1, LateStays
            <4> QED BY <4>2, <4>3
        <3>5. recovered' \subseteq Runs
            BY <3>2 DEF LateInv
        <3>6. \A m \in recovered' : Intact(m)' => LateIsFailed(m)'
            BY <3>2, <3>4
        <3>7. \A y, z \in reconcile' : y = z
            BY <3>2
        <3>8. /\ phase' = "serving" => reconcile' = {}
              /\ phase' # "down" =>
                    /\ \A y \in reconcile' : y.pendingOnly => ~Intact(y.run)'
                    /\ \A m \in recovered' :
                          Intact(m)' /\ (\A y \in reconcile' : y.run # m) => LateIsFailed(m)'
            BY <3>2, <3>6
        <3> QED BY <3>5, <3>7, <3>8 DEF LateInv
    <2> QED BY <2>3, <2>4, <2>5, <2>6
<1> QED BY <1>1, <1>2

LEMMA LateInit == ServerInit => OldInv /\ LateInv
BY DEF ServerInit, Init, Futures!Init, OldInv, LateInv, Requests

(* Once the server serves, no future past the checkpoint that its run was   *)
(* restored from is presented as a success, whatever failed, in whatever    *)
(* way the earlier processes ended, and also when a recovery was cut short  *)
(* between the weights of a run and its futures, or among those.            *)
THEOREM FuturesPastTheBoundaryFail == ServerSpec => []LateFuturesFailed
<1>1. ServerInit => RestartInv /\ OldInv /\ LateInv
    BY RestartInvInit, LateInit
<1>2. RestartInv /\ OldInv /\ LateInv /\ [ServerNext]_serverVars =>
        RestartInv' /\ OldInv' /\ LateInv'
    BY RestartInvNext, LateNext DEF RestartInv, ServerInv
<1>3. LateInv => LateFuturesFailed
    BY DEF LateInv, LateIsFailed, LateFuturesFailed
<1> QED BY <1>1, <1>2, <1>3, PTL DEF ServerSpec

-----------------------------------------------------------------------------
(* Cancelled work is gone.  The ids of futures and the future ids that      *)
(* checkpoints take with them go up together: a save reads the last id as   *)
(* it gets in line for the lock, whoever is ahead of it in the line has a   *)
(* lower one, and so have the weights that it finds when its turn comes.    *)
(* The weights that recovery puts back are therefore no younger than the    *)
(* boundary, and what it fails is.                                          *)

Fid(r) == db[r].fid
Cancelled(r) == records[r].error = "cancelled" \/ db[r].error = "cancelled"

(* What the argument needs: files that keep their names and contents, a     *)
(* configuration that stays, and, where clients load, loads that stay in    *)
(* their run and a backend that does not fail: a run whose restoration      *)
(* failed is passed over by the next start, which fails its pending futures *)
(* whatever its checkpoints hold, and a client may load one of these.       *)
RightWeights ==
    /\ KeptFiles /\ "config" \notin Faults
    /\ "load" \in Kinds => "backend" \notin Faults /\ \A m, n \in Runs : m = n

(* Operations that have no coroutine.                                      *)
Past == {"new", "done", "lost"}

(* The last id handed out is one in use; what is cancelled is from an       *)
(* earlier process, and no coroutine of this one.                          *)
PastInv ==
    /\ nextId = 1 \/ \E r \in used : Fid(r) = nextId - 1
    /\ \A r \in used : records[r].kind = "train" /\ db[r].kind = "train"
    /\ \A r \in used : Cancelled(r) => r \in restored
    /\ \A r \in restored : stage[r] \in Past
    /\ phase = "recovering" => restored = used /\ \A o \in Ops : stage[o] \in Past

(* What the steps of a future leave of its record.                         *)
LEMMA RecordsKeepKinds ==
    ASSUME NEW rec \in Futures!Record, NEW res
    PROVE  /\ Futures!Resolved(rec, res).kind = rec.kind
           /\ Futures!Resolved(rec, res).error # "cancelled"
           /\ Futures!Failed(rec).kind = rec.kind
           /\ Futures!Published(rec).kind = rec.kind /\ Futures!Published(rec).error = rec.error
           /\ Futures!Stored(rec).kind = rec.kind /\ Futures!Stored(rec).error = rec.error
<1>1. Futures!Resolved(rec, res).kind = rec.kind /\ Futures!Resolved(rec, res).error # "cancelled"
    BY DEF Futures!Resolved, Futures!Record
<1>2. Futures!Failed(rec).kind = rec.kind
    BY DEF Futures!Failed, Futures!Record
<1>3. Futures!Published(rec).kind = rec.kind /\ Futures!Published(rec).error = rec.error
    BY DEF Futures!Published, Futures!Record
<1>4. Futures!Stored(rec).kind = rec.kind /\ Futures!Stored(rec).error = rec.error
    BY DEF Futures!Stored, Futures!Record
<1> QED BY <1>1, <1>2, <1>3, <1>4

LEMMA LoadedKind ==
    ASSUME NEW d \in Futures!Durable
    PROVE  Futures!Loaded(d).kind = d.kind
BY DEF Futures!Loaded, Futures!Durable

LEMMA QueuedKind ==
    ASSUME NEW m, NEW u, NEW i
    PROVE  Queued(m, u, i).kind = "train" /\ Futures!Stored(Queued(m, u, i)).kind = "train"
BY DEF Queued, Futures!Blank, Futures!Stored

Trained(r) == records[r].kind = "train" /\ db[r].kind = "train"

(* Only recovery cancels, and only what it has to fail; a step keeps the   *)
(* kinds of futures.                                                       *)
Dropped(r) == phase = "recovering" /\ r \in used /\ \E x \in reconcile : r \in ToFail(x)

CancelStep ==
    \A r \in used' : /\ Trained(r)'
                     /\ Cancelled(r)' => (r \in used /\ Cancelled(r)) \/ Dropped(r)

LEMMA PublishCancels ==
    ASSUME FutureInv, \A q \in used : Trained(q), NEW r \in Ops, Publish(r)
    PROVE  CancelStep
<1>1. records[r] \in Futures!Record /\ r \in used
    BY DEF FutureInv, Publish, Futures!MarkBegin, Futures!MarkSave, Futures!MarkEnd
<1>2. ASSUME NEW rec, rec.kind = "train", rec.error = "cancelled" => Cancelled(r),
             NEW d, d.kind = "train", d.error = "cancelled" => Cancelled(r),
             records' = [records EXCEPT ![r] = rec], db' = [db EXCEPT ![r] = d], used' = used
      PROVE  CancelStep
    <2>1. /\ records'[r] = rec /\ db'[r] = d
          /\ \A q \in Ops \ {r} : records'[q] = records[q] /\ db'[q] = db[q]
        BY <1>2 DEF FutureInv
    <2>2. used \subseteq Ops
        BY DEF FutureInv
    <2> QED BY <1>1, <1>2, <2>1, <2>2 DEF CancelStep, Trained, Cancelled
<1>3. records = [records EXCEPT ![r] = records[r]] /\ db = [db EXCEPT ![r] = db[r]]
    BY DEF FutureInv
<1>4. CASE Futures!MarkSave(r)
    <2> DEFINE d == Futures!Stored(records[r])
    <2>1. UNCHANGED <<records, used>> /\ db' = [db EXCEPT ![r] = d]
        BY <1>4 DEF Futures!MarkSave, Futures!SaveFuture, SaveOutcomes
    <2>2. d.kind = records[r].kind /\ d.error = records[r].error
        BY <1>1, RecordsKeepKinds
    <2> HIDE DEF d
    <2> QED BY <1>1, <1>2, <1>3, <2>1, <2>2 DEF Trained, Cancelled
<1>5. CASE Futures!MarkBegin(r)
    <2> DEFINE rec == Futures!Resolved(records[r], outcome[r])
    <2>1. /\ UNCHANGED <<db, used>>
          /\ records' = records \/ records' = [records EXCEPT ![r] = rec]
        BY <1>5 DEF Futures!MarkBegin, Futures!durable
    <2>2. rec.kind = records[r].kind /\ rec.error # "cancelled"
        BY <1>1, RecordsKeepKinds
    <2> HIDE DEF rec
    <2> QED BY <1>1, <1>2, <1>3, <2>1, <2>2 DEF Trained, Cancelled
<1>6. CASE Futures!MarkEnd(r)
    <2> DEFINE rec == Futures!Published(records[r])
    <2>1. UNCHANGED <<db, used>> /\ records' = [records EXCEPT ![r] = rec]
        BY <1>6 DEF Futures!MarkEnd, Futures!durable
    <2>2. rec.kind = records[r].kind /\ rec.error = records[r].error
        BY <1>1, RecordsKeepKinds
    <2> HIDE DEF rec
    <2> QED BY <1>1, <1>2, <1>3, <2>1, <2>2 DEF Trained, Cancelled
<1> QED BY <1>4, <1>5, <1>6 DEF Publish

LEMMA MarksCancel ==
    ASSUME FutureInv, \A q \in used : Trained(q), NEW S, NEW saved, Recovers(S), Marks(S, saved)
    PROVE  CancelStep
<1> DEFINE F(r) == Futures!Failed(records[r])
<1>1. /\ saved \subseteq S /\ S \subseteq used /\ used' = used
      /\ records' = [r \in Ops |-> IF r \in S THEN F(r) ELSE records[r]]
      /\ db' = [r \in Ops |-> IF r \in saved THEN Futures!Stored(F(r)) ELSE db[r]]
    BY DEF Marks, Futures!FailAll, Requests, FutureInv
<1>2. ASSUME NEW r \in used
      PROVE  /\ r \in Ops /\ F(r).kind = "train" /\ Futures!Stored(F(r)).kind = "train"
    <2>1. r \in Ops /\ records[r] \in Futures!Record
        BY DEF FutureInv
    <2>2. F(r).kind = "train" /\ F(r) \in Futures!Record
        BY <2>1, RecordsKeepKinds, RecordsKeepIds DEF Trained
    <2> HIDE DEF F
    <2> QED BY <2>1, <2>2, RecordsKeepKinds
<1> HIDE DEF F
<1>3. S # {} => phase = "recovering" /\ \E x \in reconcile : S = ToFail(x)
    <2>1. Futures!PendingSamples = {}
        BY DEF Futures!PendingSamples, Futures!PendingOf, FutureInv, Trained
    <2> QED BY <2>1 DEF Recovers
<1>4. \A r \in S : Dropped(r)
    BY <1>1, <1>3 DEF Dropped
<1>5. ASSUME NEW r \in used
      PROVE  /\ records'[r] = records[r] \/ (r \in S /\ records'[r] = F(r))
             /\ db'[r] = db[r] \/ (r \in S /\ db'[r] = Futures!Stored(F(r)))
    BY <1>1, <1>2
<1> QED BY <1>1, <1>2, <1>4, <1>5 DEF CancelStep, Trained, Cancelled

LEMMA CancelsOnly ==
    ASSUME BaseInv, FutureInv, \A q \in used : Trained(q), FutureStep
    PROVE  CancelStep
<1>1. CASE UNCHANGED futureVars
    BY <1>1 DEF futureVars, CancelStep, Trained, Cancelled
<1>2. ASSUME NEW r \in Ops, NEW u \in Users, NEW m \in created, Futures!Enqueue(r, u, m, "train")
      PROVE  CancelStep
    <2> DEFINE rec == Queued(m, u, nextId)
    <2>1. /\ r \notin used /\ used' = used \cup {r}
          /\ records' = [records EXCEPT ![r] = rec] /\ db' = [db EXCEPT ![r] = Futures!Stored(rec)]
        BY <1>2 DEF Futures!Enqueue, Futures!Register, Futures!SaveFuture, SaveOutcomes, Queued
    <2>2. m \in Runs /\ nextId \in Nat
        BY DEF BaseInv, CountInv, FutureInv
    <2>3. /\ rec.error = "none" /\ Futures!Stored(rec).error = "none"
          /\ rec.kind = "train" /\ Futures!Stored(rec).kind = "train"
        BY <2>2, QueuedIsTyped, QueuedKind
    <2> HIDE DEF rec
    <2>4. /\ \A q \in used : db'[q] = db[q] /\ records'[q] = records[q]
          /\ records'[r] = rec /\ db'[r] = Futures!Stored(rec)
        BY <2>1 DEF FutureInv
    <2> QED BY <2>1, <2>3, <2>4 DEF CancelStep, Trained, Cancelled
<1>3. ASSUME NEW r \in Ops, Return(r) PROVE CancelStep
    <2>1. UNCHANGED <<records, db, used>>
        BY <1>3 DEF Return, Futures!OperationEnds, Futures!durable
    <2> QED BY <2>1 DEF CancelStep, Trained, Cancelled
<1>4. CASE Boot
    <2>1. /\ db' = db /\ used' = used
          /\ records' = [r \in Ops |-> IF r \in stored THEN Futures!Loaded(db[r])
                                                       ELSE Futures!NoRecord]
        BY <1>4 DEF Boot, Futures!Restart, Futures!durable, Requests
    <2>2. \A r \in used : r \in Ops /\ r \in stored /\ db[r] \in Futures!Durable
        BY DEF FutureInv
    <2>3. \A r \in used : records'[r].kind = db[r].kind /\ records'[r].error = db[r].error
        BY <2>1, <2>2, LoadedRecord, LoadedKind
    <2> QED BY <2>1, <2>3 DEF CancelStep, Trained, Cancelled
<1> QED BY <1>1, <1>2, <1>3, <1>4, PublishCancels, MarksCancel DEF FutureStep

(* The counter of future ids.                                              *)
LEMMA NextAfterIs ==
    ASSUME NEW S, S \subseteq Nat, NEW n \in Nat, \A i \in S : i <= n, n \in S
    PROVE  Futures!NextAfter(S) = n + 1
<1> DEFINE g == CHOOSE k \in S : \A i \in S : i <= k
<1>1. g \in S /\ \A i \in S : i <= g
    OBVIOUS
<1>2. Futures!NextAfter(S) = g + 1
    BY DEF Futures!NextAfter
<1> HIDE DEF g
<1>3. g \in Nat /\ g <= n /\ n <= g
    BY <1>1
<1> QED BY <1>2, <1>3

LastIsUsed == nextId = 1 \/ \E r \in used : Fid(r) = nextId - 1

IdStep ==
    /\ nextId <= nextId' /\ nextId \in Nat /\ nextId' \in Nat
    /\ used \subseteq used' /\ \A r \in used : db'[r].fid = db[r].fid /\ db'[r].model = db[r].model

LEMMA IdsMove ==
    ASSUME BaseInv, FutureInv, LastIsUsed, FutureStep
    PROVE  IdStep /\ LastIsUsed'
<1>0. /\ FutureInv' /\ FutureKeeps
    BY FutureNext, FutureEffects
<1>1. nextId \in Nat /\ nextId' \in Nat
    BY <1>0 DEF FutureInv
<1>2. CASE nextId' = nextId /\ used' = used
    BY <1>0, <1>1, <1>2 DEF IdStep, LastIsUsed, FutureKeeps, Fid
<1>3. ASSUME NEW r \in Ops, NEW u \in Users, NEW m \in created, Futures!Enqueue(r, u, m, "train")
      PROVE  IdStep /\ LastIsUsed'
    <2> DEFINE rec == Queued(m, u, nextId)
    <2>1. /\ used' = used \cup {r} /\ nextId' = nextId + 1
          /\ db' = [db EXCEPT ![r] = Futures!Stored(rec)]
        BY <1>3 DEF Futures!Enqueue, Futures!Register, Futures!SaveFuture, SaveOutcomes, Queued
    <2>2. m \in Runs
        BY DEF BaseInv, CountInv
    <2>3. Futures!Stored(rec).fid = nextId
        BY <1>1, <2>2, QueuedIsTyped
    <2> HIDE DEF rec
    <2>4. db'[r].fid = nextId
        BY <2>1, <2>3 DEF FutureInv
    <2> QED BY <1>0, <1>1, <2>1, <2>4 DEF IdStep, LastIsUsed, FutureKeeps, Fid
<1>4. CASE Boot
    <2> DEFINE ids == {db[r].fid : r \in stored}
    <2>1. /\ used' = used /\ stored = used /\ nextId' = Futures!NextAfter(ids)
        BY <1>4 DEF Boot, Futures!Restart, Futures!durable, FutureInv
    <2>2. ids \subseteq Nat /\ \A i \in ids : i < nextId
        BY DEF FutureInv, Futures!Durable
    <2>a. nextId' = Futures!NextAfter(ids)
        BY <2>1
    <2>b. nextId # 1 => nextId - 1 \in ids
        BY <2>1 DEF LastIsUsed, Fid
    <2> HIDE DEF ids
    <2>3. CASE nextId = 1
        <3>1. \A i \in ids : i = 0
            BY <2>2, <2>3
        <3>2. nextId' = 1
            <4>1. CASE ids = {}
                BY <2>a, <4>1 DEF Futures!NextAfter
            <4>2. CASE ids # {}
                <5>1. 0 \in ids
                    BY <3>1, <4>2
                <5>2. \A i \in ids : i <= 0
                    BY <3>1
                <5>3. ids \subseteq Nat /\ 0 \in Nat
                    BY <2>2
                <5>4. Futures!NextAfter(ids) = 0 + 1
                    BY <5>1, <5>2, <5>3, NextAfterIs
                <5> QED BY <2>a, <5>4
            <4> QED BY <4>1, <4>2
        <3> QED BY <1>2, <2>1, <2>3, <3>2
    <2>4. CASE nextId # 1
        <3>1. nextId - 1 \in ids
            BY <2>b, <2>4
        <3>2. /\ nextId - 1 \in Nat /\ \A i \in ids : i <= nextId - 1
            BY <1>1, <2>2, <3>1
        <3>3. Futures!NextAfter(ids) = (nextId - 1) + 1
            BY <2>2, <3>1, <3>2, NextAfterIs
        <3> QED BY <1>1, <1>2, <2>1, <2>a, <3>3
    <2> QED BY <2>3, <2>4
<1>5. CASE UNCHANGED futureVars
    BY <1>2, <1>5 DEF futureVars
<1>6. ASSUME NEW r \in Ops, Return(r) PROVE nextId' = nextId /\ used' = used
    BY <1>6 DEF Return, Futures!OperationEnds
<1>7. ASSUME NEW r \in Ops, Publish(r) PROVE nextId' = nextId /\ used' = used
    BY <1>7 DEF Publish, Futures!MarkBegin, Futures!MarkSave, Futures!MarkEnd, Futures!SaveFuture
<1>8. ASSUME NEW S, NEW saved, Marks(S, saved) PROVE nextId' = nextId /\ used' = used
    BY <1>8 DEF Marks, Futures!FailAll
<1> QED BY <1>2, <1>3, <1>4, <1>5, <1>6, <1>7, <1>8 DEF FutureStep

(* The step of an operation that is new, over or lost is its request.      *)
LEMMA PastMoves ==
    ASSUME BaseInv, FutureInv, [ServerNext]_serverVars, ~Boot, NEW r \in Ops, stage[r] \in Past
    PROVE  stage'[r] = stage[r] \/ Begin(r)
<1> USE DEF BaseInv
<1>1. ASSUME NEW q \in Ops, Begin(q), q # r PROVE stage'[r] = stage[r]
    <2>1. PICK k, s, src, t, n, F : Start(q, records[q].model, k, s, src, t, n, F)
        BY <1>1, BeginRequests
    <2>2. \/ stage' = [stage EXCEPT ![q] = "waiting"]
          \/ stage' = [stage EXCEPT ![q] = "done"]
        BY <2>1, Zenon DEF Start
    <2> QED BY <1>1, <2>2 DEF LockInv
<1>2. ASSUME NEW q \in Ops, Operate(q) PROVE stage'[r] = stage[r]
    <2>1. \A p \in Ops \ {q} : stage'[p] = stage[p]
        BY <1>2, ProceedOnlyOf DEF Operate, OnlyOf
    <2>2. stage[q] \notin Past
        BY <1>2, ProceedOnlyOf DEF Operate, OnlyOf, Active, Past
    <2> QED BY <2>1, <2>2
<1>3. ASSUME UNCHANGED coroutines PROVE stage'[r] = stage[r]
    BY <1>3 DEF coroutines
<1>4. ASSUME NEW m \in Runs, Manage(m) \/ RecoverRun(m) PROVE stage'[r] = stage[r]
    BY <1>3, <1>4, OutsideKeeps DEF Manage, RecoverRun, Pass, Restore, Recover
<1>5. CASE Crash \/ Open
    BY <1>3, <1>5, QuietKeeps DEF Crash, Open
<1>7. ASSUME UNCHANGED runVars PROVE stage'[r] = stage[r]
    BY <1>3, <1>7 DEF runVars, coroutines
<1>8. CASE FailPendingSamples \/ ReconcileFutures \/ CrashWhileReconciling \/ UNCHANGED serverVars
    BY <1>7, <1>8 DEF FailPendingSamples, ReconcileFutures, CrashWhileReconciling, serverVars
<1>9. ASSUME NEW q \in Ops, NEW u \in Users, NEW m \in Runs, Submit(q, u, m) PROVE stage'[r] = stage[r]
    BY <1>7, <1>9 DEF Submit
<1>10. ASSUME NEW q \in Ops, Return(q) \/ Publish(q) PROVE stage'[r] = stage[r]
    BY <1>7, <1>10 DEF Return, Publish
<1> QED BY <1>1, <1>2, <1>4, <1>5, <1>8, <1>9, <1>10 DEF ServerNext, Progress, Requests

(* While the server recovers, runs are restored one by one, and futures    *)
(* are failed.                                                             *)
LEMMA RecoveringStep ==
    ASSUME BaseInv, FutureInv, [ServerNext]_serverVars, ~Boot, phase' = "recovering"
    PROVE  /\ phase = "recovering" /\ UNCHANGED <<restored, used, nextId, stage>>
           /\ \/ \E m \in Runs : RecoverRun(m)
              \/ UNCHANGED runVars /\ boundary' = boundary /\ reconcile' \subseteq reconcile
<1>1. ASSUME NEW r \in Ops, NEW u \in Users, NEW m \in Runs, Submit(r, u, m) PROVE FALSE
    BY <1>1 DEF Submit, Futures!Enqueue, Futures!Register, Futures!control
<1>2. ASSUME NEW r \in Ops, Return(r) \/ Publish(r) PROVE FALSE
    BY <1>2 DEF Return, Publish, Futures!OperationEnds, Futures!MarkBegin, Futures!MarkSave,
        Futures!MarkEnd, Futures!control
<1>3. ASSUME NEW r \in Ops, Begin(r) PROVE FALSE
    BY <1>3, BeginRequests DEF Start, control, Serving
<1>4. ASSUME NEW r \in Ops, Operate(r) PROVE FALSE
    BY <1>4, CanEnterAtHead DEF Operate, Proceed, Conflict, Enter, EnterSave, CanEnter,
        Compute, Load, ComputeFails, Computing, SaveState, SaveStateFails, SerialiseCheckpoint,
        StoreCheckpoint, SerialiseCount, StoreCount, control, Serving
<1>5. ASSUME NEW m \in Runs, Manage(m) PROVE FALSE
    BY <1>5 DEF Manage, Unlocked, CreateModel, DeleteCheckpoint, CrashWhileDeleting, SetVisibility,
        RemoveAdapter, ForgetRun, control, Serving
<1>6. ASSUME NEW m \in Runs, RecoverRun(m)
      PROVE  phase = "recovering" /\ UNCHANGED <<restored, used, nextId, stage>>
    <2>1. UNCHANGED futureVars
        BY <1>6 DEF RecoverRun
    <2>2. phase = "recovering" /\ UNCHANGED coroutines
        BY <1>6, OutsideKeeps DEF RecoverRun, Pass, Restore, Recover, SkipRun, RecoverFresh,
            RecoverFromCheckpoint, RecoverCorrupted, CanRecover
    <2> QED BY <2>1, <2>2 DEF futureVars, coroutines
<1>7. CASE Crash \/ Open
    BY <1>7 DEF Crash, Open, ProcessEnds, FinishRecovery
<1>8. CASE CrashWhileReconciling
    BY <1>8 DEF CrashWhileReconciling, Futures!CrashWhileMarking
<1>9. CASE FailPendingSamples \/ ReconcileFutures
    <2>1. /\ UNCHANGED runVars /\ boundary' = boundary /\ reconcile' \subseteq reconcile
          /\ phase = "recovering" /\ \E S, saved : Futures!FailAll(S, saved)
        BY <1>9 DEF FailPendingSamples, ReconcileFutures, Futures!MarkPendingSamples,
            Futures!RecoverRun, recoveryVars
    <2> QED BY <2>1 DEF Futures!FailAll, runVars
<1>10. CASE UNCHANGED serverVars
    BY <1>10 DEF serverVars, recoveryVars, futureVars, runVars
<1> QED BY <1>1, <1>2, <1>3, <1>4, <1>5, <1>6, <1>7, <1>8, <1>9, <1>10
    DEF ServerNext, Progress, Requests

LEMMA PastNext ==
    ASSUME BaseInv, FutureInv, OldInv, PastInv, [ServerNext]_serverVars
    PROVE  PastInv'
<1>1. FutureStep /\ LastIsUsed /\ \A q \in used : Trained(q)
    BY EveryFutureStep DEF PastInv, LastIsUsed, Trained
<1>2. IdStep /\ LastIsUsed' /\ CancelStep
    BY <1>1, IdsMove, CancelsOnly
<1>3. CASE Boot
    <2>1. /\ restored' = stored /\ used' = used
          /\ stage' = [o \in Ops |-> IF stage[o] \in {"new", "done"} THEN stage[o] ELSE "lost"]
        BY <1>3 DEF Boot, Futures!Restart, Restart
    <2>2. \A o \in Ops : stage'[o] \in Past
        BY <2>1 DEF Past
    <2>3. restored' = used' /\ used \subseteq Ops
        BY <2>1 DEF FutureInv
    <2> QED BY <1>2, <2>1, <2>2, <2>3 DEF PastInv, LastIsUsed, CancelStep, Trained
<1>4. CASE ~Boot
    <2>1. restored' = restored /\ \A r \in restored : r \in Ops /\ task[r] = "none"
        BY <1>1, <1>4, OldStep DEF OldInv, FutureInv
    <2>2. \A r \in used' : Trained(r)' /\ (Cancelled(r)' => r \in restored')
        BY <1>2, <2>1 DEF CancelStep, Dropped, PastInv
    <2>3. ASSUME NEW r \in restored' PROVE stage'[r] \in Past
        <3>1. stage[r] \in Past /\ ~Begin(r)
            BY <2>1, <2>3 DEF PastInv, Begin
        <3> QED BY <1>4, <2>1, <2>3, <3>1, PastMoves
    <2>4. phase' = "recovering" => restored' = used' /\ \A o \in Ops : stage'[o] \in Past
        BY <1>4, RecoveringStep DEF PastInv
    <2> QED BY <1>2, <2>2, <2>3, <2>4 DEF PastInv, LastIsUsed, Trained
<1> QED BY <1>3, <1>4

LEMMA PastInit == ServerInit => PastInv
BY DEF ServerInit, Futures!Init, Init, PastInv, Past

(* The records of checkpoints in memory.                                   *)
Saving(o) == stage[o] = "executing" /\ op[o].kind = "save"
Loading(o) == stage[o] \in {"waiting", "executing"} /\ op[o].kind = "load"

Remembered(m) == \A c \in ckpts[m] : Written(m, c) /\ c.name < run[m].nextName[c.type]
NamedAnew(o) == Saving(o) => \A c \in ckpts[Mine(o)] : c.name # making[o].name
Found(o) == Loading(o) => "load" \in Kinds /\ \E c \in ckpts[op[o].source] : c.name = op[o].name

MemoryInv ==
    /\ \A m \in Runs : Remembered(m)
    /\ \A o \in Ops : NamedAnew(o) /\ Found(o)
    /\ phase = "recovering" => \A m \in Runs : ckpts[m] = dbCkpts[m]

(* Names are numbers of the one type there is.                             *)
LEMMA MemoryTypes ==
    ASSUME BaseInv, NEW m \in Runs
    PROVE  /\ run[m].nextName \in [Types -> Nat]
           /\ \A c \in ckpts[m] : c.type \in Types /\ c.name \in Nat /\ c.name \in Names
<1>1. ckpts[m] \subseteq Checkpoint
    BY DEF BaseInv, TypedInv
<1> QED BY <1>1, CounterTypes, NamesAreNumbers DEF Checkpoint

LEMMA ProceedMemory ==
    ASSUME KeptFiles, BaseInv, NumberedInv, FilesInv, MemoryInv, NEW o \in Ops, Proceed(o)
    PROVE  MemoryInv'
<1> DEFINE m == Mine(o)
<1>1. /\ OnlyOf(o) /\ AtHead(o) /\ m \in Runs /\ op' = op /\ Mine(o)' = m /\ phase' = phase
      /\ phase = "serving"
    <2>1. OnlyOf(o) /\ AtHead(o) /\ m \in Runs
        BY ProceedOnlyOf, ProceedAtHead DEF BaseInv, LockInv
    <2>2. phase = "serving"
        BY DEF Proceed, Conflict, Enter, EnterSave, CanEnter, Compute, Load, ComputeFails, Computing,
            SaveState, SaveStateFails, SerialiseCheckpoint, StoreCheckpoint, SerialiseCount,
            StoreCount, Serving
    <2> QED BY <2>1, <2>2 DEF OnlyOf, Mine
<1>2. /\ Remembered(m) /\ NamedAnew(o) /\ ckpts[m] \subseteq Checkpoint
      /\ run[m].nextName \in [Types -> Nat]
      /\ \A c \in ckpts[m] : c.type \in Types /\ c.name \in Nat /\ c.name \in Names
    BY <1>1, MemoryTypes DEF MemoryInv, BaseInv, TypedInv
<1>3. ASSUME NEW p \in Ops \ {o} PROVE NamedAnew(p)'
    <2>1. /\ stage'[p] = stage[p] /\ making'[p] = making[p]
          /\ Mine(p)' = Mine(p) /\ op'[p] = op[p]
        BY <1>1 DEF OnlyOf, Mine
    <2>2. stage[p] = "executing" => ckpts'[Mine(p)] = ckpts[Mine(p)]
        BY <1>1, Alone DEF BaseInv, LockInv, OnlyOf, OthersKept, Active
    <2>3. NamedAnew(p)
        BY DEF MemoryInv
    <2> QED BY <2>1, <2>2, <2>3 DEF NamedAnew, Saving
<1>4. ASSUME NEW r \in Runs \ {m} PROVE Remembered(r)' /\ ckpts'[r] = ckpts[r]
    <2>1. dirs'[r] = dirs[r] /\ ckpts'[r] = ckpts[r] /\ run'[r] = run[r]
        BY <1>1 DEF OnlyOf, OthersKept
    <2>2. Remembered(r)
        BY DEF MemoryInv
    <2> QED BY <2>1, <2>2 DEF Remembered, Written
<1>5. /\ \A c \in ckpts'[m] : /\ dirs'[m][c.name] = [state |-> "complete", weights |-> c.weights]
                             /\ c.name < run'[m].nextName[c.type]
      /\ NamedAnew(o)'
      /\ \A c \in ckpts[m] : \E d \in ckpts'[m] : d.name = c.name
    <2>1. CASE EnterSave(o)
        <3> DEFINE n == SaveName(o)
        <3> DEFINE t == op[o].type
        <3>1. n \in Names /\ t \in Types /\ op[o].name = AutoName /\ n = run[m].nextName[t]
            BY <2>1, NewNameIsUnused
            DEF EnterSave, BaseInv, Ended, Arguments, KeptFiles, GeneratedNames, SaveName
        <3>2. /\ ckpts' = ckpts /\ stage'[o] = "executing"
              /\ making'[o].name = n
              /\ dirs' = [dirs EXCEPT ![m][n] = [state |-> "partial", weights |-> {}]]
              /\ run' = [run EXCEPT ![m].nextName[t] = @ + 1]
            BY <2>1 DEF EnterSave, GoTo, BaseInv, LockInv, TypedInv, NewCheckpoint, TakeName
        <3>3. \A c \in ckpts[m] : c.type = t /\ c.name < n
            BY <1>2, <3>1 DEF Remembered, KeptFiles, OneType
        <3>4. \A x \in Names \ {n} : dirs'[m][x] = dirs[m][x]
            BY <1>1, <3>1, <3>2 DEF BaseInv, TypedInv
        <3>5. run'[m].nextName[t] = n + 1 /\ n \in Nat
            <4>1. run \in [Runs -> CountedRun] /\ run[m].nextName \in [Types -> Nat]
                BY <1>2 DEF BaseInv, CountInv
            <4>2. run[m] \in Run
                BY <1>1, <4>1 DEF CountedRun
            <4>3. run'[m].nextName = [run[m].nextName EXCEPT ![t] = @ + 1]
                BY <1>1, <3>2, <4>1, <4>2 DEF Run
            <4> QED BY <3>1, <4>1, <4>3
        <3> HIDE DEF n, t
        <3>6. ASSUME NEW c \in ckpts[m]
              PROVE  dirs'[m][c.name] = dirs[m][c.name] /\ c.name < run'[m].nextName[c.type]
                     /\ c.name # n
            <4>1. c.type = t /\ c.name < n /\ c.name \in Nat /\ c.name \in Names
                BY <1>2, <3>3
            <4> QED BY <3>4, <3>5, <4>1
        <3>7. NamedAnew(o)'
            BY <1>1, <3>2, <3>6 DEF NamedAnew
        <3> QED BY <1>2, <3>2, <3>6, <3>7 DEF Remembered, Written
    <2>2. CASE SaveState(o)
        <3> DEFINE k == making[o]
        <3>1. /\ stage[o] = "executing" /\ op[o].kind = "save" /\ stage'[o] = "storing"
              /\ run' = run
            BY <2>2 DEF SaveState, GoTo, BaseInv, LockInv
        <3>2. k \in Checkpoint /\ k.name \in Names /\ k.type \in Types
            BY <3>1 DEF BaseInv, TypedInv, Naming, Checkpoint
        <3>3. /\ dirs[m][k.name].state = "partial" /\ \A c \in ckpts[m] : c.name # k.name
              /\ k.name < run[m].nextName[k.type]
            BY <1>2, <3>1 DEF Making, NamedAnew, Saving, FilesInv, NumberedInv, ChosenName, Naming
        <3>4. /\ dirs' = [dirs EXCEPT ![m][k.name] =
                          [state |-> IF @.state = "partial" THEN "complete" ELSE "partial",
                           weights |-> k.weights]]
              /\ ckpts' = [ckpts EXCEPT ![m] = {d \in @ : d.type # k.type \/ d.name # k.name} \cup {k}]
            BY <2>2 DEF SaveState
        <3>5. /\ dirs'[m][k.name] = [state |-> "complete", weights |-> k.weights]
              /\ \A x \in Names \ {k.name} : dirs'[m][x] = dirs[m][x]
            BY <1>1, <3>2, <3>3, <3>4 DEF BaseInv, TypedInv
        <3>6. ckpts'[m] = ckpts[m] \cup {k}
            BY <1>1, <3>3, <3>4 DEF BaseInv, TypedInv
        <3> HIDE DEF k
        <3>7. NamedAnew(o)'
            BY <3>1 DEF NamedAnew, Saving
        <3>8. \A c \in ckpts[m] : dirs'[m][c.name] = dirs[m][c.name]
            BY <1>2, <3>3, <3>5
        <3> QED BY <1>2, <3>1, <3>3, <3>5, <3>6, <3>7, <3>8 DEF Remembered, Written
    <2>3. CASE ~EnterSave(o) /\ ~SaveState(o)
        <3>1. /\ dirs' = dirs /\ ckpts' = ckpts /\ (run' = run \/ Count(o))
              /\ ~(stage'[o] = "executing" /\ op[o].kind = "save")
            BY <2>3 DEF Proceed, Conflict, Enter, Compute, Load, ComputeFails, SaveStateFails,
                SerialiseCheckpoint, StoreCheckpoint, SerialiseCount, StoreCount, objects, Finish, GoTo,
                BaseInv, LockInv
        <3>2. run'[m].nextName = run[m].nextName
            <4>1. run \in [Runs -> CountedRun] /\ run[m] \in Run
                BY <1>1 DEF BaseInv, CountInv, CountedRun
            <4> QED BY <1>1, <3>1, <4>1 DEF Count, Run
        <3>3. NamedAnew(o)'
            BY <1>1, <3>1 DEF NamedAnew, Saving
        <3> QED BY <1>2, <3>1, <3>2, <3>3 DEF Remembered, Written
    <2> QED BY <2>1, <2>2, <2>3
<1>6. ASSUME NEW r \in Runs PROVE Remembered(r)'
    <2>1. CASE r = m
        BY <1>5, <2>1 DEF Remembered, Written
    <2> QED BY <1>4, <2>1
<1>7. ASSUME NEW p \in Ops PROVE Found(p)'
    <2>1. Loading(p)' => Loading(p) /\ op'[p] = op[p]
        <3>1. stage'[p] = stage[p] \/ (p = o /\ stage[o] \in {"waiting", "executing"})
              \/ (p = o /\ stage'[o] \notin {"waiting", "executing"})
            BY <1>1, <1>5 DEF OnlyOf, Proceed, Conflict, Enter, EnterSave, CanEnter, Compute, Load,
                ComputeFails, Computing, SaveState, SaveStateFails, SerialiseCheckpoint,
                StoreCheckpoint, SerialiseCount, StoreCount, GoTo, Finish, BaseInv, LockInv
        <3> QED BY <1>1, <3>1 DEF Loading
    <2>2. \A s \in Runs : \A c \in ckpts[s] : \E d \in ckpts'[s] : d.name = c.name
        BY <1>4, <1>5
    <2>3. Loading(p) => op[p].source \in Runs /\ Found(p)
        BY DEF Loading, MemoryInv, BaseInv, Ended, Arguments
    <2> QED BY <2>1, <2>2, <2>3 DEF Found
<1> QED BY <1>1, <1>3, <1>5, <1>6, <1>7 DEF MemoryInv

LEMMA MemoryNext ==
    ASSUME KeptFiles, BaseInv, NumberedInv, FilesInv, MemoryInv, [Next]_trainingVars
    PROVE  MemoryInv'
<1>1. ASSUME UNCHANGED <<dirs, ckpts, stage, op, making>>,
             \A m \in Runs : run'[m].nextName = run[m].nextName,
             phase' = "recovering" => phase = "recovering" /\ dbCkpts' = dbCkpts
      PROVE  MemoryInv'
    <2>1. ASSUME NEW r \in Runs PROVE Remembered(r)'
        BY <1>1 DEF MemoryInv, Remembered, Written
    <2>2. ASSUME NEW p \in Ops PROVE NamedAnew(p)' /\ Found(p)'
        BY <1>1 DEF MemoryInv, NamedAnew, Found, Saving, Loading, Mine
    <2> QED BY <1>1, <2>1, <2>2 DEF MemoryInv
<1>2. ASSUME NEW o \in Ops, Request(o) PROVE MemoryInv'
    <2>1. PICK m, k, s, src, t, n, F : k \in Kinds /\ Start(o, m, k, s, src, t, n, F)
        BY <1>2 DEF Request
    <2>2. /\ UNCHANGED <<dirs, ckpts, making, run, phase>> /\ phase = "serving"
          /\ \A p \in Ops \ {o} : stage'[p] = stage[p] /\ op'[p] = op[p]
          /\ op'[o].kind = k /\ op'[o].source = src /\ op'[o].name = n
          /\ \/ stage'[o] = "waiting" /\ Accepts(m, k, src, t, n)
             \/ stage'[o] = "done"
        BY <2>1 DEF Start, objects, control, Serving, BaseInv, LockInv
    <2>3. ASSUME NEW r \in Runs PROVE Remembered(r)'
        BY <2>2 DEF MemoryInv, Remembered, Written
    <2>4. ASSUME NEW p \in Ops \ {o} PROVE NamedAnew(p)' /\ Found(p)'
        BY <2>2 DEF MemoryInv, NamedAnew, Found, Saving, Loading, Mine
    <2>5. NamedAnew(o)' /\ Found(o)'
        BY <2>1, <2>2 DEF NamedAnew, Found, Saving, Loading, Accepts, Loadable
    <2> QED BY <2>2, <2>3, <2>4, <2>5 DEF MemoryInv
<1>3. ASSUME NEW m \in Runs, Unlocked(m) \/ Recover(m) PROVE MemoryInv'
    <2>1. UNCHANGED <<op, stage, making>>
        BY <1>3, OutsideKeeps DEF coroutines
    <2>2. /\ UNCHANGED <<dirs, ckpts>>
          /\ run' = run \/ run' = [run EXCEPT ![m].corrupted = TRUE]
        BY <1>3 DEF Unlocked, CreateModel, DeleteCheckpoint, CrashWhileDeleting, SetVisibility,
            RemoveAdapter, ForgetRun, Recover, SkipRun, RecoverFresh, RecoverFromCheckpoint,
            RecoverCorrupted, objects, KeptFiles
    <2>3. phase' = "recovering" => phase = "recovering" /\ dbCkpts' = dbCkpts
        BY <1>3 DEF Unlocked, CreateModel, DeleteCheckpoint, CrashWhileDeleting, SetVisibility,
            RemoveAdapter, ForgetRun, Recover, SkipRun, RecoverFresh, RecoverFromCheckpoint,
            RecoverCorrupted, CanRecover, control, durable, Serving
    <2>4. \A r \in Runs : run'[r].nextName = run[r].nextName
        <3>1. run \in [Runs -> CountedRun] /\ \A r \in Runs : run[r] \in Run
            BY DEF BaseInv, CountInv, CountedRun
        <3> QED BY <2>2, <3>1 DEF Run
    <2> QED BY <1>1, <2>1, <2>2, <2>3, <2>4
<1>4. CASE Restart
    <2>1. /\ UNCHANGED <<dirs, dbCkpts>> /\ \A p \in Ops : stage'[p] \in {"new", "done", "lost"}
          /\ ckpts' = [m \in Runs |-> IF m \in dbRuns THEN dbCkpts[m] ELSE {}]
          /\ run' = [m \in Runs |-> RestoredRun(m)]
        BY <1>4 DEF Restart, durable
    <2>2. ASSUME NEW m \in Runs PROVE ckpts'[m] = dbCkpts'[m]
        BY <2>1 DEF NumberedInv, StoredNames
    <2>3. ASSUME NEW m \in Runs PROVE Remembered(m)'
        <3>1. CASE m \in dbRuns
            BY <2>1, <3>1 DEF Remembered, Written, FilesInv, NumberedInv, StoredNames, RestoredRun
        <3>2. CASE m \notin dbRuns
            BY <2>1, <3>2 DEF Remembered
        <3> QED BY <3>1, <3>2
    <2>4. ASSUME NEW p \in Ops PROVE NamedAnew(p)' /\ Found(p)'
        BY <2>1 DEF NamedAnew, Found, Saving, Loading
    <2> QED BY <2>2, <2>3, <2>4 DEF MemoryInv
<1>5. ASSUME FinishRecovery \/ ProcessEnds \/ UNCHANGED trainingVars PROVE MemoryInv'
    <2>1. phase' = "recovering" => phase = "recovering"
        BY <1>5 DEF FinishRecovery, ProcessEnds, trainingVars, control
    <2> QED BY <1>1, <1>5, <2>1, QuietKeeps DEF coroutines, objects, durable
<1> QED BY <1>2, <1>3, <1>4, <1>5, ProceedMemory DEF Next

LEMMA MemoryInit == Init => MemoryInv
BY DEF Init, MemoryInv, Remembered, NamedAnew, Found, Saving, Loading

(* Runs that are corrupted.                                                *)
Given(m) == run[m].corrupted /\ (m \in dbRuns => dbRun[m].corrupted)

Barren(m) ==
    run[m].corrupted =>
        m \in created /\ "backend" \in Faults /\ Applied(m) = {} /\ ~adapters[m].here

Snapped(o) ==
    stage[o] \in {"writing", "finishing"} /\ snap[o].run =>
        snap[o].value.corrupted = run[Mine(o)].corrupted

CorruptInv ==
    /\ enabled
    /\ \A m \in Runs : Barren(m)
    /\ \A m \in dbRuns : dbRun[m].corrupted => run[m].corrupted
    /\ \A o \in Ops : Snapped(o)
    /\ phase = "recovering" =>
          /\ runs = dbRuns
          /\ \A m \in runs \ recovered : run[m].corrupted => dbRun[m].corrupted
          /\ \A m \in Runs \ recovered : adapters[m] = NoAdapter
          /\ \A x \in reconcile : x.run \in recovered /\ (x.pendingOnly => Given(x.run))

LEMMA RunTypes ==
    ASSUME BaseInv
    PROVE  /\ run \in [Runs -> CountedRun] /\ dbRun \in [Runs -> CountedRun]
           /\ \A r \in Runs : run[r] \in Run /\ dbRun[r] \in Run
           /\ created \subseteq Runs /\ runs \subseteq created /\ dbRuns \subseteq created
BY DEF BaseInv, CountInv, CountedRun

(* Within a process a run turns corrupted in recovery only, and what is    *)
(* written of a run says what its record in memory says.                   *)
LEMMA CorruptStep ==
    ASSUME BaseInv, CorruptInv, [Next]_trainingVars, ~Restart, NEW m \in Runs
    PROVE  /\ enabled' = enabled
           /\ \/ run'[m].corrupted = run[m].corrupted
              \/ RecoverCorrupted(m) /\ run'[m].corrupted
           /\ m \in dbRuns' => \/ dbRun'[m].corrupted = run'[m].corrupted
                               \/ m \in dbRuns /\ dbRun'[m] = dbRun[m]
<1>0. /\ run \in [Runs -> CountedRun] /\ dbRun \in [Runs -> CountedRun]
      /\ \A r \in Runs : run[r] \in Run /\ dbRun[r] \in Run
    BY RunTypes
<1>1. ASSUME UNCHANGED <<enabled, run>>,
             NEW r \in Runs, NEW v,
             \/ UNCHANGED <<dbRuns, dbRun>>
             \/ StoreRun(r, v) /\ (r \notin dbRuns' \/ v.corrupted = run[r].corrupted)
      PROVE  /\ enabled' = enabled /\ run'[m].corrupted = run[m].corrupted
             /\ m \in dbRuns' => \/ dbRun'[m].corrupted = run'[m].corrupted
                                 \/ m \in dbRuns /\ dbRun'[m] = dbRun[m]
    BY <1>0, <1>1 DEF StoreRun
<1>2. ASSUME NEW o \in Ops, Request(o)
      PROVE  \E r \in Runs : /\ UNCHANGED <<enabled, run>>
                             /\ UNCHANGED <<dbRuns, dbRun>> \/ StoreRun(r, run[r])
    BY <1>2 DEF Request, Start, control, objects
<1>3. ASSUME NEW o \in Ops, Proceed(o)
      PROVE  /\ enabled' = enabled /\ run'[m].corrupted = run[m].corrupted
             /\ m \in dbRuns' => \/ dbRun'[m].corrupted = run'[m].corrupted
                                 \/ m \in dbRuns /\ dbRun'[m] = dbRun[m]
    <2>1. enabled' = enabled
        BY <1>3 DEF Proceed, Conflict, Enter, EnterSave, Compute, Load, ComputeFails, SaveState,
            SaveStateFails, SerialiseCheckpoint, StoreCheckpoint, SerialiseCount, StoreCount, control
    <2>2. run' = run \/ Count(o) \/ TakeName(o)
        BY <1>3 DEF Proceed, Conflict, Enter, EnterSave, Compute, Load, ComputeFails, SaveState,
            SaveStateFails, SerialiseCheckpoint, StoreCheckpoint, SerialiseCount, StoreCount, objects
    <2>3. ASSUME NEW r \in Runs PROVE run'[r].corrupted = run[r].corrupted
        <3>1. CASE Count(o)
            BY <1>0, <3>1 DEF Count, Run
        <3>2. CASE TakeName(o)
            BY <1>0, <3>2 DEF TakeName, Run
        <3> QED BY <2>2, <3>1, <3>2
    <2>4. Snapped(o) /\ Mine(o) \in Runs
        BY DEF CorruptInv, BaseInv, LockInv
    <2>5. \/ UNCHANGED <<dbRuns, dbRun>>
          \/ /\ snap[o].run /\ stage[o] \in {"writing", "finishing"}
             /\ dbRuns' = dbRuns \cup {Mine(o)}
             /\ dbRun' = [dbRun EXCEPT ![Mine(o)] = snap[o].value]
        BY <1>3 DEF Proceed, Conflict, Enter, EnterSave, Compute, Load, ComputeFails, SaveState,
            SaveStateFails, SerialiseCheckpoint, StoreCheckpoint, SerialiseCount, StoreCount, durable,
            WriteBoth, WriteCount, StoreRun
    <2> QED BY <1>0, <2>1, <2>3, <2>4, <2>5 DEF Snapped
<1>4. ASSUME NEW r \in Runs, Unlocked(r)
      PROVE  /\ enabled' = enabled /\ run'[m].corrupted = run[m].corrupted
             /\ m \in dbRuns' => \/ dbRun'[m].corrupted = run'[m].corrupted
                                 \/ m \in dbRuns /\ dbRun'[m] = dbRun[m]
    <2>1. UNCHANGED <<enabled, run>>
        BY <1>4 DEF Unlocked, CreateModel, DeleteCheckpoint, CrashWhileDeleting, SetVisibility,
            RemoveAdapter, ForgetRun, control, objects
    <2>2. CASE CreateModel(r)
        <3>1. StoreRun(r, FreshRun) /\ r \notin created /\ ~run[r].corrupted
            BY <2>2, <1>0 DEF CreateModel, CorruptInv, Barren, Run
        <3>2. FreshRun.corrupted = run[r].corrupted
            <4>1. run[r].corrupted \in BOOLEAN
                BY <1>0 DEF Run
            <4> QED BY <3>1, <4>1 DEF FreshRun
        <3> QED BY <1>1, <2>1, <3>1, <3>2
    <2>3. CASE ForgetRun(r)
        BY <1>0, <2>1, <2>3 DEF ForgetRun
    <2>4. CASE UNCHANGED <<dbRuns, dbRun>> \/ StoreRun(r, run[r])
        BY <1>1, <2>1, <2>4
    <2> QED BY <1>4, <2>2, <2>3, <2>4 DEF Unlocked, DeleteCheckpoint, CrashWhileDeleting,
            SetVisibility, RemoveAdapter, durable
<1>5. ASSUME NEW r \in Runs, Recover(r)
      PROVE  /\ enabled' = enabled
             /\ \/ run'[m].corrupted = run[m].corrupted
                \/ RecoverCorrupted(m) /\ run'[m].corrupted
             /\ m \in dbRuns' => \/ dbRun'[m].corrupted = run'[m].corrupted
                                 \/ m \in dbRuns /\ dbRun'[m] = dbRun[m]
    <2>1. CASE ~RecoverCorrupted(r)
        <3>1. UNCHANGED <<enabled, run, dbRuns, dbRun>>
            BY <1>5, <2>1 DEF Recover, SkipRun, RecoverFresh, RecoverFromCheckpoint, objects, durable
        <3> QED BY <1>1, <1>5, <3>1
    <2>2. CASE RecoverCorrupted(r)
        <3>1. /\ enabled' = enabled /\ run' = [run EXCEPT ![r].corrupted = TRUE]
              /\ StoreRun(r, run'[r])
            BY <2>2 DEF RecoverCorrupted
        <3>2. /\ run'[r].corrupted /\ (m # r => run'[m] = run[m])
            BY <1>0, <3>1 DEF Run
        <3>3. m \in dbRuns' => \/ dbRun'[m] = run'[m]
                               \/ m \in dbRuns /\ dbRun'[m] = dbRun[m]
            <4>1. CASE UNCHANGED <<dbRuns, dbRun>>
                BY <4>1
            <4>2. CASE dbRuns' = dbRuns \cup {r} /\ dbRun' = [dbRun EXCEPT ![r] = run'[r]]
                BY <1>0, <4>2
            <4> QED BY <3>1, <4>1, <4>2 DEF StoreRun
        <3> QED BY <2>2, <3>1, <3>2, <3>3
    <2> QED BY <2>1, <2>2
<1>6. ASSUME FinishRecovery \/ ProcessEnds \/ UNCHANGED trainingVars
      PROVE  UNCHANGED <<enabled, run, dbRuns, dbRun>>
    BY <1>6, QuietKeeps DEF objects, durable
<1>7. CASE \E o \in Ops : Request(o)
    <2>1. PICK r \in Runs : /\ UNCHANGED <<enabled, run>>
                            /\ UNCHANGED <<dbRuns, dbRun>> \/ StoreRun(r, run[r])
        BY <1>2, <1>7
    <2> QED BY <1>1, <2>1
<1>8. CASE FinishRecovery \/ ProcessEnds \/ UNCHANGED trainingVars
    BY <1>1, <1>6, <1>8
<1> QED BY <1>3, <1>4, <1>5, <1>7, <1>8 DEF Next

(* No operation outside the lock touches the adapter of another run.       *)
LEMMA OutsideAdapters ==
    ASSUME BaseInv, NEW r \in Runs, Unlocked(r) \/ Recover(r), NEW m \in Runs, m # r
    PROVE  adapters'[m] = adapters[m]
<1>0. adapters \in [Runs -> Adapter]
    BY DEF BaseInv, TypedInv
<1>1. ASSUME NEW c, adapters' = [adapters EXCEPT ![r] =
                       [FreshAdapter EXCEPT !.weights = dirs[r][c.name].weights]]
      PROVE  adapters'[m] = adapters[m]
    BY <1>0, <1>1
<1>2. ASSUME NEW a \in {FreshAdapter, NoAdapter}, adapters' = [adapters EXCEPT ![r] = a]
      PROVE  adapters'[m] = adapters[m]
    BY <1>0, <1>2
<1>3. CASE RecoverFromCheckpoint(r)
    BY <1>1, <1>3 DEF RecoverFromCheckpoint
<1>4. CASE ~RecoverFromCheckpoint(r)
    <2>1. \/ adapters' = adapters
          \/ \E a \in {FreshAdapter, NoAdapter} : adapters' = [adapters EXCEPT ![r] = a]
        BY <1>4 DEF Unlocked, CreateModel, DeleteCheckpoint, CrashWhileDeleting,
            SetVisibility, RemoveAdapter, ForgetRun, Recover, SkipRun, RecoverFresh,
            RecoverCorrupted
    <2> QED BY <1>2, <2>1
<1> QED BY <1>3, <1>4

(* Nothing is computed for a corrupted run.                                *)
LEMMA StaysBarren ==
    ASSUME RightWeights, BaseInv, MemoryInv, [Next]_trainingVars, NEW m \in Runs,
           Barren(m), run[m].corrupted
    PROVE  m \in created' /\ Applied(m)' = {} /\ ~adapters'[m].here
<1>0. /\ adapters \in [Runs -> Adapter] /\ m \in created /\ "load" \notin Kinds
      /\ adapters[m].weights = {} /\ adapters[m].grads = {} /\ ~adapters[m].here
    BY DEF BaseInv, TypedInv, Barren, Applied, RightWeights
<1>1. m \in created'
    BY <1>0, BaseNext DEF OpsStep
<1>2. NoAdapter.weights = {} /\ NoAdapter.grads = {} /\ ~NoAdapter.here
    BY DEF NoAdapter
<1>3. CASE adapters'[m] = adapters[m] \/ adapters'[m] = NoAdapter
    BY <1>0, <1>1, <1>2, <1>3 DEF Applied
<1>4. ASSUME NEW o \in Ops, Request(o) PROVE adapters' = adapters
    BY <1>4 DEF Request, Start
<1>5. ASSUME NEW o \in Ops, Proceed(o) PROVE adapters'[m] = adapters[m]
    <2>1. CASE Mine(o) # m
        BY <1>5, <2>1, ProceedOnlyOf DEF BaseInv, OnlyOf, OthersKept
    <2>2. CASE Mine(o) = m
        <3>1. ~Load(o)
            BY <1>0 DEF Load, Computing, MemoryInv, Found, Loading
        <3>2. ~Compute(o)
            BY <1>0, <2>2 DEF Compute
        <3>3. ComputeFails(o) => adapters' = adapters
            BY <1>0, <2>2 DEF ComputeFails
        <3> QED BY <1>5, <3>1, <3>2, <3>3 DEF Proceed, Conflict, Enter, EnterSave, SaveState,
                SaveStateFails, SerialiseCheckpoint, StoreCheckpoint, SerialiseCount, StoreCount
    <2> QED BY <2>1, <2>2
<1>6. ASSUME NEW r \in Runs, Unlocked(r) \/ Recover(r)
      PROVE  adapters'[m] = adapters[m] \/ adapters'[m] = NoAdapter
    <2>1. CASE r # m
        BY <1>6, <2>1, OutsideAdapters
    <2>2. CASE r = m
        <3>1. adapters' = adapters \/ adapters' = [adapters EXCEPT ![m] = NoAdapter]
            BY <1>0, <1>6, <2>2 DEF Unlocked, CreateModel, DeleteCheckpoint, CrashWhileDeleting,
                SetVisibility, RemoveAdapter, ForgetRun, Recover, SkipRun, RecoverFresh,
                RecoverFromCheckpoint, RecoverCorrupted
        <3> QED BY <1>0, <3>1
    <2> QED BY <2>1, <2>2
<1>7. ASSUME Restart PROVE adapters'[m] = NoAdapter
    BY <1>7 DEF Restart
<1>8. ASSUME FinishRecovery \/ ProcessEnds \/ UNCHANGED trainingVars PROVE adapters' = adapters
    BY <1>8, QuietKeeps
<1> QED BY <1>3, <1>4, <1>5, <1>6, <1>7, <1>8 DEF Next

(* What leads to a corrupted run.                                          *)
LEMMA BecomesBarren ==
    ASSUME RightWeights, BaseInv, MemoryInv, NEW m \in Runs, RecoverCorrupted(m),
           adapters[m] = NoAdapter
    PROVE  Barren(m)'
<1>1. "backend" \in Faults
    <2>1. \A c \in Latest(ckpts[m]) : dirs[m][c.name].state = "complete"
        <3>1. ASSUME NEW c \in Latest(ckpts[m]) PROVE dirs[m][c.name].state = "complete"
            <4>1. c \in ckpts[m] /\ Remembered(m)
                BY LatestAreRecords DEF MemoryInv, BaseInv
            <4>2. dirs[m][c.name] = [state |-> "complete", weights |-> c.weights]
                BY <4>1 DEF Remembered, Written
            <4> QED BY <4>2
        <3> QED BY <3>1
    <2>2. "config" \notin Faults
        BY DEF RightWeights
    <2> QED BY <2>1, <2>2 DEF RecoverCorrupted
<1>2. m \in created' /\ adapters'[m] = NoAdapter
    BY DEF RecoverCorrupted, CanRecover, BaseInv, CountInv
<1> QED BY <1>1, <1>2 DEF Barren, Applied, NoAdapter

LEMMA SnappedNext ==
    ASSUME BaseInv, CorruptInv, phase = "recovering" => \A o \in Ops : stage[o] \in Past,
           [Next]_trainingVars, NEW o \in Ops
    PROVE  Snapped(o)'
<1>0. Snapped(o) /\ Mine(o) \in Runs /\ stage \in [Ops -> Stages] /\ DOMAIN snap = Ops
    BY DEF CorruptInv, BaseInv, LockInv, CountInv
<1>1. CASE Restart
    BY <1>1 DEF Restart, Snapped
<1>2. ASSUME stage'[o] = stage[o], op'[o] = op[o], snap'[o] = snap[o], ~Restart
      PROVE  Snapped(o)'
    <2>1. CASE run'[Mine(o)].corrupted = run[Mine(o)].corrupted
        BY <1>0, <1>2, <2>1 DEF Snapped, Mine
    <2>2. CASE RecoverCorrupted(Mine(o))
        <3>1. stage[o] \in Past
            BY <2>2 DEF RecoverCorrupted, CanRecover
        <3> QED BY <1>2, <3>1 DEF Snapped, Past
    <2> QED BY <1>0, <1>2, <2>1, <2>2, CorruptStep
<1>3. ASSUME NEW p \in Ops, Request(p), ~Restart PROVE Snapped(o)'
    <2>1. PICK m, k, s, src, t, n, F : Start(p, m, k, s, src, t, n, F)
        BY <1>3 DEF Request
    <2>2. /\ snap' = snap /\ stage'[p] \in {"waiting", "done"}
          /\ o # p => stage'[o] = stage[o] /\ op'[o] = op[o]
        BY <2>1 DEF Start, BaseInv, LockInv
    <2> QED BY <1>2, <1>3, <2>2 DEF Snapped
<1>4. ASSUME NEW p \in Ops, Proceed(p), ~Restart PROVE Snapped(o)'
    <2>1. OnlyOf(p)
        BY <1>4, ProceedOnlyOf DEF BaseInv
    <2>2. CASE o # p
        BY <1>2, <1>4, <2>1, <2>2 DEF OnlyOf
    <2>3. CASE o = p
        <3>1. CASE SerialiseCheckpoint(o) \/ SerialiseCount(o)
            <4>1. /\ op' = op /\ run' = run
                  /\ snap'[o].run => snap'[o].value = run[Mine(o)]
                BY <1>0, <3>1 DEF SerialiseCheckpoint, SerialiseCount, objects, NothingToWrite
            <4> QED BY <4>1 DEF Snapped, Mine
        <3>2. CASE ~SerialiseCheckpoint(o) /\ ~SerialiseCount(o)
            <4>1. stage'[o] \notin {"writing", "finishing"}
                BY <1>0, <1>4, <2>3, <3>2 DEF Proceed, Conflict, Enter, EnterSave, Compute, Load,
                    ComputeFails, SaveState, SaveStateFails, StoreCheckpoint, StoreCount, Finish, GoTo
            <4> QED BY <4>1 DEF Snapped
        <3> QED BY <3>1, <3>2
    <2> QED BY <2>2, <2>3
<1>5. ASSUME NEW m \in Runs, Unlocked(m) \/ Recover(m), ~Restart PROVE Snapped(o)'
    BY <1>2, <1>5, OutsideKeeps DEF coroutines
<1>6. ASSUME FinishRecovery \/ ProcessEnds \/ UNCHANGED trainingVars, ~Restart PROVE Snapped(o)'
    BY <1>2, <1>6, QuietKeeps DEF coroutines
<1> QED BY <1>1, <1>3, <1>4, <1>5, <1>6 DEF Next

LEMMA BootOnlyRestarts ==
    ASSUME BaseInv, FutureInv, [ServerNext]_serverVars, ~Boot
    PROVE  ~Restart
BY RecoveringStep DEF Restart

(* What the restoration of a run does to the others, and to their store.   *)
LEMMA RecoverRunStep ==
    ASSUME BaseInv, RecoveryInv, NEW r \in Runs, RecoverRun(r)
    PROVE  /\ Recover(r) /\ reconcile = {} /\ phase = "recovering"
           /\ recovered' = recovered \cup {r} /\ r \in runs /\ r \notin recovered
           /\ UNCHANGED <<futureVars, coroutines, ckpts, dbCkpts, runs, enabled>>
           /\ run' = run \/ RecoverCorrupted(r)
           /\ \A m \in Runs \ {r} :
                 /\ run'[m] = run[m] /\ dbRun'[m] = dbRun[m] /\ adapters'[m] = adapters[m]
                 /\ m \in dbRuns' <=> m \in dbRuns
                 /\ boundary'[m] = boundary[m]
           /\ r \in dbRuns => r \in dbRuns'
           /\ boundary'[r] = LatestFuture(r)
           /\ \E b \in BOOLEAN : reconcile' = {[run |-> r, pendingOnly |-> b]} /\ (b => SkipRun(r))
<1>1. Recover(r) /\ reconcile = {} /\ UNCHANGED futureVars
    BY DEF RecoverRun, Pass, Restore, Recover
<1>2. /\ phase = "recovering" /\ recovered' = recovered \cup {r} /\ r \in runs /\ r \notin recovered
      /\ UNCHANGED <<coroutines, ckpts, dbCkpts, runs, enabled>>
    BY <1>1 DEF Recover, SkipRun, RecoverFresh, RecoverFromCheckpoint, RecoverCorrupted, CanRecover,
        objects, durable
<1>3. /\ \/ UNCHANGED <<run, dbRuns, dbRun>>
         \/ /\ RecoverCorrupted(r) /\ run' = [run EXCEPT ![r].corrupted = TRUE]
            /\ StoreRun(r, run'[r])
    BY <1>1 DEF Recover, SkipRun, RecoverFresh, RecoverFromCheckpoint, RecoverCorrupted, objects, durable
<1>4. ASSUME NEW m \in Runs \ {r}
      PROVE  /\ run'[m] = run[m] /\ dbRun'[m] = dbRun[m] /\ adapters'[m] = adapters[m]
             /\ m \in dbRuns' <=> m \in dbRuns
    <2>1. DOMAIN run = Runs /\ DOMAIN dbRun = Runs
        BY RunTypes
    <2>2. adapters'[m] = adapters[m]
        BY <1>1, OutsideAdapters
    <2>3. CASE UNCHANGED <<run, dbRuns, dbRun>>
        BY <2>2, <2>3
    <2>4. CASE run' = [run EXCEPT ![r].corrupted = TRUE] /\ StoreRun(r, run'[r])
        <3>1. run'[m] = run[m]
            BY <2>1, <2>4
        <3>2. dbRun'[m] = dbRun[m] /\ (m \in dbRuns' <=> m \in dbRuns)
            BY <2>1, <2>4 DEF StoreRun
        <3> QED BY <2>2, <3>1, <3>2
    <2> QED BY <1>3, <2>3, <2>4
<1>5. boundary' = [boundary EXCEPT ![r] = LatestFuture(r)] /\ DOMAIN boundary = Runs
    BY DEF RecoverRun, RecoveryInv
<1>6. \E b \in BOOLEAN : reconcile' = {[run |-> r, pendingOnly |-> b]} /\ (b => SkipRun(r))
    BY DEF RecoverRun, Pass, Restore
<1>7. r \in dbRuns => r \in dbRuns'
    BY <1>3 DEF StoreRun
<1>8. \A m \in Runs \ {r} : boundary'[m] = boundary[m]
    BY <1>5
<1>9. boundary'[r] = LatestFuture(r)
    BY <1>5
<1>10. \A m \in Runs \ {r} :
                 /\ run'[m] = run[m] /\ dbRun'[m] = dbRun[m] /\ adapters'[m] = adapters[m]
                 /\ m \in dbRuns' <=> m \in dbRuns
                 /\ boundary'[m] = boundary[m]
    BY <1>4, <1>8
<1>11. run' = run \/ RecoverCorrupted(r)
    BY <1>3
<1> QED BY <1>1, <1>2, <1>6, <1>7, <1>9, <1>10, <1>11

LEMMA CorruptStays ==
    ASSUME RightWeights, BaseInv, FutureInv, RecoveryInv, PastInv, MemoryInv, CorruptInv,
           [ServerNext]_serverVars, ~Boot
    PROVE  CorruptInv'
<1>0. [Next]_trainingVars /\ ~Restart
    BY TrainingStep, BootOnlyRestarts
<1>1. enabled' = enabled
    BY <1>0, CorruptStep, RunsAssumption
<1>5. dbRuns' \subseteq Runs
    BY <1>0, BaseNext DEF BaseInv, CountInv
<1>2. ASSUME NEW m \in Runs
      PROVE  /\ Barren(m)'
             /\ m \in dbRuns' /\ dbRun'[m].corrupted => run'[m].corrupted
    <2>1. /\ \/ run'[m].corrupted = run[m].corrupted
             \/ RecoverCorrupted(m) /\ run'[m].corrupted
          /\ m \in dbRuns' => \/ dbRun'[m].corrupted = run'[m].corrupted
                              \/ m \in dbRuns /\ dbRun'[m] = dbRun[m]
        BY <1>0, CorruptStep
    <2>2. Barren(m) /\ (m \in dbRuns /\ dbRun[m].corrupted => run[m].corrupted)
        BY DEF CorruptInv
    <2>3. CASE RecoverCorrupted(m)
        <3>1. adapters[m] = NoAdapter
            BY <2>3 DEF RecoverCorrupted, CanRecover, CorruptInv
        <3>2. Barren(m)'
            BY <2>3, <3>1, BecomesBarren
        <3>3. run'[m].corrupted
            BY <2>3, RunTypes DEF RecoverCorrupted, Run
        <3> QED BY <3>2, <3>3
    <2>4. CASE run'[m].corrupted = run[m].corrupted
        <3>1. Barren(m)'
            <4>1. CASE run[m].corrupted
                <5>1. m \in created' /\ Applied(m)' = {} /\ ~adapters'[m].here
                    BY <1>0, <2>2, <4>1, StaysBarren
                <5>2. "backend" \in Faults
                    BY <2>2, <4>1 DEF Barren
                <5> QED BY <5>1, <5>2 DEF Barren
            <4>2. CASE ~run[m].corrupted
                BY <2>4, <4>2 DEF Barren
            <4> QED BY <4>1, <4>2
        <3> QED BY <2>1, <2>2, <2>4, <3>1
    <2> QED BY <2>1, <2>3, <2>4
<1>3. ASSUME NEW o \in Ops PROVE Snapped(o)'
    BY <1>0, SnappedNext DEF PastInv
<1>4. ASSUME phase' = "recovering"
      PROVE  /\ runs' = dbRuns'
             /\ \A m \in runs' \ recovered' : run'[m].corrupted => dbRun'[m].corrupted
             /\ \A m \in Runs \ recovered' : adapters'[m] = NoAdapter
             /\ \A x \in reconcile' : x.run \in recovered' /\ (x.pendingOnly => Given(x.run)')
    <2>1. /\ phase = "recovering"
          /\ \/ \E m \in Runs : RecoverRun(m)
             \/ UNCHANGED runVars /\ boundary' = boundary /\ reconcile' \subseteq reconcile
        BY <1>4, RecoveringStep
    <2>2. /\ runs = dbRuns /\ runs \subseteq Runs
          /\ \A m \in runs \ recovered : run[m].corrupted => dbRun[m].corrupted
          /\ \A m \in Runs \ recovered : adapters[m] = NoAdapter
          /\ \A x \in reconcile : x.run \in recovered /\ (x.pendingOnly => Given(x.run))
        BY <2>1, RunTypes DEF CorruptInv
    <2>3. CASE UNCHANGED runVars /\ reconcile' \subseteq reconcile
        <3>1. UNCHANGED <<runs, dbRuns, run, dbRun, recovered, adapters>>
            BY <2>3 DEF runVars
        <3> QED BY <2>2, <2>3, <3>1 DEF Given
    <2>4. ASSUME NEW r \in Runs, RecoverRun(r)
          PROVE  /\ runs' = dbRuns'
                 /\ \A m \in runs' \ recovered' : run'[m].corrupted => dbRun'[m].corrupted
                 /\ \A m \in Runs \ recovered' : adapters'[m] = NoAdapter
                 /\ \A x \in reconcile' : x.run \in recovered' /\ (x.pendingOnly => Given(x.run)')
        <3>1. /\ recovered' = recovered \cup {r} /\ r \in runs /\ r \notin recovered /\ runs' = runs
              /\ \A m \in Runs \ {r} :
                    /\ run'[m] = run[m] /\ dbRun'[m] = dbRun[m] /\ adapters'[m] = adapters[m]
                    /\ m \in dbRuns' <=> m \in dbRuns
              /\ r \in dbRuns => r \in dbRuns'
              /\ \E b \in BOOLEAN : reconcile' = {[run |-> r, pendingOnly |-> b]} /\ (b => SkipRun(r))
            BY <2>4, RecoverRunStep
        <3>2. runs' = dbRuns'
            <4>1. dbRuns' \subseteq Runs
                BY <1>5
            <4>2. \A m \in Runs : m \in dbRuns' <=> m \in dbRuns
                BY <2>2, <3>1
            <4> QED BY <2>2, <3>1, <4>1, <4>2
        <3>3. ASSUME NEW x \in reconcile' PROVE x.run \in recovered' /\ (x.pendingOnly => Given(x.run)')
            <4>1. PICK b \in BOOLEAN : reconcile' = {[run |-> r, pendingOnly |-> b]} /\ (b => SkipRun(r))
                BY <3>1
            <4>2. x.run = r /\ x.pendingOnly = b
                BY <3>3, <4>1
            <4>3. ASSUME SkipRun(r) PROVE Given(r)'
                <5>1. run[r].corrupted /\ UNCHANGED <<run, dbRuns, dbRun>>
                    BY <4>3 DEF SkipRun, CorruptInv, objects, durable
                <5> QED BY <2>2, <3>1, <5>1 DEF Given
            <4>4. r \in recovered'
                BY <3>1
            <4> QED BY <4>1, <4>2, <4>3, <4>4 DEF Given
        <3> QED BY <2>2, <3>1, <3>2, <3>3
    <2> QED BY <2>1, <2>3, <2>4
<1> QED BY <1>1, <1>2, <1>3, <1>4, <1>5 DEF CorruptInv

LEMMA CorruptBoot ==
    ASSUME RightWeights, BaseInv, CorruptInv, Boot
    PROVE  CorruptInv'
<1>1. /\ enabled' \in (IF "config" \in Faults THEN BOOLEAN ELSE {TRUE})
      /\ UNCHANGED <<dbRuns, dbRun, created>> /\ runs' = dbRuns /\ recovered' = {} /\ reconcile' = {}
      /\ run' = [m \in Runs |-> RestoredRun(m)]
      /\ adapters' = [m \in Runs |-> NoAdapter]
      /\ snap' = [o \in Ops |-> NothingToWrite]
    BY DEF Boot, Restart, durable
<1>2. enabled'
    BY <1>1 DEF RightWeights
<1>3. FreshRun.corrupted = FALSE /\ NothingToWrite.run = FALSE /\ ~NoAdapter.here
      /\ NoAdapter.weights = {} /\ NoAdapter.grads = {}
    BY DEF FreshRun, NothingToWrite, NoAdapter
<1>4. dbRuns \subseteq created
    BY RunTypes
<1>5. ASSUME NEW m \in Runs
      PROVE  /\ run'[m] = IF m \in dbRuns THEN dbRun[m] ELSE FreshRun
             /\ Barren(m)'
    <2>1. run'[m] = IF m \in dbRuns THEN dbRun[m] ELSE FreshRun
        BY <1>1 DEF RestoredRun
    <2>2. run'[m].corrupted => m \in dbRuns /\ run[m].corrupted
        BY <1>3, <2>1 DEF CorruptInv
    <2>3. adapters'[m] = NoAdapter
        BY <1>1
    <2>4. Barren(m)
        BY DEF CorruptInv
    <2> QED BY <1>1, <1>3, <2>1, <2>2, <2>3, <2>4 DEF Barren, Applied
<1>6. \A o \in Ops : Snapped(o)'
    BY <1>1, <1>3 DEF Snapped
<1>7. dbRuns \subseteq Runs
    BY RunTypes
<1>8. \A m \in Runs : adapters'[m] = NoAdapter
    BY <1>1
<1> QED BY <1>1, <1>2, <1>5, <1>6, <1>7, <1>8 DEF CorruptInv

LEMMA CorruptInit == ServerInit => CorruptInv
<1> SUFFICES ASSUME ServerInit PROVE CorruptInv
    OBVIOUS
<1>1. Init /\ reconcile = {}
    BY DEF ServerInit
<1>2. FreshRun.corrupted = FALSE
    BY DEF FreshRun
<1>3. \A m \in Runs : run[m] = FreshRun /\ adapters[m] = NoAdapter
    BY <1>1 DEF Init
<1>4. \A o \in Ops : stage[o] = "new"
    BY <1>1 DEF Init
<1>5. enabled /\ runs = {} /\ dbRuns = {}
    BY <1>1 DEF Init
<1> QED BY <1>1, <1>2, <1>3, <1>4, <1>5 DEF CorruptInv, Barren, Snapped

KnownInv ==
    RestartInv /\ OldInv /\ LateInv /\ NumberedInv /\ FilesInv /\ PastInv /\ MemoryInv /\ CorruptInv

LEMMA KnownInit == ServerInit => KnownInv
BY RestartInvInit, LateInit, NumberedInit, FilesInit, PastInit, MemoryInit, CorruptInit
DEF KnownInv, ServerInit

LEMMA KnownNext ==
    ASSUME RightWeights, KnownInv, [ServerNext]_serverVars
    PROVE  KnownInv' /\ [Next]_trainingVars /\ FutureStep /\ IdStep
<1>0. /\ RestartInv /\ OldInv /\ LateInv /\ NumberedInv /\ FilesInv /\ PastInv /\ MemoryInv /\ CorruptInv
      /\ BaseInv /\ FutureInv /\ RecoveryInv /\ KeptFiles /\ GeneratedNames
    BY DEF KnownInv, RestartInv, ServerInv, RightWeights, KeptFiles
<1>1. [Next]_trainingVars /\ FutureStep
    BY <1>0, TrainingStep, EveryFutureStep
<1>2. RestartInv' /\ BaseInv'
    BY <1>0, RestartInvNext DEF RestartInv, ServerInv
<1>3. OldInv' /\ LateInv'
    BY <1>0, LateNext
<1>4. NumberedInv'
    BY <1>0, <1>1, <1>2, NumberedNext
<1>5. FilesInv'
    BY <1>0, <1>1, FilesNext
<1>6. PastInv'
    BY <1>0, PastNext
<1>7. MemoryInv'
    BY <1>0, <1>1, MemoryNext
<1>8. CorruptInv'
    BY <1>0, CorruptStays, CorruptBoot
<1>9. IdStep
    BY <1>0, <1>1, IdsMove DEF PastInv, LastIsUsed
<1> QED BY <1>1, <1>2, <1>3, <1>4, <1>5, <1>6, <1>7, <1>8, <1>9 DEF KnownInv

(* Where the effects of a run come from: its operations, and its records.  *)
LEMMA SourceStep ==
    ASSUME RightWeights, BaseInv, MemoryInv, [Next]_trainingVars, NEW m \in Runs,
           NEW p, p \in Applied(m)'
    PROVE  \/ p \in Applied(m) \/ (Taken(p) /\ Mine(p) = m)
           \/ \E c \in ckpts[m] : p \in c.weights
<1>0. ASSUME NEW c \in ckpts[m] PROVE dirs[m][c.name].weights = c.weights
    <2>1. dirs[m][c.name] = [state |-> "complete", weights |-> c.weights]
        BY DEF MemoryInv, Remembered, Written
    <2> QED BY <2>1
<1>1. CASE Loaded(m, p)
    <2>1. PICK o \in Ops : Load(o) /\ Mine(o) = m /\ p \in Source(o).weights
        BY <1>1 DEF Loaded
    <2>2. Loading(o) /\ op[o].source \in Runs
        BY <2>1 DEF Load, Computing, Loading, BaseInv, Ended, Arguments
    <2>3. Found(o)
        BY DEF MemoryInv
    <2>4. op[o].source = m
        BY <2>2, <2>3 DEF Found, RightWeights
    <2>5. PICK c \in ckpts[m] : c.name = op[o].name
        BY <2>2, <2>3, <2>4 DEF Found
    <2>6. dirs[m][c.name].weights = c.weights
        BY <1>0, <2>5
    <2> QED BY <2>1, <2>4, <2>5, <2>6 DEF Source
<1>2. CASE Recovered(m, p)
    <2>1. PICK c \in Latest(ckpts[m]) : p \in dirs[m][c.name].weights
        BY <1>2 DEF Recovered
    <2>2. c \in ckpts[m] /\ dirs[m][c.name].weights = c.weights
        BY <1>0, LatestAreRecords DEF BaseInv
    <2> QED BY <2>1, <2>2
<1> QED BY <1>1, <1>2, AppliedStep

Requested(o) == stage[o] = "waiting" /\ op[o].kind = "save"

(* A save reads the latest future id as it gets in line.                   *)
LEMMA RequestedStep ==
    ASSUME RightWeights, KnownInv, [ServerNext]_serverVars, NEW o \in Ops, Requested(o)'
    PROVE  \/ Requested(o) /\ op'[o] = op[o]
           \/ /\ stage[o] = "new" /\ op'[o].future = nextId - 1
              /\ UNCHANGED <<futureVars, recoveryVars>>
<1>0. BaseInv /\ FutureInv /\ [Next]_trainingVars
    BY KnownNext DEF KnownInv, RestartInv, ServerInv
<1>1. CASE Begin(o)
    <2>1. PICK s \in 0..MaxSeq :
            \/ ForwardBackward(o, records[o].model, s) \/ OptimStep(o, records[o].model, s)
            \/ SaveWeights(o, records[o].model, s) \/ SaveWeightsForSampler(o, records[o].model, s)
            \/ LoadWeights(o, records[o].model, s)
        BY <1>1 DEF Begin
    <2>2. PICK k, src, t, n, F :
            /\ Start(o, records[o].model, k, s, src, t, n, F)
            /\ k = "save" => F = CurrentFutureId
        BY <2>1 DEF ForwardBackward, OptimStep, SaveWeights, SaveWeightsForSampler, SaveCheckpoint,
            LoadWeights
    <2>3. op'[o].kind = k /\ op'[o].future = F /\ stage[o] = "new"
        BY <1>0, <2>2 DEF Start, BaseInv, LockInv
    <2>4. UNCHANGED <<futureVars, recoveryVars>>
        BY <1>1 DEF Begin
    <2> QED BY <2>2, <2>3, <2>4 DEF Requested, CurrentFutureId
<1>2. CASE Boot
    <2>1. stage'[o] # "waiting"
        BY <1>2 DEF Boot, Restart
    <2> QED BY <2>1 DEF Requested
<1>3. CASE ~Begin(o) /\ ~Boot
    <2>1. stage[o] \notin Past
        <3>1. ASSUME stage[o] \in Past PROVE FALSE
            <4>1. stage'[o] = stage[o]
                BY <1>0, <1>3, <3>1, PastMoves
            <4> QED BY <3>1, <4>1 DEF Requested, Past
        <3> QED BY <3>1
    <2>2. OpsStep
        BY <1>0, BaseNext
    <2> QED BY <2>1, <2>2 DEF Requested, Past, OpsStep
<1> QED BY <1>1, <1>2, <1>3

(* The queue of a run: an operation joins at the end, the head leaves.     *)
LEMMA QueueStep ==
    ASSUME BaseInv, [Next]_trainingVars, NEW m \in Runs
    PROVE  \/ queue'[m] \in {queue[m], <<>>}
           \/ queue[m] # <<>> /\ queue'[m] = Tail(queue[m])
           \/ \E o \in Ops : /\ stage[o] = "new" /\ stage'[o] = "waiting"
                             /\ queue'[m] = Append(queue[m], o)
<1>0. queue \in [Runs -> Seq(Ops)] /\ stage \in [Ops -> Stages]
    BY DEF BaseInv, LockInv
<1>1. ASSUME NEW o \in Ops, Request(o)
      PROVE  \/ queue'[m] = queue[m]
             \/ /\ stage[o] = "new" /\ stage'[o] = "waiting"
                /\ queue'[m] = Append(queue[m], o)
    <2>1. PICK r, k, s, src, t, n, F : Start(o, r, k, s, src, t, n, F)
        BY <1>1 DEF Request
    <2>2. \/ queue' = queue
          \/ /\ stage[o] = "new" /\ stage'[o] = "waiting"
             /\ queue' = [queue EXCEPT ![r] = Append(@, o)]
        BY <1>0, <2>1 DEF Start
    <2> QED BY <1>0, <2>2
<1>2. ASSUME NEW o \in Ops, Proceed(o)
      PROVE  queue'[m] = queue[m] \/ (queue[m] # <<>> /\ queue'[m] = Tail(queue[m]))
    <2>1. queue[Mine(o)] # <<>>
        BY <1>2, ProceedAtHead DEF BaseInv, AtHead
    <2>2. queue' = queue \/ queue' = [queue EXCEPT ![Mine(o)] = Tail(@)]
        BY <1>2 DEF Proceed, Conflict, Enter, EnterSave, Compute, Load, ComputeFails, SaveState,
            SaveStateFails, SerialiseCheckpoint, StoreCheckpoint, SerialiseCount, StoreCount, Finish,
            Release
    <2> QED BY <1>0, <2>1, <2>2
<1>3. ASSUME NEW r \in Runs, Unlocked(r) \/ Recover(r) PROVE queue' = queue
    BY <1>3, OutsideKeeps DEF coroutines
<1>4. ASSUME FinishRecovery \/ ProcessEnds \/ UNCHANGED trainingVars PROVE queue' = queue
    BY <1>4, QuietKeeps DEF coroutines
<1>5. ASSUME Restart PROVE queue'[m] = <<>>
    BY <1>5 DEF Restart
<1> QED BY <1>1, <1>2, <1>3, <1>4, <1>5 DEF Next

(* The ids of futures and the future ids that checkpoints take with them   *)
(* go up together.                                                         *)
Covers(m) ==
    \A c : Made(m, c) => c.future < nextId /\ \A p \in c.weights : p \in used /\ Fid(p) <= c.future

InOrder(m) ==
    \A c, d : Made(m, c) /\ Made(m, d) /\ c.created < d.created => c.future <= d.future

UsesKnown(m) ==
    Applied(m) \subseteq used /\ \A i \in 1..Len(queue[m]) : stage[queue[m][i]] # "new"

Asked(o) ==
    Requested(o) =>
        /\ op[o].future < nextId
        /\ \A p \in Applied(Mine(o)) : Fid(p) <= op[o].future
        /\ \A c : Made(Mine(o), c) => c.future <= op[o].future

Ahead(p, o) ==
    Requested(o) =>
        /\ Fid(p) <= op[o].future
        /\ Requested(p) => op[p].future <= op[o].future

Line(m) == \A j \in 1..Len(queue[m]) : \A i \in 1..(j - 1) : Ahead(queue[m][i], queue[m][j])

Bounded(m) ==
    /\ \A p \in Applied(m) : Fid(p) <= boundary[m]
    /\ \A c : Made(m, c) => c.future <= boundary[m]

OrderedInv ==
    /\ \A m \in Runs : Covers(m) /\ InOrder(m) /\ UsesKnown(m) /\ Line(m)
    /\ \A o \in Ops : Asked(o)
    /\ phase = "recovering" => \A m \in recovered : Bounded(m)

LEMMA FidTypes ==
    ASSUME FutureInv
    PROVE  nextId \in Nat /\ \A r \in used : r \in Ops /\ Fid(r) \in Nat /\ Fid(r) < nextId
BY DEF FutureInv, Futures!Durable, Fid

(* A checkpoint that is chosen is covered by the request of its save.      *)
LEMMA ChosenIsCovered ==
    ASSUME BaseInv, OrderedInv, NEW m \in Runs, NEW q \in Ops, NEW c, Chosen(q, m, c)
    PROVE  /\ Requested(q) /\ c.future = op[q].future /\ c.future < nextId /\ Mine(q) = m
           /\ \A p \in c.weights : p \in used /\ Fid(p) <= c.future
           /\ \A d : Made(m, d) => d.future <= c.future
<1>1. /\ Requested(q) /\ Mine(q) = m /\ c.future = op[q].future /\ c.weights = adapters[m].weights
    BY ChosenIsNew DEF Requested
<1>2. c.weights \subseteq Applied(m)
    BY <1>1 DEF Applied
<1>3. Asked(q) /\ UsesKnown(m)
    BY DEF OrderedInv
<1> QED BY <1>1, <1>2, <1>3 DEF Asked, UsesKnown

LEMMA CoversNext ==
    ASSUME RightWeights, KnownInv, OrderedInv, [ServerNext]_serverVars, NEW m \in Runs
    PROVE  Covers(m)' /\ InOrder(m)' /\ Applied(m)' \subseteq used'
<1>0. /\ BaseInv /\ FutureInv /\ LinkInv /\ DatedInv /\ MemoryInv
      /\ [Next]_trainingVars /\ IdStep
      /\ Covers(m) /\ InOrder(m) /\ UsesKnown(m)
    BY KnownNext DEF KnownInv, RestartInv, ServerInv, OrderedInv
<1>1. ASSUME NEW c, Made(m, c)'
      PROVE  /\ c.future < nextId' /\ \A p \in c.weights : p \in used' /\ db'[p].fid <= c.future
             /\ c.created \in Nat /\ c.future \in Nat
             /\ \/ Made(m, c)
                \/ \E q \in Ops : Chosen(q, m, c) /\ c.created = clock + 1
    <2>1. CASE Made(m, c)
        <3>1. /\ c.future < nextId /\ \A p \in c.weights : p \in used /\ Fid(p) <= c.future
              /\ c.future \in Nat /\ c.created \in Nat
            BY <1>0, <2>1, MadeIsTyped DEF Covers
        <3> QED BY <1>0, <2>1, <3>1 DEF IdStep, Fid
    <2>2. ASSUME NEW q \in Ops, Chosen(q, m, c)
          PROVE  /\ c.future < nextId' /\ \A p \in c.weights : p \in used' /\ db'[p].fid <= c.future
                 /\ c.created = clock + 1 /\ c.created \in Nat /\ c.future \in Nat
        <3>1. c.future < nextId /\ \A p \in c.weights : p \in used /\ Fid(p) <= c.future
            BY <1>0, <2>2, ChosenIsCovered
        <3>2. c.created = clock + 1 /\ c.future = op[q].future
            BY <1>0, <2>2, ChosenIsNew
        <3>3. clock \in Nat /\ op[q].future \in Nat
            BY <1>0 DEF BaseInv, TypedInv, Ended, Arguments
        <3> QED BY <1>0, <3>1, <3>2, <3>3 DEF IdStep, Fid
    <2> QED BY <1>0, <1>1, <2>1, <2>2, MadeStep
<1>2. Covers(m)'
    BY <1>1 DEF Covers, Fid
<1>3. ASSUME NEW c, NEW d, Made(m, c)', Made(m, d)', c.created < d.created
      PROVE  c.future <= d.future
    <2>1. CASE Made(m, c) /\ Made(m, d)
        BY <1>0, <1>3, <2>1 DEF InOrder
    <2>2. ASSUME NEW q \in Ops, Made(m, c), Chosen(q, m, d) PROVE c.future <= d.future
        BY <1>0, <2>2, ChosenIsCovered
    <2>3. ASSUME NEW q \in Ops, Chosen(q, m, c), c.created = clock + 1, Made(m, d) PROVE FALSE
        BY <1>0, <1>1, <1>3, <2>3 DEF DatedInv, BaseInv, TypedInv
    <2>4. ASSUME c.created = clock + 1, d.created = clock + 1 PROVE FALSE
        BY <1>0, <1>3, <2>4 DEF BaseInv, TypedInv
    <2> QED BY <1>1, <1>3, <2>1, <2>2, <2>3, <2>4
<1>4. InOrder(m)'
    BY <1>3 DEF InOrder
<1>5. ASSUME NEW p \in Applied(m)' PROVE p \in used'
    <2>1. CASE p \in Applied(m)
        BY <1>0, <2>1 DEF UsesKnown, IdStep
    <2>2. CASE Taken(p)
        BY <1>0, <2>2 DEF Taken, LinkInv, IdStep
    <2>3. CASE \E c \in ckpts[m] : p \in c.weights
        BY <1>0, <2>3 DEF Covers, Made, IdStep
    <2> QED BY <1>0, <1>5, <2>1, <2>2, <2>3, SourceStep
<1> QED BY <1>2, <1>4, <1>5

LEMMA QueueNext ==
    ASSUME RightWeights, KnownInv, OrderedInv, [ServerNext]_serverVars, NEW m \in Runs
    PROVE  Line(m)' /\ \A i \in 1..Len(queue'[m]) : stage'[queue'[m][i]] # "new"
<1>0. /\ BaseInv /\ FutureInv /\ LinkInv
      /\ [Next]_trainingVars /\ IdStep /\ OpsStep
      /\ Line(m) /\ UsesKnown(m) /\ queue[m] \in Seq(Ops)
    BY KnownNext, BaseNext DEF KnownInv, RestartInv, ServerInv, OrderedInv, BaseInv, LockInv
<1> DEFINE q == queue[m]
<1>1. \A i \in 1..Len(q) : q[i] \in Ops /\ q[i] \in used /\ stage[q[i]] # "new" /\ stage'[q[i]] # "new"
    BY <1>0 DEF UsesKnown, LinkInv, OpsStep
<1>2. ASSUME NEW o \in Ops, stage[o] # "new", Requested(o)'
      PROVE  Requested(o) /\ op'[o] = op[o]
    BY <1>2, RequestedStep
<1>3. ASSUME NEW a \in Ops, NEW b \in Ops, a \in used, stage[a] # "new", stage[b] # "new", Ahead(a, b)
      PROVE  Ahead(a, b)'
    <2>1. /\ Requested(b)' => Requested(b) /\ op'[b] = op[b]
          /\ Requested(a)' => Requested(a) /\ op'[a] = op[a]
        BY <1>2, <1>3
    <2> QED BY <1>0, <1>3, <2>1 DEF Ahead, IdStep, Fid
<1>4. ASSUME NEW a \in Ops, a \in used, stage[a] # "new", NEW b \in Ops, stage[b] = "new"
      PROVE  Ahead(a, b)'
    <2>1. Requested(b)' => op'[b].future = nextId - 1 /\ UNCHANGED futureVars
        BY <1>4, RequestedStep DEF Requested
    <2>2. Requested(a)' => Requested(a) /\ op'[a] = op[a]
        BY <1>2, <1>4
    <2>3. Asked(a) /\ op[a].future \in Nat /\ Fid(a) \in Nat /\ Fid(a) < nextId /\ nextId \in Nat
        BY <1>0, <1>4, FidTypes DEF OrderedInv, BaseInv, Ended, Arguments
    <2>4. UNCHANGED futureVars => db' = db
        BY DEF futureVars
    <2> QED BY <2>1, <2>2, <2>3, <2>4 DEF Ahead, Asked, Fid
<1>5. ASSUME NEW i \in 1..Len(q), NEW j \in 1..Len(q), i < j
      PROVE  Ahead(q[i], q[j])
    <2>1. Len(q) \in Nat
        BY <1>0
    <2>2. i \in 1..(j - 1)
        BY <1>5, <2>1
    <2> QED BY <1>0, <2>2 DEF Line
<1>6. SUFFICES ASSUME NEW j \in 1..Len(queue'[m])
      PROVE  /\ stage'[queue'[m][j]] # "new"
             /\ \A i \in 1..(j - 1) : \E a, b : a = queue'[m][i] /\ b = queue'[m][j] /\ Ahead(a, b)'
    BY DEF Line, Ahead, Requested
<1>7. CASE queue'[m] \in {queue[m], <<>>}
    <2>1. queue'[m] = q /\ j \in 1..Len(q)
        BY <1>7
    <2>2. ASSUME NEW i \in 1..(j - 1) PROVE \E a, b : a = q[i] /\ b = q[j] /\ Ahead(a, b)'
        <3>1. PICK a, b : a = q[i] /\ b = q[j]
            OBVIOUS
        <3>2. i \in 1..Len(q) /\ i < j
            BY <1>0, <2>1
        <3>3. Ahead(a, b)
            BY <1>5, <2>1, <3>1, <3>2
        <3> QED BY <1>1, <1>3, <2>1, <3>1, <3>2, <3>3
    <2> HIDE DEF q
    <2> QED BY <1>1, <2>1, <2>2
<1>8. CASE queue[m] # <<>> /\ queue'[m] = Tail(queue[m])
    <2>1. /\ Len(queue'[m]) = Len(q) - 1 /\ \A i \in 1..Len(queue'[m]) : queue'[m][i] = q[i + 1]
          /\ Len(q) \in Nat
        BY <1>0, <1>8
    <2>2. ASSUME NEW i \in 1..(j - 1) PROVE \E a, b : a = q[i + 1] /\ b = q[j + 1] /\ Ahead(a, b)'
        <3>1. PICK a, b : a = q[i + 1] /\ b = q[j + 1]
            OBVIOUS
        <3>2. i + 1 \in 1..Len(q) /\ j + 1 \in 1..Len(q) /\ i + 1 < j + 1
            BY <2>1
        <3>3. Ahead(a, b)
            BY <1>5, <3>1, <3>2
        <3> QED BY <1>1, <1>3, <3>1, <3>2, <3>3
    <2>3. j + 1 \in 1..Len(q) /\ \A i \in 1..(j - 1) : i \in 1..Len(queue'[m])
        BY <2>1
    <2> HIDE DEF q
    <2> QED BY <1>1, <2>1, <2>2, <2>3
<1>9. ASSUME NEW o \in Ops, stage[o] = "new", stage'[o] = "waiting", queue'[m] = Append(queue[m], o)
      PROVE  /\ stage'[queue'[m][j]] # "new"
             /\ \A i \in 1..(j - 1) : \E a, b : a = queue'[m][i] /\ b = queue'[m][j] /\ Ahead(a, b)'
    <2>1. /\ Len(queue'[m]) = Len(q) + 1 /\ Len(q) \in Nat
          /\ \A i \in 1..Len(q) : queue'[m][i] = q[i]
          /\ queue'[m][Len(q) + 1] = o
        BY <1>0, <1>9
    <2>2. CASE j \in 1..Len(q)
        <3>1. ASSUME NEW i \in 1..(j - 1) PROVE \E a, b : a = q[i] /\ b = q[j] /\ Ahead(a, b)'
            <4>1. PICK a, b : a = q[i] /\ b = q[j]
                OBVIOUS
            <4>2. i \in 1..Len(q) /\ i < j
                BY <2>1, <2>2
            <4>3. Ahead(a, b)
                BY <1>5, <2>2, <4>1, <4>2
            <4> QED BY <1>1, <1>3, <2>2, <4>1, <4>2, <4>3
        <3>2. \A i \in 1..(j - 1) : i \in 1..Len(q)
            BY <2>1, <2>2
        <3> HIDE DEF q
        <3> QED BY <1>1, <2>1, <2>2, <3>1, <3>2
    <2>3. CASE j = Len(q) + 1
        <3>1. ASSUME NEW i \in 1..(j - 1) PROVE \E a, b : a = q[i] /\ b = o /\ Ahead(a, b)'
            <4>1. PICK a : a = q[i]
                OBVIOUS
            <4>2. i \in 1..Len(q)
                BY <2>1, <2>3
            <4> QED BY <1>1, <1>4, <1>9, <4>1, <4>2
        <3>2. \A i \in 1..(j - 1) : i \in 1..Len(q)
            BY <2>1, <2>3
        <3> HIDE DEF q
        <3> QED BY <1>9, <2>1, <2>3, <3>1, <3>2
    <2> QED BY <2>1, <2>2, <2>3
<1> HIDE DEF q
<1> QED BY <1>0, <1>7, <1>8, <1>9, QueueStep

(* Whoever works for a run while a save waits was in line before it.       *)
LEMMA HolderIsAhead ==
    ASSUME BaseInv, OrderedInv, NEW p \in Ops, Proceed(p), NEW o \in Ops, o # p,
           Requested(o), Mine(p) = Mine(o)
    PROVE  Ahead(p, o)
<1> DEFINE q == queue[Mine(o)]
<1>1. AtHead(p) /\ q \in Seq(Ops) /\ InLine(o) /\ Line(Mine(o))
    BY ProceedAtHead DEF BaseInv, LockInv, OrderedInv, Requested
<1>2. q # <<>> /\ q[1] = p
    BY <1>1 DEF AtHead
<1>3. PICK j \in 1..Len(q) : q[j] = o
    BY <1>1 DEF InLine
<1>4. j # 1 /\ Len(q) \in Nat
    BY <1>1, <1>2, <1>3
<1>5. 1 \in 1..(j - 1)
    BY <1>3, <1>4
<1>6. Ahead(q[1], q[j])
    BY <1>1, <1>3, <1>5 DEF Line
<1> QED BY <1>2, <1>3, <1>6

LEMMA AskedNext ==
    ASSUME RightWeights, KnownInv, OrderedInv, [ServerNext]_serverVars, NEW o \in Ops
    PROVE  Asked(o)'
<1>0. /\ BaseInv /\ BaseInv' /\ FutureInv /\ FutureInv' /\ MemoryInv /\ RestartInv
      /\ [Next]_trainingVars /\ IdStep
    BY KnownNext DEF KnownInv, RestartInv, ServerInv
<1> SUFFICES ASSUME Requested(o)' PROVE Asked(o)'
    BY DEF Asked
<1>1. PICK m \in Runs : m = Mine(o)'
    BY <1>0 DEF BaseInv, LockInv
<1>2. Covers(m)' /\ Applied(m)' \subseteq used'
    BY CoversNext
<1>3. CASE /\ stage[o] = "new" /\ op'[o].future = nextId - 1
           /\ UNCHANGED <<futureVars, recoveryVars>>
    <2>1. nextId' = nextId /\ nextId \in Nat
        BY <1>0, <1>3, FidTypes DEF futureVars
    <2>2. ASSUME NEW p \in Applied(m)' PROVE db'[p].fid <= op'[o].future
        <3>1. db'[p].fid \in Nat /\ db'[p].fid < nextId'
            BY <1>0, <1>2 DEF FutureInv, Futures!Durable
        <3> QED BY <1>3, <2>1, <3>1
    <2>3. ASSUME NEW c, Made(m, c)' PROVE c.future <= op'[o].future
        <3>1. c.future < nextId' /\ c.future \in Nat
            <4>1. c.future < nextId'
                BY <1>2, <2>3 DEF Covers
            <4>2. Made(m, c) \/ \E q \in Ops : Chosen(q, m, c)
                BY <1>0, <2>3, MadeStep
            <4>3. c.future \in Nat
                BY <1>0, <4>2, MadeIsTyped, ChosenIsNew DEF BaseInv, Ended, Arguments
            <4> QED BY <4>1, <4>3
        <3> QED BY <1>3, <2>1, <3>1
    <2> QED BY <1>1, <1>3, <2>1, <2>2, <2>3 DEF Asked, Fid
<1>4. CASE Requested(o) /\ op'[o] = op[o]
    <2>1. /\ Asked(o) /\ Mine(o) = m /\ Covers(m) /\ UsesKnown(m) /\ op[o].future \in Nat
          /\ stage'[o] = "waiting" /\ stage[o] = "waiting"
        BY <1>0, <1>1, <1>4 DEF OrderedInv, Mine, BaseInv, Ended, Arguments, Requested
    <2>2. ASSUME NEW p \in Applied(m)' PROVE db'[p].fid <= op[o].future
        <3>1. CASE p \in Applied(m)
            BY <1>0, <1>4, <2>1, <3>1 DEF Asked, UsesKnown, IdStep, Fid
        <3>2. CASE Taken(p) /\ Mine(p) = m
            <4>1. p \in Ops /\ Proceed(p) /\ p # o
                BY <2>1, <3>2 DEF Taken
            <4>2. Ahead(p, o) /\ p \in used
                BY <1>0, <1>4, <2>1, <3>2, <4>1, HolderIsAhead
                DEF Taken, RestartInv, ServerInv, LinkInv
            <4> QED BY <1>0, <1>4, <4>2 DEF Ahead, IdStep, Fid
        <3>3. ASSUME NEW c \in ckpts[m], p \in c.weights PROVE db'[p].fid <= op[o].future
            <4>1. Made(m, c)
                BY DEF Made
            <4>2. p \in used /\ Fid(p) <= c.future /\ c.future <= op[o].future
                BY <1>4, <2>1, <3>3, <4>1 DEF Covers, Asked
            <4>3. Fid(p) \in Nat /\ c.future \in Nat /\ db'[p].fid = Fid(p)
                BY <1>0, <4>1, <4>2, FidTypes, MadeIsTyped DEF IdStep, Fid
            <4> QED BY <2>1, <4>2, <4>3
        <3> QED BY <1>0, <2>2, <3>1, <3>2, <3>3, SourceStep
    <2>3. ASSUME NEW c, Made(m, c)' PROVE c.future <= op[o].future
        <3>1. CASE Made(m, c)
            BY <1>4, <2>1, <3>1 DEF Asked
        <3>2. ASSUME NEW q \in Ops, Chosen(q, m, c) PROVE c.future <= op[o].future
            <4>1. Requested(q) /\ c.future = op[q].future /\ Mine(q) = m
                BY <1>0, <3>2, ChosenIsCovered
            <4>2. q # o /\ Proceed(q)
                <5>1. stage'[q] = "executing" /\ EnterSave(q)
                    BY <1>0, <3>2, ChosenIsNew DEF Chosen
                <5> QED BY <2>1, <5>1 DEF Proceed
            <4>3. Ahead(q, o)
                BY <1>0, <1>4, <2>1, <4>1, <4>2, HolderIsAhead
            <4> QED BY <1>4, <4>1, <4>3 DEF Ahead
        <3> QED BY <1>0, <2>3, <3>1, <3>2, MadeStep
    <2>4. op[o].future < nextId'
        BY <1>0, <1>4, <2>1 DEF Asked, IdStep
    <2> QED BY <1>1, <1>4, <2>2, <2>3, <2>4 DEF Asked, Fid
<1> QED BY <1>3, <1>4, RequestedStep

(* The run that is restored gets the newest of its checkpoints.            *)
LEMMA LatestIsLast ==
    ASSUME BaseInv, DatedInv, NEW m \in Runs, InOrder(m), NEW c \in ckpts[m]
    PROVE  c.future <= LatestFuture(m)
<1>1. PICK d \in Latest(ckpts[m]) : Latest(ckpts[m]) = {d}
    BY LatestIsOne
<1>2. d \in ckpts[m] /\ c.created <= d.created
    BY <1>1 DEF Latest
<1>3. Made(m, c) /\ Made(m, d)
    BY <1>2 DEF Made
<1>4. LatestFuture(m) = d.future
    BY <1>1, LatestFutureIs
<1>5. c.created \in Nat /\ d.created \in Nat /\ c.future \in Nat
    BY <1>3, MadeIsTyped
<1>6. CASE c.created = d.created
    BY <1>3, <1>4, <1>5, <1>6 DEF DatedInv
<1>7. CASE c.created < d.created
    BY <1>3, <1>4, <1>7 DEF InOrder
<1> QED BY <1>2, <1>5, <1>6, <1>7

LEMMA BoundedNext ==
    ASSUME RightWeights, KnownInv, OrderedInv, [ServerNext]_serverVars,
           phase' = "recovering", NEW m \in recovered'
    PROVE  Bounded(m)'
<1>0. /\ BaseInv /\ FutureInv /\ DatedInv /\ RecoveryInv /\ MemoryInv /\ PastInv /\ CorruptInv
      /\ [Next]_trainingVars /\ IdStep
      /\ recovered \subseteq Runs /\ recovered' \subseteq Runs
    BY KnownNext DEF KnownInv, RestartInv, ServerInv, LateInv
<1>1. m \in Runs /\ UsesKnown(m) /\ Covers(m) /\ InOrder(m)
    BY <1>0 DEF OrderedInv
<1>2. ~Boot
    BY DEF Boot, Restart
<1>3. /\ phase = "recovering"
      /\ \/ \E r \in Runs : RecoverRun(r)
         \/ UNCHANGED runVars /\ boundary' = boundary /\ reconcile' \subseteq reconcile
    BY <1>0, <1>2, RecoveringStep
<1>4. /\ \A o \in Ops : stage[o] \in Past
      /\ \A c : Made(m, c) => c \in ckpts[m]
    BY <1>0, <1>1, <1>3 DEF PastInv, Past, Made, Naming, MemoryInv
<1>5. ASSUME NEW c, Made(m, c)' PROVE Made(m, c)
    <2>1. ASSUME NEW q \in Ops, Chosen(q, m, c) PROVE FALSE
        BY <1>0, <1>1, <1>4, <2>1, ChosenIsNew DEF Past
    <2> QED BY <1>0, <1>1, <1>5, <2>1, MadeStep
<1>6. ASSUME NEW p \in Applied(m)'
      PROVE  p \in Applied(m) \/ \E c \in ckpts[m] : p \in c.weights
    <2>1. ~Taken(p)
        BY <1>4 DEF Taken, Past
    <2> QED BY <1>0, <1>1, <1>6, <2>1, SourceStep
<1>7. \A p \in used : db'[p].fid = Fid(p)
    BY <1>0 DEF IdStep, Fid
<1>8. CASE UNCHANGED runVars /\ boundary' = boundary
    <2>1. m \in recovered /\ adapters' = adapters
        BY <1>8 DEF runVars
    <2>2. Bounded(m)
        BY <1>3, <2>1 DEF OrderedInv
    <2>3. Applied(m)' = Applied(m)
        BY <2>1 DEF Applied
    <2> QED BY <1>1, <1>5, <1>7, <1>8, <2>2, <2>3 DEF Bounded, UsesKnown, Fid
<1>9. ASSUME NEW r \in Runs, RecoverRun(r) PROVE Bounded(m)'
    <2>1. /\ recovered' = recovered \cup {r} /\ r \notin recovered
          /\ \A x \in Runs \ {r} : adapters'[x] = adapters[x] /\ boundary'[x] = boundary[x]
          /\ boundary'[r] = LatestFuture(r)
        BY <1>0, <1>9, RecoverRunStep
    <2>2. CASE m # r
        <3>1. m \in recovered
            BY <2>1, <2>2
        <3>2. Bounded(m) /\ Applied(m)' = Applied(m) /\ boundary'[m] = boundary[m]
            BY <1>1, <1>3, <2>1, <2>2, <3>1 DEF OrderedInv, Applied
        <3> QED BY <1>1, <1>5, <1>7, <3>2 DEF Bounded, UsesKnown, Fid
    <2>3. CASE m = r
        <3>1. Applied(m) = {}
            BY <1>0, <1>3, <2>1, <2>3 DEF CorruptInv, Applied, NoAdapter
        <3>2. \A c \in ckpts[m] : c.future <= boundary'[m]
            BY <1>0, <1>1, <2>1, <2>3, LatestIsLast
        <3>3. ASSUME NEW p \in Applied(m)' PROVE db'[p].fid <= boundary'[m]
            <4>1. PICK c \in ckpts[m] : p \in c.weights
                BY <1>6, <3>1, <3>3
            <4>2. Made(m, c)
                BY DEF Made
            <4>3. p \in used /\ Fid(p) <= c.future /\ c.future \in Nat /\ Fid(p) \in Nat
                BY <1>0, <1>1, <4>1, <4>2, FidTypes, MadeIsTyped DEF Covers
            <4>4. boundary'[m] \in Nat
                BY <1>0, <1>1, <2>1, <2>3, LatestFutureIs, BoundsAssumption
            <4> QED BY <1>7, <3>2, <4>1, <4>3, <4>4
        <3> QED BY <1>4, <1>5, <3>2, <3>3 DEF Bounded, Fid
    <2> QED BY <2>2, <2>3
<1> QED BY <1>3, <1>8, <1>9

LEMMA OrderedNext ==
    ASSUME RightWeights, KnownInv, OrderedInv, [ServerNext]_serverVars
    PROVE  OrderedInv'
<1>1. ASSUME NEW m \in Runs PROVE Covers(m)' /\ InOrder(m)' /\ UsesKnown(m)' /\ Line(m)'
    BY CoversNext, QueueNext DEF UsesKnown
<1> QED BY <1>1, AskedNext, BoundedNext DEF OrderedInv

LEMMA OrderedInit == ServerInit => OrderedInv
<1> SUFFICES ASSUME ServerInit PROVE OrderedInv
    OBVIOUS
<1>1. /\ \A m \in Runs : adapters[m] = NoAdapter /\ queue[m] = <<>> /\ ckpts[m] = {} /\ dbCkpts[m] = {}
      /\ \A o \in Ops : stage[o] = "new"
      /\ recovered = {}
    BY DEF ServerInit, Init
<1>2. \A m \in Runs : Applied(m) = {} /\ \A c : ~Made(m, c)
    BY <1>1 DEF Applied, NoAdapter, Made, Naming
<1>3. \A o \in Ops : ~Requested(o)
    BY <1>1 DEF Requested
<1> QED BY <1>1, <1>2, <1>3 DEF OrderedInv, Covers, InOrder, UsesKnown, Line, Asked

(* What was cancelled is in no weights of its run, in no record of a       *)
(* checkpoint, and comes back from none.                                   *)
Clean(r, m) == r \notin Applied(m) /\ \A c : Made(m, c) => r \notin c.weights

WithdrawnInv == \A r \in used : Cancelled(r) => Given(db[r].model) \/ Clean(r, db[r].model)

LEMMA DroppedIsClean ==
    ASSUME KnownInv, OrderedInv, NEW r, Dropped(r)
    PROVE  Given(db[r].model) \/ Clean(r, db[r].model)
<1>0. /\ BaseInv /\ FutureInv /\ CorruptInv /\ RecoveryInv
      /\ phase = "recovering" /\ r \in used
    BY DEF KnownInv, RestartInv, ServerInv, Dropped
<1>1. PICK x \in reconcile : r \in ToFail(x)
    BY DEF Dropped
<1>2. /\ x.run \in recovered /\ (x.pendingOnly => Given(x.run)) /\ x.run \in Runs
    BY <1>0, <1>1 DEF CorruptInv, RecoveryInv
<1>3. records[r].model = x.run /\ db[r].model = x.run /\ records[r].fid = Fid(r)
    BY <1>0, <1>1 DEF ToFail, Futures!PendingOfModel, Futures!PendingOf, Futures!AfterCheckpoint,
        Futures!OfModel, FutureInv, Fid
<1>4. CASE x.pendingOnly
    BY <1>2, <1>3, <1>4
<1>5. CASE ~x.pendingOnly
    <2> DEFINE m == x.run
    <2>1. Fid(r) > boundary[m]
        BY <1>1, <1>3, <1>5 DEF ToFail, Futures!AfterCheckpoint
    <2>2. Bounded(m) /\ Covers(m)
        BY <1>0, <1>2 DEF OrderedInv
    <2>3. boundary[m] \in Nat /\ Fid(r) \in Nat
        BY <1>0, <1>2, FidTypes, BoundsAssumption DEF RecoveryInv
    <2>4. r \notin Applied(m)
        BY <2>1, <2>2, <2>3 DEF Bounded
    <2>5. ASSUME NEW c, Made(m, c), r \in c.weights PROVE FALSE
        <3>1. Fid(r) <= c.future /\ c.future <= boundary[m] /\ c.future \in Nat
            BY <1>0, <1>2, <2>2, <2>5, MadeIsTyped DEF Covers, Bounded
        <3> QED BY <2>1, <2>3, <3>1
    <2> QED BY <1>3, <2>4, <2>5 DEF Clean
<1> QED BY <1>4, <1>5

LEMMA CleanStays ==
    ASSUME RightWeights, KnownInv, [ServerNext]_serverVars, NEW r \in Ops, stage[r] \in Past,
           NEW m \in Runs, Clean(r, m)
    PROVE  Clean(r, m)'
<1>0. BaseInv /\ MemoryInv /\ [Next]_trainingVars
    BY KnownNext DEF KnownInv, RestartInv, ServerInv
<1>1. r \notin Applied(m)'
    <2>1. ~Taken(r)
        BY DEF Taken, Past
    <2>2. \A c \in ckpts[m] : r \notin c.weights
        BY DEF Clean, Made
    <2> QED BY <1>0, <2>1, <2>2, SourceStep DEF Clean
<1>2. ASSUME NEW c, Made(m, c)' PROVE r \notin c.weights
    <2>1. CASE Made(m, c)
        BY <2>1 DEF Clean
    <2>2. ASSUME NEW q \in Ops, Chosen(q, m, c) PROVE r \notin c.weights
        BY <1>0, <2>2, ChosenIsNew DEF Clean, Applied
    <2> QED BY <1>0, <1>2, <2>1, <2>2, MadeStep
<1> QED BY <1>1, <1>2 DEF Clean

LEMMA GivenStays ==
    ASSUME RightWeights, KnownInv, [ServerNext]_serverVars, NEW r, NEW m \in Runs, Given(m)
    PROVE  Given(m)' \/ Clean(r, m)'
<1>0. BaseInv /\ FutureInv /\ NumberedInv /\ CorruptInv /\ [Next]_trainingVars
    BY KnownNext DEF KnownInv, RestartInv, ServerInv
<1>1. CASE ~Boot
    <2>1. ~Restart
        BY <1>0, <1>1, BootOnlyRestarts
    <2> QED BY <1>0, <2>1, CorruptStep DEF Given
<1>2. CASE Boot
    <2>1. /\ UNCHANGED <<dbRuns, dbRun, dbCkpts>> /\ adapters'[m] = NoAdapter
          /\ run'[m] = RestoredRun(m) /\ ckpts'[m] = IF m \in dbRuns THEN dbCkpts[m] ELSE {}
          /\ \A o \in Ops : stage'[o] \in Past
        BY <1>2 DEF Boot, Restart, durable, Past
    <2>2. CASE m \in dbRuns
        BY <2>1, <2>2 DEF Given, RestoredRun
    <2>3. CASE m \notin dbRuns
        <3>1. \A c : ~Made(m, c)'
            BY <1>0, <2>1, <2>3 DEF Made, Naming, Past, NumberedInv, StoredNames
        <3>2. Applied(m)' = {}
            BY <2>1 DEF Applied, NoAdapter
        <3> QED BY <3>1, <3>2 DEF Clean
    <2> QED BY <2>2, <2>3
<1> QED BY <1>1, <1>2

LEMMA WithdrawnNext ==
    ASSUME RightWeights, KnownInv, OrderedInv, WithdrawnInv, [ServerNext]_serverVars
    PROVE  WithdrawnInv'
<1>0. /\ BaseInv /\ FutureInv /\ PastInv /\ FutureStep /\ IdStep
      /\ restored \subseteq used
    BY KnownNext DEF KnownInv, RestartInv, ServerInv, OldInv
<1>1. CancelStep
    BY <1>0, CancelsOnly DEF PastInv, Trained
<1>2. ASSUME NEW r \in used', Cancelled(r)'
      PROVE  Given(db[r].model)' \/ Clean(r, db[r].model)'
    <2>1. (r \in used /\ Cancelled(r)) \/ Dropped(r)
        BY <1>1, <1>2 DEF CancelStep
    <2>2. r \in used /\ r \in restored /\ r \in Ops /\ stage[r] \in Past
        BY <1>0, <2>1 DEF PastInv, Dropped, FutureInv
    <2>3. Given(db[r].model) \/ Clean(r, db[r].model)
        BY <2>1, DroppedIsClean DEF WithdrawnInv
    <2>4. PICK m : m = db[r].model
        OBVIOUS
    <2>5. m \in Runs /\ db'[r].model = m
        BY <1>0, <2>2, <2>4 DEF FutureInv, Futures!Durable, Models, IdStep
    <2>6. Given(m)' \/ Clean(r, m)'
        BY <2>2, <2>3, <2>4, <2>5, CleanStays, GivenStays
    <2> QED BY <2>5, <2>6 DEF Given, Clean, Applied, Made
<1> QED BY <1>2 DEF WithdrawnInv

LEMMA WithdrawnInit == ServerInit => WithdrawnInv
BY DEF ServerInit, Futures!Init, WithdrawnInv

(* Recovery asks for retries of work that is really gone: an optimizer step *)
(* whose future it failed is not in the weights its run is served with,     *)
(* after any number of restarts, recoveries that were cut short and         *)
(* recoveries that failed.  It does not come back later either, because     *)
(* WithdrawnInv finds it in no checkpoint of the run.                       *)
THEOREM CancelledWorkIsGone ==
    ASSUME RightWeights
    PROVE  ServerSpec => []CancelledIsNotApplied
<1> DEFINE Inv == KnownInv /\ OrderedInv /\ WithdrawnInv
<1>1. ServerInit => Inv
    BY KnownInit, OrderedInit, WithdrawnInit
<1>2. Inv /\ [ServerNext]_serverVars => Inv'
    BY KnownNext, OrderedNext, WithdrawnNext
<1>3. Inv => CancelledIsNotApplied
    <2> SUFFICES ASSUME Inv, NEW m \in runs, NEW r \in Restored(m), records[r].error = "cancelled"
                 PROVE  r \notin adapters[m].weights
        BY DEF CancelledIsNotApplied
    <2>1. r \in used /\ db[r].model = m /\ Cancelled(r) /\ m \in Runs
        BY RunTypes DEF Restored, KnownInv, RestartInv, ServerInv, FutureInv, Cancelled
    <2>2. Given(m) \/ Clean(r, m)
        BY <2>1 DEF WithdrawnInv
    <2>3. Barren(m)
        BY <2>1 DEF KnownInv, CorruptInv
    <2> QED BY <2>2, <2>3 DEF Given, Clean, Barren, Applied
<1> QED BY <1>1, <1>2, <1>3, PTL DEF ServerSpec
===============================================================================
