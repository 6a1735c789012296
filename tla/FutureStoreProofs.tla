--------------------------- MODULE FutureStoreProofs ---------------------------
(* Theorems about FutureStore, for any requests, models, users, save        *)
(* outcomes, number of restarts, and with or without expiry and cleanup     *)
(* unless a theorem says otherwise.                                         *)
EXTENDS FutureRefinement, WellFoundedInduction, TLAPS

-----------------------------------------------------------------------------
(* Types of the helpers *)

LEMMA BlankType ==
    ASSUME NEW m \in Models, NEW u \in Users
    PROVE  Blank(m, u) \in Record
BY DEF Blank, Record, FutureKinds, Statuses, Payloads, Errors

LEMMA NoRecordType == NoRecord \in Record
BY BlankType, InhabitedAssumption DEF NoRecord

LEMMA StoredType ==
    ASSUME NEW rec \in Record
    PROVE  Stored(rec) \in Durable
BY DEF Stored, Record, Durable

LEMMA LoadedType ==
    ASSUME NEW d \in Durable
    PROVE  Loaded(d) \in Record
BY DEF Loaded, Record, Durable

LEMMA FailedType ==
    ASSUME NEW rec \in Record
    PROVE  Failed(rec) \in Record
BY DEF Failed, Record, Statuses, Errors

LEMMA ResolvedType ==
    ASSUME NEW rec \in Record, NEW res
    PROVE  Resolved(rec, res) \in Record
BY DEF Resolved, Record, Statuses, Errors, Payloads

LEMMA ConclusionType ==
    ASSUME NEW rec \in Record
    PROVE  Conclusion(rec) \in Answers
BY DEF Conclusion, Answers

LEMMA SaveType ==
    ASSUME TypeOK, NEW r \in Requests, NEW rec \in Record, NEW o \in SaveOutcomes,
           SaveFuture(r, rec, o)
    PROVE  stored' \subseteq Requests /\ db' \in [Requests -> Durable]
<1>1. o \in {"full", "stripped", "lost"}
    BY SaveAssumption DEF SaveOutcome
<1>2. Stored(rec) \in Durable
    BY StoredType
<1>3. [Stored(rec) EXCEPT !.payload = "none"] \in Durable
    BY <1>2 DEF Durable, Payloads
<1> QED BY <1>1, <1>2, <1>3 DEF SaveFuture, TypeOK

LEMMA DeleteType ==
    ASSUME TypeOK, NEW r \in Requests, DeleteFuture(r)
    PROVE  stored' \subseteq Requests /\ db' \in [Requests -> Durable]
BY NoRecordType, StoredType DEF DeleteFuture, TypeOK

(* Every nonempty set of numbers below some bound has a greatest element.  *)
LEMMA GreatestBelow ==
    ASSUME NEW ids \in SUBSET Nat, ids # {}, NEW b \in Nat, \A i \in ids : i < b
    PROVE  \E n \in ids : \A i \in ids : i <= n
<1> DEFINE U == {n \in Nat : \A i \in ids : i <= n}
<1>1. b \in U
    OBVIOUS
<1>2. PICK n \in U : \A k \in U : n <= k
    <2> DEFINE Less == {p \in Nat \X Nat : p[1] < p[2]}
    <2>1. IsWellFoundedOn(Less, Nat)
        BY NatLessThanWellFounded, Zenon DEF OpToRel
    <2> HIDE DEF Less
    <2>2. PICK n \in U : \A k \in U : ~ (<<k, n>> \in Less)
        BY <1>1, <2>1, WFMin
    <2>3. \A k \in U : k < n => <<k, n>> \in Less
        BY DEF Less
    <2>4. \A k \in U : ~ (k < n)
        BY <2>2, <2>3, Zenon
    <2>5. \A k \in U : k \in Nat /\ n \in Nat
        OBVIOUS
    <2> QED BY <2>4, <2>5
<1>3. SUFFICES ASSUME n \notin ids PROVE FALSE
    BY <1>2
<1>4. n > 0
    <2>1. PICK i \in ids : i <= n
        BY <1>2
    <2>2. i # n /\ i \in Nat /\ n \in Nat
        BY <1>3
    <2> QED BY <2>1, <2>2
<1>5. n - 1 \in U
    BY <1>2, <1>3, <1>4
<1> QED BY <1>2, <1>4, <1>5

-----------------------------------------------------------------------------
(* The invariant behind TypeOK, OnePublication and FreshIds.  TypeOK is not *)
(* inductive by itself: a restart takes the greatest id in the store, which *)
(* exists because the stored ids were below the counter before.             *)

PublisherIsKnown == \A r \in Requests : task[r] \in {"saving", "saved"} => r \in registry
StoreIsKnown ==
    /\ stored \subseteq registry /\ registry \subseteq used
    /\ \A r \in stored : db[r].fid = records[r].fid
KnownBelow == \A r \in registry : records[r].fid < nextId
UniqueIds == \A r, s \in registry : records[r].fid = records[s].fid => r = s

IdInv ==
    /\ TypeOK
    /\ OnePublication
    /\ PublisherIsKnown
    /\ StoreIsKnown
    /\ KnownBelow
    /\ UniqueIds

LEMMA NextAfterType ==
    ASSUME NEW ids \in SUBSET Nat, NEW b \in Nat, \A i \in ids : i < b
    PROVE  NextAfter(ids) \in Nat /\ \A i \in ids : i < NextAfter(ids)
<1>1. CASE ids = {}
    BY <1>1 DEF NextAfter
<1>2. CASE ids # {}
    <2>1. \E n \in ids : \A i \in ids : i <= n
        BY <1>2, GreatestBelow
    <2> DEFINE g == CHOOSE n \in ids : \A i \in ids : i <= n
    <2>2. g \in ids /\ \A i \in ids : i <= g
        BY <2>1
    <2>3. NextAfter(ids) = g + 1
        BY <1>2 DEF NextAfter
    <2> HIDE DEF g
    <2> QED BY <2>2, <2>3
<1> QED BY <1>1, <1>2

LEMMA IdInit == Init => IdInv
<1> SUFFICES ASSUME Init PROVE IdInv
    OBVIOUS
<1>1. NoRecord \in Record /\ Stored(NoRecord) \in Durable
    BY NoRecordType, StoredType
<1>2. TypeOK
    BY <1>1 DEF Init, TypeOK, Phases, TaskStates
<1>3. OnePublication /\ PublisherIsKnown
    BY NoRequestAssumption DEF Init, OnePublication, PublisherIsKnown
<1>4. StoreIsKnown /\ KnownBelow /\ UniqueIds
    BY DEF Init, StoreIsKnown, KnownBelow, UniqueIds
<1> QED BY <1>2, <1>3, <1>4 DEF IdInv

(* Saving a record touches one key, which may be refused.                  *)
LEMMA SaveEffect ==
    ASSUME TypeOK, NEW r \in Requests, NEW rec \in Record, NEW o \in SaveOutcomes,
           SaveFuture(r, rec, o)
    PROVE  /\ stored' \subseteq stored \cup {r}
           /\ \A s \in stored' : s # r => s \in stored /\ db'[s] = db[s]
           /\ r \in stored' => db'[r].fid = rec.fid \/ (r \in stored /\ db'[r] = db[r])
<1> DEFINE value == IF o = "full" THEN Stored(rec) ELSE [Stored(rec) EXCEPT !.payload = "none"]
<1>1. value.fid = rec.fid
    BY DEF Stored
<1>2. \/ stored' = stored /\ db' = db
      \/ stored' = stored \cup {r} /\ db' = [db EXCEPT ![r] = value]
    BY DEF SaveFuture
<1>3. DOMAIN db = Requests /\ stored \subseteq Requests
    BY DEF TypeOK
<1> HIDE DEF value
<1>4. CASE stored' = stored /\ db' = db
    BY <1>4
<1>5. CASE stored' = stored \cup {r} /\ db' = [db EXCEPT ![r] = value]
    BY <1>1, <1>3, <1>5
<1> QED BY <1>2, <1>4, <1>5

(* A handler that creates a future, with or without a task.                *)
LEMMA RegisterKeeps ==
    ASSUME IdInv, NEW r \in Requests, NEW rec \in Record, NEW o \in SaveOutcomes,
           Register(r, rec, o), rec.fid = nextId,
           task' = task \/ task' = [task EXCEPT ![r] = "running"]
    PROVE  IdInv'
<1> USE DEF IdInv
<1>1. r \notin used /\ r \notin registry /\ r \notin stored /\ lock = NoRequest
    BY DEF Register, LockFree, StoreIsKnown
<1>2. SaveFuture(r, rec, o)
    BY DEF Register
<1>3. TypeOK'
    BY <1>2, SaveType DEF Register, TypeOK, TaskStates, control
<1>4. task[r] \notin {"saving", "saved"}
    BY <1>1, NoRequestAssumption DEF OnePublication
<1>5. OnePublication' /\ PublisherIsKnown'
    BY <1>4 DEF Register, TypeOK, OnePublication, PublisherIsKnown
<1>6. StoreIsKnown'
    BY <1>1, <1>2, SaveEffect DEF Register, TypeOK, StoreIsKnown
<1>7. KnownBelow' /\ UniqueIds'
    BY <1>1 DEF Register, TypeOK, KnownBelow, UniqueIds, Record
<1> QED BY <1>3, <1>5, <1>6, <1>7

(* A step of a process that lives, which creates no future: it may change  *)
(* what records say but not their ids, drop futures, and save some.        *)
LEMMA NoNewFutureKeeps ==
    ASSUME IdInv, TypeOK', OnePublication', PublisherIsKnown',
           registry' \subseteq registry, used' = used, nextId' = nextId,
           \A r \in Requests : records'[r].fid = records[r].fid,
           stored' \subseteq registry',
           \A r \in stored' : db'[r].fid = records[r].fid
    PROVE  IdInv'
BY DEF IdInv, StoreIsKnown, KnownBelow, UniqueIds, TypeOK

-----------------------------------------------------------------------------
(* One lemma per group of actions *)

LEMMA CreatingKeeps ==
    ASSUME IdInv, NEW u \in Users, NEW r \in Requests, NEW m \in Models,
           \/ \E k \in {"train", "sample"} : Enqueue(r, u, m, k)
           \/ CreateReadyFuture(r, u, m)
    PROVE  IdInv'
<1> Blank(m, u) \in Record /\ nextId \in Nat
    BY BlankType DEF IdInv, TypeOK
<1>1. ASSUME NEW k \in {"train", "sample"}, Enqueue(r, u, m, k) PROVE IdInv'
    <2> DEFINE rec == [Blank(m, u) EXCEPT !.fid = nextId, !.kind = k]
    <2>1. rec \in Record /\ rec.fid = nextId
        BY DEF Record, FutureKinds
    <2>2. PICK o \in SaveOutcomes : Register(r, rec, o) /\ task' = [task EXCEPT ![r] = "running"]
        BY <1>1 DEF Enqueue
    <2> HIDE DEF rec
    <2> QED BY <2>1, <2>2, RegisterKeeps
<1>2. ASSUME CreateReadyFuture(r, u, m) PROVE IdInv'
    <2> DEFINE rec == [Blank(m, u) EXCEPT !.fid = nextId, !.kind = "immediate",
                                          !.status = "ready", !.payload = "result",
                                          !.event = TRUE]
    <2>1. rec \in Record /\ rec.fid = nextId
        BY DEF Record, FutureKinds, Statuses, Payloads
    <2>2. PICK o \in SaveOutcomes : Register(r, rec, o) /\ task' = task
        BY <1>2 DEF CreateReadyFuture
    <2> HIDE DEF rec
    <2> QED BY <2>1, <2>2, RegisterKeeps
<1> QED BY <1>1, <1>2

LEMMA RunnerKeeps ==
    ASSUME IdInv, NEW r \in Requests, Runner(r)
    PROVE  IdInv'
<1> USE DEF IdInv
<1>1. ASSUME NEW res \in {"ready", "failed"}, OperationEnds(r, res) PROVE IdInv'
    <2>1. TypeOK' /\ OnePublication' /\ PublisherIsKnown'
        BY <1>1, NoRequestAssumption
        DEF OperationEnds, TypeOK, TaskStates, OnePublication, PublisherIsKnown, durable, control
    <2> QED BY <1>1, <2>1, NoNewFutureKeeps DEF OperationEnds, StoreIsKnown, durable
<1>2. ASSUME MarkBegin(r) PROVE IdInv'
    <2> DEFINE new == Resolved(records[r], outcome[r])
    <2>1. new \in Record /\ new.fid = records[r].fid
        BY ResolvedType DEF Resolved, TypeOK, Record
    <2> HIDE DEF new
    <2>2. records' = records \/ records' = [records EXCEPT ![r] = new]
        BY <1>2 DEF MarkBegin, new
    <2>3. \A s \in Requests : records'[s] \in Record /\ records'[s].fid = records[s].fid
        BY <2>1, <2>2 DEF TypeOK
    <2>4. TypeOK'
        BY <1>2, <2>2, <2>3 DEF MarkBegin, TypeOK, TaskStates, durable, control
    <2>5. OnePublication' /\ PublisherIsKnown'
        BY <1>2, NoRequestAssumption
        DEF MarkBegin, LockFree, TypeOK, OnePublication, PublisherIsKnown
    <2> QED BY <1>2, <2>3, <2>4, <2>5, NoNewFutureKeeps DEF MarkBegin, StoreIsKnown, durable
<1>3. ASSUME MarkSave(r) PROVE IdInv'
    <2>1. PICK o \in SaveOutcomes : SaveFuture(r, records[r], o)
        BY <1>3 DEF MarkSave
    <2>2. records[r] \in Record /\ r \in registry
        BY <1>3 DEF MarkSave, TypeOK, PublisherIsKnown
    <2>3. TypeOK'
        BY <1>3, <2>1, <2>2, SaveType DEF MarkSave, TypeOK, TaskStates, control
    <2>4. OnePublication' /\ PublisherIsKnown'
        BY <1>3 DEF MarkSave, TypeOK, OnePublication, PublisherIsKnown
    <2>5. stored' \subseteq registry /\ \A s \in stored' : db'[s].fid = records[s].fid
        BY <2>1, <2>2, SaveEffect DEF StoreIsKnown
    <2> QED BY <1>3, <2>3, <2>4, <2>5, NoNewFutureKeeps DEF MarkSave
<1>4. ASSUME MarkEnd(r) PROVE IdInv'
    <2>1. \A s \in Requests : records'[s] \in Record /\ records'[s].fid = records[s].fid
        BY <1>4 DEF MarkEnd, TypeOK, Published, Record
    <2>2. TypeOK'
        BY <1>4, <2>1 DEF MarkEnd, Unlock, TypeOK, TaskStates, durable, control
    <2>3. OnePublication' /\ PublisherIsKnown'
        BY <1>4, NoRequestAssumption
        DEF MarkEnd, Unlock, TypeOK, OnePublication, PublisherIsKnown
    <2> QED BY <1>4, <2>1, <2>2, <2>3, NoNewFutureKeeps DEF MarkEnd, StoreIsKnown, durable
<1> QED BY <1>1, <1>2, <1>3, <1>4 DEF Runner

LEMMA RetrievingKeeps ==
    ASSUME IdInv, NEW u \in Users, NEW r \in Requests,
           \/ RetrieveOfOther(u, r) \/ RetrieveCompleted(u, r) \/ RetrieveWait(u, r)
           \/ RetrieveWake(u) \/ RetrieveTimeout(u)
    PROVE  IdInv'
<1> USE DEF IdInv
<1>1. CASE RetrieveOfOther(u, r)
    <2>1. \A s \in Requests : records'[s] \in Record /\ records'[s].fid = records[s].fid
        BY <1>1 DEF RetrieveOfOther, TypeOK, Denied, Record, Statuses
    <2>2. TypeOK' /\ OnePublication' /\ PublisherIsKnown'
        BY <1>1, <2>1 DEF RetrieveOfOther, TypeOK, OnePublication, PublisherIsKnown, durable, control
    <2> QED BY <1>1, <2>1, <2>2, NoNewFutureKeeps DEF RetrieveOfOther, StoreIsKnown, durable
<1>2. ASSUME NEW s \in Requests, Tell(s, Conclusion(records[s]))
      PROVE  told' \in [Requests -> SUBSET Answers]
    BY <1>2, ConclusionType DEF Tell, TypeOK
<1>3. CASE RetrieveCompleted(u, r)
    BY <1>2, <1>3 DEF RetrieveCompleted, TypeOK, memory, durable, control, OnePublication,
        PublisherIsKnown, StoreIsKnown, KnownBelow, UniqueIds
<1>4. CASE RetrieveWait(u, r)
    BY <1>4 DEF RetrieveWait, TypeOK, durable, control, OnePublication,
        PublisherIsKnown, StoreIsKnown, KnownBelow, UniqueIds
<1>5. CASE RetrieveWake(u)
    <2>1. waiting[u] \in Requests
        BY <1>5 DEF RetrieveWake, TypeOK
    <2> QED BY <1>2, <1>5, <2>1 DEF RetrieveWake, TypeOK, durable, control, OnePublication,
                PublisherIsKnown, StoreIsKnown, KnownBelow, UniqueIds
<1>6. CASE RetrieveTimeout(u)
    BY <1>6 DEF RetrieveTimeout, TypeOK, durable, control, OnePublication,
        PublisherIsKnown, StoreIsKnown, KnownBelow, UniqueIds
<1> QED BY <1>1, <1>3, <1>4, <1>5, <1>6

LEMMA DroppingKeeps ==
    ASSUME IdInv, NEW r \in Requests, Cleanup(r) \/ Expire(r)
    PROVE  IdInv'
<1> USE DEF IdInv
<1>1. DeleteFuture(r)
    BY DEF Cleanup, Expire
<1>2. stored' \subseteq stored \ {r} /\ \A s \in stored' : db'[s] = db[s]
    BY <1>1 DEF DeleteFuture, TypeOK
<1>3. TypeOK'
    BY <1>1, DeleteType DEF Cleanup, Expire, TypeOK, memory, control
<1>4. OnePublication'
    BY DEF Cleanup, Expire, OnePublication, memory
<1>5. PublisherIsKnown'
    BY NoRequestAssumption
    DEF Cleanup, Expire, LockFree, OnePublication, PublisherIsKnown, memory
<1>6. stored' \subseteq registry' /\ \A s \in stored' : db'[s].fid = records[s].fid
    BY <1>2 DEF Cleanup, Expire, StoreIsKnown, memory
<1> QED BY <1>3, <1>4, <1>5, <1>6, NoNewFutureKeeps DEF Cleanup, Expire, memory

(* The loop of a marking function, complete or cut short.                  *)
LEMMA FailAllKeeps ==
    ASSUME IdInv, NEW S, NEW saved, S \subseteq registry, saved \subseteq S,
           FailAll(S, saved), phase' \in Phases, sampled' \in BOOLEAN, restarts' \in Nat
    PROVE  IdInv'
<1> USE DEF IdInv
<1>1. \A s \in Requests : /\ Failed(records[s]) \in Record
                          /\ Failed(records[s]).fid = records[s].fid
                          /\ Stored(Failed(records[s])) \in Durable
                          /\ Stored(Failed(records[s])).fid = records[s].fid
    BY FailedType, StoredType DEF TypeOK, Failed, Stored, Record
<1>2. \A s \in Requests : /\ records'[s] \in Record
                          /\ records'[s].fid = records[s].fid
                          /\ db'[s] \in Durable
                          /\ db'[s].fid = IF s \in saved THEN records[s].fid ELSE db[s].fid
    BY <1>1 DEF FailAll, TypeOK
<1>3. TypeOK'
    BY <1>2 DEF FailAll, TypeOK
<1>4. OnePublication' /\ PublisherIsKnown'
    BY DEF FailAll, OnePublication, PublisherIsKnown
<1>5. stored' \subseteq registry' /\ \A s \in stored' : db'[s].fid = records[s].fid
    BY <1>2 DEF FailAll, StoreIsKnown, TypeOK
<1> QED BY <1>2, <1>3, <1>4, <1>5, NoNewFutureKeeps DEF FailAll

LEMMA RecoveryKeeps ==
    ASSUME IdInv, Recovery
    PROVE  IdInv'
<1>1. \A S : \A saved \in SavedOf(S) : saved \subseteq S
    BY DEF SavedOf
<1>2. PendingSamples \subseteq registry
    BY DEF PendingSamples, PendingOf
<1>3. \A S \in RecoverySets : S \subseteq registry
    BY <1>2 DEF RecoverySets, PendingOfModel, PendingOf, OfModel, AfterCheckpoint
<1>4. phase \in Phases /\ sampled \in BOOLEAN /\ restarts \in Nat
    BY DEF IdInv, TypeOK
<1>5. CASE MarkPendingSamples
    BY <1>1, <1>2, <1>4, <1>5, FailAllKeeps DEF MarkPendingSamples
<1>6. ASSUME NEW S \in RecoverySets, RecoverRun(S) PROVE IdInv'
    BY <1>1, <1>3, <1>4, <1>6, FailAllKeeps DEF RecoverRun, control
<1>7. ASSUME NEW S \in RecoverySets, CrashWhileMarking(S) PROVE IdInv'
    BY <1>3, <1>4, <1>7, FailAllKeeps DEF CrashWhileMarking, Phases
<1>8. CASE FinishRecovery
    BY <1>8 DEF FinishRecovery, IdInv, TypeOK, memory, durable, Phases, OnePublication,
        PublisherIsKnown, StoreIsKnown, KnownBelow, UniqueIds
<1> QED BY <1>5, <1>6, <1>7, <1>8 DEF Recovery

LEMMA RestartKeeps ==
    ASSUME IdInv, Restart
    PROVE  IdInv'
<1> USE DEF IdInv
<1> DEFINE ids == {db[r].fid : r \in stored}
<1>1. ids \subseteq Nat /\ nextId \in Nat /\ \A i \in ids : i < nextId
    BY DEF TypeOK, StoreIsKnown, KnownBelow, Durable
<1>2. NextAfter(ids) \in Nat /\ \A i \in ids : i < NextAfter(ids)
    <2> HIDE DEF ids
    <2> QED BY <1>1, NextAfterType
<1>3. \A r \in stored : db[r].fid < NextAfter(ids)
    BY <1>2
<1>4. nextId' = NextAfter(ids) /\ registry' = stored /\ stored' = stored /\ db' = db
    BY DEF Restart, durable
<1> HIDE DEF ids
<1>5. \A r \in Requests : records'[r] = IF r \in stored THEN Loaded(db[r]) ELSE NoRecord
    BY DEF Restart
<1>6. \A r \in stored : records'[r].fid = db[r].fid
    <2>1. \A d : Loaded(d).fid = d.fid
        BY DEF Loaded
    <2>2. stored \subseteq Requests
        BY DEF TypeOK
    <2> QED BY <1>5, <2>1, <2>2
<1>7. \A r \in Requests : records'[r] \in Record
    BY <1>5, LoadedType, NoRecordType DEF TypeOK
<1>8. TypeOK'
    BY <1>2, <1>4, <1>7 DEF Restart, TypeOK, Phases, TaskStates
<1>9. OnePublication' /\ PublisherIsKnown'
    BY NoRequestAssumption DEF Restart, OnePublication, PublisherIsKnown
<1>10. StoreIsKnown'
    BY <1>4, <1>6 DEF Restart, StoreIsKnown
<1>11. KnownBelow'
    BY <1>3, <1>4, <1>6 DEF KnownBelow
<1>12. UniqueIds'
    BY <1>4, <1>6 DEF UniqueIds, StoreIsKnown
<1> QED BY <1>8, <1>9, <1>10, <1>11, <1>12

LEMMA ProcessEndsKeeps ==
    ASSUME IdInv, ProcessEnds
    PROVE  IdInv'
BY DEF ProcessEnds, IdInv, TypeOK, memory, durable, Phases, OnePublication,
    PublisherIsKnown, StoreIsKnown, KnownBelow, UniqueIds

LEMMA StutterKeeps ==
    ASSUME IdInv, UNCHANGED vars
    PROVE  IdInv'
BY DEF vars, memory, durable, control, IdInv, TypeOK, OnePublication,
    PublisherIsKnown, StoreIsKnown, KnownBelow, UniqueIds

LEMMA IdNext == IdInv /\ [Next]_vars => IdInv'
<1> SUFFICES ASSUME IdInv, [Next]_vars PROVE IdInv'
    OBVIOUS
<1>1. ASSUME NEW u \in Users, Client(u) PROVE IdInv'
    <2>1. ASSUME RetrieveTimeout(u) PROVE IdInv'
        <3>1. waiting[u] \in Requests
            BY <2>1 DEF RetrieveTimeout, IdInv, TypeOK
        <3> QED BY <2>1, <3>1, RetrievingKeeps
    <2> QED BY <1>1, <2>1, CreatingKeeps, RetrievingKeeps DEF Client
<1>2. ASSUME NEW u \in Users, RetrieveWake(u) PROVE IdInv'
    BY <1>2, RetrievingKeeps DEF IdInv, TypeOK, RetrieveWake
<1>3. CASE Environment
    BY <1>3, ProcessEndsKeeps, RestartKeeps, DroppingKeeps DEF Environment
<1> QED BY <1>1, <1>2, <1>3, RunnerKeeps, RecoveryKeeps, StutterKeeps DEF Next

LEMMA IdInvariant == Spec => []IdInv
<1>1. Init => IdInv
    BY IdInit
<1>2. IdInv /\ [Next]_vars => IdInv'
    BY IdNext
<1> QED BY <1>1, <1>2, PTL DEF Spec

-----------------------------------------------------------------------------
(* Theorems *)

(* Every variable of the future store keeps its type, in particular the    *)
(* counter that a restart rebuilds from what is stored.                    *)
THEOREM TypeCorrect == Spec => []TypeOK
<1>1. IdInv => TypeOK
    BY DEF IdInv
<1> QED BY <1>1, IdInvariant, PTL

(* Publications exclude each other: exactly the runner between its status  *)
(* change and its event holds the lock, across crashes and restarts.       *)
THEOREM PublicationsExclude == Spec => []OnePublication
<1>1. IdInv => OnePublication
    BY DEF IdInv
<1> QED BY <1>1, IdInvariant, PTL

(* future_ids are unique among the futures the server knows and lie below  *)
(* the next one, whatever saves are lost, keys expire or futures are       *)
(* cleaned up: recovery can order futures against checkpoints by them.     *)
THEOREM IdsAreFresh == Spec => []FreshIds
<1>1. IdInv => FreshIds
    BY DEF IdInv, FreshIds, StoreIsKnown, KnownBelow, UniqueIds
<1> QED BY <1>1, IdInvariant, PTL

-----------------------------------------------------------------------------
(* Somebody completes what is pending.  While a process recovers nothing   *)
(* has a task, so what is not completed was read back, still pending, and  *)
(* no longer a sample once those have been marked.                         *)

Unfinished(r) == r \in registry /\ ~records[r].event
Working(r) == task[r] \in {"running", "resolving", "saving", "saved"}
RestoredRun(r) == r \in restored /\ records[r].kind # "sample"

TaskInv ==
    /\ phase = "recovering" =>
           \A r \in Requests : Unfinished(r) =>
               r \in restored /\ records[r].status = "pending" /\ (sampled => RestoredRun(r))
    /\ phase = "serving" => \A r \in Requests : Unfinished(r) => Working(r) \/ RestoredRun(r)

LEMMA TaskInit == Init => TaskInv
BY DEF Init, TaskInv, Unfinished

(* A step of a process that serves: what it adds or changes has a task.    *)
LEMMA ServingKeeps ==
    ASSUME TaskInv, phase = "serving", UNCHANGED <<phase, restored>>,
           \A r \in Requests : Unfinished(r)' =>
               Working(r)' \/ (Unfinished(r) /\ records'[r].kind = records[r].kind
                                             /\ (Working(r) => Working(r)'))
    PROVE  TaskInv'
BY DEF TaskInv, RestoredRun

LEMMA ClientTask ==
    ASSUME IdInv, TaskInv, NEW u \in Users, Client(u) \/ RetrieveWake(u)
    PROVE  TaskInv'
<1> USE DEF control, memory
<1>1. ASSUME NEW r \in Requests, NEW m \in Models, NEW k, Enqueue(r, u, m, k) PROVE TaskInv'
    <2>1. /\ phase = "serving" /\ UNCHANGED <<phase, restored>>
          /\ task'[r] = "running"
          /\ \A s \in Requests : s # r =>
                 records'[s] = records[s] /\ task'[s] = task[s] /\ (s \in registry' => s \in registry)
        BY <1>1 DEF Enqueue, Register, IdInv, TypeOK
    <2> QED BY <2>1, ServingKeeps DEF Unfinished, Working
<1>2. ASSUME NEW r \in Requests, NEW m \in Models, CreateReadyFuture(r, u, m) PROVE TaskInv'
    <2> DEFINE rec == [Blank(m, u) EXCEPT !.fid = nextId, !.kind = "immediate",
                                          !.status = "ready", !.payload = "result",
                                          !.event = TRUE]
    <2>1. rec.event = TRUE
        BY DEF Blank
    <2> HIDE DEF rec
    <2>2. /\ phase = "serving" /\ UNCHANGED <<phase, restored, task>>
          /\ registry' = registry \cup {r} /\ records' = [records EXCEPT ![r] = rec]
        BY <1>2 DEF CreateReadyFuture, Register, rec
    <2>3. ~Unfinished(r)' /\ \A s \in Requests : s # r =>
              records'[s] = records[s] /\ (s \in registry' => s \in registry)
        BY <2>1, <2>2 DEF IdInv, TypeOK, Unfinished
    <2> QED BY <2>2, <2>3, ServingKeeps DEF Unfinished, Working
<1>3. ASSUME NEW r \in Requests, RetrieveOfOther(u, r) PROVE TaskInv'
    <2>1. /\ phase = "serving" /\ UNCHANGED <<phase, restored, task, registry>>
          /\ records' = [records EXCEPT ![r] = Denied(records[r])]
        BY <1>3 DEF RetrieveOfOther, CanRetrieve
    <2>2. Denied(records[r]).event = records[r].event /\ Denied(records[r]).kind = records[r].kind
        BY DEF Denied, IdInv, TypeOK, Record
    <2>3. \A s \in Requests : records'[s].event = records[s].event /\ records'[s].kind = records[s].kind
        BY <2>1, <2>2 DEF IdInv, TypeOK
    <2> QED BY <2>1, <2>3, ServingKeeps DEF Unfinished, Working
<1>4. ASSUME NEW r \in Requests, \/ RetrieveCompleted(u, r) \/ RetrieveWait(u, r)
                                 \/ RetrieveWake(u) \/ RetrieveTimeout(u)
      PROVE  TaskInv'
    <2>1. UNCHANGED <<phase, restored, task, registry, records, sampled>>
        BY <1>4 DEF RetrieveCompleted, RetrieveWait, RetrieveWake, RetrieveTimeout
    <2> QED BY <2>1 DEF TaskInv, Unfinished, Working, RestoredRun
<1>5. RetrieveWake(u) \/ RetrieveTimeout(u) => \E r \in Requests : TRUE
    BY DEF RetrieveWake, RetrieveTimeout, IdInv, TypeOK
<1> QED BY <1>1, <1>2, <1>3, <1>4, <1>5 DEF Client

LEMMA RunnerTask ==
    ASSUME IdInv, TaskInv, NEW r \in Requests, Runner(r)
    PROVE  TaskInv'
<1> USE DEF control
<1>1. /\ phase = "serving" /\ UNCHANGED <<phase, restored, registry>>
      /\ \A s \in Requests : s # r => records'[s] = records[s] /\ task'[s] = task[s]
    BY DEF Runner, OperationEnds, MarkBegin, MarkSave, MarkEnd, IdInv, TypeOK
<1>2. Working(r)' \/ ~Unfinished(r)'
    BY DEF Runner, OperationEnds, MarkBegin, MarkSave, MarkEnd, Published, IdInv, TypeOK, Record,
        Working, Unfinished
<1> QED BY <1>1, <1>2, ServingKeeps DEF Unfinished, Working

(* A marking function completes what it marks.                             *)
LEMMA FailAllMarks ==
    ASSUME IdInv, NEW S, NEW saved, FailAll(S, saved), NEW r \in Requests
    PROVE  /\ Unfinished(r)' => Unfinished(r) /\ r \notin S /\ records'[r] = records[r]
           /\ UNCHANGED restored
<1>1. Failed(records[r]).event = TRUE
    BY DEF Failed, IdInv, TypeOK, Record
<1> QED BY <1>1 DEF FailAll, Unfinished

LEMMA RecoveryTask ==
    ASSUME IdInv, TaskInv, Recovery
    PROVE  TaskInv'
<1>1. CASE MarkPendingSamples
    <2>1. /\ phase = "recovering" /\ phase' = "recovering"
          /\ \E saved : FailAll(PendingSamples, saved)
        BY <1>1 DEF MarkPendingSamples
    <2>2. \A r \in Requests : Unfinished(r)' => r \in restored' /\ records'[r].status = "pending" /\ RestoredRun(r)'
        <3>1. ASSUME NEW r \in Requests, Unfinished(r)' PROVE Unfinished(r) /\ r \notin PendingSamples
                                                             /\ records'[r] = records[r] /\ UNCHANGED restored
            BY <2>1, <3>1, FailAllMarks
        <3> QED BY <2>1, <3>1 DEF TaskInv, PendingSamples, PendingOf, Unfinished, RestoredRun
    <2> QED BY <2>1, <2>2 DEF TaskInv
<1>2. ASSUME NEW S, RecoverRun(S) PROVE TaskInv'
    <2>1. /\ UNCHANGED <<phase, sampled>> /\ phase = "recovering"
          /\ \E saved : FailAll(S, saved)
        BY <1>2 DEF RecoverRun, control
    <2>2. ASSUME NEW r \in Requests, Unfinished(r)'
          PROVE  Unfinished(r) /\ records'[r] = records[r] /\ UNCHANGED restored
        BY <2>1, <2>2, FailAllMarks
    <2> QED BY <2>1, <2>2 DEF TaskInv, RestoredRun
<1>3. ASSUME NEW S, CrashWhileMarking(S) PROVE TaskInv'
    BY <1>3 DEF CrashWhileMarking, TaskInv
<1>4. CASE FinishRecovery
    BY <1>4 DEF FinishRecovery, TaskInv, Unfinished, RestoredRun, memory
<1> QED BY <1>1, <1>2, <1>3, <1>4 DEF Recovery

LEMMA EnvironmentTask ==
    ASSUME IdInv, TaskInv, Environment
    PROVE  TaskInv'
<1>1. CASE ProcessEnds
    BY <1>1 DEF ProcessEnds, TaskInv
<1>2. CASE Restart
    <2>1. /\ phase' = "recovering" /\ sampled' = FALSE /\ registry' = stored /\ restored' = stored
          /\ \A r \in Requests : r \in stored => records'[r] = Loaded(db[r])
        BY <1>2 DEF Restart
    <2>2. \A d : ~Loaded(d).event => Loaded(d).status = "pending"
        BY DEF Loaded
    <2> QED BY <2>1, <2>2 DEF TaskInv, Unfinished
<1>3. ASSUME NEW r \in Requests, Expire(r) \/ Cleanup(r) PROVE TaskInv'
    <2>1. UNCHANGED <<phase, sampled, records, task, restored>> /\ registry' \subseteq registry
        BY <1>3 DEF Expire, Cleanup, memory, control
    <2> QED BY <2>1 DEF TaskInv, Unfinished, Working, RestoredRun
<1> QED BY <1>1, <1>2, <1>3 DEF Environment

LEMMA TaskNext == IdInv /\ TaskInv /\ [Next]_vars => TaskInv'
<1> SUFFICES ASSUME IdInv, TaskInv, [Next]_vars PROVE TaskInv'
    OBVIOUS
<1>1. CASE UNCHANGED vars
    BY <1>1 DEF vars, memory, control, TaskInv, Unfinished, Working, RestoredRun
<1> QED BY <1>1, ClientTask, RunnerTask, RecoveryTask, EnvironmentTask DEF Next

(* No known future is left pending with nobody to complete it: it has a    *)
(* task, or recovery read it back as work of a training run, for any       *)
(* requests and restarts, whatever saves fail and whatever is cleaned up.  *)
THEOREM NobodyIsForgotten == Spec => []PendingHasTask
<1>1. IdInv /\ TaskInv => PendingHasTask
    BY DEF IdInv, TypeOK, Phases, TaskInv, Unfinished, Working, RestoredRun, PendingHasTask
<1>2. IdInv /\ TaskInv /\ [Next]_vars => TaskInv'
    BY TaskNext
<1> QED BY <1>1, <1>2, TaskInit, IdInvariant, PTL DEF Spec

-----------------------------------------------------------------------------
(* An answered result survives a crash.  The argument needs the whole way  *)
(* of a result: from the operation to the record while the lock is held,   *)
(* to the store, and only then to a client.                                *)

(* Saves succeed and keys stay.                                            *)
Reliable == SaveOutcomes = {"full"} /\ ~Expiry /\ ~Cleanups

NoTaskInRecovery == phase = "recovering" => \A r \in Requests : task[r] = "none"

(* The error of a record goes with its status, a payload without an error  *)
(* is a success, on both sides.                                            *)
Consistent(r) ==
    /\ records[r].error # "none" => records[r].status = "failed"
    /\ db[r].error # "none" => db[r].status = "failed"
    /\ db[r].error = "none" /\ db[r].payload = "result" => db[r].status = "ready"

(* How far the runner of r is, and what the record shows by then.          *)
InStep(r) ==
    /\ records[r].payload = "result" => task[r] \notin {"running", "resolving"}
    /\ records[r].event => task[r] \notin {"running", "resolving", "saving", "saved"}
    /\ records[r].payload = "result" /\ records[r].error = "none" =>
            IF task[r] = "saving" THEN records[r].status = "ready"
                                  ELSE db[r].status = "ready" /\ db[r].payload = "result"

Answered(r) ==
    "payload" \in told[r] =>
        /\ r \in registry
        /\ task[r] \notin {"running", "resolving", "saving"}
        /\ \/ db[r].status = "ready" /\ db[r].payload = "result"
           \/ db[r].error = "cancelled"

DurableInv ==
    /\ registry = stored
    /\ \A r \in Requests : task[r] # "none" => r \in registry
    /\ NoTaskInRecovery
    /\ \A u \in Users : waiting[u] \in registry \cup {NoRequest}
    /\ \A r \in registry : Consistent(r) /\ InStep(r)
    /\ \A r \in Requests : Answered(r)

LEMMA DurableInit == Init => DurableInv
BY DEF Init, DurableInv, NoTaskInRecovery, Consistent, InStep, Answered

LEMMA ReliableSave ==
    ASSUME Reliable, TypeOK, NEW r \in Requests, NEW rec, NEW o \in SaveOutcomes,
           SaveFuture(r, rec, o)
    PROVE  stored' = stored \cup {r} /\ db' = [db EXCEPT ![r] = Stored(rec)]
BY DEF Reliable, SaveFuture

(* A handler that creates a future: nothing was known of it.               *)
LEMMA RegisterDurable ==
    ASSUME Reliable, IdInv, DurableInv, NEW r \in Requests, NEW rec \in Record,
           NEW o \in SaveOutcomes, Register(r, rec, o), rec.error = "none",
           \/ /\ task' = [task EXCEPT ![r] = "running"]
              /\ rec.payload = "none" /\ ~rec.event
           \/ task' = task /\ rec.payload = "result" /\ rec.status = "ready"
    PROVE  DurableInv'
<1> USE DEF IdInv, DurableInv
<1>1. r \notin registry /\ r \notin stored /\ phase' = "serving" /\ lock = NoRequest
    BY DEF Register, StoreIsKnown, LockFree, control
<1>2. stored' = stored \cup {r} /\ db' = [db EXCEPT ![r] = Stored(rec)]
    BY ReliableSave DEF Register
<1>3. registry' = registry \cup {r} /\ records' = [records EXCEPT ![r] = rec]
    BY DEF Register
<1>4. /\ db'[r].error = "none" /\ db'[r].payload = rec.payload /\ db'[r].status = rec.status
      /\ records'[r] = rec
    BY <1>2, <1>3 DEF TypeOK, Stored
<1>5. \A s \in registry : /\ records'[s] = records[s] /\ db'[s] = db[s] /\ task'[s] = task[s]
    BY <1>1, <1>2, <1>3 DEF TypeOK
<1>6. "payload" \notin told[r] /\ told' = told
    BY <1>1 DEF Answered, Register
<1>7. \A s \in Requests : Answered(s)'
    BY <1>3, <1>5, <1>6 DEF Answered
<1>8. \A s \in registry : Consistent(s)' /\ InStep(s)'
    BY <1>5 DEF Consistent, InStep
<1>9. Consistent(r)'
    BY <1>4 DEF Consistent
<1>10. task[r] = "none" /\ task \in [Requests -> TaskStates]
    BY <1>1 DEF TypeOK
<1>11. InStep(r)' /\ \A s \in Requests : task'[s] # "none" => s \in registry'
    <2>1. CASE task' = [task EXCEPT ![r] = "running"] /\ rec.payload = "none" /\ ~rec.event
        BY <1>3, <1>4, <1>10, <2>1 DEF InStep
    <2>2. CASE task' = task /\ rec.payload = "result" /\ rec.status = "ready"
        BY <1>3, <1>4, <1>10, <2>2 DEF InStep
    <2> QED BY <2>1, <2>2
<1>13. \A u \in Users : waiting'[u] \in registry' \cup {NoRequest}
    BY <1>3 DEF Register
<1> QED BY <1>1, <1>2, <1>3, <1>7, <1>8, <1>9, <1>11, <1>13 DEF NoTaskInRecovery

LEMMA CreatingDurable ==
    ASSUME Reliable, IdInv, DurableInv, NEW u \in Users, NEW r \in Requests, NEW m \in Models,
           \/ \E k \in {"train", "sample"} : Enqueue(r, u, m, k)
           \/ CreateReadyFuture(r, u, m)
    PROVE  DurableInv'
<1> Blank(m, u) \in Record /\ nextId \in Nat
    BY BlankType DEF IdInv, TypeOK
<1>1. ASSUME NEW k \in {"train", "sample"}, Enqueue(r, u, m, k) PROVE DurableInv'
    <2> DEFINE rec == [Blank(m, u) EXCEPT !.fid = nextId, !.kind = k]
    <2>1. rec \in Record /\ rec.error = "none" /\ rec.payload = "none" /\ ~rec.event
        BY DEF Record, FutureKinds, Blank
    <2>2. PICK o \in SaveOutcomes : Register(r, rec, o) /\ task' = [task EXCEPT ![r] = "running"]
        BY <1>1 DEF Enqueue
    <2> HIDE DEF rec
    <2> QED BY <2>1, <2>2, RegisterDurable
<1>2. ASSUME CreateReadyFuture(r, u, m) PROVE DurableInv'
    <2> DEFINE rec == [Blank(m, u) EXCEPT !.fid = nextId, !.kind = "immediate",
                                          !.status = "ready", !.payload = "result",
                                          !.event = TRUE]
    <2>1. rec \in Record /\ rec.error = "none" /\ rec.payload = "result" /\ rec.status = "ready"
        BY DEF Record, FutureKinds, Statuses, Payloads, Blank
    <2>2. PICK o \in SaveOutcomes : Register(r, rec, o) /\ task' = task
        BY <1>2 DEF CreateReadyFuture
    <2> HIDE DEF rec
    <2> QED BY <2>1, <2>2, RegisterDurable
<1> QED BY <1>1, <1>2

(* A step of the runner of r moves nothing but its own request.            *)
LEMMA RunnerDurable ==
    ASSUME IdInv, DurableInv, NEW r \in Requests, phase' = "serving",
           registry' = registry, stored' = stored, waiting' = waiting, told' = told,
           r \in registry,
           \A s \in Requests \ {r} : /\ records'[s] = records[s] /\ db'[s] = db[s]
                                     /\ task'[s] = task[s],
           Consistent(r)', InStep(r)', Answered(r)'
    PROVE  DurableInv'
<1> USE DEF DurableInv
<1>1. \A s \in registry \ {r} : Consistent(s)' /\ InStep(s)'
    BY DEF Consistent, InStep, IdInv, TypeOK
<1>2. \A s \in Requests \ {r} : Answered(s)'
    BY DEF Answered
<1> QED BY <1>1, <1>2 DEF NoTaskInRecovery

LEMMA RunnerStepDurable ==
    ASSUME Reliable, IdInv, DurableInv, NEW r \in Requests, Runner(r)
    PROVE  DurableInv'
<1> USE DEF IdInv, DurableInv
<1>1. ASSUME NEW res \in {"ready", "failed"}, OperationEnds(r, res) PROVE DurableInv'
    <2>1. task[r] = "running" /\ task'[r] = "resolving" /\ r \in registry
        BY <1>1 DEF OperationEnds, TypeOK
    <2>2. Consistent(r)' /\ InStep(r)' /\ Answered(r)'
        BY <1>1, <2>1 DEF OperationEnds, durable, Consistent, InStep, Answered
    <2> QED BY <1>1, <2>1, <2>2, RunnerDurable DEF OperationEnds, TypeOK, durable, control
<1>2. ASSUME MarkBegin(r) PROVE DurableInv'
    <2>1. task[r] = "resolving" /\ task'[r] = "saving" /\ r \in registry
        BY <1>2 DEF MarkBegin, TypeOK
    <2> DEFINE new == Resolved(records[r], outcome[r])
    <2>2. records[r] \in Record /\ records' = [records EXCEPT ![r] = new]
        BY <1>2, <2>1 DEF MarkBegin, TypeOK
    <2>3. /\ new.event = records[r].event
          /\ \/ new.status = "ready" /\ new.error = "none" /\ new.payload = "result"
             \/ new.status = "failed" /\ new.error = "operation" /\ new.payload = records[r].payload
        BY <2>2 DEF Resolved, Record
    <2> HIDE DEF new
    <2>4. records'[r] = new
        BY <2>2 DEF TypeOK
    <2>5. Consistent(r)' /\ Answered(r)'
        BY <1>2, <2>1, <2>3, <2>4 DEF MarkBegin, durable, Consistent, Answered
    <2>6. InStep(r)'
        BY <1>2, <2>1, <2>3, <2>4 DEF MarkBegin, InStep
    <2> QED BY <1>2, <2>1, <2>2, <2>5, <2>6, RunnerDurable DEF MarkBegin, TypeOK, durable, control
<1>3. ASSUME MarkSave(r) PROVE DurableInv'
    <2>1. task[r] = "saving" /\ task'[r] = "saved" /\ r \in registry
        BY <1>3 DEF MarkSave, TypeOK
    <2>2. stored' = stored /\ db' = [db EXCEPT ![r] = Stored(records[r])]
        BY <1>3, <2>1, ReliableSave DEF MarkSave
    <2>3. /\ db'[r].status = records[r].status /\ db'[r].error = records[r].error
          /\ db'[r].payload = records[r].payload
        BY <2>2 DEF TypeOK, Stored
    <2>4. Consistent(r)' /\ InStep(r)' /\ Answered(r)'
        BY <1>3, <2>1, <2>3 DEF MarkSave, Consistent, InStep, Answered
    <2> QED BY <1>3, <2>1, <2>2, <2>4, RunnerDurable DEF MarkSave, TypeOK, control
<1>4. ASSUME MarkEnd(r) PROVE DurableInv'
    <2>1. task[r] = "saved" /\ task'[r] = "done" /\ r \in registry
        BY <1>4 DEF MarkEnd, TypeOK
    <2>2. /\ records'[r].status = records[r].status /\ records'[r].error = records[r].error
          /\ records'[r].payload = records[r].payload
        BY <1>4 DEF MarkEnd, Published, TypeOK, Record
    <2>3. Consistent(r)' /\ InStep(r)' /\ Answered(r)'
        BY <1>4, <2>1, <2>2 DEF MarkEnd, durable, Consistent, InStep, Answered
    <2> QED BY <1>4, <2>1, <2>3, RunnerDurable DEF MarkEnd, TypeOK, durable, control
<1> QED BY <1>1, <1>2, <1>3, <1>4 DEF Runner

(* A retrieve that gives the payload of r leaves everything else alone.    *)
LEMMA TellDurable ==
    ASSUME IdInv, DurableInv, NEW r \in registry, task[r] \notin {"running", "resolving", "saving"},
           Tell(r, Conclusion(records[r])),
           UNCHANGED <<registry, records, stored, db, task, phase>>,
           \A u \in Users : waiting'[u] \in {waiting[u], NoRequest}
    PROVE  DurableInv'
<1> USE DEF IdInv, DurableInv
<1>1. Consistent(r) /\ InStep(r) /\ r \in Requests /\ records[r] \in Record
    BY DEF TypeOK
<1>2. told' = [told EXCEPT ![r] = @ \cup {Conclusion(records[r])}]
    BY DEF Tell
<1>3. \A s \in Requests \ {r} : told'[s] = told[s]
    BY <1>2 DEF TypeOK
<1>4. told'[r] = told[r] \cup {Conclusion(records[r])}
    BY <1>1, <1>2 DEF TypeOK
<1>5. Conclusion(records[r]) = "payload" => records[r].payload = "result" /\ records[r].error = "none"
    BY <1>1 DEF Conclusion, Consistent
<1>6. "payload" \in told'[r] => \/ db[r].status = "ready" /\ db[r].payload = "result"
                               \/ db[r].error = "cancelled"
    BY <1>1, <1>4, <1>5 DEF Answered, InStep
<1>7. \A s \in Requests : Answered(s)'
    BY <1>3, <1>6 DEF Answered
<1>8. \A s \in registry : Consistent(s)' /\ InStep(s)'
    BY DEF Consistent, InStep
<1> QED BY <1>7, <1>8 DEF NoTaskInRecovery

LEMMA RetrievingDurable ==
    ASSUME IdInv, DurableInv, NEW u \in Users, NEW r \in Requests,
           \/ RetrieveOfOther(u, r) \/ RetrieveCompleted(u, r) \/ RetrieveWait(u, r)
           \/ RetrieveWake(u) \/ RetrieveTimeout(u)
    PROVE  DurableInv'
<1> USE DEF IdInv, DurableInv
<1>1. CASE RetrieveOfOther(u, r)
    <2>1. r \in registry /\ task[r] # "saving"
        BY <1>1, NoRequestAssumption DEF RetrieveOfOther, CanRetrieve, LockFree, OnePublication
    <2>2. /\ records' = [records EXCEPT ![r] = Denied(@)]
          /\ UNCHANGED <<registry, stored, db, task, phase, waiting, told>>
        BY <1>1 DEF RetrieveOfOther, durable, control
    <2>3. /\ records'[r].status = "failed" /\ records'[r].payload = records[r].payload
          /\ records'[r].error = records[r].error /\ records'[r].event = records[r].event
        BY <2>2 DEF TypeOK, Denied, Record
    <2>4. \A s \in registry \ {r} : records'[s] = records[s]
        BY <2>2 DEF TypeOK
    <2>5. Consistent(r)' /\ InStep(r)'
        BY <2>1, <2>2, <2>3 DEF Consistent, InStep
    <2>6. \A s \in registry : Consistent(s)' /\ InStep(s)'
        BY <2>2, <2>4, <2>5 DEF Consistent, InStep
    <2>7. \A s \in Requests : Answered(s)'
        BY <2>2 DEF Answered
    <2> QED BY <2>2, <2>6, <2>7 DEF NoTaskInRecovery
<1>2. CASE RetrieveCompleted(u, r)
    <2>1. r \in registry /\ task[r] # "saving"
        BY <1>2, NoRequestAssumption DEF RetrieveCompleted, CanRetrieve, LockFree, OnePublication
    <2>2. CASE task[r] \in {"running", "resolving"}
        <3>1. Conclusion(records[r]) # "payload"
            BY <2>1, <2>2 DEF InStep, Conclusion
        <3>2. \A s \in Requests : "payload" \in told'[s] => "payload" \in told[s]
            BY <1>2, <3>1 DEF RetrieveCompleted, Tell, TypeOK
        <3>3. \A s \in Requests : Answered(s)'
            BY <1>2, <3>2 DEF RetrieveCompleted, Answered, memory, durable
        <3>4. \A s \in registry : Consistent(s)' /\ InStep(s)'
            BY <1>2 DEF RetrieveCompleted, Consistent, InStep, memory, durable
        <3> QED BY <1>2, <3>3, <3>4 DEF RetrieveCompleted, NoTaskInRecovery, memory, durable, control
    <2>3. CASE task[r] \notin {"running", "resolving"}
        BY <1>2, <2>1, <2>3, TellDurable DEF RetrieveCompleted, memory, durable, control
    <2> QED BY <2>2, <2>3
<1>3. CASE RetrieveWait(u, r)
    <2>1. \A v \in Users : waiting'[v] \in registry' \cup {NoRequest}
        BY <1>3 DEF RetrieveWait, TypeOK
    <2> QED BY <1>3, <2>1 DEF RetrieveWait, NoTaskInRecovery, Consistent, InStep, Answered, durable, control
<1>4. CASE RetrieveWake(u)
    <2>1. waiting[u] \in registry /\ records[waiting[u]].event
        BY <1>4 DEF RetrieveWake
    <2>2. task[waiting[u]] \notin {"running", "resolving", "saving"}
        BY <2>1 DEF InStep
    <2>3. \A v \in Users : waiting'[v] \in {waiting[v], NoRequest}
        BY <1>4 DEF RetrieveWake, TypeOK
    <2> QED BY <1>4, <2>1, <2>2, <2>3, TellDurable DEF RetrieveWake, durable, control
<1>5. CASE RetrieveTimeout(u)
    <2>1. \A v \in Users : waiting'[v] \in registry' \cup {NoRequest}
        BY <1>5 DEF RetrieveTimeout, TypeOK
    <2> QED BY <1>5, <2>1 DEF RetrieveTimeout, NoTaskInRecovery, Consistent, InStep, Answered, durable, control
<1> QED BY <1>1, <1>2, <1>3, <1>4, <1>5

LEMMA FailAllDurable ==
    ASSUME IdInv, DurableInv, NEW S, NEW saved, S \subseteq registry, saved \subseteq S,
           FailAll(S, saved), phase = "recovering"
    PROVE  DurableInv'
<1> USE DEF IdInv, DurableInv
<1>1. \A s \in Requests : task[s] = "none" /\ task'[s] = "none"
    BY DEF NoTaskInRecovery, FailAll
<1>2. stored' = stored /\ registry' = registry /\ waiting' = waiting /\ told' = told
    BY DEF FailAll
<1>3. \A s \in Requests : /\ s \in saved => db'[s].status = "failed" /\ db'[s].error = "cancelled"
                          /\ s \notin saved => db'[s] = db[s]
    <2>1. \A s \in Requests : Stored(Failed(records[s])).status = "failed"
                             /\ Stored(Failed(records[s])).error = "cancelled"
        BY DEF Stored, Failed, TypeOK, Record
    <2> QED BY <2>1 DEF FailAll, TypeOK
<1>4. \A s \in Requests : /\ s \in S => records'[s].status = "failed" /\ records'[s].error = "cancelled"
                          /\ s \notin S => records'[s] = records[s]
    BY DEF FailAll, Failed, TypeOK, Record
<1>5. \A s \in registry : Consistent(s)' /\ InStep(s)'
    BY <1>1, <1>3, <1>4 DEF Consistent, InStep, TypeOK
<1>6. \A s \in Requests : Answered(s)'
    BY <1>1, <1>2, <1>3 DEF Answered
<1> QED BY <1>1, <1>2, <1>5, <1>6 DEF NoTaskInRecovery

LEMMA RecoveryDurable ==
    ASSUME IdInv, DurableInv, Recovery
    PROVE  DurableInv'
<1>1. \A S : \A saved \in SavedOf(S) : saved \subseteq S
    BY DEF SavedOf
<1>2. PendingSamples \subseteq registry
    BY DEF PendingSamples, PendingOf
<1>3. \A S \in RecoverySets : S \subseteq registry
    BY <1>2 DEF RecoverySets, PendingOfModel, PendingOf, OfModel, AfterCheckpoint
<1>4. CASE MarkPendingSamples
    BY <1>1, <1>2, <1>4, FailAllDurable DEF MarkPendingSamples
<1>5. ASSUME NEW S \in RecoverySets, RecoverRun(S) PROVE DurableInv'
    BY <1>1, <1>3, <1>5, FailAllDurable DEF RecoverRun
<1>6. ASSUME NEW S \in RecoverySets, CrashWhileMarking(S) PROVE DurableInv'
    BY <1>3, <1>6, FailAllDurable DEF CrashWhileMarking
<1>7. CASE FinishRecovery
    BY <1>7 DEF FinishRecovery, DurableInv, NoTaskInRecovery, Consistent, InStep, Answered,
        memory, durable
<1> QED BY <1>4, <1>5, <1>6, <1>7 DEF Recovery

LEMMA RestartDurable ==
    ASSUME IdInv, DurableInv, Restart
    PROVE  DurableInv'
<1> USE DEF IdInv, DurableInv
<1>1. /\ registry' = stored /\ stored' = stored /\ db' = db /\ told' = told
      /\ \A s \in Requests : task'[s] = "none"
      /\ \A u \in Users : waiting'[u] = NoRequest
    BY DEF Restart, durable
<1>2. \A s \in stored : records'[s] = Loaded(db[s])
    BY DEF Restart, TypeOK
<1>3. \A s \in stored : /\ records'[s].status = db[s].status /\ records'[s].error = db[s].error
                        /\ records'[s].payload = db[s].payload
    <2>1. \A d : Loaded(d).status = d.status /\ Loaded(d).error = d.error
                /\ Loaded(d).payload = d.payload
        BY DEF Loaded
    <2> QED BY <1>2, <2>1
<1>4. \A s \in stored : Consistent(s)' /\ InStep(s)'
    BY <1>1, <1>3 DEF Consistent, InStep, TypeOK
<1>5. \A s \in Requests : Answered(s)'
    BY <1>1 DEF Answered
<1> QED BY <1>1, <1>4, <1>5 DEF NoTaskInRecovery

LEMMA DurableNext ==
    ASSUME Reliable
    PROVE  IdInv /\ DurableInv /\ [Next]_vars => DurableInv'
<1> SUFFICES ASSUME IdInv, DurableInv, [Next]_vars PROVE DurableInv'
    OBVIOUS
<1>1. ASSUME NEW u \in Users, Client(u) PROVE DurableInv'
    <2>1. ASSUME RetrieveTimeout(u) PROVE DurableInv'
        <3>1. waiting[u] \in Requests
            BY <2>1 DEF RetrieveTimeout, IdInv, TypeOK
        <3> QED BY <2>1, <3>1, RetrievingDurable
    <2> QED BY <1>1, <2>1, CreatingDurable, RetrievingDurable DEF Client
<1>2. ASSUME NEW u \in Users, RetrieveWake(u) PROVE DurableInv'
    BY <1>2, RetrievingDurable DEF IdInv, TypeOK, RetrieveWake
<1>3. CASE Environment
    <2>1. CASE ProcessEnds
        BY <2>1 DEF ProcessEnds, DurableInv, NoTaskInRecovery, Consistent, InStep, Answered,
            memory, durable
    <2> QED BY <1>3, <2>1, RestartDurable DEF Environment, Cleanup, Expire, Reliable
<1>4. CASE UNCHANGED vars
    BY <1>4 DEF vars, memory, durable, control, DurableInv, NoTaskInRecovery, Consistent,
        InStep, Answered
<1> QED BY <1>1, <1>2, <1>3, <1>4, RunnerStepDurable, RecoveryDurable DEF Next

(* A client that was given a result was given one that the store holds,    *)
(* unless recovery cancelled it since: no crash loses an answer, provided  *)
(* that saves succeed and keys stay.                                       *)
THEOREM AnswersAreDurable == Reliable /\ Spec => []AnsweredIsDurable
<1>1. SUFFICES ASSUME Reliable PROVE Spec => []AnsweredIsDurable
    OBVIOUS
<1>2. Init => DurableInv
    BY DurableInit
<1>3. IdInv /\ DurableInv /\ [Next]_vars => DurableInv'
    BY <1>1, DurableNext
<1>4. DurableInv => AnsweredIsDurable
    BY DEF DurableInv, Answered, AnsweredIsDurable
<1> QED BY <1>2, <1>3, <1>4, IdInvariant, PTL DEF Spec

-----------------------------------------------------------------------------
(* FutureStore implements FutureContract when saves succeed and keys stay: *)
(* initial states map to initial states, and every step to a step of the   *)
(* contract or to none.                                                    *)

(* The invariant.  Memory and store agree on a known future except while   *)
(* its outcome is published; then the record has the outcome and the store *)
(* gets it before the event is set.  After a crash in the middle of a      *)
(* marking loop they may differ until the next process has read the store. *)

Coded(d) == d.error # "none" <=> d.status = "failed"

(* What there is to answer with: a result for a success, and nothing       *)
(* before the outcome is there, whatever the status says.                  *)
Whole(d) ==
    /\ d.status = "ready" => d.payload = "result"
    /\ d.status = "pending" => d.payload = "none"

Shown(r) ==
    IF records[r].event \/ task[r] \in {"saving", "saved"}
    THEN records[r].error = "none" => records[r].payload = "result"
    ELSE records[r].error = "none" /\ records[r].payload = "none"

Agrees(r) ==
    /\ Shown(r)
    /\ lock # r => db[r].status = Outcome(records[r])
    /\ task[r] = "saving" =>
          db[r].status = "pending" /\ records[r].status # "pending" /\ Coded(records[r])
    /\ task[r] = "saved" => db[r].status = Outcome(Published(records[r]))

AgreeInv ==
    /\ \A r \in registry : Coded(db[r]) /\ Whole(db[r])
    /\ phase # "down" => \A r \in registry : Agrees(r)

RefInv == IdInv /\ DurableInv /\ AgreeInv

(* What the contract sees of one request.                                  *)
Same(r) == View(r)' = View(r) /\ StoredView(r)' = StoredView(r)

(* A step that changes neither the phase nor the views, and answers nobody, *)
(* is none of the contract's.                                              *)
LEMMA Unseen ==
    ASSUME phase' = phase, told' = told, \A r \in Requests : Same(r)
    PROVE  UNCHANGED Contract!contractVars
BY DEF Same, Contract!contractVars

LEMMA InitRefines == Init => Contract!ContractInit /\ AgreeInv
BY DEF Init, Contract!ContractInit, View, StoredView, AgreeInv

-----------------------------------------------------------------------------
(* Creating futures *)

LEMMA RegisterRefines ==
    ASSUME Reliable, RefInv, NEW r \in Requests, NEW rec \in Record, NEW o \in SaveOutcomes,
           Register(r, rec, o), rec.error = "none",
           \/ /\ task' = [task EXCEPT ![r] = "running"]
              /\ rec.status = "pending" /\ rec.payload = "none" /\ ~rec.event
           \/ task' = task /\ rec.status = "ready" /\ rec.payload = "result" /\ rec.event
    PROVE  AgreeInv' /\ Contract!Submit(r, rec.status)
<1> USE DEF RefInv, IdInv, DurableInv
<1>1. /\ r \notin registry /\ r \notin stored /\ phase = "serving" /\ phase' = "serving"
      /\ lock' = lock /\ lock = NoRequest /\ told' = told
    BY DEF Register, StoreIsKnown, control, LockFree
<1>2. stored' = stored \cup {r} /\ db' = [db EXCEPT ![r] = Stored(rec)]
    BY ReliableSave DEF Register
<1>3. registry' = registry \cup {r} /\ records' = [records EXCEPT ![r] = rec]
    BY DEF Register
<1>4. /\ db'[r].error = "none" /\ db'[r].status = rec.status /\ db'[r].payload = rec.payload
      /\ records'[r] = rec
    BY <1>2, <1>3 DEF TypeOK, Stored
<1>5. \A s \in Requests \ {r} : /\ records'[s] = records[s] /\ db'[s] = db[s] /\ task'[s] = task[s]
    BY <1>1, <1>2, <1>3 DEF TypeOK
<1>6. task'[r] \in {"none", "running"}
    BY <1>1 DEF TypeOK
<1>7. Coded(db[r])' /\ Whole(db[r])' /\ Agrees(r)'
    BY <1>4, <1>6 DEF Coded, Whole, Shown, Agrees, Outcome
<1>8. AgreeInv'
    BY <1>1, <1>3, <1>5, <1>7 DEF AgreeInv, Agrees, Shown, Whole, Coded, TypeOK
<1>9. /\ View(r) = "absent" /\ StoredView(r) = "absent"
      /\ View(r)' = rec.status /\ StoredView(r)' = rec.status
    BY <1>1, <1>2, <1>3, <1>4, NoRequestAssumption DEF View, StoredView, Outcome
<1>10. \A s \in Requests \ {r} : Same(s)
    BY <1>1, <1>2, <1>3, <1>5 DEF Same, View, StoredView
<1> QED BY <1>1, <1>8, <1>9, <1>10 DEF Contract!Submit, Same

LEMMA CreatingRefines ==
    ASSUME Reliable, RefInv, NEW u \in Users, NEW r \in Requests, NEW m \in Models,
           \/ \E k \in {"train", "sample"} : Enqueue(r, u, m, k)
           \/ CreateReadyFuture(r, u, m)
    PROVE  AgreeInv' /\ [Contract!ContractNext]_(Contract!contractVars)
<1> Blank(m, u) \in Record /\ nextId \in Nat
    BY BlankType DEF RefInv, IdInv, TypeOK
<1>1. ASSUME NEW k \in {"train", "sample"}, Enqueue(r, u, m, k)
      PROVE  AgreeInv' /\ Contract!Submit(r, "pending")
    <2> DEFINE rec == [Blank(m, u) EXCEPT !.fid = nextId, !.kind = k]
    <2>1. /\ rec \in Record /\ rec.error = "none" /\ rec.payload = "none"
          /\ rec.status = "pending" /\ ~rec.event
        BY DEF Record, FutureKinds, Blank
    <2>2. PICK o \in SaveOutcomes : Register(r, rec, o) /\ task' = [task EXCEPT ![r] = "running"]
        BY <1>1 DEF Enqueue
    <2> HIDE DEF rec
    <2> QED BY <2>1, <2>2, RegisterRefines
<1>2. ASSUME CreateReadyFuture(r, u, m) PROVE AgreeInv' /\ Contract!Submit(r, "ready")
    <2> DEFINE rec == [Blank(m, u) EXCEPT !.fid = nextId, !.kind = "immediate",
                                          !.status = "ready", !.payload = "result",
                                          !.event = TRUE]
    <2>1. /\ rec \in Record /\ rec.error = "none" /\ rec.payload = "result"
          /\ rec.status = "ready" /\ rec.event
        BY DEF Record, FutureKinds, Statuses, Payloads, Blank
    <2>2. PICK o \in SaveOutcomes : Register(r, rec, o) /\ task' = task
        BY <1>2 DEF CreateReadyFuture
    <2> HIDE DEF rec
    <2> QED BY <2>1, <2>2, RegisterRefines
<1> QED BY <1>1, <1>2 DEF Contract!ContractNext

-----------------------------------------------------------------------------
(* The runner of a request: the contract sees the save and the event.      *)

(* A step of the runner of r leaves the other requests alone.              *)
LEMMA OthersAgree ==
    ASSUME RefInv, NEW r \in Requests, phase = "serving", phase' = phase,
           registry' = registry, stored' = stored,
           \A s \in Requests \ {r} : /\ records'[s] = records[s] /\ db'[s] = db[s]
                                     /\ task'[s] = task[s]
                                     /\ lock' = s <=> lock = s,
           r \in registry => Coded(db[r])' /\ Whole(db[r])' /\ Agrees(r)'
    PROVE  AgreeInv' /\ \A s \in Requests \ {r} : Same(s)
<1>1. \A s \in Requests \ {r} : Same(s)
    BY DEF Same, View, StoredView
<1>2. \A s \in registry \ {r} : Coded(db[s])' /\ Whole(db[s])' /\ Agrees(s)'
    BY DEF RefInv, IdInv, TypeOK, AgreeInv, Agrees, Shown, Whole, Coded
<1> QED BY <1>1, <1>2 DEF AgreeInv

LEMMA RunnerRefines ==
    ASSUME Reliable, RefInv, NEW r \in Requests, Runner(r)
    PROVE  AgreeInv' /\ [Contract!ContractNext]_(Contract!contractVars)
<1> USE DEF RefInv, IdInv, DurableInv
<1>1. ASSUME NEW res \in {"ready", "failed"}, OperationEnds(r, res)
      PROVE  AgreeInv' /\ UNCHANGED Contract!contractVars
    <2>1. task'[r] = "resolving" /\ \A s \in Requests \ {r} : task'[s] = task[s]
        BY <1>1 DEF OperationEnds, TypeOK
    <2>2. r \in registry => Coded(db[r])' /\ Whole(db[r])' /\ Agrees(r)'
        BY <1>1, <2>1 DEF OperationEnds, durable, control, AgreeInv, Agrees, Shown, Whole, Coded
    <2>3. AgreeInv' /\ \A s \in Requests \ {r} : Same(s)
        BY <1>1, <2>1, <2>2, OthersAgree DEF OperationEnds, durable, control
    <2>4. Same(r)
        BY <1>1 DEF OperationEnds, durable, Same, View, StoredView
    <2> QED BY <1>1, <2>3, <2>4, Unseen DEF OperationEnds, control
<1>2. ASSUME MarkBegin(r)
      PROVE  AgreeInv' /\ [Contract!Withdraw(r)]_(Contract!contractVars)
    <2>1. task[r] = "resolving" /\ r \in registry /\ task'[r] = "saving" /\ lock' = r /\ lock # r
        BY <1>2, NoRequestAssumption DEF MarkBegin, LockFree, TypeOK
    <2> DEFINE new == Resolved(records[r], outcome[r])
    <2>2. records[r] \in Record /\ records' = [records EXCEPT ![r] = new]
        BY <1>2, <2>1 DEF MarkBegin, TypeOK
    <2>3. /\ new.event = records[r].event /\ new.status # "pending"
          /\ new.error # "none" <=> new.status = "failed"
          /\ new.error = "none" => new.payload = "result"
        BY <2>2 DEF Resolved, Record
    <2> HIDE DEF new
    <2>4. records'[r] = new /\ ~records[r].event
        BY <2>1, <2>2 DEF TypeOK, InStep
    <2>5. db[r].status = "pending"
        BY <1>2, <2>1, <2>4 DEF MarkBegin, AgreeInv, Agrees, Outcome
    <2>6. Coded(db[r])' /\ Whole(db[r])' /\ Agrees(r)'
        BY <1>2, <2>1, <2>3, <2>4, <2>5 DEF MarkBegin, durable, AgreeInv, Agrees, Shown, Whole, Coded
    <2>7. \A s \in Requests \ {r} : /\ records'[s] = records[s] /\ task'[s] = task[s]
                                    /\ lock' = s <=> lock = s
        BY <1>2, <2>1, <2>2, NoRequestAssumption DEF MarkBegin, LockFree, TypeOK
    <2>8. AgreeInv' /\ \A s \in Requests \ {r} : Same(s)
        BY <1>2, <2>6, <2>7, OthersAgree DEF MarkBegin, durable, control
    <2>9. /\ View(r) \in {"pending", "denied"} /\ View(r)' = "pending"
          /\ StoredView(r)' = StoredView(r)
        BY <1>2, <2>1, <2>3, <2>4 DEF MarkBegin, durable, View, StoredView
    <2>10. phase = "serving" /\ phase' = phase /\ told' = told
        BY <1>2 DEF MarkBegin, control
    <2>11. CASE View(r) = "pending"
        BY <2>8, <2>9, <2>10, <2>11, Unseen DEF Same
    <2>12. CASE View(r) = "denied"
        BY <2>8, <2>9, <2>10, <2>12 DEF Contract!Withdraw, Same
    <2> QED BY <2>8, <2>9, <2>11, <2>12
<1>3. ASSUME MarkSave(r) PROVE AgreeInv' /\ \E v \in Contract!Outcomes : Contract!Decide(r, v)
    <2>1. task[r] = "saving" /\ task'[r] = "saved" /\ r \in registry /\ lock = r
        BY <1>3 DEF MarkSave, TypeOK, OnePublication
    <2>2. stored' = stored /\ db' = [db EXCEPT ![r] = Stored(records[r])]
        BY <1>3, <2>1, ReliableSave DEF MarkSave
    <2>3. /\ db'[r].status = records[r].status /\ db'[r].error = records[r].error
          /\ db'[r].payload = records[r].payload
        BY <2>2 DEF TypeOK, Stored
    <2>4. /\ records[r] \in Record /\ records[r].status # "pending" /\ ~records[r].event
          /\ db[r].status = "pending" /\ Coded(records[r]) /\ Shown(r)
        BY <1>3, <2>1 DEF MarkSave, AgreeInv, Agrees, InStep, TypeOK
    <2>5. Outcome(Published(records[r])) = records[r].status
        BY <2>4 DEF Outcome, Published, Coded, Record, Statuses
    <2>6. Coded(db[r])' /\ Whole(db[r])' /\ Agrees(r)'
        BY <1>3, <2>1, <2>3, <2>4, <2>5 DEF MarkSave, Agrees, Shown, Whole, Coded
    <2>7. \A s \in Requests \ {r} : db'[s] = db[s] /\ task'[s] = task[s]
        BY <1>3, <2>2 DEF MarkSave, TypeOK
    <2>8. AgreeInv' /\ \A s \in Requests \ {r} : Same(s)
        BY <1>3, <2>2, <2>6, <2>7, OthersAgree DEF MarkSave, control
    <2>9. /\ View(r) = "pending" /\ View(r)' = "pending"
          /\ StoredView(r) = "pending" /\ StoredView(r)' = records[r].status
        BY <1>3, <2>1, <2>2, <2>3, <2>4 DEF MarkSave, View, StoredView
    <2>10. records[r].status \in Contract!Outcomes
        BY <2>4 DEF Contract!Outcomes, Record, Statuses
    <2>11. Contract!Decide(r, records[r].status)
        BY <1>3, <2>8, <2>9, <2>10 DEF MarkSave, control, Contract!Decide, Same
    <2> QED BY <2>8, <2>10, <2>11
<1>4. ASSUME MarkEnd(r) PROVE AgreeInv' /\ Contract!Publish(r)
    <2>1. task[r] = "saved" /\ task'[r] = "done" /\ r \in registry /\ lock = r /\ lock' = NoRequest
        BY <1>4 DEF MarkEnd, Unlock, TypeOK, OnePublication
    <2>2. records'[r] = Published(records[r]) /\ records[r] \in Record /\ ~records[r].event
        BY <1>4, <2>1 DEF MarkEnd, TypeOK, InStep
    <2>3. db[r].status = Outcome(records'[r])
        BY <1>4, <2>1, <2>2 DEF MarkEnd, AgreeInv, Agrees
    <2>4. Coded(db[r])' /\ Whole(db[r])' /\ Agrees(r)'
        <3>1. /\ records'[r].payload = records[r].payload /\ records'[r].event
              /\ records'[r].error = records[r].error
            BY <2>2 DEF Published, Record
        <3> QED BY <1>4, <2>1, <2>3, <3>1
                DEF MarkEnd, durable, AgreeInv, Agrees, Shown, Whole, Coded
    <2>5. \A s \in Requests \ {r} : /\ records'[s] = records[s] /\ task'[s] = task[s]
                                    /\ lock' = s <=> lock = s
        BY <1>4, <2>1, NoRequestAssumption DEF MarkEnd, TypeOK
    <2>6. AgreeInv' /\ \A s \in Requests \ {r} : Same(s)
        BY <1>4, <2>4, <2>5, OthersAgree DEF MarkEnd, durable, control
    <2>7. /\ View(r) = "pending" /\ View(r)' = db[r].status
          /\ StoredView(r) = db[r].status /\ StoredView(r)' = db[r].status
        <3>1. records'[r].event
            BY <2>2 DEF Published, Record
        <3> QED BY <1>4, <2>1, <2>2, <2>3, <3>1 DEF MarkEnd, durable, View, StoredView
    <2>8. db[r].status \in {"ready", "failed"}
        BY <2>2, <2>3 DEF Outcome, Published, Record
    <2> QED BY <1>4, <2>6, <2>7, <2>8
            DEF MarkEnd, control, Contract!Publish, Contract!Outcomes, Same
<1> HIDE DEF RefInv, IdInv, DurableInv
<1> QED BY <1>1, <1>2, <1>3, <1>4 DEF Runner, Contract!ContractNext

-----------------------------------------------------------------------------
(* Retrieving: the owner is answered, or denied.                           *)

(* An answer is what the contract has to learn about the request.          *)
LEMMA AnswerRefines ==
    ASSUME RefInv, NEW r \in Requests, r \in registry, Tell(r, Conclusion(records[r])),
           phase = "serving", phase' = phase, \A s \in Requests : Same(s),
           \/ records[r].event
           \/ lock = NoRequest /\ records[r].status # "pending"
    PROVE  Contract!Answer(r)
<1>1. /\ r \in Requests /\ r # NoRequest /\ records[r] \in Record
      /\ Shown(r) /\ Consistent(r)
    BY NoRequestAssumption DEF RefInv, IdInv, TypeOK, AgreeInv, Agrees, DurableInv
<1>2. lock = NoRequest => task[r] \notin {"saving", "saved"}
    BY <1>1 DEF RefInv, IdInv, OnePublication
<1>3. /\ View(r) \in {"ready", "failed", "denied"}
      /\ Conclusion(records[r]) = IF View(r) = "ready" THEN "payload"
                                  ELSE IF View(r) = "failed" THEN "error" ELSE "empty"
    <2>1. CASE records[r].event
        BY <1>1, <2>1 DEF View, Outcome, Conclusion, Shown, Consistent
    <2>2. CASE ~records[r].event
        BY <1>1, <1>2, <2>2 DEF View, Conclusion, Shown
    <2> QED BY <2>1, <2>2
<1> QED BY <1>1, <1>3 DEF Contract!Answer, Contract!AnswerTo, Contract!Outcomes, Tell, Same

LEMMA RetrievingRefines ==
    ASSUME RefInv, NEW u \in Users, NEW r \in Requests,
           \/ RetrieveOfOther(u, r) \/ RetrieveCompleted(u, r) \/ RetrieveWait(u, r)
           \/ RetrieveWake(u) \/ RetrieveTimeout(u)
    PROVE  AgreeInv' /\ [Contract!ContractNext]_(Contract!contractVars)
<1> USE DEF RefInv, IdInv
<1>1. UNCHANGED <<registry, stored, db, lock, task, phase>>
    BY DEF RetrieveOfOther, RetrieveCompleted, RetrieveWait, RetrieveWake, RetrieveTimeout,
        memory, durable, control
<1>2. CASE RetrieveOfOther(u, r)
    <2>1. /\ lock = NoRequest /\ records' = [records EXCEPT ![r] = Denied(@)]
          /\ phase = "serving" /\ r \in registry /\ told' = told
        BY <1>2 DEF RetrieveOfOther, CanRetrieve, LockFree
    <2>2. \A s \in Requests : task[s] \notin {"saving", "saved"} /\ lock # s
        BY <2>1, NoRequestAssumption DEF OnePublication
    <2>3. /\ records'[r].event = records[r].event /\ records'[r].error = records[r].error
          /\ records'[r].payload = records[r].payload /\ records'[r].status = "failed"
          /\ \A s \in Requests \ {r} : records'[s] = records[s]
        BY <2>1 DEF TypeOK, Denied, Record
    <2>4. AgreeInv'
        <3>1. \A s \in Requests : Outcome(records'[s]) = Outcome(records[s])
            BY <2>3 DEF Outcome
        <3>2. \A s \in registry : Agrees(s)'
            BY <1>1, <2>1, <2>2, <2>3, <3>1 DEF TypeOK, AgreeInv, Agrees, Shown
        <3> QED BY <1>1, <3>2 DEF TypeOK, AgreeInv, Coded, Whole
    <2>5. \A s \in Requests \ {r} : Same(s)
        BY <1>1, <2>3 DEF Same, View, StoredView
    <2>6. /\ StoredView(r)' = StoredView(r)
          /\ \/ View(r)' = View(r)
             \/ View(r) = "pending" /\ View(r)' = "denied"
        BY <1>1, <2>1, <2>2, <2>3 DEF View, StoredView, Outcome
    <2>7. CASE View(r)' = View(r)
        BY <1>1, <2>1, <2>4, <2>5, <2>6, <2>7, Unseen DEF Same
    <2>8. CASE View(r) = "pending" /\ View(r)' = "denied"
        <3>1. Contract!Deny(r)
            BY <1>1, <2>1, <2>5, <2>6, <2>8 DEF Contract!Deny, Same
        <3> QED BY <2>4, <3>1 DEF Contract!ContractNext
    <2> QED BY <2>6, <2>7, <2>8
<1>3. CASE ~RetrieveOfOther(u, r)
    <2>1. records' = records
        BY <1>3 DEF RetrieveCompleted, RetrieveWait, RetrieveWake, RetrieveTimeout, memory
    <2>2. \A s \in Requests : Same(s)
        BY <1>1, <2>1 DEF Same, View, StoredView
    <2>3. AgreeInv'
        BY <1>1, <2>1 DEF AgreeInv, Agrees, Shown, Whole, Coded
    <2>4. CASE told' = told
        BY <1>1, <2>2, <2>3, <2>4, Unseen
    <2>6. CASE RetrieveCompleted(u, r)
        <3>1. Contract!Answer(r)
            BY <1>1, <2>2, <2>6, AnswerRefines DEF RetrieveCompleted, CanRetrieve, LockFree
        <3> QED BY <2>3, <3>1 DEF Contract!ContractNext
    <2>7. CASE RetrieveWake(u)
        <3>1. waiting[u] \in registry /\ waiting[u] \in Requests
            BY <2>7 DEF RetrieveWake, DurableInv, TypeOK
        <3>2. PICK w \in Requests : w \in registry /\ w = waiting[u]
            BY <3>1
        <3>3. Contract!Answer(w)
            <4>1. /\ phase = "serving" /\ phase' = phase /\ records[w].event
                  /\ Tell(w, Conclusion(records[w]))
                BY <1>1, <2>7, <3>2 DEF RetrieveWake, Tell
            <4> QED BY <2>2, <3>2, <4>1, AnswerRefines
        <3> QED BY <2>3, <3>1, <3>2, <3>3 DEF Contract!ContractNext
    <2> QED BY <1>3, <2>4, <2>6, <2>7 DEF RetrieveWait, RetrieveTimeout
<1> QED BY <1>2, <1>3

-----------------------------------------------------------------------------
(* Recovery: the futures a marking function fails are revoked, and those   *)
(* whose saves were made before a crash are revoked for good.              *)

LEMMA FailAllRefines ==
    ASSUME RefInv, NEW S, NEW saved, S \subseteq registry, saved \subseteq S,
           FailAll(S, saved), phase = "recovering", phase' \in {"recovering", "down"},
           phase' = "recovering" => saved = S
    PROVE  AgreeInv' /\ Contract!Revoke(S, saved, phase')
<1> USE DEF RefInv, IdInv, DurableInv
<1>0. \A s \in Requests : lock # s
    BY DEF NoTaskInRecovery, OnePublication
<1>1. \A s \in Requests : task'[s] = "none"
    BY DEF NoTaskInRecovery, FailAll
<1>2. /\ stored' = stored /\ registry' = registry /\ lock' = lock /\ registry = stored
      /\ told' = told /\ \A s \in Requests : lock # s
    BY <1>0 DEF FailAll
<1>3. \A s \in Requests : /\ Stored(Failed(records[s])).status = "failed"
                          /\ Stored(Failed(records[s])).error = "cancelled"
    BY DEF Stored, Failed, TypeOK, Record
<1>4. \A s \in Requests : Outcome(Failed(records[s])) = "failed"
    BY DEF Failed, TypeOK, Record, Outcome
<1>5. \A s \in Requests : /\ s \in saved => db'[s].status = "failed" /\ db'[s].error = "cancelled"
                          /\ s \notin saved => db'[s] = db[s]
    BY <1>3 DEF FailAll, TypeOK
<1>6. \A s \in Requests : /\ s \in S => Outcome(records'[s]) = "failed"
                          /\ s \notin S => records'[s] = records[s]
    BY <1>4 DEF FailAll, TypeOK
<1>7. \A s \in registry : Coded(db[s])' /\ Whole(db[s])'
    BY <1>5 DEF AgreeInv, Coded, Whole, TypeOK
<1>8. ASSUME phase' = "recovering" PROVE \A s \in registry : Agrees(s)'
    <2>1. \A s \in Requests : task[s] = "none"
        BY DEF NoTaskInRecovery
    <2>2. \A s \in S : records'[s].error = "cancelled" /\ records'[s].event
        BY DEF FailAll, Failed, TypeOK, Record
    <2>3. \A s \in registry : Shown(s)'
        BY <1>1, <1>6, <2>1, <2>2 DEF AgreeInv, Agrees, Shown, TypeOK
    <2> QED BY <1>1, <1>2, <1>5, <1>6, <1>8, <2>3 DEF AgreeInv, Agrees, TypeOK
<1>9. AgreeInv'
    BY <1>2, <1>7, <1>8 DEF AgreeInv
<1>10. \A s \in Requests : /\ View(s)' = IF s \in S THEN "failed" ELSE View(s)
                           /\ StoredView(s)' = IF s \in saved THEN "failed" ELSE StoredView(s)
    <2>1. \A s \in S : records'[s].event
        BY DEF FailAll, Failed, TypeOK, Record
    <2> QED BY <1>2, <1>5, <1>6, <2>1 DEF View, StoredView
<1>11. \A s \in S : s \in Requests /\ View(s) # "absent"
    BY DEF View, Outcome, TypeOK
<1> QED BY <1>2, <1>9, <1>10, <1>11 DEF Contract!Revoke

LEMMA RecoveryRefines ==
    ASSUME Reliable, RefInv, Recovery
    PROVE  AgreeInv' /\ Contract!ContractNext
<1>1. \A S : SavedOf(S) = {S}
    BY DEF SavedOf, Reliable
<1>2. PendingSamples \subseteq registry
    BY DEF PendingSamples, PendingOf
<1>3. \A S \in RecoverySets : S \subseteq registry
    BY <1>2 DEF RecoverySets, PendingOfModel, PendingOf, OfModel, AfterCheckpoint
<1>4. registry \subseteq Requests
    BY DEF RefInv, IdInv, TypeOK
<1>5. ASSUME NEW S, NEW saved, S \subseteq registry, saved \subseteq S,
             FailAll(S, saved), phase = "recovering", phase' \in {"recovering", "down"},
             phase' = "recovering" => saved = S
      PROVE  AgreeInv' /\ Contract!ContractNext
    <2>1. AgreeInv' /\ Contract!Revoke(S, saved, phase')
        BY <1>5, FailAllRefines
    <2>2. S \in SUBSET Requests /\ saved \in SUBSET S
        BY <1>4, <1>5
    <2> QED BY <1>5, <2>1, <2>2 DEF Contract!ContractNext
<1>6. CASE MarkPendingSamples
    BY <1>1, <1>2, <1>5, <1>6 DEF MarkPendingSamples
<1>7. ASSUME NEW S \in RecoverySets, RecoverRun(S) PROVE AgreeInv' /\ Contract!ContractNext
    BY <1>1, <1>3, <1>5, <1>7 DEF RecoverRun, control
<1>8. ASSUME NEW S \in RecoverySets, CrashWhileMarking(S) PROVE AgreeInv' /\ Contract!ContractNext
    BY <1>3, <1>5, <1>8 DEF CrashWhileMarking
<1>9. CASE FinishRecovery
    <2>1. UNCHANGED <<memory, durable, told>> /\ phase = "recovering" /\ phase' = "serving"
        BY <1>9 DEF FinishRecovery
    <2>2. AgreeInv'
        BY <2>1 DEF RefInv, AgreeInv, Agrees, Shown, Whole, Coded, memory, durable
    <2>3. \A s \in Requests : Same(s)
        BY <2>1 DEF Same, View, StoredView, memory, durable
    <2>4. Contract!Open
        BY <2>1, <2>3 DEF Contract!Open, Same
    <2> QED BY <2>2, <2>4 DEF Contract!ContractNext
<1> QED BY <1>6, <1>7, <1>8, <1>9 DEF Recovery

(* The end of a process, and the start of the next one from the store.     *)
LEMMA EnvironmentRefines ==
    ASSUME Reliable, RefInv, Environment
    PROVE  AgreeInv' /\ Contract!ContractNext
<1>1. CASE ProcessEnds
    <2>1. UNCHANGED <<memory, durable, told>> /\ phase # "down" /\ phase' = "down"
        BY <1>1 DEF ProcessEnds
    <2>2. AgreeInv'
        BY <2>1 DEF RefInv, AgreeInv, Coded, Whole, memory, durable
    <2>3. \A s \in Requests : Same(s)
        BY <2>1 DEF Same, View, StoredView, memory, durable
    <2>4. Contract!Stop
        BY <2>1, <2>3 DEF Contract!Stop, Same
    <2> QED BY <2>2, <2>4 DEF Contract!ContractNext
<1>2. CASE Restart
    <2>1. /\ registry' = stored /\ stored' = stored /\ db' = db /\ lock' = NoRequest
          /\ phase = "down" /\ phase' = "recovering" /\ told' = told
          /\ \A s \in Requests : task'[s] = "none"
        BY <1>2 DEF Restart, durable
    <2>2. stored \subseteq Requests /\ stored = registry /\ db \in [Requests -> Durable]
        BY DEF RefInv, IdInv, DurableInv, TypeOK
    <2>3. \A s \in stored : records'[s] = Loaded(db[s])
        BY <1>2, <2>2 DEF Restart
    <2>4. \A d \in Durable : Coded(d) /\ Whole(d) =>
              /\ Outcome(Loaded(d)) = d.status
              /\ Loaded(d).event <=> d.status # "pending"
              /\ Loaded(d).status = d.status
              /\ IF Loaded(d).event THEN Loaded(d).error = "none" => Loaded(d).payload = "result"
                                    ELSE Loaded(d).error = "none" /\ Loaded(d).payload = "none"
        BY DEF Durable, Statuses, Coded, Whole, Outcome, Loaded
    <2>5. \A s \in stored : /\ Coded(db[s]) /\ Whole(db[s]) /\ Outcome(records'[s]) = db[s].status
                            /\ records'[s].event <=> db[s].status # "pending"
                            /\ records'[s].status = db[s].status
                            /\ Shown(s)'
        BY <2>1, <2>2, <2>3, <2>4 DEF RefInv, AgreeInv, Shown
    <2>6. AgreeInv'
        BY <2>1, <2>2, <2>5 DEF AgreeInv, Agrees, Coded, Whole
    <2>7. \A s \in Requests : View(s)' = StoredView(s) /\ StoredView(s)' = StoredView(s)
        BY <2>1, <2>5 DEF View, StoredView
    <2>8. Contract!Start
        BY <2>1, <2>7 DEF Contract!Start
    <2> QED BY <2>6, <2>8 DEF Contract!ContractNext
<1> QED BY <1>1, <1>2 DEF Environment, Cleanup, Expire, Reliable

-----------------------------------------------------------------------------
LEMMA NextRefines ==
    ASSUME Reliable, RefInv, [Next]_vars
    PROVE  AgreeInv' /\ [Contract!ContractNext]_(Contract!contractVars)
<1>1. ASSUME NEW u \in Users, Client(u)
      PROVE  AgreeInv' /\ [Contract!ContractNext]_(Contract!contractVars)
    <2>1. ASSUME RetrieveTimeout(u)
          PROVE  AgreeInv' /\ [Contract!ContractNext]_(Contract!contractVars)
        <3>1. waiting[u] \in Requests
            BY <2>1 DEF RetrieveTimeout, RefInv, IdInv, TypeOK
        <3> QED BY <2>1, <3>1, RetrievingRefines
    <2> QED BY <1>1, <2>1, CreatingRefines, RetrievingRefines DEF Client
<1>2. ASSUME NEW u \in Users, RetrieveWake(u)
      PROVE  AgreeInv' /\ [Contract!ContractNext]_(Contract!contractVars)
    BY <1>2, RetrievingRefines DEF RefInv, IdInv, TypeOK, RetrieveWake
<1>3. CASE UNCHANGED vars
    <2>1. AgreeInv'
        BY <1>3 DEF vars, memory, durable, control, RefInv, AgreeInv, Agrees, Shown, Whole, Coded
    <2>2. phase' = phase /\ told' = told /\ \A r \in Requests : Same(r)
        BY <1>3 DEF vars, memory, durable, control, Same, View, StoredView
    <2> QED BY <2>1, <2>2, Unseen
<1> QED BY <1>1, <1>2, <1>3, RunnerRefines, RecoveryRefines, EnvironmentRefines DEF Next

LEMMA RefInvariant == Reliable /\ Spec => []RefInv
<1>1. SUFFICES ASSUME Reliable PROVE Spec => []RefInv
    OBVIOUS
<1>2. Init => RefInv
    BY IdInit, DurableInit, InitRefines DEF RefInv
<1>3. RefInv /\ [Next]_vars => RefInv'
    BY <1>1, IdNext, DurableNext, NextRefines DEF RefInv
<1> QED BY <1>2, <1>3, PTL DEF Spec

(* What clients are promised is what the store does: an outcome is durable *)
(* before its owner is answered with it, never changes while the process   *)
(* lives, and comes back after a restart unless recovery revokes it.  The  *)
(* one answer without an outcome is the empty one, between a retrieve by   *)
(* another user and the publication.                                       *)
THEOREM StoreImplementsContract == Reliable /\ Spec => ImplementsContract
<1>1. SUFFICES ASSUME Reliable PROVE Spec => ImplementsContract
    OBVIOUS
<1>2. Init => Contract!ContractInit
    BY InitRefines
<1>3. RefInv /\ [Next]_vars => [Contract!ContractNext]_(Contract!contractVars)
    BY <1>1, NextRefines
<1> QED BY <1>1, <1>2, <1>3, RefInvariant, PTL
        DEF Spec, ImplementsContract, Contract!ContractSpec

(* Outside a publication, memory and store agree on every known future: a  *)
(* restart by itself changes nothing that a client can see.                *)
THEOREM MemoryAndStoreAgree == Reliable /\ Spec => []MemoryMatchesStore
<1>1. RefInv => MemoryMatchesStore
    BY DEF RefInv, DurableInv, AgreeInv, Agrees, MemoryMatchesStore
<1> QED BY <1>1, RefInvariant, PTL
=============================================================================
