------------------------ MODULE SamplingSessionsProofs ------------------------
(* That the engines agree about adapters, and that every answer is in a     *)
(* history that no restart loses, for any sessions, requests, checkpoints,  *)
(* number of engines, faults and restarts.                                  *)
EXTENDS SamplingSessions, FiniteSetTheorems, SequenceTheorems, TLAPS

-----------------------------------------------------------------------------
(* The part of the state that EnginesAgree is about, by what the progress  *)
(* of a creation says about the session and about one engine, and by what  *)
(* a restart has done so far.                                              *)

Fields == {"here", "path", "history", "index"}

Shape ==
    /\ DOMAIN sessions = Sessions /\ DOMAIN stored = Sessions
    /\ \A s \in Sessions : DOMAIN sessions[s] = Fields /\ DOMAIN stored[s] = Fields
    /\ \A s \in Sessions : sessions[s].here \in BOOLEAN /\ stored[s].here \in BOOLEAN
    /\ DOMAIN creating = Sessions
    /\ DOMAIN adding = Sessions /\ \A s \in Sessions : DOMAIN adding[s] = Engines
    /\ DOMAIN adapters = Engines /\ DOMAIN loaded = Engines
    /\ phase \in {"serving", "down", "booting"}

Creation(s) ==
    /\ creating[s] \in {"new", "adding", "rollback", "saving", "saved", "returned", "failed"}
    /\ creating[s] \in {"adding", "rollback", "saving", "saved"} => phase = "serving"
    /\ creating[s] \in {"new", "adding", "rollback"} => ~sessions[s].here /\ ~stored[s].here
    /\ creating[s] = "new" => sessions[s].path = Base /\ stored[s].path = Base
    /\ creating[s] \in {"saving", "saved"} => sessions[s].here

Adding(s, i) ==
    /\ creating[s] = "new" => adding[s][i] = "no"
    /\ creating[s] \in {"saving", "saved", "returned"} => adding[s][i] \in {"no", "added"}
    /\ creating[s] = "failed" => adding[s][i] \in {"no", "failed"}
    /\ adding[s][i] = "added" => s \in adapters[i]
    /\ s \in adapters[i] => s \in loaded[i]

Serving(s, i) ==
    phase = "serving" =>
        /\ sessions[s].here /\ sessions[s].path # Base /\ offered = "on" => s \in adapters[i]
        /\ s \in adapters[i] =>
               sessions[s].here \/ (adding[s][i] = "added" /\ creating[s] \in {"adding", "rollback"})

Booting(s, i) ==
    /\ phase = "booting" =>
        /\ sessions[s].here /\ sessions[s].path # Base /\ offered = "on" =>
               s \in adapters[i] \cup rebuilding \cup invalid
        /\ s \in adapters[i] => sessions[s].here /\ s \notin rebuilding \cup invalid
        /\ s \in rebuilding => sessions[s].here /\ s \notin invalid
    /\ phase = "down" => s \notin adapters[i] /\ ~sessions[s].here
    /\ phase # "serving" => adding[s][i] = "no"
    /\ phase # "booting" => invalid = {} /\ rebuilding = {}

AdapterInv ==
    /\ Shape
    /\ \A s \in Sessions : Creation(s)
    /\ \A s \in Sessions, i \in Engines : Adding(s, i) /\ Serving(s, i) /\ Booting(s, i)

-----------------------------------------------------------------------------
(* What an assignment to a part of one record leaves of the others.  The   *)
(* records of sessions have no type here but their fields: the type of     *)
(* their histories depends on the executors and is of no matter.           *)

Replaced(f, g, s, here, path) ==
    \E r : /\ g = [f EXCEPT ![s] = r]
           /\ DOMAIN r = Fields /\ r.here = here /\ r.path = path

LEMMA PathReplaced ==
    ASSUME NEW f, NEW s, DOMAIN f[s] = Fields, NEW c
    PROVE  Replaced(f, [f EXCEPT ![s].path = c], s, f[s].here, c)
<1> DEFINE r == [f[s] EXCEPT !.path = c]
<1>1. DOMAIN r = Fields
    BY Zenon
<1>2. r.here = f[s].here /\ r.path = c
    BY Zenon DEF Fields
<1>3. [f EXCEPT ![s].path = c] = [f EXCEPT ![s] = r]
    BY Zenon
<1> QED BY <1>1, <1>2, <1>3, Zenon DEF Replaced

LEMMA HereReplaced ==
    ASSUME NEW f, NEW s, DOMAIN f[s] = Fields, NEW b
    PROVE  Replaced(f, [f EXCEPT ![s].here = b], s, b, f[s].path)
<1> DEFINE r == [f[s] EXCEPT !.here = b]
<1>1. DOMAIN r = Fields
    BY Zenon
<1>2. r.here = b /\ r.path = f[s].path
    BY Zenon DEF Fields
<1>3. [f EXCEPT ![s].here = b] = [f EXCEPT ![s] = r]
    BY Zenon
<1> QED BY <1>1, <1>2, <1>3, Zenon DEF Replaced

LEMMA RecordedReplaced ==
    ASSUME NEW f, NEW s, DOMAIN f[s] = Fields, NEW n
    PROVE  Replaced(f, [f EXCEPT ![s] = Recorded(@, n)], s, f[s].here, f[s].path)
<1> DEFINE r == Recorded(f[s], n)
<1>1. DOMAIN r = Fields
    BY Zenon DEF Recorded
<1>2. r.here = f[s].here /\ r.path = f[s].path
    BY Zenon DEF Recorded, Fields
<1>3. [f EXCEPT ![s] = Recorded(@, n)] = [f EXCEPT ![s] = r]
    BY Zenon
<1> QED BY <1>1, <1>2, <1>3, Zenon DEF Replaced

-----------------------------------------------------------------------------
LEMMA InvInit == Init => AdapterInv
<1> SUFFICES ASSUME Init PROVE AdapterInv
    OBVIOUS
<1>1. Shape
    BY DEF Init, Shape, NoSession, Fields
<1>2. ASSUME NEW s \in Sessions PROVE Creation(s)
    BY DEF Init, Creation, NoSession
<1>3. ASSUME NEW s \in Sessions, NEW i \in Engines
      PROVE  Adding(s, i) /\ Serving(s, i) /\ Booting(s, i)
    BY DEF Init, Adding, Serving, Booting, NoSession
<1> QED BY <1>1, <1>2, <1>3 DEF AdapterInv

(* Most of run_sample, timeouts and deletions of checkpoints.              *)
LEMMA ElsewhereKeeps ==
    ASSUME AdapterInv,
           UNCHANGED <<phase, offered, rebuilding, invalid, sessions, stored, creating,
                       adding, adapters, loaded>>
    PROVE  AdapterInv'
BY DEF AdapterInv, Shape, Creation, Adding, Serving, Booting

(* The progress of one creation on one engine.                             *)
LEMMA AddBeginKeeps ==
    ASSUME AdapterInv, NEW s \in Sessions, NEW i \in Engines, AddBegin(s, i)
    PROVE  AdapterInv'
<1> USE DEF AdapterInv, bootVars
<1>1. Shape'
    BY DEF AddBegin, Shape
<1>2. ASSUME NEW t \in Sessions PROVE Creation(t)'
    BY DEF AddBegin, Creation
<1>3. ASSUME NEW t \in Sessions, NEW j \in Engines
      PROVE  Adding(t, j)' /\ Serving(t, j)' /\ Booting(t, j)'
    BY DEF AddBegin, Shape, Creation, Adding, Serving, Booting
<1> QED BY <1>1, <1>2, <1>3

LEMMA AddEndKeeps ==
    ASSUME AdapterInv, NEW s \in Sessions, NEW i \in Engines, AddEnd(s, i)
    PROVE  AdapterInv'
<1> USE DEF AdapterInv, bootVars
<1>1. Shape'
    BY DEF AddEnd, Shape
<1>2. ASSUME NEW t \in Sessions PROVE Creation(t)'
    BY DEF AddEnd, Creation
<1>3. ASSUME NEW t \in Sessions, NEW j \in Engines
      PROVE  Adding(t, j)' /\ Serving(t, j)' /\ Booting(t, j)'
    BY DEF AddEnd, Shape, Creation, Adding, Serving, Booting
<1> QED BY <1>1, <1>2, <1>3

LEMMA RemoveBeginKeeps ==
    ASSUME AdapterInv, NEW s \in Sessions, NEW i \in Engines, RemoveBegin(s, i)
    PROVE  AdapterInv'
<1> USE DEF AdapterInv, bootVars
<1>1. Shape'
    BY DEF RemoveBegin, Shape
<1>2. ASSUME NEW t \in Sessions PROVE Creation(t)'
    BY DEF RemoveBegin, Creation
<1>3. ASSUME NEW t \in Sessions, NEW j \in Engines
      PROVE  Adding(t, j)' /\ Serving(t, j)' /\ Booting(t, j)'
    BY DEF RemoveBegin, Shape, Creation, Adding, Serving, Booting
<1> QED BY <1>1, <1>2, <1>3

(* An engine that is asked to forget the adapter of a session is not in    *)
(* the registry for it any more.                                           *)
LEMMA RemoveEndKeeps ==
    ASSUME AdapterInv, NEW s \in Sessions, NEW i \in Engines, RemoveEnd(s, i)
    PROVE  AdapterInv'
<1> USE DEF AdapterInv, bootVars
<1>1. Shape'
    BY DEF RemoveEnd, Shape
<1>2. ASSUME NEW t \in Sessions PROVE Creation(t)'
    BY DEF RemoveEnd, Creation
<1>3. ASSUME NEW t \in Sessions, NEW j \in Engines
      PROVE  Adding(t, j)' /\ Serving(t, j)' /\ Booting(t, j)'
    BY DEF RemoveEnd, Shape, Creation, Adding, Serving, Booting
<1> QED BY <1>1, <1>2, <1>3

(* The progress of one creation as a whole.                                *)
LEMMA CreateBeginKeeps ==
    ASSUME AdapterInv, NEW s \in Sessions, NEW c \in Paths, CreateBegin(s, c)
    PROVE  AdapterInv'
<1>1. DOMAIN sessions[s] = Fields
    BY DEF AdapterInv, Shape
<1>2. /\ creating[s] = "new" /\ phase = "serving"
      /\ UNCHANGED <<phase, offered, rebuilding, invalid, stored, adapters, loaded>>
    BY DEF CreateBegin, bootVars
<1>3. \/ creating' = [creating EXCEPT ![s] = "failed"] /\ UNCHANGED <<sessions, adding>>
      \/ /\ creating' = [creating EXCEPT ![s] = "adding"]
         /\ adding' = [adding EXCEPT ![s] = [i \in Engines |-> "waiting"]]
         /\ Replaced(sessions, sessions', s, sessions[s].here, c)
      \/ /\ creating' = [creating EXCEPT ![s] = "saving"]
         /\ UNCHANGED adding /\ c = Base
         /\ Replaced(sessions, sessions', s, TRUE, sessions[s].path)
    <2>1. /\ Replaced(sessions, [sessions EXCEPT ![s].path = c], s, sessions[s].here, c)
          /\ Replaced(sessions, [sessions EXCEPT ![s].here = TRUE], s, TRUE, sessions[s].path)
        BY <1>1, PathReplaced, HereReplaced
    <2>2. \/ creating' = [creating EXCEPT ![s] = "failed"] /\ UNCHANGED <<sessions, adding>>
          \/ /\ creating' = [creating EXCEPT ![s] = "adding"]
             /\ adding' = [adding EXCEPT ![s] = [i \in Engines |-> "waiting"]]
             /\ sessions' = [sessions EXCEPT ![s].path = c]
          \/ /\ creating' = [creating EXCEPT ![s] = "saving"]
             /\ UNCHANGED adding /\ c = Base
             /\ sessions' = [sessions EXCEPT ![s].here = TRUE]
        BY Zenon DEF CreateBegin, Registered
    <2> QED BY <2>1, <2>2, Zenon
<1> USE DEF AdapterInv
<1>4. CASE creating' = [creating EXCEPT ![s] = "failed"] /\ UNCHANGED <<sessions, adding>>
    <2>1. Shape'
        BY <1>2, <1>4 DEF Shape
    <2>2. ASSUME NEW t \in Sessions PROVE Creation(t)'
        BY <1>2, <1>4 DEF Shape, Creation
    <2>3. ASSUME NEW t \in Sessions, NEW j \in Engines
          PROVE  Adding(t, j)' /\ Serving(t, j)' /\ Booting(t, j)'
        BY <1>2, <1>4 DEF Shape, Creation, Adding, Serving, Booting
    <2> QED BY <2>1, <2>2, <2>3 DEF AdapterInv
<1>5. CASE /\ creating' = [creating EXCEPT ![s] = "adding"]
           /\ adding' = [adding EXCEPT ![s] = [i \in Engines |-> "waiting"]]
           /\ Replaced(sessions, sessions', s, sessions[s].here, c)
    <2> PICK r : /\ sessions' = [sessions EXCEPT ![s] = r]
                 /\ DOMAIN r = Fields /\ r.here = sessions[s].here /\ r.path = c
        BY <1>5 DEF Replaced
    <2>1. Shape'
        BY <1>2, <1>5 DEF Shape
    <2>2. ASSUME NEW t \in Sessions PROVE Creation(t)'
        BY <1>2, <1>5 DEF Shape, Creation
    <2>3. ASSUME NEW t \in Sessions, NEW j \in Engines
          PROVE  Adding(t, j)' /\ Serving(t, j)' /\ Booting(t, j)'
        BY <1>2, <1>5 DEF Shape, Creation, Adding, Serving, Booting
    <2> QED BY <2>1, <2>2, <2>3 DEF AdapterInv
<1>6. CASE /\ creating' = [creating EXCEPT ![s] = "saving"]
           /\ UNCHANGED adding /\ c = Base
           /\ Replaced(sessions, sessions', s, TRUE, sessions[s].path)
    <2> PICK r : /\ sessions' = [sessions EXCEPT ![s] = r]
                 /\ DOMAIN r = Fields /\ r.here = TRUE /\ r.path = sessions[s].path
        BY <1>6 DEF Replaced
    <2>1. Shape'
        BY <1>2, <1>6 DEF Shape
    <2>2. ASSUME NEW t \in Sessions PROVE Creation(t)'
        BY <1>2, <1>6 DEF Shape, Creation
    <2>3. ASSUME NEW t \in Sessions, NEW j \in Engines
          PROVE  Adding(t, j)' /\ Serving(t, j)' /\ Booting(t, j)'
        BY <1>2, <1>6 DEF Shape, Creation, Adding, Serving, Booting
    <2> QED BY <2>1, <2>2, <2>3 DEF AdapterInv
<1> QED BY <1>3, <1>4, <1>5, <1>6

LEMMA GatheredKeeps ==
    ASSUME AdapterInv, NEW s \in Sessions, Gathered(s)
    PROVE  AdapterInv'
<1>1. DOMAIN sessions[s] = Fields
    BY DEF AdapterInv, Shape
<1>2. /\ creating[s] = "adding"
      /\ UNCHANGED <<phase, offered, rebuilding, invalid, stored, adding, adapters, loaded>>
    BY DEF Gathered, bootVars, engineVars
<1>3. \/ creating' = [creating EXCEPT ![s] = "rollback"] /\ UNCHANGED sessions
      \/ /\ \A i \in Engines : adding[s][i] = "added"
         /\ creating' = [creating EXCEPT ![s] = "saving"]
         /\ Replaced(sessions, sessions', s, TRUE, sessions[s].path)
    <2>1. Replaced(sessions, [sessions EXCEPT ![s].here = TRUE], s, TRUE, sessions[s].path)
        BY <1>1, HereReplaced
    <2> QED BY <2>1, Zenon DEF Gathered, Registered
<1> USE DEF AdapterInv
<1>4. CASE creating' = [creating EXCEPT ![s] = "rollback"] /\ UNCHANGED sessions
    <2>1. Shape'
        BY <1>2, <1>4 DEF Shape
    <2>2. ASSUME NEW t \in Sessions PROVE Creation(t)'
        BY <1>2, <1>4 DEF Shape, Creation
    <2>3. ASSUME NEW t \in Sessions, NEW j \in Engines
          PROVE  Adding(t, j)' /\ Serving(t, j)' /\ Booting(t, j)'
        BY <1>2, <1>4 DEF Shape, Creation, Adding, Serving, Booting
    <2> QED BY <2>1, <2>2, <2>3 DEF AdapterInv
<1>5. CASE /\ \A i \in Engines : adding[s][i] = "added"
           /\ creating' = [creating EXCEPT ![s] = "saving"]
           /\ Replaced(sessions, sessions', s, TRUE, sessions[s].path)
    <2> PICK r : /\ sessions' = [sessions EXCEPT ![s] = r]
                 /\ DOMAIN r = Fields /\ r.here = TRUE /\ r.path = sessions[s].path
        BY <1>5 DEF Replaced
    <2>1. Shape'
        BY <1>2, <1>5 DEF Shape
    <2>2. ASSUME NEW t \in Sessions PROVE Creation(t)'
        BY <1>2, <1>5 DEF Shape, Creation
    <2>3. ASSUME NEW t \in Sessions, NEW j \in Engines
          PROVE  Adding(t, j)' /\ Serving(t, j)' /\ Booting(t, j)'
        BY <1>2, <1>5 DEF Shape, Creation, Adding, Serving, Booting
    <2> QED BY <2>1, <2>2, <2>3 DEF AdapterInv
<1> QED BY <1>3, <1>4, <1>5

LEMMA RolledBackKeeps ==
    ASSUME AdapterInv, NEW s \in Sessions, RolledBack(s)
    PROVE  AdapterInv'
<1> USE DEF AdapterInv, bootVars, engineVars
<1>1. Shape'
    BY DEF RolledBack, Shape
<1>2. ASSUME NEW t \in Sessions PROVE Creation(t)'
    BY DEF RolledBack, Shape, Creation
<1>3. ASSUME NEW t \in Sessions, NEW j \in Engines
      PROVE  Adding(t, j)' /\ Serving(t, j)' /\ Booting(t, j)'
    BY DEF RolledBack, Shape, Creation, Adding, Serving, Booting
<1> QED BY <1>1, <1>2, <1>3

LEMMA SaveCreatedKeeps ==
    ASSUME AdapterInv, NEW s \in Sessions, SaveCreated(s)
    PROVE  AdapterInv'
<1> USE DEF AdapterInv, bootVars, engineVars
<1>1. Shape'
    BY DEF SaveCreated, Save, Unindexed, Fields, Shape
<1>2. ASSUME NEW t \in Sessions PROVE Creation(t)'
    BY DEF SaveCreated, Save, Unindexed, Fields, Shape, Creation
<1>3. ASSUME NEW t \in Sessions, NEW j \in Engines
      PROVE  Adding(t, j)' /\ Serving(t, j)' /\ Booting(t, j)'
    BY DEF SaveCreated, Save, Unindexed, Fields, Shape, Creation, Adding, Serving, Booting
<1> QED BY <1>1, <1>2, <1>3

LEMMA CreateEndsKeeps ==
    ASSUME AdapterInv, NEW s \in Sessions, CreateEnds(s)
    PROVE  AdapterInv'
<1> USE DEF AdapterInv, bootVars, engineVars
<1>1. Shape'
    BY DEF CreateEnds, Shape
<1>2. ASSUME NEW t \in Sessions PROVE Creation(t)'
    BY DEF CreateEnds, Shape, Creation
<1>3. ASSUME NEW t \in Sessions, NEW j \in Engines
      PROVE  Adding(t, j)' /\ Serving(t, j)' /\ Booting(t, j)'
    BY DEF CreateEnds, Shape, Creation, Adding, Serving, Booting
<1> QED BY <1>1, <1>2, <1>3

(* Recording changes the history of a session only.                        *)
LEMMA RunNextKeeps ==
    ASSUME AdapterInv, NEW s \in Sessions, RunNext(s)
    PROVE  AdapterInv'
<1>1. DOMAIN sessions[s] = Fields
    BY DEF AdapterInv, Shape
<1>2. UNCHANGED <<phase, offered, rebuilding, invalid, stored, creating, adding,
                  adapters, loaded>>
    BY DEF RunNext, bootVars, engineVars
<1>3. \/ UNCHANGED sessions
      \/ \E n : sessions' = [sessions EXCEPT ![s] = Recorded(@, n)]
    BY Zenon DEF RunNext
<1>4. CASE UNCHANGED sessions
    BY <1>2, <1>4, ElsewhereKeeps
<1>5. ASSUME NEW n, sessions' = [sessions EXCEPT ![s] = Recorded(@, n)]
      PROVE  AdapterInv'
    <2> USE DEF AdapterInv
    <2> Replaced(sessions, sessions', s, sessions[s].here, sessions[s].path)
        BY <1>1, <1>5, RecordedReplaced, Zenon
    <2> PICK r : /\ sessions' = [sessions EXCEPT ![s] = r] /\ DOMAIN r = Fields
                 /\ r.here = sessions[s].here /\ r.path = sessions[s].path
        BY DEF Replaced
    <2>1. Shape'
        BY <1>2 DEF Shape
    <2>2. ASSUME NEW t \in Sessions PROVE Creation(t)'
        BY <1>2 DEF Shape, Creation
    <2>3. ASSUME NEW t \in Sessions, NEW j \in Engines
          PROVE  Adding(t, j)' /\ Serving(t, j)' /\ Booting(t, j)'
        BY <1>2 DEF Shape, Creation, Adding, Serving, Booting
    <2> QED BY <2>1, <2>2, <2>3 DEF AdapterInv
<1> QED BY <1>3, <1>4, <1>5

LEMMA RecordSavedKeeps ==
    ASSUME AdapterInv, NEW s \in Sessions, RecordSaved(s)
    PROVE  AdapterInv'
<1> USE DEF AdapterInv, bootVars, engineVars
<1>1. Shape'
    BY DEF RecordSaved, Save, Unindexed, Fields, Shape
<1>2. ASSUME NEW t \in Sessions PROVE Creation(t)'
    BY DEF RecordSaved, Save, Unindexed, Fields, Shape, Creation
<1>3. ASSUME NEW t \in Sessions, NEW j \in Engines
      PROVE  Adding(t, j)' /\ Serving(t, j)' /\ Booting(t, j)'
    BY DEF RecordSaved, Save, Unindexed, Fields, Shape, Creation, Adding, Serving, Booting
<1> QED BY <1>1, <1>2, <1>3

(* A process end and what the next process makes of the store.             *)
LEMMA ProcessEndsKeeps ==
    ASSUME AdapterInv, ProcessEnds
    PROVE  AdapterInv'
<1> USE DEF AdapterInv, bootVars, engineVars
<1>1. Shape'
    BY DEF ProcessEnds, NoSession, Fields, Shape
<1>2. ASSUME NEW t \in Sessions PROVE Creation(t)'
    BY DEF ProcessEnds, NoSession, Fields, Shape, Creation
<1>3. ASSUME NEW t \in Sessions, NEW j \in Engines
      PROVE  Adding(t, j)' /\ Serving(t, j)' /\ Booting(t, j)'
    BY DEF ProcessEnds, NoSession, Fields, Shape, Creation, Adding, Serving, Booting
<1> QED BY <1>1, <1>2, <1>3

LEMMA RestartKeeps ==
    ASSUME AdapterInv, Restart
    PROVE  AdapterInv'
<1> USE DEF AdapterInv, bootVars, engineVars
<1>1. Shape'
    BY DEF Restart, Without, Stored, Reindexed, NoSession, Fields, Shape
<1>2. ASSUME NEW t \in Sessions PROVE Creation(t)'
    BY DEF Restart, Without, Stored, Reindexed, NoSession, Fields, Shape, Creation
<1>3. ASSUME NEW t \in Sessions, NEW j \in Engines
      PROVE  Adding(t, j)' /\ Serving(t, j)' /\ Booting(t, j)'
    BY DEF Restart, Without, Stored, Reindexed, NoSession, Fields, Shape, Creation, Adding, Serving, Booting
<1> QED BY <1>1, <1>2, <1>3

LEMMA RebuildKeeps ==
    ASSUME AdapterInv, NEW s \in Sessions, Rebuild(s)
    PROVE  AdapterInv'
<1> USE DEF AdapterInv, bootVars, engineVars
<1>1. Shape'
    BY DEF Rebuild, Shape
<1>2. ASSUME NEW t \in Sessions PROVE Creation(t)'
    BY DEF Rebuild, Shape, Creation
<1>3. ASSUME NEW t \in Sessions, NEW j \in Engines
      PROVE  Adding(t, j)' /\ Serving(t, j)' /\ Booting(t, j)'
    BY DEF Rebuild, Shape, Creation, Adding, Serving, Booting
<1> QED BY <1>1, <1>2, <1>3

LEMMA ServeKeeps ==
    ASSUME AdapterInv, Serve
    PROVE  AdapterInv'
<1> USE DEF AdapterInv, bootVars, engineVars
<1>1. Shape'
    BY DEF Serve, Without, NoSession, Fields, Shape
<1>2. ASSUME NEW t \in Sessions PROVE Creation(t)'
    BY DEF Serve, Without, NoSession, Fields, Shape, Creation
<1>3. ASSUME NEW t \in Sessions, NEW j \in Engines
      PROVE  Adding(t, j)' /\ Serving(t, j)' /\ Booting(t, j)'
    BY DEF Serve, Without, NoSession, Fields, Shape, Creation, Adding, Serving, Booting
<1> QED BY <1>1, <1>2, <1>3

LEMMA InvNext == AdapterInv /\ [Next]_vars => AdapterInv'
<1> SUFFICES ASSUME AdapterInv, [Next]_vars PROVE AdapterInv'
    OBVIOUS
<1>1. ASSUME NEW s \in Sessions, NEW c \in Paths, CreateBegin(s, c) PROVE AdapterInv'
    BY <1>1, CreateBeginKeeps
<1>2. ASSUME NEW s \in Sessions, CreateStep(s) PROVE AdapterInv'
    BY <1>2, AddBeginKeeps, AddEndKeeps, RemoveBeginKeeps, RemoveEndKeeps, GatheredKeeps,
       RolledBackKeeps, SaveCreatedKeeps, CreateEndsKeeps
       DEF CreateStep
<1>3. ASSUME NEW s \in Sessions, ExecutorStep(s) \/ Rebuild(s) PROVE AdapterInv'
    BY <1>3, RunNextKeeps, RecordSavedKeeps, RebuildKeeps DEF ExecutorStep
<1>4. ASSUME NEW r \in Requests,
             \/ SampleBegin(r) \/ Timeout(r) \/ Generated(r)
             \/ \E i \in Engines : Generate(r, i)
      PROVE  AdapterInv'
    BY <1>4, ElsewhereKeeps
       DEF SampleBegin, Timeout, Generated, Generate, bootVars, engineVars
<1>5. ASSUME NEW c \in Checkpoints, FilesDeleted(c) PROVE AdapterInv'
    BY <1>5, ElsewhereKeeps DEF FilesDeleted, bootVars, engineVars
<1>6. CASE UNCHANGED vars
    BY <1>6, ElsewhereKeeps DEF vars, bootVars, engineVars
<1> QED
    BY <1>1, <1>2, <1>3, <1>4, <1>5, <1>6, ProcessEndsKeeps, RestartKeeps, ServeKeeps DEF Next

LEMMA AdapterInvariant == Spec => []AdapterInv
BY InvInit, InvNext, PTL DEF Spec

(* Whichever engine a request meets, it finds the adapter of its session,  *)
(* and a session whose creation or restoration failed left none behind:    *)
(* for any number of engines, whichever of them fail and whenever.         *)
THEOREM EnginesAlwaysAgree == Spec => []EnginesAgree
<1>1. AdapterInv => EnginesAgree
    BY DEF AdapterInv, Adding, Serving, EnginesAgree
<1> QED BY <1>1, AdapterInvariant, PTL

-----------------------------------------------------------------------------
(* The heap of an executor is an array of entries, whatever is done to it. *)

(* A set of places of a heap that is not empty has a last one.             *)
LEMMA LastPlace ==
    ASSUME NEW n \in Nat, NEW S, S \subseteq 1..n, S # {}
    PROVE  Max(S) \in S
<1> DEFINE After(p) == {q \in S : q > p}
           Families == {After(p) : p \in S}
<1>1. IsFiniteSet(S)
    <2>1. IsFiniteSet(1..n)
        BY FS_Interval
    <2> QED BY <2>1, FS_Subset
<1>2. Families \subseteq FiniteSubsetsOf(S) /\ Families # {}
    <2>1. \A p \in S : After(p) \subseteq S /\ IsFiniteSet(After(p))
        BY <1>1, FS_Subset
    <2> HIDE DEF After
    <2> QED BY <2>1 DEF FiniteSubsetsOf
<1>3. PICK F \in Families : \A G \in Families : <<G, F>> \notin StrictSubsetOrdering(S)
    <2> HIDE DEF Families
    <2> QED BY <1>2, FS_StrictSubsetOrderingWellFounded, WFMin, Zenon
<1>4. PICK p \in S : F = After(p)
    OBVIOUS
<1>5. ASSUME NEW q \in S PROVE p >= q
    <2> SUFFICES ASSUME q > p PROVE FALSE
        OBVIOUS
    <2>1. After(q) \subseteq After(p) /\ q \in After(p) /\ q \notin After(q)
        <3>1. \A x \in S : x \in Nat
            OBVIOUS
        <3> HIDE DEF Families
        <3>2. ASSUME NEW x \in S, x > q PROVE x > p
            BY <1>5, <3>1, <3>2
        <3>3. q \in After(p)
            BY <1>5, <3>1
        <3>4. q \notin After(q)
            BY <1>5, <3>1
        <3> QED BY <3>2, <3>3, <3>4
    <2>2. After(q) # F /\ After(q) \subseteq F
        BY <1>4, <2>1
    <2>3. After(q) \in Families /\ After(q) \in SUBSET S /\ F \in SUBSET S
        BY <1>4
    <2> HIDE DEF After, Families
    <2>4. <<After(q), F>> \in StrictSubsetOrdering(S)
        BY <2>2, <2>3 DEF StrictSubsetOrdering
    <2> QED BY <1>3, <2>3, <2>4
<1> QED BY <1>5 DEF Max

LEMMA AncestorsAbove ==
    ASSUME NEW p \in Nat, p # 0
    PROVE  Ancestors(p) \subseteq 1..p /\ p \in Ancestors(p)
BY DEF Ancestors

(* Moving an entry up keeps a heap an array of the same entries.           *)
LEMMA LiftKeeps ==
    ASSUME NEW E, NEW h \in Seq(E), NEW n \in 1..Len(h)
    PROVE  Lift(h, n).heap \in Seq(E)
<1> DEFINE path == Ancestors(n)
           passed == {p \in path : \A a \in path : p <= a /\ a < n => h[a].seq > h[n].seq}
           l == [p \in DOMAIN h |->
                     IF p \notin passed THEN h[p]
                     ELSE IF p \div 2 \in passed THEN h[p \div 2] ELSE h[n]]
<1>1. passed \subseteq 1..Len(h)
    BY AncestorsAbove
<1> HIDE DEF passed
<1>2. ASSUME NEW p \in 1..Len(h) PROVE l[p] \in E
    BY <1>1, <1>2
<1>3. l \in [1..Len(h) -> E] /\ Len(h) \in Nat
    <2>1. DOMAIN h = 1..Len(h) /\ Len(h) \in Nat
        OBVIOUS
    <2>2. l = [p \in 1..Len(h) |-> l[p]]
        BY <2>1
    <2> HIDE DEF l
    <2> QED BY <1>2, <2>1, <2>2
<1>4. l \in Seq(E)
    <2> HIDE DEF l
    <2> QED BY <1>3, SeqDef
<1>5. Lift(h, n).heap = l
    BY Zenon DEF Lift, passed
<1> QED BY <1>4, <1>5

LEMMA PushKeeps ==
    ASSUME NEW E, NEW h \in Seq(E), NEW e \in E
    PROVE  Push(h, e).heap \in Seq(E)
<1>1. Append(h, e) \in Seq(E) /\ Len(h) + 1 \in 1..Len(Append(h, e))
    OBVIOUS
<1> QED BY <1>1, LiftKeeps DEF Push

(* Taking the first entry keeps the others.                                *)
LEMMA PopKeeps ==
    ASSUME NEW E, NEW h \in Seq(E), h # <<>>
    PROVE  Pop(h).heap \in Seq(E)
<1> DEFINE n == Len(h) - 1
           g == [p \in 1..n |-> IF p = 1 THEN h[n + 1] ELSE h[p]]
           Tied(p) == 2 * p < n /\ g[2 * p].seq = g[2 * p + 1].seq
           Smaller(p) == IF 2 * p < n /\ g[2 * p].seq > g[2 * p + 1].seq
                         THEN 2 * p + 1 ELSE 2 * p
           Stops(p) == 2 * p > n \/ Tied(p)
           path == {p \in 1..n : \A q \in Ancestors(p) \ {1} :
                        ~Stops(q \div 2) /\ q = Smaller(q \div 2)}
           bottom == Max(path)
           sunk == [p \in 1..n |->
                      IF p \notin path THEN g[p]
                      ELSE IF Stops(p) THEN g[1] ELSE g[Smaller(p)]]
<1>1. CASE n = 0
    <2>1. Pop(h).heap = <<>>
        BY <1>1, Zenon DEF Pop
    <2> QED BY <2>1, EmptySeq
<1>2. CASE n # 0
    <2>1. n \in Nat /\ n > 0 /\ n + 1 = Len(h)
        <3>1. Len(h) \in Nat \ {0}
            BY EmptySeq
        <3> PICK m \in Nat \ {0} : Len(h) = m
            BY <3>1
        <3>2. m - 1 # 0 /\ n = m - 1
            BY <1>2
        <3> HIDE DEF n
        <3> QED BY <3>2
    <2>2. \A p \in 1..n : g[p] \in E
        <3>1. h[n + 1] \in E /\ \A p \in 1..n : h[p] \in E
            <4> HIDE DEF n
            <4> QED BY <2>1, ElementOfSeq
        <3> HIDE DEF n
        <3> QED BY <3>1
    <2>3. 1 \in path
        BY <2>1, AncestorsAbove
    <2>4. \A p \in 1..n : ~Stops(p) => Smaller(p) \in 1..n
        BY <2>1
    <2>5. bottom \in 1..n
        BY <2>1, <2>3, LastPlace
    <2> HIDE DEF g, path
    <2>6. ASSUME NEW p \in 1..n PROVE sunk[p] \in E
        <3>1. 1 \in 1..n
            BY <2>1
        <3> HIDE DEF n, Stops, Smaller
        <3> QED BY <2>2, <2>4, <3>1
    <2>7. sunk \in [1..n -> E]
        BY <2>6
    <2>8. sunk \in Seq(E) /\ Len(sunk) = n
        <3> HIDE DEF sunk, n
        <3>1. sunk \in Seq(E)
            BY <2>1, <2>7, SeqDef
        <3>2. DOMAIN sunk = 1..n
            BY <2>7
        <3> QED BY <2>1, <3>1, <3>2
    <2>9. \/ Pop(h).heap = sunk
          \/ Pop(h).heap = Lift(sunk, bottom).heap
        BY <1>2, Zenon DEF Pop, g, path
    <2> HIDE DEF sunk, bottom
    <2> QED BY <2>5, <2>8, <2>9, LiftKeeps
<1> QED BY <1>1, <1>2

-----------------------------------------------------------------------------
(* Histories.  A request goes from "queued" to "recorded" when its task is *)
(* over; the task of a request is in the heap of its own session only, and *)
(* is the current one from the moment its number is in the record that     *)
(* memory holds until the store has that record too.                       *)

Own(s) == {e \in Entry : target[e.task] = s}
Past(r) == stage[r] \in {"recorded", "generating", "done"}

Typed ==
    /\ sessions \in [Sessions -> Session] /\ stored \in [Sessions -> Session]
    /\ executor \in [Sessions -> Executor]
    /\ target \in [Requests -> Sessions] /\ number \in [Requests -> Numbers]
    /\ stage \in [Requests -> {"new", "queued", "recorded", "generating", "done", "failed", "lost"}]

Executing(s) ==
    /\ phase # "serving" \/ creating[s] # "returned" => executor[s] = NewExecutor
    /\ executor[s].heap \in Seq(Own(s))
    /\ executor[s].current # {} => executor[s].loop \in {"running", "saved"}
    /\ \A r \in executor[s].current :
           /\ target[r] = s /\ number[r] \in sessions[s].history
           /\ executor[s].loop = "saved" /\ stored[s].here => number[r] \in stored[s].history

(* What memory holds is never behind the store, and the private index is   *)
(* never behind the history.                                               *)
History(s) ==
    /\ phase # "down" =>
           /\ sessions[s].index = sessions[s].history
           /\ stored[s].here => stored[s].history \subseteq sessions[s].history
    /\ creating[s] \in {"saved", "returned"} => stored[s].here \/ s \in dropped
    /\ phase # "down" /\ creating[s] \in {"saving", "saved", "returned"} =>
           sessions[s].here \/ s \in dropped

Answered(r) ==
    /\ creating[target[r]] # "returned" => stage[r] \in {"new", "failed"}
    /\ Past(r) /\ stored[target[r]].here => number[r] \in stored[target[r]].history
    /\ Past(r) /\ phase # "down" /\ sessions[target[r]].here =>
           number[r] \in sessions[target[r]].history

HistoryInv ==
    /\ AdapterInv /\ Typed
    /\ \A s \in Sessions : Executing(s) /\ History(s)
    /\ \A r \in Requests : Answered(r)

LEMMA SessionsTyped ==
    NoSession \in Session
BY DEF NoSession, Session, Paths

LEMMA NumbersAreNaturals == Numbers \subseteq Nat
BY CallsAssumption DEF Numbers

LEMMA NewExecutorTyped ==
    ASSUME NEW s
    PROVE  /\ NewExecutor \in Executor /\ NewExecutor.heap \in Seq(Own(s))
           /\ NewExecutor.current = {} /\ NewExecutor.loop = "idle"
<1>1. <<>> \in Seq(Entry) /\ <<>> \in Seq(Own(s))
    BY EmptySeq
<1> QED BY <1>1 DEF NewExecutor, Executor

LEMMA HistoryInit == Init => HistoryInv
<1> SUFFICES ASSUME Init PROVE HistoryInv
    OBVIOUS
<1>1. Typed
    <2>1. \A s \in Sessions : executor[s] \in Executor
        BY NewExecutorTyped DEF Init
    <2> QED BY <2>1, SessionsTyped DEF Init, Typed
<1>2. ASSUME NEW s \in Sessions PROVE Executing(s) /\ History(s)
    <2>1. executor[s] = NewExecutor
        BY DEF Init
    <2>2. Executing(s)
        BY <2>1, NewExecutorTyped DEF Executing
    <2>3. History(s)
        BY DEF Init, History, NoSession
    <2> QED BY <2>2, <2>3
<1>3. ASSUME NEW r \in Requests PROVE Answered(r)
    BY DEF Init, Answered, Past
<1> QED BY <1>1, <1>2, <1>3, InvInit DEF HistoryInv

(* Adapters, locks and files are of no matter to histories.                *)
LEMMA HistoryElsewhere ==
    ASSUME HistoryInv, AdapterInv',
           UNCHANGED <<phase, sessions, stored, executor, creating, dropped, requestVars>>
    PROVE  HistoryInv'
<1> USE DEF HistoryInv, requestVars
<1>1. Typed'
    BY DEF Typed
<1>2. ASSUME NEW s \in Sessions PROVE Executing(s)' /\ History(s)'
    BY DEF Executing, History, Own
<1>3. ASSUME NEW q \in Requests PROVE Answered(q)'
    BY DEF Answered, Past
<1> QED BY <1>1, <1>2, <1>3

(* A request that fails, or goes on after its recording.                   *)
LEMMA HistoryAnswering ==
    ASSUME HistoryInv, AdapterInv',
           UNCHANGED <<phase, sessions, stored, executor, creating, dropped, target, number>>,
           NEW r \in Requests, NEW to \in {"generating", "done", "failed"},
           stage' = [stage EXCEPT ![r] = to],
           to \in {"generating", "done"} => Past(r)
    PROVE  HistoryInv'
<1> USE DEF HistoryInv
<1>1. Typed'
    BY DEF Typed
<1>2. ASSUME NEW s \in Sessions PROVE Executing(s)' /\ History(s)'
    BY DEF Executing, History, Own
<1>3. ASSUME NEW q \in Requests PROVE Answered(q)'
    BY DEF Answered, Past, Typed
<1> QED BY <1>1, <1>2, <1>3

(* The steps of a creation.                                                *)
LEMMA HistoryCreating ==
    ASSUME HistoryInv, AdapterInv',
           UNCHANGED <<phase, executor, dropped, requestVars>>,
           NEW s \in Sessions, NEW to, creating' = [creating EXCEPT ![s] = to],
           creating[s] # "returned",
           sessions' \in [Sessions -> Session], stored' \in [Sessions -> Session],
           \A t \in Sessions \ {s} : sessions'[t] = sessions[t] /\ stored'[t] = stored[t],
           sessions'[s].history = sessions[s].history,
           sessions'[s].index = sessions[s].index,
           stored'[s].here => stored'[s].history \subseteq sessions[s].history,
           to \in {"saved", "returned"} => stored'[s].here \/ s \in dropped,
           to \in {"saving", "saved", "returned"} => sessions'[s].here \/ s \in dropped
    PROVE  HistoryInv'
<1> USE DEF HistoryInv
<1>1. Typed'
    BY DEF Typed, requestVars
<1>2. DOMAIN creating = Sessions
    BY DEF AdapterInv, Shape
<1>3. executor[s] = NewExecutor
    BY DEF Executing
<1>4. ASSUME NEW t \in Sessions PROVE Executing(t)'
    <2>1. CASE t = s
        <3>1. NewExecutor.heap \in Seq(Own(s))' /\ NewExecutor.current = {}
            BY NewExecutorTyped DEF Own, requestVars
        <3> QED BY <1>3, <2>1, <3>1 DEF Executing
    <2>2. CASE t # s
        BY <1>2, <2>2 DEF Executing, Own, requestVars
    <2> QED BY <2>1, <2>2
<1>5. ASSUME NEW t \in Sessions PROVE History(t)'
    BY <1>2 DEF History
<1>6. ASSUME NEW r \in Requests PROVE Answered(r)'
    <2>1. CASE target[r] = s
        BY <2>1 DEF Answered, Past, requestVars
    <2>2. CASE target[r] # s
        BY <1>2, <2>2 DEF Answered, Past, requestVars, Typed
    <2> QED BY <2>1, <2>2
<1> QED BY <1>1, <1>4, <1>5, <1>6

LEMMA RecordParts ==
    ASSUME NEW f \in [Sessions -> Session], NEW s \in Sessions, NEW g,
           \/ g = f
           \/ g = [f EXCEPT ![s].here = TRUE]
           \/ \E c \in Paths : g = [f EXCEPT ![s].path = c]
    PROVE  /\ g \in [Sessions -> Session]
           /\ \A t \in Sessions \ {s} : g[t] = f[t]
           /\ g[s].history = f[s].history /\ g[s].index = f[s].index
           /\ g = [f EXCEPT ![s].here = TRUE] => g[s].here
<1>1. f[s] \in Session
    OBVIOUS
<1>2. CASE g = f
    BY <1>1, <1>2 DEF Session
<1>3. CASE g = [f EXCEPT ![s].here = TRUE]
    BY <1>1, <1>3 DEF Session
<1>4. ASSUME NEW c \in Paths, g = [f EXCEPT ![s].path = c]
      PROVE  /\ g \in [Sessions -> Session]
             /\ \A t \in Sessions \ {s} : g[t] = f[t]
             /\ g[s].history = f[s].history /\ g[s].index = f[s].index
    BY <1>1, <1>4 DEF Session
<1>5. g = [f EXCEPT ![s].here = TRUE] => g[s].here
    BY <1>1 DEF Session
<1> QED BY <1>2, <1>3, <1>4, <1>5

LEMMA HistoryCreateBegin ==
    ASSUME HistoryInv, AdapterInv', NEW s \in Sessions, NEW c \in Paths, CreateBegin(s, c)
    PROVE  HistoryInv'
<1>1. /\ sessions \in [Sessions -> Session] /\ stored \in [Sessions -> Session]
      /\ creating[s] = "new" /\ History(s) /\ Creation(s)
      /\ UNCHANGED <<phase, executor, dropped, stored, requestVars>>
    BY DEF HistoryInv, AdapterInv, Typed, CreateBegin, bootVars
<1>2. PICK to \in {"failed", "adding", "saving"} :
         /\ creating' = [creating EXCEPT ![s] = to]
         /\ \/ UNCHANGED sessions /\ to = "failed"
            \/ sessions' = [sessions EXCEPT ![s].path = c] /\ to = "adding"
            \/ sessions' = [sessions EXCEPT ![s].here = TRUE] /\ to = "saving"
    <2>1. \/ /\ creating' = [creating EXCEPT ![s] = "failed"] /\ UNCHANGED sessions
          \/ /\ creating' = [creating EXCEPT ![s] = "adding"]
             /\ sessions' = [sessions EXCEPT ![s].path = c]
          \/ /\ creating' = [creating EXCEPT ![s] = "saving"]
             /\ sessions' = [sessions EXCEPT ![s].here = TRUE]
        BY Zenon DEF CreateBegin, Registered
    <2> QED BY <2>1, Zenon
<1>3. /\ sessions' \in [Sessions -> Session]
      /\ \A t \in Sessions \ {s} : sessions'[t] = sessions[t]
      /\ sessions'[s].history = sessions[s].history /\ sessions'[s].index = sessions[s].index
      /\ to = "saving" => sessions'[s].here
    BY <1>1, <1>2, RecordParts
<1>4. ~stored'[s].here
    BY <1>1 DEF Creation
<1> QED BY <1>1, <1>2, <1>3, <1>4, HistoryCreating

LEMMA HistoryGathered ==
    ASSUME HistoryInv, AdapterInv', NEW s \in Sessions, Gathered(s)
    PROVE  HistoryInv'
<1>1. /\ sessions \in [Sessions -> Session] /\ stored \in [Sessions -> Session]
      /\ creating[s] = "adding" /\ History(s) /\ Creation(s)
      /\ UNCHANGED <<phase, executor, dropped, stored, requestVars>>
    BY DEF HistoryInv, AdapterInv, Typed, Gathered, bootVars
<1>2. PICK to \in {"rollback", "saving"} :
         /\ creating' = [creating EXCEPT ![s] = to]
         /\ \/ UNCHANGED sessions /\ to = "rollback"
            \/ sessions' = [sessions EXCEPT ![s].here = TRUE] /\ to = "saving"
    <2>1. \/ /\ creating' = [creating EXCEPT ![s] = "rollback"] /\ UNCHANGED sessions
          \/ /\ creating' = [creating EXCEPT ![s] = "saving"]
             /\ sessions' = [sessions EXCEPT ![s].here = TRUE]
        BY Zenon DEF Gathered, Registered
    <2> QED BY <2>1, Zenon
<1>3. /\ sessions' \in [Sessions -> Session]
      /\ \A t \in Sessions \ {s} : sessions'[t] = sessions[t]
      /\ sessions'[s].history = sessions[s].history /\ sessions'[s].index = sessions[s].index
      /\ to = "saving" => sessions'[s].here
    BY <1>1, <1>2, RecordParts
<1>4. ~stored'[s].here
    BY <1>1 DEF Creation
<1> QED BY <1>1, <1>2, <1>3, <1>4, HistoryCreating

LEMMA HistoryRolledBack ==
    ASSUME HistoryInv, AdapterInv', NEW s \in Sessions, RolledBack(s)
    PROVE  HistoryInv'
<1>1. /\ sessions \in [Sessions -> Session] /\ stored \in [Sessions -> Session]
      /\ creating[s] = "rollback" /\ creating' = [creating EXCEPT ![s] = "failed"]
      /\ UNCHANGED <<phase, executor, dropped, sessions, stored, requestVars>> /\ Creation(s)
    BY DEF HistoryInv, AdapterInv, Typed, RolledBack, bootVars
<1> QED BY <1>1, HistoryCreating DEF Creation

LEMMA HistoryCreateEnds ==
    ASSUME HistoryInv, AdapterInv', NEW s \in Sessions, CreateEnds(s)
    PROVE  HistoryInv'
<1>1. /\ sessions \in [Sessions -> Session] /\ stored \in [Sessions -> Session]
      /\ creating[s] = "saved" /\ creating' = [creating EXCEPT ![s] = "returned"]
      /\ UNCHANGED <<phase, executor, dropped, sessions, stored, requestVars>>
      /\ Creation(s) /\ History(s)
    BY DEF HistoryInv, AdapterInv, Typed, CreateEnds, bootVars
<1> QED BY <1>1, HistoryCreating DEF Creation, History

(* A session is stored before its id is returned.                          *)
LEMMA HistorySaveCreated ==
    ASSUME "lost" \notin Faults,
           HistoryInv, AdapterInv', NEW s \in Sessions, SaveCreated(s)
    PROVE  HistoryInv'
<1>1. /\ sessions \in [Sessions -> Session] /\ stored \in [Sessions -> Session]
      /\ creating[s] = "saving" /\ creating' = [creating EXCEPT ![s] = "saved"]
      /\ UNCHANGED <<phase, executor, dropped, sessions, requestVars>>
      /\ Creation(s) /\ History(s)
    BY DEF HistoryInv, AdapterInv, Typed, SaveCreated, bootVars
<1>2. stored' = [stored EXCEPT ![s] = Unindexed(sessions[s])]
    BY Zenon DEF SaveCreated, Save
<1>3. /\ stored' \in [Sessions -> Session]
      /\ \A t \in Sessions \ {s} : stored'[t] = stored[t]
      /\ stored'[s].history = sessions[s].history /\ stored'[s].here = sessions[s].here
    BY <1>1, <1>2 DEF Session, Unindexed
<1> QED BY <1>1, <1>3, HistoryCreating DEF Creation, History

-----------------------------------------------------------------------------
(* What run_sample and the executor do to the histories.                   *)

(* Submitting puts a task of this session's into its heap.                 *)
LEMMA SubmittedKeeps ==
    ASSUME NEW s, NEW x \in Executor, x.heap \in Seq(Own(s)),
           NEW t \in Requests, target[t] = s, NEW n \in Nat
    PROVE  LET y == Submitted(x, t, n).executor
           IN  /\ y \in Executor /\ y.heap \in Seq(Own(s)) /\ y.current = x.current
               /\ x.loop # "idle" => y.loop = x.loop
               /\ x.loop = "idle" => y.loop \in {"idle", "started"}
<1> DEFINE e == [seq |-> n, task |-> t]
           p == Push(x.heap, e)
           y == Submitted(x, t, n).executor
<1>1. e \in Entry /\ e \in Own(s)
    BY DEF Entry, Own, Tasks
<1>2. x.heap \in Seq(Entry)
    BY DEF Executor
<1>3. p.heap \in Seq(Entry) /\ p.heap \in Seq(Own(s))
    BY <1>1, <1>2, PushKeeps
<1>4. y = [x EXCEPT !.heap = p.heap,
                    !.loop = IF @ = "idle" /\ ~p.raised THEN "started" ELSE @]
    BY Zenon DEF Submitted
<1> HIDE DEF p, y
<1>5. y \in Executor /\ y.heap = p.heap /\ y.current = x.current
      /\ y.loop = IF x.loop = "idle" /\ ~p.raised THEN "started" ELSE x.loop
    BY <1>3, <1>4 DEF Executor
<1> QED BY <1>3, <1>5 DEF y

LEMMA HistorySampleBegin ==
    ASSUME HistoryInv, AdapterInv', NEW r \in Requests, SampleBegin(r)
    PROVE  HistoryInv'
<1> DEFINE s == target[r]
           x == Submitted(executor[s], r, number[r])
<1> USE DEF HistoryInv
<1>1. /\ phase = "serving" /\ stage[r] = "new" /\ creating[s] = "returned"
      /\ UNCHANGED <<phase, sessions, stored, creating, dropped, target, number>>
    BY DEF SampleBegin, bootVars
<1>2. PICK to \in {"failed", "queued"} : stage' = [stage EXCEPT ![r] = to]
    <2>1. \/ stage' = [stage EXCEPT ![r] = IF x.raised THEN "failed" ELSE "queued"]
          \/ stage' = [stage EXCEPT ![r] = "failed"]
        BY Zenon DEF SampleBegin
    <2> HIDE DEF x
    <2>2. (IF x.raised THEN "failed" ELSE "queued") \in {"failed", "queued"}
        OBVIOUS
    <2> QED BY <2>1, <2>2
<1>3. \/ executor' = [executor EXCEPT ![s] = x.executor]
      \/ UNCHANGED executor
    BY Zenon DEF SampleBegin
<1>4. s \in Sessions /\ number[r] \in Nat /\ executor \in [Sessions -> Executor]
    BY NumbersAreNaturals DEF Typed
<1>5. Executing(s)
    BY <1>4
<1>6. /\ x.executor \in Executor /\ x.executor.heap \in Seq(Own(s))
      /\ x.executor.current = executor[s].current
      /\ executor[s].loop # "idle" => x.executor.loop = executor[s].loop
    <2>1. executor[s] \in Executor /\ executor[s].heap \in Seq(Own(s))
        BY <1>4, <1>5 DEF Executing
    <2> QED BY <1>4, <2>1, SubmittedKeeps
<1> HIDE DEF x
<1>7. Typed'
    BY <1>1, <1>2, <1>3, <1>4, <1>6 DEF Typed
<1>8. ASSUME NEW t \in Sessions PROVE Executing(t)' /\ History(t)'
    <2>1. History(t)'
        BY <1>1 DEF History
    <2>2. CASE t = s
        <3>1. /\ executor'[s].heap \in Seq(Own(s)) /\ executor'[s].current = executor[s].current
              /\ executor[s].loop # "idle" => executor'[s].loop = executor[s].loop
            BY <1>3, <1>4, <1>5, <1>6 DEF Executing
        <3> QED BY <1>1, <1>5, <2>1, <2>2, <3>1 DEF Executing, Own
    <2>3. CASE t # s
        <3>1. executor'[t] = executor[t]
            BY <1>3, <1>4, <2>3
        <3> QED BY <1>1, <2>1, <3>1 DEF Executing, Own
    <2> QED BY <2>2, <2>3
<1>9. ASSUME NEW q \in Requests PROVE Answered(q)'
    BY <1>1, <1>2 DEF Answered, Past, Typed
<1> QED BY <1>7, <1>8, <1>9

(* A turn of the executor takes a task of this session's, or none.         *)
LEMMA AdvancedKeeps ==
    ASSUME NEW s, NEW x \in Executor, x.heap \in Seq(Own(s))
    PROVE  LET y == Advanced(x)
           IN  /\ y \in Executor /\ y.heap \in Seq(Own(s))
               /\ \/ y.current = {}
                  \/ y.loop = "running" /\ \E r \in Requests : y.current = {r} /\ target[r] = s
<1> DEFINE y == Advanced(x)
           p == Pop(x.heap)
<1>1. CASE x.heap = <<>>
    <2>1. y = NewExecutor
        BY <1>1, Zenon DEF Advanced
    <2> QED BY <2>1, NewExecutorTyped
<1>2. CASE x.heap # <<>>
    <2>1. x.heap \in Seq(Entry)
        BY DEF Executor
    <2>2. p.heap \in Seq(Entry) /\ p.heap \in Seq(Own(s))
        BY <1>2, <2>1, PopKeeps
    <2>3. Head(x.heap) \in Own(s)
        BY <1>2
    <2>4. Head(x.heap).task \in Requests /\ target[Head(x.heap).task] = s
        BY <2>3 DEF Own, Entry, Tasks
    <2>5. \/ y = [heap |-> p.heap, current |-> {}, loop |-> "dead"]
          \/ y = [heap |-> p.heap, current |-> {Head(x.heap).task}, loop |-> "running"]
        BY <1>2, Zenon DEF Advanced
    <2> HIDE DEF p, y
    <2>6. /\ y \in Executor /\ y.heap = p.heap
          /\ y.current = {} \/ (y.loop = "running" /\ y.current = {Head(x.heap).task})
        BY <2>2, <2>4, <2>5 DEF Executor, Tasks
    <2> QED BY <2>2, <2>4, <2>6 DEF y
<1> QED BY <1>1, <1>2

(* The number that is being recorded comes into the history that memory    *)
(* holds; the request whose number the store has taken goes on.            *)
LEMMA HistoryRunNext ==
    ASSUME HistoryInv, AdapterInv', NEW s \in Sessions, RunNext(s)
    PROVE  HistoryInv'
<1> DEFINE x == Advanced(executor[s])
<1> USE DEF HistoryInv
<1>1. /\ phase = "serving" /\ executor[s].loop \in {"started", "saved"}
      /\ executor' = [executor EXCEPT ![s] = x]
      /\ stage' = [r \in Requests |->
             IF r \in executor[s].current /\ stage[r] = "queued" THEN "recorded" ELSE stage[r]]
      /\ UNCHANGED <<phase, stored, creating, dropped, target, number>>
    BY DEF RunNext, bootVars
<1>2. Executing(s) /\ executor[s] \in Executor /\ Typed
    BY DEF Typed
<1>3. executor[s].current # {} => executor[s].loop = "saved"
    BY <1>1, <1>2 DEF Executing
<1>4. creating[s] = "returned"
    <2> SUFFICES ASSUME creating[s] # "returned" PROVE FALSE
        OBVIOUS
    <2>1. executor[s].loop = "idle"
        BY <1>2, NewExecutorTyped DEF Executing
    <2> QED BY <1>1, <2>1
<1>5. /\ x \in Executor /\ x.heap \in Seq(Own(s))
      /\ \/ x.current = {}
         \/ x.loop = "running" /\ \E r \in Requests : x.current = {r} /\ target[r] = s
    BY <1>2, AdvancedKeeps DEF Executing
<1>6. \/ x.current = {} /\ UNCHANGED sessions
      \/ \E r \in x.current : sessions' = [sessions EXCEPT ![s] = Recorded(sessions[s], number[r])]
    BY Zenon DEF RunNext
<1> HIDE DEF x
<1>7. /\ sessions' \in [Sessions -> Session]
      /\ \A t \in Sessions \ {s} : sessions'[t] = sessions[t]
      /\ sessions'[s].here = sessions[s].here
      /\ sessions[s].history \subseteq sessions'[s].history
      /\ sessions'[s].index = sessions'[s].history
      /\ \A r \in x.current : number[r] \in sessions'[s].history
    <2>1. sessions[s] \in Session /\ sessions[s].index = sessions[s].history
        BY <1>1, <1>2 DEF Typed, History
    <2>2. CASE x.current = {} /\ UNCHANGED sessions
        BY <1>2, <2>1, <2>2 DEF Typed
    <2>3. CASE \E r \in x.current :
                   sessions' = [sessions EXCEPT ![s] = Recorded(sessions[s], number[r])]
        <3> PICK r \in x.current :
                sessions' = [sessions EXCEPT ![s] = Recorded(sessions[s], number[r])]
            BY <2>3
        <3>1. x.current = {r} /\ number[r] \in Numbers
            BY <1>2, <1>5 DEF Typed
        <3>2. /\ Recorded(sessions[s], number[r]) \in Session
              /\ Recorded(sessions[s], number[r]).here = sessions[s].here
              /\ Recorded(sessions[s], number[r]).index = sessions[s].index \cup {number[r]}
              /\ Recorded(sessions[s], number[r]).history = sessions[s].index \cup {number[r]}
            BY <2>1, <3>1 DEF Recorded, Session
        <3> QED BY <1>2, <2>1, <3>1, <3>2 DEF Typed
    <2> QED BY <1>6, <2>2, <2>3
<1>8. Typed'
    BY <1>1, <1>2, <1>5, <1>7 DEF Typed
<1>9. ASSUME NEW t \in Sessions PROVE Executing(t)'
    <2>1. CASE t = s
        <3>1. executor'[s] = x
            BY <1>1, <1>2 DEF Typed
        <3>2. \A r \in x.current : target[r] = s /\ x.loop = "running"
            BY <1>5
        <3> QED BY <1>1, <1>4, <1>5, <1>7, <2>1, <3>1, <3>2 DEF Executing, Own
    <2>2. CASE t # s
        <3>1. executor'[t] = executor[t]
            BY <1>1, <1>2, <2>2 DEF Typed
        <3> QED BY <1>1, <1>7, <2>2, <3>1 DEF Executing, Own
    <2> QED BY <2>1, <2>2
<1>10. ASSUME NEW t \in Sessions PROVE History(t)'
    BY <1>1, <1>7 DEF History
<1>11. ASSUME NEW r \in Requests PROVE Answered(r)'
    <2>1. target[r] \in Sessions
        BY <1>2 DEF Typed
    <2>2. r \in executor[s].current =>
              /\ target[r] = s /\ number[r] \in sessions[s].history
              /\ stored[s].here => number[r] \in stored[s].history
        BY <1>2, <1>3 DEF Executing
    <2>3. CASE r \in executor[s].current
        BY <1>1, <1>4, <1>7, <2>2, <2>3 DEF Answered, Past
    <2>4. CASE r \notin executor[s].current
        BY <1>1, <1>7, <2>1, <2>4 DEF Answered, Past
    <2> QED BY <2>3, <2>4
<1> QED BY <1>8, <1>9, <1>10, <1>11

(* The save of a recording: the store takes the record that memory holds.  *)
LEMMA HistoryRecordSaved ==
    ASSUME "lost" \notin Faults,
           HistoryInv, AdapterInv', NEW s \in Sessions, RecordSaved(s)
    PROVE  HistoryInv'
<1> USE DEF HistoryInv
<1>1. /\ phase = "serving" /\ executor[s].loop = "running"
      /\ executor' = [executor EXCEPT ![s].loop = "saved"]
      /\ UNCHANGED <<phase, sessions, creating, dropped, requestVars>>
    BY DEF RecordSaved, bootVars
<1>2. stored' = [stored EXCEPT ![s] = Unindexed(sessions[s])]
    BY Zenon DEF RecordSaved, Save
<1>3. Typed /\ Executing(s) /\ History(s) /\ executor[s] \in Executor /\ sessions[s] \in Session
    BY DEF Typed
<1>4. /\ stored' \in [Sessions -> Session]
      /\ \A t \in Sessions \ {s} : stored'[t] = stored[t]
      /\ stored'[s].here = sessions[s].here /\ stored'[s].history = sessions[s].history
    BY <1>2, <1>3 DEF Typed, Unindexed, Session
<1>5. creating[s] = "returned"
    <2> SUFFICES ASSUME creating[s] # "returned" PROVE FALSE
        OBVIOUS
    <2>1. executor[s].loop = "idle"
        BY <1>3, NewExecutorTyped DEF Executing
    <2> QED BY <1>1, <2>1
<1>6. /\ executor' \in [Sessions -> Executor]
      /\ \A t \in Sessions \ {s} : executor'[t] = executor[t]
      /\ executor'[s].heap = executor[s].heap /\ executor'[s].current = executor[s].current
      /\ executor'[s].loop = "saved"
    BY <1>1, <1>3 DEF Typed, Executor
<1>7. Typed'
    BY <1>1, <1>3, <1>4, <1>6 DEF Typed, requestVars
<1>8. ASSUME NEW t \in Sessions PROVE Executing(t)' /\ History(t)'
    <2>1. CASE t = s
        BY <1>1, <1>3, <1>4, <1>5, <1>6, <2>1 DEF Executing, History, Own, requestVars
    <2>2. CASE t # s
        BY <1>1, <1>4, <1>6, <2>2 DEF Executing, History, Own, requestVars
    <2> QED BY <2>1, <2>2
<1>9. ASSUME NEW r \in Requests PROVE Answered(r)'
    <2>1. target[r] \in Sessions
        BY <1>3 DEF Typed
    <2> QED BY <1>1, <1>4, <2>1 DEF Answered, Past, requestVars
<1> QED BY <1>7, <1>8, <1>9

-----------------------------------------------------------------------------
(* A process end forgets what memory holds; a restart takes it from the    *)
(* store, where every number of a past request is.                         *)
LEMMA HistoryProcessEnds ==
    ASSUME HistoryInv, AdapterInv', ProcessEnds
    PROVE  HistoryInv'
<1> USE DEF HistoryInv
<1>1. /\ phase' = "down"
      /\ sessions' = [s \in Sessions |-> NoSession]
      /\ executor' = [s \in Sessions |-> NewExecutor]
      /\ creating' = [s \in Sessions |->
             IF creating[s] \in {"new", "returned"} THEN creating[s] ELSE "failed"]
      /\ stage' = [r \in Requests |->
             IF stage[r] \in {"queued", "recorded", "generating"} THEN "lost" ELSE stage[r]]
      /\ UNCHANGED <<stored, dropped, target, number>>
    BY DEF ProcessEnds
<1>2. Typed'
    <2>1. NewExecutor \in Executor /\ NoSession \in Session
        BY NewExecutorTyped, SessionsTyped
    <2> QED BY <1>1, <2>1 DEF Typed
<1>3. ASSUME NEW s \in Sessions PROVE Executing(s)' /\ History(s)'
    <2>1. NewExecutor.heap \in Seq(Own(s))' /\ NewExecutor.current = {}
        BY <1>1, NewExecutorTyped DEF Own
    <2> QED BY <1>1, <2>1 DEF Executing, History
<1>4. ASSUME NEW r \in Requests PROVE Answered(r)'
    BY <1>1 DEF Answered, Past, Typed
<1> QED BY <1>2, <1>3, <1>4

LEMMA WithoutSome ==
    ASSUME NEW f \in [Sessions -> Session], NEW S
    PROVE  /\ Without(f, S) \in [Sessions -> Session]
           /\ \A s \in Sessions : /\ s \in S => Without(f, S)[s] = NoSession
                                  /\ s \notin S => Without(f, S)[s] = f[s]
BY SessionsTyped DEF Without

LEMMA HistoryRestart ==
    ASSUME HistoryInv, AdapterInv', Restart
    PROVE  HistoryInv'
<1> USE DEF HistoryInv
<1> DEFINE lost == IF offered' = "gone" THEN Stored ELSE {}
<1>1. /\ phase = "down" /\ phase' = "booting"
      /\ sessions' = [s \in Sessions |-> Reindexed(Without(stored, lost)[s])]
      /\ stored' = Without(stored, lost) /\ dropped' = dropped \cup lost
      /\ UNCHANGED <<executor, creating, requestVars>>
    BY Zenon DEF Restart
<1> HIDE DEF lost
<1>2. Typed
    OBVIOUS
<1>3. /\ stored' \in [Sessions -> Session]
      /\ \A s \in Sessions : /\ s \in lost => stored'[s] = NoSession
                             /\ s \notin lost => stored'[s] = stored[s]
    BY <1>1, <1>2, WithoutSome DEF Typed
<1>4. \A s \in Sessions : sessions'[s] = [stored'[s] EXCEPT !.index = stored'[s].history]
    BY <1>1 DEF Reindexed
<1>5. /\ sessions' \in [Sessions -> Session]
      /\ \A s \in Sessions : /\ sessions'[s].here = stored'[s].here
                             /\ sessions'[s].history = stored'[s].history
                             /\ sessions'[s].index = stored'[s].history
    <2>1. \A s \in Sessions : stored'[s] \in Session
        BY <1>3
    <2>2. \A s \in Sessions : /\ sessions'[s] \in Session
                              /\ sessions'[s].here = stored'[s].here
                              /\ sessions'[s].history = stored'[s].history
                              /\ sessions'[s].index = stored'[s].history
        BY <1>4, <2>1 DEF Session
    <2> QED BY <1>1, <2>2
<1>6. Typed'
    BY <1>1, <1>2, <1>3, <1>5 DEF Typed, requestVars
<1>7. ASSUME NEW s \in Sessions PROVE Executing(s)' /\ History(s)'
    <2>1. executor[s] = NewExecutor /\ NewExecutor.current = {}
        BY <1>1, NewExecutorTyped DEF Executing
    <2>2. Executing(s)'
        BY <1>1, <2>1 DEF Executing, Own, requestVars
    <2>3. creating[s] \notin {"saving", "saved"}
        BY <1>1 DEF AdapterInv, Creation
    <2>4. History(s)'
        BY <1>1, <1>3, <1>5, <2>3 DEF History
    <2> QED BY <2>2, <2>4
<1>8. ASSUME NEW r \in Requests PROVE Answered(r)'
    <2>1. target[r] \in Sessions
        BY <1>2 DEF Typed
    <2> QED BY <1>1, <1>3, <1>5, <2>1 DEF Answered, Past, requestVars, NoSession
<1> QED BY <1>6, <1>7, <1>8

LEMMA HistoryServe ==
    ASSUME HistoryInv, AdapterInv', Serve
    PROVE  HistoryInv'
<1> USE DEF HistoryInv
<1>1. /\ phase = "booting" /\ phase' = "serving"
      /\ sessions' = Without(sessions, invalid) /\ stored' = Without(stored, invalid)
      /\ dropped' = dropped \cup invalid
      /\ UNCHANGED <<executor, creating, requestVars>>
    BY DEF Serve
<1>2. Typed
    OBVIOUS
<1>3. /\ sessions' \in [Sessions -> Session] /\ stored' \in [Sessions -> Session]
      /\ \A s \in Sessions :
             /\ s \in invalid => stored'[s] = NoSession /\ sessions'[s] = NoSession
             /\ s \notin invalid => stored'[s] = stored[s] /\ sessions'[s] = sessions[s]
    BY <1>1, <1>2, WithoutSome DEF Typed
<1>4. Typed'
    BY <1>1, <1>2, <1>3 DEF Typed, requestVars
<1>5. ASSUME NEW s \in Sessions PROVE Executing(s)' /\ History(s)'
    <2>1. executor[s] = NewExecutor /\ NewExecutor.current = {}
        BY <1>1, NewExecutorTyped DEF Executing
    <2>2. Executing(s)'
        BY <1>1, <2>1 DEF Executing, Own, requestVars
    <2>3. creating[s] \notin {"saving", "saved"}
        BY <1>1 DEF AdapterInv, Creation
    <2>4. History(s)'
        <3>1. CASE s \in invalid
            <4>1. /\ sessions'[s].index = {} /\ sessions'[s].history = {}
                  /\ ~stored'[s].here /\ s \in dropped'
                BY <1>1, <1>3, <3>1 DEF NoSession
            <4> QED BY <4>1 DEF History
        <3>2. CASE s \notin invalid
            <4>1. /\ sessions[s].index = sessions[s].history
                  /\ stored[s].here => stored[s].history \subseteq sessions[s].history
                  /\ creating[s] = "returned" => stored[s].here \/ s \in dropped
                  /\ creating[s] = "returned" => sessions[s].here \/ s \in dropped
                BY <1>1 DEF History
            <4>2. sessions'[s] = sessions[s] /\ stored'[s] = stored[s]
                BY <1>3, <3>2
            <4> QED BY <1>1, <2>3, <4>1, <4>2 DEF History
        <3> QED BY <3>1, <3>2
    <2> QED BY <2>2, <2>4
<1>6. ASSUME NEW r \in Requests PROVE Answered(r)'
    <2>1. target[r] \in Sessions
        BY <1>2 DEF Typed
    <2> QED BY <1>1, <1>3, <2>1 DEF Answered, Past, requestVars, NoSession
<1> QED BY <1>4, <1>5, <1>6

LEMMA HistoryNext ==
    ASSUME "lost" \notin Faults, HistoryInv, [Next]_vars
    PROVE  HistoryInv'
<1> AdapterInv'
    BY InvNext DEF HistoryInv
<1> USE DEF bootVars, engineVars
<1>1. ASSUME NEW s \in Sessions, NEW c \in Paths, CreateBegin(s, c) PROVE HistoryInv'
    BY <1>1, HistoryCreateBegin
<1>2. ASSUME NEW s \in Sessions, NEW i \in Engines,
             AddBegin(s, i) \/ AddEnd(s, i) \/ RemoveBegin(s, i) \/ RemoveEnd(s, i)
      PROVE  HistoryInv'
    BY <1>2, HistoryElsewhere DEF AddBegin, AddEnd, RemoveBegin, RemoveEnd
<1>3. ASSUME NEW s \in Sessions, CreateStep(s) PROVE HistoryInv'
    BY <1>2, <1>3, HistoryGathered, HistoryRolledBack, HistorySaveCreated, HistoryCreateEnds
       DEF CreateStep
<1>4. ASSUME NEW s \in Sessions, ExecutorStep(s) PROVE HistoryInv'
    BY <1>4, HistoryRunNext, HistoryRecordSaved DEF ExecutorStep
<1>5. ASSUME NEW s \in Sessions, Rebuild(s) PROVE HistoryInv'
    BY <1>5, HistoryElsewhere DEF Rebuild
<1>6. ASSUME NEW r \in Requests, SampleBegin(r) PROVE HistoryInv'
    BY <1>6, HistorySampleBegin
<1>7. ASSUME NEW r \in Requests, Timeout(r) PROVE HistoryInv'
    BY <1>7, HistoryAnswering DEF Timeout
<1>8. ASSUME NEW r \in Requests, Generated(r) PROVE HistoryInv'
    <2>1. PICK to \in {"done", "failed"} : stage' = [stage EXCEPT ![r] = to]
        BY <1>8 DEF Generated
    <2> QED BY <1>8, <2>1, HistoryAnswering DEF Generated, Past
<1>9. ASSUME NEW r \in Requests, NEW i \in Engines, Generate(r, i) PROVE HistoryInv'
    <2> DEFINE to == IF sessions[target[r]].path = Base \/ target[r] \in adapters[i]
                     THEN "generating" ELSE "failed"
    <2>1. to \in {"generating", "failed"}
        OBVIOUS
    <2>2. stage' = [stage EXCEPT ![r] = to]
        BY <1>9, Zenon DEF Generate
    <2> HIDE DEF to
    <2> QED BY <1>9, <2>1, <2>2, HistoryAnswering DEF Generate, Past
<1>10. ASSUME NEW c \in Checkpoints, FilesDeleted(c) PROVE HistoryInv'
    BY <1>10, HistoryElsewhere DEF FilesDeleted
<1>11. CASE UNCHANGED vars
    BY <1>11, HistoryElsewhere DEF vars
<1> QED
    BY <1>1, <1>3, <1>4, <1>5, <1>6, <1>7, <1>8, <1>9, <1>10, <1>11,
       HistoryProcessEnds, HistoryRestart, HistoryServe DEF Next

(* The store refuses no write.                                             *)
Durable == "lost" \notin Faults

LEMMA HistoryInvariant == ASSUME Durable PROVE Spec => []HistoryInv
<1>1. HistoryInv /\ [Next]_vars => HistoryInv'
    BY HistoryNext DEF Durable
<1> QED BY <1>1, HistoryInit, PTL DEF Spec

(* Every answer a client received is covered by the stored history of its  *)
(* session, as long as that exists: for any requests and numbers, also     *)
(* repeated ones, any timeouts, process ends and failing engines, when the *)
(* store refuses no write.                                                 *)
THEOREM AnswersAreInTheHistory == ASSUME Durable PROVE Spec => []RecordedBeforeSampled
<1>1. HistoryInv => RecordedBeforeSampled
    BY DEF HistoryInv, Typed, Answered, Past, Stored, RecordedBeforeSampled
<1> QED BY <1>1, HistoryInvariant, PTL

(* A step leaves in the store's history of a session what was there.       *)
LEMMA HistoriesOnlyGrow ==
    ASSUME "lost" \notin Faults, HistoryInv, [Next]_vars, NEW s \in Sessions,
           stored[s].here, stored'[s].here
    PROVE  stored[s].history \subseteq stored'[s].history
<1> USE DEF HistoryInv
<1>1. /\ sessions \in [Sessions -> Session] /\ stored \in [Sessions -> Session]
    BY DEF Typed
<1>2. ASSUME NEW t \in Sessions, SaveCreated(t) \/ RecordSaved(t)
      PROVE  stored[s].history \subseteq stored'[s].history
    <2>1. /\ stored' = [stored EXCEPT ![t] = Unindexed(sessions[t])]
          /\ phase # "down"
        BY <1>2 DEF SaveCreated, RecordSaved, Save, AdapterInv, Creation
    <2>2. Unindexed(sessions[t]).history = sessions[t].history
        BY <1>1 DEF Unindexed, Session
    <2>3. CASE t = s
        BY <1>1, <2>1, <2>2, <2>3 DEF History
    <2>4. CASE t # s
        BY <1>1, <2>1, <2>4
    <2> QED BY <2>3, <2>4
<1>3. ASSUME NEW S, stored' = Without(stored, S)
      PROVE  stored[s].history \subseteq stored'[s].history
    BY <1>1, <1>3 DEF Without, NoSession
<1>4. CASE UNCHANGED stored
    BY <1>4
<1>5. Restart => \E S : stored' = Without(stored, S)
    BY Zenon DEF Restart
<1>6. Serve => stored' = Without(stored, invalid)
    BY DEF Serve
<1>7. \/ UNCHANGED stored
      \/ \E t \in Sessions : SaveCreated(t) \/ RecordSaved(t)
      \/ Restart \/ Serve
    BY DEF Next, CreateBegin, CreateStep, ExecutorStep, AddBegin, AddEnd, RemoveBegin, RemoveEnd,
           Gathered, RolledBack, CreateEnds, RunNext, Rebuild, SampleBegin, Timeout, Generated,
           Generate, FilesDeleted, ProcessEnds, vars
<1> QED BY <1>2, <1>3, <1>4, <1>5, <1>6, <1>7

(* A session whose id a client was given is there whenever the server      *)
(* serves, unless a restart dropped it, and no entry of its stored history *)
(* is ever lost: the index, which is not stored, is rebuilt from the       *)
(* history, and a recording starts from the index that memory holds.       *)
THEOREM ReturnedSessionsStay == ASSUME Durable PROVE Spec => SessionsArePermanent
<1>1. HistoryInv =>
          (phase = "serving" =>
               \A s \in Sessions : creating[s] = "returned" => sessions[s].here \/ s \in dropped)
    BY DEF HistoryInv, History
<1>2. HistoryInv /\ [Next]_vars =>
          [\A s \in Sessions :
               stored[s].here /\ stored'[s].here =>
                   stored[s].history \subseteq stored'[s].history]_vars
    BY HistoriesOnlyGrow DEF Durable
<1> QED BY <1>1, <1>2, HistoryInvariant, PTL DEF Spec, SessionsArePermanent
===============================================================================
