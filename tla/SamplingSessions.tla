--------------------------- MODULE SamplingSessions ---------------------------
(***************************************************************************)
(* The sampling controller (sampling_controller.py) over the data-parallel *)
(* engines of one model (sampling_backend.py).  A session binds a client   *)
(* to the base model or to an adapter that every engine must hold; its     *)
(* requests first record their sequence number in the history of the       *)
(* session, one after the other through its executor, and then go to an    *)
(* engine.  Sessions are stored, adapters are not: a restart rebuilds      *)
(* them from the checkpoint files and drops the sessions it cannot serve.  *)
(*                                                                         *)
(* An operator whose name begins with Mutant is a plausible bug in the one *)
(* that follows it; no specification uses it.                              *)
(***************************************************************************)
EXTENDS Naturals, Sequences, FiniteSetsExt

CONSTANTS
    Sessions,       \* sampling session ids; uuids, never reused
    Requests,       \* coroutines of run_sample
    Calls,          \* the sessions and sequence numbers each request may name
    Checkpoints,    \* directories with adapter weights
    Base,           \* the model path of a session on the base model
    Instances,      \* number of engines
    Faults,         \* which faults the environment may inject
    MaxRestarts     \* bound on the number of process ends

Tasks == Requests
INSTANCE SequenceExecutor

(* "lost": the store refuses a write, which save_record swallows;          *)
(* "engine": an engine call raises; "delete": checkpoints are deleted;     *)
(* "config": the configuration changes between processes; "timeout": a     *)
(* request waits 900 seconds for its turn.                                 *)
Fault == {"lost", "engine", "delete", "config", "timeout"}

ASSUME SessionsAssumption == IsFiniteSet(Sessions)
ASSUME CallsAssumption == Calls \in [Requests -> SUBSET (Sessions \X Nat)]
ASSUME PathsAssumption == Base \notin Checkpoints
ASSUME BoundsAssumption == Instances \in Nat \ {0} /\ MaxRestarts \in Nat
ASSUME FaultsAssumption == Faults \subseteq Fault

Engines == 1..Instances
Paths == Checkpoints \cup {Base}
Numbers == {c[2] : c \in UNION {Calls[r] : r \in Requests}}

(* SamplingSessionRecord: the history is stored, the private index from    *)
(* which every new history is made is not.                                 *)
NoSession == [here |-> FALSE, path |-> Base, history |-> {}, index |-> {}]
Unindexed(r) == [r EXCEPT !.index = {}]

VARIABLES
    phase,      \* "serving", "down", "booting"
    restarts,   \* number of process ends so far
    offered,    \* the model: "on", sampling switched "off", "gone" from the config
    files,      \* checkpoints whose files exist
    sessions, stored,   \* session records in memory and in the key-value store
    executor,   \* the executor of each session
    creating,   \* progress of create_sampling_session
    adding,     \* and of its add_adapter on each engine
    holder,     \* the session for which an engine's adapter lock is held, as a set
    adapters,   \* lora_adapters of each engine's backend
    loaded,     \* adapters registered in the engine itself
    stage,      \* progress of run_sample
    target, number,     \* session and sequence number of each request
    rebuilding, \* restored sessions whose adapter is still to be rebuilt
    invalid,    \* restored sessions this process cannot serve
    dropped     \* every session a restart deleted, for the properties only

requestVars == <<stage, target, number>>
engineVars == <<adding, holder, adapters, loaded>>
bootVars == <<phase, restarts, offered, rebuilding, invalid, dropped>>
vars == <<bootVars, engineVars, requestVars, files, sessions, stored, executor, creating>>

Session == [here: BOOLEAN, path: Paths, history: SUBSET Numbers, index: SUBSET Numbers]

Init ==
    /\ phase = "serving" /\ restarts = 0 /\ offered = "on"
    /\ files = Checkpoints
    /\ sessions = [s \in Sessions |-> NoSession]
    /\ stored = [s \in Sessions |-> NoSession]
    /\ executor = [s \in Sessions |-> NewExecutor]
    /\ creating = [s \in Sessions |-> "new"]
    /\ adding = [s \in Sessions |-> [i \in Engines |-> "no"]]
    /\ holder = [i \in Engines |-> {}]
    /\ adapters = [i \in Engines |-> {}]
    /\ loaded = [i \in Engines |-> {}]
    /\ stage = [r \in Requests |-> "new"]
    /\ target \in [Requests -> Sessions]
    /\ number \in [Requests -> Numbers]
    /\ \A r \in Requests : <<target[r], number[r]>> \in Calls[r]
    /\ rebuilding = {} /\ invalid = {} /\ dropped = {}

-----------------------------------------------------------------------------
(* create_sampling_session *)

(* The record exists from its registration on; its path is known before.   *)
Free(i) == holder[i] = {}
Registered(s) == [sessions EXCEPT ![s].here = TRUE]

(* A model that is not served, a checkpoint that is unknown or belongs to  *)
(* somebody else, fails at once; the base model needs no adapter; that of  *)
(* a checkpoint goes to all engines at the same time.                      *)
CreateBegin(s, c) ==
    /\ phase = "serving" /\ creating[s] = "new"
    /\ \/ /\ offered # "on" \/ c # Base
          /\ creating' = [creating EXCEPT ![s] = "failed"]
          /\ UNCHANGED <<sessions, adding>>
       \/ /\ offered = "on" /\ c \in files
          /\ creating' = [creating EXCEPT ![s] = "adding"]
          /\ sessions' = [sessions EXCEPT ![s].path = c]
          /\ adding' = [adding EXCEPT ![s] = [i \in Engines |-> "waiting"]]
       \/ /\ offered = "on" /\ c = Base
          /\ creating' = [creating EXCEPT ![s] = "saving"]
          /\ sessions' = Registered(s)
          /\ UNCHANGED adding
    /\ UNCHANGED <<bootVars, requestVars, files, stored, executor, holder, adapters, loaded>>

(* add_adapter of one engine: the path is checked under the lock, the lock *)
(* is held while the engine loads the files, and the registry is written   *)
(* only after the engine accepted them.                                    *)
AddBegin(s, i) ==
    /\ adding[s][i] = "waiting" /\ Free(i)
    /\ IF sessions[s].path \in files
       THEN /\ adding' = [adding EXCEPT ![s][i] = "loading"]
            /\ holder' = [holder EXCEPT ![i] = {s}]
       ELSE /\ adding' = [adding EXCEPT ![s][i] = "failed"]
            /\ UNCHANGED holder
    /\ UNCHANGED <<bootVars, requestVars, files, sessions, stored, executor, creating,
                   adapters, loaded>>

MutantAddEnd(s, i) ==
    /\ adding[s][i] = "loading"
    /\ \/ /\ sessions[s].path \in files
          /\ adding' = [adding EXCEPT ![s][i] = "added"]
          /\ adapters' = [adapters EXCEPT ![i] = @ \cup {s}]
          /\ loaded' = [loaded EXCEPT ![i] = @ \cup {s}]
          /\ holder' = [holder EXCEPT ![i] = {}]
       \/ /\ "engine" \in Faults \/ sessions[s].path \notin files
          /\ adding' = [adding EXCEPT ![s][i] = "failed"]
          /\ UNCHANGED <<adapters, loaded, holder>>
    /\ UNCHANGED <<bootVars, requestVars, files, sessions, stored, executor, creating>>
AddEnd(s, i) ==
    /\ adding[s][i] = "loading"
    /\ \/ /\ sessions[s].path \in files
          /\ adding' = [adding EXCEPT ![s][i] = "added"]
          /\ adapters' = [adapters EXCEPT ![i] = @ \cup {s}]
          /\ loaded' = [loaded EXCEPT ![i] = @ \cup {s}]
       \/ /\ "engine" \in Faults \/ sessions[s].path \notin files
          /\ adding' = [adding EXCEPT ![s][i] = "failed"]
          /\ UNCHANGED <<adapters, loaded>>
    /\ holder' = [holder EXCEPT ![i] = {}]
    /\ UNCHANGED <<bootVars, requestVars, files, sessions, stored, executor, creating>>

(* gather has all the results: register the session, or roll back the      *)
(* engines that did load the adapter.                                      *)
MutantGathered(s) ==
    /\ creating[s] = "adding"
    /\ \A i \in Engines : adding[s][i] \in {"added", "failed"}
    /\ IF \E i \in Engines : adding[s][i] = "added"
       THEN /\ creating' = [creating EXCEPT ![s] = "saving"]
            /\ sessions' = Registered(s)
       ELSE /\ creating' = [creating EXCEPT ![s] = "rollback"]
            /\ UNCHANGED sessions
    /\ UNCHANGED <<bootVars, engineVars, requestVars, files, stored, executor>>
Gathered(s) ==
    /\ creating[s] = "adding"
    /\ \A i \in Engines : adding[s][i] \in {"added", "failed"}
    /\ IF \A i \in Engines : adding[s][i] = "added"
       THEN /\ creating' = [creating EXCEPT ![s] = "saving"]
            /\ sessions' = Registered(s)
       ELSE /\ creating' = [creating EXCEPT ![s] = "rollback"]
            /\ UNCHANGED sessions
    /\ UNCHANGED <<bootVars, engineVars, requestVars, files, stored, executor>>

(* The roll back visits the engines in order and waits for each.           *)
RemoveBegin(s, i) ==
    /\ creating[s] = "rollback"
    /\ adding[s][i] = "added" /\ Free(i)
    /\ \A j \in 1..(i - 1) : adding[s][j] = "failed"
    /\ adding' = [adding EXCEPT ![s][i] = "removing"]
    /\ holder' = [holder EXCEPT ![i] = {s}]
    /\ adapters' = [adapters EXCEPT ![i] = @ \ {s}]
    /\ UNCHANGED <<bootVars, requestVars, files, sessions, stored, executor, creating, loaded>>

(* A remove_lora that raises leaves the adapter in the engine; the roll    *)
(* back logs it and goes on.                                               *)
RemoveEnd(s, i) ==
    /\ adding[s][i] = "removing"
    /\ adding' = [adding EXCEPT ![s][i] = "failed"]
    /\ holder' = [holder EXCEPT ![i] = {}]
    /\ \/ loaded' = [loaded EXCEPT ![i] = @ \ {s}]
       \/ "engine" \in Faults /\ UNCHANGED loaded
    /\ UNCHANGED <<bootVars, requestVars, files, sessions, stored, executor, creating, adapters>>

RolledBack(s) ==
    /\ creating[s] = "rollback"
    /\ \A i \in Engines : adding[s][i] = "failed"
    /\ creating' = [creating EXCEPT ![s] = "failed"]
    /\ UNCHANGED <<bootVars, engineVars, requestVars, files, sessions, stored, executor>>

(* _save_session in a worker thread, by creation and by every recording.   *)
Save(s) ==
    \/ stored' = [stored EXCEPT ![s] = Unindexed(sessions[s])]
    \/ "lost" \in Faults /\ UNCHANGED stored

SaveCreated(s) ==
    /\ creating[s] = "saving"
    /\ Save(s)
    /\ creating' = [creating EXCEPT ![s] = "saved"]
    /\ UNCHANGED <<bootVars, engineVars, requestVars, files, sessions, executor>>

CreateEnds(s) ==
    /\ creating[s] = "saved"
    /\ creating' = [creating EXCEPT ![s] = "returned"]
    /\ UNCHANGED <<bootVars, engineVars, requestVars, files, sessions, stored, executor>>


-----------------------------------------------------------------------------
(* run_sample *)

(* A request for an unknown session or somebody else's, without a number   *)
(* or for a model that is not served fails and leaves no trace; any other  *)
(* submits its recording, and a push that raises fails it.                 *)
SampleBegin(r) ==
    LET s == target[r]
        x == Submitted(executor[s], r, number[r])
    IN  /\ phase = "serving" /\ stage[r] = "new" /\ creating[s] = "returned"
        /\ \/ /\ sessions[s].here /\ offered = "on"
              /\ executor' = [executor EXCEPT ![s] = x.executor]
              /\ stage' = [stage EXCEPT ![r] = IF x.raised THEN "failed" ELSE "queued"]
           \/ /\ stage' = [stage EXCEPT ![r] = "failed"]
              /\ UNCHANGED executor
        /\ UNCHANGED <<bootVars, engineVars, target, number, files, sessions, stored, creating>>

(* _record_sequence up to its await: the index gains the number and the    *)
(* history is made from the index.                                         *)
Recorded(record, n) ==
    [record EXCEPT !.index = @ \cup {n}, !.history = record.index \cup {n}]

(* The executor wakes the waiter of the task it finished, if it still      *)
(* waits, and starts the next one, up to the await of its save.            *)
RunNext(s) ==
    LET x == Advanced(executor[s])
    IN  /\ phase = "serving" /\ executor[s].loop \in {"started", "saved"}
        /\ executor' = [executor EXCEPT ![s] = x]
        /\ stage' = [r \in Requests |->
               IF r \in executor[s].current /\ stage[r] = "queued" THEN "recorded" ELSE stage[r]]
        /\ IF x.current = {}
           THEN UNCHANGED sessions
           ELSE \E r \in x.current :
                    sessions' = [sessions EXCEPT ![s] = Recorded(@, number[r])]
        /\ UNCHANGED <<bootVars, engineVars, target, number, files, stored, creating>>

MutantRecordSaved(s) ==
    /\ phase = "serving" /\ executor[s].loop = "running"
    /\ executor' = [executor EXCEPT ![s].loop = "saved"]
    /\ UNCHANGED <<bootVars, engineVars, requestVars, files, sessions, stored, creating>>
RecordSaved(s) ==
    /\ phase = "serving" /\ executor[s].loop = "running"
    /\ Save(s)
    /\ executor' = [executor EXCEPT ![s].loop = "saved"]
    /\ UNCHANGED <<bootVars, engineVars, requestVars, files, sessions, creating>>

(* wait_for gives up; the task stays in the heap and will still run.       *)
Timeout(r) ==
    /\ "timeout" \in Faults
    /\ stage[r] = "queued"
    /\ stage' = [stage EXCEPT ![r] = "failed"]
    /\ UNCHANGED <<bootVars, engineVars, target, number, files, sessions, stored, executor, creating>>

(* sample of an engine: the adapter is looked up under the engine's lock,  *)
(* the engine generates outside it.  The round-robin counter is shared     *)
(* with the OpenAI routes, so a request may meet any engine.               *)
Generate(r, i) ==
    /\ stage[r] = "recorded" /\ Free(i)
    /\ stage' = [stage EXCEPT ![r] =
           IF sessions[target[r]].path = Base \/ target[r] \in adapters[i]
           THEN "generating" ELSE "failed"]
    /\ UNCHANGED <<bootVars, engineVars, target, number, files, sessions, stored, executor, creating>>

Generated(r) ==
    /\ stage[r] = "generating"
    /\ \E end \in {"done"} \cup {f \in {"failed"} : "engine" \in Faults} :
           stage' = [stage EXCEPT ![r] = end]
    /\ UNCHANGED <<bootVars, engineVars, target, number, files, sessions, stored, executor, creating>>

(* delete_checkpoint of the training controller.                           *)
FilesDeleted(c) ==
    /\ "delete" \in Faults /\ phase = "serving" /\ c \in files
    /\ files' = files \ {c}
    /\ UNCHANGED <<bootVars, engineVars, requestVars, sessions, stored, executor, creating>>

-----------------------------------------------------------------------------
(* Process end and restart *)

ProcessEnds ==
    /\ phase # "down" /\ restarts < MaxRestarts
    /\ phase' = "down" /\ restarts' = restarts + 1
    /\ sessions' = [s \in Sessions |-> NoSession]
    /\ executor' = [s \in Sessions |-> NewExecutor]
    /\ creating' = [s \in Sessions |->
           IF creating[s] \in {"new", "returned"} THEN creating[s] ELSE "failed"]
    /\ adding' = [s \in Sessions |-> [i \in Engines |-> "no"]]
    /\ holder' = [i \in Engines |-> {}]
    /\ adapters' = [i \in Engines |-> {}]
    /\ loaded' = [i \in Engines |-> {}]
    /\ stage' = [r \in Requests |->
           IF stage[r] \in {"queued", "recorded", "generating"} THEN "lost" ELSE stage[r]]
    /\ rebuilding' = {} /\ invalid' = {}
    /\ UNCHANGED <<offered, files, stored, target, number, dropped>>

Stored == {s \in Sessions : stored[s].here}
Without(records, S) == [s \in Sessions |-> IF s \in S THEN NoSession ELSE records[s]]
MutantReindexed(r) == r
Reindexed(r) == [r EXCEPT !.index = r.history]

(* _restore_from_redis: sessions of a model that is gone are deleted,      *)
(* those of a model that is switched off are kept and left alone; the      *)
(* others need their adapters back (_rebuild_sampling_backends).           *)
Restart ==
    /\ phase = "down"
    /\ phase' = "booting"
    /\ offered' \in IF "config" \in Faults THEN {"on", "off", "gone"} ELSE {"on"}
    /\ LET lost == IF offered' = "gone" THEN Stored ELSE {}
       IN  /\ sessions' = [s \in Sessions |-> Reindexed(Without(stored, lost)[s])]
           /\ stored' = Without(stored, lost)
           /\ dropped' = dropped \cup lost
           /\ rebuilding' = {s \in Stored \ lost : stored[s].path # Base /\ offered' = "on"}
    /\ UNCHANGED <<restarts, invalid, engineVars, requestVars, files, executor, creating>>

(* One turn of the loop of _rebuild_sampling_backends; nothing else runs,  *)
(* so that add_adapter and its roll back are one step.                     *)
Rebuild(s) ==
    /\ phase = "booting" /\ s \in rebuilding
    /\ rebuilding' = rebuilding \ {s}
    /\ \/ /\ sessions[s].path \in files
          /\ adapters' = [i \in Engines |-> adapters[i] \cup {s}]
          /\ loaded' = [i \in Engines |-> loaded[i] \cup {s}]
          /\ UNCHANGED invalid
       \/ /\ sessions[s].path \notin files
          /\ invalid' = invalid \cup {s}
          /\ UNCHANGED <<adapters, loaded>>
       \/ /\ "engine" \in Faults /\ sessions[s].path \in files
          /\ invalid' = invalid \cup {s}
          /\ \E kept \in SUBSET Engines \ {Engines} :
                 loaded' = [i \in Engines |->
                     IF i \in kept THEN loaded[i] \cup {s} ELSE loaded[i]]
          /\ UNCHANGED adapters
    /\ UNCHANGED <<phase, restarts, offered, dropped, adding, holder, requestVars, files,
                   sessions, stored, executor, creating>>

(* The sessions that could not be rebuilt are deleted at the end.          *)
Serve ==
    /\ phase = "booting" /\ rebuilding = {}
    /\ phase' = "serving"
    /\ sessions' = Without(sessions, invalid)
    /\ stored' = Without(stored, invalid)
    /\ dropped' = dropped \cup invalid
    /\ invalid' = {}
    /\ UNCHANGED <<restarts, offered, rebuilding, engineVars, requestVars, files, executor, creating>>

-----------------------------------------------------------------------------
CreateStep(s) ==
    \/ \E i \in Engines : AddBegin(s, i) \/ AddEnd(s, i) \/ RemoveBegin(s, i) \/ RemoveEnd(s, i)
    \/ Gathered(s) \/ RolledBack(s) \/ SaveCreated(s) \/ CreateEnds(s)

ExecutorStep(s) == RunNext(s) \/ RecordSaved(s)

Next ==
    \/ \E s \in Sessions :
        \/ \E c \in Paths : CreateBegin(s, c)
        \/ CreateStep(s) \/ ExecutorStep(s) \/ Rebuild(s)
    \/ \E r \in Requests :
        \/ SampleBegin(r) \/ Timeout(r) \/ Generated(r)
        \/ \E i \in Engines : Generate(r, i)
    \/ \E c \in Checkpoints : FilesDeleted(c)
    \/ ProcessEnds \/ Restart \/ Serve

Spec == Init /\ [][Next]_vars

(* Coroutines that can run do.  An engine's lock is held by creations      *)
(* only, each takes it at most twice, so that weak fairness suffices.      *)
FairSpec ==
    /\ Spec
    /\ \A s \in Sessions : WF_vars(CreateStep(s)) /\ WF_vars(ExecutorStep(s))

-----------------------------------------------------------------------------
(* Properties *)

(* Every session the controller can serve has its adapter on every engine, *)
(* whichever engine its next request meets; a session whose creation or    *)
(* restoration failed has it on none.  This is what add_adapter's roll     *)
(* back and the rebuilding of adapters are for.                            *)
EnginesAgree ==
    phase = "serving" =>
        \A s \in Sessions, i \in Engines :
            /\ sessions[s].here /\ sessions[s].path # Base /\ offered = "on" =>
                   s \in adapters[i] \cap loaded[i]
            /\ ~sessions[s].here /\ creating[s] \in {"new", "returned", "failed"} =>
                   s \notin adapters[i]

(* A request reaches an engine only when its sequence number is in the     *)
(* stored history of its session, which therefore covers every answer a    *)
(* client ever received from a session that still exists.                  *)
RecordedBeforeSampled ==
    \A r \in Requests :
        stage[r] \in {"generating", "done"} /\ target[r] \in Stored =>
            number[r] \in stored[target[r]].history

(* A session whose id a client was given is there whenever the server      *)
(* serves, unless a restart found its checkpoint or its model gone or an   *)
(* engine refusing its adapter (switching sampling off does not lose it),  *)
(* and its stored history never loses an entry: the index that histories   *)
(* are made from is not stored and is rebuilt by a restart.                *)
SessionsArePermanent ==
    /\ [](phase = "serving" =>
              \A s \in Sessions : creating[s] = "returned" => sessions[s].here \/ s \in dropped)
    /\ [][\A s \in Sessions :
              stored[s].here /\ stored'[s].here =>
                  stored[s].history \subseteq stored'[s].history]_vars

(* The executor starts the task with the least number of those waiting,    *)
(* and a recording that waits in it is made, even when its request has     *)
(* timed out, unless the process ends.                                     *)
QueuedTasksRun ==
    /\ [][\A s \in Sessions : \A r \in executor'[s].current \ executor[s].current :
              \A q \in Waiting(executor'[s]) : number[r] <= number[q]]_vars
    /\ \A r \in Requests :
           r \in Waiting(executor[target[r]]) ~>
               (phase # "serving" \/ number[r] \in sessions[target[r]].index)

(* A creation that began ends, through the locks of all the engines.       *)
CreationsEnd ==
    \A s \in Sessions :
        creating[s] = "adding" ~> creating[s] \in {"returned", "failed"}
=============================================================================
