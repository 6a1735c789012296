--------------------------- MODULE ServerLifecycle ---------------------------
(***************************************************************************)
(* From the start of the server to its end (server.py: create_root_app and *)
(* its lifespan; state.py): the backends and the Ray actors they hold.     *)
(*                                                                         *)
(* The constructors make the HF actors and the sampling engines. The       *)
(* lifespan prepares all engines at once, restores the training runs, and  *)
(* at its end shuts every backend down. The actors of an FSDP group are    *)
(* made by the first create_adapter that finds none, under the backend's   *)
(* lock: they meet in a process group, and each builds its worker.         *)
(***************************************************************************)
EXTENDS Naturals

CONSTANTS
    Hosts,      \* models trained by an HF actor
    Groups,     \* models trained by an FSDP group
    Engines,    \* sampling engines: one per model and data-parallel replica
    Ranks,      \* actors of a group
    Requests,   \* calls of create_adapter
    Restored,   \* those of them that the restoration makes
    GroupOf,    \* the group of each request
    None        \* nobody holds a lock

ASSUME RequestsAssumption == Restored \subseteq Requests /\ GroupOf \in [Requests -> Groups]
ASSUME NoneAssumption == None \notin Requests
ASSUME BackendsAssumption ==
    Hosts \cap Engines = {} /\ Hosts \cap Groups = {} /\ Engines \cap Groups = {}

VARIABLES
    phase,      \* of the process
    actor,      \* the named actors of HF models and engines
    engine,     \* async_init of each engine
    recorded,   \* groups with _actors and _world_size set
    member,     \* how far each actor of a group is: of the recorded group or the one in the making
    making,     \* step of the async_init of a group
    lock,       \* request that holds a backend's lock
    request,    \* state of each request
    strays,     \* actors of attempts that failed, until Ray ends them
    closing     \* backends the shutdown has yet to visit

start == <<actor, engine>>
groups == <<recorded, member, making, lock, strays>>
vars == <<phase, actor, engine, recorded, member, making, lock, request, strays, closing>>

Backends == Hosts \cup Groups \cup Engines
NoMembers == [r \in Ranks |-> "none"]
Ended == {"done", "failed"}

Init ==
    /\ phase = "building"
    /\ actor = [a \in Hosts \cup Engines |-> "none"]
    /\ engine = [e \in Engines |-> "idle"]
    /\ recorded = {}
    /\ member = [g \in Groups |-> NoMembers]
    /\ making = [g \in Groups |-> "no"]
    /\ lock = [g \in Groups |-> None]
    /\ request = [r \in Requests |-> "new"]
    /\ strays = {}
    /\ closing = {}

-----------------------------------------------------------------------------
(* ServerState.__init__: the training backends, then the sampling backends.*)
(* HFTrainingModel.get_actor and VLLMSamplingBackend make an actor each, an*)
(* FSDP backend only checks its geometry. A constructor that raises ends   *)
(* create_root_app, and with it the process.                               *)
ConstructHost(h) == actor[h] = "none" /\ actor' = [actor EXCEPT ![h] = "alive"]

ConstructEngine(e) ==
    /\ actor[e] = "none"
    /\ \A h \in Hosts : actor[h] = "alive"
    /\ actor' = [actor EXCEPT ![e] = "alive"]

Construct ==
    /\ phase = "building"
    /\ \/ /\ \/ \E h \in Hosts : ConstructHost(h)
             \/ \E e \in Engines : ConstructEngine(e)
          /\ UNCHANGED phase
       \/ phase' = "refused" /\ UNCHANGED actor
    /\ UNCHANGED <<engine, groups, request, closing>>

(* SamplingController.async_init gathers the async_init of all backends.   *)
StartUp ==
    /\ phase = "building"
    /\ \A a \in Hosts \cup Engines : actor[a] = "alive"
    /\ phase' = "starting"
    /\ engine' = [e \in Engines |-> "preparing"]
    /\ UNCHANGED <<actor, groups, request, closing>>

(* engine.prepare: it raises when the model does not load, and when the    *)
(* actor is killed.                                                        *)
Prepare(e) ==
    /\ engine[e] = "preparing"
    /\ \/ actor[e] = "alive" /\ engine' = [engine EXCEPT ![e] = "polling"]
       \/ engine' = [engine EXCEPT ![e] = "raised"]
    /\ UNCHANGED <<phase, actor, groups, request, closing>>

(* _wait_for_openai_server: an answer, or the deadline and a warning.      *)
StopPolling(e) ==
    /\ engine[e] = "polling"
    /\ engine' = [engine EXCEPT ![e] = "ready"]
    /\ UNCHANGED <<phase, actor, groups, request, closing>>

ShutDown == phase' = "stopping" /\ closing' = Backends

MutantEnginesReady ==
    /\ phase = "starting"
    /\ \A e \in Engines : engine[e] \in {"ready", "raised"}
    /\ phase' = "restoring"

EnginesReady ==
    /\ phase = "starting"
    /\ \A e \in Engines : engine[e] = "ready"
    /\ phase' = "restoring"

(* gather passes on the first exception; the other engines go on preparing.*)
EngineRaised ==
    /\ phase = "starting"
    /\ \E e \in Engines : engine[e] = "raised"
    /\ ShutDown

(* _restore_from_checkpoints restores the runs one by one.                 *)
Restore(r) ==
    /\ phase = "restoring"
    /\ r \in Restored /\ request[r] = "new"
    /\ \A s \in Restored : request[s] # "waiting" /\ request[s] # "holding"
    /\ request' = [request EXCEPT ![r] = "waiting"]

RestoreEnds ==
    /\ phase = "restoring"
    /\ \A r \in Restored : request[r] \in Ended
    /\ phase' = "serving"

(* A client's create_model.                                                *)
Arrive(r) ==
    /\ phase = "serving"
    /\ r \notin Restored /\ request[r] = "new"
    /\ request' = [request EXCEPT ![r] = "waiting"]

(* uvicorn ends the lifespan once the handlers have returned (external).   *)
Stop ==
    /\ phase = "serving"
    /\ \A r \in Requests : request[r] # "waiting" /\ request[r] # "holding"
    /\ ShutDown

Lifespan ==
    \/ EnginesReady /\ UNCHANGED <<start, groups, request, closing>>
    \/ EngineRaised /\ UNCHANGED <<start, groups, request>>
    \/ \E r \in Requests : (Restore(r) \/ Arrive(r)) /\ UNCHANGED <<phase, start, groups, closing>>
    \/ RestoreEnds /\ UNCHANGED <<start, groups, request, closing>>
    \/ Stop /\ UNCHANGED <<start, groups, request>>

-----------------------------------------------------------------------------
(* FSDPTrainingBackend.create_adapter and async_init.                      *)

Holds(r) == request[r] = "holding" /\ lock[GroupOf[r]] = r

MutantMakeActors(g) ==
    /\ member' = [member EXCEPT ![g] = [k \in Ranks |-> "made"]]
    /\ making' = [making EXCEPT ![g] = "address"]
    /\ recorded' = recorded \cup {g}

MakeActors(g) ==
    /\ member' = [member EXCEPT ![g] = [k \in Ranks |-> "made"]]
    /\ making' = [making EXCEPT ![g] = "address"]
    /\ UNCHANGED recorded

Acquire(r) ==
    LET g == GroupOf[r]
    IN  /\ request[r] = "waiting"
        /\ lock[g] = None
        /\ lock' = [lock EXCEPT ![g] = r]
        /\ request' = [request EXCEPT ![r] = "holding"]
        /\ IF g \in recorded THEN UNCHANGED <<recorded, member, making>> ELSE MakeActors(g)
        /\ UNCHANGED <<phase, start, strays, closing>>

Makes(r, step) == Holds(r) /\ making[GroupOf[r]] = step

(* The address of the first actor, which is asked for within a deadline.   *)
LearnAddress(r) ==
    /\ Makes(r, "address")
    /\ making' = [making EXCEPT ![GroupOf[r]] = "meeting"]
    /\ UNCHANGED <<phase, start, recorded, member, lock, request, strays, closing>>

(* The ranks for which an actor of an earlier attempt may still be in      *)
(* init_dist: every attempt of a group meets at the same address and port. *)
Guests(g) == {s[2] : s \in {t \in strays : GroupOf[t[1]] = g}}

(* init_dist returns in an actor once one of each rank has joined. If it   *)
(* is a guest whose rank this is, the group's own may be left out of it    *)
(* and wait on, until the attempt is given up.                             *)
Meet(r) ==
    LET g == GroupOf[r]
    IN  /\ Makes(r, "meeting")
        /\ \E out \in SUBSET Guests(g) :
               /\ member' = [member EXCEPT ![g] = [k \in Ranks |-> IF k \in out THEN "made" ELSE "joined"]]
               /\ making' = [making EXCEPT ![g] = IF out = {} THEN "building" ELSE "waiting"]
        /\ UNCHANGED <<phase, start, recorded, lock, request, strays, closing>>

BuildWorker(r, k) ==
    LET g == GroupOf[r]
    IN  /\ Makes(r, "building")
        /\ member[g][k] = "joined"
        /\ member' = [member EXCEPT ![g][k] = "built"]
        /\ UNCHANGED <<phase, start, recorded, making, lock, request, strays, closing>>

Record(r) ==
    LET g == GroupOf[r]
    IN  /\ Makes(r, "building")
        /\ \A k \in Ranks : member[g][k] = "built"
        /\ recorded' = recorded \cup {g}
        /\ making' = [making EXCEPT ![g] = "no"]
        /\ UNCHANGED <<phase, start, member, lock, request, strays, closing>>

MutantRelease(r) == UNCHANGED lock
Release(r) == lock' = [lock EXCEPT ![GroupOf[r]] = None]

(* A deadline or an actor's exception: the local list of actors is dropped.*)
InitRaises(r) ==
    LET g == GroupOf[r]
    IN  /\ Holds(r) /\ making[g] # "no"
        /\ member' = [member EXCEPT ![g] = NoMembers]
        /\ strays' = strays \cup {<<r, k>> : k \in Ranks}
        /\ making' = [making EXCEPT ![g] = "no"]
        /\ Release(r)
        /\ request' = [request EXCEPT ![r] = "failed"]
        /\ UNCHANGED <<phase, start, recorded, closing>>

(* The slot is lent by the actors, or there is none (see FSDPSlots).       *)
Lend(r) ==
    /\ Makes(r, "no")
    /\ Release(r)
    /\ \E end \in Ended : request' = [request EXCEPT ![r] = end]
    /\ UNCHANGED <<phase, start, recorded, member, making, strays, closing>>

(* A step of async_init, the end of it included.                           *)
Attempt(r) ==
    \/ LearnAddress(r) \/ Meet(r) \/ Record(r) \/ InitRaises(r)
    \/ \E k \in Ranks : BuildWorker(r, k)

Create == \E r \in Requests : Acquire(r) \/ Attempt(r) \/ Lend(r)

(* Ray ends an actor to which no handle is left (external).                *)
Collect(s) ==
    /\ strays' = strays \ {s}
    /\ UNCHANGED <<phase, start, recorded, member, making, lock, request, closing>>

-----------------------------------------------------------------------------
(* ServerState.shutdown: the training backends, then the sampling backends;*)
(* what one of them raises is logged.                                      *)

MutantCloseGroup(g) ==
    recorded' = recorded \ {g} /\ UNCHANGED member

CloseGroup(g) ==
    /\ recorded' = recorded \ {g}
    /\ member' = IF g \in recorded THEN [member EXCEPT ![g] = NoMembers] ELSE member

(* The engine's own shutdown may raise: its actor is killed all the same.  *)
CloseEngine(e) == actor' = [actor EXCEPT ![e] = "dead"]
CloseHost(h) == actor' = [actor EXCEPT ![h] = "dead"]

Close(b) ==
    /\ phase = "stopping"
    /\ b \in closing
    /\ b \in Engines => closing \subseteq Engines
    /\ closing' = closing \ {b}
    /\ \/ b \in Groups /\ CloseGroup(b) /\ UNCHANGED actor
       \/ b \in Engines /\ CloseEngine(b) /\ UNCHANGED <<recorded, member>>
       \/ b \in Hosts /\ CloseHost(b) /\ UNCHANGED <<recorded, member>>
    /\ UNCHANGED <<phase, engine, making, lock, request, strays>>

Stopped ==
    /\ phase = "stopping"
    /\ closing = {}
    /\ phase' = "stopped"
    /\ UNCHANGED <<start, groups, request, closing>>

(* The end of the process, which may also be killed at any time, is the end*)
(* of its actors (external) and of what waits for them.                    *)
Exit ==
    /\ phase # "exited"
    /\ phase' = "exited"
    /\ actor' = [a \in DOMAIN actor |-> "dead"]
    /\ engine' = [e \in Engines |-> "raised"]
    /\ member' = [g \in Groups |-> NoMembers]
    /\ making' = [g \in Groups |-> "no"]
    /\ lock' = [g \in Groups |-> None]
    /\ recorded' = {} /\ strays' = {}
    /\ request' = [r \in Requests |-> IF request[r] \in Ended THEN request[r] ELSE "cut"]
    /\ closing' = {}

Finished == phase = "exited" /\ UNCHANGED vars

Next ==
    \/ Construct \/ StartUp \/ Lifespan \/ Create
    \/ \E e \in Engines : Prepare(e) \/ StopPolling(e)
    \/ \E s \in strays : Collect(s)
    \/ \E b \in Backends : Close(b)
    \/ Stopped \/ Exit \/ Finished

(* What has begun goes on: an engine's load ends, and so does an attempt to*)
(* form a group, if only by a timeout. Clients may stay away.              *)
Fairness ==
    /\ \A e \in Engines : WF_vars(Prepare(e)) /\ WF_vars(StopPolling(e))
    /\ WF_vars(EnginesReady /\ UNCHANGED <<start, groups, request, closing>>)
    /\ WF_vars(EngineRaised /\ UNCHANGED <<start, groups, request>>)
    /\ WF_vars(RestoreEnds /\ UNCHANGED <<start, groups, request, closing>>)
    /\ \A r \in Restored : WF_vars(Restore(r) /\ UNCHANGED <<phase, start, groups, closing>>)
    /\ \A r \in Requests :
           SF_vars(Acquire(r)) /\ WF_vars(Attempt(r)) /\ WF_vars(Lend(r))
    /\ \A b \in Backends : WF_vars(Close(b))
    /\ WF_vars(Stopped)

Spec == Init /\ [][Next]_vars /\ Fairness

-----------------------------------------------------------------------------
(* Properties.                                                             *)

(* No training run is restored and no client is served before every engine *)
(* is prepared: one that could not be takes the whole start with it.       *)
ServedByAllEngines ==
    phase \in {"restoring", "serving"} =>
        \A e \in Engines : engine[e] = "ready" /\ actor[e] = "alive"

(* A group that create_adapter finds initialised is whole: each of its own *)
(* actors has come through the meeting and holds a worker, whoever of an   *)
(* earlier attempt took part in it. Actors that are not so far are those   *)
(* of one attempt, whose caller holds the backend's lock.                  *)
GroupsAreWhole ==
    \A g \in Groups :
        \/ g \in recorded /\ \A k \in Ranks : member[g][k] = "built"
        \/ g \notin recorded /\ member[g] = NoMembers
        \/ g \notin recorded /\ \E r \in Requests : Holds(r) /\ GroupOf[r] = g

(* After the lifespan, also one that ended in a failed start, no backend   *)
(* has a living actor: only those that a failed attempt dropped may be.    *)
NothingLeft ==
    phase = "stopped" =>
        /\ \A a \in Hosts \cup Engines : actor[a] = "dead"
        /\ \A g \in Groups : member[g] = NoMembers

(* A start ends, in service or in a shutdown, and every call that creates  *)
(* an adapter is answered: a failed attempt to start a group keeps neither *)
(* its caller nor those that wait for the backend's lock.                  *)
StartsAndCallsEnd ==
    /\ phase = "starting" ~> phase \in {"serving", "stopped", "exited"}
    /\ \A r \in Requests : request[r] = "waiting" ~> request[r] \in Ended \/ phase = "exited"

=============================================================================
