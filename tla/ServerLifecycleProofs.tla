------------------------- MODULE ServerLifecycleProofs -------------------------
(***************************************************************************)
(* Safety of the start and the end of a server, for any models, engines,   *)
(* sizes of groups and requests, whatever fails and whenever it is killed; *)
(* and what the configuration it starts with has to do with the runs it    *)
(* serves: for every configuration, whatever the base model and the names  *)
(* of its modules, what the checks of LoraGeometry let pass fits together. *)
(* Then, that calls of the OpenAI-compatible endpoints reach engines that  *)
(* know the adapter they name.                                             *)
(***************************************************************************)
EXTENDS ServerLifecycle, LoraGeometry, TLAPS

Phases == {"building", "refused", "starting", "restoring", "serving", "stopping", "stopped", "exited"}
Steps == {"no", "address", "meeting", "waiting", "building"}

Types ==
    /\ phase \in Phases
    /\ DOMAIN actor = Hosts \cup Engines /\ DOMAIN engine = Engines
    /\ DOMAIN member = Groups /\ \A g \in Groups : DOMAIN member[g] = Ranks
    /\ making \in [Groups -> Steps]
    /\ lock \in [Groups -> Requests \cup {None}]
    /\ DOMAIN request = Requests
    /\ recorded \subseteq Groups /\ closing \subseteq Backends

Busy(r) == request[r] \in {"waiting", "holding"}

(* Nobody calls but in a server that is ready.                             *)
CallInv == \A r \in Requests : Busy(r) => phase \in {"restoring", "serving"}

EngineInv ==
    /\ phase \in {"starting", "restoring", "serving"} =>
           \A a \in Hosts \cup Engines : actor[a] = "alive"
    /\ phase \in {"restoring", "serving"} => \A e \in Engines : engine[e] = "ready"

(* A lock is held by a request that is answered before it lets go. Only    *)
(* while it is held a group may be half made, and then it is not recorded. *)
GroupInv == \A g \in Groups :
    /\ lock[g] # None => request[lock[g]] = "holding" /\ GroupOf[lock[g]] = g
    /\ making[g] # "no" => lock[g] # None /\ g \notin recorded
    /\ making[g] = "no" /\ g \in recorded => \A k \in Ranks : member[g][k] = "built"
    /\ making[g] = "no" /\ g \notin recorded => member[g] = NoMembers

(* What the shutdown has visited is gone.                                  *)
CloseInv ==
    /\ phase \in {"stopping", "stopped"} =>
           /\ \A a \in Hosts \cup Engines : actor[a] = "dead" \/ a \in closing
           /\ \A g \in Groups : member[g] = NoMembers \/ g \in closing
    /\ phase = "stopped" => closing = {}

IInv == Types /\ CallInv /\ EngineInv /\ GroupInv /\ CloseInv

-----------------------------------------------------------------------------
(* Construction and start.                                                 *)

LEMMA InitOK == Init => IInv
BY NoneAssumption DEF Init, IInv, Types, Phases, Steps, CallInv, Busy, EngineInv, GroupInv, CloseInv,
    NoMembers

LEMMA ConstructOK ==
    ASSUME IInv, Construct
    PROVE  IInv'
<1>1. /\ phase = "building" /\ phase' \in {"building", "refused"}
      /\ UNCHANGED <<engine, groups, request, closing>>
      /\ DOMAIN actor' = Hosts \cup Engines
    BY DEF Construct, ConstructHost, ConstructEngine, IInv, Types
<1>2. Types' /\ CallInv' /\ GroupInv'
    BY <1>1 DEF IInv, Types, Phases, CallInv, Busy, GroupInv, groups
<1>3. EngineInv' /\ CloseInv'
    BY <1>1 DEF EngineInv, CloseInv
<1> QED BY <1>2, <1>3 DEF IInv

LEMMA StartUpOK ==
    ASSUME IInv, StartUp
    PROVE  IInv'
<1>1. /\ phase' = "starting" /\ phase = "building" /\ UNCHANGED <<actor, groups, request, closing>>
      /\ DOMAIN engine' = Engines /\ \A a \in Hosts \cup Engines : actor[a] = "alive"
    BY DEF StartUp
<1> QED BY <1>1 DEF IInv, Types, Phases, CallInv, Busy, EngineInv, GroupInv, CloseInv, groups

LEMMA EnginesOK ==
    ASSUME IInv, NEW e \in Engines, Prepare(e) \/ StopPolling(e)
    PROVE  IInv'
<1>1. /\ engine[e] # "ready" /\ DOMAIN engine' = Engines
      /\ UNCHANGED <<phase, actor, groups, request, closing>>
    BY DEF Prepare, StopPolling, IInv, Types
<1> QED BY <1>1 DEF IInv, Types, CallInv, Busy, EngineInv, GroupInv, CloseInv, groups

LEMMA LifespanOK ==
    ASSUME IInv, Lifespan
    PROVE  IInv'
<1>1. CASE EnginesReady /\ UNCHANGED <<start, groups, request, closing>>
    BY <1>1 DEF EnginesReady, IInv, Types, Phases, CallInv, Busy, EngineInv, GroupInv, CloseInv, groups, start
<1>2. CASE EngineRaised /\ UNCHANGED <<start, groups, request>>
    <2>1. \A r \in Requests : ~Busy(r)
        BY <1>2 DEF EngineRaised, IInv, CallInv
    <2> QED BY <1>2, <2>1 DEF EngineRaised, ShutDown, Backends, IInv, Types, Phases, CallInv, Busy,
            EngineInv, GroupInv, CloseInv, groups, start
<1>3. CASE \E r \in Requests : (Restore(r) \/ Arrive(r)) /\ UNCHANGED <<phase, start, groups, closing>>
    <2>1. PICK r \in Requests : /\ request[r] = "new" /\ phase \in {"restoring", "serving"}
                                /\ request' = [request EXCEPT ![r] = "waiting"]
                                /\ UNCHANGED <<phase, start, groups, closing>>
        BY <1>3 DEF Restore, Arrive
    <2> QED BY <2>1 DEF IInv, Types, CallInv, Busy, EngineInv, GroupInv, CloseInv, groups, start
<1>4. CASE RestoreEnds /\ UNCHANGED <<start, groups, request, closing>>
    BY <1>4 DEF RestoreEnds, IInv, Types, Phases, CallInv, Busy, EngineInv, GroupInv, CloseInv, groups, start
<1>5. CASE Stop /\ UNCHANGED <<start, groups, request>>
    <2>1. \A r \in Requests : ~Busy(r)
        BY <1>5 DEF Stop, Busy
    <2> QED BY <1>5, <2>1 DEF Stop, ShutDown, Backends, IInv, Types, Phases, CallInv, Busy,
            EngineInv, GroupInv, CloseInv, groups, start
<1> QED BY <1>1, <1>2, <1>3, <1>4, <1>5 DEF Lifespan

-----------------------------------------------------------------------------
(* The formation of groups.                                                *)

(* A step of a request that waits for or holds a backend's lock is taken   *)
(* in a server that serves or restores, so that nothing is closed then.    *)
LEMMA InService ==
    ASSUME IInv, NEW r \in Requests, Busy(r),
           UNCHANGED <<phase, start, closing>>
    PROVE  /\ phase \in {"restoring", "serving"}
           /\ phase' \in Phases /\ EngineInv' /\ CloseInv'
BY DEF IInv, Types, CallInv, EngineInv, CloseInv, start

LEMMA AcquireOK ==
    ASSUME IInv, NEW r \in Requests, Acquire(r)
    PROVE  IInv'
<1> DEFINE g == GroupOf[r]
<1>1. /\ g \in Groups /\ request[r] = "waiting" /\ lock[g] = None /\ making[g] = "no"
      /\ lock' = [lock EXCEPT ![g] = r] /\ request' = [request EXCEPT ![r] = "holding"]
      /\ UNCHANGED <<phase, start, strays, closing>>
    BY RequestsAssumption DEF Acquire, IInv, Types, GroupInv, Steps
<1>2. Busy(r)
    BY <1>1 DEF Busy
<1>3. UNCHANGED recorded
    BY DEF Acquire, MakeActors
<1>4. \/ g \in recorded /\ UNCHANGED <<member, making>>
      \/ /\ g \notin recorded /\ making' = [making EXCEPT ![g] = "address"]
         /\ member' = [member EXCEPT ![g] = [k \in Ranks |-> "made"]]
    BY DEF Acquire, MakeActors
<1>5. Types'
    BY <1>1, <1>2, <1>3, <1>4, InService DEF IInv, Types, Steps, start
<1>6. CallInv'
    BY <1>1, <1>2, InService DEF IInv, Types, CallInv, Busy
<1>7. \A h \in Groups : lock'[h] # None => request'[lock'[h]] = "holding" /\ GroupOf[lock'[h]] = h
    BY <1>1, NoneAssumption DEF IInv, Types, GroupInv
<1>8. GroupInv'
    <2>1. ASSUME NEW h \in Groups, h # g
          PROVE  UNCHANGED <<lock[h], making[h], member[h]>>
        BY <1>1, <1>4, <2>1 DEF IInv, Types
    <2>2. lock'[g] # None
        BY <1>1, NoneAssumption DEF IInv, Types
    <2>3. /\ making'[g] # "no" => g \notin recorded
          /\ making'[g] = "no" => g \in recorded /\ member'[g] = member[g]
        BY <1>1, <1>4 DEF IInv, Types
    <2> QED BY <1>1, <1>3, <1>7, <2>1, <2>2, <2>3 DEF IInv, GroupInv
<1> QED BY <1>1, <1>2, <1>5, <1>6, <1>8, InService DEF IInv

(* A step of the request that holds the lock of its group, which keeps it. *)
LEMMA MakingOK ==
    ASSUME IInv, NEW r \in Requests, Holds(r), UNCHANGED <<phase, start, lock, request, strays, closing>>,
           \A h \in Groups \ {GroupOf[r]} : UNCHANGED <<member[h], making[h], h \in recorded>>,
           making' \in [Groups -> Steps], recorded' \subseteq Groups,
           DOMAIN member' = Groups, DOMAIN member'[GroupOf[r]] = Ranks,
           \/ making'[GroupOf[r]] # "no" /\ GroupOf[r] \notin recorded'
           \/ /\ making'[GroupOf[r]] = "no" /\ GroupOf[r] \in recorded'
              /\ \A k \in Ranks : member'[GroupOf[r]][k] = "built"
    PROVE  IInv'
<1> DEFINE g == GroupOf[r]
<1>1. g \in Groups /\ Busy(r) /\ lock[g] # None
    BY RequestsAssumption, NoneAssumption DEF Holds, Busy
<1>2. \A h \in Groups \ {g} : DOMAIN member'[h] = Ranks
    BY <1>1 DEF IInv, Types
<1>3. Types'
    BY <1>1, <1>2, InService DEF IInv, Types, start
<1>4. CallInv'
    BY <1>1, InService DEF IInv, CallInv, Busy
<1>5. GroupInv'
    BY <1>1 DEF IInv, GroupInv
<1> QED BY <1>1, <1>3, <1>4, <1>5, InService DEF IInv

LEMMA StepsOK ==
    ASSUME IInv, NEW r \in Requests,
           LearnAddress(r) \/ Meet(r) \/ Record(r) \/ \E k \in Ranks : BuildWorker(r, k)
    PROVE  IInv'
<1> DEFINE g == GroupOf[r]
<1>1. g \in Groups /\ Holds(r) /\ UNCHANGED <<phase, start, lock, request, strays, closing>>
    BY RequestsAssumption DEF LearnAddress, Meet, Record, BuildWorker, Makes
<1>2. making[g] # "no" /\ g \notin recorded
    BY <1>1 DEF LearnAddress, Meet, Record, BuildWorker, Makes, IInv, GroupInv
<1>3. CASE LearnAddress(r)
    <2>1. making' = [making EXCEPT ![g] = "meeting"] /\ UNCHANGED <<recorded, member>>
        BY <1>3 DEF LearnAddress
    <2> QED BY <1>1, <1>2, <2>1, MakingOK DEF IInv, Types, Steps
<1>4. CASE Meet(r)
    <2>1. PICK out \in SUBSET Guests(g) :
              /\ making' = [making EXCEPT ![g] = IF out = {} THEN "building" ELSE "waiting"]
              /\ member' = [member EXCEPT ![g] = [k \in Ranks |-> IF k \in out THEN "made" ELSE "joined"]]
              /\ UNCHANGED recorded
        BY <1>4 DEF Meet
    <2> QED BY <1>1, <1>2, <2>1, MakingOK DEF IInv, Types, Steps
<1>5. CASE Record(r)
    <2>1. /\ making' = [making EXCEPT ![g] = "no"] /\ recorded' = recorded \cup {g}
          /\ UNCHANGED member /\ \A k \in Ranks : member[g][k] = "built"
        BY <1>5 DEF Record
    <2>2. /\ making' \in [Groups -> Steps] /\ making'[g] = "no"
          /\ recorded' \subseteq Groups /\ g \in recorded'
          /\ DOMAIN member' = Groups /\ DOMAIN member'[g] = Ranks
        BY <1>1, <2>1 DEF IInv, Types, Steps
    <2>3. \A h \in Groups \ {g} : UNCHANGED <<member[h], making[h], h \in recorded>>
        BY <1>1, <2>1 DEF IInv, Types
    <2> QED BY <1>1, <2>1, <2>2, <2>3, MakingOK
<1>6. ASSUME NEW k \in Ranks, BuildWorker(r, k) PROVE IInv'
    <2>1. member' = [member EXCEPT ![g][k] = "built"] /\ UNCHANGED <<recorded, making>>
        BY <1>6 DEF BuildWorker
    <2> QED BY <1>1, <1>2, <2>1, MakingOK DEF IInv, Types, Steps
<1> QED BY <1>3, <1>4, <1>5, <1>6

(* The request is answered and lets go of the lock.                        *)
LEMMA ReleaseOK ==
    ASSUME IInv, NEW r \in Requests, Holds(r), Release(r), UNCHANGED <<phase, start, recorded, closing>>,
           NEW end \in Ended, request' = [request EXCEPT ![r] = end],
           \/ making[GroupOf[r]] = "no" /\ UNCHANGED <<member, making>>
           \/ /\ making[GroupOf[r]] # "no" /\ making' = [making EXCEPT ![GroupOf[r]] = "no"]
              /\ member' = [member EXCEPT ![GroupOf[r]] = NoMembers]
    PROVE  IInv'
<1> DEFINE g == GroupOf[r]
<1>1. g \in Groups /\ Busy(r) /\ lock[g] = r /\ lock' = [lock EXCEPT ![g] = None]
    BY RequestsAssumption DEF Holds, Busy, Release
<1>2. Types'
    BY <1>1, InService DEF IInv, Types, Steps, NoMembers, start
<1>3. \A q \in Requests : Busy(q)' => Busy(q)
    BY DEF Ended, Busy, IInv, Types
<1>4. CallInv'
    BY <1>1, <1>3, InService DEF IInv, CallInv
<1>5. ASSUME NEW h \in Groups, h # g
      PROVE  /\ UNCHANGED <<lock[h], making[h], member[h]>>
             /\ lock[h] # None => lock[h] # r /\ request'[lock[h]] = request[lock[h]]
    BY <1>1, <1>5 DEF IInv, Types, GroupInv
<1>6. /\ lock'[g] = None /\ making'[g] = "no"
      /\ g \in recorded => \A k \in Ranks : member'[g][k] = "built"
      /\ g \notin recorded => member'[g] = NoMembers
    BY <1>1 DEF IInv, Types, GroupInv
<1>7. GroupInv'
    BY <1>1, <1>5, <1>6 DEF IInv, GroupInv
<1> QED BY <1>1, <1>2, <1>4, <1>7, InService DEF IInv

LEMMA CreateOK ==
    ASSUME IInv, Create
    PROVE  IInv'
<1>1. ASSUME NEW r \in Requests, InitRaises(r) PROVE IInv'
    BY <1>1, ReleaseOK DEF InitRaises, Ended
<1>2. ASSUME NEW r \in Requests, Lend(r) PROVE IInv'
    BY <1>2, ReleaseOK DEF Lend, Makes
<1> QED BY <1>1, <1>2, AcquireOK, StepsOK DEF Create, Attempt

-----------------------------------------------------------------------------
(* The end.                                                                *)

LEMMA CloseOK ==
    ASSUME IInv, NEW b \in Backends, Close(b)
    PROVE  IInv'
<1>1. /\ phase = "stopping" /\ phase' = "stopping" /\ closing' = closing \ {b}
      /\ UNCHANGED <<engine, making, lock, request, strays>>
    BY DEF Close
<1>2. \A r \in Requests : ~Busy(r)
    BY <1>1 DEF IInv, CallInv
<1>3. \A g \in Groups : lock[g] = None /\ making[g] = "no"
    BY <1>2 DEF IInv, Types, GroupInv, Busy
<1>4. CASE b \in Groups /\ CloseGroup(b) /\ UNCHANGED actor
    <2>1. /\ recorded' = recorded \ {b} /\ member'[b] = NoMembers /\ DOMAIN member' = Groups
          /\ \A g \in Groups \ {b} : member'[g] = member[g]
        BY <1>3, <1>4 DEF CloseGroup, IInv, Types, GroupInv
    <2>2. Types'
        BY <1>1, <1>4, <2>1 DEF IInv, Types, NoMembers
    <2>3. GroupInv'
        BY <1>1, <1>3, <2>1 DEF IInv, GroupInv
    <2>4. CloseInv'
        BY <1>1, <1>4, <2>1, BackendsAssumption DEF IInv, CloseInv
    <2> QED BY <1>1, <1>2, <2>2, <2>3, <2>4 DEF IInv, CallInv, Busy, EngineInv
<1>5. CASE b \in Hosts \cup Engines /\ actor' = [actor EXCEPT ![b] = "dead"] /\ UNCHANGED <<recorded, member>>
    <2>1. CloseInv'
        BY <1>1, <1>5, BackendsAssumption DEF IInv, Types, CloseInv
    <2> QED BY <1>1, <1>2, <1>5, <2>1 DEF IInv, Types, CallInv, Busy, EngineInv, GroupInv
<1> QED BY <1>4, <1>5 DEF Close, CloseEngine, CloseHost

LEMMA StoppedOK ==
    ASSUME IInv, Stopped
    PROVE  IInv'
BY DEF Stopped, IInv, Types, Phases, CallInv, Busy, EngineInv, GroupInv, CloseInv, start, groups

LEMMA ExitOK ==
    ASSUME IInv, Exit
    PROVE  IInv'
<1>1. \A r \in Requests : ~Busy(r)'
    BY DEF Exit, Ended, Busy
<1>2. Types'
    BY DEF Exit, IInv, Types, Phases, Steps, NoMembers
<1> QED BY <1>1, <1>2 DEF Exit, IInv, CallInv, EngineInv, GroupInv, CloseInv

LEMMA NextOK ==
    ASSUME IInv, [Next]_vars
    PROVE  IInv'
<1>1. ASSUME NEW s \in strays, Collect(s) PROVE IInv'
    BY <1>1 DEF Collect, IInv, Types, CallInv, Busy, EngineInv, GroupInv, CloseInv, start
<1>2. CASE UNCHANGED vars
    BY <1>2 DEF vars, IInv, Types, CallInv, Busy, EngineInv, GroupInv, CloseInv
<1> QED BY <1>1, <1>2, ConstructOK, StartUpOK, EnginesOK, LifespanOK, CreateOK, CloseOK, StoppedOK, ExitOK
       DEF Next, Finished

LEMMA Invariant == Spec => []IInv
BY InitOK, NextOK, PTL DEF Spec

-----------------------------------------------------------------------------
(* Runs are restored and clients served only while every engine is ready   *)
(* and alive, for any number of engines whose preparations raise or end in *)
(* any order.                                                              *)
THEOREM EnginesServeTogether == Spec => []ServedByAllEngines
<1>1. IInv => ServedByAllEngines
    BY DEF IInv, EngineInv, ServedByAllEngines
<1> QED BY <1>1, Invariant, PTL

(* A recorded group has all its own actors, each of which came through the *)
(* meeting and built its worker; others are of one attempt, whose caller   *)
(* holds the lock. It holds for any number of attempts and actors, also    *)
(* when those of attempts that failed take part in later meetings.         *)
THEOREM RecordedGroupsAreWhole == Spec => []GroupsAreWhole
<1>1. IInv => GroupsAreWhole
    <2>1. ASSUME IInv, NEW g \in Groups, making[g] # "no"
          PROVE  g \notin recorded /\ \E r \in Requests : Holds(r) /\ GroupOf[r] = g
        BY <2>1 DEF IInv, Types, GroupInv, Holds
    <2> QED BY <2>1 DEF IInv, GroupInv, GroupsAreWhole
<1> QED BY <1>1, Invariant, PTL

(* A shutdown leaves no actor of a backend, also after a start that failed *)
(* while the other engines were still preparing.                           *)
THEOREM ShutdownLeavesNothing == Spec => []NothingLeft
<1>1. IInv => NothingLeft
    BY DEF IInv, CloseInv, NothingLeft
<1> QED BY <1>1, Invariant, PTL

-----------------------------------------------------------------------------
(* Configurations and runs.                                                *)

(* A geometry that a server can be started with exists, and unless the     *)
(* Q/V override is on it is explicit or some flags resolve to it.          *)
LEMMA StartedGeometry ==
    ASSUME NEW c, Starts(c), ~c.qv, Resolve(c, c.train) # Unset, c.train \in Flags
    PROVE  \E f \in Flags : Resolve(c, f) # Unset /\ Resolve(c, f) = SlotGeometry(c)
<1>1. SlotGeometry(c) # Unset /\ Requestable(c)
    BY DEF Starts
<1>2. Series(c.model) # Unset
    BY DEF Resolve
<1>3. CASE c.modules = Unset /\ c.parameters = Unset
    <2> DEFINE r == Resolve(c, c.train)
    <2>1. r = [modules |-> r.modules, parameters |-> r.parameters]
        BY <1>2 DEF Resolve, Assemble
    <2>2. [r EXCEPT !.parameters = r.parameters] = r
        BY <2>1
    <2>3. SlotGeometry(c) = r
        BY <1>1, <1>3, <2>2 DEF SlotGeometry
    <2> QED BY <2>3
<1>4. CASE ~(c.modules = Unset /\ c.parameters = Unset)
    <2>1. SlotGeometry(c) \in Achievable(c)
        BY <1>1, <1>2, <1>4 DEF Requestable
    <2> QED BY <1>1, <2>1 DEF Achievable
<1> QED BY <1>3, <1>4

(* The slots of the largest rank exist, in the default pool as well as in a*)
(* configured one, and no slot is larger (config.py, _get_rank_slots_from_ *)
(* config).                                                                *)
THEOREM MaxRankIsServed ==
    ASSUME NEW c, ValidModel(c), c.backend = "fsdp", c.maxRank \in Nat
    PROVE  /\ c.maxRank \in DOMAIN RankSlots(c)
           /\ \A r \in DOMAIN RankSlots(c) : r <= c.maxRank /\ RankSlots(c)[r] >= 1
<1>1. c.slots # Unset =>
          /\ c.maxRank \in DOMAIN c.slots
          /\ \A r \in DOMAIN c.slots : r <= c.maxRank /\ c.slots[r] >= 1
    BY DEF ValidModel, ValidRanks
<1>2. CASE c.slots # Unset
    BY <1>1, <1>2 DEF RankSlots
<1>3. CASE c.slots = Unset /\ c.maxRank <= 8
    <2>1. RankSlots(c) = [r \in {c.maxRank} |-> 16]
        BY <1>3 DEF RankSlots
    <2> QED BY <2>1
<1>4. CASE c.slots = Unset /\ ~(c.maxRank <= 8)
    <2>1. RankSlots(c) = [r \in {8, c.maxRank} |-> IF r = 8 THEN 16 ELSE 8]
        BY <1>4 DEF RankSlots
    <2> QED BY <1>4, <2>1
<1> QED BY <1>2, <1>3, <1>4

(* A server that starts with an FSDP model can train it: some flags of a   *)
(* client, with the largest rank, pass the checks of create_adapter. It is *)
(* what _validate_explicit_target_modules is for.                          *)
THEOREM StartedServersAreUsable ==
    ASSUME NEW c, Starts(c), c.maxRank \in Nat, c.train \in Flags
    PROVE  \E f \in Flags : SlotAccepts(c, f, c.maxRank)
<1>1. c.maxRank \in DOMAIN RankSlots(c)
    BY MaxRankIsServed DEF Starts
<1>2. CASE c.qv
    BY <1>1, <1>2 DEF SlotAccepts
<1>3. CASE ~c.qv /\ Resolve(c, c.train) = Unset
    <2>1. c.modules # Unset
        BY <1>3 DEF Starts, SlotGeometry
    <2> QED BY <1>1, <1>3, <2>1 DEF SlotAccepts
<1>4. CASE ~c.qv /\ Resolve(c, c.train) # Unset
    <2>1. PICK f \in Flags : Resolve(c, f) # Unset /\ Resolve(c, f) = SlotGeometry(c)
        BY <1>4, StartedGeometry
    <2> QED BY <1>1, <2>1 DEF SlotAccepts
<1> QED BY <1>2, <1>3, <1>4

(* A run that an FSDP server accepts records the geometry of the slot it   *)
(* is lent, whether the flags of the client, the modifiers of the server,  *)
(* explicit lists or the Q/V override decided about either.                *)
THEOREM RecordsTellTheSlots ==
    ASSUME NEW c, Starts(c), NEW f, NEW rank, SlotAccepts(c, f, rank)
    PROVE  Recorded(c, f) = SlotGeometry(c)
<1>1. c.backend = "fsdp"
    BY DEF Starts
<1>2. CASE c.qv \/ c.modules # Unset \/ c.parameters # Unset
    BY <1>1, <1>2 DEF Recorded
<1>3. CASE ~(c.qv \/ c.modules # Unset \/ c.parameters # Unset)
    BY <1>3 DEF Recorded, SlotAccepts
<1> QED BY <1>2, <1>3

(* A checkpoint that load_checkpoint lets pass for a run of this server    *)
(* fits the run's slot, whichever of its files still say what: the slot's  *)
(* own check refuses none of them.                                         *)
THEOREM AcceptedLoadsFit ==
    ASSUME NEW c, Starts(c), NEW k, NEW run, SlotAccepts(c, run.flags, run.rank), Resumes(c, run),
           Compatible(c, k, run)
    PROVE  SlotTakes(c, k)
<1>1. SlotGeometry(c) = [modules |-> run.modules, parameters |-> OrEmpty(run.parameters)]
    BY RecordsTellTheSlots DEF Resumes
<1>2. SlotGeometry(c).modules = run.modules /\ SlotGeometry(c).parameters = OrEmpty(run.parameters)
    BY <1>1
<1> QED BY <1>2 DEF Compatible, SlotTakes

(* Whatever is no set of names stands for what is not known.               *)
AreNoSets(Names) == Unset \notin SUBSET Names /\ Malformed \notin SUBSET Names

HasFiles(k) == k.adapter # Unset /\ k.metadata # Unset

(* A run goes on under the configuration it was created with, and its own  *)
(* checkpoints load into it.                                               *)
THEOREM OwnCheckpointsLoad ==
    ASSUME NEW Names, AreNoSets(Names), NEW c, c.maxRank \in Nat, NEW f \in Flags, NEW rank,
           Recorded(c, f) # Unset,
           Recorded(c, f) \in [modules : SUBSET Names, parameters : SUBSET Names],
           Unset \notin BOOLEAN, Alpha(c, rank) # Unset, HasFiles(CheckpointOf(c, NewRun(c, f, rank)))
    PROVE  /\ Resumes(c, NewRun(c, f, rank))
           /\ Compatible(c, CheckpointOf(c, NewRun(c, f, rank)), NewRun(c, f, rank))
<1> DEFINE run == NewRun(c, f, rank)
           k == CheckpointOf(c, run)
           g == Recorded(c, f)
<1>1. run = [flags |-> f, rank |-> rank, modules |-> g.modules, parameters |-> g.parameters]
    BY DEF NewRun
<1>2. /\ g.modules # Unset /\ g.modules # Malformed /\ g.parameters # Unset /\ g.parameters # Malformed
      /\ g = [modules |-> g.modules, parameters |-> g.parameters]
    BY DEF AreNoSets
<1>3. Resumes(c, run)
    <2>1. \A i \in {"attn", "mlp", "unembed"} : f[i] # Unset
        BY DEF Flags
    <2> HIDE DEF g
    <2> QED BY <1>1, <1>2, <2>1 DEF Resumes, Legacy, OrEmpty, g
<1>4. /\ k.adapter = [modules |-> g.modules, parameters |-> g.parameters, alpha |-> Alpha(c, rank)]
      /\ k.metadata = [modules |-> g.modules, parameters |-> g.parameters, alpha |-> Alpha(c, rank),
                       rank |-> rank, model |-> c.model]
    BY <1>1 DEF CheckpointOf
<1>5. k.adapter # Unset /\ k.metadata # Unset
    BY DEF HasFiles
<1> HIDE DEF k, g
<1>6. SavedModules(k) = g.modules
    BY <1>2, <1>4, <1>5 DEF SavedModules, Stated
<1>7. SavedParameters(k) = g.parameters
    BY <1>2, <1>4, <1>5 DEF SavedParameters, OrEmpty
<1>8. SavedAlpha(k) = Alpha(c, rank)
    BY <1>4, <1>5 DEF SavedAlpha
<1>9. Compatible(c, k, run)
    <2>1. run.rank = rank /\ run.modules = g.modules /\ OrEmpty(run.parameters) = g.parameters
        BY <1>1, <1>2 DEF OrEmpty, g
    <2> HIDE DEF run
    <2> QED BY <2>1, <1>2, <1>4, <1>6, <1>7, <1>8 DEF Compatible
<1> QED BY <1>3, <1>9 DEF k

(* A run that a later process lets go on under another configuration of    *)
(* its model, and lends a slot, can take its old checkpoints there: the    *)
(* comparison at the restart, the one before a load and the slot's own do  *)
(* not contradict each other, whatever modifiers, lists or overrides have  *)
(* changed, unless the ratio of alpha to rank has.                         *)
THEOREM ResumedRunsTakeOldCheckpoints ==
    ASSUME NEW Names, AreNoSets(Names), NEW old, old.maxRank \in Nat, NEW f \in Flags, NEW rank,
           Recorded(old, f) # Unset,
           Recorded(old, f) \in [modules : SUBSET Names, parameters : SUBSET Names],
           Unset \notin BOOLEAN, Alpha(old, rank) # Unset,
           HasFiles(CheckpointOf(old, NewRun(old, f, rank))),
           NEW c, Starts(c), c.model = old.model, c.ratio = old.ratio,
           SlotAccepts(c, f, rank), Resumes(c, NewRun(old, f, rank))
    PROVE  /\ Compatible(c, CheckpointOf(old, NewRun(old, f, rank)), NewRun(old, f, rank))
           /\ SlotTakes(c, CheckpointOf(old, NewRun(old, f, rank)))
<1> DEFINE run == NewRun(old, f, rank)
           k == CheckpointOf(old, run)
<1>1. Compatible(old, k, run)
    BY OwnCheckpointsLoad
<1>2. run.flags = f /\ run.rank = rank
    BY DEF NewRun
<1> HIDE DEF k, run
<1>3. Compatible(c, k, run)
    BY <1>1 DEF Compatible, Alpha
<1>4. SlotAccepts(c, run.flags, run.rank) /\ Resumes(c, run)
    BY <1>2 DEF run
<1>5. SlotTakes(c, k)
    BY <1>3, <1>4, AcceptedLoadsFit
<1> QED BY <1>3, <1>5 DEF k, run

-----------------------------------------------------------------------------
(* What a serving server does with calls of the OpenAI-compatible          *)
(* endpoints, for any number of engines, calls, runs and checkpoints: a    *)
(* call that is forwarded with the name of an adapter finds it at its      *)
(* engine.                                                                 *)
CONSTANTS Replicas, Calls, Checkpoints, RunOf, Bare, Base
VARIABLES turn, loaded, registry, stage, model, url, load, answer

Router == INSTANCE OpenAIRouter

CallStages == {"new", "loading", "forwarding", "answered", "failed"}
LoadSteps == {"idle", "posting", "replied", "raised"}

(* What the constants are: names resolve to training runs, a checkpoint is *)
(* neither the base model nor nothing.                                     *)
RouterConstants ==
    /\ Replicas \in Nat \ {0}
    /\ RunOf \in [Checkpoints -> Router!Names]
    /\ Base \notin Checkpoints
    /\ None \notin Checkpoints

RouterTypes ==
    /\ turn \in Router!Engines
    /\ registry \in [Router!Engines -> [Router!Names -> Checkpoints \cup {None}]]
    /\ stage \in [Calls -> CallStages]
    /\ model \in [Calls -> Checkpoints \cup {Base}]
    /\ url \in [Calls -> Router!Engines]
    /\ load \in [Calls -> [Router!Engines -> LoadSteps]]

Known(c, e) == registry[e][RunOf[model[c]]] # None

(* What is true of one engine for one call. Only the loads that succeeded  *)
(* or were not needed count.                                               *)
CallsToldTrue == \A c \in Calls, e \in Router!Engines :
    /\ load[c][e] # "idle" => Router!UsesAdapter(model[c])
    /\ load[c][e] = "replied" => Known(c, e)
    /\ stage[c] = "loading" => Router!UsesAdapter(model[c])
    /\ stage[c] = "loading" /\ load[c][e] = "idle" => Known(c, e)
    /\ stage[c] = "forwarding" /\ Router!UsesAdapter(model[c]) => Known(c, e)

RouterInv == RouterTypes /\ Router!MemoryIsTrue /\ CallsToldTrue

(* An engine that knows a name goes on knowing it.                         *)
NeverForgotten ==
    \A e \in Router!Engines, n \in Router!Names : registry[e][n] # None => registry'[e][n] # None

-----------------------------------------------------------------------------
(* A checkpoint's run is one of the names of the registry.                 *)
LEMMA NameOfAdapter ==
    ASSUME RouterConstants, NEW m \in Checkpoints \cup {Base}, Router!UsesAdapter(m)
    PROVE  m \in Checkpoints /\ RunOf[m] \in Router!Names
BY DEF RouterConstants, Router!UsesAdapter

(* The counter stays within the engines.                                   *)
LEMMA NextTurn ==
    ASSUME RouterConstants, NEW t \in Router!Engines
    PROVE  (t + 1) % Replicas \in Router!Engines
BY DEF RouterConstants, Router!Engines

LEMMA RouterInit == ASSUME RouterConstants, Router!Init PROVE RouterInv
<1>1. 0 \in Router!Engines
    BY DEF RouterConstants, Router!Engines
<1>2. RouterTypes
    BY <1>1 DEF Router!Init, RouterTypes, CallStages, LoadSteps, Router!NoLoads
<1>3. Router!MemoryIsTrue /\ CallsToldTrue
    BY DEF Router!Init, Router!MemoryIsTrue, CallsToldTrue, Router!NoLoads
<1> QED BY <1>2, <1>3 DEF RouterInv

(* If no load or stage changes but those of call c, and no engine forgets, *)
(* the other calls keep what is true of them.                              *)
LEMMA OthersKeep ==
    ASSUME RouterConstants, RouterInv, NeverForgotten, NEW c \in Calls, NEW d \in Calls \ {c},
           NEW e \in Router!Engines,
           load'[d] = load[d], stage'[d] = stage[d], model'[d] = model[d]
    PROVE  /\ load'[d][e] # "idle" => Router!UsesAdapter(model'[d])
           /\ load'[d][e] = "replied" => Known(d, e)'
           /\ stage'[d] = "loading" => Router!UsesAdapter(model'[d])
           /\ stage'[d] = "loading" /\ load'[d][e] = "idle" => Known(d, e)'
           /\ stage'[d] = "forwarding" /\ Router!UsesAdapter(model'[d]) => Known(d, e)'
<1>1. Known(d, e) /\ Router!UsesAdapter(model[d]) => Known(d, e)'
    <2>1. model[d] \in Checkpoints \cup {Base}
        BY DEF RouterInv, RouterTypes
    <2> QED BY <2>1, NameOfAdapter DEF NeverForgotten, Known
<1>2. /\ load[d][e] # "idle" => Router!UsesAdapter(model[d])
      /\ load[d][e] = "replied" => Known(d, e)
      /\ stage[d] = "loading" => Router!UsesAdapter(model[d])
      /\ stage[d] = "loading" /\ load[d][e] = "idle" => Known(d, e)
      /\ stage[d] = "forwarding" /\ Router!UsesAdapter(model[d]) => Known(d, e)
    BY DEF RouterInv, CallsToldTrue
<1> QED BY <1>1, <1>2

-----------------------------------------------------------------------------
LEMMA RouteOK ==
    ASSUME RouterConstants, RouterInv, NEW c \in Calls,
           NEW m \in {Base} \cup Checkpoints, Router!Route(c, m)
    PROVE  RouterInv'
<1>1. RouterTypes'
    <2>1. turn' \in Router!Engines
        BY NextTurn DEF Router!Route, RouterInv, RouterTypes
    <2> QED BY <2>1 DEF Router!Route, RouterInv, RouterTypes, CallStages, LoadSteps, Router!NoLoads
<1>2. NeverForgotten
    BY DEF Router!Route, NeverForgotten
<1>3. Router!MemoryIsTrue'
    BY DEF Router!Route, RouterInv, Router!MemoryIsTrue
<1>4. /\ model'[c] = m
      /\ stage'[c] = IF Router!UsesAdapter(m) THEN "loading" ELSE "forwarding"
      /\ load'[c] = IF Router!UsesAdapter(m)
                    THEN [e \in Router!Engines |-> IF <<RunOf[m], e>> \notin loaded THEN "posting" ELSE "idle"]
                    ELSE Router!NoLoads
    BY DEF Router!Route, RouterInv, RouterTypes
<1>5. \A d \in Calls \ {c} : load'[d] = load[d] /\ stage'[d] = stage[d] /\ model'[d] = model[d]
    BY DEF Router!Route, RouterInv, RouterTypes
<1>6. CallsToldTrue'
    <2> SUFFICES ASSUME NEW d \in Calls, NEW e \in Router!Engines
                 PROVE  /\ load'[d][e] # "idle" => Router!UsesAdapter(model'[d])
                        /\ load'[d][e] = "replied" => Known(d, e)'
                        /\ stage'[d] = "loading" => Router!UsesAdapter(model'[d])
                        /\ stage'[d] = "loading" /\ load'[d][e] = "idle" => Known(d, e)'
                        /\ stage'[d] = "forwarding" /\ Router!UsesAdapter(model'[d]) => Known(d, e)'
        BY DEF CallsToldTrue, Router!UsesAdapter
    <2>1. CASE d # c
        BY <2>1, <1>2, <1>5, OthersKeep
    <2>2. CASE d = c /\ Router!UsesAdapter(m)
        <3>1. RunOf[m] \in Router!Names
            BY <2>2, NameOfAdapter
        <3>2. load'[c][e] = IF <<RunOf[m], e>> \notin loaded THEN "posting" ELSE "idle"
            BY <2>2, <1>4
        <3>3. <<RunOf[m], e>> \in loaded => registry'[e][RunOf[m]] # None
            BY <3>1 DEF Router!Route, RouterInv, Router!MemoryIsTrue
        <3> QED BY <2>2, <1>4, <3>2, <3>3 DEF Known
    <2>3. CASE d = c /\ ~Router!UsesAdapter(m)
        BY <2>3, <1>4 DEF Router!NoLoads
    <2> QED BY <2>1, <2>2, <2>3
<1> QED BY <1>1, <1>3, <1>6 DEF RouterInv

LEMMA RegisterOK ==
    ASSUME RouterConstants, RouterInv, NEW c \in Calls,
           NEW e \in Router!Engines, Router!Register(c, e)
    PROVE  RouterInv'
<1> DEFINE n == RunOf[model[c]]
<1>1. Router!UsesAdapter(model[c]) /\ model[c] \in Checkpoints /\ n \in Router!Names /\ model[c] # None
    <2>1. Router!UsesAdapter(model[c]) /\ model[c] \in Checkpoints \cup {Base}
        BY DEF Router!Register, RouterInv, CallsToldTrue, RouterTypes
    <2> QED BY <2>1, NameOfAdapter DEF RouterConstants
<1>2. RouterTypes'
    <2>1. registry' \in [Router!Engines -> [Router!Names -> Checkpoints \cup {None}]]
        <3> DEFINE row == [registry[e] EXCEPT ![n] = model[c]]
        <3>1. registry[e] \in [Router!Names -> Checkpoints \cup {None}]
            BY DEF RouterInv, RouterTypes
        <3>2. row \in [Router!Names -> Checkpoints \cup {None}]
            BY <1>1, <3>1
        <3>3. registry' = registry \/ registry' = [registry EXCEPT ![e] = row]
            BY DEF Router!Register
        <3> HIDE DEF n, row
        <3> QED BY <3>2, <3>3 DEF RouterInv, RouterTypes
    <2>2. load' \in [Calls -> [Router!Engines -> LoadSteps]]
        <3>1. \E s \in {"replied", "raised"} : load' = [load EXCEPT ![c][e] = s]
            BY DEF Router!Register
        <3> QED BY <3>1 DEF RouterInv, RouterTypes, LoadSteps
    <2> QED BY <2>1, <2>2 DEF Router!Register, RouterInv, RouterTypes, Router!routing
<1>3. NeverForgotten
    <2> SUFFICES ASSUME NEW f \in Router!Engines, NEW k \in Router!Names, registry[f][k] # None
                 PROVE  registry'[f][k] # None
        BY DEF NeverForgotten
    <2>1. registry' = registry \/ registry' = [registry EXCEPT ![e][n] = model[c]]
        BY DEF Router!Register
    <2>2. registry \in [Router!Engines -> [Router!Names -> Checkpoints \cup {None}]]
        BY DEF RouterInv, RouterTypes
    <2> HIDE DEF n
    <2>3. CASE registry' = registry
        BY <2>3
    <2>4. CASE registry' = [registry EXCEPT ![e][n] = model[c]]
        <3>1. registry'[f] = IF f = e THEN [registry[f] EXCEPT ![n] = model[c]] ELSE registry[f]
            BY <2>2, <2>4
        <3>2. registry[f] \in [Router!Names -> Checkpoints \cup {None}]
            BY <2>2
        <3> QED BY <3>1, <3>2, <1>1
    <2> QED BY <2>1, <2>3, <2>4
<1>4. Router!MemoryIsTrue'
    BY <1>3 DEF Router!Register, RouterInv, Router!MemoryIsTrue, NeverForgotten
<1>5. \/ load'[c][e] = "replied" /\ Known(c, e)'
     \/ load'[c][e] = "raised"
    BY <1>1 DEF Router!Register, RouterInv, RouterTypes, Known, Router!routing
<1>6. /\ model' = model /\ stage' = stage
      /\ \A d \in Calls \ {c} : load'[d] = load[d]
      /\ \A f \in Router!Engines \ {e} : load'[c][f] = load[c][f]
    BY DEF Router!Register, Router!routing, RouterInv, RouterTypes
<1>7. CallsToldTrue'
    <2> SUFFICES ASSUME NEW d \in Calls, NEW f \in Router!Engines
                 PROVE  /\ load'[d][f] # "idle" => Router!UsesAdapter(model'[d])
                        /\ load'[d][f] = "replied" => Known(d, f)'
                        /\ stage'[d] = "loading" => Router!UsesAdapter(model'[d])
                        /\ stage'[d] = "loading" /\ load'[d][f] = "idle" => Known(d, f)'
                        /\ stage'[d] = "forwarding" /\ Router!UsesAdapter(model'[d]) => Known(d, f)'
        BY DEF CallsToldTrue, Router!UsesAdapter
    <2>1. CASE d # c
        BY <2>1, <1>3, <1>6, OthersKeep
    <2>2. CASE d = c
        <3>1. Known(c, f) => Known(c, f)'
            BY <1>1, <1>3, <1>6 DEF Known, NeverForgotten
        <3>2. /\ load[c][f] = "replied" => Known(c, f)
              /\ stage[c] = "loading" /\ load[c][f] = "idle" => Known(c, f)
              /\ stage[c] = "forwarding" /\ Router!UsesAdapter(model[c]) => Known(c, f)
            BY DEF RouterInv, CallsToldTrue
        <3> QED BY <2>2, <1>1, <1>5, <1>6, <3>1, <3>2
    <2> QED BY <2>1, <2>2
<1> QED BY <1>2, <1>4, <1>7 DEF RouterInv

LEMMA RememberOK ==
    ASSUME RouterConstants, RouterInv, NEW c \in Calls,
           NEW e \in Router!Engines, Router!Remember(c, e)
    PROVE  RouterInv'
<1>1. Known(c, e) /\ Router!UsesAdapter(model[c])
    BY DEF Router!Remember, RouterInv, CallsToldTrue
<1>2. RouterTypes'
    <2>1. \E s \in {"idle", "raised"} : load' = [load EXCEPT ![c][e] = s]
        BY DEF Router!Remember
    <2>2. load' \in [Calls -> [Router!Engines -> LoadSteps]]
        BY <2>1 DEF RouterInv, RouterTypes, LoadSteps
    <2> QED BY <2>2 DEF Router!Remember, RouterInv, RouterTypes, Router!routing
<1>3. registry' = registry /\ model' = model /\ stage' = stage
    BY DEF Router!Remember, Router!routing
<1>4. NeverForgotten
    BY <1>3 DEF NeverForgotten
<1>5. Router!MemoryIsTrue'
    BY <1>1, <1>3 DEF Router!Remember, RouterInv, Router!MemoryIsTrue, Known
<1>6. /\ load'[c][e] \in {"idle", "raised"}
      /\ \A d \in Calls \ {c} : load'[d] = load[d]
      /\ \A f \in Router!Engines \ {e} : load'[c][f] = load[c][f]
    BY DEF Router!Remember, RouterInv, RouterTypes
<1>7. CallsToldTrue'
    <2> SUFFICES ASSUME NEW d \in Calls, NEW f \in Router!Engines
                 PROVE  /\ load'[d][f] # "idle" => Router!UsesAdapter(model'[d])
                        /\ load'[d][f] = "replied" => Known(d, f)'
                        /\ stage'[d] = "loading" => Router!UsesAdapter(model'[d])
                        /\ stage'[d] = "loading" /\ load'[d][f] = "idle" => Known(d, f)'
                        /\ stage'[d] = "forwarding" /\ Router!UsesAdapter(model'[d]) => Known(d, f)'
        BY DEF CallsToldTrue, Router!UsesAdapter
    <2>1. CASE d # c
        BY <2>1, <1>3, <1>4, <1>6, OthersKeep
    <2>2. CASE d = c
        <3>1. Known(c, f)' = Known(c, f)
            BY <1>3 DEF Known
        <3>2. /\ load[c][f] = "replied" => Known(c, f)
              /\ stage[c] = "loading" /\ load[c][f] = "idle" => Known(c, f)
              /\ stage[c] = "forwarding" /\ Router!UsesAdapter(model[c]) => Known(c, f)
            BY DEF RouterInv, CallsToldTrue
        <3> QED BY <2>2, <1>1, <1>3, <1>6, <3>1, <3>2
    <2> QED BY <2>1, <2>2
<1> QED BY <1>2, <1>5, <1>7 DEF RouterInv

(* A stage that moves on without a load: to its end or to the proxy.       *)
LEMMA StageOK ==
    ASSUME RouterConstants, RouterInv, NEW c \in Calls, NEW s \in CallStages \ {"loading"},
           stage' = [stage EXCEPT ![c] = s],
           s = "forwarding" => stage[c] = "loading" /\ load[c] = Router!NoLoads,
           UNCHANGED <<Router!routing, loaded, registry, load>>
    PROVE  RouterInv'
<1>1. RouterTypes'
    BY DEF RouterInv, RouterTypes, Router!routing
<1>2. Router!MemoryIsTrue'
    BY DEF RouterInv, Router!MemoryIsTrue
<1>3. CallsToldTrue'
    BY DEF RouterInv, RouterTypes, CallsToldTrue, Known,
        Router!UsesAdapter, Router!routing, Router!NoLoads
<1> QED BY <1>1, <1>2, <1>3 DEF RouterInv

LEMMA RouterNext == ASSUME RouterConstants, RouterInv, [Router!Next]_Router!vars PROVE RouterInv'
<1>1. CASE UNCHANGED Router!vars
    BY <1>1 DEF Router!vars, RouterInv, RouterTypes, Router!MemoryIsTrue, CallsToldTrue, Known, Router!UsesAdapter
<1>2. CASE Router!Next
    <2>1. PICK c \in Calls :
              \/ Router!Refuse(c) \/ Router!LoadRaised(c) \/ Router!AllLoaded(c) \/ Router!Forward(c)
              \/ \E m \in {Base} \cup Checkpoints : Router!Route(c, m)
              \/ \E e \in Router!Engines : Router!Register(c, e) \/ Router!Remember(c, e)
        BY <1>2 DEF Router!Next
    <2>2. CASE Router!Refuse(c)
        BY <2>2, StageOK DEF Router!Refuse, CallStages
    <2>3. CASE Router!LoadRaised(c)
        BY <2>3, StageOK DEF Router!LoadRaised, CallStages
    <2>4. CASE Router!AllLoaded(c)
        BY <2>4, StageOK DEF Router!AllLoaded, CallStages
    <2>5. CASE Router!Forward(c)
        <3>1. \E s \in {"answered", "failed"} : stage' = [stage EXCEPT ![c] = s]
            BY <2>5 DEF Router!Forward
        <3>2. UNCHANGED <<Router!routing, loaded, registry, load>>
            BY <2>5 DEF Router!Forward
        <3> QED BY <3>1, <3>2, StageOK DEF CallStages
    <2>6. CASE \E m \in {Base} \cup Checkpoints : Router!Route(c, m)
        BY <2>6, RouteOK
    <2>7. CASE \E e \in Router!Engines : Router!Register(c, e) \/ Router!Remember(c, e)
        BY <2>7, RegisterOK, RememberOK
    <2> QED BY <2>1, <2>2, <2>3, <2>4, <2>5, <2>6, <2>7
<1> QED BY <1>1, <1>2

(* Whatever loads fail, time out or race with each other, what the router  *)
(* remembers is so, and a forwarded call meets an engine that knows the    *)
(* name it carries.                                                        *)
THEOREM ForwardedNamesAreKnown ==
    ASSUME RouterConstants PROVE Router!Spec => [](Router!MemoryIsTrue /\ Router!NameIsKnown)
<1>1. Router!Init => RouterInv
    BY RouterInit
<1>2. RouterInv /\ [Router!Next]_Router!vars => RouterInv'
    BY RouterNext
<1>3. RouterInv => Router!MemoryIsTrue /\ Router!NameIsKnown
    BY DEF RouterInv, Router!NameIsKnown, CallsToldTrue, Known, RouterTypes
<1> QED BY <1>1, <1>2, <1>3, PTL DEF Router!Spec
=============================================================================
