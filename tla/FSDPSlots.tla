------------------------------- MODULE FSDPSlots -------------------------------
(***************************************************************************)
(* The FSDP training backend (fsdp_training_backend.py): one Ray actor for *)
(* each GPU, all of which hold a shard of every adapter slot of one model, *)
(* and a backend that lends the slots to training runs.  An actor executes *)
(* its calls one after the other in the order in which they were made.     *)
(* forward_backward, save and load are collective: no actor gets through   *)
(* one before all of them are in it. optim_step is so only when it clips   *)
(* gradients, which is not required of the actors here.                    *)
(*                                                                         *)
(* One rank of slots is modelled (pools of different ranks have nothing in *)
(* common) after async_init.  A process end takes the actors with it.      *)
(*                                                                         *)
(* An operator whose name begins with Mutant is a plausible bug in the one *)
(* that follows it; no specification uses it.                              *)
(***************************************************************************)
EXTENDS TrainingBatch, AdapterContent

CONSTANTS
    Runs,           \* training runs; their ids are uuids
    Calls,          \* run and kind of each operation, as clients may choose them
    World,          \* number of actors
    Capacities,     \* numbers of slots a configuration may set
    Sizes,          \* lengths of the data clients send
    MicroBatch,     \* configured micro_batch_size, 0 for none
    Faults,
    MaxFaults       \* bound on the number of them

(* "actor": the reset of a slot raises half-way; "request": an operation   *)
(* raises on every actor, at the same point; "early": on one actor, before *)
(* it has met the others, which wait for it; "late": on some, at points of *)
(* their own, when the others do not wait for them any more.               *)
Fault == {"actor", "request", "early", "late"}

(* inbox and raised hold runs and operations, which are to be told apart.   *)
ASSUME IdsAssumption == Runs \cap Operations = {}
ASSUME CallsAssumption == Calls \subseteq [Operations -> Runs \X Kinds]
ASSUME WorldAssumption == World \in Nat \ {0}
ASSUME CapacitiesAssumption == Capacities \subseteq Nat \ {0}
ASSUME SizesAssumption == Sizes \subseteq Nat /\ MicroBatch \in Nat
ASSUME FaultsAssumption == Faults \subseteq Fault /\ MaxFaults \in Nat

Actors == 1..World
Lead == 1
Slots == UNION {1..c : c \in Capacities}

-----------------------------------------------------------------------------
VARIABLES
    lock,       \* runs whose create_adapter or remove_adapter hold or await the lock
    life,       \* progress of each run's adapter
    got,        \* slot allocate_slot returned, 0 for none
    slotOf,     \* _lora_id_to_adapter_name, 0 for none
    inbox,      \* calls each actor has still to finish, in order
    allocated,  \* slots each actor holds to be in use
    content,    \* what is in each actor's shard of each slot
    raised,     \* runs and operations one of whose calls raised
    torn,       \* operations that raised on some actors and not on all alike
    finished,   \* operations each actor is done with, or that raised there
    stage,      \* progress of each operation
    saved,      \* checkpoint each save wrote, as a set
    capacity,   \* configured number of slots
    target, kind    \* run and kind of each operation

backendVars == <<lock, life, got, slotOf>>
actorVars == <<allocated, content, raised, torn, finished, saved>>
inputs == <<capacity, target, kind>>
vars == <<backendVars, inbox, actorVars, stage, inputs>>

Init ==
    /\ lock = <<>>
    /\ life = [r \in Runs |-> "new"]
    /\ got = [r \in Runs |-> 0] /\ slotOf = [r \in Runs |-> 0]
    /\ inbox = [k \in Actors |-> <<>>]
    /\ allocated = [k \in Actors |-> {}]
    /\ content = [k \in Actors |-> [s \in Slots |-> Fresh]]
    /\ raised = {} /\ torn = {} /\ finished = [k \in Actors |-> {}]
    /\ stage = [o \in Operations |-> "new"]
    /\ saved = [o \in Operations |-> {}]
    /\ target \in [Operations -> Runs] /\ kind \in [Operations -> Kinds]
    /\ capacity \in Capacities
    /\ [o \in Operations |-> <<target[o], kind[o]>>] \in Calls

(* The calls to several actors are made without an await in between.       *)
SlotCall(c, s, r) == [call |-> c, slot |-> s, by |-> r, n |-> 0, file |-> {},
                      bad |-> {}, late |-> FALSE, part |-> "start"]
Sent(call, to) == [k \in Actors |-> IF k \in to THEN Append(inbox[k], call) ELSE inbox[k]]
Pending(by) == {k \in Actors : \E p \in DOMAIN inbox[k] : inbox[k][p].by = by}

Holds(r) == lock # <<>> /\ Head(lock) = r
MovesTo(r, next) == life' = [life EXCEPT ![r] = next]

-----------------------------------------------------------------------------
(* create_adapter and remove_adapter *)

(* A configuration without slots for it is refused before the lock.        *)
CreateBegin(r) ==
    /\ life[r] = "new"
    /\ \/ MovesTo(r, "locking") /\ lock' = Append(lock, r)
       \/ MovesTo(r, "failed") /\ UNCHANGED lock
    /\ UNCHANGED <<got, slotOf, inbox, actorVars, stage, inputs>>

CreateAllocate(r) ==
    /\ life[r] = "locking" /\ Holds(r)
    /\ MovesTo(r, "allocating")
    /\ inbox' = Sent(SlotCall("allocate", 0, r), {Lead})
    /\ UNCHANGED <<lock, got, slotOf, actorVars, stage, inputs>>

(* The lead answered: raise, or mark the same slot on all other actors.    *)
CreateReserve(r) ==
    /\ life[r] = "allocated"
    /\ IF r \in raised \/ got[r] = 0
       THEN MovesTo(r, "failed") /\ lock' = Tail(lock) /\ UNCHANGED inbox
       ELSE /\ MovesTo(r, "reserving")
            /\ inbox' = Sent(SlotCall("reserve", got[r], r), Actors \ {Lead})
            /\ UNCHANGED lock
    /\ UNCHANGED <<got, slotOf, actorVars, stage, inputs>>

(* gather raises with the first call that does and waits for no other.     *)
CreateEnds(r) ==
    /\ life[r] = "reserving"
    /\ lock' = Tail(lock)
    /\ \/ r \in raised /\ MovesTo(r, "failed") /\ UNCHANGED slotOf
       \/ /\ r \notin raised /\ Pending(r) = {}
          /\ MovesTo(r, "live")
          /\ slotOf' = [slotOf EXCEPT ![r] = got[r]]
    /\ UNCHANGED <<got, inbox, actorVars, stage, inputs>>

(* unload_model does not wait for the operations of the run.               *)
RemoveBegin(r) ==
    /\ life[r] = "live"
    /\ MovesTo(r, "leaving")
    /\ lock' = Append(lock, r)
    /\ UNCHANGED <<got, slotOf, inbox, actorVars, stage, inputs>>

RemoveRelease(r) ==
    /\ life[r] = "leaving" /\ Holds(r)
    /\ MovesTo(r, "releasing")
    /\ slotOf' = [slotOf EXCEPT ![r] = 0]
    /\ inbox' = Sent(SlotCall("release", slotOf[r], r), Actors)
    /\ UNCHANGED <<lock, got, actorVars, stage, inputs>>

RemoveEnds(r) ==
    /\ life[r] = "releasing"
    /\ r \in raised \/ Pending(r) = {}
    /\ MovesTo(r, "gone") /\ lock' = Tail(lock)
    /\ UNCHANGED <<got, slotOf, inbox, actorVars, stage, inputs>>

-----------------------------------------------------------------------------
(* forward, optim_step, save_state and load_state *)

(* Which actors raise, whether late, and how far they got then if all get  *)
(* equally far. Only the lead has anything to do late in a save.           *)
Outcomes(o) ==
    LET Ending(bads, late, parts) == [bad: bads, late: {late}, part: parts]
        alone == {{k} : k \in Actors}
        parts == {p \in Parts : (kind[o] = "save" => p = "start") /\ (kind[o] # "load" => p # "end")}
        faulty ==
            {x \in Ending({Actors}, FALSE, parts) : "request" \in Faults} \cup
            {x \in Ending(alone, FALSE, parts) : "early" \in Faults /\ kind[o] # "optim"} \cup
            {x \in Ending(SUBSET Actors \ {{}}, TRUE, {"end"}) :
                "late" \in Faults /\ (kind[o] = "save" => x.bad = {Lead})}
    IN  Ending({{}}, FALSE, {"start"}) \cup {x \in faulty : Cardinality(raised) < MaxFaults}

Submit(o, n, file) ==
    /\ stage' = [stage EXCEPT ![o] = "running"]
    /\ \E x \in Outcomes(o) :
           inbox' = Sent([call |-> "collective", slot |-> slotOf[target[o]], by |-> o, n |-> n,
                          file |-> file, bad |-> x.bad, late |-> x.late, part |-> x.part], Actors)

(* The execution lock of a run admits one operation at a time.  The slot   *)
(* is looked up and the calls are made without an await in between.  Data  *)
(* that cannot give each actor a datum is refused, none at all is an empty *)
(* answer; so is what fails validation (_validate_checkpoint_geometry).    *)
MutantOpBegin(o) ==
    LET r == target[o]
    IN  /\ stage[o] = "new" /\ life[r] \in {"live", "leaving", "releasing", "gone"}
        /\ \A p \in Operations : target[p] = r => stage[p] # "running"
        /\ slotOf[r] # 0 /\ kind[o] = "forward"
        /\ stage' = [stage EXCEPT ![o] = "running"]
        /\ \E n \in Sizes \ {0} :
               inbox' = Sent([SlotCall("collective", slotOf[r], o) EXCEPT !.n = n],
                             {k \in Actors : ShardSize(n, World, k) > 0})
        /\ UNCHANGED <<backendVars, actorVars, inputs>>
OpBegin(o) ==
    LET r == target[o]
    IN  /\ stage[o] = "new" /\ life[r] \in {"live", "leaving", "releasing", "gone"}
        /\ \A p \in Operations : target[p] = r => stage[p] # "running"
        /\ \/ stage' = [stage EXCEPT ![o] = "failed"] /\ UNCHANGED inbox
           \/ /\ slotOf[r] # 0 /\ kind[o] = "forward" /\ 0 \in Sizes
              /\ stage' = [stage EXCEPT ![o] = "done"] /\ UNCHANGED inbox
           \/ /\ slotOf[r] # 0 /\ kind[o] = "forward"
              /\ \E n \in Sizes : n >= World /\ Submit(o, n, {})
           \/ slotOf[r] # 0 /\ kind[o] \in {"optim", "save"} /\ Submit(o, 0, {})
           \/ /\ slotOf[r] # 0 /\ kind[o] = "load"
              /\ \E p \in Operations : stage[p] = "done" /\ saved[p] # {} /\ Submit(o, 0, saved[p])
        /\ UNCHANGED <<backendVars, actorVars, inputs>>

(* ray.get raises with the first result that is an error.                  *)
OpEnds(o) ==
    /\ stage[o] = "running"
    /\ \/ o \in raised /\ stage' = [stage EXCEPT ![o] = "failed"]
       \/ o \notin raised /\ Pending(o) = {} /\ stage' = [stage EXCEPT ![o] = "done"]
    /\ UNCHANGED <<backendVars, inbox, actorVars, inputs>>

-----------------------------------------------------------------------------
(* The actors *)

Serves(k, c) == inbox[k] # <<>> /\ Head(inbox[k]).call = c
Served(k) == inbox' = [inbox EXCEPT ![k] = Tail(@)]
Holding(k, s, x) == content' = [content EXCEPT ![k][s] = x]

(* _reset_adapter_slot: no optimizer, new weights, no gradients.           *)
MutantReset(x) == [x EXCEPT !.weights = {}, !.moments = {}]
Reset(x) == Fresh

(* allocate_slot takes the first slot that is not allocated and resets it. *)
MutantFree == {s \in 1..capacity : content[Lead][s] = Fresh}
Free == (1..capacity) \ allocated[Lead]

Allocate ==
    LET r == Head(inbox[Lead]).by
    IN  /\ Serves(Lead, "allocate") /\ Served(Lead)
        /\ MovesTo(r, "allocated")
        /\ IF Free = {}
           THEN UNCHANGED <<got, allocated, content>>
           ELSE /\ got' = [got EXCEPT ![r] = Min(Free)]
                /\ allocated' = [allocated EXCEPT ![Lead] = @ \cup {Min(Free)}]
                /\ Holding(Lead, Min(Free), Reset(content[Lead][Min(Free)]))
        /\ UNCHANGED <<lock, slotOf, raised, torn, finished, saved, stage, inputs>>

MutantReserve(k) ==
    /\ Serves(k, "reserve") /\ Served(k)
    /\ allocated' = [allocated EXCEPT ![k] = @ \cup {Head(inbox[k]).slot}]
    /\ UNCHANGED <<backendVars, content, raised, torn, finished, saved, stage, inputs>>
Reserve(k) ==
    LET s == Head(inbox[k]).slot
    IN  /\ Serves(k, "reserve") /\ Served(k)
        /\ allocated' = [allocated EXCEPT ![k] = @ \cup {s}]
        /\ Holding(k, s, Reset(content[k][s]))
        /\ UNCHANGED <<backendVars, raised, torn, finished, saved, stage, inputs>>

MutantRelease(k) ==
    /\ Serves(k, "release") /\ Served(k)
    /\ Holding(k, Head(inbox[k]).slot, Fresh)
    /\ UNCHANGED <<backendVars, allocated, raised, torn, finished, saved, stage, inputs>>
Release(k) ==
    LET s == Head(inbox[k]).slot
    IN  /\ Serves(k, "release") /\ Served(k)
        /\ allocated' = [allocated EXCEPT ![k] = @ \ {s}]
        /\ Holding(k, s, Reset(content[k][s]))
        /\ UNCHANGED <<backendVars, raised, torn, finished, saved, stage, inputs>>

(* The reset of a slot raises: allocate_slot and reserve_slot have marked  *)
(* it before, release_slot has not unmarked it; its content is as it was,  *)
(* or fresh.                                                               *)
Raise(k) ==
    LET c == Head(inbox[k])
        s == IF c.call = "allocate" THEN Min(Free) ELSE c.slot
    IN  /\ "actor" \in Faults /\ Cardinality(raised) < MaxFaults
        /\ inbox[k] # <<>> /\ c.call # "collective"
        /\ c.call = "allocate" => Free # {}
        /\ Served(k)
        /\ raised' = raised \cup {c.by}
        /\ allocated' = [allocated EXCEPT ![k] = @ \cup {s}]
        /\ \E x \in {Reset(content[k][s]), content[k][s]} : Holding(k, s, x)
        /\ IF c.call = "allocate"
           THEN MovesTo(c.by, "allocated") /\ got' = [got EXCEPT ![c.by] = s]
           ELSE UNCHANGED <<life, got>>
        /\ UNCHANGED <<lock, slotOf, torn, finished, saved, stage, inputs>>

(* An actor gets through a collective when every other one is in it, or    *)
(* through it, with as many micro-batches, and raises none but late.       *)
Joined(j, c) ==
    /\ c.by \in finished[j] \/ (Serves(j, "collective") /\ Head(inbox[j]).by = c.by)
    /\ j \notin c.bad \/ c.late
    /\ MicroBatches(c.n, World, MicroBatch, j) = MicroBatches(c.n, World, MicroBatch, Lead)
Meets(c) == kind[c.by] = "optim" \/ \A j \in Actors : Joined(j, c)

File(c) == IF c.file = {} THEN {Fresh} ELSE c.file

(* An actor that raises has changed its shard in part; one that met the    *)
(* others in a collective was through with them, or nowhere if in none.    *)
Reject(k) ==
    LET c == Head(inbox[k])
        parts == IF ~ c.late THEN {c.part} ELSE IF kind[c.by] = "optim" THEN Parts ELSE {"end"}
    IN  /\ Serves(k, "collective") /\ k \in c.bad
        /\ c.late => Meets(c)
        /\ Served(k)
        /\ raised' = raised \cup {c.by}
        /\ torn' = IF c.late \/ c.bad # Actors THEN torn \cup {c.by} ELSE torn
        /\ finished' = [finished EXCEPT ![k] = @ \cup {c.by}]
        /\ \E part \in parts, file \in File(c) :
               Holding(k, c.slot, Interrupted(part, kind[c.by], c.by, content[k][c.slot], file))
        /\ UNCHANGED <<backendVars, allocated, saved, stage, inputs>>

(* The lead writes the files.                                              *)
Compute(k) ==
    LET c == Head(inbox[k])
        x == content[k][c.slot]
    IN  /\ Serves(k, "collective") /\ k \notin c.bad /\ Meets(c)
        /\ Served(k)
        /\ finished' = [finished EXCEPT ![k] = @ \cup {c.by}]
        /\ \E file \in File(c) : Holding(k, c.slot, After(kind[c.by], c.by, x, file))
        /\ saved' = IF kind[c.by] = "save" /\ k = Lead
                    THEN [saved EXCEPT ![c.by] = {Written(x)}] ELSE saved
        /\ UNCHANGED <<backendVars, allocated, raised, torn, stage, inputs>>

-----------------------------------------------------------------------------
ActorStep(k) ==
    \/ k = Lead /\ Allocate
    \/ Reserve(k) \/ Release(k) \/ Reject(k) \/ Compute(k)

AdapterStep(r) ==
    \/ CreateAllocate(r) \/ CreateReserve(r) \/ CreateEnds(r)
    \/ RemoveRelease(r) \/ RemoveEnds(r)

Next ==
    \/ \E r \in Runs : CreateBegin(r) \/ RemoveBegin(r) \/ AdapterStep(r)
    \/ \E o \in Operations : OpBegin(o) \/ OpEnds(o)
    \/ \E k \in Actors : ActorStep(k) \/ Raise(k)

Spec == Init /\ [][Next]_vars

(* Actors work, and coroutines whose result is there go on.                *)
FairSpec ==
    /\ Spec
    /\ \A k \in Actors : WF_vars(ActorStep(k))
    /\ \A r \in Runs : WF_vars(AdapterStep(r))
    /\ \A o \in Operations : WF_vars(OpEnds(o))

-----------------------------------------------------------------------------
(* Properties *)

(* The slot a run still has on the lead: until its release is executed     *)
(* there, whatever was called before acts on it.                           *)
HeldSlot(r) ==
    LET releases == {p \in DOMAIN inbox[Lead] :
                        inbox[Lead][p].call = "release" /\ inbox[Lead][p].by = r}
    IN  IF slotOf[r] # 0 THEN slotOf[r]
        ELSE IF releases # {} THEN inbox[Lead][Min(releases)].slot ELSE 0

(* No two runs have the same slot, from the lead's answer to the execution *)
(* of the release, whatever is queued and whichever calls raise.           *)
SlotsAreExclusive ==
    LET claimed(r) == IF life[r] \in {"allocated", "reserving"} THEN got[r] ELSE HeldSlot(r)
    IN  \A q, r \in Runs : q # r /\ claimed(q) # 0 => claimed(q) # claimed(r)

(* When nothing is under way on the slot of a run, all actors have the     *)
(* same adapter in it, also after operations that raised half-way on all   *)
(* of them and resets that failed on some. If an operation of the run      *)
(* itself raised on some actors only they may differ; but not in the slot  *)
(* of another run, nor when this one's slot is lent again.                 *)
ActorsAgree ==
    \A r \in Runs :
        LET s == slotOf[r]
            idle == \A k \in Actors : \A p \in DOMAIN inbox[k] : inbox[k][p].slot # s
            whole == \A o \in torn : target[o] # r
        IN  s # 0 /\ idle /\ whole => \A k \in Actors : content[k][s] = content[Lead][s]

(* A slot that is in use belongs to a run or to a coroutine on its way, or *)
(* a call about it raised: remove_adapter gives every other slot back.     *)
SlotsComeBack ==
    \A s \in allocated[Lead] : \E r \in Runs :
        \/ HeldSlot(r) = s
        \/ got[r] = s /\ (life[r] \in {"allocated", "reserving"} \/ r \in raised)

(* Whoever waits for the lock or for the actors is answered: the actors    *)
(* meet in every collective, with equal numbers of micro-batches.          *)
EveryoneIsAnswered ==
    /\ \A r \in Runs : life[r] = "locking" ~> life[r] \in {"live", "failed"}
    /\ \A r \in Runs : life[r] = "leaving" ~> life[r] = "gone"
    /\ \A o \in Operations : stage[o] = "running" ~> stage[o] \in {"done", "failed"}

(* The slots implement private adapters: what the lead has in the slot of  *)
(* a run is what the run's own operations made of a fresh adapter.         *)
Private == INSTANCE PrivateAdapters WITH
    age <- [r \in Runs |->
              IF HeldSlot(r) # 0 THEN "alive"
              ELSE IF life[r] \in {"releasing", "gone"} THEN "dead" ELSE "unborn"],
    adapter <- [r \in Runs |->
              IF HeldSlot(r) # 0 THEN content[Lead][HeldSlot(r)] ELSE Fresh],
    performed <- finished[Lead]
AdaptersArePrivate == Private!Spec
=============================================================================
