------------------------------ MODULE HFAdapters ------------------------------
(***************************************************************************)
(* The HF training backend (training_backend.py, hf_training_model.py): one*)
(* Ray actor holds a PeftModel with the adapters of all runs of a base     *)
(* model and an optimizer for each of them. One adapter is active: forward *)
(* goes through it, and its parameters are those that require gradients.   *)
(*                                                                         *)
(* The actor is an asyncio actor: calls start in any order. Its lock is    *)
(* never held across an await that suspends, so each method is one step.   *)
(***************************************************************************)
EXTENDS Integers, AdapterContent

CONSTANTS
    Runs,      \* training runs, which give their adapters their names
    Base,      \* the placeholder adapter "default"
    None,      \* no optimizer
    Calls,     \* run and kind of each operation, as clients may choose them
    Faults     \* subset of {"half", "late"}

ASSUME CallsAssumption == Calls \subseteq [Operations -> Runs \X Kinds]
ASSUME BaseAssumption == Base \notin Runs /\ None \notin Runs

VARIABLES
    life,       \* of each run's adapter, as the controller sees it
    stage,      \* of each operation
    adapters,   \* names of the adapters in the PeftModel
    active,     \* its active adapter
    optimizer,  \* adapter_optimizer: whose parameters the optimizer of a run has
    content,    \* what is in each adapter, and in its run's optimizer
    performed,  \* operations that returned a result or raised
    saved,      \* checkpoint each save wrote, as a set
    target, kind    \* run and kind of each operation

inputs == <<target, kind>>
model == <<adapters, active, optimizer, content>>
vars == <<life, stage, model, performed, saved, inputs>>

Init ==
    /\ life = [r \in Runs |-> "new"]
    /\ stage = [o \in Operations |-> "new"]
    /\ adapters = {Base}
    /\ active = Base
    /\ optimizer = [r \in Runs |-> None]
    /\ content = [r \in Runs |-> Fresh]
    /\ performed = {}
    /\ saved = [o \in Operations |-> {}]
    /\ target \in [Operations -> Runs] /\ kind \in [Operations -> Kinds]
    /\ [o \in Operations |-> <<target[o], kind[o]>>] \in Calls

-----------------------------------------------------------------------------
(* HFTrainingBackend: the remote calls. The execution lock of a run admits *)
(* one operation at a time; unload_model does not wait for it. That a load *)
(* may come after the removal is the fault "late".                         *)
CreateBegin(r) ==
    /\ life[r] = "new"
    /\ life' = [life EXCEPT ![r] = "creating"]
    /\ UNCHANGED <<stage, model, performed, saved, inputs>>

RemoveBegin(r) ==
    /\ life[r] = "live"
    /\ "late" \in Faults \/
           \A o \in Operations : ~(target[o] = r /\ kind[o] = "load" /\ stage[o] = "running")
    /\ life' = [life EXCEPT ![r] = "leaving"]
    /\ UNCHANGED <<stage, model, performed, saved, inputs>>

OpBegin(o) ==
    LET r == target[o]
    IN  /\ stage[o] = "new"
        /\ life[r] = "live"
        /\ \A p \in Operations : target[p] = r => stage[p] # "running"
        /\ kind[o] = "load" => \E p \in Operations : saved[p] # {}
        /\ stage' = [stage EXCEPT ![o] = "running"]
        /\ UNCHANGED <<life, model, performed, saved, inputs>>

-----------------------------------------------------------------------------
(* HFTrainingModel.                                                        *)

MutantNewOptimizer(r) ==
    /\ optimizer' = [optimizer EXCEPT ![r] = active]
    /\ active' = r

(* set_adapter, and an AdamW for the parameters that require gradients.    *)
NewOptimizer(r) ==
    /\ active' = r
    /\ optimizer' = [optimizer EXCEPT ![r] = r]

(* The target modules match the model, or the call is refused. The fault   *)
(* "half": add_adapter put the adapter into the model, and something after *)
(* it raised; no run of that name is known then, and nothing removes it.   *)
CreateAdapter(r) ==
    /\ life[r] = "creating"
    /\ \/ /\ life' = [life EXCEPT ![r] = "live"]
          /\ adapters' = adapters \cup {r}
          /\ NewOptimizer(r)
          /\ content' = [content EXCEPT ![r] = WithOptimizer(Fresh)]
       \/ life' = [life EXCEPT ![r] = "failed"] /\ UNCHANGED model
       \/ /\ "half" \in Faults
          /\ life' = [life EXCEPT ![r] = "half"]
          /\ adapters' = adapters \cup {r}
          /\ active' \in {active, r}
          /\ UNCHANGED <<optimizer, content>>
    /\ UNCHANGED <<stage, performed, saved, inputs>>

MutantDeleteAdapter(r) == UNCHANGED <<adapters, active>>

(* PeftModel.delete_adapter (external): when it was the active one, one of *)
(* the others becomes active.                                              *)
DeleteAdapter(r) ==
    /\ adapters' = adapters \ {r}
    /\ IF active = r THEN active' \in adapters' ELSE UNCHANGED active

RemoveAdapter(r) ==
    /\ life[r] = "leaving"
    /\ life' = [life EXCEPT ![r] = "gone"]
    /\ IF optimizer[r] = None THEN UNCHANGED model
       ELSE /\ DeleteAdapter(r)
            /\ optimizer' = [optimizer EXCEPT ![r] = None]
            /\ content' = [content EXCEPT ![r] = Fresh]
    /\ UNCHANGED <<stage, performed, saved, inputs>>

Running(o, k) == stage[o] = "running" /\ kind[o] = k
Returns(o) ==
    /\ stage' = [stage EXCEPT ![o] = "done"]
    /\ performed' = performed \cup {o}

MutantActivateAdapter(r) == UNCHANGED active

ActivateAdapter(r) == active' = r

(* All micro-batches, forward and backward, on the active adapter.         *)
Forward(o) ==
    LET r == target[o]
    IN  /\ Running(o, "forward")
        /\ optimizer[r] # None
        /\ ActivateAdapter(r)
        /\ content' = [q \in Runs |->
               IF q = active' THEN [content[q] EXCEPT !.gradients = @ \cup {o}] ELSE content[q]]
        /\ Returns(o)
        /\ UNCHANGED <<life, adapters, optimizer, saved, inputs>>

(* The gradients of the parameters the optimizer has.                      *)
OptimStep(o) ==
    LET r == target[o]
        q == optimizer[r]
        stepped == content[q].gradients
    IN  /\ Running(o, "optim")
        /\ q # None
        /\ content' = [content EXCEPT ![r].moments = {stepped \cup UNION @},
                                      ![q].weights = @ \cup stepped, ![q].gradients = {}]
        /\ Returns(o)
        /\ UNCHANGED <<life, adapters, active, optimizer, saved, inputs>>

(* With the optimizer (a training checkpoint) or without.                  *)
SaveState(o) ==
    LET r == target[o]
    IN  /\ Running(o, "save")
        /\ optimizer[r] # None
        /\ \E x \in WithOrWithout(content[r]) : saved' = [saved EXCEPT ![o] = {Written(x)}]
        /\ Returns(o)
        /\ UNCHANGED <<life, model, inputs>>

(* load_adapter makes the adapter if there is none by that name. The       *)
(* optimizer is new, with the state of the checkpoint's if that is wanted. *)
LoadState(o) ==
    LET r == target[o]
    IN  /\ Running(o, "load")
        /\ adapters' = adapters \cup {r}
        /\ NewOptimizer(r)
        /\ \E file \in UNION {saved[p] : p \in Operations} :
               \E f \in WithOrWithout(file) : content' = [content EXCEPT ![r] = Resumed(@, f)]
        /\ Returns(o)
        /\ UNCHANGED <<life, saved, inputs>>

(* Raising.  The adapter is not there or the call is malformed, and nothing *)
(* has changed; or the GPU, the disk or a loss function fails half-way.     *)
InForward(o) ==
    LET r == target[o]
    IN  /\ kind[o] = "forward" /\ optimizer[r] # None
        /\ ActivateAdapter(r)
        /\ \E part \in Parts :
               content' = [content EXCEPT ![r] = Interrupted(part, "forward", o, @, Fresh)]
        /\ UNCHANGED <<adapters, optimizer>>

InOptimStep(o) ==
    LET r == target[o]
    IN  /\ kind[o] = "optim" /\ optimizer[r] # None
        /\ content' = [content EXCEPT ![r] = Interrupted("middle", "optim", o, @, Fresh)]
        /\ UNCHANGED <<adapters, active, optimizer>>

(* In load_adapter, or after it with the optimizer of before.              *)
InLoadState(o) ==
    LET r == target[o]
    IN  /\ kind[o] = "load"
        /\ adapters' = adapters \cup {r}
        /\ \E part \in Parts :
               /\ IF part = "end" THEN ActivateAdapter(r) ELSE UNCHANGED active
               /\ \E file \in UNION {saved[p] : p \in Operations} :
                      content' = [content EXCEPT ![r] =
                          Interrupted(part, "load", o, @, [file EXCEPT !.moments = {}])]
        /\ UNCHANGED optimizer

Raise(o) ==
    /\ stage[o] = "running"
    /\ stage' = [stage EXCEPT ![o] = "failed"]
    /\ performed' = performed \cup {o}
    /\ UNCHANGED model \/ InForward(o) \/ InOptimStep(o) \/ InLoadState(o)
    /\ UNCHANGED <<life, saved, inputs>>

-----------------------------------------------------------------------------
Method(o) == Forward(o) \/ OptimStep(o) \/ SaveState(o) \/ LoadState(o) \/ Raise(o)

Next ==
    \/ \E r \in Runs :
           CreateBegin(r) \/ CreateAdapter(r) \/ RemoveBegin(r) \/ RemoveAdapter(r)
    \/ \E o \in Operations : OpBegin(o) \/ Method(o)

Spec == Init /\ [][Next]_vars

-----------------------------------------------------------------------------
(* Properties *)

(* An optimizer steps the parameters of its own run, which are in the      *)
(* model: whatever was active when it was made, and whatever was removed.  *)
OptimizersAreOwn ==
    \A r \in Runs : optimizer[r] # None => optimizer[r] = r /\ r \in adapters

(* The memory of the GPU holds no adapter of a run that is gone or was     *)
(* refused, whatever failed in between, but those whose creation raised    *)
(* half-way; and the active adapter is there.                              *)
AdaptersComeBack ==
    /\ \A r \in Runs : r \in adapters => life[r] \in {"live", "leaving", "half"}
    /\ active \in adapters

(* The actor implements private adapters: activation of one adapter before *)
(* each use keeps the operations of the runs apart, in any order of calls, *)
(* also those that fail half-way.                                          *)
Age == [r \in Runs |-> IF life[r] \in {"live", "leaving"} THEN "alive"
                       ELSE IF life[r] = "gone" THEN "dead" ELSE "unborn"]

Private == INSTANCE PrivateAdapters WITH age <- Age, adapter <- content
AdaptersArePrivate == Private!Spec
=============================================================================
