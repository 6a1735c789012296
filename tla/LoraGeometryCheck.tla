--------------------------- MODULE LoraGeometryCheck ---------------------------
(* The theorems on geometry of ServerLifecycleProofs over models,          *)
(* configurations, requests and checkpoints that tell all their cases      *)
(* apart; TLC evaluates them.                                              *)
EXTENDS LoraGeometry

Hub(p) == [described |-> FALSE, type |-> "other", conditional |-> FALSE, path |-> p]
Local(t) == [described |-> TRUE, type |-> t, conditional |-> FALSE, path |-> {"llama"}]
SomeModels ==
    {Local(t) : t \in ModelTypes}
        \cup {Hub({"qwen", "qwen3.5", "a3b"}), Hub({"qwen", "qwen3.5"}), Hub({"llama"}), Hub({})}

ModuleLists ==
    {Unset, QV, Attn, {"c_attn"}, Attn \cup Mlp, Attn \cup DeltaNet \cup Mlp, Attn \cup DeltaNet \cup Gates \cup Mlp}

Config(model, backend, modules, parameters, qv, train, full, slots, maxRank) ==
    [model |-> model, backend |-> backend, modules |-> modules, parameters |-> parameters, qv |-> qv,
     train |-> train, full |-> full, slots |-> slots, maxRank |-> maxRank, ratio |-> 2,
     colocate |-> FALSE, tensorParallel |-> 1, dataParallel |-> 1, capabilities |-> {"training", "sampling"}]

AllFlags == [attn |-> TRUE, mlp |-> TRUE, unembed |-> TRUE]

Geometries ==
    {c \in {Config(m, b, l, p, q, f, full, Unset, 16) :
               m \in SomeModels, b \in {"fsdp", "hf"}, l \in ModuleLists, p \in {Unset, {}, Experts},
               q \in BOOLEAN, f \in Flags, full \in BOOLEAN} : ValidModel(c)}

Pools ==
    {c \in {Config(Local("llama"), b, Unset, Unset, FALSE, AllFlags, FALSE, s, r) :
               b \in {"fsdp", "hf"}, r \in {0, 4, 8, 16},
               s \in {Unset} \cup UNION {[R -> {0, 2}] : R \in SUBSET {4, 8, 16}}} : ValidModel(c)}

Started == {c \in Geometries : Starts(c)}
(* Every known model has a configuration that starts; some do not start    *)
(* only because their targets could never be asked for.                    *)
ASSUME SomeStart == \A m \in SomeModels : \E c \in Started : c.model = m
ASSUME SomeDoNot == \E c \in Geometries : c.backend = "fsdp" /\ ~Starts(c) /\ SlotGeometry(c) # Unset

(* A server that starts has a client request it accepts.                   *)
ASSUME StartedServersAreUsable == \A c \in Started : \E f \in Flags : SlotAccepts(c, f, c.maxRank)

(* What a run records is what its slot has.                                *)
ASSUME RecordsTellTheSlots ==
    \A c \in Started, f \in Flags : SlotAccepts(c, f, c.maxRank) => Recorded(c, f) = SlotGeometry(c)

(* The largest rank has slots, and no slot is larger.                      *)
ASSUME MaxRankIsServed ==
    \A c \in Pools : c.backend = "fsdp" =>
        c.maxRank \in DOMAIN RankSlots(c) /\ \A r \in DOMAIN RankSlots(c) : r <= c.maxRank /\ RankSlots(c)[r] >= 1

(* A pool that initialised has in its model all that a run will record.    *)
ASSUME RecordedIsPresent ==
    \A c \in Started, f \in Flags :
        \A present \in {[modules |-> M, parameters |-> P] :
                             M \in ModuleLists \ {Unset}, P \in {{}, Experts}} :
            SlotAccepts(c, f, c.maxRank) /\ Covers(present, SlotGeometry(c)) =>
                Covers(present, Recorded(c, f))

(* A run resumes under its own configuration and its checkpoints load.     *)
ASSUME OwnCheckpointsLoad ==
    \A c \in Started, f \in Flags : SlotAccepts(c, f, c.maxRank) =>
        LET run == NewRun(c, f, c.maxRank) IN
        /\ Resumes(c, run)
        /\ Compatible(c, CheckpointOf(c, run), run)
        /\ SlotTakes(c, CheckpointOf(c, run))

(* Checkpoints whose files are lost, old or damaged.                       *)
Lists(S) == {Unset, Malformed, {}, S}
Checkpoints(c, run) ==
    {[adapter |-> a, metadata |-> d] :
        a \in {Unset} \cup {[modules |-> m, parameters |-> p, alpha |-> 32] :
                               m \in {Malformed, run.modules, QV}, p \in Lists(Experts)},
        d \in {[modules |-> m, parameters |-> p, alpha |-> x, rank |-> 16, model |-> c.model] :
                   m \in {Unset, run.modules}, p \in Lists(run.parameters), x \in {Unset, 32}}}

Sample == {c \in Started : c.train = AllFlags /\ c.full}
(* What the controller accepts, the backend takes.                         *)
ASSUME AcceptedLoadsFit ==
    \A c \in Sample, f \in Flags : SlotAccepts(c, f, 16) =>
        LET run == NewRun(c, f, 16) IN
        \A k \in Checkpoints(c, run) : Compatible(c, k, run) => SlotTakes(c, k)

(* A run that goes on under another configuration of its model takes its   *)
(* old checkpoints, and some run does.                                     *)
ASSUME ResumedRunsTakeOldCheckpoints ==
    \A old \in Sample : \A c \in {d \in Sample : d.model = old.model}, f \in Flags :
        LET run == NewRun(old, f, 16) IN
        SlotAccepts(old, f, 16) /\ SlotAccepts(c, f, 16) /\ Resumes(c, run) =>
            Compatible(c, CheckpointOf(old, run), run) /\ SlotTakes(c, CheckpointOf(old, run))
ASSUME SomeResumeElsewhere ==
    \E old, c \in Sample, f \in Flags :
        /\ old # c /\ old.model = c.model /\ SlotAccepts(old, f, 16) /\ SlotAccepts(c, f, 16)
        /\ Resumes(c, NewRun(old, f, 16))

(* A model with an architecture of its own is a qwen, and is exported for  *)
(* the nested model unless its config.json says that it is not.            *)
ASSUME ArchitectureHasSeries ==
    \A m \in Models : Architecture(m) # Unset => Series(m) = "qwen" /\ (m.described \/ Nests(m))

=============================================================================
