----------------------------- MODULE LoraGeometry -----------------------------
(***************************************************************************)
(* Which modules and parameters of a base model an adapter covers, and     *)
(* where that is decided and compared: the model map                       *)
(* (backends/lora_modules.py, backends/vllm_lora_compat.py), the validators*)
(* of a model's configuration (config.py), the FSDP slot pool              *)
(* (backends/fsdp_training_backend.py), what a training run records and    *)
(* what a checkpoint says (training_controller.py, checkpoints.py).        *)
(*                                                                         *)
(* These are functions of their arguments. Lists of names are sets, as     *)
(* every comparison in the code takes them.                                *)
(***************************************************************************)
EXTENDS Naturals

CONSTANTS
    Unset,      \* a field that is not set, a name that does not resolve, a file that does not say
    Malformed   \* a recorded list that is no list of distinct names

-----------------------------------------------------------------------------
(* MODULE_MAP and ARCHITECTURE_MODULE_MAP.                                 *)
Attn == {"q_proj", "k_proj", "v_proj", "o_proj"}
QV == {"q_proj", "v_proj"}
Mlp == {"gate_proj", "up_proj", "down_proj"}
Unembed(series) == IF series = "llama" THEN {"lm_head"} ELSE {}
DeltaNet == {"linear_attn.in_proj_qkv", "linear_attn.in_proj_z", "linear_attn.out_proj"}
Gates == {"linear_attn.in_proj_b", "linear_attn.in_proj_a"}
Experts == {"mlp.experts.gate_up_proj", "mlp.experts.down_proj"}

(* The flags of a Tinker LoraConfig, and what a request resolves to.       *)
Flags == [attn: BOOLEAN, mlp: BOOLEAN, unembed: BOOLEAN]
Nothing == [modules |-> {}, parameters |-> {}]

(* A base model: its config.json, if there is one, and what its path says. *)
ModelTypes == {"qwen3", "qwen3_5", "qwen3_5_moe", "llama", "other"}
Marks == {"qwen", "qwen3.5", "a3b", "llama"}
Models == {m \in [described: BOOLEAN, type: ModelTypes, conditional: BOOLEAN, path: SUBSET Marks] :
               "qwen3.5" \in m.path => "qwen" \in m.path}

SeriesOfType == [t \in ModelTypes |-> CASE t = "llama" -> "llama" [] t = "other" -> Unset
                                       [] OTHER -> "qwen"]
ArchitectureOfType == [t \in ModelTypes |-> IF t \in {"qwen3_5", "qwen3_5_moe"} THEN t ELSE Unset]

SeriesOfPath(p) ==
    CASE "qwen" \in p -> "qwen"
      [] "qwen" \notin p /\ "llama" \in p -> "llama"
      [] OTHER -> Unset

ArchitectureOfPath(p) ==
    CASE {"qwen3.5", "a3b"} \subseteq p -> "qwen3_5_moe"
      [] "qwen3.5" \in p /\ "a3b" \notin p -> "qwen3_5"
      [] OTHER -> Unset

(* resolve_model_series_and_architecture: a config.json has the last word. *)
Series(m) == IF m.described THEN SeriesOfType[m.type] ELSE SeriesOfPath(m.path)
Architecture(m) == IF m.described THEN ArchitectureOfType[m.type] ELSE ArchitectureOfPath(m.path)

(* vllm_nests_language_model: adapters are exported with aliases.          *)
Nests(m) == IF m.described THEN m.conditional ELSE ArchitectureOfPath(m.path) # Unset

Assemble(series, architecture, f, full) ==
    [modules |->
        (IF f.attn THEN Attn \cup (IF architecture = Unset THEN {} ELSE DeltaNet)
                             \cup (IF architecture = Unset \/ ~full THEN {} ELSE Gates) ELSE {})
        \cup (IF f.mlp THEN Mlp ELSE {})
        \cup (IF f.unembed THEN Unembed(series) ELSE {}),
     parameters |-> IF f.mlp /\ architecture = "qwen3_5_moe" THEN Experts ELSE {}]

-----------------------------------------------------------------------------
(* The configuration of a model, as far as it decides about adapters.      *)

(* resolve_lora_targets raises for an unknown series.                      *)
Resolve(c, f) ==
    IF Series(c.model) = Unset THEN Unset
    ELSE Assemble(Series(c.model), Architecture(c.model), f, c.full)

(* achievable_lora_target_sets, of a known series.                         *)
Achievable(c) == {Resolve(c, f) : f \in Flags} \ {Nothing}

(* The validators of ModelConfig.                                          *)
ValidRanks(c) ==
    /\ c.maxRank >= 1
    /\ c.slots # Unset =>
          /\ DOMAIN c.slots # {}
          /\ \A r \in DOMAIN c.slots : r >= 1 /\ c.slots[r] >= 1
          /\ c.backend = "fsdp" =>
                c.maxRank \in DOMAIN c.slots /\ \A r \in DOMAIN c.slots : r <= c.maxRank

ValidTargets(c) ==
    /\ c.modules # {}
    /\ c.qv => c.backend = "fsdp" /\ c.parameters \in {Unset, {}} /\ c.modules \in {Unset, QV}
    /\ c.backend = "fsdp" /\ ~c.qv => c.modules # QV

ValidColocation(c) ==
    c.colocate => c.tensorParallel = 1 /\ c.dataParallel <= 1 /\ c.capabilities = {"training", "sampling"}

ValidModel(c) ==
    ValidRanks(c) /\ ValidTargets(c) /\ ValidColocation(c) /\ c.ratio >= 1 /\ c.capabilities # {}

(* The slots of each rank.                                                 *)
RankSlots(c) ==
    IF c.slots # Unset THEN c.slots
    ELSE IF c.maxRank <= 8 THEN [r \in {c.maxRank} |-> 16]
    ELSE [r \in {8, c.maxRank} |-> IF r = 8 THEN 16 ELSE 8]

(* _get_target_geometry_from_config: Unset where it raises.                 *)
SlotGeometry(c) ==
    LET resolved == Resolve(c, c.train)
        explicit == [modules |-> c.modules,
                     parameters |-> IF c.parameters # Unset THEN c.parameters
                                    ELSE IF resolved # Unset THEN resolved.parameters ELSE {}]
        implicit == [resolved EXCEPT !.parameters = IF c.parameters # Unset THEN c.parameters ELSE @]
        chosen == IF c.modules # Unset THEN explicit ELSE implicit
    IN  CASE c.qv -> [modules |-> QV, parameters |-> {}]
          [] ~c.qv /\ c.modules = Unset /\ resolved = Unset -> Unset
          [] OTHER -> IF chosen = Nothing THEN Unset ELSE chosen

(* _validate_explicit_target_modules.                                      *)
Requestable(c) ==
    \/ c.qv
    \/ c.modules = Unset /\ c.parameters = Unset
    \/ Series(c.model) = Unset
    \/ SlotGeometry(c) \in Achievable(c)

(* FSDPTrainingBackend.__init__ does not raise.                            *)
Starts(c) == ValidModel(c) /\ c.backend = "fsdp" /\ SlotGeometry(c) # Unset /\ Requestable(c)

-----------------------------------------------------------------------------
(* A client asks for an adapter. *)

(* _validate_lora_config and the check of the rank in create_adapter.      *)
SlotAccepts(c, f, rank) ==
    /\ \/ c.qv
       \/ Resolve(c, f) = Unset /\ c.modules # Unset
       \/ Resolve(c, f) # Unset /\ Resolve(c, f) = SlotGeometry(c)
    /\ rank \in DOMAIN RankSlots(c)

(* find_unmatched_target_modules and _parameters, in HFTrainingModel's     *)
(* create_adapter and in the FSDP worker's initialize.                     *)
Unmatched(present, targets) == targets \ present
Covers(present, g) ==
    Unmatched(present.modules, g.modules) = {} /\ Unmatched(present.parameters, g.parameters) = {}

(* _effective_lora_targets: what the run records.                          *)
Recorded(c, f) ==
    IF c.backend = "fsdp" /\ (c.qv \/ c.modules # Unset \/ c.parameters # Unset)
    THEN SlotGeometry(c) ELSE Resolve(c, f)

(* has_legacy_lora_state and _restored_run_geometry_mismatch: a run of an  *)
(* earlier process goes on under configuration c.                          *)
Legacy(run) == run.modules = Unset \/ \E k \in {"attn", "mlp", "unembed"} : run.flags[k] = Unset
OrEmpty(S) == IF S = Unset THEN {} ELSE S
Resumes(c, run) ==
    /\ ~Legacy(run)
    /\ Recorded(c, run.flags) # Unset
    /\ Recorded(c, run.flags) = [modules |-> run.modules, parameters |-> OrEmpty(run.parameters)]

NewRun(c, f, rank) ==
    [flags |-> f, rank |-> rank, modules |-> Recorded(c, f).modules,
     parameters |-> Recorded(c, f).parameters]

Alpha(c, rank) == rank * c.ratio

-----------------------------------------------------------------------------
(* What a checkpoint says: adapter_config.json, then metadata.json.  A file*)
(* that cannot be read is Unset; an empty list of modules is Malformed.    *)

Stated(x) == x # Unset /\ x # Malformed

SavedModules(k) ==
    IF k.adapter # Unset /\ Stated(k.adapter.modules) THEN k.adapter.modules
    ELSE IF k.metadata # Unset /\ Stated(k.metadata.modules) THEN k.metadata.modules
    ELSE Unset

SavedParameters(k) ==
    CASE k.adapter # Unset /\ k.adapter.parameters # Malformed -> OrEmpty(k.adapter.parameters)
      [] (k.adapter = Unset \/ k.adapter.parameters = Malformed) /\ k.metadata # Unset ->
             IF k.metadata.parameters = Malformed THEN Unset ELSE OrEmpty(k.metadata.parameters)
      [] OTHER -> IF k.adapter = Unset THEN {} ELSE Unset

SavedAlpha(k) ==
    IF k.metadata # Unset /\ k.metadata.alpha # Unset THEN k.metadata.alpha
    ELSE IF k.adapter # Unset THEN k.adapter.alpha ELSE Unset

(* _check_adapter_compatible, of a checkpoint whose metadata was read.     *)
Compatible(c, k, run) ==
    /\ k.metadata.model = c.model
    /\ k.metadata.rank \in {Unset, run.rank}
    /\ SavedAlpha(k) \in {Unset, Alpha(c, run.rank)}
    /\ SavedModules(k) # Unset /\ run.modules # Unset /\ SavedModules(k) = run.modules
    /\ SavedParameters(k) # Unset /\ SavedParameters(k) = OrEmpty(run.parameters)

(* _validate_checkpoint_geometry of the FSDP backend.                      *)
SlotTakes(c, k) ==
    /\ SavedModules(k) # Unset /\ SavedModules(k) = SlotGeometry(c).modules
    /\ SavedParameters(k) # Unset /\ SavedParameters(k) = SlotGeometry(c).parameters

(* The checkpoint that save_checkpoint writes for a run.                   *)
CheckpointOf(c, run) ==
    [adapter |-> [modules |-> run.modules, parameters |-> run.parameters, alpha |-> Alpha(c, run.rank)],
     metadata |-> [modules |-> run.modules, parameters |-> run.parameters, alpha |-> Alpha(c, run.rank),
                   rank |-> run.rank, model |-> c.model]]

=============================================================================
