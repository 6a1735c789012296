----------------------------- MODULE OpenAIRouter -----------------------------
(***************************************************************************)
(* The OpenAI-compatible endpoints (oai/router.py, model_resolver.py and   *)
(* proxy.py) in front of the data-parallel engines of one base model       *)
(* (backends/sampling_backend.py: DPSamplingBackend).                      *)
(*                                                                         *)
(* A call names the base model or a checkpoint. For a checkpoint all the   *)
(* engines are asked to load its adapter, under the name of the training   *)
(* run, unless the router remembers that they did; then the call goes to   *)
(* the engine whose turn it is. The engines' own registry of adapters is   *)
(* vLLM's (external, backends/vllm_api_server.py).                         *)
(***************************************************************************)
EXTENDS Naturals

CONSTANTS
    Replicas,       \* number of engines (data_parallel_size)
    Calls,          \* handlers of completions and chat/completions
    Checkpoints,    \* sampler checkpoints that resolve
    RunOf,          \* the training run of a checkpoint: its lora_id
    Bare,           \* checkpoints with metadata but without an adapter directory
    Base,           \* the base model
    None

Engines == 0..(Replicas - 1)
Names == {RunOf[c] : c \in Checkpoints}

VARIABLES
    turn,       \* _rr_counter % _dp_size
    loaded,     \* _loaded_loras: names the router takes for loaded, with the engine
    registry,   \* the adapter that an engine serves under a name
    stage,      \* of a call
    model,      \* what the call asks for
    url,        \* the engine whose turn it was
    load,       \* _ensure_lora_loaded for each engine
    answer      \* what generated the answer

routing == <<turn, url, model>>
vars == <<turn, loaded, registry, stage, model, url, load, answer>>

NoLoads == [e \in Engines |-> "idle"]

Init ==
    /\ turn = 0
    /\ loaded = {}
    /\ registry = [e \in Engines |-> [n \in Names |-> None]]
    /\ stage = [c \in Calls |-> "new"]
    /\ model = [c \in Calls |-> Base]
    /\ url = [c \in Calls |-> 0]
    /\ load = [c \in Calls |-> NoLoads]
    /\ answer = [c \in Calls |-> None]

-----------------------------------------------------------------------------
(* resolve_model: a checkpoint without an adapter is the base model.       *)
UsesAdapter(m) == m # Base /\ m \notin Bare

(* A name that does not resolve, a model without sampling: 4xx, before any *)
(* engine is chosen.                                                       *)
Refuse(c) ==
    /\ stage[c] = "new"
    /\ stage' = [stage EXCEPT ![c] = "failed"]
    /\ UNCHANGED <<routing, loaded, registry, load, answer>>

(* get_next_openai_api_url and, up to the first await, the gather of       *)
(* _ensure_lora_loaded.                                                    *)
Route(c, m) ==
    /\ stage[c] = "new"
    /\ model' = [model EXCEPT ![c] = m]
    /\ url' = [url EXCEPT ![c] = turn]
    /\ turn' = (turn + 1) % Replicas
    /\ stage' = [stage EXCEPT ![c] = IF UsesAdapter(m) THEN "loading" ELSE "forwarding"]
    /\ load' = [load EXCEPT ![c] =
                  IF UsesAdapter(m)
                  THEN [e \in Engines |-> IF <<RunOf[m], e>> \notin loaded
                                          THEN "posting" ELSE "idle"]
                  ELSE NoLoads]
    /\ UNCHANGED <<loaded, registry, answer>>

(* /v1/load_lora_adapter: an engine keeps the first adapter of a name and  *)
(* tells later ones "already loaded"; it may refuse one, too (external).   *)
Register(c, e) ==
    LET n == RunOf[model[c]] IN
    /\ load[c][e] = "posting"
    /\ \/ /\ registry[e][n] = None
          /\ registry' = [registry EXCEPT ![e][n] = model[c]]
          /\ load' = [load EXCEPT ![c][e] = "replied"]
       \/ /\ registry[e][n] # None
          /\ load' = [load EXCEPT ![c][e] = "replied"]
          /\ UNCHANGED registry
       \/ /\ load' = [load EXCEPT ![c][e] = "raised"]
          /\ UNCHANGED registry
    /\ UNCHANGED <<routing, loaded, stage, answer>>

(* 200 and "already" are remembered; a timeout loses either answer.        *)
Remember(c, e) ==
    /\ load[c][e] = "replied"
    /\ \/ /\ loaded' = loaded \cup {<<RunOf[model[c]], e>>}
          /\ load' = [load EXCEPT ![c][e] = "idle"]
       \/ /\ load' = [load EXCEPT ![c][e] = "raised"]
          /\ UNCHANGED loaded
    /\ UNCHANGED <<routing, registry, stage, answer>>

(* gather passes on the first exception; the other loads go on.            *)
LoadRaised(c) ==
    /\ stage[c] = "loading"
    /\ \E e \in Engines : load[c][e] = "raised"
    /\ stage' = [stage EXCEPT ![c] = "failed"]
    /\ UNCHANGED <<routing, loaded, registry, load, answer>>

AllLoaded(c) ==
    /\ stage[c] = "loading"
    /\ load[c] = NoLoads
    /\ stage' = [stage EXCEPT ![c] = "forwarding"]
    /\ UNCHANGED <<routing, loaded, registry, load, answer>>

(* proxy_request: the engine answers for the name it was given, or with an *)
(* error for one it does not know, which is passed on; a call that gets no *)
(* answer is a server error.                                               *)
Forward(c) ==
    LET n == RunOf[model[c]] IN
    /\ stage[c] = "forwarding"
    /\ \/ /\ ~UsesAdapter(model[c])
          /\ answer' = [answer EXCEPT ![c] = Base]
          /\ stage' = [stage EXCEPT ![c] = "answered"]
       \/ /\ UsesAdapter(model[c])
          /\ answer' = [answer EXCEPT ![c] = registry[url[c]][n]]
          /\ stage' = [stage EXCEPT ![c] = IF registry[url[c]][n] = None THEN "failed" ELSE "answered"]
       \/ stage' = [stage EXCEPT ![c] = "failed"] /\ UNCHANGED answer
    /\ UNCHANGED <<routing, loaded, registry, load>>

Next ==
    \E c \in Calls :
        \/ Refuse(c) \/ LoadRaised(c) \/ AllLoaded(c) \/ Forward(c)
        \/ \E m \in {Base} \cup Checkpoints : Route(c, m)
        \/ \E e \in Engines : Register(c, e) \/ Remember(c, e)

Spec == Init /\ [][Next]_vars

-----------------------------------------------------------------------------
(* Properties.                                                             *)

(* What the router remembers is so: the engine does serve the name. (An    *)
(* engine lives as long as the router and is never asked to unload.)       *)
MemoryIsTrue == \A n \in Names, e \in Engines : <<n, e>> \in loaded => registry[e][n] # None

(* A call that is forwarded with the name of an adapter goes to an engine  *)
(* that knows the name, whichever engine's turn it was and however many    *)
(* loads failed or were cut short for the calls before it.                 *)
NameIsKnown ==
    \A c \in Calls : stage[c] = "forwarding" /\ UsesAdapter(model[c]) =>
        registry[url[c]][RunOf[model[c]]] # None

(* The answer to a call that names a checkpoint was generated with the     *)
(* weights of that checkpoint (model_resolver.py: "checkpoint-based        *)
(* resolution").                                                           *)
AnsweredByNamed ==
    \A c \in Calls : stage[c] = "answered" /\ model[c] \notin Bare => answer[c] = model[c]

=============================================================================
