----------------------------- MODULE TrainingBatch -----------------------------
(***************************************************************************)
(* One forward or forward_backward request, before the tensors: how its    *)
(* rows are divided among actors and micro-batches                         *)
(* (fsdp_training_backend.py, fsdp_engine.py, hf_training_model.py), which *)
(* fields of loss_fn_inputs are accepted and reach the loss function       *)
(* (loss_inputs.py), and which label each position is scored against.      *)
(*                                                                         *)
(* A request is a sequence of rows [length, fields, given]: the number of  *)
(* tokens, a function from the names of the fields the client sent to their*)
(* signatures (rank and dtype), and the length of target_tokens.           *)
(***************************************************************************)
EXTENDS Integers, Sequences

(* How forward divides n rows among the actors 1..w *)

(* _shard_list: contiguous shards, the first of them one longer.           *)
ShardSize(n, w, k) == n \div w + (IF k <= n % w THEN 1 ELSE 0)
ShardStart(n, w, k) == 1 + (k - 1) * (n \div w) + (IF k - 1 <= n % w THEN k - 1 ELSE n % w)
Shard(data, w, k) ==
    LET start == ShardStart(Len(data), w, k)
    IN  SubSeq(data, start, (start + ShardSize(Len(data), w, k)) - 1)

(* The configured micro-batch is used only if it divides all shards into   *)
(* the same number; 0 means one micro-batch for each shard.                *)
MicroBatchSize(n, w, mb) ==
    IF /\ mb > 0
       /\ \A k \in 1..w : ShardSize(n, w, k) % mb = 0
       /\ \A k \in 1..w : ShardSize(n, w, k) \div mb = ShardSize(n, w, 1) \div mb
    THEN mb ELSE 0

(* What an actor makes of it: FSDPWorkerActor.forward_backward.            *)
MicroBatches(n, w, mb, k) ==
    LET size == MicroBatchSize(n, w, mb)
    IN  IF size > 0 /\ ShardSize(n, w, k) % size = 0 THEN ShardSize(n, w, k) \div size ELSE 1

(* Micro-batches of a given size; the last may be shorter (HF).            *)
MicroCount(n, size) == (n + size - 1) \div size
Micro(data, size, j) ==
    SubSeq(data, (j - 1) * size + 1, IF j * size <= Len(data) THEN j * size ELSE Len(data))

-----------------------------------------------------------------------------
(* Fields *)

Derived == {"target_logprobs"}
Owned == {"target_tokens", "target_logprobs", "weights", "logprobs", "advantages"}

(* client_loss_fn_input_keys.                                              *)
Keys(data) == UNION {DOMAIN data[i].fields : i \in DOMAIN data}

Uniform(data, key) ==
    \A i, j \in DOMAIN data :
        /\ key \in DOMAIN data[i].fields /\ key \in DOMAIN data[j].fields
        /\ data[i].fields[key] = data[j].fields[key]

(* validate_client_loss_fn_inputs.                                         *)
Valid(data, ignored, required) ==
    \/ data = <<>>
    \/ /\ required \subseteq Keys(data)
       /\ \A key \in Keys(data) \ ignored : Uniform(data, key)

HFAccepts(data) == Valid(data, Derived, {"target_tokens"})
FSDPAccepts(data) == Valid(data, Owned, {})

(* What the engine of an actor checks again, of its shard of a request     *)
(* with these keys; and the rows that _prepare_micro_batch refuses.        *)
ActorAccepts(shard, keys) == FSDPAccepts(shard) /\ Keys(shard) \subseteq keys
Prepares(row) ==
    row.length > 0 /\ ("target_tokens" \in DOMAIN row.fields => row.given = row.length)

(* batch_loss_fn_input, for every field that is forwarded as it is.        *)
Stacks(batch, keys, ignored) == \A key \in keys \ ignored : Uniform(batch, key)

(* The tensors that the loss function is given.                            *)
LossKeys(keys, rlhf) ==
    (keys \ Owned) \cup {"target_tokens", "target_logprobs"}
        \cup {key \in {"logprobs", "advantages"} : rlhf \/ key \in keys}
        \cup {key \in {"weights"} : ~rlhf \/ key \in keys}
HFLossKeys(keys) == (keys \ Derived) \cup {"target_logprobs"}

(* _check_loss_fn_inputs of the losses with and without reinforcement.     *)
Needed(rlhf) ==
    {"target_logprobs"} \cup (IF rlhf THEN {"logprobs", "advantages"} ELSE {"weights"})

-----------------------------------------------------------------------------
(* Labels: <<row, position>> of a token of the micro-batch *)

Explicit(row) == "target_tokens" \in DOMAIN row.fields

(* torch.roll over the concatenated rows, where a row says nothing itself. *)
Rolled(batch, i, p) ==
    IF p < batch[i].length THEN <<i, p + 1>>
    ELSE IF i < Len(batch) THEN <<i + 1, 1>> ELSE <<1, 1>>

(* The weight of a position in a row without weights, of a supervised loss.*)
DefaultWeight(row, p) == IF ~Explicit(row) /\ p = row.length THEN 0 ELSE 1

=============================================================================
