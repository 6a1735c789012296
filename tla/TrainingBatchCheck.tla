--------------------------- MODULE TrainingBatchCheck ---------------------------
(* The batch theorems of FSDPSlotsProofs, and what needs sums, over small    *)
(* requests; TLC evaluates them.                                           *)
EXTENDS TrainingResults

Rows(n) == [i \in 1..n |-> i]

(* Shards, one after the other, are the request, so that the outputs which *)
(* forward collects from the actors are in its order.                      *)
ASSUME ShardsAreTheRequest ==
    \A n \in 0..9, w \in 1..4 :
        FlattenSeq([k \in 1..w |-> Shard(Rows(n), w, k)]) = Rows(n)

(* So are the micro-batches, and each of a shard's has as many rows.       *)
ASSUME MicroBatchesAreTheRequest ==
    \A n \in 1..9, size \in 1..5 :
        FlattenSeq([j \in 1..MicroCount(n, size) |-> Micro(Rows(n), size, j)]) = Rows(n)

(* All actors make equally many of them, and some make more than one.      *)
ASSUME MicroBatchesAgree ==
    \A n \in 0..9, w \in 1..4, mb \in 0..4 : \A j, k \in 1..w :
        MicroBatches(n, w, mb, j) = MicroBatches(n, w, mb, k)

ASSUME SomeMicroBatchesAreUsed == \E n \in 0..9 : MicroBatches(n, 2, 2, 1) > 1

Names == {"target_tokens", "weights", "custom"}
SomeRows ==
    [length : 1..2, fields : UNION {[S -> {1, 2}] : S \in SUBSET Names}, given : {2}]
Requests == UNION {[1..n -> {r \in SomeRows : r.length = 2}] : n \in 0..2}

(* A request that the backend accepts is accepted by every actor.          *)
ASSUME AcceptedFieldsPassInEveryShard ==
    \A data \in Requests : FSDPAccepts(data) =>
        \A w \in 1..3, k \in 1..3 : k <= w =>
            /\ ActorAccepts(Shard(data, w, k), Keys(data))
            /\ Stacks(Shard(data, w, k), Keys(data), Owned)

(* Every loss finds its inputs with FSDP, which makes up what the client   *)
(* leaves out; with HF it does only if the client sends them.              *)
ASSUME LossesFindTheirInputs ==
    \A keys \in SUBSET (Owned \ Derived), rlhf \in BOOLEAN :
        /\ Needed(rlhf) \subseteq LossKeys(keys, rlhf)
        /\ Needed(rlhf) \subseteq HFLossKeys(keys) <=> Needed(rlhf) \ Derived \subseteq keys

(* An empty row, or targets of another length than their row, may be in    *)
(* one shard only and is noticed there only: FSDPSlots has it as a fault.  *)
ASSUME OneShardCanBeRefused ==
    \E data \in [1..2 -> SomeRows] : FSDPAccepts(data) /\
        Prepares(Shard(data, 2, 1)[1]) /\ ~Prepares(Shard(data, 2, 2)[1])

(* A position that has a weight by default is scored against a token of    *)
(* its own row.                                                            *)
ASSUME NoForeignLabels ==
    \A data \in UNION {[1..n -> {r \in SomeRows : DOMAIN r.fields = {}}] : n \in 1..3} :
        \A i \in DOMAIN data : \A p \in 1..data[i].length :
            DefaultWeight(data[i], p) = 1 => Rolled(data, i, p) = <<i, p + 1>>

(* Rows with targets of their own and rows without.                        *)
Ids == [i \in 1..5 |-> 100 * Scale * i]
Mixed ==
    {[i \in 1..n |-> [length |-> 1 + (i % 2), given |-> 1 + (i % 2), id |-> Ids[i],
                      fields |-> IF i \in S THEN [f \in {"target_tokens"} |-> 1] ELSE <<>>]] :
        n \in 1..5, S \in SUBSET (1..5)}

(* However a request is divided among actors and micro-batches, its losses *)
(* and gradients are the sums over its rows, its means the averages over   *)
(* them, and its outputs theirs in their order: the number of GPUs and     *)
(* micro_batch_size do not rescale the learning rate.                      *)
ASSUME FSDPResultsAreTheRequest ==
    \A data \in Mixed, w \in 1..3, mb \in 0..3 : w <= Len(data) =>
        /\ FSDPLoss(data, w, mb) = Loss(data)
        /\ FSDPGradient(data, w, mb) = Loss(data)
        /\ FSDPMean(data, w, mb) = Mean(data)
        /\ FSDPOutputs(data, w, mb) = data

(* The HF backend answers the requests it accepts in the same way.         *)
ASSUME HFResultsAreTheRequest ==
    \A data \in {d \in Mixed : HFAccepts(d)}, size \in 1..6 :
        /\ HFLoss(data, size) = Loss(data)
        /\ HFMean(data, size) = Mean(data)
        /\ HFOutputs(data, size) = data

=============================================================================
