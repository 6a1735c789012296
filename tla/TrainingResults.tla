----------------------------- MODULE TrainingResults -----------------------------
(***************************************************************************)
(* What a forward_backward request returns and adds to the gradients, put  *)
(* together from the micro-batches of the actors (fsdp_training_backend.py,*)
(* fsdp_engine.py) or of the one model (hf_training_model.py). A token's   *)
(* share in a loss is an integer that tells it from every other token's;   *)
(* ids are multiples of Scale, so that means are integers too.             *)
(***************************************************************************)
EXTENDS TrainingBatch, SequencesExt

CONSTANT Scale

Total(s) == FoldLeft(LAMBDA a, b : a + b, 0, s)

(* A row's share in the loss of its micro-batch: its own targets, or the   *)
(* labels that are rolled into it, with their default weights.             *)
Share(batch, label) == batch[label[1]].id + Scale * label[2]
RowLoss(batch, i) ==
    IF Explicit(batch[i]) THEN batch[i].id
    ELSE Total([p \in 1..batch[i].length |->
                   DefaultWeight(batch[i], p) * Share(batch, Rolled(batch, i, p))])

(* A loss function sums over rows ("loss:sum"); a ":mean" metric of it     *)
(* would be an average over them.                                          *)
Loss(batch) == Total([i \in DOMAIN batch |-> RowLoss(batch, i)])
Mean(batch) == Loss(batch) \div Len(batch)

Micros(data, size) == [j \in 1..MicroCount(Len(data), size) |-> Micro(data, size, j)]

(* The engine of an actor: the micro-batches of its shard, the sum of      *)
(* their sums and the plain average of their means; backward is called on  *)
(* the loss times the number of actors.                                    *)
EngineSize(n, w, mb, k) == ShardSize(n, w, k) \div MicroBatches(n, w, mb, k)
EngineMicros(data, w, mb, k) == Micros(Shard(data, w, k), EngineSize(Len(data), w, mb, k))
EngineLoss(micros) == Total([j \in DOMAIN micros |-> Loss(micros[j])])
EngineMean(micros) == Total([j \in DOMAIN micros |-> Mean(micros[j])]) \div Len(micros)
EngineGradient(micros, w) == Total([j \in DOMAIN micros |-> w * Loss(micros[j])])

(* The controller of the actors: sums are added, means are weighted by the *)
(* sizes of the shards (_merge_metrics), and the outputs of the rows follow*)
(* each other.                                                             *)
FSDPLoss(data, w, mb) ==
    Total([k \in 1..w |-> EngineLoss(EngineMicros(data, w, mb, k))])
FSDPMean(data, w, mb) ==
    Total([k \in 1..w |-> ShardSize(Len(data), w, k) * EngineMean(EngineMicros(data, w, mb, k))])
        \div Total([k \in 1..w |-> ShardSize(Len(data), w, k)])
FSDPOutputs(data, w, mb) == FlattenSeq([k \in 1..w |-> FlattenSeq(EngineMicros(data, w, mb, k))])

(* fully_shard averages the gradients of the ranks.                        *)
FSDPGradient(data, w, mb) ==
    Total([k \in 1..w |-> EngineGradient(EngineMicros(data, w, mb, k), w)]) \div w

(* The HF model: the same of its micro-batches, the last of which may be   *)
(* shorter (metrics_reduction).                                            *)
HFLoss(data, size) == EngineLoss(Micros(data, size))
HFMean(data, size) ==
    LET micros == Micros(data, size)
    IN  Total([j \in DOMAIN micros |-> Len(micros[j]) * Mean(micros[j])])
            \div Total([j \in DOMAIN micros |-> Len(micros[j])])
HFOutputs(data, size) == FlattenSeq(Micros(data, size))

=============================================================================
