------------------------------ MODULE MCFSDPSlots ------------------------------
(* Small instances of FSDPSlots for TLC. *)
EXTENDS FSDPSlots, TrainingBatchCheck

CONSTANTS r1, r2, o1, o2

TwoRuns == {r1, r2}
TwoOperations == {o1, o2}

(* One operation leaves gradients or a checkpoint of one run, which one of *)
(* another, or of the same that steps, could come across.                  *)
PrepareAndUse ==
    {(o1 :> <<r1, "forward">>) @@ (o2 :> <<r, "optim">>) : r \in Runs} \cup
    {(o1 :> <<r1, "save">>) @@ (o2 :> <<r2, "load">>)}

OneOrTwo == {1, 2}

(* Nothing, fewer data than actors, and shards of different lengths.       *)
UnevenSizes == {0, 1, 3}
AllButEarly == Fault \ {"early"}
=============================================================================
