------------------------ MODULE MCTrainingController ------------------------
(* Small instances of TrainingController for TLC. *)
EXTENDS TrainingController, TLC

CONSTANTS m1, o1, o2, o3

OneRun == {m1}
TwoOps == {o1, o2}
ThreeOps == {o1, o2, o3}

AllKinds == {"forward", "forward_backward", "optim_step", "save", "load"}
TrainingOnly == {"training"}
BothTypes == {"training", "sampler"}

NoNames == {AutoName}
SomeNames == {AutoName, 1}

BackendFaults == {"backend", "config"}
AllFaults == Fault

Symmetry == Permutations(Ops)
=============================================================================
