---------------------------- MODULE MCOpenAIRouter ----------------------------
(* Two engines; two checkpoints of one training run and one of another,    *)
(* which has lost its adapter directory.                                   *)
EXTENDS OpenAIRouter

CONSTANTS step1, step2, bare, run1, run2

AllCheckpoints == {step1, step2, bare}
RunOfCheckpoint == [c \in AllCheckpoints |-> IF c = bare THEN run2 ELSE run1]
BareCheckpoints == {bare}

=============================================================================
