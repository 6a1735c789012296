----------------------------- MODULE MCTuftServer -----------------------------
(* Small instances of TuftServer for TLC. *)
EXTENDS TuftServer

CONSTANTS q1, q2, m1, alice, nobody

OneRun == {m1}
OneUser == {alice}
TwoRequests == {q1, q2}

SaveAndStep == {"optim_step", "save"}
BothTypes == {"training", "sampler"}
NoNames == {0}

NoFaults == {}
=============================================================================
