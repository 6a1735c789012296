--------------------------- MODULE MCFutureStore ---------------------------
(* Small instances of FutureStore for TLC. *)
EXTENDS FutureRefinement, TLC

CONSTANTS r1, r2, alice, bob, run1, nobody

TwoRequests   == {r1, r2}
OneUser  == {alice}
TwoUsers == {alice, bob}
OneRun   == {run1}

AllSaves  == {"full", "stripped", "lost"}
FullSaves == {"full"}

Symmetry == Permutations(Requests)
=============================================================================
