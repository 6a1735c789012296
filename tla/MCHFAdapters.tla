----------------------------- MODULE MCHFAdapters -----------------------------
(* Small instances of HFAdapters for TLC. *)
EXTENDS HFAdapters

CONSTANTS r1, r2, o1, o2, o3

TwoRuns == {r1, r2}
ThreeOperations == {o1, o2, o3}

\* The first two operations are of one run, the third of any; all kinds.
AllCalls ==
    {c \in [ThreeOperations -> TwoRuns \X Kinds] : c[o1][1] = r1 /\ c[o2][1] = r1}
HalfCreations == {"half"}
=============================================================================
