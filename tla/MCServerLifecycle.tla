--------------------------- MODULE MCServerLifecycle ---------------------------
(* An HF model, two FSDP groups of two actors, two engines; one run of each*)
(* group is restored, and two clients create models of the first one. What *)
(* the constructors of the groups check is evaluated by LoraGeometryCheck. *)
EXTENDS ServerLifecycle, LoraGeometryCheck

CONSTANTS g1, g2, r1, r2, r3, r4

Saved == {r1, r4}
GroupsOfRequests == [r \in Requests |-> IF r = r4 THEN g2 ELSE g1]

=============================================================================
