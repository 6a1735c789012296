------------------------- MODULE MCSamplingSessions -------------------------
(* Small instances of SamplingSessions for TLC. *)
EXTENDS SamplingSessions, SequencesExt

CONSTANTS s1, s2, r1, r2, c1, base

TwoSessions == {s1, s2}
TwoRequests == {r1, r2}
OneCheckpoint == {c1}

(* All requests go to one session, with a number each.                     *)
OwnNumbers ==
    [r \in Requests |-> {s1} \X {IF r = r1 THEN 0 ELSE 1}]

(* heapq against its purpose, over every heap of up to six distinct        *)
(* numbers: a heap built by Push is ordered, Pop removes the first and     *)
(* least entry and keeps the others and the order, and neither raises.     *)
Built(f) ==
    FoldLeft(LAMBDA p, n : [heap |-> Push(p.heap, [seq |-> n, task |-> r1]).heap,
                            raised |-> p.raised \/ Push(p.heap, [seq |-> n, task |-> r1]).raised],
             [heap |-> <<>>, raised |-> FALSE], [i \in 1..Cardinality(DOMAIN f) |-> f[i]])
Ordered(h) == \A p \in 2..Len(h) : h[p \div 2].seq <= h[p].seq
KeysOf(h) == {h[p].seq : p \in DOMAIN h}
ASSUME HeapKeepsOrder ==
    \A n \in 1..6 : \A f \in Permutations(1..n) :
        LET b == Built(f)
            p == Pop(b.heap)
        IN  /\ ~b.raised /\ Ordered(b.heap) /\ KeysOf(b.heap) = 1..n
            /\ ~p.raised /\ Ordered(p.heap) /\ KeysOf(p.heap) = 2..n
            /\ b.heap[1].seq = 1 /\ Len(p.heap) = n - 1

AllButLost == Fault \ {"lost"}
=============================================================================
