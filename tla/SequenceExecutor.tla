--------------------------- MODULE SequenceExecutor ---------------------------
(***************************************************************************)
(* The executor of one sampling session (sequence_executor.py): a heap of  *)
(* tasks ordered by sequence number and one coroutine that runs them.  An  *)
(* executor is a value; whoever owns executors keeps them in a variable.   *)
(* The heap lock is never held across an await, so each operator below is  *)
(* one step of the event loop.                                             *)
(*                                                                         *)
(* Heap entries are tuples (seq, func, kwargs, future).  Neither keyword   *)
(* dictionaries nor futures are ordered: a comparison of two entries with  *)
(* the same number raises TypeError, wherever the heap happens to make it. *)
(* The heap is therefore modelled as the array heapq keeps.                *)
(***************************************************************************)
EXTENDS Naturals, Sequences, FiniteSetsExt

CONSTANT Tasks

Entry == [seq: Nat, task: Tasks]

(* The loop is "started" from create_task to its first turn, "running"     *)
(* while it awaits a task, "saved" when that task's last await is over and *)
(* "dead" once a heappop has raised in it: `_processing` stays True then.  *)
Executor ==
    [heap: Seq(Entry), current: SUBSET Tasks,
     loop: {"idle", "started", "running", "saved", "dead"}]

NewExecutor == [heap |-> <<>>, current |-> {}, loop |-> "idle"]

Waiting(x) == {x.heap[p].task : p \in DOMAIN x.heap}

-----------------------------------------------------------------------------
(* heapq *)

(* The places from p up to the root.                                       *)
Ancestors(p) == {p} \cup ({p \div 2^k : k \in 1..p} \cap 1..p)

(* The entry at place n moves up past every larger ancestor; the first     *)
(* ancestor that is not larger stops it, and raises if it is equal.        *)
Lift(h, n) ==
    LET path == Ancestors(n)
        passed == {p \in path : \A a \in path : p <= a /\ a < n => h[a].seq > h[n].seq}
        kept == path \ passed
    IN  [heap |-> [p \in DOMAIN h |->
                     IF p \notin passed THEN h[p]
                     ELSE IF p \div 2 \in passed THEN h[p \div 2] ELSE h[n]],
         raised |-> \E p \in kept : h[p].seq = h[n].seq /\ \A q \in kept : q <= p]

Push(h, e) == Lift(Append(h, e), Len(h) + 1)

(* The last entry replaces the first, sinks along the smaller children to  *)
(* a leaf and is lifted from there.  Equal children raise on the way down; *)
(* the entry that was to be returned is then no longer in the heap.        *)
Pop(h) ==
    LET n == Len(h) - 1
        g == [p \in 1..n |-> IF p = 1 THEN h[n + 1] ELSE h[p]]
        Tied(p) == 2 * p < n /\ g[2 * p].seq = g[2 * p + 1].seq
        Smaller(p) == IF 2 * p < n /\ g[2 * p].seq > g[2 * p + 1].seq
                      THEN 2 * p + 1 ELSE 2 * p
        Stops(p) == 2 * p > n \/ Tied(p)
        path == {p \in 1..n : \A q \in Ancestors(p) \ {1} :
                     ~Stops(q \div 2) /\ q = Smaller(q \div 2)}
        bottom == Max(path)
        sunk == [p \in 1..n |->
                   IF p \notin path THEN g[p]
                   ELSE IF Stops(p) THEN g[1] ELSE g[Smaller(p)]]
    IN  IF n = 0 THEN [heap |-> <<>>, raised |-> FALSE]
        ELSE IF Tied(bottom) THEN [heap |-> sunk, raised |-> TRUE]
        ELSE Lift(sunk, bottom)

-----------------------------------------------------------------------------
(* The executor *)

(* submit, up to its wait.  A push that raises leaves its entry in the heap. *)
MutantSubmitted(x, t, n) ==
    LET p == Push(x.heap, [seq |-> n, task |-> t])
    IN  [executor |-> [x EXCEPT !.heap = p.heap], raised |-> p.raised]
Submitted(x, t, n) ==
    LET p == Push(x.heap, [seq |-> n, task |-> t])
    IN  [executor |-> [x EXCEPT !.heap = p.heap,
                                !.loop = IF @ = "idle" /\ ~p.raised THEN "started" ELSE @],
         raised |-> p.raised]

(* One turn of _process_tasks: take the next task or stop.                 *)
Advanced(x) ==
    IF x.heap = <<>> THEN NewExecutor
    ELSE LET p == Pop(x.heap)
         IN  IF p.raised
             THEN [heap |-> p.heap, current |-> {}, loop |-> "dead"]
             ELSE [heap |-> p.heap, current |-> {Head(x.heap).task}, loop |-> "running"]
=============================================================================
