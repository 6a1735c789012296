---------------------------- MODULE AdapterContent ----------------------------
(* What an adapter holds, by the operations whose data is in it, and what  *)
(* an operation of the worker does to it (MultiAdapterFSDPWorker).         *)
EXTENDS FiniteSetsExt

CONSTANT Operations

Kinds == {"forward", "optim", "save", "load"}

(* An optimizer is there or not; its moments are those of what it stepped. *)
Content == [weights: SUBSET Operations, gradients: SUBSET Operations,
            moments: {{}} \cup {{m} : m \in SUBSET Operations}]

Fresh == [weights |-> {}, gradients |-> {}, moments |-> {}]

WithOptimizer(x) == [x EXCEPT !.moments = IF @ = {} THEN {{}} ELSE @]

(* forward_backward and optim_step make the optimizer before they begin.   *)
Attempted(kind, x) == IF kind \in {"forward", "optim"} THEN WithOptimizer(x) ELSE x

(* A checkpoint has the weights, and the optimizer if there is one.        *)
Written(x) == [x EXCEPT !.gradients = {}]

(* forward_backward accumulates, optim_step consumes what was accumulated; *)
(* load_checkpoint leaves gradients alone, and the optimizer when the      *)
(* checkpoint has none.                                                    *)
After(kind, o, x, file) ==
    CASE kind = "forward" -> [WithOptimizer(x) EXCEPT !.gradients = @ \cup {o}]
      [] kind = "optim" ->
            [weights |-> x.weights \cup x.gradients, gradients |-> {},
             moments |-> {x.gradients \cup UNION x.moments}]
      [] kind = "save" -> x
      [] kind = "load" ->
            [x EXCEPT !.weights = file.weights,
                      !.moments = IF file.moments = {} THEN @ ELSE file.moments]

(* What an operation that raises leaves: what it had attempted; or, once   *)
(* it had begun to change the adapter, the gradients of the micro-batches  *)
(* before the one that failed, a step whose gradients are still there, or  *)
(* a load that got to some of the weights or only not to the moments.      *)
Parts == {"start", "middle", "end"}
Interrupted(part, kind, o, x, file) ==
    IF part = "start" THEN Attempted(kind, x)
    ELSE CASE kind = "forward" -> After(kind, o, x, file)
           [] kind = "optim" -> [After(kind, o, x, file) EXCEPT !.gradients = x.gradients]
           [] kind = "save" -> x
           [] kind = "load" ->
                 IF part = "middle" THEN [x EXCEPT !.weights = @ \cup file.weights]
                 ELSE [x EXCEPT !.weights = file.weights,
                                !.moments = IF file.moments = {} THEN @ ELSE WithOptimizer(x).moments]

(* A save may leave the optimizer out, and a load the optimizer it finds.  *)
WithOrWithout(x) == {x, [x EXCEPT !.moments = {}]}

(* HFTrainingModel.load_state instead starts with a new optimizer.         *)
Resumed(x, file) ==
    [x EXCEPT !.weights = file.weights,
              !.moments = IF file.moments = {} THEN {{}} ELSE file.moments]
=============================================================================
