---------------------------- MODULE FutureContract ----------------------------
(***************************************************************************)
(* What the future store promises its clients, without its lock, threads,  *)
(* tasks and waiters: an outcome is written to the key-value store before  *)
(* any client is answered with it, it never changes while the process      *)
(* lives, and after a restart a future shows what was written, which       *)
(* recovery may only turn into a failure before the server answers         *)
(* anybody.                                                                *)
(*                                                                         *)
(* The promise has one hole, which the contract names: once somebody else  *)
(* has asked for a pending future, its owner is answered with nothing      *)
(* ("denied"), which is in no store and lasts until the outcome is         *)
(* published or the process ends.                                          *)
(***************************************************************************)
EXTENDS Naturals

CONSTANT Requests

Outcomes == {"ready", "failed"}

VARIABLES
    result,     \* what a retrieve by the owner of a request would learn now:
                \* "absent", "pending" (wait), an outcome, or "denied"
    saved,      \* what the key-value store says about it
    answers,    \* the answers its owner was given
    mode        \* "recovering", "serving" or "down"

contractVars == <<result, saved, answers, mode>>

(* The answer to a retrieve that does not have to wait.                    *)
AnswerTo(v) ==
    IF v = "ready" THEN "payload" ELSE IF v = "failed" THEN "error" ELSE "empty"

ContractInit ==
    /\ result = [r \in Requests |-> "absent"]
    /\ saved = [r \in Requests |-> "absent"]
    /\ answers = [r \in Requests |-> {}]
    /\ mode = "recovering"

(* A request is accepted, or answered on the spot.                         *)
Submit(r, v) ==
    /\ mode = "serving"
    /\ result[r] = "absent" /\ saved[r] = "absent"
    /\ v \in {"pending", "ready"}
    /\ result' = [result EXCEPT ![r] = v]
    /\ saved' = [saved EXCEPT ![r] = v]
    /\ UNCHANGED <<answers, mode>>

(* The outcome becomes durable, then visible.                              *)
Decide(r, v) ==
    /\ mode = "serving"
    /\ result[r] = "pending" /\ saved[r] = "pending"
    /\ v \in Outcomes
    /\ saved' = [saved EXCEPT ![r] = v]
    /\ UNCHANGED <<result, answers, mode>>

Publish(r) ==
    /\ mode = "serving"
    /\ result[r] = "pending" /\ saved[r] \in Outcomes
    /\ result' = [result EXCEPT ![r] = saved[r]]
    /\ UNCHANGED <<saved, answers, mode>>

(* The owner is answered with what there is to learn.                      *)
Answer(r) ==
    /\ mode = "serving"
    /\ result[r] \in Outcomes \cup {"denied"}
    /\ answers' = [answers EXCEPT ![r] = @ \cup {AnswerTo(result[r])}]
    /\ UNCHANGED <<result, saved, mode>>

(* The hole: a pending future that somebody else asked for, until its      *)
(* operation ends.  Nothing of it is stored.                               *)
Deny(r) ==
    /\ mode = "serving"
    /\ result[r] = "pending"
    /\ result' = [result EXCEPT ![r] = "denied"]
    /\ UNCHANGED <<saved, answers, mode>>

Withdraw(r) ==
    /\ mode = "serving"
    /\ result[r] = "denied"
    /\ result' = [result EXCEPT ![r] = "pending"]
    /\ UNCHANGED <<saved, answers, mode>>

(* The process stops anywhere and a new one starts from the store.         *)
Stop ==
    /\ mode # "down"
    /\ mode' = "down"
    /\ UNCHANGED <<result, saved, answers>>

Start ==
    /\ mode = "down"
    /\ mode' = "recovering"
    /\ result' = saved
    /\ UNCHANGED <<saved, answers>>

(* Recovery fails some futures; if it is cut short, fewer of them durably. *)
Revoke(S, T, next) ==
    /\ mode = "recovering"
    /\ \A r \in S : result[r] # "absent"
    /\ T \subseteq S
    /\ next = "recovering" => T = S
    /\ result' = [r \in Requests |-> IF r \in S THEN "failed" ELSE result[r]]
    /\ saved' = [r \in Requests |-> IF r \in T THEN "failed" ELSE saved[r]]
    /\ mode' = next
    /\ UNCHANGED answers

Open ==
    /\ mode = "recovering"
    /\ mode' = "serving"
    /\ UNCHANGED <<result, saved, answers>>

ContractNext ==
    \/ \E r \in Requests :
        \/ \E v \in {"pending", "ready"} : Submit(r, v)
        \/ \E v \in Outcomes : Decide(r, v)
        \/ Publish(r)
        \/ Answer(r)
        \/ Deny(r)
        \/ Withdraw(r)
    \/ \E S \in SUBSET Requests : \E T \in SUBSET S :
        \E next \in {"recovering", "down"} : Revoke(S, T, next)
    \/ Stop
    \/ Start
    \/ Open

ContractSpec == ContractInit /\ [][ContractNext]_contractVars
=============================================================================
