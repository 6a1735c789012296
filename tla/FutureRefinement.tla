--------------------------- MODULE FutureRefinement ---------------------------
(* FutureStore implements FutureContract when the key-value store keeps     *)
(* what it is given (no lost or stripped saves, no expiry, no cleanup).     *)
EXTENDS FutureStore

(* What a retrieve by the owner of r would do.  It concludes as soon as    *)
(* the status is not "pending", whether the event is set or not; while the *)
(* outcome of r is published no retrieve can look.                         *)
View(r) ==
    IF r \notin registry THEN "absent"
    ELSE IF records[r].event THEN Outcome(records[r])
    ELSE IF lock = r \/ records[r].status = "pending" THEN "pending"
    ELSE "denied"

StoredView(r) == IF r \in stored THEN db[r].status ELSE "absent"

Contract == INSTANCE FutureContract WITH
    result  <- [r \in Requests |-> View(r)],
    saved   <- [r \in Requests |-> StoredView(r)],
    answers <- told,
    mode    <- phase

(* Every answer with an outcome is one the store has written: _mark_ready  *)
(* and _mark_failed save inside the lock and set the event last, a shown   *)
(* outcome never changes while the process lives, and recovery only        *)
(* revokes.  The empty answer is given only for a future that another      *)
(* user's retrieve marked, and only until its outcome is published.        *)
ImplementsContract == Contract!ContractSpec
=============================================================================
