---------------------------- MODULE PrivateAdapters ----------------------------
(***************************************************************************)
(* What a training backend promises to the runs that share it: each run    *)
(* has an adapter of its own, fresh when it is created, on which every     *)
(* operation acts at once, at most once, and on no other. The optimizer is *)
(* made with the adapter or when it is first used; a checkpoint may leave  *)
(* it out, and a load of one that does keeps it or begins a new one. One   *)
(* that fails may have acted in part, on that adapter, and acts no more.   *)
(***************************************************************************)
EXTENDS AdapterContent

CONSTANT Runs

VARIABLES
    age,        \* "unborn", "alive", "dead"
    adapter,    \* content of each run's adapter
    performed,  \* operations that took effect, in full or in part
    saved,      \* checkpoint written by each save
    target, kind    \* run and kind of each operation

privateVars == <<age, adapter, performed, saved, target, kind>>

Init ==
    /\ age = [r \in Runs |-> "unborn"]
    /\ adapter = [r \in Runs |-> Fresh]
    /\ performed = {}
    /\ saved = [o \in Operations |-> {}]
    /\ target \in [Operations -> Runs]
    /\ kind \in [Operations -> Kinds]

Create(r) ==
    /\ age[r] = "unborn"
    /\ age' = [age EXCEPT ![r] = "alive"]
    /\ \E x \in {Fresh, WithOptimizer(Fresh)} : adapter' = [adapter EXCEPT ![r] = x]
    /\ UNCHANGED <<performed, saved, target, kind>>

Outcomes(o, x, file) ==
    {After(kind[o], o, x, file)} \cup
    {Resumed(x, f) : f \in {f \in WithOrWithout(file) : kind[o] = "load"}}

Readable(o) == IF kind[o] = "load" THEN UNION {saved[p] : p \in Operations} ELSE {Fresh}

Perform(o) ==
    LET r == target[o]
    IN  /\ age[r] = "alive" /\ o \notin performed
        /\ performed' = performed \cup {o}
        /\ \E file \in Readable(o) :
               \E y \in Outcomes(o, adapter[r], file) : adapter' = [adapter EXCEPT ![r] = y]
        /\ \/ kind[o] # "save" /\ UNCHANGED saved
           \/ /\ kind[o] = "save"
              /\ \E y \in WithOrWithout(adapter[r]) :
                     saved' = [saved EXCEPT ![o] = {Written(y)}]
        /\ UNCHANGED <<age, target, kind>>

(* An operation that fails leaves the adapter as it was or acts in part.   *)
Fail(o) ==
    LET r == target[o]
    IN  /\ o \notin performed
        /\ performed' = performed \cup {o}
        /\ \/ UNCHANGED adapter
           \/ /\ age[r] = "alive"
              /\ \E part \in Parts, file \in Readable(o) : \E f \in WithOrWithout(file) :
                     adapter' = [adapter EXCEPT ![r] = Interrupted(part, kind[o], o, @, f)]
        /\ UNCHANGED <<age, saved, target, kind>>

(* The content of an adapter ends with it.                                 *)
Remove(r) ==
    /\ age[r] = "alive"
    /\ age' = [age EXCEPT ![r] = "dead"]
    /\ adapter' = [adapter EXCEPT ![r] = Fresh]
    /\ UNCHANGED <<performed, saved, target, kind>>

Next ==
    \/ \E r \in Runs : Create(r) \/ Remove(r)
    \/ \E o \in Operations : Perform(o) \/ Fail(o)

Spec == Init /\ [][Next]_privateVars
=============================================================================
