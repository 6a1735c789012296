--------------------------- MODULE HFAdaptersProofs ---------------------------
(***************************************************************************)
(* The adapters of the HF backend, for any number of runs and operations:  *)
(* an optimizer is its run's own, an adapter does not outlive its run, and *)
(* one model behaves as if each run had one of its own.                    *)
(***************************************************************************)
EXTENDS HFAdapters, TLAPS

Lives == {"new", "creating", "live", "failed", "half", "leaving", "gone"}
Alive == {"live", "leaving"}

Types ==
    /\ life \in [Runs -> Lives]
    /\ stage \in [Operations -> {"new", "running", "done", "failed"}]
    /\ optimizer \in [Runs -> Runs \cup {None}]
    /\ content \in [Runs -> Content]
    /\ target \in [Operations -> Runs] /\ kind \in [Operations -> Kinds]

(* An optimizer is its run's own, whose adapter is in the model. Creations *)
(* and loads that raised may leave an adapter without one there.           *)
OwnInv ==
    /\ Base \in adapters /\ active \in adapters
    /\ \A r \in Runs : optimizer[r] # None => optimizer[r] = r /\ r \in adapters

(* Without late loads the optimizer is there while its run is, and nothing *)
(* else is but what half-made adapters there are.                          *)
LifeInv ==
    /\ \A r \in Runs : optimizer[r] # None <=> life[r] \in Alive
    /\ \A r \in Runs : r \in adapters => life[r] \in Alive \cup {"half"}
    /\ \A r \in Runs : IF life[r] \in Alive THEN content[r].moments # {} ELSE content[r] = Fresh
    /\ \A o \in Operations : Running(o, "load") => life[target[o]] = "live"

(* What is performed and saved.                                            *)
DoneInv ==
    /\ performed \in SUBSET Operations /\ \A o \in performed : stage[o] \in {"done", "failed"}
    /\ DOMAIN saved = Operations
    /\ \A p \in Operations : \A file \in saved[p] : file \in Content

IInv == Types /\ OwnInv /\ DoneInv
Prompt == "late" \notin Faults

-----------------------------------------------------------------------------
(* What operations make of an adapter.                                     *)

LEMMA FreshContent == Fresh \in Content /\ WithOptimizer(Fresh) \in Content
BY DEF Content, Fresh, WithOptimizer

LEMMA ResumedContent ==
    ASSUME NEW x \in Content, NEW file \in Content, NEW f \in WithOrWithout(file)
    PROVE  Resumed(x, f) \in Content /\ Resumed(x, f).moments # {}
<1>1. f \in Content
    BY DEF WithOrWithout, Content
<1> QED BY <1>1 DEF Resumed, Content

LEMMA SteppedContent ==
    ASSUME NEW x \in Content
    PROVE  {x.gradients \cup UNION x.moments} \in {{m} : m \in SUBSET Operations}
<1>1. x.gradients \cup UNION x.moments \in SUBSET Operations
    BY DEF Content
<1> QED BY <1>1

LEMMA WrittenContent ==
    ASSUME NEW x \in Content, NEW y \in WithOrWithout(x)
    PROVE  Written(y) \in Content
BY DEF WithOrWithout, Written, Content

LEMMA InterruptedContent ==
    ASSUME NEW x \in Content, NEW file \in Content, NEW o \in Operations,
           NEW k \in Kinds, NEW part \in Parts
    PROVE  /\ Interrupted(part, k, o, x, file) \in Content
           /\ x.moments # {} => Interrupted(part, k, o, x, file).moments # {}
<1>1. WithOptimizer(x) \in Content /\ WithOptimizer(x).moments # {}
    BY DEF WithOptimizer, Content
<1>2. CASE part = "start"
    BY <1>1, <1>2 DEF Interrupted, Attempted
<1>3. CASE part # "start" /\ k = "forward"
    <2>1. Interrupted(part, k, o, x, file) = [WithOptimizer(x) EXCEPT !.gradients = @ \cup {o}]
        BY Zenon, <1>3 DEF Interrupted, After
    <2> QED BY <1>1, <2>1 DEF Content
<1>4. CASE part # "start" /\ k = "optim"
    <2> DEFINE y == [weights |-> x.weights \cup x.gradients, gradients |-> {},
                     moments |-> {x.gradients \cup UNION x.moments}]
    <2>1. Interrupted(part, k, o, x, file) = [y EXCEPT !.gradients = x.gradients]
        BY Zenon, <1>4 DEF Interrupted, After
    <2>2. x.weights \cup x.gradients \in SUBSET Operations
        BY DEF Content
    <2>3. y \in Content
        BY <2>2, SteppedContent DEF Content
    <2>4. [y EXCEPT !.gradients = x.gradients] \in Content
        BY <2>3 DEF Content
    <2>5. [y EXCEPT !.gradients = x.gradients].moments # {}
        OBVIOUS
    <2> HIDE DEF y
    <2> QED BY <2>1, <2>4, <2>5
<1>5. CASE part # "start" /\ k = "save"
    BY <1>5 DEF Interrupted
<1>6. CASE part # "start" /\ k = "load"
    <2>1. CASE part = "middle"
        <3>1. Interrupted(part, k, o, x, file) = [x EXCEPT !.weights = @ \cup file.weights]
            BY Zenon, <1>6, <2>1 DEF Interrupted
        <3> QED BY <3>1 DEF Content
    <2>2. CASE part # "middle"
        <3>1. Interrupted(part, k, o, x, file)
              = [x EXCEPT !.weights = file.weights,
                          !.moments = IF file.moments = {} THEN @ ELSE WithOptimizer(x).moments]
            BY Zenon, <1>6, <2>2 DEF Interrupted
        <3>2. [x EXCEPT !.weights = file.weights, !.moments = WithOptimizer(x).moments] \in Content
            BY <1>1 DEF Content
        <3> QED BY <1>1, <3>1, <3>2 DEF Content
    <2> QED BY <2>1, <2>2
<1> QED BY <1>2, <1>3, <1>4, <1>5, <1>6 DEF Kinds

(* An update of three fields, one after the other.                         *)
LEMMA ThreeFields ==
    ASSUME NEW W, NEW G, NEW M, NEW x \in [weights: W, gradients: G, moments: M],
           NEW s, NEW t, NEW u
    PROVE  [[[x EXCEPT !.moments = s] EXCEPT !.weights = t] EXCEPT !.gradients = u]
           = [weights |-> t, gradients |-> u, moments |-> s]
<1> DEFINE a == [x EXCEPT !.moments = s]
<1> DEFINE b == [a EXCEPT !.weights = t]
<1> DEFINE c == [b EXCEPT !.gradients = u]
<1>1. a = [weights |-> x.weights, gradients |-> x.gradients, moments |-> s]
    OBVIOUS
<1>2. a \in [weights: W, gradients: G, moments: {s}]
    BY <1>1
<1> HIDE DEF a
<1>3. b = [weights |-> t, gradients |-> a.gradients, moments |-> a.moments]
    BY <1>2
<1>4. b \in [weights: {t}, gradients: G, moments: {s}]
    BY <1>2, <1>3
<1> HIDE DEF b
<1>5. c = [weights |-> b.weights, gradients |-> u, moments |-> b.moments]
    BY <1>4
<1>6. c = [weights |-> t, gradients |-> u, moments |-> s]
    BY <1>4, <1>5
<1> QED BY <1>6 DEF a, b

(* The content an operation leaves, written as one replacement.            *)
LEMMA OptimContent ==
    ASSUME IInv, NEW o \in Operations, OptimStep(o)
    PROVE  /\ optimizer[target[o]] # None
           /\ content' = [content EXCEPT ![target[o]] = After("optim", o, @, Fresh)]
           /\ After("optim", o, content[target[o]], Fresh) \in Content
           /\ After("optim", o, content[target[o]], Fresh).moments # {}
<1> DEFINE r == target[o]
<1> DEFINE x == content[r]
<1> DEFINE y == [weights |-> x.weights \cup x.gradients, gradients |-> {},
                 moments |-> {x.gradients \cup UNION x.moments}]
<1>1. r \in Runs /\ x \in Content /\ optimizer[r] = r
    BY DEF IInv, Types, OwnInv, OptimStep
<1>2. After("optim", o, x, Fresh) = y
    BY Zenon DEF After
<1>3. x.weights \cup x.gradients \in SUBSET Operations
    BY <1>1 DEF Content
<1>4. y \in Content
    BY <1>1, <1>3, SteppedContent DEF Content
<1>5. y.moments # {}
    OBVIOUS
<1>6. content' = [content EXCEPT ![r].moments = {x.gradients \cup UNION @},
                                 ![r].weights = @ \cup x.gradients, ![r].gradients = {}]
    BY <1>1 DEF OptimStep
<1>7. content' = [content EXCEPT ![r] = y]
    <2> DEFINE z == [[[x EXCEPT !.moments = {x.gradients \cup UNION @}]
                         EXCEPT !.weights = @ \cup x.gradients] EXCEPT !.gradients = {}]
    <2>1. content' = [content EXCEPT ![r] = z]
        BY Zenon, <1>1, <1>6 DEF IInv, Types
    <2>2. z = y
        <3>1. z = [[[x EXCEPT !.moments = {x.gradients \cup UNION x.moments}]
                      EXCEPT !.weights = x.weights \cup x.gradients] EXCEPT !.gradients = {}]
            BY <1>1 DEF Content
        <3>2. x \in [weights: SUBSET Operations, gradients: SUBSET Operations,
                     moments: {{}} \cup {{m} : m \in SUBSET Operations}]
            BY <1>1 DEF Content
        <3>3. \A s, t, u : [[[x EXCEPT !.moments = s] EXCEPT !.weights = t] EXCEPT !.gradients = u]
                           = [weights |-> t, gradients |-> u, moments |-> s]
            BY <3>2, ThreeFields
        <3> HIDE DEF x
        <3> QED BY Zenon, <3>1, <3>3
    <2> QED BY <2>1, <2>2
<1>8. optimizer[r] # None
    BY DEF OptimStep
<1> HIDE DEF y
<1> QED BY <1>2, <1>4, <1>5, <1>7, <1>8

LEMMA ForwardContent ==
    ASSUME IInv, NEW o \in Operations, Forward(o)
    PROVE  /\ content' = [content EXCEPT ![target[o]].gradients = @ \cup {o}]
           /\ content' \in [Runs -> Content]
           /\ \A q \in Runs : content'[q].moments = content[q].moments
           /\ \A q \in Runs \ {target[o]} : content'[q] = content[q]
<1> DEFINE r == target[o]
<1>1. r \in Runs /\ content \in [Runs -> Content]
    BY DEF IInv, Types
<1>2. content' = [q \in Runs |-> IF q = r THEN [content[q] EXCEPT !.gradients = @ \cup {o}]
                                          ELSE content[q]]
    BY DEF Forward, ActivateAdapter
<1>3. [content[r] EXCEPT !.gradients = @ \cup {o}] \in Content
    BY <1>1 DEF Content
<1> QED BY <1>1, <1>2, <1>3 DEF Content

-----------------------------------------------------------------------------
(* The invariant, action by action.                                        *)

LEMMA InitOK == Init => IInv /\ LifeInv
<1>1. Init => Types
    BY FreshContent DEF Init, Types, Lives
<1>2. Init => OwnInv /\ DoneInv
    BY BaseAssumption DEF Init, OwnInv, DoneInv
<1>3. Init => LifeInv
    BY BaseAssumption DEF Init, LifeInv, Running, Alive
<1> QED BY <1>1, <1>2, <1>3 DEF IInv

LEMMA CallsOK ==
    ASSUME IInv, NEW r \in Runs, CreateBegin(r) \/ RemoveBegin(r)
    PROVE  IInv' /\ (LifeInv /\ Prompt => LifeInv')
<1>1. IInv'
    BY DEF IInv, Types, OwnInv, DoneInv, CreateBegin, RemoveBegin, Lives, model, inputs
<1>2. ASSUME LifeInv, Prompt PROVE LifeInv'
    <2>1. \A q \in Runs : /\ life'[q] \in Alive <=> life[q] \in Alive
                          /\ life'[q] = "half" <=> life[q] = "half"
        BY DEF IInv, Types, CreateBegin, RemoveBegin, Alive
    <2>2. \A o \in Operations : Running(o, "load") => life'[target[o]] = "live"
        BY <1>2 DEF IInv, Types, LifeInv, CreateBegin, RemoveBegin, Running, Prompt
    <2> QED BY <1>2, <2>1, <2>2 DEF LifeInv, CreateBegin, RemoveBegin, Running, model, inputs
<1> QED BY <1>1, <1>2

LEMMA OpBeginOK ==
    ASSUME IInv, NEW o \in Operations, OpBegin(o)
    PROVE  IInv' /\ (LifeInv /\ Prompt => LifeInv')
<1>1. IInv'
    BY DEF IInv, Types, OwnInv, DoneInv, OpBegin, model, inputs
<1>2. ASSUME LifeInv PROVE LifeInv'
    BY <1>2 DEF IInv, Types, LifeInv, OpBegin, Running, model, inputs
<1> QED BY <1>1, <1>2

LEMMA CreateOK ==
    ASSUME IInv, NEW r \in Runs, CreateAdapter(r)
    PROVE  IInv' /\ (LifeInv /\ Prompt => LifeInv')
<1>1. CASE life' = [life EXCEPT ![r] = "failed"] /\ UNCHANGED model
    <2>1. IInv'
        BY <1>1 DEF IInv, Types, OwnInv, DoneInv, CreateAdapter, Lives, model, inputs
    <2>2. ASSUME LifeInv PROVE LifeInv'
        BY <1>1, <2>2 DEF IInv, Types, LifeInv, CreateAdapter, Running, Alive, model, inputs
    <2> QED BY <2>1, <2>2
<1>2. CASE /\ life' = [life EXCEPT ![r] = "live"]
           /\ adapters' = adapters \cup {r}
           /\ NewOptimizer(r)
           /\ content' = [content EXCEPT ![r] = WithOptimizer(Fresh)]
    <2>1. UNCHANGED <<stage, performed, saved, inputs>> /\ life[r] = "creating"
        BY DEF CreateAdapter
    <2>2. Types' /\ DoneInv'
        BY <1>2, <2>1, FreshContent DEF IInv, Types, DoneInv, NewOptimizer, Lives, inputs
    <2>3. OwnInv'
        BY <1>2, BaseAssumption DEF IInv, Types, OwnInv, NewOptimizer
    <2>4. ASSUME LifeInv PROVE LifeInv'
        <3>1. WithOptimizer(Fresh).moments # {}
            BY DEF WithOptimizer, Fresh
        <3>2. \A q \in Runs : /\ optimizer'[q] # None <=> life'[q] \in Alive
                              /\ q \in adapters' => life'[q] \in Alive \cup {"half"}
            BY <1>2, <2>1, <2>4, BaseAssumption DEF IInv, Types, LifeInv, Alive, NewOptimizer
        <3>3. \A q \in Runs :
                  IF life'[q] \in Alive THEN content'[q].moments # {} ELSE content'[q] = Fresh
            BY <1>2, <2>4, <3>1 DEF IInv, Types, LifeInv, Alive
        <3>4. \A o \in Operations : Running(o, "load")' => life'[target'[o]] = "live"
            BY <1>2, <2>1, <2>4 DEF IInv, Types, LifeInv, Running, inputs
        <3> QED BY <3>2, <3>3, <3>4 DEF LifeInv
    <2> QED BY <2>2, <2>3, <2>4 DEF IInv
<1>3. CASE /\ life' = [life EXCEPT ![r] = "half"]
           /\ adapters' = adapters \cup {r} /\ active' \in {active, r}
           /\ UNCHANGED <<optimizer, content>>
    <2>1. UNCHANGED <<stage, performed, saved, inputs>> /\ life[r] = "creating"
        BY DEF CreateAdapter
    <2>2. IInv'
        BY <1>3, <2>1 DEF IInv, Types, OwnInv, DoneInv, Lives, inputs
    <2>3. ASSUME LifeInv PROVE LifeInv'
        BY <1>3, <2>1, <2>3 DEF IInv, Types, LifeInv, Running, Alive, inputs
    <2> QED BY <2>2, <2>3
<1> QED BY <1>1, <1>2, <1>3 DEF CreateAdapter

LEMMA RemoveOK ==
    ASSUME IInv, NEW r \in Runs, RemoveAdapter(r)
    PROVE  IInv' /\ (LifeInv /\ Prompt => LifeInv')
<1>1. /\ life[r] = "leaving" /\ life' = [life EXCEPT ![r] = "gone"]
      /\ UNCHANGED <<stage, performed, saved, inputs>>
    BY DEF RemoveAdapter
<1>2. CASE optimizer[r] = None /\ UNCHANGED model
    <2>1. IInv'
        BY <1>1, <1>2 DEF IInv, Types, OwnInv, DoneInv, Lives, model, inputs
    <2>2. ~LifeInv
        BY <1>1, <1>2 DEF IInv, OwnInv, LifeInv, Alive
    <2> QED BY <2>1, <2>2
<1>3. CASE /\ optimizer[r] # None /\ DeleteAdapter(r)
           /\ optimizer' = [optimizer EXCEPT ![r] = None]
           /\ content' = [content EXCEPT ![r] = Fresh]
    <2>1. adapters' = adapters \ {r} /\ active' \in adapters'
        BY <1>3 DEF DeleteAdapter, IInv, OwnInv
    <2>2. Types' /\ DoneInv'
        BY <1>1, <1>3, FreshContent DEF IInv, Types, DoneInv, Lives, inputs
    <2>3. OwnInv'
        BY <1>3, <2>1, BaseAssumption DEF IInv, Types, OwnInv
    <2>4. ASSUME LifeInv PROVE LifeInv'
        <3>1. \A q \in Runs : /\ optimizer'[q] # None <=> life'[q] \in Alive
                              /\ q \in adapters' => life'[q] \in Alive \cup {"half"}
            BY <1>1, <1>3, <2>1, <2>4 DEF IInv, Types, LifeInv, Alive
        <3>2. \A q \in Runs :
                  IF life'[q] \in Alive THEN content'[q].moments # {} ELSE content'[q] = Fresh
            BY <1>1, <1>3, <2>4 DEF IInv, Types, LifeInv, Alive
        <3>3. \A o \in Operations : Running(o, "load")' => life'[target'[o]] = "live"
            BY <1>1, <2>4 DEF IInv, Types, LifeInv, Running, inputs
        <3> QED BY <3>1, <3>2, <3>3 DEF LifeInv
    <2> QED BY <2>2, <2>3, <2>4 DEF IInv
<1> QED BY <1>2, <1>3 DEF RemoveAdapter

(* An operation ends.                                                      *)
LEMMA EndOK ==
    ASSUME IInv, NEW o \in Operations, stage[o] = "running", UNCHANGED <<life, inputs>>,
           \/ Returns(o) /\ \/ UNCHANGED saved
                            \/ \E x \in Content : saved' = [saved EXCEPT ![o] = {x}]
           \/ /\ stage' = [stage EXCEPT ![o] = "failed"]
              /\ performed' = performed \cup {o} /\ UNCHANGED saved
    PROVE  /\ DoneInv' /\ stage' \in [Operations -> {"new", "running", "done", "failed"}]
           /\ \A p \in Operations : Running(p, "load")' => Running(p, "load")
<1>1. stage' \in [Operations -> {"new", "running", "done", "failed"}]
    BY DEF IInv, Types, Returns
<1>2. \A p \in Operations : Running(p, "load")' => Running(p, "load")
    BY DEF IInv, Types, Returns, Running, inputs
<1>3. performed' \in SUBSET Operations /\ \A p \in performed' : stage'[p] \in {"done", "failed"}
    BY DEF IInv, Types, DoneInv, Returns
<1>4. DOMAIN saved' = Operations /\ \A p \in Operations : \A file \in saved'[p] : file \in Content
    BY DEF IInv, DoneInv
<1> QED BY <1>1, <1>2, <1>3, <1>4 DEF DoneInv

LEMMA ForwardOK ==
    ASSUME IInv, NEW o \in Operations, Forward(o)
    PROVE  IInv' /\ (LifeInv /\ Prompt => LifeInv')
<1>1. /\ stage[o] = "running" /\ Returns(o) /\ active' = target[o] /\ optimizer[target[o]] # None
      /\ UNCHANGED <<life, adapters, optimizer, saved, inputs>>
    BY DEF Forward, Running, ActivateAdapter
<1>2. DoneInv' /\ Types'
    BY <1>1, EndOK, ForwardContent DEF IInv, Types, inputs
<1>3. OwnInv'
    BY <1>1 DEF IInv, Types, OwnInv
<1>4. ASSUME LifeInv PROVE LifeInv'
    <2>1. target[o] \in Runs /\ life[target[o]] \in Alive
        BY <1>1, <1>4 DEF IInv, Types, OwnInv, LifeInv
    <2>2. \A q \in Runs : IF life[q] \in Alive THEN content'[q].moments # {} ELSE content'[q] = Fresh
        <3>1. \A q \in Runs : content'[q].moments = content[q].moments
            BY ForwardContent
        <3>2. \A q \in Runs : q # target[o] => content'[q] = content[q]
            BY ForwardContent
        <3>3. \A q \in Runs : IF life[q] \in Alive THEN content[q].moments # {} ELSE content[q] = Fresh
            BY <1>4 DEF LifeInv
        <3> HIDE DEF Alive
        <3> QED BY <2>1, <3>1, <3>2, <3>3
    <2>3. \A p \in Operations : Running(p, "load")' => life[target[p]] = "live"
        BY <1>1, <1>4, EndOK DEF LifeInv
    <2> QED BY <1>1, <1>4, <2>2, <2>3 DEF LifeInv, inputs
<1> QED BY <1>2, <1>3, <1>4 DEF IInv

LEMMA OptimOK ==
    ASSUME IInv, NEW o \in Operations, OptimStep(o)
    PROVE  IInv' /\ (LifeInv /\ Prompt => LifeInv')
<1>1. /\ stage[o] = "running" /\ Returns(o)
      /\ UNCHANGED <<life, adapters, active, optimizer, saved, inputs>>
    BY DEF OptimStep, Running
<1>2. DoneInv' /\ Types'
    BY <1>1, EndOK, OptimContent DEF IInv, Types, inputs
<1>3. OwnInv'
    BY <1>1 DEF IInv, OwnInv
<1>4. ASSUME LifeInv PROVE LifeInv'
    <2>1. target[o] \in Runs /\ life[target[o]] \in Alive
        BY <1>4, OptimContent DEF IInv, Types, OwnInv, LifeInv
    <2>2. \A q \in Runs : IF life[q] \in Alive THEN content'[q].moments # {} ELSE content'[q] = Fresh
        BY <1>4, <2>1, OptimContent DEF LifeInv, IInv, Types
    <2>3. \A p \in Operations : Running(p, "load")' => life[target[p]] = "live"
        BY <1>1, <1>4, EndOK DEF LifeInv
    <2> QED BY <1>1, <1>4, <2>2, <2>3 DEF LifeInv, inputs
<1> QED BY <1>2, <1>3, <1>4 DEF IInv

LEMMA SaveOK ==
    ASSUME IInv, NEW o \in Operations, SaveState(o)
    PROVE  IInv' /\ (LifeInv /\ Prompt => LifeInv')
<1>1. /\ stage[o] = "running" /\ Returns(o) /\ UNCHANGED <<life, model, inputs>>
    BY DEF SaveState, Running
<1>2. \E x \in Content : saved' = [saved EXCEPT ![o] = {x}]
    BY WrittenContent DEF SaveState, IInv, Types
<1>3. /\ DoneInv' /\ stage' \in [Operations -> {"new", "running", "done", "failed"}]
      /\ \A p \in Operations : Running(p, "load")' => Running(p, "load")
    BY <1>1, <1>2, EndOK
<1> QED BY <1>1, <1>3 DEF IInv, Types, OwnInv, LifeInv, model, inputs

LEMMA LoadOK ==
    ASSUME IInv, NEW o \in Operations, LoadState(o)
    PROVE  IInv' /\ (LifeInv /\ Prompt => LifeInv')
<1> DEFINE r == target[o]
<1>1. /\ Running(o, "load") /\ stage[o] = "running" /\ Returns(o) /\ adapters' = adapters \cup {r}
      /\ NewOptimizer(r) /\ UNCHANGED <<life, saved, inputs>>
    BY DEF LoadState, Running
<1>2. PICK y \in Content : y.moments # {} /\ content' = [content EXCEPT ![r] = y]
    <2>1. PICK file \in UNION {saved[p] : p \in Operations} : \E f \in WithOrWithout(file) :
              content' = [content EXCEPT ![r] = Resumed(content[r], f)]
        BY DEF LoadState
    <2>2. PICK f \in WithOrWithout(file) : content' = [content EXCEPT ![r] = Resumed(content[r], f)]
        BY <2>1
    <2>3. file \in Content /\ content[r] \in Content
        BY DEF IInv, Types, DoneInv
    <2> QED BY <2>2, <2>3, ResumedContent
<1>3. r \in Runs
    BY DEF IInv, Types
<1>4. DoneInv' /\ Types'
    BY <1>1, <1>2, <1>3, EndOK DEF IInv, Types, NewOptimizer, inputs
<1>5. OwnInv'
    BY <1>1, <1>3, BaseAssumption DEF IInv, Types, OwnInv, NewOptimizer
<1>6. ASSUME LifeInv PROVE LifeInv'
    <2>1. life[r] \in Alive
        BY <1>1, <1>6 DEF LifeInv, Alive
    <2>2. \A q \in Runs : /\ optimizer'[q] # None <=> life[q] \in Alive
                          /\ q \in adapters' => life[q] \in Alive \cup {"half"}
        BY <1>1, <1>3, <1>6, <2>1, BaseAssumption DEF LifeInv, IInv, Types, NewOptimizer
    <2>3. \A q \in Runs : IF life[q] \in Alive THEN content'[q].moments # {} ELSE content'[q] = Fresh
        BY <1>2, <1>3, <1>6, <2>1 DEF LifeInv, IInv, Types
    <2>4. \A p \in Operations : Running(p, "load")' => life[target[p]] = "live"
        BY <1>1, <1>6, EndOK DEF LifeInv
    <2> QED BY <1>1, <2>2, <2>3, <2>4 DEF LifeInv, inputs
<1> QED BY <1>4, <1>5, <1>6 DEF IInv

(* What a call that raises leaves: nothing new, or part of what it does to *)
(* the adapter of its run.                                                 *)
LEMMA RaiseContent ==
    ASSUME IInv, NEW o \in Operations, Raise(o)
    PROVE  \/ UNCHANGED model
           \/ /\ optimizer[target[o]] # None \/ kind[o] = "load"
              /\ \E file \in Private!Readable(o) : \E f \in WithOrWithout(file), part \in Parts :
                     /\ f \in Content
                     /\ content' = [content EXCEPT ![target[o]] =
                           Interrupted(part, kind[o], o, content[target[o]], f)]
<1> DEFINE r == target[o]
<1>1. r \in Runs /\ "middle" \in Parts
    BY DEF IInv, Types, Parts
<1>2. Private!Fresh = Fresh /\ Fresh \in WithOrWithout(Fresh) /\ Fresh \in Content
    BY Zenon, FreshContent DEF Private!Fresh, Fresh, WithOrWithout
<1>3. CASE InForward(o)
    <2>1. kind[o] = "forward" /\ optimizer[r] # None
        BY <1>3 DEF InForward
    <2>2. PICK part \in Parts :
              content' = [content EXCEPT ![r] = Interrupted(part, "forward", o, content[r], Fresh)]
        BY <1>3 DEF InForward
    <2>3. Fresh \in Private!Readable(o)
        BY <1>2, <2>1 DEF Private!Readable
    <2> QED BY <1>2, <2>1, <2>2, <2>3
<1>4. CASE InOptimStep(o)
    <2>1. kind[o] = "optim" /\ optimizer[r] # None
        BY <1>4 DEF InOptimStep
    <2>2. content' = [content EXCEPT ![r] = Interrupted("middle", "optim", o, content[r], Fresh)]
        BY <1>4 DEF InOptimStep
    <2>3. Fresh \in Private!Readable(o)
        BY <1>2, <2>1 DEF Private!Readable
    <2> QED BY <1>1, <1>2, <2>1, <2>2, <2>3
<1>5. CASE InLoadState(o)
    <2>1. kind[o] = "load"
        BY <1>5 DEF InLoadState
    <2>2. PICK part \in Parts : \E file \in UNION {saved[p] : p \in Operations} :
              content' = [content EXCEPT ![r] =
                  Interrupted(part, "load", o, content[r], [file EXCEPT !.moments = {}])]
        BY <1>5 DEF InLoadState
    <2>3. PICK file \in UNION {saved[p] : p \in Operations} :
              content' = [content EXCEPT ![r] =
                  Interrupted(part, "load", o, content[r], [file EXCEPT !.moments = {}])]
        BY <2>2
    <2>4. file \in Private!Readable(o)
        BY <2>1 DEF Private!Readable
    <2>5. [file EXCEPT !.moments = {}] \in WithOrWithout(file) /\ [file EXCEPT !.moments = {}] \in Content
        BY DEF WithOrWithout, Content, IInv, DoneInv
    <2> QED BY <2>1, <2>3, <2>4, <2>5
<1> QED BY <1>3, <1>4, <1>5 DEF Raise

LEMMA RaiseOK ==
    ASSUME IInv, NEW o \in Operations, Raise(o)
    PROVE  IInv' /\ (LifeInv /\ Prompt => LifeInv')
<1> DEFINE r == target[o]
<1>1. /\ stage[o] = "running" /\ stage' = [stage EXCEPT ![o] = "failed"]
      /\ performed' = performed \cup {o} /\ UNCHANGED <<life, saved, inputs>>
    BY DEF Raise
<1>2. r \in Runs /\ content \in [Runs -> Content] /\ kind[o] \in Kinds
    BY DEF IInv, Types
<1>3. /\ UNCHANGED optimizer
      /\ adapters' = adapters \/ (kind[o] = "load" /\ adapters' = adapters \cup {r})
      /\ active' = active \/ (active' = r /\ r \in adapters')
    BY <1>2 DEF Raise, InForward, InOptimStep, InLoadState, ActivateAdapter, model, IInv, OwnInv
<1>4. \/ UNCHANGED content
      \/ /\ optimizer[r] # None \/ kind[o] = "load"
         /\ \E y \in Content : /\ content[r].moments # {} => y.moments # {}
                              /\ content' = [content EXCEPT ![r] = y]
    BY <1>2, RaiseContent, InterruptedContent DEF model
<1>5. DoneInv' /\ Types'
    <2>1. DoneInv' /\ stage' \in [Operations -> {"new", "running", "done", "failed"}]
        BY <1>1, EndOK
    <2>2. content' \in [Runs -> Content]
        BY <1>2, <1>4
    <2> QED BY <1>1, <1>3, <2>1, <2>2 DEF IInv, Types, inputs
<1>6. OwnInv'
    BY <1>2, <1>3, BaseAssumption DEF IInv, Types, OwnInv
<1>7. ASSUME LifeInv PROVE LifeInv'
    <2>1. (optimizer[r] # None => life[r] \in Alive) /\ (kind[o] = "load" => life[r] \in Alive)
        BY <1>1, <1>2, <1>7 DEF LifeInv, Running, Alive
    <2>2. \A q \in Runs : /\ optimizer'[q] # None <=> life[q] \in Alive
                          /\ q \in adapters' => life[q] \in Alive \cup {"half"}
        BY <1>3, <1>7, <2>1 DEF LifeInv
    <2>3. \A q \in Runs : IF life[q] \in Alive THEN content'[q].moments # {} ELSE content'[q] = Fresh
        BY <1>2, <1>4, <1>7, <2>1 DEF LifeInv
    <2>4. \A p \in Operations : Running(p, "load")' => life[target[p]] = "live"
        BY <1>1, <1>7, EndOK DEF LifeInv
    <2> QED BY <1>1, <2>2, <2>3, <2>4 DEF LifeInv, inputs
<1> QED BY <1>5, <1>6, <1>7 DEF IInv

LEMMA NextOK ==
    ASSUME IInv, [Next]_vars
    PROVE  IInv' /\ (LifeInv /\ Prompt => LifeInv')
<1>1. CASE Next
    BY <1>1, CallsOK, OpBeginOK, CreateOK, RemoveOK, ForwardOK, OptimOK, SaveOK, LoadOK, RaiseOK
        DEF Next, Method
<1>2. CASE UNCHANGED vars
    BY <1>2 DEF vars, model, inputs, IInv, Types, OwnInv, LifeInv, DoneInv, Running
<1> QED BY <1>1, <1>2

LEMMA Invariant == Spec => []IInv
BY InitOK, NextOK, PTL DEF Spec

LEMMA PromptInvariant == Prompt /\ Spec => [](IInv /\ LifeInv)
<1>1. SUFFICES ASSUME Prompt PROVE Spec => [](IInv /\ LifeInv)
    OBVIOUS
<1>2. IInv /\ LifeInv /\ [Next]_vars => (IInv /\ LifeInv)'
    BY <1>1, NextOK
<1> QED BY <1>2, InitOK, PTL DEF Spec

-----------------------------------------------------------------------------
(* An optimizer steps the parameters of its own run, which are in the      *)
(* model, whatever calls meet, fail or come late.                          *)
THEOREM OptimizersStayOwn == Spec => []OptimizersAreOwn
<1>1. IInv => OptimizersAreOwn
    BY DEF IInv, OwnInv, OptimizersAreOwn
<1> QED BY <1>1, Invariant, PTL

(* No adapter outlives its run or the refusal of its creation, and the     *)
(* active one is always there, if no load comes after the removal.         *)
THEOREM AdaptersAlwaysComeBack == Prompt /\ Spec => []AdaptersComeBack
<1>1. IInv /\ LifeInv => AdaptersComeBack
    BY DEF IInv, OwnInv, LifeInv, AdaptersComeBack, Alive
<1> QED BY <1>1, PromptInvariant, PTL

-----------------------------------------------------------------------------
(* The refinement: every step is one of PrivateAdapters or none.           *)

Seen == <<performed, saved, target, kind>>

(* The abstract operators are the same ones.                               *)
LEMMA SameOperators ==
    /\ Private!Fresh = Fresh
    /\ \A x : Private!WithOptimizer(x) = WithOptimizer(x)
    /\ \A x : Private!WithOrWithout(x) = WithOrWithout(x)
    /\ \A x : Private!Written(x) = Written(x)
    /\ \A x, f : Private!Resumed(x, f) = Resumed(x, f)
    /\ Private!Parts = Parts
    /\ \A k \in Kinds : \A part, o, x, f : Private!Interrupted(part, k, o, x, f) = Interrupted(part, k, o, x, f)
<1>1. Private!Fresh = Fresh
    BY Zenon DEF Fresh, Private!Fresh
<1>2. \A x : Private!WithOptimizer(x) = WithOptimizer(x)
    BY Zenon DEF WithOptimizer, Private!WithOptimizer
<1>3. \A x : Private!WithOrWithout(x) = WithOrWithout(x)
    BY Zenon DEF WithOrWithout, Private!WithOrWithout
<1>4. \A x : Private!Written(x) = Written(x)
    BY Zenon DEF Written, Private!Written
<1>5. \A x, f : Private!Resumed(x, f) = Resumed(x, f)
    BY Zenon DEF Resumed, Private!Resumed
<1>6. \A k, o, x, f : Private!After(k, o, x, f) = After(k, o, x, f)
    BY Zenon, <1>2 DEF After, Private!After
<1>7. \A k, x : Private!Attempted(k, x) = Attempted(k, x)
    BY Zenon, <1>2 DEF Attempted, Private!Attempted
<1>8. \A k \in Kinds : \A part, o, x, f : Private!Interrupted(part, k, o, x, f) = Interrupted(part, k, o, x, f)
    <2> SUFFICES ASSUME NEW k \in Kinds, NEW part, NEW o, NEW x, NEW f
                 PROVE  Private!Interrupted(part, k, o, x, f) = Interrupted(part, k, o, x, f)
        OBVIOUS
    <2>1. /\ Private!After(k, o, x, f) = After(k, o, x, f)
          /\ Private!Attempted(k, x) = Attempted(k, x)
          /\ Private!WithOptimizer(x) = WithOptimizer(x)
        BY Zenon, <1>2, <1>6, <1>7
    <2>2. CASE part = "start"
        BY Zenon, <2>1, <2>2 DEF Interrupted, Private!Interrupted
    <2>3. CASE part # "start" /\ k = "forward"
        BY Zenon, <2>1, <2>3 DEF Interrupted, Private!Interrupted
    <2>4. CASE part # "start" /\ k = "optim"
        BY Zenon, <2>1, <2>4 DEF Interrupted, Private!Interrupted
    <2>5. CASE part # "start" /\ k = "save"
        BY Zenon, <2>5 DEF Interrupted, Private!Interrupted
    <2>6. CASE part # "start" /\ k = "load"
        BY Zenon, <2>1, <2>6 DEF Interrupted, Private!Interrupted
    <2> QED BY <2>2, <2>3, <2>4, <2>5, <2>6 DEF Kinds
<1>9. Private!Parts = Parts
    BY Zenon DEF Parts, Private!Parts
<1> QED BY <1>1, <1>2, <1>3, <1>4, <1>5, <1>8, <1>9

(* After, for each kind of operation; an adapter of a run has an optimizer.*)
LEMMA Afters ==
    /\ \A o, x, f : x \in Content /\ x.moments # {} =>
           Private!After("forward", o, x, f) = [x EXCEPT !.gradients = @ \cup {o}]
    /\ \A o, x, f : Private!After("optim", o, x, f) = After("optim", o, x, Fresh)
    /\ \A o, x, f : Private!After("save", o, x, f) = x
<1>1. \A o, x, f : Private!After("forward", o, x, f)
                   = [Private!WithOptimizer(x) EXCEPT !.gradients = @ \cup {o}]
    BY Zenon DEF Private!After
<1>2. ASSUME NEW x \in Content, x.moments # {}
      PROVE  Private!WithOptimizer(x) = x
    <2>1. Private!WithOptimizer(x) = [x EXCEPT !.moments = x.moments]
        BY <1>2 DEF Private!WithOptimizer
    <2>2. [x EXCEPT !.moments = x.moments] = x
        BY DEF Content
    <2> QED BY <2>1, <2>2
<1>3. \A o, x, f : Private!After("optim", o, x, f) = After("optim", o, x, Fresh)
    BY Zenon DEF Private!After, After
<1>4. \A o, x, f : Private!After("save", o, x, f) = x
    BY Zenon DEF Private!After
<1>5. ASSUME NEW o, NEW x, NEW f, x \in Content, x.moments # {}
      PROVE  Private!After("forward", o, x, f) = [x EXCEPT !.gradients = @ \cup {o}]
    BY Zenon, <1>1, <1>2, <1>5
<1> QED BY <1>3, <1>4, <1>5

LEMMA SameAges ==
    ASSUME \A q \in Runs : (life'[q] \in Alive <=> life[q] \in Alive) /\ (life'[q] = "gone" <=> life[q] = "gone")
    PROVE  Age' = Age
BY DEF Age, Alive

LEMMA AliveAge ==
    ASSUME NEW r \in Runs
    PROVE  Age[r] = "alive" <=> life[r] \in Alive
BY DEF Age, Alive

LEMMA InitRefines == Init => Private!Init
<1>1. Init => Age = [r \in Runs |-> "unborn"]
    BY DEF Init, Age
<1> QED BY <1>1, SameOperators DEF Init, Private!Init, inputs, Private!Kinds, Kinds

(* An operation that returned takes effect at once.                        *)
LEMMA PerformRefines ==
    ASSUME IInv, LifeInv, NEW o \in Operations, stage[o] = "running", optimizer[target[o]] # None,
           Returns(o), UNCHANGED <<life, inputs>>,
           NEW y, content' = [content EXCEPT ![target[o]] = y],
           y = Private!After(kind[o], o, content[target[o]], Fresh), kind[o] # "load",
           \/ kind[o] # "save" /\ UNCHANGED saved
           \/ kind[o] = "save" /\ \E x \in WithOrWithout(content[target[o]]) :
                 saved' = [saved EXCEPT ![o] = {Written(x)}]
    PROVE  Private!Next
<1> DEFINE r == target[o]
<1>1. r \in Runs /\ Age[r] = "alive" /\ o \notin performed
    BY AliveAge DEF IInv, Types, OwnInv, LifeInv, DoneInv
<1>2. Age' = Age /\ UNCHANGED <<target, kind>>
    BY SameAges DEF inputs
<1>3. y \in Private!Outcomes(o, content[r], Private!Fresh)
    BY SameOperators DEF Private!Outcomes
<1>4. \/ kind[o] # "save" /\ UNCHANGED saved
      \/ /\ kind[o] = "save"
         /\ \E x \in Private!WithOrWithout(content[r]) : saved' = [saved EXCEPT ![o] = {Private!Written(x)}]
    BY SameOperators
<1>5. Private!Perform(o)
    BY <1>1, <1>2, <1>3, <1>4 DEF Private!Perform, Private!Readable, Returns
<1> QED BY <1>5 DEF Private!Next

LEMMA CreateRefines ==
    ASSUME IInv, LifeInv, NEW r \in Runs, CreateAdapter(r)
    PROVE  Private!Next \/ UNCHANGED Private!privateVars
<1>1. life[r] = "creating" /\ UNCHANGED Seen
    BY DEF CreateAdapter, Seen, inputs
<1>2. CASE life' = [life EXCEPT ![r] = "failed"] /\ UNCHANGED model
    <2>1. Age' = Age
        BY <1>1, <1>2, SameAges DEF IInv, Types, Alive
    <2> QED BY <1>1, <1>2, <2>1 DEF Private!privateVars, Seen, model
<1>3. CASE life' = [life EXCEPT ![r] = "live"] /\ content' = [content EXCEPT ![r] = WithOptimizer(Fresh)]
    <2>1. Age[r] = "unborn" /\ Age' = [Age EXCEPT ![r] = "alive"]
        BY <1>1, <1>3 DEF Age, IInv, Types
    <2>2. Private!Create(r)
        BY <1>1, <1>3, <2>1, SameOperators DEF Private!Create, Seen
    <2> QED BY <2>2 DEF Private!Next
<1>4. CASE life' = [life EXCEPT ![r] = "half"] /\ UNCHANGED content
    <2>1. Age' = Age
        BY <1>1, <1>4, SameAges DEF IInv, Types, Alive
    <2> QED BY <1>1, <1>4, <2>1 DEF Private!privateVars, Seen
<1> QED BY <1>2, <1>3, <1>4 DEF CreateAdapter

LEMMA RemoveRefines ==
    ASSUME IInv, LifeInv, NEW r \in Runs, RemoveAdapter(r)
    PROVE  Private!Next
<1>1. /\ life[r] = "leaving" /\ life' = [life EXCEPT ![r] = "gone"] /\ UNCHANGED Seen
      /\ optimizer[r] # None
    BY DEF RemoveAdapter, Seen, inputs, IInv, OwnInv, LifeInv, Alive
<1>2. content' = [content EXCEPT ![r] = Fresh]
    BY <1>1 DEF RemoveAdapter
<1>3. Age[r] = "alive" /\ Age' = [Age EXCEPT ![r] = "dead"]
    BY <1>1 DEF Age, IInv, Types
<1>4. Private!Remove(r)
    BY <1>1, <1>2, <1>3, SameOperators DEF Private!Remove, Seen
<1> QED BY <1>4 DEF Private!Next

LEMMA ForwardRefines ==
    ASSUME IInv, LifeInv, NEW o \in Operations, Forward(o)
    PROVE  Private!Next
<1> DEFINE r == target[o]
<1> DEFINE y == [content[r] EXCEPT !.gradients = @ \cup {o}]
<1>1. /\ stage[o] = "running" /\ kind[o] = "forward" /\ optimizer[r] # None /\ Returns(o)
      /\ UNCHANGED <<life, inputs>> /\ UNCHANGED saved
    BY DEF Forward, Running
<1>2. content' = [content EXCEPT ![r] = y]
    BY ForwardContent
<1>3. r \in Runs /\ content[r] \in Content /\ content[r].moments # {}
    BY <1>1 DEF IInv, Types, OwnInv, LifeInv
<1>4. y = Private!After(kind[o], o, content[r], Fresh)
    BY <1>1, <1>3, Afters
<1> HIDE DEF y
<1> QED BY <1>1, <1>2, <1>4, PerformRefines

LEMMA OptimRefines ==
    ASSUME IInv, LifeInv, NEW o \in Operations, OptimStep(o)
    PROVE  Private!Next
<1> DEFINE r == target[o]
<1> DEFINE y == After("optim", o, content[r], Fresh)
<1>1. /\ stage[o] = "running" /\ kind[o] = "optim" /\ Returns(o)
      /\ UNCHANGED <<life, inputs>> /\ UNCHANGED saved
    BY DEF OptimStep, Running
<1>2. optimizer[r] # None /\ content' = [content EXCEPT ![r] = y]
    BY OptimContent
<1>3. y = Private!After(kind[o], o, content[r], Fresh)
    BY <1>1, Afters
<1> HIDE DEF y
<1> QED BY <1>1, <1>2, <1>3, PerformRefines

LEMMA SaveRefines ==
    ASSUME IInv, LifeInv, NEW o \in Operations, SaveState(o)
    PROVE  Private!Next
<1> DEFINE r == target[o]
<1>1. /\ stage[o] = "running" /\ kind[o] = "save" /\ optimizer[r] # None /\ Returns(o)
      /\ UNCHANGED <<life, inputs>> /\ UNCHANGED content
    BY DEF SaveState, Running, model
<1>2. content' = [content EXCEPT ![r] = content[r]]
    BY <1>1 DEF IInv, Types
<1>3. content[r] = Private!After(kind[o], o, content[r], Fresh)
    BY <1>1, Afters
<1>4. \E x \in WithOrWithout(content[r]) : saved' = [saved EXCEPT ![o] = {Written(x)}]
    BY DEF SaveState
<1> QED BY <1>1, <1>2, <1>3, <1>4, PerformRefines

LEMMA LoadRefines ==
    ASSUME IInv, LifeInv, NEW o \in Operations, LoadState(o)
    PROVE  Private!Next
<1> DEFINE r == target[o]
<1>1. /\ Running(o, "load") /\ stage[o] = "running" /\ kind[o] = "load" /\ Returns(o)
      /\ UNCHANGED <<life, inputs>> /\ UNCHANGED saved
    BY DEF LoadState, Running
<1>2. r \in Runs /\ Age[r] = "alive" /\ o \notin performed
    BY <1>1, AliveAge DEF IInv, Types, LifeInv, DoneInv, Alive
<1>3. Age' = Age /\ UNCHANGED <<target, kind>>
    BY <1>1, SameAges DEF inputs
<1>4. PICK file \in UNION {saved[p] : p \in Operations} : \E f \in WithOrWithout(file) :
          content' = [content EXCEPT ![r] = Resumed(content[r], f)]
    BY DEF LoadState
<1>5. PICK f \in WithOrWithout(file) : content' = [content EXCEPT ![r] = Resumed(content[r], f)]
    BY <1>4
<1>6. Resumed(content[r], f) \in Private!Outcomes(o, content[r], file)
    BY <1>1, SameOperators DEF Private!Outcomes
<1>7. Private!Perform(o)
    BY <1>1, <1>2, <1>3, <1>5, <1>6 DEF Private!Perform, Private!Readable, Returns
<1> QED BY <1>7 DEF Private!Next

LEMMA RaiseRefines ==
    ASSUME IInv, LifeInv, NEW o \in Operations, Raise(o)
    PROVE  Private!Next
<1> DEFINE r == target[o]
<1>1. /\ stage[o] = "running" /\ performed' = performed \cup {o}
      /\ UNCHANGED <<life, saved, inputs>>
    BY DEF Raise
<1>2. o \notin performed /\ r \in Runs
    BY <1>1 DEF IInv, DoneInv, Types
<1>3. Age' = Age /\ UNCHANGED <<target, kind>>
    BY <1>1, SameAges DEF inputs
<1>4. CASE UNCHANGED model
    <2>1. Private!Fail(o)
        BY <1>1, <1>2, <1>3, <1>4 DEF Private!Fail, model
    <2> QED BY <2>1 DEF Private!Next
<1>5. CASE /\ optimizer[r] # None \/ kind[o] = "load"
           /\ \E file \in Private!Readable(o) : \E f \in WithOrWithout(file), part \in Parts :
                  content' = [content EXCEPT ![r] = Interrupted(part, kind[o], o, content[r], f)]
    <2>1. Age[r] = "alive"
        BY <1>1, <1>2, <1>5, AliveAge DEF LifeInv, Running, Alive
    <2>2. PICK file \in Private!Readable(o) : \E f \in WithOrWithout(file), part \in Parts :
              content' = [content EXCEPT ![r] = Interrupted(part, kind[o], o, content[r], f)]
        BY <1>5
    <2>3. PICK f \in WithOrWithout(file), part \in Parts :
              content' = [content EXCEPT ![r] = Interrupted(part, kind[o], o, content[r], f)]
        BY <2>2
    <2>4. /\ f \in Private!WithOrWithout(file) /\ part \in Private!Parts
          /\ content' = [content EXCEPT ![r] = Private!Interrupted(part, kind[o], o, content[r], f)]
        <3>1. kind[o] \in Kinds
            BY DEF IInv, Types
        <3>2. Private!Interrupted(part, kind[o], o, content[r], f) = Interrupted(part, kind[o], o, content[r], f)
            BY Zenon, <3>1, SameOperators
        <3> QED BY Zenon, <2>3, <3>2, SameOperators
    <2>5. Private!Fail(o)
        BY <1>1, <1>2, <1>3, <2>1, <2>4 DEF Private!Fail
    <2> QED BY <2>5 DEF Private!Next
<1> QED BY <1>4, <1>5, RaiseContent

LEMMA NextRefines ==
    ASSUME IInv, LifeInv, [Next]_vars
    PROVE  [Private!Next]_(Private!privateVars)
<1>1. ASSUME NEW r \in Runs, CreateBegin(r) \/ RemoveBegin(r)
      PROVE  UNCHANGED Private!privateVars
    <2>1. Age' = Age
        BY <1>1, SameAges DEF CreateBegin, RemoveBegin, IInv, Types, Alive
    <2> QED BY <1>1, <2>1 DEF CreateBegin, RemoveBegin, model, inputs, Private!privateVars
<1>2. ASSUME NEW o \in Operations, OpBegin(o)
      PROVE  UNCHANGED Private!privateVars
    BY <1>2, SameAges DEF OpBegin, model, inputs, Private!privateVars
<1>3. CASE UNCHANGED vars
    BY <1>3, SameAges DEF vars, model, inputs, Private!privateVars
<1> QED BY <1>1, <1>2, <1>3, CreateRefines, RemoveRefines, ForwardRefines, OptimRefines,
           SaveRefines, LoadRefines, RaiseRefines DEF Next, Method

(* One model with one active adapter behaves as if every run had a model   *)
(* of its own, whatever order the calls of the runs come in and however    *)
(* far those got that raised, if no load comes after the removal.          *)
THEOREM OneModelServesAll == Prompt /\ Spec => AdaptersArePrivate
<1>1. SUFFICES ASSUME Prompt PROVE Spec => AdaptersArePrivate
    OBVIOUS
<1>2. IInv /\ LifeInv /\ [Next]_vars => [Private!Next]_(Private!privateVars)
    BY NextRefines
<1> QED BY <1>1, <1>2, InitRefines, PromptInvariant, PTL DEF Spec, AdaptersArePrivate, Private!Spec
=============================================================================
