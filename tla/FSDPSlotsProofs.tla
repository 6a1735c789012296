---------------------------- MODULE FSDPSlotsProofs ----------------------------
(* Theorems about FSDPSlots, for any runs, operations, number of actors,    *)
(* capacity, sizes of data and faults, and about the division of requests   *)
(* that TrainingBatch has, for any length, fields and micro_batch_size.     *)
EXTENDS FSDPSlots, SequenceTheorems, WellFoundedInduction, TLAPS

-----------------------------------------------------------------------------
(* Queues *)

IsSeq(s) == \E S : s \in Seq(S)

LEMMA Appended ==
    ASSUME NEW s, IsSeq(s), NEW m
    PROVE  /\ IsSeq(Append(s, m))
           /\ \A p \in DOMAIN Append(s, m) :
                  Append(s, m)[p] = m \/ (p \in DOMAIN s /\ Append(s, m)[p] = s[p])
           /\ \A p, q \in DOMAIN Append(s, m) : p # q =>
                  \/ p \in DOMAIN s /\ Append(s, m)[p] = s[p]
                  \/ q \in DOMAIN s /\ Append(s, m)[q] = s[q]
<1>1. PICK S : s \in Seq(S)
    BY DEF IsSeq
<1>2. s \in Seq(S \cup {m})
    BY <1>1, SeqMonotonic
<1>3. /\ Len(s) \in Nat /\ DOMAIN s = 1..Len(s)
      /\ Append(s, m) \in Seq(S \cup {m})
      /\ Len(Append(s, m)) = Len(s) + 1 /\ DOMAIN Append(s, m) = 1..Len(s) + 1
      /\ \A p \in 1..Len(s) : Append(s, m)[p] = s[p]
      /\ Append(s, m)[Len(s) + 1] = m
    BY <1>2
<1> QED BY <1>3 DEF IsSeq

LEMMA Tailed ==
    ASSUME NEW s, IsSeq(s), s # <<>>
    PROVE  /\ IsSeq(Tail(s))
           /\ 1 \in DOMAIN s /\ Head(s) = s[1]
           /\ \A p \in DOMAIN Tail(s) :
                  p + 1 \in DOMAIN s /\ p + 1 # 1 /\ Tail(s)[p] = s[p + 1]
           /\ \A p, q \in DOMAIN Tail(s) : p # q => p + 1 # q + 1
<1>1. PICK S : s \in Seq(S)
    BY DEF IsSeq
<1>2. /\ Len(s) \in Nat \ {0} /\ DOMAIN s = 1..Len(s) /\ Head(s) = s[1]
      /\ Tail(s) \in Seq(S) /\ Len(Tail(s)) = Len(s) - 1
      /\ \A p \in 1..Len(Tail(s)) : Tail(s)[p] = s[p + 1]
    BY <1>1, HeadTailProperties, EmptySeq
<1>3. DOMAIN Tail(s) = 1..Len(Tail(s))
    BY <1>2, LenProperties
<1> QED BY <1>2, <1>3 DEF IsSeq

(* A nonempty set of numbers has a least element.                          *)
LEMMA LeastOf ==
    ASSUME NEW T \in SUBSET Nat, T # {}
    PROVE  Min(T) \in T
<1> DEFINE Less == {p \in Nat \X Nat : p[1] < p[2]}
<1>1. IsWellFoundedOn(Less, Nat)
    BY NatLessThanWellFounded, Zenon DEF OpToRel
<1>2. \A x, y \in Nat : y < x => <<y, x>> \in Less
    OBVIOUS
<1> HIDE DEF Less
<1>3. PICK x \in T : \A y \in T : ~ (<<y, x>> \in Less)
    BY <1>1, WFMin
<1>4. \A y \in T : ~ (y < x)
    BY <1>2, <1>3, Zenon
<1>5. \A y \in T : x <= y
    BY <1>4
<1> QED BY <1>5, Zenon DEF Min

-----------------------------------------------------------------------------
(* Who has a slot.  The lead takes its calls in order and the event loop   *)
(* makes them in order, so a run loses its slot, on the lead, before the   *)
(* slot is free for another; neither the lock of create_adapter and        *)
(* remove_adapter nor the other actors matter for that.                    *)

Claims(r, s) ==
    \/ life[r] \in {"allocated", "reserving"} /\ got[r] = s
    \/ slotOf[r] = s
    \/ \E p \in DOMAIN inbox[Lead] :
           inbox[Lead][p].call = "release" /\ inbox[Lead][p].by = r /\ inbox[Lead][p].slot = s

Shape ==
    /\ DOMAIN inbox = Actors /\ DOMAIN allocated = Actors
    /\ \A k \in Actors : IsSeq(inbox[k])
    /\ DOMAIN life = Runs /\ DOMAIN got = Runs /\ DOMAIN slotOf = Runs
    /\ capacity \in Nat

(* Calls about slots are those of create_adapter and remove_adapter, each  *)
(* of which makes one to the lead.                                         *)
SlotCalls ==
    /\ \A p \in DOMAIN inbox[Lead] :
           /\ inbox[Lead][p].call = "allocate" =>
                  inbox[Lead][p].by \in Runs /\ life[inbox[Lead][p].by] = "allocating"
           /\ inbox[Lead][p].call = "release" =>
                  inbox[Lead][p].by \in Runs /\ life[inbox[Lead][p].by] \in {"releasing", "gone"}
    /\ \A p, q \in DOMAIN inbox[Lead] :
           /\ p # q
           /\ inbox[Lead][p].call \in {"allocate", "release"}
           /\ inbox[Lead][q].call \in {"allocate", "release"}
           => inbox[Lead][p].by # inbox[Lead][q].by
    /\ \A k \in Actors \ {Lead} : \A p \in DOMAIN inbox[k] : inbox[k][p].call # "allocate"

Progress ==
    \A r \in Runs :
        /\ life[r] \in {"new", "locking", "allocating"} => got[r] = 0
        /\ slotOf[r] # 0 => life[r] \in {"live", "leaving"}

(* A slot somebody claims is marked on the lead, and nobody else claims it.*)
ClaimsExclude ==
    \A r \in Runs : \A s : s # 0 /\ Claims(r, s) =>
        s \in allocated[Lead] /\ \A q \in Runs \ {r} : ~ Claims(q, s)

SlotInv == Shape /\ SlotCalls /\ Progress /\ ClaimsExclude

LEMMA LeadIsActor == Lead \in Actors
BY WorldAssumption DEF Lead, Actors

LEMMA SlotInvInit == Init => SlotInv
<1> SUFFICES ASSUME Init PROVE SlotInv
    OBVIOUS
<1>1. IsSeq(<<>>) /\ DOMAIN <<>> = {}
    BY EmptySeq DEF IsSeq
<1>2. Shape
    BY <1>1, CapacitiesAssumption DEF Init, Shape
<1>3. SlotCalls
    BY <1>1, LeadIsActor DEF Init, SlotCalls
<1>4. Progress
    BY DEF Init, Progress
<1>5. ClaimsExclude
    BY <1>1, LeadIsActor DEF Init, ClaimsExclude, Claims
<1> QED BY <1>2, <1>3, <1>4, <1>5 DEF SlotInv

(* A step after which nobody claims more than before.                      *)
LEMMA ClaimsKept ==
    ASSUME ClaimsExclude, \A r \in Runs : \A s : s # 0 /\ Claims(r, s)' => Claims(r, s),
           allocated[Lead] \subseteq allocated'[Lead]
    PROVE  ClaimsExclude'
BY DEF ClaimsExclude

(* A step of create_adapter, remove_adapter or an operation that calls no  *)
(* actor.                                                                  *)
LEMMA QuietSteps ==
    ASSUME SlotInv, NEW r \in Runs,
           \/ CreateBegin(r) \/ RemoveBegin(r) \/ CreateEnds(r) \/ RemoveEnds(r)
    PROVE  SlotInv'
<1> USE DEF actorVars, inputs
<1>1. Shape'
    BY DEF SlotInv, Shape, CreateBegin, RemoveBegin, CreateEnds, RemoveEnds, MovesTo
<1>2. SlotCalls'
    BY DEF SlotInv, Shape, SlotCalls, CreateBegin, RemoveBegin, CreateEnds, RemoveEnds, MovesTo
<1>3. Progress'
    BY DEF SlotInv, Shape, Progress, CreateBegin, RemoveBegin, CreateEnds, RemoveEnds, MovesTo
<1>4. \A q \in Runs : \A s : s # 0 /\ Claims(q, s)' => Claims(q, s)
    BY DEF SlotInv, Shape, Progress, Claims, CreateBegin, RemoveBegin, CreateEnds, RemoveEnds, MovesTo
<1>5. UNCHANGED allocated
    BY DEF CreateBegin, RemoveBegin, CreateEnds, RemoveEnds
<1> QED BY <1>1, <1>2, <1>3, <1>4, <1>5, ClaimsKept DEF SlotInv

(* What is queued after a call to some actors.                             *)
LEMMA SentTo ==
    ASSUME Shape, NEW m, NEW to, inbox' = Sent(m, to)
    PROVE  /\ DOMAIN inbox' = Actors /\ \A k \in Actors : IsSeq(inbox'[k])
           /\ \A k \in Actors : \A p \in DOMAIN inbox'[k] :
                  \/ k \in to /\ inbox'[k][p] = m
                  \/ p \in DOMAIN inbox[k] /\ inbox'[k][p] = inbox[k][p]
           /\ \A k \in Actors : \A p, q \in DOMAIN inbox'[k] :
                  p # q => \/ p \in DOMAIN inbox[k] /\ inbox'[k][p] = inbox[k][p]
                           \/ q \in DOMAIN inbox[k] /\ inbox'[k][q] = inbox[k][q]
<1>1. DOMAIN inbox' = Actors
    BY DEF Sent
<1>2. \A k \in Actors : inbox'[k] = IF k \in to THEN Append(inbox[k], m) ELSE inbox[k]
    BY DEF Sent
<1>3. \A k \in Actors : IsSeq(inbox[k])
    BY DEF Shape
<1>4. ASSUME NEW k \in Actors
      PROVE  /\ IsSeq(inbox'[k])
             /\ \A p \in DOMAIN inbox'[k] :
                    \/ k \in to /\ inbox'[k][p] = m
                    \/ p \in DOMAIN inbox[k] /\ inbox'[k][p] = inbox[k][p]
             /\ \A p, q \in DOMAIN inbox'[k] :
                    p # q => \/ p \in DOMAIN inbox[k] /\ inbox'[k][p] = inbox[k][p]
                             \/ q \in DOMAIN inbox[k] /\ inbox'[k][q] = inbox[k][q]
    <2>1. CASE k \in to
        <3>1. inbox'[k] = Append(inbox[k], m) /\ IsSeq(inbox[k])
            BY <1>2, <1>3, <2>1
        <3> QED BY <2>1, <3>1, Appended
    <2>2. CASE k \notin to
        BY <1>2, <1>3, <2>2
    <2> QED BY <2>1, <2>2
<1> QED BY <1>1, <1>4, Zenon

LEMMA CreateAllocateStep ==
    ASSUME SlotInv, NEW r \in Runs, CreateAllocate(r)
    PROVE  SlotInv'
<1> DEFINE m == SlotCall("allocate", 0, r)
           to == {Lead}
<1> USE LeadIsActor DEF SlotInv
<1>1. inbox' = Sent(m, to)
    BY DEF CreateAllocate
<1>2. m.call = "allocate" /\ m.by = r
    BY DEF SlotCall
<1>3. \A k \in to : k = Lead
    OBVIOUS
<1>4. /\ life[r] = "locking" /\ life' = [life EXCEPT ![r] = "allocating"]
      /\ UNCHANGED <<got, slotOf, allocated, capacity>>
    BY DEF CreateAllocate, MovesTo, actorVars, inputs
<1> HIDE DEF m, to
<1>5. Shape'
    BY <1>1, <1>4, SentTo DEF Shape
<1>6. /\ \A k \in Actors : \A p \in DOMAIN inbox'[k] :
             \/ k = Lead /\ inbox'[k][p] = m
             \/ p \in DOMAIN inbox[k] /\ inbox'[k][p] = inbox[k][p]
      /\ \A p, q \in DOMAIN inbox'[Lead] :
             p # q => \/ p \in DOMAIN inbox[Lead] /\ inbox'[Lead][p] = inbox[Lead][p]
                      \/ q \in DOMAIN inbox[Lead] /\ inbox'[Lead][q] = inbox[Lead][q]
    BY <1>1, <1>3, SentTo
<1>7. SlotCalls'
    <2>1. \A p \in DOMAIN inbox[Lead] :
             inbox[Lead][p].call \in {"allocate", "release"} => inbox[Lead][p].by # r
        BY <1>4 DEF SlotCalls
    <2>2. \A q \in Runs : q # r => life'[q] = life[q]
        BY <1>4 DEF Shape
    <2>3. life'[r] = "allocating"
        BY <1>4 DEF Shape
    <2> QED BY <1>2, <1>6, <2>1, <2>2, <2>3 DEF SlotCalls
<1>8. Progress'
    BY <1>4 DEF Shape, Progress
<1>9. \A q \in Runs : \A s : s # 0 /\ Claims(q, s)' => Claims(q, s)
    BY <1>2, <1>4, <1>6 DEF Claims, Shape
<1> QED BY <1>4, <1>5, <1>7, <1>8, <1>9, ClaimsKept

(* create_adapter tells the other actors, or ends.                         *)
LEMMA CreateReserveStep ==
    ASSUME SlotInv, NEW r \in Runs, CreateReserve(r)
    PROVE  SlotInv'
<1> DEFINE m == SlotCall("reserve", got[r], r)
<1> USE LeadIsActor DEF SlotInv
<1>1. /\ life[r] = "allocated" /\ UNCHANGED <<got, slotOf, allocated, capacity>>
      /\ \/ life' = [life EXCEPT ![r] = "failed"] /\ UNCHANGED inbox
         \/ /\ life' = [life EXCEPT ![r] = "reserving"]
            /\ inbox' = Sent(m, Actors \ {Lead}) /\ m.call = "reserve"
    BY DEF CreateReserve, MovesTo, SlotCall, actorVars, inputs
<1> HIDE DEF m
<1>2. Shape'
    BY <1>1, SentTo DEF Shape
<1>3. SlotCalls'
    <2>1. DOMAIN life = Runs /\ DOMAIN inbox = Actors
        BY DEF Shape
    <2> QED BY <1>1, <2>1, SentTo DEF SlotCalls
<1>4. Progress'
    BY <1>1 DEF Shape, Progress
<1>5. \A q \in Runs : \A s : s # 0 /\ Claims(q, s)' => Claims(q, s)
    BY <1>1, SentTo DEF Claims, Shape
<1> QED BY <1>1, <1>2, <1>3, <1>4, <1>5, ClaimsKept

(* The claim of a run passes from the backend's map to the call queued on  *)
(* the lead.                                                               *)
LEMMA RemoveReleaseStep ==
    ASSUME SlotInv, NEW r \in Runs, RemoveRelease(r)
    PROVE  SlotInv'
<1> DEFINE m == SlotCall("release", slotOf[r], r)
<1> USE LeadIsActor DEF SlotInv
<1>1. /\ life[r] = "leaving" /\ life' = [life EXCEPT ![r] = "releasing"]
      /\ slotOf' = [slotOf EXCEPT ![r] = 0]
      /\ inbox' = Sent(m, Actors)
      /\ m.call = "release" /\ m.by = r /\ m.slot = slotOf[r]
      /\ UNCHANGED <<got, allocated, capacity>>
    BY DEF RemoveRelease, MovesTo, SlotCall, actorVars, inputs
<1> HIDE DEF m
<1>2. Shape'
    BY <1>1, SentTo DEF Shape
<1>3. SlotCalls'
    <2>1. DOMAIN life = Runs /\ DOMAIN inbox = Actors
        BY DEF Shape
    <2> QED BY <1>1, <2>1, SentTo DEF SlotCalls
<1>4. Progress'
    BY <1>1 DEF Shape, Progress
<1>5. \A q \in Runs : \A s : s # 0 /\ Claims(q, s)' => Claims(q, s)
    BY <1>1, SentTo DEF Claims, Shape
<1> QED BY <1>1, <1>2, <1>3, <1>4, <1>5, ClaimsKept

LEMMA OperationSteps ==
    ASSUME SlotInv, NEW o \in Operations, OpBegin(o) \/ OpEnds(o)
    PROVE  SlotInv'
<1> USE LeadIsActor DEF SlotInv
<1>1. UNCHANGED <<life, got, slotOf, allocated, capacity>>
    BY DEF OpBegin, OpEnds, backendVars, actorVars, inputs
<1>2. UNCHANGED inbox \/ \E m : m.call = "collective" /\ inbox' = Sent(m, Actors)
    BY DEF OpBegin, OpEnds, Submit
<1>3. Shape'
    BY <1>1, <1>2, SentTo DEF Shape
<1>4. SlotCalls'
    <2>1. DOMAIN inbox = Actors
        BY DEF Shape
    <2> QED BY <1>1, <1>2, <2>1, SentTo DEF SlotCalls
<1>5. Progress'
    BY <1>1 DEF Progress
<1>6. \A q \in Runs : \A s : s # 0 /\ Claims(q, s)' => Claims(q, s)
    BY <1>1, <1>2, SentTo DEF Claims, Shape
<1> QED BY <1>1, <1>3, <1>4, <1>5, <1>6, ClaimsKept

(* What is queued after an actor has taken its next call.                  *)
LEMMA ServedBy ==
    ASSUME Shape, NEW k \in Actors, inbox[k] # <<>>, Served(k)
    PROVE  /\ DOMAIN inbox' = Actors /\ \A j \in Actors : IsSeq(inbox'[j])
           /\ \A j \in Actors : j # k => inbox'[j] = inbox[j]
           /\ 1 \in DOMAIN inbox[k] /\ Head(inbox[k]) = inbox[k][1]
           /\ \A p \in DOMAIN inbox'[k] :
                  p + 1 \in DOMAIN inbox[k] /\ p + 1 # 1 /\ inbox'[k][p] = inbox[k][p + 1]
           /\ \A p, q \in DOMAIN inbox'[k] : p # q => p + 1 # q + 1
<1>1. /\ DOMAIN inbox' = Actors /\ inbox'[k] = Tail(inbox[k])
      /\ \A j \in Actors : j # k => inbox'[j] = inbox[j]
    BY DEF Served, Shape
<1>2. \A j \in Actors : IsSeq(inbox[j])
    BY DEF Shape
<1>3. /\ IsSeq(inbox'[k]) /\ 1 \in DOMAIN inbox[k] /\ Head(inbox[k]) = inbox[k][1]
      /\ \A p \in DOMAIN inbox'[k] :
             p + 1 \in DOMAIN inbox[k] /\ p + 1 # 1 /\ inbox'[k][p] = inbox[k][p + 1]
      /\ \A p, q \in DOMAIN inbox'[k] : p # q => p + 1 # q + 1
    <2> DEFINE s == inbox[k]
    <2>1. IsSeq(s) /\ s # <<>>
        BY <1>2
    <2>2. inbox'[k] = Tail(s)
        BY <1>1
    <2> HIDE DEF s
    <2>3. /\ IsSeq(Tail(s)) /\ 1 \in DOMAIN s /\ Head(s) = s[1]
          /\ \A p \in DOMAIN Tail(s) :
                 p + 1 \in DOMAIN s /\ p + 1 # 1 /\ Tail(s)[p] = s[p + 1]
          /\ \A p, q \in DOMAIN Tail(s) : p # q => p + 1 # q + 1
        BY <2>1, Tailed, Zenon
    <2> USE DEF s
    <2> QED BY <2>2, <2>3, Zenon
<1>4. \A j \in Actors : IsSeq(inbox'[j])
    BY <1>1, <1>2, <1>3, Zenon
<1> QED BY <1>1, <1>3, <1>4, Zenon

(* An actor other than the lead, or a call that does not allocate: who     *)
(* claims a slot after it did so before, and the calls left are as before. *)
LEMMA ServedCalls ==
    ASSUME SlotInv, NEW k \in Actors, inbox[k] # <<>>, Served(k), UNCHANGED <<life, got, slotOf>>
    PROVE  SlotCalls' /\ Progress' /\ \A r \in Runs : \A s : Claims(r, s)' => Claims(r, s)
<1> USE LeadIsActor
<1>1. Shape /\ SlotCalls /\ Progress
    BY DEF SlotInv
<1>2. /\ \A j \in Actors : \A p \in DOMAIN inbox'[j] :
             \E o \in DOMAIN inbox[j] : inbox'[j][p] = inbox[j][o]
      /\ \A j \in Actors : \A p, q \in DOMAIN inbox'[j] : p # q =>
             \E o, m \in DOMAIN inbox[j] :
                 o # m /\ inbox'[j][p] = inbox[j][o] /\ inbox'[j][q] = inbox[j][m]
    <2>1. SUFFICES ASSUME NEW j \in Actors
          PROVE  /\ \A p \in DOMAIN inbox'[j] :
                        \E o \in DOMAIN inbox[j] : inbox'[j][p] = inbox[j][o]
                 /\ \A p, q \in DOMAIN inbox'[j] : p # q =>
                        \E o, m \in DOMAIN inbox[j] :
                            o # m /\ inbox'[j][p] = inbox[j][o] /\ inbox'[j][q] = inbox[j][m]
        OBVIOUS
    <2>2. CASE j # k
        BY <1>1, <2>2, ServedBy
    <2>3. CASE j = k
        BY <1>1, <2>3, ServedBy
    <2> QED BY <2>2, <2>3
<1>3. SlotCalls'
    BY <1>1, <1>2 DEF SlotCalls
<1>4. Progress'
    BY <1>1 DEF Progress
<1>5. \A r \in Runs : \A s : Claims(r, s)' => Claims(r, s)
    BY <1>2 DEF Claims
<1> QED BY <1>3, <1>4, <1>5

(* Calls that neither allocate nor release on the lead.                    *)
LEMMA OtherCalls ==
    ASSUME SlotInv, NEW k \in Actors, inbox[k] # <<>>, Served(k),
           UNCHANGED <<life, got, slotOf, capacity>>, DOMAIN allocated' = Actors,
           allocated[Lead] \subseteq allocated'[Lead]
    PROVE  SlotInv'
<1>1. Shape'
    BY ServedBy DEF SlotInv, Shape
<1>2. ClaimsExclude'
    BY ServedCalls, ClaimsKept DEF SlotInv
<1> QED BY <1>1, <1>2, ServedCalls DEF SlotInv

LEMMA ReleaseStep ==
    ASSUME SlotInv, Release(Lead)
    PROVE  SlotInv'
<1> USE LeadIsActor
<1> DEFINE c == Head(inbox[Lead])
<1>1. /\ Shape /\ SlotCalls /\ Progress /\ ClaimsExclude
      /\ inbox[Lead] # <<>> /\ c.call = "release" /\ Served(Lead)
      /\ allocated' = [allocated EXCEPT ![Lead] = @ \ {c.slot}]
      /\ UNCHANGED <<life, got, slotOf, capacity>>
    BY DEF SlotInv, Release, Serves, backendVars, inputs
<1>2. Shape'
    BY <1>1, ServedBy DEF Shape
<1>3. 1 \in DOMAIN inbox[Lead] /\ c = inbox[Lead][1]
    BY <1>1, ServedBy
<1>4. /\ c.by \in Runs /\ life[c.by] \in {"releasing", "gone"} /\ Claims(c.by, c.slot)
    BY <1>1, <1>3 DEF SlotCalls, Claims
<1>5. ASSUME NEW r \in Runs, NEW s, s # 0, Claims(r, s)'
      PROVE  s # c.slot
    <2>1. SUFFICES ASSUME s = c.slot PROVE FALSE
        OBVIOUS
    <2>2. Claims(r, s)
        BY <1>1, <1>5, ServedCalls
    <2>3. r = c.by
        BY <1>1, <1>4, <1>5, <2>1, <2>2 DEF ClaimsExclude
    <2>4. slotOf[r] # s /\ life[r] \notin {"allocated", "reserving"}
        BY <1>1, <1>4, <1>5, <2>3 DEF Progress
    <2>5. PICK p \in DOMAIN inbox'[Lead] :
              inbox'[Lead][p].call = "release" /\ inbox'[Lead][p].by = r
        BY <1>1, <1>5, <2>4 DEF Claims
    <2>6. p + 1 \in DOMAIN inbox[Lead] /\ p + 1 # 1 /\ inbox'[Lead][p] = inbox[Lead][p + 1]
        BY <1>1, ServedBy
    <2> QED BY <1>1, <1>3, <2>3, <2>5, <2>6 DEF SlotCalls
<1>6. \A r \in Runs : \A s : Claims(r, s)' => Claims(r, s)
    BY <1>1, ServedCalls
<1>7. allocated'[Lead] = allocated[Lead] \ {c.slot}
    BY <1>1 DEF Shape
<1>8. ClaimsExclude'
    BY <1>1, <1>5, <1>6, <1>7 DEF ClaimsExclude
<1> QED BY <1>1, <1>2, <1>8, ServedCalls DEF SlotInv

(* The lead lends a slot that nobody claims, or none.                      *)
LEMMA AllocateStep ==
    ASSUME SlotInv, inbox[Lead] # <<>>, Head(inbox[Lead]).call = "allocate", Served(Lead),
           MovesTo(Head(inbox[Lead]).by, "allocated"), UNCHANGED <<slotOf, capacity>>,
           \/ UNCHANGED <<got, allocated>>
           \/ \E s : /\ s # 0 /\ s \notin allocated[Lead]
                    /\ got' = [got EXCEPT ![Head(inbox[Lead]).by] = s]
                    /\ allocated' = [allocated EXCEPT ![Lead] = @ \cup {s}]
    PROVE  SlotInv'
<1> USE LeadIsActor
<1> DEFINE c == Head(inbox[Lead])
           r == c.by
<1>1. Shape /\ SlotCalls /\ Progress /\ ClaimsExclude
    BY DEF SlotInv
<1>2. 1 \in DOMAIN inbox[Lead] /\ c = inbox[Lead][1]
    BY <1>1, ServedBy
<1>3. r \in Runs /\ life[r] = "allocating" /\ got[r] = 0
    BY <1>1, <1>2 DEF SlotCalls, Progress
<1>4. \A p \in DOMAIN inbox'[Lead] :
          /\ p + 1 \in DOMAIN inbox[Lead] /\ p + 1 # 1
          /\ inbox'[Lead][p] = inbox[Lead][p + 1]
          /\ inbox'[Lead][p].call \in {"allocate", "release"} => inbox'[Lead][p].by # r
    <2>1. ASSUME NEW p \in DOMAIN inbox'[Lead]
          PROVE  /\ p + 1 \in DOMAIN inbox[Lead] /\ p + 1 # 1
                 /\ inbox'[Lead][p] = inbox[Lead][p + 1]
        BY <1>1, ServedBy
    <2> QED BY <1>1, <1>2, <2>1 DEF SlotCalls
<1>5. \A q \in Runs : q # r => life'[q] = life[q]
    BY <1>1, <1>3 DEF MovesTo, Shape
<1>6. life'[r] = "allocated" /\ DOMAIN life' = Runs
    BY <1>1, <1>3 DEF MovesTo, Shape
<1>7. Shape'
    BY <1>1, <1>6, ServedBy DEF Shape
<1>8. SlotCalls'
    <2>1. \A p, q \in DOMAIN inbox'[Lead] : p # q => p + 1 # q + 1
        BY <1>1, ServedBy
    <2>2. \A k \in Actors \ {Lead} : inbox'[k] = inbox[k]
        BY <1>1, ServedBy
    <2>3. /\ \A p \in DOMAIN inbox'[Lead] :
                 /\ inbox'[Lead][p].call = "allocate" =>
                        inbox'[Lead][p].by \in Runs /\ life'[inbox'[Lead][p].by] = "allocating"
                 /\ inbox'[Lead][p].call = "release" =>
                        /\ inbox'[Lead][p].by \in Runs
                        /\ life'[inbox'[Lead][p].by] \in {"releasing", "gone"}
        BY <1>1, <1>4, <1>5 DEF SlotCalls
    <2>4. \A p, q \in DOMAIN inbox'[Lead] :
              /\ p # q
              /\ inbox'[Lead][p].call \in {"allocate", "release"}
              /\ inbox'[Lead][q].call \in {"allocate", "release"}
              => inbox'[Lead][p].by # inbox'[Lead][q].by
        BY <1>1, <1>4, <2>1 DEF SlotCalls
    <2> QED BY <1>1, <2>2, <2>3, <2>4 DEF SlotCalls
<1>9. CASE UNCHANGED <<got, allocated>>
    <2>1. Progress'
        BY <1>1, <1>3, <1>5, <1>6, <1>9 DEF Progress
    <2>2. \A q \in Runs : \A s : s # 0 /\ Claims(q, s)' => Claims(q, s)
        BY <1>3, <1>4, <1>5, <1>9 DEF Claims
    <2> QED BY <1>1, <1>7, <1>8, <1>9, <2>1, <2>2, ClaimsKept DEF SlotInv
<1>10. CASE \E s : /\ s # 0 /\ s \notin allocated[Lead]
                   /\ got' = [got EXCEPT ![r] = s]
                   /\ allocated' = [allocated EXCEPT ![Lead] = @ \cup {s}]
    <2>1. PICK s : /\ s # 0 /\ s \notin allocated[Lead]
                   /\ got' = [got EXCEPT ![r] = s]
                   /\ allocated' = [allocated EXCEPT ![Lead] = @ \cup {s}]
        BY <1>10
    <2>2. /\ got'[r] = s /\ \A q \in Runs : q # r => got'[q] = got[q]
          /\ allocated'[Lead] = allocated[Lead] \cup {s}
        BY <1>1, <1>3, <2>1 DEF Shape
    <2>3. Progress'
        BY <1>1, <1>3, <1>5, <1>6, <2>2 DEF Progress
    <2>4. \A q \in Runs : \A t : t # 0 /\ Claims(q, t)' => Claims(q, t) \/ (q = r /\ t = s)
        BY <1>3, <1>4, <1>5, <2>2 DEF Claims
    <2>5. \A q \in Runs : ~ Claims(q, s)
        BY <1>1, <2>1 DEF ClaimsExclude
    <2>6. ClaimsExclude'
        BY <1>1, <2>1, <2>2, <2>4, <2>5 DEF ClaimsExclude
    <2> QED BY <1>7, <1>8, <2>3, <2>6 DEF SlotInv
<1> QED BY <1>9, <1>10

LEMMA FreeSlot ==
    ASSUME SlotInv, Free # {}
    PROVE  Min(Free) # 0 /\ Min(Free) \notin allocated[Lead]
<1>1. Free \in SUBSET Nat /\ \A s \in Free : s # 0 /\ s \notin allocated[Lead]
    BY DEF Free, SlotInv, Shape
<1>2. Min(Free) \in Free
    BY <1>1, LeastOf
<1> QED BY <1>1, <1>2

LEMMA ActorSteps ==
    ASSUME SlotInv, NEW k \in Actors, ActorStep(k) \/ Raise(k)
    PROVE  SlotInv'
<1> USE LeadIsActor
<1>1. DOMAIN allocated = Actors
    BY DEF SlotInv, Shape
<1>2. CASE k = Lead /\ Allocate
    <2>1. /\ inbox[Lead] # <<>> /\ Head(inbox[Lead]).call = "allocate" /\ Served(Lead)
          /\ MovesTo(Head(inbox[Lead]).by, "allocated") /\ UNCHANGED <<slotOf, capacity>>
          /\ \/ UNCHANGED <<got, allocated>>
             \/ /\ Free # {}
                /\ got' = [got EXCEPT ![Head(inbox[Lead]).by] = Min(Free)]
                /\ allocated' = [allocated EXCEPT ![Lead] = @ \cup {Min(Free)}]
        BY <1>2 DEF Allocate, Serves, inputs
    <2> QED BY <2>1, FreeSlot, AllocateStep
<1>3. CASE Reserve(k)
    BY <1>1, <1>3, OtherCalls DEF Reserve, Serves, backendVars, inputs
<1>4. CASE Release(k)
    <2>1. CASE k = Lead
        BY <1>4, <2>1, ReleaseStep
    <2>2. CASE k # Lead
        BY <1>1, <1>4, <2>2, OtherCalls DEF Release, Serves, backendVars, inputs
    <2> QED BY <2>1, <2>2
<1>5. CASE Reject(k)
    BY <1>1, <1>5, OtherCalls DEF Reject, Serves, backendVars, inputs
<1>6. CASE Compute(k)
    BY <1>1, <1>6, OtherCalls DEF Compute, Serves, backendVars, inputs
<1>7. CASE Raise(k)
    <2>1. inbox[k] # <<>> /\ Served(k) /\ UNCHANGED <<slotOf, capacity>>
        BY <1>7 DEF Raise, inputs
    <2>2. CASE Head(inbox[k]).call = "allocate"
        <3>1. k = Lead
            BY <2>1, <2>2, ServedBy DEF SlotInv, SlotCalls
        <3>2. /\ Free # {}
              /\ MovesTo(Head(inbox[k]).by, "allocated")
              /\ got' = [got EXCEPT ![Head(inbox[k]).by] = Min(Free)]
              /\ allocated' = [allocated EXCEPT ![k] = @ \cup {Min(Free)}]
            BY <1>7, <2>2 DEF Raise
        <3> QED BY <2>1, <2>2, <3>1, <3>2, FreeSlot, AllocateStep
    <2>3. CASE Head(inbox[k]).call # "allocate"
        BY <1>1, <1>7, <2>1, <2>3, OtherCalls DEF Raise
    <2> QED BY <2>2, <2>3
<1> QED BY <1>2, <1>3, <1>4, <1>5, <1>6, <1>7 DEF ActorStep

LEMMA SlotInvNext == SlotInv /\ [Next]_vars => SlotInv'
<1> SUFFICES ASSUME SlotInv, [Next]_vars PROVE SlotInv'
    OBVIOUS
<1>1. CASE \E r \in Runs : CreateBegin(r) \/ RemoveBegin(r) \/ AdapterStep(r)
    BY <1>1, QuietSteps, CreateAllocateStep, CreateReserveStep, RemoveReleaseStep DEF AdapterStep
<1>2. CASE \E o \in Operations : OpBegin(o) \/ OpEnds(o)
    BY <1>2, OperationSteps
<1>3. CASE \E k \in Actors : ActorStep(k) \/ Raise(k)
    BY <1>3, ActorSteps
<1>4. CASE UNCHANGED vars
    BY <1>4 DEF vars, backendVars, actorVars, inputs, SlotInv, Shape, SlotCalls, Progress,
                ClaimsExclude, Claims
<1> QED BY <1>1, <1>2, <1>3, <1>4 DEF Next

LEMMA SlotInvExcludes == SlotInv => SlotsAreExclusive
<1> SUFFICES ASSUME SlotInv PROVE SlotsAreExclusive
    OBVIOUS
<1>1. ASSUME NEW r \in Runs, HeldSlot(r) # 0
      PROVE  Claims(r, HeldSlot(r))
    <2> DEFINE releases == {p \in DOMAIN inbox[Lead] :
                               inbox[Lead][p].call = "release" /\ inbox[Lead][p].by = r}
    <2>1. CASE slotOf[r] # 0
        BY <2>1 DEF HeldSlot, Claims
    <2>2. CASE slotOf[r] = 0
        <3>1. releases # {} /\ HeldSlot(r) = inbox[Lead][Min(releases)].slot
            BY <1>1, <2>2 DEF HeldSlot
        <3>2. releases \in SUBSET Nat
            BY LeadIsActor DEF SlotInv, Shape, IsSeq
        <3>3. Min(releases) \in releases
            BY <3>1, <3>2, LeastOf
        <3> QED BY <3>1, <3>3 DEF Claims
    <2> QED BY <2>1, <2>2
<1> DEFINE claimed(r) == IF life[r] \in {"allocated", "reserving"} THEN got[r] ELSE HeldSlot(r)
<1>2. \A r \in Runs : claimed(r) # 0 => Claims(r, claimed(r))
    BY <1>1 DEF Claims
<1>3. \A q, r \in Runs : q # r /\ claimed(q) # 0 => claimed(q) # claimed(r)
    BY <1>2 DEF SlotInv, ClaimsExclude
<1> QED BY <1>3 DEF SlotsAreExclusive

(* No two runs have the same slot of the FSDP backend, from the lead's     *)
(* answer to allocate_slot until it has executed release_slot, for any     *)
(* number of actors, whichever of their calls raise and whatever was       *)
(* queued when unload_model began.                                         *)
THEOREM SlotsStayExclusive == Spec => []SlotsAreExclusive
BY SlotInvInit, SlotInvNext, SlotInvExcludes, PTL DEF Spec

-----------------------------------------------------------------------------
(* What is in use belongs to somebody.  A claim passes from the answer of  *)
(* the lead to the backend's map and from there to the call that releases  *)
(* the slot, which is the one that was lent.                               *)

Lent ==
    \A r \in Runs :
        /\ life[r] \in {"reserving", "live", "leaving"} => got[r] # 0
        /\ life[r] \in {"live", "leaving"} => slotOf[r] = got[r]

LeadCalls ==
    \A p \in DOMAIN inbox[Lead] :
        /\ inbox[Lead][p].call \in {"allocate", "release", "collective"}
        /\ inbox[Lead][p].call = "release" =>
               inbox[Lead][p].slot # 0 /\ inbox[Lead][p].slot = got[inbox[Lead][p].by]

Belongs(s) == \E r \in Runs : got[r] = s /\ (Claims(r, s) \/ r \in raised)

UseInv == Lent /\ LeadCalls /\ \A s \in allocated[Lead] : s # 0 /\ Belongs(s)

LEMMA UseInvInit == Init => UseInv
BY EmptySeq, LeadIsActor DEF Init, UseInv, Lent, LeadCalls

LEMMA SentKeeps ==
    ASSUME Shape, NEW m, NEW to, inbox' = Sent(m, to), NEW k \in Actors
    PROVE  /\ \A p \in DOMAIN inbox[k] : p \in DOMAIN inbox'[k] /\ inbox'[k][p] = inbox[k][p]
           /\ k \in to => \E p \in DOMAIN inbox'[k] : inbox'[k][p] = m
<1> DEFINE s == inbox[k]
<1>1. PICK S : s \in Seq(S)
    BY DEF Shape, IsSeq
<1>2. inbox'[k] = IF k \in to THEN Append(s, m) ELSE s
    BY DEF Sent
<1> HIDE DEF s
<1>3. s \in Seq(S \cup {m})
    BY <1>1, SeqMonotonic
<1>4. /\ Len(s) \in Nat /\ DOMAIN s = 1..Len(s)
      /\ DOMAIN Append(s, m) = 1..Len(s) + 1
      /\ \A p \in 1..Len(s) : Append(s, m)[p] = s[p]
      /\ Append(s, m)[Len(s) + 1] = m
    BY <1>3
<1>5. Len(s) + 1 \in 1..Len(s) + 1 /\ \A p \in 1..Len(s) : p \in 1..Len(s) + 1
    BY <1>4
<1>6. /\ \A p \in DOMAIN s : p \in DOMAIN inbox'[k] /\ inbox'[k][p] = s[p]
      /\ k \in to => \E p \in DOMAIN inbox'[k] : inbox'[k][p] = m
    BY <1>2, <1>4, <1>5
<1> QED BY <1>6 DEF s

LEMMA ServedKeeps ==
    ASSUME Shape, NEW k \in Actors, inbox[k] # <<>>, Served(k), NEW j \in Actors,
           NEW p \in DOMAIN inbox[j]
    PROVE  \/ j = k /\ inbox[j][p] = Head(inbox[k])
           \/ \E o \in DOMAIN inbox'[j] : inbox'[j][o] = inbox[j][p]
<1>1. CASE j # k
    BY <1>1, ServedBy
<1>2. CASE j = k
    <2> DEFINE s == inbox[k]
    <2>1. PICK S : s \in Seq(S)
        BY DEF Shape, IsSeq
    <2>2. s # <<>> /\ inbox'[k] = Tail(s)
        BY DEF Served, Shape
    <2>3. p \in DOMAIN s
        BY <1>2
    <2> HIDE DEF s
    <2>4. /\ Len(s) \in Nat \ {0} /\ DOMAIN s = 1..Len(s) /\ Head(s) = s[1]
          /\ Tail(s) \in Seq(S) /\ Len(Tail(s)) = Len(s) - 1
          /\ \A o \in 1..Len(Tail(s)) : Tail(s)[o] = s[o + 1]
        BY <2>1, <2>2, HeadTailProperties, EmptySeq
    <2>5. DOMAIN Tail(s) = 1..Len(Tail(s))
        BY <2>4, LenProperties
    <2>6. CASE p = 1
        BY <1>2, <2>4, <2>6 DEF s
    <2>7. CASE p # 1
        <3>1. p - 1 \in DOMAIN Tail(s) /\ Tail(s)[p - 1] = s[p]
            BY <2>3, <2>4, <2>5, <2>7
        <3> QED BY <1>2, <2>2, <3>1 DEF s
    <2> QED BY <2>6, <2>7
<1> QED BY <1>1, <1>2

(* Whoever had a slot has it still, or one of its calls raised.            *)
LEMMA UseKept ==
    ASSUME UseInv, allocated'[Lead] \subseteq allocated[Lead],
           \A r \in Runs : \A s \in allocated'[Lead] :
               s # 0 /\ got[r] = s /\ (Claims(r, s) \/ r \in raised) =>
                   got'[r] = s /\ (Claims(r, s)' \/ r \in raised')
    PROVE  \A s \in allocated'[Lead] : s # 0 /\ Belongs(s)'
BY DEF UseInv, Belongs

LEMMA QuietUse ==
    ASSUME SlotInv, UseInv, NEW r \in Runs,
           \/ CreateBegin(r) \/ RemoveBegin(r) \/ CreateEnds(r) \/ RemoveEnds(r)
    PROVE  UseInv'
<1> USE DEF actorVars, inputs
<1>1. /\ UNCHANGED <<inbox, got, allocated, raised>> /\ Shape
      /\ \A q \in Runs : q # r => life'[q] = life[q] /\ slotOf'[q] = slotOf[q]
    BY DEF SlotInv, Shape, CreateBegin, RemoveBegin, CreateEnds, RemoveEnds, MovesTo
<1>2. \/ life[r] \in {"new", "releasing"} /\ life'[r] \in {"locking", "failed", "gone"} /\ UNCHANGED slotOf
      \/ life[r] = "live" /\ life'[r] = "leaving" /\ UNCHANGED slotOf
      \/ life[r] = "reserving" /\ r \in raised /\ life'[r] = "failed" /\ UNCHANGED slotOf
      \/ life[r] = "reserving" /\ life'[r] = "live" /\ slotOf'[r] = got[r]
    BY <1>1 DEF Shape, CreateBegin, RemoveBegin, CreateEnds, RemoveEnds, MovesTo
<1>3. Lent'
    BY <1>1, <1>2 DEF UseInv, Lent
<1>4. LeadCalls'
    BY <1>1 DEF UseInv, LeadCalls
<1>5. ASSUME NEW q \in Runs, NEW s, s # 0, got[q] = s, Claims(q, s)
      PROVE  Claims(q, s)' \/ q \in raised
    <2>1. CASE q # r
        BY <1>1, <1>5, <2>1 DEF Claims
    <2>2. CASE q = r
        BY <1>1, <1>2, <1>5, <2>2 DEF Claims, SlotInv, Progress
    <2> QED BY <2>1, <2>2
<1> QED BY <1>1, <1>3, <1>4, <1>5, UseKept DEF UseInv

(* The other steps of create_adapter and remove_adapter.                   *)
LEMMA CallUse ==
    ASSUME SlotInv, UseInv, NEW r \in Runs,
           CreateAllocate(r) \/ CreateReserve(r) \/ RemoveRelease(r)
    PROVE  UseInv'
<1> USE LeadIsActor DEF actorVars, inputs
<1>1. /\ UNCHANGED <<got, allocated, raised>> /\ Shape /\ Progress
      /\ \A q \in Runs : q # r => life'[q] = life[q] /\ slotOf'[q] = slotOf[q]
    BY DEF SlotInv, Shape, CreateAllocate, CreateReserve, RemoveRelease, MovesTo
<1>2. PICK m, to :
        /\ UNCHANGED inbox \/ inbox' = Sent(m, to)
        /\ \/ life[r] = "locking" /\ life'[r] = "allocating" /\ m.call = "allocate"
           \/ life[r] = "allocated" /\ life'[r] = "failed" /\ (r \in raised \/ got[r] = 0)
                  /\ UNCHANGED inbox
           \/ life[r] = "allocated" /\ life'[r] = "reserving" /\ got[r] # 0 /\ Lead \notin to
           \/ /\ life[r] = "leaving" /\ life'[r] = "releasing" /\ inbox' = Sent(m, to)
              /\ m.call = "release" /\ m.by = r /\ m.slot = slotOf[r] /\ Lead \in to
        /\ life[r] # "leaving" => UNCHANGED slotOf
    <2>1. CASE CreateAllocate(r)
        <3>1. /\ inbox' = Sent(SlotCall("allocate", 0, r), {Lead}) /\ UNCHANGED slotOf
              /\ life[r] = "locking" /\ life'[r] = "allocating"
            BY <1>1, <2>1 DEF CreateAllocate, MovesTo, Shape
        <3>2. SlotCall("allocate", 0, r).call = "allocate"
            BY DEF SlotCall
        <3> QED BY <3>1, <3>2
    <2>2. CASE CreateReserve(r)
        <3>1. /\ life[r] = "allocated" /\ UNCHANGED slotOf
              /\ \/ life'[r] = "failed" /\ (r \in raised \/ got[r] = 0) /\ UNCHANGED inbox
                 \/ /\ life'[r] = "reserving" /\ got[r] # 0
                    /\ inbox' = Sent(SlotCall("reserve", got[r], r), Actors \ {Lead})
            BY <1>1, <2>2 DEF CreateReserve, MovesTo, Shape
        <3> QED BY <3>1
    <2>3. CASE RemoveRelease(r)
        <3>1. /\ inbox' = Sent(SlotCall("release", slotOf[r], r), Actors)
              /\ life[r] = "leaving" /\ life'[r] = "releasing"
            BY <1>1, <2>3 DEF RemoveRelease, MovesTo, Shape
        <3>2. LET m == SlotCall("release", slotOf[r], r)
              IN  m.call = "release" /\ m.by = r /\ m.slot = slotOf[r]
            BY DEF SlotCall
        <3> QED BY <3>1, <3>2
    <2> QED BY <2>1, <2>2, <2>3
<1>3. Lent'
    BY <1>1, <1>2 DEF UseInv, Lent
<1>4. LeadCalls'
    <2>1. life[r] = "leaving" => slotOf[r] # 0 /\ slotOf[r] = got[r]
        BY DEF UseInv, Lent
    <2>2. \A p \in DOMAIN inbox'[Lead] :
              \/ Lead \in to /\ inbox'[Lead][p] = m /\ inbox' = Sent(m, to)
              \/ p \in DOMAIN inbox[Lead] /\ inbox'[Lead][p] = inbox[Lead][p]
        BY <1>1, <1>2, SentTo
    <2> QED BY <1>1, <1>2, <2>1, <2>2 DEF UseInv, LeadCalls
<1>5. /\ \A p \in DOMAIN inbox[Lead] : p \in DOMAIN inbox'[Lead] /\ inbox'[Lead][p] = inbox[Lead][p]
      /\ life[r] = "leaving" => \E p \in DOMAIN inbox'[Lead] : inbox'[Lead][p] = m
    BY <1>1, <1>2, SentKeeps
<1>6. ASSUME NEW q \in Runs, NEW s, s # 0, got[q] = s, Claims(q, s)
      PROVE  Claims(q, s)' \/ q \in raised
    <2>1. CASE q # r
        BY <1>1, <1>5, <1>6, <2>1 DEF Claims
    <2>2. CASE q = r /\ life[r] = "leaving"
        BY <1>1, <1>2, <1>5, <1>6, <2>2 DEF Claims
    <2>3. CASE q = r /\ life[r] # "leaving"
        BY <1>1, <1>2, <1>5, <1>6, <2>3 DEF Claims
    <2> QED BY <2>1, <2>2, <2>3
<1> QED BY <1>1, <1>3, <1>4, <1>6, UseKept DEF UseInv

LEMMA OperationUse ==
    ASSUME SlotInv, UseInv, NEW o \in Operations, OpBegin(o) \/ OpEnds(o)
    PROVE  UseInv'
<1> USE LeadIsActor
<1>1. UNCHANGED <<life, got, slotOf, allocated, raised>> /\ Shape
    BY DEF OpBegin, OpEnds, backendVars, actorVars, SlotInv
<1>2. UNCHANGED inbox \/ \E m : m.call = "collective" /\ inbox' = Sent(m, Actors)
    BY DEF OpBegin, OpEnds, Submit
<1>3. \A p \in DOMAIN inbox'[Lead] :
          \/ inbox'[Lead][p].call = "collective"
          \/ p \in DOMAIN inbox[Lead] /\ inbox'[Lead][p] = inbox[Lead][p]
    BY <1>1, <1>2, SentTo
<1>4. \A p \in DOMAIN inbox[Lead] : p \in DOMAIN inbox'[Lead] /\ inbox'[Lead][p] = inbox[Lead][p]
    BY <1>1, <1>2, SentKeeps
<1>5. Lent' /\ LeadCalls'
    BY <1>1, <1>3 DEF UseInv, Lent, LeadCalls
<1>6. \A q \in Runs : \A s : Claims(q, s) => Claims(q, s)'
    BY <1>1, <1>4 DEF Claims
<1> QED BY <1>1, <1>5, <1>6, UseKept DEF UseInv

(* Calls that neither allocate nor release on the lead.                    *)
LEMMA OtherUse ==
    ASSUME SlotInv, UseInv, NEW k \in Actors, inbox[k] # <<>>, Served(k),
           UNCHANGED <<life, got, slotOf>>, raised \subseteq raised',
           UNCHANGED (allocated[Lead]), k # Lead \/ Head(inbox[k]).call # "release"
    PROVE  UseInv'
<1> USE LeadIsActor
<1>1. Shape
    BY DEF SlotInv
<1>2. \A p \in DOMAIN inbox'[Lead] : \E o \in DOMAIN inbox[Lead] : inbox'[Lead][p] = inbox[Lead][o]
    BY <1>1, ServedBy
<1>3. Lent' /\ LeadCalls'
    BY <1>2 DEF UseInv, Lent, LeadCalls
<1>4. \A q \in Runs : \A s : Claims(q, s) => Claims(q, s)'
    BY <1>1, ServedKeeps DEF Claims
<1> QED BY <1>3, <1>4, UseKept DEF UseInv

(* A release on the lead gives its slot back, or raises.                   *)
LEMMA ReleaseUse ==
    ASSUME SlotInv, UseInv, inbox[Lead] # <<>>, Head(inbox[Lead]).call = "release", Served(Lead),
           UNCHANGED <<life, got, slotOf>>, raised \subseteq raised',
           \/ allocated'[Lead] = allocated[Lead] \ {Head(inbox[Lead]).slot}
           \/ /\ allocated'[Lead] = allocated[Lead] \cup {Head(inbox[Lead]).slot}
              /\ Head(inbox[Lead]).by \in raised'
    PROVE  UseInv'
<1> USE LeadIsActor
<1> DEFINE c == Head(inbox[Lead])
<1>1. Shape /\ SlotCalls
    BY DEF SlotInv
<1>2. 1 \in DOMAIN inbox[Lead] /\ c = inbox[Lead][1]
    BY <1>1, ServedBy
<1>3. c.by \in Runs /\ c.slot # 0 /\ got[c.by] = c.slot
    BY <1>1, <1>2 DEF SlotCalls, UseInv, LeadCalls
<1>4. \A p \in DOMAIN inbox'[Lead] : \E o \in DOMAIN inbox[Lead] : inbox'[Lead][p] = inbox[Lead][o]
    BY <1>1, ServedBy
<1>5. Lent' /\ LeadCalls'
    BY <1>4 DEF UseInv, Lent, LeadCalls
<1>6. ASSUME NEW s \in allocated'[Lead], s # c.slot
      PROVE  s # 0 /\ Belongs(s)'
    <2>1. PICK r \in Runs : got[r] = s /\ (Claims(r, s) \/ r \in raised)
        BY <1>6 DEF UseInv, Belongs
    <2>2. Claims(r, s) => Claims(r, s)'
        BY <1>1, <1>6, ServedKeeps DEF Claims
    <2> QED BY <1>6, <2>1, <2>2 DEF UseInv, Belongs
<1>7. ASSUME NEW s \in allocated'[Lead], s = c.slot
      PROVE  s # 0 /\ Belongs(s)'
    BY <1>3, <1>7 DEF Belongs
<1> QED BY <1>5, <1>6, <1>7 DEF UseInv

LEMMA AllocateUse ==
    ASSUME SlotInv, UseInv, inbox[Lead] # <<>>, Head(inbox[Lead]).call = "allocate", Served(Lead),
           MovesTo(Head(inbox[Lead]).by, "allocated"), UNCHANGED slotOf, raised \subseteq raised',
           \/ UNCHANGED <<got, allocated>>
           \/ \E s : /\ s # 0
                    /\ got' = [got EXCEPT ![Head(inbox[Lead]).by] = s]
                    /\ allocated' = [allocated EXCEPT ![Lead] = @ \cup {s}]
    PROVE  UseInv'
<1> USE LeadIsActor
<1> DEFINE c == Head(inbox[Lead])
           r == c.by
<1>1. Shape /\ SlotCalls /\ Progress
    BY DEF SlotInv
<1>2. 1 \in DOMAIN inbox[Lead] /\ c = inbox[Lead][1]
    BY <1>1, ServedBy
<1>3. r \in Runs /\ life[r] = "allocating" /\ got[r] = 0
    BY <1>1, <1>2 DEF SlotCalls, Progress
<1>4. life'[r] = "allocated" /\ \A q \in Runs : q # r => life'[q] = life[q]
    BY <1>1, <1>3 DEF MovesTo, Shape
<1>5. /\ \A q \in Runs : q # r => got'[q] = got[q]
      /\ \/ got'[r] = 0 /\ UNCHANGED allocated
         \/ got'[r] # 0 /\ allocated'[Lead] = allocated[Lead] \cup {got'[r]}
    BY <1>1, <1>3 DEF Shape
<1>6. \A p \in DOMAIN inbox'[Lead] :
          \E o \in DOMAIN inbox[Lead] : o # 1 /\ inbox'[Lead][p] = inbox[Lead][o]
    BY <1>1, ServedBy
<1>7. \A o \in DOMAIN inbox[Lead] : o # 1 /\ inbox[Lead][o].call = "release" =>
          inbox[Lead][o].by \in Runs \ {r}
    BY <1>1, <1>2 DEF SlotCalls
<1>8. Lent' /\ LeadCalls'
    BY <1>3, <1>4, <1>5, <1>6, <1>7 DEF UseInv, Lent, LeadCalls
<1>9. ASSUME NEW s \in allocated[Lead]
      PROVE  s # 0 /\ Belongs(s)'
    <2>1. PICK q \in Runs : s # 0 /\ got[q] = s /\ (Claims(q, s) \/ q \in raised)
        BY <1>9 DEF UseInv, Belongs
    <2>2. q # r
        BY <1>3, <2>1
    <2>3. Claims(q, s) => Claims(q, s)'
        BY <1>1, <1>4, <1>5, <2>2, ServedKeeps DEF Claims
    <2> QED BY <1>5, <2>1, <2>2, <2>3 DEF Belongs
<1>10. ASSUME NEW s, got'[r] = s PROVE Belongs(s)'
    BY <1>3, <1>4, <1>10 DEF Belongs, Claims
<1> QED BY <1>5, <1>8, <1>9, <1>10 DEF UseInv

LEMMA ActorUse ==
    ASSUME SlotInv, UseInv, NEW k \in Actors, ActorStep(k) \/ Raise(k)
    PROVE  UseInv'
<1> USE LeadIsActor
<1>1. DOMAIN allocated = Actors /\ (inbox[Lead] # <<>> =>
          Head(inbox[Lead]).call \in {"allocate", "release", "collective"})
    BY Tailed DEF SlotInv, Shape, UseInv, LeadCalls
<1>2. CASE k = Lead /\ Allocate
    <2>1. /\ inbox[Lead] # <<>> /\ Head(inbox[Lead]).call = "allocate" /\ Served(Lead)
          /\ MovesTo(Head(inbox[Lead]).by, "allocated") /\ UNCHANGED <<slotOf, raised>>
          /\ \/ UNCHANGED <<got, allocated>>
             \/ /\ Free # {}
                /\ got' = [got EXCEPT ![Head(inbox[Lead]).by] = Min(Free)]
                /\ allocated' = [allocated EXCEPT ![Lead] = @ \cup {Min(Free)}]
        BY <1>2 DEF Allocate, Serves
    <2> QED BY <2>1, FreeSlot, AllocateUse
<1>3. CASE Reserve(k)
    <2>1. k # Lead
        BY <1>1, <1>3 DEF Reserve, Serves
    <2> QED BY <1>1, <1>3, <2>1, OtherUse DEF Reserve, Serves, backendVars
<1>4. CASE Release(k)
    <2>1. CASE k = Lead
        BY <1>1, <1>4, <2>1, ReleaseUse DEF Release, Serves, backendVars
    <2>2. CASE k # Lead
        BY <1>1, <1>4, <2>2, OtherUse DEF Release, Serves, backendVars
    <2> QED BY <2>1, <2>2
<1>5. CASE Reject(k) \/ Compute(k)
    BY <1>1, <1>5, OtherUse DEF Reject, Compute, Serves, backendVars
<1>6. CASE Raise(k)
    <2> DEFINE c == Head(inbox[k])
               s == IF c.call = "allocate" THEN Min(Free) ELSE c.slot
    <2>1. /\ inbox[k] # <<>> /\ c.call # "collective" /\ Served(k) /\ UNCHANGED slotOf
          /\ c.call = "allocate" => Free # {}
          /\ raised \subseteq raised' /\ c.by \in raised'
          /\ allocated' = [allocated EXCEPT ![k] = @ \cup {s}]
          /\ IF c.call = "allocate"
             THEN MovesTo(c.by, "allocated") /\ got' = [got EXCEPT ![c.by] = s]
             ELSE UNCHANGED <<life, got>>
        BY <1>6 DEF Raise
    <2>2. CASE c.call = "allocate"
        <3>1. k = Lead
            BY <2>1, <2>2, ServedBy DEF SlotInv, SlotCalls
        <3> QED BY <2>1, <2>2, <3>1, FreeSlot, AllocateUse
    <2>3. CASE c.call # "allocate" /\ k # Lead
        BY <1>1, <2>1, <2>3, OtherUse
    <2>4. CASE c.call = "release" /\ k = Lead
        BY <1>1, <2>1, <2>4, ReleaseUse
    <2>5. k = Lead => c.call \in {"allocate", "release"}
        BY <1>1, <2>1
    <2> QED BY <2>2, <2>3, <2>4, <2>5
<1> QED BY <1>2, <1>3, <1>4, <1>5, <1>6 DEF ActorStep

LEMMA UseInvNext == SlotInv /\ UseInv /\ [Next]_vars => UseInv'
<1> SUFFICES ASSUME SlotInv, UseInv, [Next]_vars PROVE UseInv'
    OBVIOUS
<1>1. CASE UNCHANGED vars
    BY <1>1 DEF vars, backendVars, actorVars, UseInv, Lent, LeadCalls, Belongs, Claims
<1> QED BY <1>1, QuietUse, CallUse, OperationUse, ActorUse DEF Next, AdapterStep

LEMMA UseInvComesBack == SlotInv /\ UseInv => SlotsComeBack
<1> SUFFICES ASSUME SlotInv, UseInv, NEW s \in allocated[Lead]
             PROVE  \E r \in Runs : \/ HeldSlot(r) = s
                                    \/ /\ got[r] = s
                                       /\ life[r] \in {"allocated", "reserving"} \/ r \in raised
    BY DEF SlotsComeBack
<1>1. PICK r \in Runs : s # 0 /\ got[r] = s /\ (Claims(r, s) \/ r \in raised)
    BY DEF UseInv, Belongs
<1>2. CASE slotOf[r] = s
    BY <1>1, <1>2 DEF HeldSlot
<1>3. ASSUME NEW p \in DOMAIN inbox[Lead], inbox[Lead][p].call = "release", inbox[Lead][p].by = r,
             inbox[Lead][p].slot = s
      PROVE  HeldSlot(r) = s
    <2> DEFINE releases == {o \in DOMAIN inbox[Lead] :
                               inbox[Lead][o].call = "release" /\ inbox[Lead][o].by = r}
    <2>1. slotOf[r] = 0 /\ \A o \in releases : o = p
        BY <1>3 DEF SlotInv, SlotCalls, Progress
    <2>2. releases \in SUBSET Nat /\ p \in releases
        BY <1>3, LeadIsActor DEF SlotInv, Shape, IsSeq
    <2>3. Min(releases) = p
        BY <2>1, <2>2, LeastOf
    <2> QED BY <1>3, <2>1, <2>2, <2>3 DEF HeldSlot
<1> QED BY <1>1, <1>2, <1>3 DEF Claims

(* A slot is in use only for a run that has it, for a creation on its way  *)
(* or because a call about it raised: remove_adapter gives every other     *)
(* slot back, for any number of actors and whatever is queued.             *)
THEOREM SlotsAlwaysComeBack == Spec => []SlotsComeBack
BY SlotInvInit, SlotInvNext, UseInvInit, UseInvNext, UseInvComesBack, PTL DEF Spec

-----------------------------------------------------------------------------
(* The slots implement private adapters.  What the lead has in the slot of *)
(* a run is the adapter of the run; an operation acts when the lead gets   *)
(* through it.                                                             *)

(* The slot a run has on the lead.                                         *)
Has(r, s) ==
    /\ s # 0
    /\ \/ slotOf[r] = s
       \/ \E p \in DOMAIN inbox[Lead] :
              inbox[Lead][p].call = "release" /\ inbox[Lead][p].by = r /\ inbox[Lead][p].slot = s

Operation(p) == p \in DOMAIN inbox[Lead] /\ inbox[Lead][p].call = "collective"

(* An operation that waits at the lead is about the slot that its run has  *)
(* then, which the lead releases later if at all.                          *)
OwnSlot(p) ==
    LET c == inbox[Lead][p]
        r == target[c.by]
    IN  /\ c.slot # 0
        /\ \/ slotOf[r] = c.slot
           \/ \E q \in DOMAIN inbox[Lead] :
                  /\ p < q /\ inbox[Lead][q].call = "release"
                  /\ inbox[Lead][q].by = r /\ inbox[Lead][q].slot = c.slot

Submitted(c) ==
    /\ c.by \in Operations /\ stage[c.by] # "new" /\ c.by \notin finished[Lead]
    /\ kind[c.by] = "load" => c.file # {} /\ c.file \subseteq UNION {saved[o] : o \in Operations}
    /\ kind[c.by] # "load" => c.file = {}
    /\ c.part \in Parts

OperationCalls ==
    /\ \A p : Operation(p) => OwnSlot(p) /\ Submitted(inbox[Lead][p])
    /\ \A p, q : Operation(p) /\ Operation(q) /\ p # q => inbox[Lead][p].by # inbox[Lead][q].by

Contents ==
    /\ DOMAIN content = Actors /\ DOMAIN finished = Actors
    /\ \A k \in Actors : DOMAIN content[k] = Slots
    /\ \A r \in Runs : got[r] \in Slots \cup {0}
    /\ \A r \in Runs : life[r] \in {"allocated", "reserving"} /\ r \notin raised /\ got[r] # 0 =>
           content[Lead][got[r]] = Fresh

Past ==
    /\ DOMAIN stage = Operations /\ DOMAIN saved = Operations
    /\ target \in [Operations -> Runs] /\ kind \in [Operations -> Kinds]
    /\ capacity \in Capacities
    /\ \A o \in Operations : stage[o] = "new" => o \notin finished[Lead]
    /\ \A o \in Operations : saved[o] # {} => o \in finished[Lead]

PrivateInv == OperationCalls /\ Contents /\ Past

(* Where the queues are after a call and after its execution.              *)
LEMMA SentLast ==
    ASSUME Shape, NEW m, NEW to, inbox' = Sent(m, to), NEW k \in Actors
    PROVE  \/ k \notin to /\ inbox'[k] = inbox[k]
           \/ \E n \in Nat :
                  /\ k \in to /\ DOMAIN inbox[k] = 1..n /\ DOMAIN inbox'[k] = 1..(n + 1)
                  /\ \A p \in 1..n : inbox'[k][p] = inbox[k][p]
                  /\ inbox'[k][n + 1] = m
<1> DEFINE s == inbox[k]
<1>1. PICK S : s \in Seq(S)
    BY DEF Shape, IsSeq
<1>2. inbox'[k] = IF k \in to THEN Append(s, m) ELSE s
    BY DEF Sent
<1> HIDE DEF s
<1>3. s \in Seq(S \cup {m})
    BY <1>1, SeqMonotonic
<1>4. /\ Len(s) \in Nat /\ DOMAIN s = 1..Len(s)
      /\ DOMAIN Append(s, m) = 1..(Len(s) + 1)
      /\ \A p \in 1..Len(s) : Append(s, m)[p] = s[p]
      /\ Append(s, m)[Len(s) + 1] = m
    BY <1>3
<1>5. CASE k \in to
    <2>1. inbox'[k] = Append(s, m)
        BY <1>2, <1>5
    <2> QED BY <1>4, <1>5, <2>1 DEF s
<1>6. CASE k \notin to
    BY <1>2, <1>6 DEF s
<1> QED BY <1>5, <1>6

LEMMA ServedFirst ==
    ASSUME Shape, NEW k \in Actors, inbox[k] # <<>>, Served(k)
    PROVE  /\ \A j \in Actors : j # k => inbox'[j] = inbox[j]
           /\ Head(inbox[k]) = inbox[k][1] /\ 1 \in DOMAIN inbox[k]
           /\ \E n \in Nat :
                  /\ DOMAIN inbox[k] = 1..(n + 1) /\ DOMAIN inbox'[k] = 1..n
                  /\ \A p \in 1..n : inbox'[k][p] = inbox[k][p + 1]
<1> DEFINE s == inbox[k]
<1>1. PICK S : s \in Seq(S)
    BY DEF Shape, IsSeq
<1>2. s # <<>> /\ inbox'[k] = Tail(s)
    BY DEF Served, Shape
<1>3. (\A j \in Actors : j # k => inbox'[j] = inbox[j]) /\ Head(s) = s[1] /\ 1 \in DOMAIN s
    BY ServedBy
<1> HIDE DEF s
<1>4. /\ Len(s) \in Nat \ {0} /\ DOMAIN s = 1..Len(s)
      /\ Tail(s) \in Seq(S) /\ Len(Tail(s)) = Len(s) - 1
      /\ \A o \in 1..Len(Tail(s)) : Tail(s)[o] = s[o + 1]
    BY <1>1, <1>2, HeadTailProperties, EmptySeq
<1>5. DOMAIN Tail(s) = 1..Len(Tail(s))
    BY <1>4, LenProperties
<1> DEFINE n == Len(s) - 1
<1>6. n \in Nat /\ Len(s) = n + 1 /\ Len(Tail(s)) = n
    BY <1>4
<1> HIDE DEF n
<1>7. /\ DOMAIN s = 1..(n + 1) /\ DOMAIN inbox'[k] = 1..n
      /\ \A p \in 1..n : inbox'[k][p] = s[p + 1]
    BY <1>2, <1>4, <1>5, <1>6
<1> QED BY <1>3, <1>6, <1>7 DEF s

LEMMA PrivateInit == Init => PrivateInv
<1> SUFFICES ASSUME Init PROVE PrivateInv
    OBVIOUS
<1>1. DOMAIN inbox[Lead] = {}
    BY EmptySeq, LeadIsActor DEF Init
<1>2. OperationCalls
    BY <1>1 DEF OperationCalls, Operation
<1>3. Contents
    BY LeadIsActor DEF Init, Contents
<1>4. Past
    BY LeadIsActor DEF Init, Past
<1> QED BY <1>2, <1>3, <1>4 DEF PrivateInv

(* A step that leaves the lead and what the lead was asked.                *)
LEMMA PrivateQuiet ==
    ASSUME SlotInv, PrivateInv, NEW r \in Runs,
           \/ CreateBegin(r) \/ RemoveBegin(r) \/ CreateEnds(r) \/ RemoveEnds(r)
    PROVE  PrivateInv'
<1> USE DEF actorVars, inputs
<1>1. /\ UNCHANGED <<inbox, got, content, finished, saved, raised, stage, inputs>> /\ Shape
      /\ \A q \in Runs : q # r => life'[q] = life[q] /\ slotOf'[q] = slotOf[q]
    BY DEF SlotInv, Shape, CreateBegin, RemoveBegin, CreateEnds, RemoveEnds, MovesTo
<1>2. /\ life'[r] \notin {"allocated", "reserving"}
      /\ slotOf[r] # 0 => slotOf'[r] = slotOf[r]
    BY <1>1 DEF SlotInv, Shape, Progress, CreateBegin, RemoveBegin, CreateEnds, RemoveEnds, MovesTo
<1>3. \A q \in Runs : slotOf[q] # 0 => slotOf'[q] = slotOf[q]
    BY <1>1, <1>2
<1>4. OperationCalls'
    <2>1. \A p : Operation(p)' = Operation(p)
        BY <1>1 DEF Operation
    <2>2. ASSUME NEW p, Operation(p) PROVE OwnSlot(p)' /\ Submitted(inbox[Lead][p])'
        <3>1. OwnSlot(p) /\ Submitted(inbox[Lead][p]) /\ target[inbox[Lead][p].by] \in Runs
            BY <2>2 DEF PrivateInv, OperationCalls, Submitted, Past
        <3>2. OwnSlot(p)'
            BY <1>1, <1>3, <3>1 DEF OwnSlot
        <3>3. Submitted(inbox[Lead][p])'
            BY <1>1, <3>1 DEF Submitted
        <3> QED BY <3>2, <3>3
    <2> QED BY <1>1, <2>1, <2>2 DEF PrivateInv, OperationCalls
<1>5. Contents'
    BY <1>1, <1>2 DEF PrivateInv, Contents
<1>6. Past'
    BY <1>1 DEF PrivateInv, Past
<1> QED BY <1>4, <1>5, <1>6 DEF PrivateInv

(* Calls are made: a call to the lead about an operation is the last one,  *)
(* about the slot that the run has, and a call to release a slot comes     *)
(* after those of the operations on it.                                    *)
LEMMA PrivateSent ==
    ASSUME SlotInv, PrivateInv, NEW m, NEW to, inbox' = Sent(m, to) \/ UNCHANGED inbox,
           UNCHANGED <<got, content, finished, saved, raised, inputs>>,
           DOMAIN stage' = Operations,
           \A o \in Operations : stage[o] # "new" => stage'[o] # "new",
           \A r \in Runs : life'[r] \in {"allocated", "reserving"} =>
               life[r] \in {"allocated", "reserving"},
           \A r \in Runs : slotOf[r] # 0 =>
               \/ slotOf'[r] = slotOf[r]
               \/ /\ inbox' = Sent(m, to) /\ Lead \in to
                  /\ m.call = "release" /\ m.by = r /\ m.slot = slotOf[r],
           Lead \in to /\ m.call = "collective" /\ inbox' = Sent(m, to) =>
               /\ m.slot # 0 /\ slotOf'[target[m.by]] = m.slot
               /\ m.by \in Operations /\ stage[m.by] = "new" /\ Submitted(m)'
    PROVE  PrivateInv'
<1> USE LeadIsActor DEF inputs
<1>1. Shape /\ OperationCalls /\ Contents /\ Past
    BY DEF SlotInv, PrivateInv
<1>2. CASE UNCHANGED inbox
    <2>1. \A p : Operation(p)' = Operation(p)
        BY <1>2 DEF Operation
    <2>2. ASSUME NEW p, Operation(p) PROVE OwnSlot(p)' /\ Submitted(inbox[Lead][p])'
        <3>1. OwnSlot(p) /\ Submitted(inbox[Lead][p]) /\ target[inbox[Lead][p].by] \in Runs
            BY <1>1, <2>2 DEF OperationCalls, Submitted, Past
        <3>2. ASSUME NEW r \in Runs, slotOf[r] # 0, slotOf'[r] # slotOf[r] PROVE
                  \E q \in DOMAIN inbox[Lead] : inbox[Lead][q].call = "release" /\ inbox[Lead][q].by = r
            BY <1>1, <1>2, <3>2, SentKeeps
        <3>3. \A r \in Runs : slotOf[r] # 0 => slotOf'[r] = slotOf[r]
            BY <3>2 DEF SlotInv, SlotCalls, Progress
        <3>4. OwnSlot(p)'
            BY <1>2, <3>1, <3>3 DEF OwnSlot
        <3>5. Submitted(inbox[Lead][p])'
            BY <1>2, <3>1 DEF Submitted
        <3> QED BY <3>4, <3>5
    <2>3. OperationCalls'
        BY <1>1, <1>2, <2>1, <2>2 DEF OperationCalls
    <2>4. Contents' /\ Past'
        BY <1>1 DEF Contents, Past
    <2> QED BY <2>3, <2>4 DEF PrivateInv
<1>3. CASE inbox' = Sent(m, to)
    <2>1. PICK n \in Nat :
              /\ DOMAIN inbox[Lead] = 1..n
              /\ \A p \in 1..n : inbox'[Lead][p] = inbox[Lead][p]
              /\ \/ Lead \notin to /\ DOMAIN inbox'[Lead] = 1..n
                 \/ Lead \in to /\ DOMAIN inbox'[Lead] = 1..(n + 1) /\ inbox'[Lead][n + 1] = m
        <3>1. PICK S : inbox[Lead] \in Seq(S)
            BY <1>1 DEF Shape, IsSeq
        <3>2. Len(inbox[Lead]) \in Nat /\ DOMAIN inbox[Lead] = 1..Len(inbox[Lead])
            BY <3>1
        <3>3. \/ Lead \notin to /\ inbox'[Lead] = inbox[Lead]
              \/ \E n \in Nat :
                     /\ Lead \in to /\ DOMAIN inbox[Lead] = 1..n /\ DOMAIN inbox'[Lead] = 1..(n + 1)
                     /\ \A p \in 1..n : inbox'[Lead][p] = inbox[Lead][p]
                     /\ inbox'[Lead][n + 1] = m
            BY <1>1, <1>3, SentLast
        <3>4. CASE Lead \notin to /\ inbox'[Lead] = inbox[Lead]
            BY <3>2, <3>4
        <3> QED BY <3>3, <3>4
    <2>2. ASSUME NEW p \in 1..n, Operation(p)
          PROVE  OwnSlot(p)' /\ Submitted(inbox[Lead][p])' /\ inbox'[Lead][p] = inbox[Lead][p]
        <3>1. OwnSlot(p) /\ Submitted(inbox[Lead][p]) /\ target[inbox[Lead][p].by] \in Runs
            BY <1>1, <2>2 DEF OperationCalls, Submitted, Past
        <3>2. OwnSlot(p)'
            <4> DEFINE r == target[inbox[Lead][p].by]
            <4>1. r \in Runs /\ r = target'[inbox'[Lead][p].by]
                BY <2>1, <2>2, <3>1
            <4>2. CASE slotOf[r] = inbox[Lead][p].slot /\ slotOf'[r] = slotOf[r]
                BY <2>1, <3>1, <4>2 DEF OwnSlot
            <4>3. CASE slotOf[r] = inbox[Lead][p].slot /\ slotOf'[r] # slotOf[r]
                <5>1. /\ Lead \in to /\ m.call = "release" /\ m.by = r /\ m.slot = inbox[Lead][p].slot
                      /\ inbox[Lead][p].slot # 0
                    BY <3>1, <4>1, <4>3 DEF OwnSlot
                <5>2. n + 1 \in DOMAIN inbox'[Lead] /\ inbox'[Lead][n + 1] = m /\ p < n + 1
                    BY <2>1, <5>1
                <5> QED BY <2>1, <4>1, <5>1, <5>2 DEF OwnSlot
            <4>4. CASE slotOf[r] # inbox[Lead][p].slot
                <5>1. PICK q \in 1..n :
                         /\ p < q /\ inbox[Lead][q].call = "release"
                         /\ inbox[Lead][q].by = r /\ inbox[Lead][q].slot = inbox[Lead][p].slot
                    BY <2>1, <3>1, <4>4 DEF OwnSlot
                <5>2. q \in DOMAIN inbox'[Lead] /\ inbox'[Lead][q] = inbox[Lead][q]
                    BY <2>1
                <5> QED BY <2>1, <3>1, <4>1, <5>1, <5>2 DEF OwnSlot
            <4> QED BY <4>2, <4>3, <4>4
        <3>3. Submitted(inbox[Lead][p])'
            BY <2>1, <3>1 DEF Submitted
        <3> QED BY <2>1, <3>2, <3>3
    <2>3. ASSUME NEW p, Operation(p)'
          PROVE  \/ p \in 1..n /\ Operation(p) /\ inbox'[Lead][p] = inbox[Lead][p]
                 \/ p = n + 1 /\ Lead \in to /\ inbox'[Lead][p] = m /\ m.call = "collective"
        BY <2>1, <2>3 DEF Operation
    <2>4. ASSUME NEW p, Operation(p)' PROVE OwnSlot(p)' /\ Submitted(inbox[Lead][p])'
        <3>1. CASE p \in 1..n /\ Operation(p)
            BY <2>2, <3>1
        <3>2. CASE p = n + 1 /\ Lead \in to /\ inbox'[Lead][p] = m /\ m.call = "collective"
            BY <1>3, <3>2 DEF OwnSlot, Submitted
        <3> QED BY <2>3, <2>4, <3>1, <3>2
    <2>5. ASSUME NEW p, NEW q, Operation(p)', Operation(q)', p # q
          PROVE  inbox'[Lead][p].by # inbox'[Lead][q].by
        <3>1. \A x \in 1..n : Operation(x) => stage[inbox[Lead][x].by] # "new"
            BY <1>1 DEF OperationCalls, Submitted
        <3> QED BY <1>1, <1>3, <2>3, <2>5, <3>1 DEF OperationCalls
    <2>6. OperationCalls'
        BY <2>4, <2>5 DEF OperationCalls
    <2>7. Contents' /\ Past'
        BY <1>1 DEF Contents, Past
    <2> QED BY <2>6, <2>7 DEF PrivateInv
<1> QED BY <1>2, <1>3

LEMMA PrivateCalls ==
    ASSUME SlotInv, PrivateInv, NEW r \in Runs,
           CreateAllocate(r) \/ CreateReserve(r) \/ RemoveRelease(r)
    PROVE  PrivateInv'
<1> USE DEF actorVars, inputs
<1>1. UNCHANGED <<got, content, finished, saved, raised, inputs, stage>> /\ Shape
    BY DEF SlotInv, CreateAllocate, CreateReserve, RemoveRelease
<1>2. /\ DOMAIN stage' = Operations
      /\ \A o \in Operations : stage[o] # "new" => stage'[o] # "new"
    BY <1>1 DEF PrivateInv, Past
<1>3. /\ \A q \in Runs : life'[q] \in {"allocated", "reserving"} => life[q] \in {"allocated", "reserving"}
      /\ \A q \in Runs : q # r => slotOf'[q] = slotOf[q]
    BY <1>1 DEF Shape, CreateAllocate, CreateReserve, RemoveRelease, MovesTo
<1>4. PICK m, to :
        /\ inbox' = Sent(m, to) \/ UNCHANGED inbox
        /\ m.call # "collective"
        /\ \/ UNCHANGED slotOf
           \/ /\ inbox' = Sent(m, to) /\ Lead \in to
              /\ m.call = "release" /\ m.by = r /\ m.slot = slotOf[r]
    <2>1. CASE CreateAllocate(r)
        <3>1. inbox' = Sent(SlotCall("allocate", 0, r), {Lead}) /\ UNCHANGED slotOf
            BY <2>1 DEF CreateAllocate
        <3>2. SlotCall("allocate", 0, r).call # "collective"
            BY DEF SlotCall
        <3> QED BY <3>1, <3>2
    <2>2. CASE CreateReserve(r)
        <3>1. /\ UNCHANGED slotOf
              /\ inbox' = Sent(SlotCall("reserve", got[r], r), Actors \ {Lead}) \/ UNCHANGED inbox
            BY <2>2 DEF CreateReserve
        <3>2. SlotCall("reserve", got[r], r).call # "collective"
            BY DEF SlotCall
        <3> QED BY <3>1, <3>2
    <2>3. CASE RemoveRelease(r)
        <3>1. inbox' = Sent(SlotCall("release", slotOf[r], r), Actors)
            BY <2>3 DEF RemoveRelease
        <3>2. LET m == SlotCall("release", slotOf[r], r)
              IN  m.call = "release" /\ m.by = r /\ m.slot = slotOf[r]
            BY DEF SlotCall
        <3> QED BY <3>1, <3>2, LeadIsActor
    <2> QED BY <2>1, <2>2, <2>3
<1>5. \A q \in Runs : slotOf[q] # 0 =>
          \/ slotOf'[q] = slotOf[q]
          \/ /\ inbox' = Sent(m, to) /\ Lead \in to
             /\ m.call = "release" /\ m.by = q /\ m.slot = slotOf[q]
    BY <1>3, <1>4
<1> QED BY <1>1, <1>2, <1>3, <1>4, <1>5, PrivateSent

LEMMA OutcomeRecords ==
    ASSUME NEW o, NEW x \in Outcomes(o)
    PROVE  x.part \in Parts /\ x.bad \subseteq Actors
<1>1. /\ Parts \subseteq Parts /\ "start" \in Parts /\ "end" \in Parts
      /\ {{k} : k \in Actors} \subseteq SUBSET Actors
    BY DEF Parts
<1>2. ASSUME NEW bads, NEW late, NEW parts, bads \subseteq SUBSET Actors, parts \subseteq Parts,
             NEW y \in [bad: bads, late: {late}, part: parts]
      PROVE  y.part \in Parts /\ y.bad \subseteq Actors
    BY <1>2
<1> QED BY <1>1, <1>2 DEF Outcomes

LEMMA PrivateOperations ==
    ASSUME SlotInv, PrivateInv, NEW o \in Operations, OpBegin(o) \/ OpEnds(o)
    PROVE  PrivateInv'
<1> USE LeadIsActor DEF inputs
<1>1. /\ UNCHANGED <<life, got, slotOf, content, finished, saved, raised, inputs>>
      /\ Shape /\ Past
    BY DEF OpBegin, OpEnds, backendVars, actorVars, inputs, SlotInv, PrivateInv
<1>2. \E x : x # "new" /\ stage' = [stage EXCEPT ![o] = x]
    BY Zenon DEF OpBegin, OpEnds, Submit
<1>3. /\ DOMAIN stage' = Operations /\ stage'[o] # "new"
      /\ \A p \in Operations : stage[p] # "new" => stage'[p] # "new"
    BY <1>1, <1>2 DEF Past
<1>4. CASE UNCHANGED inbox
    <2>1. Lead \notin {}
        OBVIOUS
    <2> QED BY <1>1, <1>3, <1>4, <2>1, PrivateSent
<1>5. CASE ~ UNCHANGED inbox
    <2> DEFINE M(n, file, x) ==
                   [call |-> "collective", slot |-> slotOf[target[o]], by |-> o, n |-> n,
                    file |-> file, bad |-> x.bad, late |-> x.late, part |-> x.part]
    <2>1. /\ stage[o] = "new" /\ slotOf[target[o]] # 0
          /\ \E n, file : \E x \in Outcomes(o) :
                 /\ inbox' = Sent(M(n, file, x), Actors)
                 /\ kind[o] = "load" => \E p \in Operations : saved[p] # {} /\ file = saved[p]
                 /\ kind[o] # "load" => file = {}
        <3>1. stage[o] = "new" /\ slotOf[target[o]] # 0
            BY <1>5 DEF OpBegin, OpEnds
        <3>2. \E n, file :
                 /\ Submit(o, n, file)
                 /\ kind[o] = "load" => \E p \in Operations : saved[p] # {} /\ file = saved[p]
                 /\ kind[o] # "load" => file = {}
            BY <1>5, Zenon DEF OpBegin, OpEnds
        <3>3. PICK n, file :
                 /\ Submit(o, n, file)
                 /\ kind[o] = "load" => \E p \in Operations : saved[p] # {} /\ file = saved[p]
                 /\ kind[o] # "load" => file = {}
            BY <3>2
        <3>4. \E x \in Outcomes(o) : inbox' = Sent(M(n, file, x), Actors)
            BY <3>3, Zenon DEF Submit
        <3> QED BY <3>1, <3>3, <3>4
    <2>2. PICK m :
              /\ inbox' = Sent(m, Actors)
              /\ m.call = "collective" /\ m.by = o /\ m.slot = slotOf[target[o]]
              /\ kind[o] = "load" => \E p \in Operations : saved[p] # {} /\ m.file = saved[p]
              /\ kind[o] # "load" => m.file = {}
              /\ m.part \in Parts
        BY <2>1, OutcomeRecords
    <2>3. o \notin finished'[Lead]
        BY <1>1, <2>1 DEF Past
    <2>4. Submitted(m)'
        BY <1>1, <1>3, <2>2, <2>3 DEF Submitted
    <2> QED BY <1>1, <1>3, <2>1, <2>2, <2>4, PrivateSent
<1> QED BY <1>4, <1>5

(* What a call leaves of the shards.                                       *)
LEMMA HoldingOnly ==
    ASSUME Contents, NEW k \in Actors, NEW s, NEW x, Holding(k, s, x)
    PROVE  /\ DOMAIN content' = Actors /\ \A j \in Actors : DOMAIN content'[j] = Slots
           /\ \A j \in Actors : \A t \in Slots :
                  content'[j][t] = IF j = k /\ t = s THEN x ELSE content[j][t]
BY DEF Contents, Holding

(* A run that loses its slot or works on it is not one that awaits it.     *)
LEMMA NotAwaited ==
    ASSUME SlotInv, NEW q \in Runs, NEW s, s # 0, Claims(q, s),
           life[q] \notin {"allocated", "reserving"},
           NEW r \in Runs, life[r] \in {"allocated", "reserving"}
    PROVE  got[r] # s
BY DEF SlotInv, ClaimsExclude, Claims

LEMMA OperationSlot ==
    ASSUME SlotInv, PrivateInv, NEW p, Operation(p)
    PROVE  LET c == inbox[Lead][p]
               r == target[c.by]
           IN  /\ c.by \in Operations /\ r \in Runs /\ c.slot # 0 /\ Claims(r, c.slot)
               /\ life[r] \notin {"allocated", "reserving"}
               /\ Has(r, c.slot)
<1> DEFINE c == inbox[Lead][p]
           r == target[c.by]
<1>1. c.by \in Operations /\ r \in Runs /\ OwnSlot(p)
    BY DEF PrivateInv, OperationCalls, Submitted, Past
<1>2. CASE slotOf[r] = c.slot
    BY <1>1, <1>2 DEF OwnSlot, Has, Claims, SlotInv, Progress
<1>3. CASE slotOf[r] # c.slot
    <2>1. PICK q \in DOMAIN inbox[Lead] :
              inbox[Lead][q].call = "release" /\ inbox[Lead][q].by = r /\ inbox[Lead][q].slot = c.slot
        BY <1>1, <1>3 DEF OwnSlot
    <2>2. life[r] \in {"releasing", "gone"}
        BY <2>1 DEF SlotInv, SlotCalls
    <2> QED BY <1>1, <2>1, <2>2 DEF OwnSlot, Has, Claims
<1> QED BY <1>2, <1>3, <1>1

(* Slots that are awaited are left as they are.                            *)
LEMMA ContentsKept ==
    ASSUME Contents, UNCHANGED <<life, got>>, raised \subseteq raised', DOMAIN finished' = Actors,
           NEW k \in Actors, NEW s, NEW x, Holding(k, s, x),
           k = Lead => \A r \in Runs : life[r] \in {"allocated", "reserving"} => got[r] # s
    PROVE  Contents'
<1>1. /\ DOMAIN content' = Actors /\ \A j \in Actors : DOMAIN content'[j] = Slots
      /\ \A j \in Actors : \A t \in Slots :
             content'[j][t] = IF j = k /\ t = s THEN x ELSE content[j][t]
    BY HoldingOnly
<1>2. \A r \in Runs : got[r] # 0 => got[r] \in Slots
    BY DEF Contents
<1> QED BY <1>1, <1>2, LeadIsActor DEF Contents

(* An actor takes its next call.  The calls left to the lead were there    *)
(* before, in the same order.                                              *)
LEMMA PrivateServed ==
    ASSUME SlotInv, PrivateInv, NEW k \in Actors, inbox[k] # <<>>, Served(k),
           UNCHANGED <<slotOf, inputs, stage>>, DOMAIN saved' = Operations,
           \A o : o \in finished'[Lead] =>
               \/ o \in finished[Lead]
               \/ k = Lead /\ Head(inbox[k]).call = "collective" /\ o = Head(inbox[k]).by,
           \A o \in Operations : saved[o] \subseteq saved'[o],
           \A o \in Operations : saved'[o] # {} => o \in finished'[Lead]
    PROVE  OperationCalls' /\ Past'
<1> USE LeadIsActor DEF inputs
<1>1. Shape /\ OperationCalls /\ Past
    BY DEF SlotInv, PrivateInv
<1>2. CASE k # Lead
    <2>1. inbox'[Lead] = inbox[Lead] /\ \A o : o \in finished'[Lead] => o \in finished[Lead]
        BY <1>1, <1>2, ServedFirst
    <2>2. \A p : Operation(p)' = Operation(p) /\ inbox'[Lead][p] = inbox[Lead][p]
        BY <2>1 DEF Operation
    <2>3. ASSUME NEW p, Operation(p) PROVE OwnSlot(p)' /\ Submitted(inbox[Lead][p])'
        <3>1. OwnSlot(p) /\ Submitted(inbox[Lead][p])
            BY <1>1, <2>3 DEF OperationCalls
        <3>2. OwnSlot(p)'
            BY <2>1, <3>1 DEF OwnSlot
        <3>3. Submitted(inbox[Lead][p])'
            BY <1>1, <2>1, <3>1 DEF Submitted
        <3> QED BY <3>2, <3>3
    <2>4. OperationCalls'
        BY <1>1, <2>1, <2>2, <2>3 DEF OperationCalls
    <2>5. Past'
        BY <1>1, <2>1 DEF Past
    <2> QED BY <2>4, <2>5
<1>3. CASE k = Lead
    <2> DEFINE c == inbox[Lead][1]
    <2>1. Head(inbox[Lead]) = c /\ 1 \in DOMAIN inbox[Lead]
        BY <1>1, <1>3, ServedFirst
    <2>2. PICK n \in Nat :
              /\ DOMAIN inbox[Lead] = 1..(n + 1) /\ DOMAIN inbox'[Lead] = 1..n
              /\ \A p \in 1..n : inbox'[Lead][p] = inbox[Lead][p + 1]
        BY <1>1, <1>3, ServedFirst
    <2>3. ASSUME NEW p, Operation(p)'
          PROVE  /\ p \in 1..n /\ p + 1 # 1 /\ Operation(p + 1)
                 /\ inbox'[Lead][p] = inbox[Lead][p + 1]
        BY <2>2, <2>3 DEF Operation
    <2>4. ASSUME NEW p, Operation(p)' PROVE OwnSlot(p)' /\ Submitted(inbox[Lead][p])'
        <3>1. /\ p \in 1..n /\ p + 1 # 1 /\ Operation(p + 1)
              /\ inbox'[Lead][p] = inbox[Lead][p + 1]
            BY <2>3, <2>4
        <3>2. OwnSlot(p + 1) /\ Submitted(inbox[Lead][p + 1])
            BY <1>1, <3>1 DEF OperationCalls
        <3> DEFINE d == inbox[Lead][p + 1]
                   r == target[d.by]
        <3>8. inbox'[Lead][p] = d /\ target' = target /\ slotOf' = slotOf /\ d.slot # 0
            BY <3>1, <3>2 DEF OwnSlot
        <3>3. OwnSlot(p)'
            <4>1. CASE slotOf[r] = d.slot
                BY <3>8, <4>1 DEF OwnSlot
            <4>2. CASE slotOf[r] # d.slot
                <5>1. PICK q \in DOMAIN inbox[Lead] :
                          /\ p + 1 < q /\ inbox[Lead][q].call = "release"
                          /\ inbox[Lead][q].by = r /\ inbox[Lead][q].slot = d.slot
                    BY <3>2, <4>2 DEF OwnSlot
                <5>2. PICK o \in 1..n : q = o + 1 /\ p < o
                    <6>1. q \in 1..(n + 1) /\ p \in Nat /\ q \in Nat
                        BY <2>2, <3>1, <5>1
                    <6>2. q - 1 \in 1..n /\ q = (q - 1) + 1 /\ p < q - 1
                        BY <3>1, <5>1, <6>1
                    <6> QED BY <6>2
                <5>3. o \in DOMAIN inbox'[Lead] /\ inbox'[Lead][o] = inbox[Lead][q]
                    BY <2>2, <5>2
                <5> QED BY <3>8, <5>1, <5>2, <5>3 DEF OwnSlot
            <4> QED BY <4>1, <4>2
        <3>5. d.by \notin finished'[Lead]
            <4>1. d.by \notin finished[Lead]
                BY <3>2 DEF Submitted
            <4>2. ASSUME c.call = "collective" PROVE d.by # c.by
                <5>1. Operation(1)
                    BY <2>1, <4>2 DEF Operation
                <5> QED BY <1>1, <3>1, <5>1 DEF OperationCalls
            <4> QED BY <2>1, <4>1, <4>2
        <3>6. \A o \in Operations : saved[o] \subseteq saved'[o]
            OBVIOUS
        <3>7. Submitted(inbox[Lead][p])'
            BY <3>1, <3>2, <3>5, <3>6 DEF Submitted
        <3> QED BY <3>3, <3>7
    <2>5. \A p, q : Operation(p)' /\ Operation(q)' /\ p # q => inbox'[Lead][p].by # inbox'[Lead][q].by
        <3>1. \A p, q : p \in 1..n /\ q \in 1..n /\ p # q => p + 1 # q + 1
            OBVIOUS
        <3>2. SUFFICES ASSUME NEW p, NEW q, Operation(p)', Operation(q)', p # q
              PROVE  inbox'[Lead][p].by # inbox'[Lead][q].by
            OBVIOUS
        <3>3. /\ p \in 1..n /\ Operation(p + 1) /\ inbox'[Lead][p] = inbox[Lead][p + 1]
              /\ q \in 1..n /\ Operation(q + 1) /\ inbox'[Lead][q] = inbox[Lead][q + 1]
            BY <2>3, <3>2
        <3> QED BY <1>1, <3>1, <3>2, <3>3 DEF OperationCalls
    <2>6. OperationCalls'
        BY <2>4, <2>5 DEF OperationCalls
    <2>7. c.call = "collective" => c.by \in Operations /\ stage[c.by] # "new"
        BY <1>1, <2>1 DEF OperationCalls, Submitted, Operation
    <2>8. Past'
        <3>1. \A o \in Operations : stage'[o] = "new" => o \notin finished'[Lead]
            BY <1>1, <1>3, <2>1, <2>7 DEF Past
        <3> QED BY <1>1, <3>1 DEF Past
    <2> QED BY <2>6, <2>8
<1> QED BY <1>2, <1>3

LEMMA FreeIsSlot ==
    ASSUME Past, Shape, Free # {}
    PROVE  Min(Free) \in Slots /\ Min(Free) # 0
<1>1. Free \in SUBSET Nat /\ \A s \in Free : s # 0 /\ s \in 1..capacity
    BY DEF Free, Shape
<1>2. Min(Free) \in Free
    BY <1>1, LeastOf
<1> QED BY <1>1, <1>2 DEF Past, Slots

(* The lead lends a slot: with a fresh adapter in it, unless the reset     *)
(* raised.                                                                 *)
LEMMA PrivateAllocate ==
    ASSUME SlotInv, PrivateInv, inbox[Lead] # <<>>, Head(inbox[Lead]).call = "allocate",
           Served(Lead), MovesTo(Head(inbox[Lead]).by, "allocated"),
           UNCHANGED <<slotOf, finished, saved, stage, inputs>>, raised \subseteq raised',
           \/ UNCHANGED <<got, content>>
           \/ \E x : /\ Free # {}
                     /\ got' = [got EXCEPT ![Head(inbox[Lead]).by] = Min(Free)]
                     /\ Holding(Lead, Min(Free), x)
                     /\ x = Fresh \/ Head(inbox[Lead]).by \in raised'
    PROVE  PrivateInv'
<1> USE LeadIsActor
<1> DEFINE c == Head(inbox[Lead])
           r == c.by
<1>1. Shape /\ SlotCalls /\ Progress /\ ClaimsExclude /\ OperationCalls /\ Contents /\ Past
    BY DEF SlotInv, PrivateInv
<1>2. 1 \in DOMAIN inbox[Lead] /\ c = inbox[Lead][1]
    BY <1>1, ServedFirst
<1>3. r \in Runs /\ life[r] = "allocating" /\ got[r] = 0
    BY <1>1, <1>2 DEF SlotCalls, Progress
<1>4. life'[r] = "allocated" /\ \A q \in Runs : q # r => life'[q] = life[q]
    BY <1>1, <1>3 DEF MovesTo, Shape
<1>5. OperationCalls' /\ Past'
    <2>1. \A o \in Operations : saved[o] # {} => o \in finished[Lead]
        BY <1>1 DEF Past
    <2> QED BY <1>1, <2>1, PrivateServed DEF Past
<1>6. Contents'
    <2>1. CASE UNCHANGED <<got, content>>
        BY <1>1, <1>3, <1>4, <2>1 DEF Contents
    <2>2. CASE ~ UNCHANGED <<got, content>>
        <3>1. PICK s, x : /\ s = Min(Free) /\ Free # {}
                          /\ got' = [got EXCEPT ![r] = s]
                          /\ Holding(Lead, s, x)
                          /\ x = Fresh \/ r \in raised'
            BY <2>2, Zenon
        <3>2. s \in Slots /\ s # 0 /\ s \notin allocated[Lead]
            BY <1>1, <3>1, FreeIsSlot, FreeSlot
        <3>3. got'[r] = s /\ \A q \in Runs : q # r => got'[q] = got[q]
            BY <1>1, <1>3, <3>1 DEF Shape
        <3>4. /\ DOMAIN content' = Actors /\ \A j \in Actors : DOMAIN content'[j] = Slots
              /\ \A t \in Slots : content'[Lead][t] = IF t = s THEN x ELSE content[Lead][t]
            BY <1>1, <3>1, HoldingOnly
        <3>5. \A q \in Runs : life[q] \in {"allocated", "reserving"} => got[q] # s
            BY <1>1, <3>2 DEF ClaimsExclude, Claims
        <3>6. \A q \in Runs : got'[q] \in Slots \cup {0}
            BY <1>1, <3>2, <3>3 DEF Contents
        <3>7. ASSUME NEW q \in Runs, life'[q] \in {"allocated", "reserving"}, q \notin raised', got'[q] # 0
              PROVE  content'[Lead][got'[q]] = Fresh
            <4>1. CASE q = r
                BY <3>1, <3>2, <3>3, <3>4, <3>7, <4>1
            <4>2. CASE q # r
                <5>1. /\ life[q] \in {"allocated", "reserving"} /\ q \notin raised /\ got[q] # 0
                      /\ got'[q] = got[q]
                    BY <1>4, <3>3, <3>7, <4>2
                <5>2. content[Lead][got[q]] = Fresh /\ got[q] \in Slots /\ got[q] # s
                    BY <1>1, <3>5, <5>1 DEF Contents
                <5> QED BY <3>4, <5>1, <5>2
            <4> QED BY <4>1, <4>2
        <3>8. DOMAIN finished' = Actors
            BY <1>1 DEF Contents
        <3> QED BY <3>4, <3>6, <3>7, <3>8 DEF Contents
    <2> QED BY <2>1, <2>2
<1> QED BY <1>5, <1>6 DEF PrivateInv

(* A call is executed, on the lead one that releases a slot or is about an *)
(* operation.                                                              *)
LEMMA PrivateExecutes ==
    ASSUME SlotInv, UseInv, PrivateInv, NEW k \in Actors, inbox[k] # <<>>, Served(k),
           k # Lead \/ Head(inbox[k]).call # "allocate",
           UNCHANGED <<life, got, slotOf, inputs, stage>>, raised \subseteq raised',
           DOMAIN finished' = Actors, DOMAIN saved' = Operations,
           \A o : o \in finished'[Lead] =>
               \/ o \in finished[Lead]
               \/ k = Lead /\ Head(inbox[k]).call = "collective" /\ o = Head(inbox[k]).by,
           \A o \in Operations : saved[o] \subseteq saved'[o],
           \A o \in Operations : saved'[o] # {} => o \in finished'[Lead],
           \/ UNCHANGED content
           \/ \E x : Holding(k, Head(inbox[k]).slot, x)
    PROVE  PrivateInv'
<1> USE LeadIsActor
<1>1. OperationCalls' /\ Past'
    BY PrivateServed
<1>2. Shape /\ SlotCalls /\ Contents /\ LeadCalls
    BY DEF SlotInv, UseInv, PrivateInv
<1>3. PICK s : s = Head(inbox[k]).slot
    OBVIOUS
<1>4. ASSUME k = Lead, NEW r \in Runs, life[r] \in {"allocated", "reserving"} PROVE got[r] # s
    <2>1. 1 \in DOMAIN inbox[Lead] /\ Head(inbox[k]) = inbox[Lead][1]
        BY <1>2, <1>4, ServedFirst
    <2>2. CASE inbox[Lead][1].call = "release"
        <3>1. LET q == inbox[Lead][1].by
              IN  q \in Runs /\ life[q] \in {"releasing", "gone"} /\ s # 0 /\ Claims(q, s)
            BY <1>2, <1>3, <2>1, <2>2 DEF SlotCalls, LeadCalls, Claims
        <3> QED BY <1>4, <3>1, NotAwaited
    <2>3. CASE inbox[Lead][1].call = "collective"
        <3>1. Operation(1)
            BY <2>1, <2>3 DEF Operation
        <3>2. LET q == target[inbox[Lead][1].by]
              IN  q \in Runs /\ life[q] \notin {"allocated", "reserving"} /\ s # 0 /\ Claims(q, s)
            BY <1>3, <2>1, <3>1, OperationSlot
        <3> QED BY <1>4, <3>2, NotAwaited
    <2> QED BY <1>2, <1>4, <2>1, <2>2, <2>3 DEF LeadCalls
<1>5. Contents'
    <2>1. CASE UNCHANGED content
        BY <1>2, <2>1 DEF Contents
    <2>2. CASE \E x : Holding(k, s, x)
        BY <1>2, <1>4, <2>2, ContentsKept
    <2> QED BY <1>3, <2>1, <2>2
<1> QED BY <1>1, <1>5 DEF PrivateInv

LEMMA PrivateActors ==
    ASSUME SlotInv, UseInv, PrivateInv, NEW k \in Actors, ActorStep(k) \/ Raise(k)
    PROVE  PrivateInv'
<1> USE LeadIsActor
<1>1. /\ Shape /\ SlotCalls /\ Contents /\ Past
      /\ DOMAIN finished = Actors /\ DOMAIN saved = Operations
      /\ \A o \in Operations : saved[o] # {} => o \in finished[Lead]
    BY DEF SlotInv, PrivateInv, Contents, Past
<1>2. CASE k = Lead /\ Allocate
    <2>1. /\ inbox[Lead] # <<>> /\ Head(inbox[Lead]).call = "allocate" /\ Served(Lead)
          /\ MovesTo(Head(inbox[Lead]).by, "allocated")
          /\ UNCHANGED <<slotOf, finished, saved, stage, inputs, raised>>
          /\ \/ UNCHANGED <<got, content>>
             \/ /\ Free # {}
                /\ got' = [got EXCEPT ![Head(inbox[Lead]).by] = Min(Free)]
                /\ Holding(Lead, Min(Free), Fresh)
        BY <1>2, Zenon DEF Allocate, Serves, Reset
    <2>2. \/ UNCHANGED <<got, content>>
          \/ \E x : /\ Free # {}
                    /\ got' = [got EXCEPT ![Head(inbox[Lead]).by] = Min(Free)]
                    /\ Holding(Lead, Min(Free), x)
                    /\ x = Fresh \/ Head(inbox[Lead]).by \in raised'
        BY <2>1, Zenon
    <2> QED BY <2>1, <2>2, PrivateAllocate
<1>3. CASE Reserve(k) \/ Release(k)
    <2>1. /\ inbox[k] # <<>> /\ Head(inbox[k]).call \in {"reserve", "release"} /\ Served(k)
          /\ UNCHANGED <<life, got, slotOf, inputs, stage, raised, finished, saved>>
        BY <1>3 DEF Reserve, Release, Serves, backendVars
    <2>2. \E x : Holding(k, Head(inbox[k]).slot, x)
        BY <1>3, Zenon DEF Reserve, Release
    <2> QED BY <1>1, <2>1, <2>2, PrivateExecutes
<1>4. CASE Reject(k)
    <2>1. /\ inbox[k] # <<>> /\ Head(inbox[k]).call = "collective" /\ Served(k)
          /\ UNCHANGED <<life, got, slotOf, inputs, stage, saved>> /\ raised \subseteq raised'
          /\ finished' = [finished EXCEPT ![k] = @ \cup {Head(inbox[k]).by}]
        BY <1>4, Zenon DEF Reject, Serves, backendVars
    <2>2. \E x : Holding(k, Head(inbox[k]).slot, x)
        BY <1>4, Zenon DEF Reject
    <2>3. /\ DOMAIN finished' = Actors
          /\ finished'[Lead] = IF k = Lead THEN finished[Lead] \cup {Head(inbox[k]).by} ELSE finished[Lead]
        BY <1>1, <2>1
    <2> QED BY <1>1, <2>1, <2>2, <2>3, PrivateExecutes
<1>5. CASE Compute(k)
    <2> DEFINE c == Head(inbox[k])
    <2>1. /\ inbox[k] # <<>> /\ c.call = "collective" /\ Served(k)
          /\ UNCHANGED <<life, got, slotOf, inputs, stage, raised>>
          /\ finished' = [finished EXCEPT ![k] = @ \cup {c.by}]
          /\ \/ saved' = saved
             \/ \E w : k = Lead /\ saved' = [saved EXCEPT ![c.by] = {w}]
        BY <1>5, Zenon DEF Compute, Serves, backendVars
    <2>2. \E x : Holding(k, Head(inbox[k]).slot, x)
        BY <1>5, Zenon DEF Compute
    <2>3. /\ DOMAIN finished' = Actors
          /\ finished'[Lead] = IF k = Lead THEN finished[Lead] \cup {c.by} ELSE finished[Lead]
        BY <1>1, <2>1
    <2>4. /\ DOMAIN saved' = Operations
          /\ \A o \in Operations : saved[o] \subseteq saved'[o]
          /\ \A o \in Operations : saved'[o] # {} => o \in finished'[Lead]
        <3>1. CASE saved' = saved
            BY <1>1, <2>3, <3>1
        <3>2. CASE \E w : k = Lead /\ saved' = [saved EXCEPT ![c.by] = {w}]
            <4>1. Operation(1) /\ c = inbox[Lead][1]
                BY <1>1, <2>1, <3>2, ServedFirst DEF Operation
            <4>2. c.by \in Operations /\ c.by \notin finished[Lead]
                BY <4>1 DEF PrivateInv, OperationCalls, Submitted
            <4>3. saved[c.by] = {}
                BY <1>1, <4>2
            <4> QED BY <1>1, <2>3, <3>2, <4>2, <4>3
        <3> QED BY <2>1, <3>1, <3>2
    <2> QED BY <2>1, <2>2, <2>3, <2>4, PrivateExecutes
<1>6. CASE Raise(k)
    <2> DEFINE c == Head(inbox[k])
               s == IF c.call = "allocate" THEN Min(Free) ELSE c.slot
    <2>1. /\ inbox[k] # <<>> /\ Served(k)
          /\ UNCHANGED <<slotOf, finished, saved, stage, inputs>>
          /\ c.call = "allocate" => Free # {}
          /\ raised \subseteq raised' /\ c.by \in raised'
          /\ \E x : Holding(k, s, x)
          /\ IF c.call = "allocate"
             THEN MovesTo(c.by, "allocated") /\ got' = [got EXCEPT ![c.by] = s]
             ELSE UNCHANGED <<life, got>>
        <3>1. \E x : Holding(k, s, x)
            BY <1>6, Zenon DEF Raise
        <3> QED BY <1>6, <3>1 DEF Raise
    <2>2. CASE c.call = "allocate"
        <3>1. k = Lead
            BY <1>1, <2>1, <2>2, ServedFirst DEF SlotCalls
        <3>2. \E x : Holding(Lead, Min(Free), x)
            BY <2>1, <2>2, <3>1
        <3>3. \E x : /\ Free # {}
                     /\ got' = [got EXCEPT ![Head(inbox[Lead]).by] = Min(Free)]
                     /\ Holding(Lead, Min(Free), x)
                     /\ x = Fresh \/ Head(inbox[Lead]).by \in raised'
            BY <2>1, <2>2, <3>1, <3>2
        <3> QED BY <2>1, <2>2, <3>1, <3>3, PrivateAllocate
    <2>3. CASE c.call # "allocate"
        <3>1. \E x : Holding(k, Head(inbox[k]).slot, x)
            BY <2>1, <2>3
        <3> QED BY <1>1, <2>1, <2>3, <3>1, PrivateExecutes
    <2> QED BY <2>2, <2>3
<1> QED BY <1>2, <1>3, <1>4, <1>5, <1>6 DEF ActorStep

LEMMA PrivateInvNext == SlotInv /\ UseInv /\ PrivateInv /\ [Next]_vars => PrivateInv'
<1> SUFFICES ASSUME SlotInv, UseInv, PrivateInv, [Next]_vars PROVE PrivateInv'
    OBVIOUS
<1>1. CASE UNCHANGED vars
    <2>1. UNCHANGED <<slotOf, inbox, target, finished, saved, stage, kind, content, got, life, raised,
                      capacity>>
        BY <1>1 DEF vars, backendVars, actorVars, inputs
    <2> QED BY <2>1 DEF PrivateInv, OperationCalls, Operation, OwnSlot, Submitted, Contents, Past
<1>2. CASE \E r \in Runs : CreateBegin(r) \/ RemoveBegin(r) \/ AdapterStep(r)
    BY <1>2, PrivateQuiet, PrivateCalls DEF AdapterStep
<1>3. CASE \E o \in Operations : OpBegin(o) \/ OpEnds(o)
    BY <1>3, PrivateOperations
<1>4. CASE \E k \in Actors : ActorStep(k) \/ Raise(k)
    BY <1>4, PrivateActors
<1> QED BY <1>1, <1>2, <1>3, <1>4 DEF Next

-----------------------------------------------------------------------------
(* The refinement: every step is one of PrivateAdapters or none.           *)

Age ==
    [r \in Runs |->
        IF HeldSlot(r) # 0 THEN "alive"
        ELSE IF life[r] \in {"releasing", "gone"} THEN "dead" ELSE "unborn"]
Adapter == [r \in Runs |-> IF HeldSlot(r) # 0 THEN content[Lead][HeldSlot(r)] ELSE Fresh]

(* HeldSlot looks for the first release, which is the only one.            *)
LEMMA HeldIsHas ==
    SlotInv => \A r \in Runs : \A s : Has(r, s) <=> s # 0 /\ HeldSlot(r) = s
<1> SUFFICES ASSUME SlotInv, NEW r \in Runs, NEW s
             PROVE  Has(r, s) <=> s # 0 /\ HeldSlot(r) = s
    OBVIOUS
<1> DEFINE releases == {p \in DOMAIN inbox[Lead] :
                           inbox[Lead][p].call = "release" /\ inbox[Lead][p].by = r}
<1>1. releases \in SUBSET Nat
    BY LeadIsActor DEF SlotInv, Shape, IsSeq
<1>2. CASE slotOf[r] # 0
    <2>1. releases = {}
        BY <1>2 DEF SlotInv, SlotCalls, Progress
    <2> QED BY <1>2, <2>1 DEF HeldSlot, Has
<1>3. CASE slotOf[r] = 0 /\ releases = {}
    BY <1>3 DEF HeldSlot, Has
<1>4. CASE slotOf[r] = 0 /\ releases # {}
    <2>1. Min(releases) \in releases
        BY <1>1, <1>4, LeastOf
    <2>2. \A p \in releases : p = Min(releases)
        BY <2>1 DEF SlotInv, SlotCalls
    <2>3. HeldSlot(r) = inbox[Lead][Min(releases)].slot
        BY <1>4 DEF HeldSlot
    <2> HIDE DEF releases
    <2>4. Has(r, s) <=> s # 0 /\ \E p \in releases : inbox[Lead][p].slot = s
        BY <1>4 DEF Has, releases
    <2> QED BY <2>1, <2>2, <2>3, <2>4
<1> QED BY <1>2, <1>3, <1>4

LEMMA HeldIsHasNext ==
    SlotInv' => \A r \in Runs : \A s : Has(r, s)' <=> s # 0 /\ HeldSlot(r)' = s
<1> DEFINE Held == \A r \in Runs : \A s : Has(r, s) <=> s # 0 /\ HeldSlot(r) = s
<1>1. SlotInv => Held
    BY HeldIsHas
<1> HIDE DEF Held
<1>2. SlotInv' => Held'
    BY <1>1, PTL
<1> QED BY <1>2 DEF Held

LEMMA HasIsOwn ==
    ASSUME SlotInv, UseInv, PrivateInv, NEW r \in Runs, NEW s, Has(r, s)
    PROVE  /\ s \in Slots /\ s # 0 /\ Claims(r, s) /\ life[r] \notin {"allocated", "reserving"}
           /\ \A q \in Runs : q # r => ~ Has(q, s)
<1>1. Claims(r, s) /\ s # 0 /\ \A q \in Runs : Has(q, s) => Claims(q, s)
    BY DEF Has, Claims
<1>2. s = got[r] /\ life[r] \notin {"allocated", "reserving"}
    BY DEF Has, UseInv, Lent, LeadCalls, SlotInv, Progress, SlotCalls
<1> QED BY <1>1, <1>2 DEF PrivateInv, Contents, SlotInv, ClaimsExclude

(* Runs whose adapters a step leaves alone.                                *)
LEMMA AdapterKept ==
    ASSUME SlotInv, SlotInv', UseInv, PrivateInv, NEW r \in Runs, \A s : Has(r, s)' <=> Has(r, s),
           HeldSlot(r) # 0 => content'[Lead][HeldSlot(r)] = content[Lead][HeldSlot(r)],
           HeldSlot(r) = 0 =>
               (life'[r] \in {"releasing", "gone"} <=> life[r] \in {"releasing", "gone"})
    PROVE  Age'[r] = Age[r] /\ Adapter'[r] = Adapter[r]
<1>1. HeldSlot(r)' = HeldSlot(r)
    BY HeldIsHas, HeldIsHasNext
<1>2. /\ Age'[r] = IF HeldSlot(r)' # 0 THEN "alive"
                  ELSE IF life'[r] \in {"releasing", "gone"} THEN "dead" ELSE "unborn"
      /\ Adapter'[r] = IF HeldSlot(r)' # 0 THEN content'[Lead][HeldSlot(r)'] ELSE Fresh
    BY Zenon DEF Age, Adapter
<1>3. /\ Age[r] = IF HeldSlot(r) # 0 THEN "alive"
                 ELSE IF life[r] \in {"releasing", "gone"} THEN "dead" ELSE "unborn"
      /\ Adapter[r] = IF HeldSlot(r) # 0 THEN content[Lead][HeldSlot(r)] ELSE Fresh
    BY Zenon DEF Age, Adapter
<1> QED BY <1>1, <1>2, <1>3

LEMMA Stutters ==
    ASSUME UNCHANGED <<finished[Lead], saved, target, kind>>,
           \A r \in Runs : Age'[r] = Age[r] /\ Adapter'[r] = Adapter[r]
    PROVE  UNCHANGED Private!privateVars
<1>1. Age' = Age
    BY DEF Age
<1>2. Adapter' = Adapter
    BY DEF Adapter
<1> QED BY <1>1, <1>2 DEF Private!privateVars, Age, Adapter

(* The abstract operators are the same ones.                               *)
LEMMA SameOperators ==
    /\ Private!Fresh = Fresh /\ Private!Parts = Parts
    /\ \A x : x \in Private!WithOrWithout(x)
    /\ \A x : Private!Written(x) = Written(x)
    /\ \A k, o, x, f : Private!After(k, o, x, f) = After(k, o, x, f)
    /\ \A k \in Kinds : \A part, o, x, f : Private!Interrupted(part, k, o, x, f) = Interrupted(part, k, o, x, f)
<1>1. Private!Fresh = Fresh /\ Private!Parts = Parts
    BY Zenon DEF Fresh, Private!Fresh, Parts, Private!Parts
<1>2. \A x : Private!WithOptimizer(x) = WithOptimizer(x)
    BY Zenon DEF WithOptimizer, Private!WithOptimizer
<1>3. \A k, x : Private!Attempted(k, x) = Attempted(k, x)
    BY <1>2, Zenon DEF Attempted, Private!Attempted
<1>4. \A x : x \in Private!WithOrWithout(x)
    BY DEF Private!WithOrWithout
<1>5. \A x : Private!Written(x) = Written(x)
    BY Zenon DEF Written, Private!Written
<1>6. \A k, o, x, f : Private!After(k, o, x, f) = After(k, o, x, f)
    BY <1>2, Zenon DEF After, Private!After
<1>7. \A k \in Kinds : \A part, o, x, f : Private!Interrupted(part, k, o, x, f) = Interrupted(part, k, o, x, f)
    <2> SUFFICES ASSUME NEW k \in Kinds, NEW part, NEW o, NEW x, NEW f
                 PROVE  Private!Interrupted(part, k, o, x, f) = Interrupted(part, k, o, x, f)
        OBVIOUS
    <2>1. /\ Private!After(k, o, x, f) = After(k, o, x, f)
          /\ Private!Attempted(k, x) = Attempted(k, x)
          /\ Private!WithOptimizer(x) = WithOptimizer(x)
        BY Zenon, <1>2, <1>3, <1>6
    <2>2. CASE part = "start"
        BY Zenon, <2>1, <2>2 DEF Interrupted, Private!Interrupted
    <2>3. CASE part # "start" /\ k = "forward"
        BY Zenon, <2>1, <2>3 DEF Interrupted, Private!Interrupted
    <2>4. CASE part # "start" /\ k = "optim"
        BY Zenon, <2>1, <2>4 DEF Interrupted, Private!Interrupted
    <2>5. CASE part # "start" /\ k = "save"
        BY Zenon, <2>5 DEF Interrupted, Private!Interrupted
    <2>6. CASE part # "start" /\ k = "load"
        BY Zenon, <2>1, <2>6 DEF Interrupted, Private!Interrupted
    <2> QED BY <2>2, <2>3, <2>4, <2>5, <2>6 DEF Kinds
<1> QED BY <1>1, <1>4, <1>5, <1>6, <1>7

LEMMA InitRefines == Init => Private!Init
<1> SUFFICES ASSUME Init PROVE Private!Init
    OBVIOUS
<1>1. DOMAIN inbox[Lead] = {}
    BY EmptySeq, LeadIsActor DEF Init
<1>2. \A r \in Runs : HeldSlot(r) = 0 /\ life[r] = "new"
    BY <1>1 DEF Init, HeldSlot
<1>3. Age = [r \in Runs |-> "unborn"] /\ Adapter = [r \in Runs |-> Fresh]
    BY <1>2 DEF Age, Adapter
<1>4. /\ finished[Lead] = {} /\ saved = [o \in Operations |-> {}]
      /\ target \in [Operations -> Runs] /\ kind \in [Operations -> Kinds]
    BY LeadIsActor DEF Init
<1>5. Private!Kinds = Kinds
    BY DEF Private!Kinds, Kinds
<1> QED BY <1>3, <1>4, <1>5, SameOperators DEF Private!Init, Age, Adapter

LEMMA HasAfterCall ==
    ASSUME Shape, NEW m, NEW to, m.call # "release", inbox' = Sent(m, to) \/ UNCHANGED inbox,
           UNCHANGED slotOf, NEW r, NEW s
    PROVE  Has(r, s)' <=> Has(r, s)
<1>1. /\ \A p \in DOMAIN inbox'[Lead] :
             \/ inbox'[Lead][p].call # "release"
             \/ p \in DOMAIN inbox[Lead] /\ inbox'[Lead][p] = inbox[Lead][p]
      /\ \A p \in DOMAIN inbox[Lead] : p \in DOMAIN inbox'[Lead] /\ inbox'[Lead][p] = inbox[Lead][p]
    BY LeadIsActor, SentTo, SentKeeps
<1> QED BY <1>1 DEF Has

LEMMA HasAfterExecution ==
    ASSUME Shape, NEW k \in Actors, inbox[k] # <<>>, Served(k), UNCHANGED slotOf,
           k # Lead \/ Head(inbox[k]).call # "release", NEW r, NEW s
    PROVE  Has(r, s)' <=> Has(r, s)
<1>1. \A p \in DOMAIN inbox'[Lead] : \E o \in DOMAIN inbox[Lead] : inbox'[Lead][p] = inbox[Lead][o]
    BY LeadIsActor, ServedBy
<1>2. \A p \in DOMAIN inbox[Lead] :
          \/ inbox[Lead][p].call # "release"
          \/ \E o \in DOMAIN inbox'[Lead] : inbox'[Lead][o] = inbox[Lead][p]
    BY LeadIsActor, ServedKeeps
<1> QED BY <1>1, <1>2 DEF Has

(* create_adapter and remove_adapter, but for the end of the first.        *)
LEMMA AdapterStutters ==
    ASSUME SlotInv, SlotInv', UseInv, PrivateInv, NEW r \in Runs,
           \/ CreateBegin(r) \/ RemoveBegin(r) \/ RemoveEnds(r)
           \/ CreateAllocate(r) \/ CreateReserve(r) \/ RemoveRelease(r)
           \/ CreateEnds(r) /\ UNCHANGED slotOf
    PROVE  UNCHANGED Private!privateVars
<1> USE LeadIsActor
<1>1. UNCHANGED <<content, finished, saved, target, kind>> /\ Shape
    BY DEF SlotInv, CreateBegin, RemoveBegin, RemoveEnds, CreateAllocate, CreateReserve,
           RemoveRelease, CreateEnds, actorVars, inputs
<1>2. \A q \in Runs : q # r => life'[q] = life[q]
    BY <1>1 DEF Shape, CreateBegin, RemoveBegin, RemoveEnds, CreateAllocate, CreateReserve,
                RemoveRelease, CreateEnds, MovesTo
<1>3. CASE RemoveRelease(r)
    <2>1. PICK m : /\ inbox' = Sent(m, Actors)
                   /\ m.call = "release" /\ m.by = r /\ m.slot = slotOf[r]
        <3>1. inbox' = Sent(SlotCall("release", slotOf[r], r), Actors)
            BY <1>3 DEF RemoveRelease
        <3>2. LET m == SlotCall("release", slotOf[r], r)
              IN  m.call = "release" /\ m.by = r /\ m.slot = slotOf[r]
            BY DEF SlotCall
        <3> QED BY <3>1, <3>2
    <2>2. life[r] = "leaving" /\ slotOf[r] # 0 /\ slotOf' = [slotOf EXCEPT ![r] = 0]
        BY <1>3 DEF RemoveRelease, UseInv, Lent
    <2>3. slotOf'[r] = 0 /\ \A q \in Runs : q # r => slotOf'[q] = slotOf[q]
        BY <1>1, <2>2 DEF Shape
    <2>4. /\ \A p \in DOMAIN inbox'[Lead] :
                 \/ inbox'[Lead][p] = m
                 \/ p \in DOMAIN inbox[Lead] /\ inbox'[Lead][p] = inbox[Lead][p]
          /\ \A p \in DOMAIN inbox[Lead] : p \in DOMAIN inbox'[Lead] /\ inbox'[Lead][p] = inbox[Lead][p]
          /\ \E p \in DOMAIN inbox'[Lead] : inbox'[Lead][p] = m
        BY <1>1, <2>1, SentTo, SentKeeps
    <2>5. \A p \in DOMAIN inbox[Lead] : inbox[Lead][p].call = "release" => inbox[Lead][p].by # r
        BY <2>2 DEF SlotInv, SlotCalls
    <2>6. ASSUME NEW s PROVE Has(r, s)' <=> Has(r, s)
        BY <2>1, <2>2, <2>3, <2>4, <2>5 DEF Has
    <2>7. ASSUME NEW q \in Runs, q # r, NEW s PROVE Has(q, s)' <=> Has(q, s)
        BY <2>1, <2>3, <2>4, <2>7 DEF Has
    <2>8. HeldSlot(r) # 0
        BY <2>2 DEF HeldSlot
    <2>9. ASSUME NEW q \in Runs PROVE Age'[q] = Age[q] /\ Adapter'[q] = Adapter[q]
        <3>1. \A s : Has(q, s)' <=> Has(q, s)
            BY <2>6, <2>7
        <3> QED BY <1>1, <1>2, <2>8, <3>1, AdapterKept
    <2> QED BY <1>1, <2>9, Stutters
<1>4. CASE ~ RemoveRelease(r)
    <2>1. UNCHANGED slotOf
        BY <1>4 DEF CreateBegin, RemoveBegin, RemoveEnds, CreateAllocate, CreateReserve
    <2>2. PICK m, to : m.call # "release" /\ (inbox' = Sent(m, to) \/ UNCHANGED inbox)
        <3>1. CASE CreateAllocate(r)
            <4>1. inbox' = Sent(SlotCall("allocate", 0, r), {Lead})
                BY <3>1 DEF CreateAllocate
            <4>2. SlotCall("allocate", 0, r).call # "release"
                BY DEF SlotCall
            <4> QED BY <4>1, <4>2
        <3>2. CASE CreateReserve(r)
            <4>1. inbox' = Sent(SlotCall("reserve", got[r], r), Actors \ {Lead}) \/ UNCHANGED inbox
                BY <3>2 DEF CreateReserve
            <4>2. SlotCall("reserve", got[r], r).call # "release"
                BY DEF SlotCall
            <4> QED BY <4>1, <4>2
        <3>3. CASE UNCHANGED inbox
            <4>1. [call |-> "none"].call # "release"
                OBVIOUS
            <4> QED BY <3>3, <4>1
        <3> QED BY <1>4, <3>1, <3>2, <3>3 DEF CreateBegin, RemoveBegin, RemoveEnds, CreateEnds
    <2>3. life'[r] \in {"releasing", "gone"} <=> life[r] \in {"releasing", "gone"}
        BY <1>1, <1>4 DEF Shape, CreateBegin, RemoveBegin, RemoveEnds, CreateAllocate, CreateReserve,
                CreateEnds, MovesTo
    <2>4. ASSUME NEW q \in Runs PROVE Age'[q] = Age[q] /\ Adapter'[q] = Adapter[q]
        <3>1. \A s : Has(q, s)' <=> Has(q, s)
            BY <1>1, <2>1, <2>2, HasAfterCall
        <3> QED BY <1>1, <1>2, <2>3, <3>1, AdapterKept
    <2> QED BY <1>1, <2>4, Stutters
<1> QED BY <1>3, <1>4

(* The end of create_adapter: the slot has what no run has used.           *)
LEMMA CreateRefines ==
    ASSUME SlotInv, SlotInv', UseInv, PrivateInv, NEW r \in Runs, CreateEnds(r), ~ UNCHANGED slotOf
    PROVE  Private!Next
<1> USE LeadIsActor
<1>1. /\ UNCHANGED <<content, inbox, finished, saved, target, kind>>
      /\ life[r] = "reserving" /\ r \notin raised
      /\ life' = [life EXCEPT ![r] = "live"] /\ slotOf' = [slotOf EXCEPT ![r] = got[r]]
    BY DEF CreateEnds, MovesTo, actorVars, inputs
<1>2. /\ DOMAIN slotOf = Runs /\ DOMAIN life = Runs
      /\ slotOf[r] = 0 /\ got[r] # 0 /\ content[Lead][got[r]] = Fresh
    BY <1>1 DEF SlotInv, Shape, Progress, UseInv, Lent, PrivateInv, Contents
<1>3. \A s : ~ Has(r, s)
    BY <1>1, <1>2, HasIsOwn
<1>4. HeldSlot(r) = 0
    BY <1>3, HeldIsHas
<1>5. slotOf'[r] = got[r] /\ life'[r] = "live"
    BY <1>1, <1>2
<1>6. HeldSlot(r)' = got[r]
    BY <1>2, <1>5 DEF HeldSlot
<1>7. ASSUME NEW q \in Runs, q # r PROVE Age'[q] = Age[q] /\ Adapter'[q] = Adapter[q]
    <2>1. life'[q] = life[q] /\ \A s : Has(q, s)' <=> Has(q, s)
        BY <1>1, <1>2, <1>7 DEF Has
    <2> QED BY <1>1, <2>1, AdapterKept
<1>8. Age[r] = "unborn" /\ Age'[r] = "alive" /\ Adapter'[r] = Fresh
    <2>1. Age[r] = "unborn"
        BY <1>1, <1>4 DEF Age
    <2>2. /\ Age'[r] = IF HeldSlot(r)' # 0 THEN "alive"
                       ELSE IF life'[r] \in {"releasing", "gone"} THEN "dead" ELSE "unborn"
          /\ Adapter'[r] = IF HeldSlot(r)' # 0 THEN content'[Lead][HeldSlot(r)'] ELSE Fresh
        BY Zenon DEF Age, Adapter
    <2> QED BY <1>1, <1>2, <1>6, <2>1, <2>2
<1>9. Age' = [Age EXCEPT ![r] = "alive"] /\ Adapter' = [Adapter EXCEPT ![r] = Fresh]
    BY <1>7, <1>8 DEF Age, Adapter
<1>10. Private!Create(r)
    BY <1>1, <1>8, <1>9, SameOperators DEF Private!Create, Age, Adapter
<1> QED BY <1>10 DEF Private!Next

LEMMA OperationStutters ==
    ASSUME SlotInv, SlotInv', UseInv, PrivateInv, NEW o \in Operations, OpBegin(o) \/ OpEnds(o)
    PROVE  UNCHANGED Private!privateVars
<1>1. UNCHANGED <<life, slotOf, content, finished, saved, target, kind>> /\ Shape
    BY DEF SlotInv, OpBegin, OpEnds, backendVars, actorVars, inputs
<1>2. PICK m, to : m.call # "release" /\ (inbox' = Sent(m, to) \/ UNCHANGED inbox)
    <2>1. UNCHANGED inbox \/ \E m : m.call = "collective" /\ inbox' = Sent(m, Actors)
        BY DEF OpBegin, OpEnds, Submit
    <2>2. [call |-> "none"].call # "release"
        OBVIOUS
    <2> QED BY <2>1, <2>2
<1>3. ASSUME NEW q \in Runs PROVE Age'[q] = Age[q] /\ Adapter'[q] = Adapter[q]
    <2>1. \A s : Has(q, s)' <=> Has(q, s)
        BY <1>1, <1>2, HasAfterCall
    <2> QED BY <1>1, <2>1, AdapterKept
<1> QED BY <1>1, <1>3, Stutters

(* What the other actors do is not seen.                                   *)
LEMMA OtherActorStutters ==
    ASSUME SlotInv, SlotInv', UseInv, PrivateInv, NEW k \in Actors, k # Lead, inbox[k] # <<>>,
           Served(k), UNCHANGED <<life, slotOf, saved, inputs, finished[Lead]>>,
           \E s, x : Holding(k, s, x)
    PROVE  UNCHANGED Private!privateVars
<1> USE LeadIsActor DEF inputs
<1>1. content'[Lead] = content[Lead]
    BY DEF Holding, PrivateInv, Contents
<1>2. ASSUME NEW q \in Runs PROVE Age'[q] = Age[q] /\ Adapter'[q] = Adapter[q]
    <2>1. \A s : Has(q, s)' <=> Has(q, s)
        BY HasAfterExecution DEF SlotInv
    <2> QED BY <1>1, <2>1, AdapterKept
<1> QED BY <1>2, Stutters

(* A slot that is lent was nobody's.                                       *)
LEMMA AllocateStutters ==
    ASSUME SlotInv, SlotInv', UseInv, PrivateInv, inbox[Lead] # <<>>,
           Head(inbox[Lead]).call = "allocate", Served(Lead),
           MovesTo(Head(inbox[Lead]).by, "allocated"),
           UNCHANGED <<slotOf, finished, saved, inputs>>,
           UNCHANGED content \/ \E x : Free # {} /\ Holding(Lead, Min(Free), x)
    PROVE  UNCHANGED Private!privateVars
<1> USE LeadIsActor DEF inputs
<1> DEFINE r == Head(inbox[Lead]).by
<1>1. Shape /\ SlotCalls /\ Contents
    BY DEF SlotInv, PrivateInv
<1>2. r \in Runs /\ life[r] = "allocating"
    BY <1>1, ServedFirst DEF SlotCalls
<1>3. life'[r] = "allocated" /\ \A q \in Runs : q # r => life'[q] = life[q]
    BY <1>1, <1>2 DEF MovesTo, Shape
<1>4. ASSUME NEW q \in Runs, HeldSlot(q) # 0
      PROVE  content'[Lead][HeldSlot(q)] = content[Lead][HeldSlot(q)]
    <2>1. PICK h : h = HeldSlot(q)
        OBVIOUS
    <2>2. Has(q, h)
        BY <1>4, <2>1, HeldIsHas
    <2>3. h \in Slots /\ h \in allocated[Lead]
        BY <2>2, HasIsOwn DEF SlotInv, ClaimsExclude
    <2>4. CASE \E x : Free # {} /\ Holding(Lead, Min(Free), x)
        <3>1. PICK s, x : s = Min(Free) /\ Free # {} /\ Holding(Lead, s, x)
            BY <2>4
        <3>2. s # h
            BY <2>3, <3>1, FreeSlot
        <3> QED BY <1>1, <2>1, <2>3, <3>1, <3>2, HoldingOnly
    <2> QED BY <2>4
<1>5. ASSUME NEW q \in Runs PROVE Age'[q] = Age[q] /\ Adapter'[q] = Adapter[q]
    <2>1. \A s : Has(q, s)' <=> Has(q, s)
        BY <1>1, HasAfterExecution
    <2> QED BY <1>2, <1>3, <1>4, <2>1, AdapterKept
<1> QED BY <1>5, Stutters

(* The lead gives a slot back, or raises.                                  *)
LEMMA RemoveRefines ==
    ASSUME SlotInv, SlotInv', UseInv, PrivateInv, inbox[Lead] # <<>>,
           Head(inbox[Lead]).call = "release", Served(Lead),
           UNCHANGED <<life, slotOf, finished, saved, inputs>>,
           \E x : Holding(Lead, Head(inbox[Lead]).slot, x)
    PROVE  Private!Next
<1> USE LeadIsActor DEF inputs
<1>1. Shape /\ SlotCalls /\ Contents /\ LeadCalls
    BY DEF SlotInv, UseInv, PrivateInv
<1>2. 1 \in DOMAIN inbox[Lead] /\ Head(inbox[Lead]) = inbox[Lead][1]
    BY <1>1, ServedFirst
<1>3. PICK r, s, x : r = inbox[Lead][1].by /\ s = inbox[Lead][1].slot /\ Holding(Lead, s, x)
    BY <1>2
<1>4. r \in Runs /\ life[r] \in {"releasing", "gone"} /\ s # 0 /\ Has(r, s)
    BY <1>1, <1>2, <1>3 DEF SlotCalls, LeadCalls, Has
<1>5. HeldSlot(r) = s /\ s \in Slots /\ \A q \in Runs : q # r => ~ Has(q, s)
    BY <1>4, HeldIsHas, HasIsOwn
<1>6. \A p \in DOMAIN inbox'[Lead] :
          /\ p + 1 \in DOMAIN inbox[Lead] /\ p + 1 # 1
          /\ inbox'[Lead][p] = inbox[Lead][p + 1]
    BY <1>1, ServedBy
<1>7. \A t : ~ Has(r, t)'
    <2>1. slotOf[r] = 0
        BY <1>4 DEF SlotInv, Progress
    <2>2. \A p \in DOMAIN inbox'[Lead] : inbox'[Lead][p].call = "release" => inbox'[Lead][p].by # r
        BY <1>1, <1>2, <1>3, <1>6 DEF SlotCalls
    <2> QED BY <2>1, <2>2 DEF Has
<1>8. HeldSlot(r)' = 0
    BY <1>4, <1>7, HeldIsHasNext
<1>9. ASSUME NEW q \in Runs, q # r PROVE Age'[q] = Age[q] /\ Adapter'[q] = Adapter[q]
    <2>1. \A p \in DOMAIN inbox[Lead] :
              \/ inbox[Lead][p] = inbox[Lead][1]
              \/ \E o \in DOMAIN inbox'[Lead] : inbox'[Lead][o] = inbox[Lead][p]
        BY <1>1, <1>2, ServedKeeps
    <2>2. \A t : Has(q, t)' <=> Has(q, t)
        BY <1>3, <1>6, <1>9, <2>1 DEF Has
    <2>3. ASSUME HeldSlot(q) # 0
          PROVE  content'[Lead][HeldSlot(q)] = content[Lead][HeldSlot(q)]
        <3>1. PICK h : h = HeldSlot(q)
            OBVIOUS
        <3>2. Has(q, h)
            BY <2>3, <3>1, HeldIsHas
        <3>3. h \in Slots /\ h # s
            BY <1>5, <1>9, <3>2, HasIsOwn
        <3> QED BY <1>1, <1>3, <3>1, <3>3, HoldingOnly
    <2> QED BY <2>2, <2>3, AdapterKept
<1>10. Age[r] = "alive" /\ Age'[r] = "dead" /\ Adapter'[r] = Fresh
    <2>1. Age[r] = "alive"
        BY <1>4, <1>5 DEF Age
    <2>2. /\ Age'[r] = IF HeldSlot(r)' # 0 THEN "alive"
                       ELSE IF life'[r] \in {"releasing", "gone"} THEN "dead" ELSE "unborn"
          /\ Adapter'[r] = IF HeldSlot(r)' # 0 THEN content'[Lead][HeldSlot(r)'] ELSE Fresh
        BY <1>4, Zenon DEF Age, Adapter
    <2> QED BY <1>4, <1>8, <2>1, <2>2
<1>11. Age' = [Age EXCEPT ![r] = "dead"] /\ Adapter' = [Adapter EXCEPT ![r] = Fresh]
    <2>1. Age' = [Age EXCEPT ![r] = "dead"]
        BY <1>4, <1>9, <1>10, Zenon DEF Age
    <2>2. Adapter' = [Adapter EXCEPT ![r] = Fresh]
        BY <1>4, <1>9, <1>10, Zenon DEF Adapter
    <2> QED BY <2>1, <2>2
<1>12. Private!Remove(r)
    BY <1>4, <1>10, <1>11, SameOperators DEF Private!Remove, Age, Adapter
<1> QED BY <1>4, <1>12 DEF Private!Next

(* The lead works on the adapter of the run whose operation it executes.   *)
LEMMA LeadOperates ==
    ASSUME SlotInv, SlotInv', UseInv, PrivateInv, inbox[Lead] # <<>>,
           Head(inbox[Lead]).call = "collective", Served(Lead), UNCHANGED <<life, slotOf>>,
           NEW o, NEW r, NEW s, NEW y, o = Head(inbox[Lead]).by, r = target[o],
           s = Head(inbox[Lead]).slot, Holding(Lead, s, y)
    PROVE  /\ Submitted(Head(inbox[Lead])) /\ o \in Operations /\ r \in Runs
           /\ Age[r] = "alive" /\ Adapter[r] = content[Lead][s]
           /\ Age' = Age /\ Adapter' = [Adapter EXCEPT ![r] = y]
<1> USE LeadIsActor
<1>1. Shape /\ Contents
    BY DEF SlotInv, PrivateInv
<1>2. Head(inbox[Lead]) = inbox[Lead][1] /\ Operation(1)
    BY <1>1, ServedFirst DEF Operation
<1>3. Submitted(Head(inbox[Lead])) /\ o \in Operations /\ r \in Runs /\ Has(r, s)
    BY <1>2, OperationSlot DEF PrivateInv, OperationCalls, Submitted
<1>4. HeldSlot(r) = s /\ s # 0 /\ s \in Slots /\ \A q \in Runs : q # r => ~ Has(q, s)
    BY <1>3, HeldIsHas, HasIsOwn
<1>5. ASSUME NEW q \in Runs PROVE \A t : Has(q, t)' <=> Has(q, t)
    BY <1>1, HasAfterExecution
<1>6. HeldSlot(r)' = s
    BY <1>3, <1>4, <1>5, HeldIsHasNext
<1>7. content'[Lead][s] = y
    BY <1>1, <1>4, HoldingOnly
<1>8. ASSUME NEW q \in Runs, q # r PROVE Age'[q] = Age[q] /\ Adapter'[q] = Adapter[q]
    <2>1. ASSUME HeldSlot(q) # 0
          PROVE  content'[Lead][HeldSlot(q)] = content[Lead][HeldSlot(q)]
        <3>1. PICK h : h = HeldSlot(q)
            OBVIOUS
        <3>2. Has(q, h)
            BY <2>1, <3>1, HeldIsHas
        <3>3. h \in Slots /\ h # s
            BY <1>4, <1>8, <3>2, HasIsOwn
        <3> QED BY <1>1, <3>1, <3>3, HoldingOnly
    <2> QED BY <1>5, <2>1, AdapterKept
<1>9. /\ Age[r] = "alive" /\ Adapter[r] = content[Lead][s]
      /\ Age'[r] = "alive" /\ Adapter'[r] = y
    <2>1. Age[r] = "alive" /\ Adapter[r] = content[Lead][s]
        BY <1>3, <1>4 DEF Age, Adapter
    <2>2. /\ Age'[r] = IF HeldSlot(r)' # 0 THEN "alive"
                       ELSE IF life'[r] \in {"releasing", "gone"} THEN "dead" ELSE "unborn"
          /\ Adapter'[r] = IF HeldSlot(r)' # 0 THEN content'[Lead][HeldSlot(r)'] ELSE Fresh
        BY <1>3, Zenon DEF Age, Adapter
    <2> QED BY <1>4, <1>6, <1>7, <2>1, <2>2
<1>10. Age' = Age /\ Adapter' = [Adapter EXCEPT ![r] = y]
    BY <1>3, <1>8, <1>9 DEF Age, Adapter
<1> QED BY <1>3, <1>9, <1>10

(* What the lead reads is a checkpoint that the run may read.              *)
LEMMA FilesReadable ==
    ASSUME NEW c, Submitted(c), NEW file \in File(c)
    PROVE  file \in Private!Readable(c.by)
BY SameOperators DEF Submitted, File, Private!Readable

LEMMA RejectRefines ==
    ASSUME SlotInv, SlotInv', UseInv, PrivateInv, Reject(Lead)
    PROVE  Private!Next
<1> USE LeadIsActor
<1>1. PICK c, o, r, s, x, kd :
          /\ c = Head(inbox[Lead]) /\ o = c.by /\ r = target[o] /\ s = c.slot
          /\ x = content[Lead][s] /\ kd = kind[o]
    OBVIOUS
<1>2. PICK part, file :
          /\ part = c.part \/ part \in Parts
          /\ file \in File(c) /\ Holding(Lead, s, Interrupted(part, kd, o, x, file))
    <2>1. \E part \in IF ~ c.late THEN {c.part} ELSE IF kd = "optim" THEN Parts ELSE {"end"} :
              \E file \in File(c) : Holding(Lead, s, Interrupted(part, kd, o, x, file))
        BY <1>1, Zenon DEF Reject
    <2>2. PICK part : /\ part = c.part \/ part \in Parts
                      /\ \E file \in File(c) : Holding(Lead, s, Interrupted(part, kd, o, x, file))
        BY <2>1 DEF Parts
    <2> QED BY <2>2
<1>3. PICK y : y = Interrupted(part, kd, o, x, file)
    OBVIOUS
<1>4. /\ inbox[Lead] # <<>> /\ c.call = "collective" /\ Served(Lead)
      /\ UNCHANGED <<life, slotOf, saved, target, kind>>
      /\ finished' = [finished EXCEPT ![Lead] = @ \cup {o}]
    BY <1>1, Zenon DEF Reject, Serves, backendVars, inputs
<1>5. Holding(Lead, s, y)
    BY <1>2, <1>3
<1>6. /\ Submitted(c) /\ o \in Operations /\ r \in Runs
      /\ Age[r] = "alive" /\ Adapter[r] = content[Lead][s]
      /\ Age' = Age /\ Adapter' = [Adapter EXCEPT ![r] = y]
    BY <1>1, <1>4, <1>5, LeadOperates
<1>7. finished'[Lead] = finished[Lead] \cup {o} /\ o \notin finished[Lead] /\ kind[o] \in Kinds
    BY <1>1, <1>4, <1>6 DEF PrivateInv, Contents, Past, Submitted
<1>8. part \in Private!Parts /\ file \in Private!Readable(o) /\ file \in Private!WithOrWithout(file)
    BY <1>1, <1>2, <1>6, FilesReadable, SameOperators DEF Submitted
<1>9. Private!Interrupted(part, kd, o, x, file) = y
    <2>1. kd \in Kinds
        BY <1>1, <1>7
    <2>2. Private!Interrupted(part, kd, o, x, file) = Interrupted(part, kd, o, x, file)
        BY <2>1, SameOperators, Zenon
    <2> QED BY <1>3, <2>2, Zenon
<1>10. Adapter' = [Adapter EXCEPT ![target[o]] = Private!Interrupted(part, kind[o], o, @, file)]
    <2>1. Adapter[target[o]] = x /\ Adapter' = [Adapter EXCEPT ![target[o]] = y]
        BY <1>1, <1>6
    <2> QED BY <1>1, <1>9, <2>1, Zenon
<1>11. Private!Fail(o)
    <2>1. \E p \in Private!Parts, g \in Private!Readable(o) : \E f \in Private!WithOrWithout(g) :
              Adapter' = [Adapter EXCEPT ![target[o]] = Private!Interrupted(p, kind[o], o, @, f)]
        BY <1>8, <1>10, Zenon
    <2>2. /\ Age[target[o]] = "alive" /\ o \notin finished[Lead] /\ finished'[Lead] = finished[Lead] \cup {o}
          /\ Age' = Age /\ UNCHANGED <<saved, target, kind>>
        BY <1>1, <1>4, <1>6, <1>7
    <2> QED BY <2>1, <2>2, Zenon DEF Private!Fail, Age, Adapter
<1> QED BY <1>6, <1>11 DEF Private!Next

LEMMA ComputeRefines ==
    ASSUME SlotInv, SlotInv', UseInv, PrivateInv, Compute(Lead)
    PROVE  Private!Next
<1> USE LeadIsActor
<1> DEFINE c == Head(inbox[Lead])
<1>1. PICK o, r, s, x :
          o = c.by /\ r = target[o] /\ s = c.slot /\ x = content[Lead][s]
    OBVIOUS
<1>2. PICK file \in File(c) :
          Holding(Lead, s, After(kind[o], o, x, file))
    BY <1>1, Zenon DEF Compute
<1>3. PICK y : y = After(kind[o], o, x, file)
    OBVIOUS
<1>4. /\ inbox[Lead] # <<>> /\ c.call = "collective" /\ Served(Lead)
      /\ UNCHANGED <<life, slotOf, target, kind>>
      /\ Holding(Lead, s, y)
      /\ finished' = [finished EXCEPT ![Lead] = @ \cup {o}]
      /\ saved' = IF kind[o] = "save" THEN [saved EXCEPT ![o] = {Written(x)}] ELSE saved
    BY <1>1, <1>2, <1>3 DEF Compute, Serves, backendVars, inputs
<1>5. /\ Submitted(c) /\ o \in Operations /\ r \in Runs
      /\ Age[r] = "alive" /\ Adapter[r] = x
      /\ Age' = Age /\ Adapter' = [Adapter EXCEPT ![r] = y]
    BY <1>1, <1>4, LeadOperates
<1>6. finished'[Lead] = finished[Lead] \cup {o} /\ o \notin finished[Lead]
    BY <1>1, <1>4, <1>5 DEF PrivateInv, Contents, Submitted
<1>7. file \in Private!Readable(o)
    BY <1>1, <1>2, <1>5, FilesReadable
<1>8. y \in Private!Outcomes(o, Adapter[r], file)
    <2>1. y = Private!After(kind[o], o, x, file)
        BY <1>3, SameOperators
    <2> QED BY <1>5, <2>1 DEF Private!Outcomes
<1>9. \/ kind[o] # "save" /\ UNCHANGED saved
      \/ /\ kind[o] = "save"
         /\ \E z \in Private!WithOrWithout(Adapter[r]) : saved' = [saved EXCEPT ![o] = {Private!Written(z)}]
    <2>1. Written(x) = Private!Written(x) /\ x \in Private!WithOrWithout(Adapter[r])
        BY <1>5, SameOperators
    <2> QED BY <1>4, <2>1
<1>10. Private!Perform(o)
    <2>1. \E f \in Private!Readable(o) :
              \E z \in Private!Outcomes(o, Adapter[target[o]], f) :
                  Adapter' = [Adapter EXCEPT ![target[o]] = z]
        BY <1>1, <1>5, <1>7, <1>8, Zenon
    <2>2. /\ Age[target[o]] = "alive" /\ o \notin finished[Lead] /\ finished'[Lead] = finished[Lead] \cup {o}
          /\ Age' = Age /\ UNCHANGED <<target, kind>>
          /\ \/ kind[o] # "save" /\ UNCHANGED saved
             \/ /\ kind[o] = "save"
                /\ \E z \in Private!WithOrWithout(Adapter[target[o]]) :
                       saved' = [saved EXCEPT ![o] = {Private!Written(z)}]
        BY <1>1, <1>4, <1>5, <1>6, <1>9
    <2> QED BY <2>1, <2>2, Zenon DEF Private!Perform, Age, Adapter
<1> QED BY <1>5, <1>10 DEF Private!Next

LEMMA ActorRefines ==
    ASSUME SlotInv, SlotInv', UseInv, PrivateInv, NEW k \in Actors, ActorStep(k) \/ Raise(k)
    PROVE  Private!Next \/ UNCHANGED Private!privateVars
<1> USE LeadIsActor
<1>1. /\ Shape /\ SlotCalls /\ Contents /\ LeadCalls
      /\ inbox[Lead] # <<>> => Head(inbox[Lead]).call \in {"allocate", "release", "collective"}
    BY Tailed DEF SlotInv, Shape, UseInv, PrivateInv, LeadCalls
<1>2. CASE k = Lead /\ Allocate
    <2>1. /\ inbox[Lead] # <<>> /\ Head(inbox[Lead]).call = "allocate" /\ Served(Lead)
          /\ MovesTo(Head(inbox[Lead]).by, "allocated")
          /\ UNCHANGED <<slotOf, finished, saved, inputs>>
        BY <1>2 DEF Allocate, Serves
    <2>2. UNCHANGED content \/ \E x : Free # {} /\ Holding(Lead, Min(Free), x)
        BY <1>2, Zenon DEF Allocate
    <2> QED BY <2>1, <2>2, AllocateStutters
<1>3. CASE Reserve(k) \/ Release(k)
    <2>1. /\ inbox[k] # <<>> /\ Served(k)
          /\ UNCHANGED <<life, slotOf, inputs, finished, saved>>
          /\ Head(inbox[k]).call \in {"reserve", "release"}
        BY <1>3 DEF Reserve, Release, Serves, backendVars
    <2>2. \E x : Holding(k, Head(inbox[k]).slot, x)
        BY <1>3, Zenon DEF Reserve, Release
    <2>3. CASE k = Lead
        BY <1>1, <2>1, <2>2, <2>3, RemoveRefines
    <2>4. CASE k # Lead
        BY <2>1, <2>2, <2>4, OtherActorStutters
    <2> QED BY <2>3, <2>4
<1>4. CASE Reject(k)
    <2>1. CASE k = Lead
        BY <1>4, <2>1, RejectRefines
    <2>2. CASE k # Lead
        <3>1. \E s, x : Holding(k, s, x)
            BY <1>4, Zenon DEF Reject
        <3>2. /\ inbox[k] # <<>> /\ Served(k) /\ UNCHANGED <<life, slotOf, saved, inputs>>
              /\ finished' = [finished EXCEPT ![k] = @ \cup {Head(inbox[k]).by}]
            BY <1>4, Zenon DEF Reject, Serves, backendVars
        <3>3. finished'[Lead] = finished[Lead]
            BY <1>1, <2>2, <3>2 DEF Contents
        <3> QED BY <2>2, <3>1, <3>2, <3>3, OtherActorStutters
    <2> QED BY <2>1, <2>2
<1>5. CASE Compute(k)
    <2>1. CASE k = Lead
        BY <1>5, <2>1, ComputeRefines
    <2>2. CASE k # Lead
        <3>1. \E s, x : Holding(k, s, x)
            BY <1>5, Zenon DEF Compute
        <3>2. /\ inbox[k] # <<>> /\ Served(k) /\ UNCHANGED <<life, slotOf, saved, inputs>>
              /\ finished'[Lead] = finished[Lead]
            BY <1>1, <1>5, <2>2 DEF Compute, Serves, backendVars, Contents
        <3> QED BY <2>2, <3>1, <3>2, OtherActorStutters
    <2> QED BY <2>1, <2>2
<1>6. CASE Raise(k)
    <2> DEFINE c == Head(inbox[k])
               s == IF c.call = "allocate" THEN Min(Free) ELSE c.slot
    <2>1. \E x : Holding(k, s, x)
        BY <1>6, Zenon DEF Raise
    <2>2. /\ inbox[k] # <<>> /\ c.call # "collective" /\ Served(k)
          /\ UNCHANGED <<slotOf, finished, saved, inputs>>
          /\ c.call = "allocate" => Free # {} /\ MovesTo(c.by, "allocated")
          /\ c.call # "allocate" => UNCHANGED life
        BY <1>6 DEF Raise
    <2>3. CASE c.call = "allocate"
        <3>1. k = Lead
            BY <1>1, <2>2, <2>3, ServedFirst DEF SlotCalls
        <3>2. \E x : Free # {} /\ Holding(Lead, Min(Free), x)
            BY <2>1, <2>2, <2>3, <3>1
        <3> QED BY <2>2, <2>3, <3>1, <3>2, AllocateStutters
    <2>4. CASE c.call # "allocate" /\ k = Lead
        <3>1. \E x : Holding(Lead, Head(inbox[Lead]).slot, x)
            BY <2>1, <2>4
        <3>2. Head(inbox[Lead]).call = "release"
            BY <1>1, <2>2, <2>4
        <3> QED BY <2>2, <2>4, <3>1, <3>2, RemoveRefines
    <2>5. CASE c.call # "allocate" /\ k # Lead
        <3>1. \E t, x : Holding(k, t, x)
            BY <2>1
        <3> QED BY <2>2, <2>5, <3>1, OtherActorStutters
    <2> QED BY <2>3, <2>4, <2>5
<1> QED BY <1>2, <1>3, <1>4, <1>5, <1>6 DEF ActorStep

LEMMA NextRefines ==
    ASSUME SlotInv, SlotInv', UseInv, PrivateInv, [Next]_vars
    PROVE  [Private!Next]_(Private!privateVars)
<1>1. CASE UNCHANGED vars
    <2>1. UNCHANGED <<life, slotOf, inbox, content, finished, saved, target, kind>>
        BY <1>1 DEF vars, backendVars, actorVars, inputs
    <2> QED BY <2>1 DEF Private!privateVars, HeldSlot
<1>2. ASSUME NEW r \in Runs, CreateBegin(r) \/ RemoveBegin(r) \/ AdapterStep(r)
      PROVE  Private!Next \/ UNCHANGED Private!privateVars
    BY <1>2, AdapterStutters, CreateRefines DEF AdapterStep
<1>3. ASSUME NEW o \in Operations, OpBegin(o) \/ OpEnds(o)
      PROVE  UNCHANGED Private!privateVars
    BY <1>3, OperationStutters
<1>4. ASSUME NEW k \in Actors, ActorStep(k) \/ Raise(k)
      PROVE  Private!Next \/ UNCHANGED Private!privateVars
    BY <1>4, ActorRefines
<1>5. CASE Next
    BY <1>2, <1>3, <1>4, <1>5 DEF Next
<1> QED BY <1>1, <1>5

(* The slots implement private adapters: what the lead has in the slot of  *)
(* a run is what the run's own operations, each at most once, made of a    *)
(* fresh adapter, for any number of actors and slots, whatever is queued   *)
(* and whichever calls raise.                                              *)
THEOREM SlotsImplementPrivateAdapters == Spec => AdaptersArePrivate
<1>1. Init => SlotInv /\ UseInv /\ PrivateInv
    BY SlotInvInit, UseInvInit, PrivateInit
<1>2. SlotInv /\ UseInv /\ PrivateInv /\ [Next]_vars => (SlotInv /\ UseInv /\ PrivateInv)'
    BY SlotInvNext, UseInvNext, PrivateInvNext
<1>3. SlotInv /\ SlotInv' /\ UseInv /\ PrivateInv /\ [Next]_vars => [Private!Next]_(Private!privateVars)
    BY NextRefines
<1> QED BY <1>1, <1>2, <1>3, InitRefines, PTL DEF Spec, AdaptersArePrivate, Private!Spec

-----------------------------------------------------------------------------
(* All actors have the same in a slot.  What an actor has not come to yet  *)
(* is in its queue: the calls about a slot there, applied to its content   *)
(* one after the other, lead to the same on every actor, whoever is ahead, *)
(* unless one of them does not end alike on all of them.                   *)

Queue(k) == {inbox[k][p] : p \in DOMAIN inbox[k]}
About(k, s) == {c \in Queue(k) : c.slot = s}
LastAbout(k, s, c) ==
    \E p \in DOMAIN inbox[k] :
        /\ inbox[k][p] = c
        /\ \A q \in DOMAIN inbox[k] : inbox[k][q].slot = s => q <= p
Collectives(k) == {c \in Queue(k) : c.call = "collective"}

CallKinds ==
    \A k \in Actors : \A c \in Queue(k) :
        \/ c.call = "collective" /\ c.by \in Operations /\ c.slot # 0
        \/ /\ c.call \in {"allocate", "reserve", "release"} /\ c.by \in Runs
           /\ c.call = "allocate" => k = Lead /\ c.slot = 0
           /\ c.call = "reserve" => k # Lead

(* An operation that raises on some actors only, or at different points,   *)
(* stays in the queues of those actors until it has torn its adapter.      *)
Uneven(c) == c.bad # {} /\ (c.late \/ c.bad # Actors)

Collected(c) ==
    /\ c.bad \subseteq Actors
    /\ \A x, y \in c.file : x = y
    /\ Uneven(c) => c.by \in torn \/ \A j \in c.bad : c \in Queue(j)

CollectiveInv ==
    /\ \A k \in Actors : \A c \in Collectives(k) : Collected(c)
    /\ \A o \in Operations : \A x, y \in saved[o] : x = y

Awaited(r, k) ==
    \/ \E c \in About(k, got[r]) :
           c.call = "reserve" /\ c.by = r /\ LastAbout(k, got[r], c)
    \/ About(k, got[r]) = {} /\ content[k][got[r]] = Fresh

(* A slot that is lent anew: nobody is asked for anything in it any more   *)
(* once it has been reserved.                                              *)
Reserving ==
    \A r \in Runs : r \notin raised =>
        /\ life[r] \in {"allocated", "reserving"} /\ got[r] # 0 => About(Lead, got[r]) = {}
        /\ life[r] = "reserving" => \A k \in Actors \ {Lead} : Awaited(r, k)

(* What an operation that ends alike on all actors makes of a shard.       *)
Result(c, y) ==
    LET file == CHOOSE f : f \in File(c)
    IN  IF c.bad = {} THEN After(kind[c.by], c.by, y, file)
        ELSE Interrupted(c.part, kind[c.by], c.by, y, file)

(* What is in a slot before and after each of n calls, of which those that *)
(* are not about it change nothing.                                        *)
Path(q, s, n, u) ==
    /\ \A p \in 1..n : q[p].slot = s => u[p] = Result(q[p], u[p - 1])
    /\ \A a, b \in 0..n : a <= b /\ (\A p \in (a + 1)..b : q[p].slot # s) => u[a] = u[b]

(* What an actor will have in a slot when its queue is empty.              *)
Leading(k, s, x) ==
    \E n \in Nat : \E u :
        /\ DOMAIN inbox[k] = 1..n /\ u[0] = content[k][s] /\ u[n] = x
        /\ Path(inbox[k], s, n, u)

OwnCalls(r, s) ==
    \A k \in Actors : \A c \in About(k, s) : c.call = "collective" /\ target[c.by] = r

Torn(r) == \E o \in torn : target[o] = r
Tearing(s) == \E k \in Actors : \E c \in About(k, s) : Uneven(c)
Agreeing(s) == \E x : \A k \in Actors : Leading(k, s, x)
Settled(r, s) == OwnCalls(r, s) /\ (Torn(r) \/ Tearing(s) \/ Agreeing(s))
Settling == \A r \in Runs : \A s \in Slots : slotOf[r] = s => Settled(r, s)

AgreeInv == CallKinds /\ CollectiveInv /\ Reserving /\ Settling

LEMMA ZeroIsNoSlot == 0 \notin Slots
BY CapacitiesAssumption DEF Slots

(* The slot of a run is the one it was lent.                               *)
LEMMA SlotsAreSlots ==
    ASSUME SlotInv, UseInv, PrivateInv, NEW r \in Runs, slotOf[r] # 0
    PROVE  slotOf[r] \in Slots /\ slotOf[r] = got[r] /\ life[r] \in {"live", "leaving"}
BY DEF SlotInv, Progress, UseInv, Lent, PrivateInv, Contents

-----------------------------------------------------------------------------
(* Where the calls that are left lead to                                   *)

LEMMA SameEnd ==
    ASSUME NEW n \in Nat, NEW m \in Nat, 1..n = 1..m
    PROVE  n = m
<1>1. n < m => m \in 1..m /\ m \notin 1..n
    OBVIOUS
<1>2. m < n => n \in 1..n /\ n \notin 1..m
    OBVIOUS
<1> QED BY <1>1, <1>2

LEMMA PathExtended ==
    ASSUME NEW n \in Nat, NEW q, NEW r, \A p \in 1..n : r[p] = q[p],
           NEW s, NEW u, Path(q, s, n, u),
           NEW v, \A p \in 0..n : v[p] = u[p],
           v[n + 1] = IF r[n + 1].slot = s THEN Result(r[n + 1], u[n]) ELSE u[n]
    PROVE  Path(r, s, n + 1, v)
<1>1. ASSUME NEW p \in 1..(n + 1), r[p].slot = s PROVE v[p] = Result(r[p], v[p - 1])
    <2>1. CASE p = n + 1
        <3>1. p - 1 = n /\ v[n] = u[n]
            BY <2>1
        <3> QED BY <1>1, <2>1, <3>1
    <2>2. CASE p # n + 1
        <3>1. p \in 1..n /\ p - 1 \in 0..n /\ p \in 0..n
            BY <2>2
        <3>2. v[p] = u[p] /\ v[p - 1] = u[p - 1] /\ r[p] = q[p]
            BY <3>1
        <3> QED BY <1>1, <3>1, <3>2 DEF Path
    <2> QED BY <2>1, <2>2
<1>2. ASSUME NEW a \in 0..(n + 1), NEW b \in 0..(n + 1), a <= b,
             \A p \in (a + 1)..b : r[p].slot # s
      PROVE  v[a] = v[b]
    <2>1. ASSUME NEW d \in 0..n, a <= d, d <= b PROVE v[a] = v[d]
        <3>1. a \in 0..n /\ \A p \in (a + 1)..d : p \in 1..n /\ p \in (a + 1)..b
            BY <2>1
        <3>2. \A p \in (a + 1)..d : q[p].slot # s
            BY <1>2, <3>1
        <3>3. u[a] = u[d]
            BY <2>1, <3>1, <3>2 DEF Path
        <3> QED BY <3>1, <3>3
    <2>2. CASE b = n + 1 /\ a # b
        <3>1. a \in 0..n /\ n \in 0..n /\ a <= n /\ n + 1 \in (a + 1)..b
            BY <1>2, <2>2
        <3>2. v[n + 1] = u[n]
            BY <1>2, <3>1
        <3>3. v[a] = v[n] /\ v[n] = u[n]
            BY <2>1, <2>2, <3>1
        <3> QED BY <2>2, <3>2, <3>3
    <2>3. CASE b # n + 1
        <3>1. b \in 0..n
            BY <2>3
        <3> QED BY <1>2, <2>1, <3>1
    <2> QED BY <2>2, <2>3
<1> QED BY <1>1, <1>2 DEF Path

Shifted(f, g, first, last) == \A p \in first..last : g[p] = f[p + 1]

LEMMA PathShifted ==
    ASSUME NEW n \in Nat, NEW q, NEW r, Shifted(q, r, 1, n),
           NEW s, NEW u, NEW v, Shifted(u, v, 0, n), NEW m, m = n + 1, Path(q, s, m, u)
    PROVE  /\ Path(r, s, n, v)
           /\ u[1] = IF q[1].slot = s THEN Result(q[1], u[0]) ELSE u[0]
<1> USE DEF Shifted
<1>1. ASSUME NEW p \in 1..n, r[p].slot = s PROVE v[p] = Result(r[p], v[p - 1])
    <2>1. p + 1 \in 1..(n + 1) /\ (p + 1) - 1 = p /\ p - 1 \in 0..n /\ (p - 1) + 1 = p /\ p \in 0..n
        OBVIOUS
    <2>2. u[p + 1] = Result(q[p + 1], u[p])
        BY <1>1, <2>1 DEF Path
    <2>3. v[p] = u[p + 1] /\ v[p - 1] = u[p]
        BY <2>1
    <2> QED BY <1>1, <2>2, <2>3
<1>2. ASSUME NEW a \in 0..n, NEW b \in 0..n, a <= b, \A p \in (a + 1)..b : r[p].slot # s
      PROVE  v[a] = v[b]
    <2>1. a + 1 \in 0..(n + 1) /\ b + 1 \in 0..(n + 1) /\ a + 1 <= b + 1
        BY <1>2
    <2>2. ASSUME NEW p \in ((a + 1) + 1)..(b + 1) PROVE q[p].slot # s
        <3>1. p - 1 \in (a + 1)..b /\ p - 1 \in 1..n /\ (p - 1) + 1 = p
            OBVIOUS
        <3> QED BY <1>2, <3>1
    <2>3. u[a + 1] = u[b + 1]
        BY <2>1, <2>2 DEF Path
    <2> QED BY <2>3
<1>3. u[1] = IF q[1].slot = s THEN Result(q[1], u[0]) ELSE u[0]
    <2>1. 1 \in 1..(n + 1) /\ 0 \in 0..(n + 1) /\ 1 \in 0..(n + 1) /\ 1 - 1 = 0 /\ (0 + 1)..1 = {1}
        OBVIOUS
    <2>2. q[1].slot = s => u[1] = Result(q[1], u[1 - 1])
        BY <2>1 DEF Path
    <2>3. q[1].slot # s => u[0] = u[1]
        BY <2>1 DEF Path
    <2> QED BY <2>1, <2>2, <2>3
<1> QED BY <1>1, <1>2, <1>3 DEF Path

(* The result of a call does not depend on the state.                      *)
LEMMA ResultKept ==
    ASSUME UNCHANGED kind
    PROVE  \A q, s, n, u : Path(q, s, n, u)' <=> Path(q, s, n, u)
<1>1. \A c, y : Result(c, y)' = Result(c, y)
    BY DEF Result, File, After, Interrupted, Attempted, WithOptimizer
<1> QED BY <1>1, Zenon DEF Path

LEMMA LeadingIdle ==
    ASSUME Shape, NEW k \in Actors, NEW s, About(k, s) = {}
    PROVE  \A x : Leading(k, s, x) <=> x = content[k][s]
<1>1. \A p \in DOMAIN inbox[k] : inbox[k][p].slot # s
    BY DEF About, Queue
<1>2. ASSUME NEW x, Leading(k, s, x) PROVE x = content[k][s]
    <2>1. PICK n, u : n \in Nat /\
              /\ DOMAIN inbox[k] = 1..n /\ u[0] = content[k][s] /\ u[n] = x
              /\ Path(inbox[k], s, n, u)
        BY <1>2 DEF Leading
    <2>2. 0 \in 0..n /\ n \in 0..n /\ 0 <= n /\ (0 + 1)..n = 1..n
        BY <2>1
    <2>3. u[0] = u[n]
        BY <1>1, <2>1, <2>2 DEF Path
    <2> QED BY <2>1, <2>3
<1>3. Leading(k, s, content[k][s])
    <2>1. PICK n \in Nat : DOMAIN inbox[k] = 1..n
        <3>1. PICK S : inbox[k] \in Seq(S)
            BY DEF Shape, IsSeq
        <3> QED BY <3>1, LenProperties
    <2>2. PICK u : u = [p \in 0..n |-> content[k][s]]
        OBVIOUS
    <2>3. u[0] = content[k][s] /\ u[n] = content[k][s]
        BY <2>2
    <2>4. Path(inbox[k], s, n, u)
        BY <1>1, <2>1, <2>2 DEF Path
    <2> QED BY <2>1, <2>3, <2>4 DEF Leading
<1> QED BY <1>2, <1>3

LEMMA LeadingStays ==
    ASSUME NEW k, NEW s, UNCHANGED kind, inbox'[k] = inbox[k], content'[k][s] = content[k][s],
           NEW x, Leading(k, s, x)
    PROVE  Leading(k, s, x)'
BY ResultKept DEF Leading

LEMMA LeadingSent ==
    ASSUME Shape, NEW m, NEW to, inbox' = Sent(m, to), NEW k \in Actors, NEW s,
           UNCHANGED kind, content'[k][s] = content[k][s], NEW x, Leading(k, s, x),
           NEW y, y = IF k \in to /\ m.slot = s THEN Result(m, x) ELSE x
    PROVE  Leading(k, s, y)'
<1>1. CASE k \notin to
    <2>1. inbox'[k] = inbox[k] /\ y = x
        BY <1>1, SentLast
    <2> QED BY <2>1, LeadingStays
<1>2. CASE k \in to
    <2>1. PICK n \in Nat :
              /\ DOMAIN inbox[k] = 1..n /\ DOMAIN inbox'[k] = 1..(n + 1)
              /\ \A p \in 1..n : inbox'[k][p] = inbox[k][p]
              /\ inbox'[k][n + 1] = m
        BY <1>2, SentLast
    <2>2. PICK i, u : i \in Nat /\
              /\ DOMAIN inbox[k] = 1..i /\ u[0] = content[k][s] /\ u[i] = x
              /\ Path(inbox[k], s, i, u)
        BY DEF Leading
    <2>3. i = n
        BY <2>1, <2>2, SameEnd
    <2>4. PICK v : v = [p \in 0..(n + 1) |-> IF p = n + 1 THEN y ELSE u[p]]
        OBVIOUS
    <2>5. /\ \A p \in 0..n : p \in 0..(n + 1) /\ p # n + 1 /\ 0 \in 0..n /\ n + 1 \in 0..(n + 1)
        OBVIOUS
    <2>6. v[n + 1] = y /\ \A p \in 0..n : v[p] = u[p]
        BY <2>4, <2>5
    <2>7. PICK q, r : q = inbox[k] /\ r = inbox'[k]
        OBVIOUS
    <2>8. /\ \A p \in 1..n : r[p] = q[p]
          /\ Path(q, s, n, u)
          /\ v[n + 1] = IF r[n + 1].slot = s THEN Result(r[n + 1], u[n]) ELSE u[n]
        BY <1>2, <2>1, <2>2, <2>3, <2>6, <2>7
    <2>9. Path(r, s, n + 1, v)
        BY <2>6, <2>8, PathExtended
    <2>10. Path(inbox'[k], s, n + 1, v) /\ v[0] = content'[k][s] /\ n + 1 \in Nat
        BY <2>2, <2>5, <2>6, <2>7, <2>9
    <2>11. Path(inbox[k], s, n + 1, v)'
        BY <2>10, ResultKept
    <2> QED BY <2>1, <2>6, <2>10, <2>11 DEF Leading
<1> QED BY <1>1, <1>2

LEMMA LeadingServed ==
    ASSUME Shape, NEW k \in Actors, inbox[k] # <<>>, Served(k), UNCHANGED kind,
           NEW s, NEW x, Leading(k, s, x), NEW h, h = Head(inbox[k]),
           content'[k][s] = IF h.slot = s THEN Result(h, content[k][s]) ELSE content[k][s]
    PROVE  Leading(k, s, x)'
<1>1. h = inbox[k][1]
    BY ServedFirst
<1>2. PICK n \in Nat :
          /\ DOMAIN inbox[k] = 1..(n + 1) /\ DOMAIN inbox'[k] = 1..n
          /\ \A p \in 1..n : inbox'[k][p] = inbox[k][p + 1]
    BY ServedFirst
<1>3. PICK i, u : i \in Nat /\
          /\ DOMAIN inbox[k] = 1..i /\ u[0] = content[k][s] /\ u[i] = x
          /\ Path(inbox[k], s, i, u)
    BY DEF Leading
<1>4. n + 1 \in Nat /\ i = n + 1
    BY <1>2, <1>3, SameEnd
<1>5. PICK v : v = [p \in 0..n |-> u[p + 1]]
    OBVIOUS
<1>6. \A p \in 0..n : v[p] = u[p + 1]
    BY <1>5
<1>7. PICK q, r : q = inbox[k] /\ r = inbox'[k]
    OBVIOUS
<1>8. i = n + 1 /\ (\A p \in 1..n : r[p] = q[p + 1]) /\ Path(q, s, i, u)
    BY <1>2, <1>3, <1>4, <1>7
<1>9. Path(r, s, n, v) /\ u[1] = IF q[1].slot = s THEN Result(q[1], u[0]) ELSE u[0]
    <2>1. Shifted(q, r, 1, n) /\ Shifted(u, v, 0, n)
        BY <1>6, <1>8 DEF Shifted
    <2> QED BY <1>8, <2>1, PathShifted
<1>10. v[0] = content'[k][s] /\ v[n] = x
    <2>1. 0 \in 0..n /\ n \in 0..n /\ 0 + 1 = 1
        OBVIOUS
    <2>2. v[0] = u[1] /\ v[n] = x
        BY <1>3, <1>4, <1>6, <2>1
    <2> QED BY <1>1, <1>3, <1>7, <1>9, <2>2
<1>11. Path(inbox[k], s, n, v)'
    BY <1>7, <1>9, ResultKept
<1> QED BY <1>2, <1>10, <1>11 DEF Leading

LEMMA LeadingOn ==
    ASSUME Shape, NEW k \in Actors, inbox[k] # <<>>, Served(k), UNCHANGED kind,
           NEW j \in Actors, NEW s, NEW x, Leading(j, s, x), NEW h, h = Head(inbox[k]),
           content'[j][s] =
               IF j = k /\ h.slot = s THEN Result(h, content[k][s]) ELSE content[j][s]
    PROVE  Leading(j, s, x)'
<1>1. CASE j = k
    BY <1>1, LeadingServed
<1>2. CASE j # k
    BY <1>2, ServedFirst, LeadingStays
<1> QED BY <1>1, <1>2

LEMMA AgreeInvAgrees == SlotInv /\ UseInv /\ PrivateInv /\ AgreeInv => ActorsAgree
<1> SUFFICES ASSUME SlotInv, UseInv, PrivateInv, AgreeInv, NEW r \in Runs, slotOf[r] # 0,
                    \A k \in Actors : \A p \in DOMAIN inbox[k] : inbox[k][p].slot # slotOf[r],
                    \A o \in torn : target[o] # r
             PROVE  \A k \in Actors : content[k][slotOf[r]] = content[Lead][slotOf[r]]
    BY DEF ActorsAgree
<1>1. \A k \in Actors : About(k, slotOf[r]) = {}
    BY DEF About, Queue
<1>2. PICK s : s = slotOf[r] /\ s \in Slots
    BY SlotsAreSlots
<1>3. ~ Torn(r) /\ ~ Tearing(s)
    BY <1>1, <1>2 DEF Torn, Tearing
<1>4. PICK x : \A k \in Actors : Leading(k, s, x)
    BY <1>2, <1>3 DEF AgreeInv, Settling, Settled, Agreeing
<1>5. \A k \in Actors : content[k][s] = x
    BY <1>1, <1>2, <1>4, LeadingIdle DEF SlotInv
<1> QED BY <1>2, <1>5, LeadIsActor

-----------------------------------------------------------------------------
LEMMA QueueSent ==
    ASSUME Shape, NEW m, NEW to, inbox' = Sent(m, to), NEW k \in Actors
    PROVE  /\ Queue(k)' = IF k \in to THEN Queue(k) \cup {m} ELSE Queue(k)
           /\ \A s : k \in to => LastAbout(k, s, m)'
           /\ \A s, c : k \notin to \/ m.slot # s => (LastAbout(k, s, c) => LastAbout(k, s, c)')
<1>1. CASE k \notin to /\ inbox'[k] = inbox[k]
    BY <1>1 DEF Queue, LastAbout
<1>2. CASE k \in to
    <2>1. PICK n \in Nat :
              /\ DOMAIN inbox[k] = 1..n /\ DOMAIN inbox'[k] = 1..(n + 1)
              /\ \A p \in 1..n : inbox'[k][p] = inbox[k][p]
              /\ inbox'[k][n + 1] = m
        BY <1>2, SentLast
    <2>2. 1..(n + 1) = (1..n) \cup {n + 1}
        OBVIOUS
    <2>3. Queue(k)' = Queue(k) \cup {m}
        BY <2>1, <2>2 DEF Queue
    <2>4. \A s : LastAbout(k, s, m)'
        <3>1. n + 1 \in 1..(n + 1) /\ \A q \in 1..(n + 1) : q <= n + 1
            OBVIOUS
        <3> QED BY <2>1, <3>1 DEF LastAbout
    <2>5. ASSUME NEW s, NEW c, m.slot # s, LastAbout(k, s, c)
          PROVE  LastAbout(k, s, c)'
        <3>1. PICK p \in DOMAIN inbox[k] :
                  /\ inbox[k][p] = c
                  /\ \A q \in DOMAIN inbox[k] : inbox[k][q].slot = s => q <= p
            BY <2>5 DEF LastAbout
        <3>2. p \in DOMAIN inbox'[k] /\ inbox'[k][p] = c
            BY <2>1, <3>1
        <3>3. \A q \in DOMAIN inbox'[k] : inbox'[k][q].slot = s => q <= p
            BY <2>1, <2>2, <2>5, <3>1
        <3> QED BY <3>2, <3>3 DEF LastAbout
    <2> QED BY <1>2, <2>3, <2>4, <2>5
<1> QED BY <1>1, <1>2, SentLast

LEMMA QueueServed ==
    ASSUME Shape, NEW k \in Actors, inbox[k] # <<>>, Served(k)
    PROVE  /\ \A j \in Actors : j # k => inbox'[j] = inbox[j]
           /\ Head(inbox[k]) \in Queue(k)
           /\ Queue(k) = Queue(k)' \cup {Head(inbox[k])}
           /\ \A s, c : LastAbout(k, s, c) =>
                  LastAbout(k, s, c)' \/ (c = Head(inbox[k]) /\ About(k, s)' = {})
<1> DEFINE h == Head(inbox[k])
<1>1. (\A j \in Actors : j # k => inbox'[j] = inbox[j]) /\ h = inbox[k][1]
    BY ServedFirst
<1>2. PICK n \in Nat :
          /\ DOMAIN inbox[k] = 1..(n + 1) /\ DOMAIN inbox'[k] = 1..n
          /\ \A p \in 1..n : inbox'[k][p] = inbox[k][p + 1]
    BY ServedFirst
<1> HIDE DEF h
<1>3. \A q \in 1..(n + 1) : q # 1 => q - 1 \in 1..n /\ inbox'[k][q - 1] = inbox[k][q]
    <2>1. ASSUME NEW q \in 1..(n + 1), q # 1
          PROVE  q - 1 \in 1..n /\ inbox'[k][q - 1] = inbox[k][q]
        <3>1. q - 1 \in 1..n /\ (q - 1) + 1 = q
            BY <2>1
        <3> QED BY <1>2, <3>1
    <2> QED BY <2>1
<1>4. \A p \in 1..n : p + 1 \in 1..(n + 1) /\ p + 1 # 1
    OBVIOUS
<1>5. Queue(k) = Queue(k)' \cup {h} /\ h \in Queue(k)
    <2>1. Queue(k)' \subseteq Queue(k)
        BY <1>2, <1>4 DEF Queue
    <2>2. Queue(k) \subseteq Queue(k)' \cup {h}
        <3>1. ASSUME NEW q \in 1..(n + 1) PROVE inbox[k][q] = h \/ inbox[k][q] \in Queue(k)'
            <4>1. q = 1 \/ (q - 1 \in DOMAIN inbox'[k] /\ inbox'[k][q - 1] = inbox[k][q])
                BY <1>2, <1>3
            <4> QED BY <1>1, <4>1 DEF Queue
        <3> QED BY <1>2, <3>1 DEF Queue
    <2>3. 1 \in DOMAIN inbox[k]
        BY <1>2
    <2>4. h \in Queue(k)
        BY <1>1, <2>3 DEF Queue
    <2> QED BY <2>1, <2>2, <2>4
<1>6. ASSUME NEW s, NEW c, LastAbout(k, s, c)
      PROVE  LastAbout(k, s, c)' \/ (c = h /\ About(k, s)' = {})
    <2>1. PICK p \in 1..(n + 1) :
              /\ inbox[k][p] = c
              /\ \A q \in 1..(n + 1) : inbox[k][q].slot = s => q <= p
        BY <1>2, <1>6 DEF LastAbout
    <2>2. CASE p = 1
        <3>1. \A q \in 1..n : inbox'[k][q].slot # s
            <4>1. ASSUME NEW q \in 1..n, inbox'[k][q].slot = s PROVE FALSE
                <5>1. inbox[k][q + 1].slot = s /\ q + 1 \in 1..(n + 1)
                    BY <1>2, <4>1
                <5>2. q + 1 <= p
                    BY <2>1, <5>1
                <5> QED BY <2>2, <5>2
            <4> QED BY <4>1
        <3>2. About(k, s)' = {}
            BY <1>2, <3>1 DEF About, Queue
        <3> QED BY <1>1, <2>1, <2>2, <3>2
    <2>3. CASE p # 1
        <3>1. p - 1 \in DOMAIN inbox'[k] /\ inbox'[k][p - 1] = c
            BY <1>2, <1>3, <2>1, <2>3
        <3>2. \A q \in DOMAIN inbox'[k] : inbox'[k][q].slot = s => q <= p - 1
            <4>1. ASSUME NEW q \in 1..n, inbox'[k][q].slot = s PROVE q <= p - 1
                <5>1. inbox[k][q + 1].slot = s /\ q + 1 \in 1..(n + 1)
                    BY <1>2, <4>1
                <5>2. q + 1 <= p
                    BY <2>1, <5>1
                <5> QED BY <5>2
            <4> QED BY <1>2, <4>1
        <3> QED BY <3>1, <3>2 DEF LastAbout
    <2> QED BY <2>2, <2>3
<1> QED BY <1>1, <1>5, <1>6 DEF h

Agreed == SlotInv /\ UseInv /\ PrivateInv /\ AgreeInv

LEMMA AgreeInit == Init => AgreeInv
<1> SUFFICES ASSUME Init PROVE AgreeInv
    OBVIOUS
<1>1. \A k \in Actors : DOMAIN inbox[k] = {} /\ Queue(k) = {}
    BY EmptySeq DEF Init, Queue
<1>2. CallKinds
    BY <1>1 DEF CallKinds
<1>3. CollectiveInv
    BY <1>1 DEF Init, CollectiveInv, Collectives
<1>4. Reserving /\ Settling
    BY ZeroIsNoSlot DEF Init, Reserving, Settling
<1> QED BY <1>2, <1>3, <1>4 DEF AgreeInv

-----------------------------------------------------------------------------
(* What a step must leave alone for the parts of the invariant to hold on. *)

LEMMA CollectivesKept ==
    ASSUME CollectiveInv, \A k \in Actors : Collectives(k)' = Collectives(k),
           UNCHANGED <<saved, torn>>
    PROVE  CollectiveInv'
<1>1. ASSUME NEW k \in Actors, NEW c \in Collectives(k)' PROVE Collected(c)'
    <2>1. c \in Collectives(k) /\ Collected(c)
        BY <1>1 DEF CollectiveInv
    <2>2. \A j \in Actors : c \in Queue(j) => c \in Queue(j)'
        BY <2>1 DEF Collectives
    <2> QED BY <2>1, <2>2 DEF Collected
<1> QED BY <1>1 DEF CollectiveInv

LEMMA SettledStays ==
    ASSUME NEW r, NEW s, UNCHANGED target, torn \subseteq torn',
           \A k \in Actors : About(k, s)' = About(k, s),
           \A k \in Actors : \A x : Leading(k, s, x) => Leading(k, s, x)',
           Settled(r, s)
    PROVE  Settled(r, s)'
<1>1. OwnCalls(r, s)'
    BY DEF OwnCalls, Settled
<1>2. Torn(r) => Torn(r)'
    BY DEF Torn
<1>3. Tearing(s) => Tearing(s)'
    BY DEF Tearing, Uneven
<1>4. Agreeing(s) => Agreeing(s)'
    BY DEF Agreeing
<1> QED BY <1>1, <1>2, <1>3, <1>4 DEF Settled

-----------------------------------------------------------------------------
(* Steps of the backend                                                    *)

LEMMA AgreeQuiet ==
    ASSUME Agreed, UNCHANGED <<got, slotOf, inbox, actorVars, inputs>>,
           \A q \in Runs : life'[q] \in {"allocated", "reserving"} => life'[q] = life[q]
    PROVE  AgreeInv'
<1> USE DEF Agreed, AgreeInv, actorVars, inputs
<1>1. /\ \A k \in Actors : Queue(k)' = Queue(k) /\ Collectives(k)' = Collectives(k)
      /\ \A k \in Actors : \A s : About(k, s)' = About(k, s)
      /\ \A k \in Actors : \A s, c : LastAbout(k, s, c)' <=> LastAbout(k, s, c)
    BY DEF Queue, Collectives, About, LastAbout
<1>2. CallKinds' /\ CollectiveInv'
    BY <1>1, CollectivesKept DEF CallKinds
<1>3. Reserving'
    <2>1. \A q \in Runs : \A k \in Actors : Awaited(q, k) => Awaited(q, k)'
        BY <1>1 DEF Awaited
    <2>2. \A q \in Runs : About(Lead, got[q])' = About(Lead, got[q])
        BY <1>1, LeadIsActor
    <2> QED BY <2>1, <2>2, Zenon DEF Reserving
<1>4. Settling'
    <2>1. \A k \in Actors : \A s, x : Leading(k, s, x) => Leading(k, s, x)'
        BY LeadingStays
    <2> QED BY <1>1, <2>1, SettledStays DEF Settling
<1> QED BY <1>2, <1>3, <1>4

LEMMA AgreeCreateEnds ==
    ASSUME Agreed, NEW r \in Runs, CreateEnds(r)
    PROVE  AgreeInv'
<1> USE LeadIsActor DEF Agreed, AgreeInv
<1>1. /\ life[r] = "reserving" /\ Shape /\ DOMAIN life = Runs /\ DOMAIN slotOf = Runs
      /\ UNCHANGED <<got, inbox, allocated, content, raised, torn, finished, saved, stage, capacity,
                     target, kind>>
    BY DEF CreateEnds, SlotInv, Shape, actorVars, inputs
<1>2. CASE MovesTo(r, "failed") /\ UNCHANGED slotOf
    BY <1>1, <1>2, AgreeQuiet DEF MovesTo, actorVars, inputs
<1>3. CASE /\ r \notin raised /\ Pending(r) = {}
           /\ MovesTo(r, "live")
           /\ slotOf' = [slotOf EXCEPT ![r] = got[r]]
    <2> DEFINE s == got[r]
    <2>1. s # 0 /\ content[Lead][s] = Fresh
        BY <1>1, <1>3 DEF UseInv, Lent, PrivateInv, Contents
    <2>2. /\ \A k \in Actors : Queue(k)' = Queue(k) /\ Collectives(k)' = Collectives(k)
          /\ \A k \in Actors : \A t : About(k, t)' = About(k, t)
          /\ \A k \in Actors : \A t, c : LastAbout(k, t, c)' <=> LastAbout(k, t, c)
        BY <1>1 DEF Queue, Collectives, About, LastAbout
    <2>3. \A k \in Actors : \A c \in Queue(k) : c.by # r
        BY <1>3 DEF Pending, Queue
    <2>4. \A k \in Actors : About(k, s) = {} /\ content[k][s] = Fresh
        <3>1. About(Lead, s) = {}
            BY <1>1, <1>3, <2>1 DEF Reserving
        <3>2. \A k \in Actors \ {Lead} : Awaited(r, k)
            BY <1>1, <1>3 DEF Reserving
        <3>3. \A k \in Actors \ {Lead} : About(k, s) = {} /\ content[k][s] = Fresh
            BY <2>3, <3>2 DEF Awaited, About
        <3> QED BY <2>1, <3>1, <3>3
    <2>5. CallKinds' /\ CollectiveInv'
        BY <1>1, <2>2, CollectivesKept DEF CallKinds
    <2>6. Reserving'
        BY <1>1, <1>3, <2>2 DEF Reserving, Awaited, MovesTo
    <2>7. \A k \in Actors : \A t, x : Leading(k, t, x) => Leading(k, t, x)'
        BY <1>1, LeadingStays
    <2>8. ASSUME NEW q \in Runs, NEW t \in Slots, slotOf'[q] = t
          PROVE  Settled(q, t)'
        <3>1. CASE q = r
            <4>1. t = s
                BY <1>1, <1>3, <2>8, <3>1
            <4>2. OwnCalls(q, t)'
                BY <2>2, <2>4, <4>1 DEF OwnCalls
            <4>3. \A k \in Actors : Leading(k, t, Fresh)
                BY <1>1, <2>4, <4>1, LeadingIdle
            <4> QED BY <2>7, <4>2, <4>3 DEF Settled, Agreeing
        <3>2. CASE q # r
            <4>1. slotOf[q] = t
                BY <1>1, <1>3, <2>8, <3>2
            <4>2. Settled(q, t)
                BY <4>1 DEF Settling
            <4> QED BY <1>1, <2>2, <2>7, <4>2, SettledStays
        <3> QED BY <3>1, <3>2
    <2>9. Settling'
        BY <2>8 DEF Settling
    <2> QED BY <2>5, <2>6, <2>9
<1> QED BY <1>2, <1>3 DEF CreateEnds

(* A call about a slot, by its own run, that no other run is lent.         *)
LEMMA AgreeSent ==
    ASSUME Agreed, NEW r \in Runs, NEW m, NEW to, inbox' = Sent(m, to),
           m.call \in {"allocate", "reserve", "release"}, m.by = r,
           m.call = "allocate" => to = {Lead} /\ m.slot = 0,
           m.call = "reserve" => to = Actors \ {Lead},
           UNCHANGED <<got, actorVars, stage, inputs>>,
           \A q \in Runs : slotOf'[q] # 0 => slotOf'[q] = slotOf[q] /\ slotOf[q] # m.slot,
           \A q \in Runs : q \notin raised /\ life'[q] = "reserving" =>
               \/ life[q] = "reserving" /\ got[q] # m.slot
               \/ m = SlotCall("reserve", got[q], q),
           \A q \in Runs : q \notin raised /\ life'[q] \in {"allocated", "reserving"} /\ got[q] # 0 =>
               /\ life[q] \in {"allocated", "reserving"}
               /\ Lead \in to => got[q] # m.slot
    PROVE  AgreeInv'
<1> USE LeadIsActor DEF Agreed, AgreeInv, actorVars, inputs
<1>1. Shape
    BY DEF SlotInv
<1>2. /\ \A k \in Actors : Queue(k)' = IF k \in to THEN Queue(k) \cup {m} ELSE Queue(k)
      /\ \A k \in Actors : \A s : k \in to => LastAbout(k, s, m)'
      /\ \A k \in Actors : \A s, c : k \notin to \/ m.slot # s =>
             (LastAbout(k, s, c) => LastAbout(k, s, c)')
    BY <1>1, QueueSent
<1>3. \A k \in Actors : \A s : k \notin to \/ m.slot # s => About(k, s)' = About(k, s)
    BY <1>2 DEF About
<1>4. CallKinds'
    BY <1>2 DEF CallKinds
<1>6. CollectiveInv'
    <2>1. \A k \in Actors : Collectives(k)' = Collectives(k)
        BY <1>2 DEF Collectives
    <2> QED BY <2>1, CollectivesKept
<1>7. Reserving'
    <2>1. SUFFICES ASSUME NEW q \in Runs, q \notin raised
          PROVE  /\ life'[q] \in {"allocated", "reserving"} /\ got[q] # 0 => About(Lead, got[q])' = {}
                 /\ life'[q] = "reserving" => \A k \in Actors \ {Lead} : Awaited(q, k)'
        BY DEF Reserving
    <2>2. ASSUME life'[q] \in {"allocated", "reserving"}, got[q] # 0 PROVE About(Lead, got[q])' = {}
        BY <1>3, <2>1, <2>2 DEF Reserving
    <2>3. ASSUME life'[q] = "reserving", NEW k \in Actors \ {Lead} PROVE Awaited(q, k)'
        <3>1. CASE life[q] = "reserving" /\ got[q] # m.slot
            <4>1. Awaited(q, k)
                BY <2>1, <3>1 DEF Reserving
            <4> QED BY <1>2, <1>3, <3>1, <4>1 DEF Awaited
        <3>2. CASE m = SlotCall("reserve", got[q], q)
            <4>1. /\ m.slot = got[q] /\ m.call = "reserve" /\ m.by = q
                  /\ m \in Queue(k)' /\ LastAbout(k, got[q], m)'
                BY <1>2, <3>2 DEF SlotCall
            <4> QED BY <4>1 DEF Awaited, About
        <3> QED BY <2>1, <2>3, <3>1, <3>2
    <2> QED BY <2>2, <2>3
<1>8. Settling'
    <2>1. ASSUME NEW q \in Runs, NEW s \in Slots, slotOf'[q] = s
          PROVE  Settled(q, s)'
        <3>1. slotOf[q] = s /\ m.slot # s
            BY <2>1, ZeroIsNoSlot
        <3>2. Settled(q, s)
            BY <3>1 DEF Settling
        <3>3. \A k \in Actors : About(k, s)' = About(k, s)
            BY <1>3, <3>1
        <3>4. ASSUME NEW k \in Actors, NEW x, Leading(k, s, x) PROVE Leading(k, s, x)'
            BY <1>1, <3>1, <3>4, LeadingSent
        <3> QED BY <3>2, <3>3, <3>4, SettledStays
    <2> QED BY <2>1 DEF Settling
<1> QED BY <1>4, <1>6, <1>7, <1>8

LEMMA AgreeCalls ==
    ASSUME Agreed, NEW r \in Runs,
           CreateAllocate(r) \/ CreateReserve(r) \/ RemoveRelease(r)
    PROVE  AgreeInv'
<1> USE LeadIsActor DEF Agreed
<1>1. DOMAIN life = Runs /\ DOMAIN slotOf = Runs
    BY DEF SlotInv, Shape
<1>2. CASE CreateAllocate(r)
    <2> DEFINE m == SlotCall("allocate", 0, r)
    <2>1. /\ life[r] = "locking" /\ life' = [life EXCEPT ![r] = "allocating"]
          /\ inbox' = Sent(m, {Lead}) /\ UNCHANGED <<got, slotOf, actorVars, stage, inputs>>
        BY <1>2 DEF CreateAllocate, MovesTo
    <2>2. m.call = "allocate" /\ m.by = r /\ m.slot = 0
        BY DEF SlotCall
    <2> HIDE DEF m
    <2>3. \A q \in Runs : life'[q] \in {"allocated", "reserving"} => life'[q] = life[q]
        BY <1>1, <2>1
    <2>4. \A q \in Runs : life[q] = "reserving" => got[q] # 0
        BY DEF UseInv, Lent
    <2> QED BY <2>1, <2>2, <2>3, <2>4, AgreeSent
<1>3. CASE CreateReserve(r)
    <2>1. /\ life[r] = "allocated" /\ UNCHANGED <<got, slotOf, actorVars, stage, inputs>>
          /\ \/ MovesTo(r, "failed") /\ UNCHANGED inbox
             \/ /\ r \notin raised /\ got[r] # 0
                /\ MovesTo(r, "reserving")
                /\ inbox' = Sent(SlotCall("reserve", got[r], r), Actors \ {Lead})
        BY <1>3 DEF CreateReserve
    <2>2. CASE MovesTo(r, "failed") /\ UNCHANGED inbox
        BY <1>1, <2>1, <2>2, AgreeQuiet DEF MovesTo
    <2>3. CASE /\ r \notin raised /\ got[r] # 0
               /\ MovesTo(r, "reserving")
               /\ inbox' = Sent(SlotCall("reserve", got[r], r), Actors \ {Lead})
        <3> DEFINE m == SlotCall("reserve", got[r], r)
        <3>1. m.call = "reserve" /\ m.by = r /\ m.slot = got[r] /\ m = SlotCall("reserve", got[r], r)
            BY DEF SlotCall
        <3>2. inbox' = Sent(m, Actors \ {Lead})
            BY <2>3
        <3> HIDE DEF m
        <3>3. life'[r] = "reserving" /\ \A q \in Runs : q # r => life'[q] = life[q]
            BY <1>1, <2>3 DEF MovesTo
        <3>4. Claims(r, got[r])
            BY <2>1 DEF Claims
        <3>5. \A q \in Runs : slotOf[q] # 0 => slotOf[q] # got[r]
            BY <2>1, <2>3, <3>4 DEF SlotInv, ClaimsExclude, Claims, Progress
        <3>6. \A q \in Runs : q # r /\ life[q] = "reserving" => got[q] # got[r]
            BY <2>3, <3>4 DEF SlotInv, ClaimsExclude, Claims
        <3>7. \A q \in Runs : q \notin raised /\ life'[q] = "reserving" =>
                  \/ life[q] = "reserving" /\ got[q] # m.slot
                  \/ m = SlotCall("reserve", got[q], q)
            BY <3>1, <3>3, <3>6
        <3>8. \A q \in Runs : life'[q] \in {"allocated", "reserving"} => life[q] \in {"allocated", "reserving"}
            BY <2>1, <3>3
        <3> QED BY <2>1, <3>1, <3>2, <3>5, <3>7, <3>8, AgreeSent
    <2> QED BY <2>1, <2>2, <2>3
<1>4. CASE RemoveRelease(r)
    <2> DEFINE m == SlotCall("release", slotOf[r], r)
    <2>1. /\ life[r] = "leaving" /\ life' = [life EXCEPT ![r] = "releasing"]
          /\ slotOf' = [slotOf EXCEPT ![r] = 0]
          /\ inbox' = Sent(m, Actors) /\ UNCHANGED <<got, actorVars, stage, inputs>>
        BY <1>4 DEF RemoveRelease, MovesTo
    <2>2. m.call = "release" /\ m.by = r /\ m.slot = slotOf[r]
        BY DEF SlotCall
    <2> HIDE DEF m
    <2>3. slotOf[r] # 0 /\ Claims(r, slotOf[r])
        BY <2>1 DEF UseInv, Lent, Claims
    <2>4. \A q \in Runs : slotOf'[q] # 0 => slotOf'[q] = slotOf[q] /\ slotOf[q] # slotOf[r]
        BY <1>1, <2>1, <2>3 DEF SlotInv, ClaimsExclude, Claims
    <2>5. \A q \in Runs : life'[q] \in {"allocated", "reserving"} =>
              life'[q] = life[q] /\ got[q] # slotOf[r]
        BY <1>1, <2>1, <2>3 DEF SlotInv, ClaimsExclude, Claims
    <2> QED BY <2>1, <2>2, <2>4, <2>5, AgreeSent
<1> QED BY <1>2, <1>3, <1>4

(* An operation is called on all actors; what they do in its slot leads to *)
(* the same on all of them again, unless they are not to end alike.        *)
LEMMA AgreeSubmit ==
    ASSUME Agreed, NEW o \in Operations, NEW r \in Runs, target[o] = r,
           NEW s \in Slots, slotOf[r] = s,
           NEW m, m.call = "collective", m.by = o, m.slot = s,
           m.bad \subseteq Actors, \A x, y \in m.file : x = y,
           inbox' = Sent(m, Actors), UNCHANGED <<backendVars, actorVars, inputs>>
    PROVE  AgreeInv'
<1> USE LeadIsActor DEF Agreed, AgreeInv, actorVars, inputs, backendVars
<1>1. Shape /\ s # 0
    BY ZeroIsNoSlot DEF SlotInv
<1>2. /\ \A k \in Actors : Queue(k)' = Queue(k) \cup {m}
      /\ \A k \in Actors : \A t, c : m.slot # t => (LastAbout(k, t, c) => LastAbout(k, t, c)')
    BY <1>1, QueueSent
<1>3. \A k \in Actors : \A t : m.slot # t => About(k, t)' = About(k, t)
    BY <1>2 DEF About
<1>4. CallKinds'
    BY <1>1, <1>2 DEF CallKinds
<1>5. CollectiveInv'
    <2>1. ASSUME NEW k \in Actors, NEW c \in Collectives(k)' PROVE Collected(c)'
        <3>1. CASE c = m
            BY <1>2, <3>1 DEF Collected
        <3>2. CASE c # m
            <4>1. Collected(c)
                BY <1>2, <2>1, <3>2 DEF Collectives, CollectiveInv
            <4> QED BY <1>2, <4>1 DEF Collected
        <3> QED BY <3>1, <3>2
    <2> QED BY <2>1 DEF CollectiveInv
<1>6. \A q \in Runs : life[q] \in {"allocated", "reserving"} => got[q] # s
    BY <1>1 DEF SlotInv, ClaimsExclude, Claims, Progress
<1>7. Reserving'
    <2>1. ASSUME NEW q \in Runs, life[q] = "reserving", NEW k \in Actors, Awaited(q, k)
          PROVE  Awaited(q, k)'
        BY <1>2, <1>3, <1>6, <2>1 DEF Awaited
    <2> QED BY <1>3, <1>6, <2>1 DEF Reserving
<1>8. \A q \in Runs : slotOf[q] = s => q = r
    BY <1>1 DEF SlotInv, ClaimsExclude, Claims
<1>9. \A k \in Actors : About(k, s)' = About(k, s) \cup {m}
    BY <1>2 DEF About
<1>10. ASSUME NEW k \in Actors, NEW t, NEW x, Leading(k, t, x),
              NEW y, y = IF t = s THEN Result(m, x) ELSE x
       PROVE  Leading(k, t, y)'
    BY <1>1, <1>10, LeadingSent
<1>11. Settled(r, s)'
    <2>1. Settled(r, s)
        BY DEF Settling
    <2>2. OwnCalls(r, s)'
        BY <1>9, <2>1 DEF OwnCalls, Settled
    <2>3. Torn(r) => Torn(r)'
        BY DEF Torn
    <2>4. Tearing(s) => Tearing(s)'
        BY <1>9 DEF Tearing, Uneven
    <2>5. Agreeing(s) => Agreeing(s)'
        <3>1. ASSUME Agreeing(s) PROVE Agreeing(s)'
            <4>1. PICK x : \A k \in Actors : Leading(k, s, x)
                BY <3>1 DEF Agreeing
            <4>2. PICK y : y = Result(m, x)
                OBVIOUS
            <4>3. \A k \in Actors : Leading(k, s, y)'
                BY <1>10, <4>1, <4>2
            <4> QED BY <4>3 DEF Agreeing
        <3> QED BY <3>1
    <2> QED BY <2>1, <2>2, <2>3, <2>4, <2>5 DEF Settled
<1>12. Settling'
    <2>1. ASSUME NEW q \in Runs, NEW t \in Slots, slotOf[q] = t
          PROVE  Settled(q, t)'
        <3>1. CASE t = s
            BY <1>8, <1>11, <2>1, <3>1
        <3>2. CASE t # s
            <4>1. Settled(q, t)
                BY <2>1 DEF Settling
            <4>2. \A k \in Actors : \A x : Leading(k, t, x) => Leading(k, t, x)'
                BY <1>10, <3>2
            <4> QED BY <1>3, <3>2, <4>1, <4>2, SettledStays
        <3> QED BY <3>1, <3>2
    <2> QED BY <2>1 DEF Settling
<1> QED BY <1>4, <1>5, <1>7, <1>12

LEMMA AgreeOperations ==
    ASSUME Agreed, NEW o \in Operations, OpBegin(o) \/ OpEnds(o)
    PROVE  AgreeInv'
<1> USE DEF Agreed
<1> DEFINE r == target[o]
<1>1. r \in Runs /\ UNCHANGED <<backendVars, actorVars, inputs>>
    BY DEF PrivateInv, Past, OpBegin, OpEnds
<1>2. CASE UNCHANGED inbox
    BY <1>1, <1>2, AgreeQuiet DEF backendVars
<1>3. ASSUME slotOf[r] # 0, NEW n, NEW file, \A x, y \in file : x = y, Submit(o, n, file)
      PROVE  AgreeInv'
    <2>1. PICK x \in Outcomes(o) :
              inbox' = Sent([call |-> "collective", slot |-> slotOf[r], by |-> o, n |-> n,
                             file |-> file, bad |-> x.bad, late |-> x.late, part |-> x.part], Actors)
        BY <1>3, Zenon DEF Submit
    <2> DEFINE m == [call |-> "collective", slot |-> slotOf[r], by |-> o, n |-> n,
                     file |-> file, bad |-> x.bad, late |-> x.late, part |-> x.part]
    <2>2. /\ m.call = "collective" /\ m.by = o /\ m.slot = slotOf[r] /\ m.bad \subseteq Actors
          /\ m.file = file /\ inbox' = Sent(m, Actors)
        BY <2>1, OutcomeRecords
    <2> HIDE DEF m
    <2>3. slotOf[r] \in Slots
        BY <1>1, <1>3, SlotsAreSlots
    <2> QED BY <1>1, <1>3, <2>2, <2>3, AgreeSubmit
<1>4. \A p \in Operations : \A x, y \in saved[p] : x = y
    BY DEF AgreeInv, CollectiveInv
<1>5. \A x, y \in {} : x = y
    OBVIOUS
<1>6. \/ UNCHANGED inbox
      \/ slotOf[r] # 0 /\ \E n : Submit(o, n, {})
      \/ slotOf[r] # 0 /\ \E n : \E p \in Operations : Submit(o, n, saved[p])
    BY DEF OpBegin, OpEnds
<1> QED BY <1>2, <1>3, <1>4, <1>5, <1>6

-----------------------------------------------------------------------------
(* Steps of the actors                                                     *)

(* What is left of the calls about a slot once an actor took another call. *)
LEMMA AboutServed ==
    ASSUME Agreed, NEW k \in Actors, inbox[k] # <<>>, Served(k)
    PROVE  /\ Shape /\ Head(inbox[k]) \in Queue(k)
           /\ CallKinds'
           /\ \A j \in Actors : Queue(j)' \subseteq Queue(j)
           /\ \A j \in Actors : \A c \in Queue(j) : j # k \/ c # Head(inbox[k]) => c \in Queue(j)'
           /\ \A j \in Actors : \A s : j # k \/ Head(inbox[k]).slot # s => About(j, s)' = About(j, s)
           /\ \A j \in Actors : \A s : \A c \in About(j, s) : LastAbout(j, s, c) =>
                  LastAbout(j, s, c)' \/ (j = k /\ c = Head(inbox[k]) /\ About(j, s)' = {})
<1>1. Shape
    BY DEF Agreed, SlotInv
<1>2. /\ \A j \in Actors : j # k => inbox'[j] = inbox[j]
      /\ Head(inbox[k]) \in Queue(k)
      /\ Queue(k) = Queue(k)' \cup {Head(inbox[k])}
      /\ \A s, c : LastAbout(k, s, c) =>
             LastAbout(k, s, c)' \/ (c = Head(inbox[k]) /\ About(k, s)' = {})
    BY <1>1, QueueServed
<1>3. \A j \in Actors : j # k => Queue(j)' = Queue(j)
    BY <1>2 DEF Queue
<1>4. \A j \in Actors : j # k => \A s, c : LastAbout(j, s, c) => LastAbout(j, s, c)'
    BY <1>2 DEF LastAbout
<1>5. \A j \in Actors : Queue(j)' \subseteq Queue(j)
    BY <1>2, <1>3
<1>6. CallKinds'
    BY <1>5 DEF Agreed, AgreeInv, CallKinds
<1>7. \A j \in Actors : \A s : j # k \/ Head(inbox[k]).slot # s => About(j, s)' = About(j, s)
    BY <1>2, <1>3 DEF About
<1> QED BY <1>1, <1>2, <1>3, <1>4, <1>5, <1>6, <1>7 DEF Agreed, AgreeInv

(* An actor marks, frees or resets a slot that no run uses.                *)
LEMMA AgreeServed ==
    ASSUME Agreed, NEW k \in Actors, inbox[k] # <<>>, Served(k),
           Head(inbox[k]).call # "collective",
           raised \subseteq raised', raised' \subseteq raised \cup {Head(inbox[k]).by},
           UNCHANGED <<slotOf, torn, saved, inputs>>,
           NEW t, \A j \in Actors : \A s \in Slots : j # k \/ s # t => content'[j][s] = content[j][s],
           \A q \in Runs : slotOf[q] # 0 => slotOf[q] # t,
           k # Lead => t = Head(inbox[k]).slot,
           Head(inbox[k]).call = "reserve" /\ Head(inbox[k]).by \notin raised'
               /\ Head(inbox[k]).slot \in Slots => content'[k][Head(inbox[k]).slot] = Fresh,
           \A q \in Runs : life'[q] = "reserving" => life[q] = "reserving" /\ got'[q] = got[q],
           \A q \in Runs : life'[q] \in {"allocated", "reserving"} /\ got'[q] # 0 =>
               \/ life[q] \in {"allocated", "reserving"} /\ got'[q] = got[q]
               \/ About(Lead, got'[q]) = {}
    PROVE  AgreeInv'
<1> DEFINE h == Head(inbox[k])
<1> USE LeadIsActor DEF Agreed, AgreeInv, inputs
<1>1. /\ h \in Queue(k) /\ CallKinds'
      /\ \A j \in Actors : Queue(j)' \subseteq Queue(j)
      /\ \A j \in Actors : \A c \in Queue(j) : j # k \/ c # h => c \in Queue(j)'
      /\ \A j \in Actors : \A s : j # k \/ h.slot # s => About(j, s)' = About(j, s)
      /\ \A j \in Actors : \A s : \A c \in About(j, s) : LastAbout(j, s, c) =>
             LastAbout(j, s, c)' \/ (j = k /\ c = h /\ About(j, s)' = {})
    BY AboutServed
<1>2. h.call # "collective"
    OBVIOUS
<1>3. CollectiveInv'
    <2>1. \A j \in Actors : Collectives(j)' = Collectives(j)
        BY <1>1, <1>2 DEF Collectives
    <2> QED BY <2>1, CollectivesKept
<1>4. \A q \in Runs : got[q] # 0 => got[q] \in Slots
    BY DEF PrivateInv, Contents
<1>5. \A q \in Runs : life[q] = "reserving" => got[q] # 0
    BY DEF UseInv, Lent
<1>6. \A j \in Actors : \A s : About(j, s)' \subseteq About(j, s)
    BY <1>1 DEF About
<1>7. Reserving'
    <2>1. ASSUME NEW q \in Runs, q \notin raised', life'[q] \in {"allocated", "reserving"}, got'[q] # 0
          PROVE  About(Lead, got'[q]) = {}
        BY <2>1 DEF Reserving
    <2>2. ASSUME NEW q \in Runs, q \notin raised', life'[q] = "reserving", NEW j \in Actors \ {Lead}
          PROVE  Awaited(q, j)'
        <3>. PICK s : s = got[q]
            OBVIOUS
        <3>1. Awaited(q, j) /\ got'[q] = s /\ s \in Slots
            BY <1>4, <1>5, <2>2 DEF Reserving
        <3>2. CASE About(j, s) = {} /\ content[j][s] = Fresh
            <4>1. j = k => h.slot # s
                BY <1>1, <3>2 DEF About
            <4>2. content'[j][s] = Fresh
                BY <2>2, <3>1, <3>2, <4>1
            <4> QED BY <1>6, <3>1, <3>2, <4>2 DEF Awaited
        <3>3. ASSUME NEW c \in About(j, s), c.call = "reserve", c.by = q, LastAbout(j, s, c)
              PROVE  Awaited(q, j)'
            <4>1. CASE j = k /\ c = h /\ About(j, s)' = {}
                <5>1. h.slot = s
                    BY <3>3, <4>1 DEF About
                <5>2. content'[k][s] = Fresh
                    BY <2>2, <3>1, <3>3, <4>1, <5>1
                <5> QED BY <3>1, <4>1, <5>2 DEF Awaited
            <4>2. CASE LastAbout(j, s, c)'
                <5>1. c \in Queue(j)'
                    BY <4>2 DEF LastAbout, Queue
                <5> QED BY <3>1, <3>3, <4>2, <5>1 DEF Awaited, About
            <4> QED BY <1>1, <3>3, <4>1, <4>2
        <3> QED BY <3>1, <3>2, <3>3 DEF Awaited
    <2>3. \A q \in Runs : About(Lead, got'[q]) = {} => About(Lead, got[q])' = {}
        BY <1>6 DEF About
    <2> QED BY <2>1, <2>2, <2>3 DEF Reserving
<1>8. Settling'
    <2>1. ASSUME NEW q \in Runs, NEW s \in Slots, slotOf[q] = s
          PROVE  Settled(q, s)'
        <3>1. Settled(q, s)
            BY <2>1 DEF Settling
        <3>2. h.slot # s
            BY <1>1, <1>2, <3>1 DEF Settled, OwnCalls, About
        <3>3. \A j \in Actors : About(j, s)' = About(j, s)
            BY <1>1, <3>2
        <3>4. \A j \in Actors : content'[j][s] = content[j][s]
            BY <2>1, ZeroIsNoSlot
        <3>5. ASSUME NEW j \in Actors, NEW x, Leading(j, s, x) PROVE Leading(j, s, x)'
            <4>1. j = k => h.slot # s
                BY <3>2
            <4>2. Shape
                BY DEF SlotInv
            <4> HIDE DEF Agreed, AgreeInv
            <4> QED BY <3>4, <3>5, <4>1, <4>2, LeadingOn
        <3> QED BY <3>1, <3>3, <3>5, SettledStays
    <2> QED BY <2>1 DEF Settling
<1> QED BY <1>1, <1>3, <1>7, <1>8

(* The lead has been asked for nothing in a slot that nobody claims.       *)
LEMMA FreeUnasked ==
    ASSUME Agreed, NEW s, s # 0, s \notin allocated[Lead]
    PROVE  About(Lead, s) = {}
<1> SUFFICES ASSUME NEW p \in DOMAIN inbox[Lead], inbox[Lead][p].slot = s PROVE FALSE
    BY DEF About, Queue
<1> DEFINE c == inbox[Lead][p]
<1>1. \A r \in Runs : ~ Claims(r, s)
    BY DEF Agreed, SlotInv, ClaimsExclude
<1>2. c \in Queue(Lead)
    BY DEF Queue
<1>3. c.call \in {"release", "collective"}
    BY <1>2, LeadIsActor DEF Agreed, AgreeInv, CallKinds
<1>4. c.call # "release"
    BY <1>1 DEF Agreed, SlotInv, SlotCalls, Claims
<1>5. CASE c.call = "collective"
    <2>1. Operation(p)
        BY <1>5 DEF Operation
    <2> QED BY <1>1, <2>1, OperationSlot DEF Agreed
<1> QED BY <1>3, <1>4, <1>5

LEMMA AgreeAllocate ==
    ASSUME Agreed, Allocate
    PROVE  AgreeInv'
<1> USE LeadIsActor DEF Agreed
<1> DEFINE h == Head(inbox[Lead])
           s == Min(Free)
<1>1. /\ inbox[Lead] # <<>> /\ h.call = "allocate" /\ Served(Lead)
      /\ MovesTo(h.by, "allocated")
      /\ UNCHANGED <<slotOf, raised, torn, saved, inputs>>
      /\ \/ UNCHANGED <<got, content>>
         \/ /\ Free # {} /\ got' = [got EXCEPT ![h.by] = s]
            /\ Holding(Lead, s, Fresh)
    BY DEF Allocate, Serves, Reset
<1>2. /\ Shape /\ h \in Queue(Lead) /\ DOMAIN life = Runs /\ DOMAIN got = Runs
    BY <1>1, AboutServed DEF Shape
<1>3. h.by \in Runs /\ got[h.by] = 0
    <2>1. 1 \in DOMAIN inbox[Lead] /\ h = inbox[Lead][1]
        BY <1>1, <1>2, ServedBy
    <2> QED BY <1>1, <2>1 DEF SlotInv, SlotCalls, Progress
<1>4. \A q \in Runs : q # h.by => life'[q] = life[q]
    BY <1>1, <1>2 DEF MovesTo
<1>5. life'[h.by] = "allocated"
    BY <1>1, <1>2, <1>3 DEF MovesTo
<1>6. h.call = "allocate" /\ h.slot = 0
    BY <1>1, <1>2 DEF AgreeInv, CallKinds
<1>7. CASE UNCHANGED <<got, content>>
    <2>2. \A q \in Runs : life'[q] \in {"allocated", "reserving"} /\ got'[q] # 0 =>
              life[q] \in {"allocated", "reserving"} /\ got'[q] = got[q]
        BY <1>3, <1>4, <1>7
    <2>3. \A q \in Runs : life'[q] = "reserving" => life[q] = "reserving" /\ got'[q] = got[q]
        BY <1>3, <1>4, <1>5, <1>7
    <2>4. \A q \in Runs : slotOf[q] # 0 => slotOf[q] # 0
        OBVIOUS
    <2> HIDE DEF s
    <2> QED BY <1>1, <1>6, <1>7, <2>2, <2>3, <2>4, AgreeServed
<1>8. CASE /\ Free # {} /\ got' = [got EXCEPT ![h.by] = s]
           /\ Holding(Lead, s, Fresh)
    <2>1. s \in Slots /\ s # 0 /\ s \notin allocated[Lead]
        BY <1>2, <1>8, FreeIsSlot, FreeSlot DEF PrivateInv
    <2> HIDE DEF s
    <2>2. \A j \in Actors : \A u \in Slots :
              content'[j][u] = IF j = Lead /\ u = s THEN Fresh ELSE content[j][u]
        BY <1>8, HoldingOnly DEF PrivateInv
    <2>4. \A q \in Runs : slotOf[q] # 0 => slotOf[q] # s
        BY <2>1 DEF SlotInv, ClaimsExclude, Claims
    <2>5. About(Lead, s) = {}
        BY <2>1, FreeUnasked
    <2>6. got'[h.by] = s /\ \A q \in Runs : q # h.by => got'[q] = got[q]
        BY <1>2, <1>3, <1>8
    <2>7. \A q \in Runs : life'[q] \in {"allocated", "reserving"} /\ got'[q] # 0 =>
              \/ life[q] \in {"allocated", "reserving"} /\ got'[q] = got[q]
              \/ About(Lead, got'[q]) = {}
        BY <1>4, <2>5, <2>6
    <2>8. \A q \in Runs : life'[q] = "reserving" => life[q] = "reserving" /\ got'[q] = got[q]
        BY <1>4, <1>5, <2>6
    <2>9. \A j \in Actors : \A u \in Slots : j # Lead \/ u # s => content'[j][u] = content[j][u]
        BY <2>2
    <2>10. raised \subseteq raised' /\ raised' \subseteq raised \cup {h.by} /\ h.call # "collective"
        BY <1>1
    <2>11. h.call # "reserve"
        BY <1>1
    <2> QED BY <1>1, <2>4, <2>7, <2>8, <2>9, <2>10, <2>11, AgreeServed, Zenon
<1> QED BY <1>1, <1>7, <1>8

(* Calls on the slots of others: the queue has only collectives about the  *)
(* slot of a run.                                                          *)
LEMMA NotAsked ==
    ASSUME Agreed, NEW k \in Actors, NEW h \in Queue(k), h.call # "collective"
    PROVE  \A q \in Runs : slotOf[q] # 0 => slotOf[q] # h.slot
BY SlotsAreSlots DEF Agreed, AgreeInv, Settling, Settled, OwnCalls, About

LEMMA AgreeSlots ==
    ASSUME Agreed, NEW k \in Actors, Reserve(k) \/ Release(k) \/ Raise(k)
    PROVE  AgreeInv'
<1> USE LeadIsActor DEF Agreed
<1> DEFINE h == Head(inbox[k])
<1>1. inbox[k] # <<>> /\ Served(k)
    BY DEF Reserve, Release, Raise, Serves
<1>2. Shape /\ h \in Queue(k) /\ DOMAIN life = Runs /\ DOMAIN got = Runs
    BY <1>1, AboutServed DEF Shape
<1>3. CASE Reserve(k) \/ Release(k)
    <2>1. /\ h.call \in {"reserve", "release"} /\ Holding(k, h.slot, Fresh)
          /\ UNCHANGED <<life, got, slotOf, raised, torn, saved, inputs>>
        BY <1>3 DEF Reserve, Release, Serves, Reset, backendVars
    <2>2. \A q \in Runs : slotOf[q] # 0 => slotOf[q] # h.slot
        BY <1>2, <2>1, NotAsked
    <2>3. \A j \in Actors : \A u \in Slots :
              content'[j][u] = IF j = k /\ u = h.slot THEN Fresh ELSE content[j][u]
        BY <2>1, HoldingOnly DEF PrivateInv
    <2>5. /\ \A j \in Actors : \A u \in Slots : j # k \/ u # h.slot => content'[j][u] = content[j][u]
          /\ h.slot \in Slots => content'[k][h.slot] = Fresh
        BY <2>3
    <2>6. h.call # "collective"
        BY <2>1
    <2> HIDE DEF h
    <2> QED BY <1>1, <2>1, <2>2, <2>5, <2>6, AgreeServed DEF h
<1>4. CASE Raise(k)
    <2> DEFINE t == IF h.call = "allocate" THEN Min(Free) ELSE h.slot
    <2>1. /\ h.call # "collective" /\ raised' = raised \cup {h.by}
          /\ h.call = "allocate" => Free # {}
          /\ \E x \in {Fresh, content[k][t]} : Holding(k, t, x)
          /\ UNCHANGED <<slotOf, torn, saved, inputs>>
          /\ IF h.call = "allocate"
             THEN MovesTo(h.by, "allocated") /\ got' = [got EXCEPT ![h.by] = t]
             ELSE UNCHANGED <<life, got>>
        BY <1>4 DEF Raise, Reset
    <2>2. h.call = "allocate" => k = Lead /\ h.by \in Runs
        BY <1>2 DEF AgreeInv, CallKinds
    <2>3. h.call = "allocate" => t # 0 /\ t \notin allocated[Lead]
        BY <2>1, FreeSlot
    <2>4. \A q \in Runs : slotOf[q] # 0 => slotOf[q] # t
        <3>1. CASE h.call = "allocate"
            BY <2>3, <3>1 DEF SlotInv, ClaimsExclude, Claims
        <3>2. CASE h.call # "allocate"
            BY <1>2, <2>1, <3>2, NotAsked
        <3> QED BY <3>1, <3>2
    <2>5. h.call = "allocate" => About(Lead, t) = {}
        BY <2>3, FreeUnasked
    <2>6. PICK x \in {Fresh, content[k][t]} : Holding(k, t, x)
        BY <2>1
    <2>7. h.call # "allocate" => t = h.slot
        OBVIOUS
    <2> HIDE DEF t
    <2>8. \A j \in Actors : \A u \in Slots :
              content'[j][u] = IF j = k /\ u = t THEN x ELSE content[j][u]
        BY <2>6, HoldingOnly DEF PrivateInv
    <2>10. \A j \in Actors : \A u \in Slots : j # k \/ u # t => content'[j][u] = content[j][u]
        BY <2>8
    <2>11. /\ \A q \in Runs : life'[q] = "reserving" => life[q] = "reserving" /\ got'[q] = got[q]
           /\ \A q \in Runs : life'[q] \in {"allocated", "reserving"} /\ got'[q] # 0 =>
                  \/ life[q] \in {"allocated", "reserving"} /\ got'[q] = got[q]
                  \/ About(Lead, got'[q]) = {}
        <3>1. CASE h.call = "allocate"
            <4>1. /\ life'[h.by] = "allocated" /\ \A q \in Runs : q # h.by => life'[q] = life[q]
                  /\ got'[h.by] = t /\ \A q \in Runs : q # h.by => got'[q] = got[q]
                BY <1>2, <2>1, <2>2, <3>1 DEF MovesTo
            <4>2. About(Lead, t) = {}
                BY <2>5, <3>1
            <4> QED BY <4>1, <4>2
        <3>2. CASE h.call # "allocate"
            BY <2>1, <3>2
        <3> QED BY <3>1, <3>2
    <2>12. /\ k # Lead => t = h.slot
           /\ h.by \in raised' /\ raised \subseteq raised' /\ raised' \subseteq raised \cup {h.by}
        BY <2>1, <2>2, <2>7
    <2> QED BY <1>1, <2>1, <2>4, <2>10, <2>11, <2>12, AgreeServed
<1> QED BY <1>3, <1>4

(* An actor takes part in a collective, or raises in it: as all actors do, *)
(* or the adapter is torn.                                                 *)
LEMMA AgreeCollective ==
    ASSUME Agreed, NEW k \in Actors, inbox[k] # <<>>, Served(k),
           NEW h, h = Head(inbox[k]), h.call = "collective",
           NEW x, Holding(k, h.slot, x),
           ~ Uneven(h) => x = Result(h, content[k][h.slot]),
           torn \subseteq torn', Uneven(h) /\ k \in h.bad => h.by \in torn',
           raised \subseteq raised', UNCHANGED <<life, got, slotOf, inputs>>,
           \A o \in Operations : \A y, z \in saved'[o] : y = z
    PROVE  AgreeInv'
<1> USE LeadIsActor DEF Agreed, AgreeInv, inputs
<1>1. /\ Shape /\ h \in Queue(k) /\ CallKinds'
      /\ \A j \in Actors : Queue(j)' \subseteq Queue(j)
      /\ \A j \in Actors : \A c \in Queue(j) : j # k \/ c # h => c \in Queue(j)'
      /\ \A j \in Actors : \A s : j # k \/ h.slot # s => About(j, s)' = About(j, s)
      /\ \A j \in Actors : \A s : \A c \in About(j, s) : LastAbout(j, s, c) =>
             LastAbout(j, s, c)' \/ (j = k /\ c = h /\ About(j, s)' = {})
    BY AboutServed
<1>2. \A j \in Actors : \A s \in Slots :
          content'[j][s] = IF j = k /\ s = h.slot THEN x ELSE content[j][s]
    BY HoldingOnly DEF PrivateInv
<1>3. \A j \in Actors : \A s : About(j, s)' \subseteq About(j, s)
    BY <1>1 DEF About
<1>4. CollectiveInv'
    <2>1. ASSUME NEW j \in Actors, NEW c \in Collectives(j)' PROVE Collected(c)'
        <3>1. Collected(c)
            BY <1>1, <2>1 DEF Collectives, CollectiveInv
        <3>2. ASSUME Uneven(c), c.by \notin torn', NEW i \in c.bad PROVE c \in Queue(i)'
            <4>1. i \in Actors /\ c \in Queue(i)
                BY <3>1, <3>2 DEF Collected
            <4>2. i # k \/ c # h
                BY <3>2
            <4> QED BY <1>1, <4>1, <4>2
        <3>3. Uneven(c)' <=> Uneven(c)
            BY DEF Uneven
        <3> QED BY <3>1, <3>2, <3>3 DEF Collected
    <2> QED BY <2>1 DEF CollectiveInv
<1>5. ASSUME NEW q \in Runs, life[q] = "reserving", NEW j \in Actors, Awaited(q, j)
      PROVE  Awaited(q, j)'
    <2>. PICK s : s = got[q]
        OBVIOUS
    <2>1. got'[q] = s /\ s \in Slots
        BY <1>5 DEF UseInv, Lent, PrivateInv, Contents
    <2>2. CASE About(j, s) = {} /\ content[j][s] = Fresh
        <3>1. j = k => h.slot # s
            BY <1>1, <2>2 DEF About
        <3> QED BY <1>2, <1>3, <2>1, <2>2, <3>1 DEF Awaited
    <2>3. ASSUME NEW c \in About(j, s), c.call = "reserve", c.by = q, LastAbout(j, s, c)
          PROVE  Awaited(q, j)'
        <3>1. LastAbout(j, s, c)'
            BY <1>1, <2>3
        <3>2. c \in Queue(j)'
            BY <3>1 DEF LastAbout, Queue
        <3> QED BY <2>1, <2>3, <3>1, <3>2 DEF Awaited, About
    <2> QED BY <1>5, <2>2, <2>3 DEF Awaited
<1>6. Reserving'
    BY <1>3, <1>5 DEF Reserving
<1>7. ASSUME NEW q \in Runs, NEW s \in Slots, slotOf[q] = s
      PROVE  Settled(q, s)'
    <2>1. Settled(q, s)
        BY <1>7 DEF Settling
    <2>2. OwnCalls(q, s)'
        BY <1>3, <2>1 DEF Settled, OwnCalls
    <2>3. CASE Torn(q)
        BY <2>2, <2>3 DEF Torn, Settled
    <2>4. CASE Tearing(s)
        <3>1. PICK j \in Actors : \E c \in About(j, s) : Uneven(c)
            BY <2>4 DEF Tearing
        <3>2. PICK c \in About(j, s) : Uneven(c)
            BY <3>1
        <3>3. c.call = "collective" /\ target[c.by] = q /\ c \in Queue(j) /\ c.slot = s
            BY <2>1, <3>2 DEF Settled, OwnCalls, About
        <3>4. Collected(c)
            BY <3>3 DEF CollectiveInv, Collectives
        <3>5. CASE c.by \in torn'
            <4>1. Torn(q)'
                BY <3>3, <3>5 DEF Torn
            <4> QED BY <2>2, <4>1 DEF Settled
        <3>6. CASE c.by \notin torn'
            <4>1. PICK i : i \in c.bad
                BY <3>2 DEF Uneven
            <4>2. i \in Actors /\ c \in Queue(i)
                BY <3>2, <3>4, <3>6, <4>1 DEF Collected
            <4>3. i # k \/ c # h
                BY <3>2, <3>6, <4>1
            <4>4. c \in About(i, s)' /\ Uneven(c)'
                BY <1>1, <3>2, <3>3, <4>2, <4>3 DEF About, Uneven
            <4>5. Tearing(s)'
                BY <4>2, <4>4 DEF Tearing
            <4> QED BY <2>2, <4>5 DEF Settled
        <3> QED BY <3>5, <3>6
    <2>5. CASE ~ Tearing(s) /\ Agreeing(s)
        <3>1. PICK y : \A j \in Actors : Leading(j, s, y)
            BY <2>5 DEF Agreeing
        <3>2. h.slot = s => ~ Uneven(h)
            BY <1>1, <2>5 DEF Tearing, About
        <3>3. h.slot = s => x = Result(h, content[k][s])
            BY <3>2
        <3>4. ASSUME NEW j \in Actors PROVE Leading(j, s, y)'
            <4>1. content'[j][s] =
                      IF j = k /\ h.slot = s THEN Result(h, content[k][s]) ELSE content[j][s]
                BY <1>2, <1>7, <3>3
            <4> QED BY <1>1, <3>1, <4>1, LeadingOn
        <3>5. Agreeing(s)'
            BY <3>4 DEF Agreeing
        <3> QED BY <2>2, <3>5 DEF Settled
    <2> QED BY <2>1, <2>3, <2>4, <2>5 DEF Settled
<1>8. Settling'
    BY <1>7 DEF Settling
<1> QED BY <1>1, <1>4, <1>6, <1>8

(* A call has one file at most.                                            *)
LEMMA OneFile ==
    ASSUME NEW c, \A x, y \in c.file : x = y, NEW file \in File(c)
    PROVE  file = CHOOSE f : f \in File(c)
<1>1. \A x, y \in File(c) : x = y
    BY DEF File
<1> QED BY <1>1

LEMMA AgreeReject ==
    ASSUME Agreed, NEW k \in Actors, Reject(k)
    PROVE  AgreeInv'
<1>1. PICK h : h = Head(inbox[k])
    OBVIOUS
<1>2. /\ inbox[k] # <<>> /\ h.call = "collective" /\ k \in h.bad /\ Served(k)
      /\ torn' = IF h.late \/ h.bad # Actors THEN torn \cup {h.by} ELSE torn
      /\ raised \subseteq raised' /\ UNCHANGED <<life, got, slotOf, inputs, saved>>
    BY <1>1, Zenon DEF Reject, Serves, backendVars
<1>3. h \in Queue(k)
    BY <1>1, <1>2, AboutServed
<1>4. Collected(h)
    BY <1>2, <1>3 DEF Agreed, AgreeInv, CollectiveInv, Collectives
<1>5. PICK part, file : file \in File(h) /\
          /\ ~ h.late => part = h.part
          /\ Holding(k, h.slot, Interrupted(part, kind[h.by], h.by, content[k][h.slot], file))
    <2>1. \E part \in IF ~ h.late THEN {h.part} ELSE IF kind[h.by] = "optim" THEN Parts ELSE {"end"} :
              \E file \in File(h) :
                  Holding(k, h.slot, Interrupted(part, kind[h.by], h.by, content[k][h.slot], file))
        BY <1>1, Zenon DEF Reject
    <2> QED BY <2>1
<1>6. PICK x : x = Interrupted(part, kind[h.by], h.by, content[k][h.slot], file)
    OBVIOUS
<1>7. ASSUME ~ Uneven(h) PROVE x = Result(h, content[k][h.slot])
    <2>1. ~ h.late /\ h.bad # {}
        BY <1>2, <1>7 DEF Uneven
    <2>2. part = h.part /\ file = CHOOSE f : f \in File(h)
        BY <1>4, <1>5, <2>1, OneFile DEF Collected
    <2> QED BY <1>6, <2>1, <2>2 DEF Result
<1>8. \A o \in Operations : \A y, z \in saved'[o] : y = z
    BY <1>2 DEF Agreed, AgreeInv, CollectiveInv
<1>9. torn \subseteq torn' /\ (Uneven(h) => h.by \in torn') /\ Holding(k, h.slot, x)
    BY <1>2, <1>5, <1>6 DEF Uneven
<1> QED BY <1>1, <1>2, <1>7, <1>8, <1>9, AgreeCollective

LEMMA AgreeCompute ==
    ASSUME Agreed, NEW k \in Actors, Compute(k)
    PROVE  AgreeInv'
<1>1. PICK h, y : h = Head(inbox[k]) /\ y = content[k][h.slot]
    OBVIOUS
<1>2. /\ inbox[k] # <<>> /\ h.call = "collective" /\ k \notin h.bad /\ Served(k)
      /\ \E file \in File(h) : Holding(k, h.slot, After(kind[h.by], h.by, y, file))
      /\ saved' = saved \/ saved' = [saved EXCEPT ![h.by] = {Written(y)}]
      /\ UNCHANGED <<life, got, slotOf, inputs, raised, torn>>
    BY <1>1, Zenon DEF Compute, Serves, backendVars
<1>3. h \in Queue(k)
    BY <1>1, <1>2, AboutServed
<1>4. Collected(h)
    BY <1>2, <1>3 DEF Agreed, AgreeInv, CollectiveInv, Collectives
<1>5. PICK file \in File(h) : Holding(k, h.slot, After(kind[h.by], h.by, y, file))
    BY <1>2
<1>6. PICK x : x = After(kind[h.by], h.by, y, file)
    OBVIOUS
<1>7. ASSUME ~ Uneven(h) PROVE x = Result(h, y)
    <2>1. h.bad = {}
        BY <1>2, <1>7 DEF Uneven
    <2>2. file = CHOOSE f : f \in File(h)
        BY <1>4, <1>5, OneFile DEF Collected
    <2> QED BY <1>6, <2>1, <2>2 DEF Result
<1>8. \A o \in Operations : \A v, w \in saved'[o] : v = w
    <2>1. DOMAIN saved = Operations /\ \A o \in Operations : \A v, w \in saved[o] : v = w
        BY DEF Agreed, PrivateInv, Past, AgreeInv, CollectiveInv
    <2> QED BY <1>2, <2>1
<1>9. Holding(k, h.slot, x) /\ raised \subseteq raised' /\ torn \subseteq torn'
    BY <1>2, <1>5, <1>6
<1>10. ~ Uneven(h) => x = Result(h, content[k][h.slot])
    BY <1>1, <1>7
<1> QED BY <1>1, <1>2, <1>8, <1>9, <1>10, AgreeCollective

LEMMA AgreeInvNext == Agreed /\ [Next]_vars => AgreeInv'
<1> SUFFICES ASSUME Agreed, [Next]_vars PROVE AgreeInv'
    OBVIOUS
<1>1. CASE UNCHANGED vars
    BY <1>1, AgreeQuiet DEF vars, backendVars
<1>2. CASE \E r \in Runs : CreateBegin(r) \/ RemoveBegin(r) \/ AdapterStep(r)
    <2>1. PICK r \in Runs : CreateBegin(r) \/ RemoveBegin(r) \/ AdapterStep(r)
        BY <1>2
    <2>2. CASE CreateBegin(r) \/ RemoveBegin(r) \/ RemoveEnds(r)
        <3>1. DOMAIN life = Runs
            BY DEF Agreed, SlotInv, Shape
        <3>2. /\ UNCHANGED <<got, slotOf, inbox, actorVars, stage, inputs>>
              /\ \E x \in {"locking", "failed", "leaving", "gone"} : life' = [life EXCEPT ![r] = x]
            BY <2>2 DEF CreateBegin, RemoveBegin, RemoveEnds, MovesTo
        <3>3. \A q \in Runs : life'[q] \in {"allocated", "reserving"} => life'[q] = life[q]
            BY <3>1, <3>2
        <3> QED BY <3>2, <3>3, AgreeQuiet
    <2> QED BY <2>1, <2>2, AgreeCalls, AgreeCreateEnds DEF AdapterStep
<1>3. CASE \E o \in Operations : OpBegin(o) \/ OpEnds(o)
    BY <1>3, AgreeOperations
<1>4. CASE \E k \in Actors : ActorStep(k) \/ Raise(k)
    BY <1>4, AgreeAllocate, AgreeSlots, AgreeReject, AgreeCompute DEF ActorStep
<1> QED BY <1>1, <1>2, <1>3, <1>4 DEF Next

(* When nothing is queued about the slot of a run, all actors have the     *)
(* same in it, whatever they have been asked to do, in whichever order     *)
(* they come to it, and whichever calls raise: only if an operation of the *)
(* run itself raised on some actors alone, or at different points, they    *)
(* may differ there, and no longer once the slot is lent again.            *)
THEOREM ActorsAlwaysAgree == Spec => []ActorsAgree
<1>1. Init => Agreed
    BY SlotInvInit, UseInvInit, PrivateInit, AgreeInit DEF Agreed
<1>2. Agreed /\ [Next]_vars => Agreed'
    BY SlotInvNext, UseInvNext, PrivateInvNext, AgreeInvNext DEF Agreed
<1>3. Agreed => ActorsAgree
    BY AgreeInvAgrees DEF Agreed
<1> QED BY <1>1, <1>2, <1>3, PTL DEF Spec

-----------------------------------------------------------------------------
(* The division of a request                                               *)

LEMMA Division ==
    ASSUME NEW n \in Nat, NEW w \in Nat, w > 0
    PROVE  /\ n \div w \in Nat /\ n % w \in 0..(w - 1)
           /\ n = w * (n \div w) + (n % w)
           /\ n >= w => n \div w > 0
OBVIOUS

(* Data that is not refused gives each actor at least one row, and no      *)
(* actor gets more than one row more than another (_shard_list).           *)
THEOREM ShardsAreEven ==
    ASSUME NEW n \in Nat, NEW w \in Nat, w > 0, NEW j \in 1..w, NEW k \in 1..w
    PROVE  /\ n >= w => ShardSize(n, w, j) > 0
           /\ ShardSize(n, w, j) <= ShardSize(n, w, k) + 1
BY Division DEF ShardSize

(* The first shard begins with the first row, each one where the one       *)
(* before it ends, and the last one ends with the last row: what forward   *)
(* collects from the actors is the answer to the request, in its order.    *)
THEOREM ShardsAreContiguous ==
    ASSUME NEW n \in Nat, NEW w \in Nat, w > 0, NEW k \in 1..w
    PROVE  /\ ShardStart(n, w, 1) = 1
           /\ ShardStart(n, w, k + 1) = ShardStart(n, w, k) + ShardSize(n, w, k)
           /\ ShardStart(n, w, w + 1) = n + 1
<1> DEFINE q == n \div w  r == n % w
<1>1. q \in Nat /\ r \in 0..(w - 1) /\ n = w * q + r
    BY Division
<1>2. ShardStart(n, w, 1) = 1
    BY <1>1 DEF ShardStart
<1>3. ShardStart(n, w, w + 1) = n + 1
    BY <1>1 DEF ShardStart
<1>4. ShardStart(n, w, k + 1) = ShardStart(n, w, k) + ShardSize(n, w, k)
    <2> HIDE DEF q, r
    <2>1. /\ ShardStart(n, w, k) = 1 + (k - 1) * q + (IF k - 1 <= r THEN k - 1 ELSE r)
          /\ ShardStart(n, w, k + 1) = 1 + k * q + (IF k <= r THEN k ELSE r)
          /\ ShardSize(n, w, k) = q + (IF k <= r THEN 1 ELSE 0)
        BY DEF ShardStart, ShardSize, q, r
    <2>2. k * q = (k - 1) * q + q /\ (k - 1) * q \in Nat /\ k * q \in Nat
        BY <1>1
    <2>3. (IF k <= r THEN k ELSE r) =
              (IF k - 1 <= r THEN k - 1 ELSE r) + (IF k <= r THEN 1 ELSE 0)
        BY <1>1
    <2> QED BY <1>1, <2>1, <2>2, <2>3
<1> QED BY <1>2, <1>3, <1>4

(* All actors make equally many micro-batches of their shards, so that     *)
(* they meet in every collective of forward_backward                       *)
(* (fsdp_training_backend.py, forward).                                    *)
THEOREM MicroBatchesAgree ==
    ASSUME NEW n \in Nat, NEW w \in Nat, w > 0, NEW mb \in Nat, NEW j \in 1..w, NEW k \in 1..w
    PROVE  MicroBatches(n, w, mb, j) = MicroBatches(n, w, mb, k)
<1>2. CASE MicroBatchSize(n, w, mb) = 0
    BY <1>2 DEF MicroBatches
<1>3. CASE MicroBatchSize(n, w, mb) # 0
    <2>1. /\ MicroBatchSize(n, w, mb) = mb /\ mb > 0
          /\ \A i \in 1..w : ShardSize(n, w, i) % mb = 0
          /\ \A i \in 1..w : ShardSize(n, w, i) \div mb = ShardSize(n, w, 1) \div mb
        BY <1>3, Zenon DEF MicroBatchSize
    <2>2. \A i \in 1..w : MicroBatches(n, w, mb, i) = ShardSize(n, w, 1) \div mb
        BY <2>1, Zenon DEF MicroBatches
    <2> QED BY <2>2
<1> QED BY <1>2, <1>3

-----------------------------------------------------------------------------
(* A part of a request: every row of it is a row of the request. Shards    *)
(* and micro-batches are.                                                  *)
IsPartOf(part, data) ==
    \A i \in DOMAIN part : \E j \in DOMAIN data : part[i] = data[j]

LEMMA SlicesAreParts ==
    ASSUME NEW Row, NEW data \in Seq(Row), NEW a \in Int, NEW b \in Int, a >= 1, b <= Len(data)
    PROVE  IsPartOf(SubSeq(data, a, b), data)
<1> DEFINE s == SubSeq(data, a, b)
<1>1. CASE a <= b
    <2>1. DOMAIN s = 1..(b - a + 1) /\ \A i \in DOMAIN s : s[i] = data[a + i - 1]
        BY <1>1
    <2>2. \A i \in DOMAIN s : a + i - 1 \in DOMAIN data
        BY <1>1, <2>1
    <2> QED BY <2>1, <2>2 DEF IsPartOf
<1>2. CASE a > b
    <2>1. DOMAIN s = {}
        BY <1>2
    <2> QED BY <2>1 DEF IsPartOf
<1> QED BY <1>1, <1>2

LEMMA ShardsAreParts ==
    ASSUME NEW Row, NEW data \in Seq(Row), NEW w \in Nat, w > 0, NEW k \in 1..w
    PROVE  IsPartOf(Shard(data, w, k), data)
<1> DEFINE n == Len(data)  q == n \div w  r == n % w
<1>1. n \in Nat
    OBVIOUS
<1>2. q \in Nat /\ r \in 0..(w - 1) /\ n = w * q + r
    BY <1>1, Division
<1> HIDE DEF q, r
<1>3. ShardStart(n, w, k) \in Int /\ ShardStart(n, w, k) >= 1
    <2>1. ShardStart(n, w, k) = 1 + (k - 1) * q + (IF k - 1 <= r THEN k - 1 ELSE r)
        BY DEF ShardStart, q, r
    <2>2. (k - 1) * q \in Nat
        BY <1>2
    <2> QED BY <1>2, <2>1, <2>2
<1>4. (ShardStart(n, w, k) + ShardSize(n, w, k)) - 1 \in Int
    <2>1. ShardSize(n, w, k) = q + (IF k <= r THEN 1 ELSE 0)
        BY DEF ShardSize, q, r
    <2> QED BY <1>2, <1>3, <2>1
<1>5. (ShardStart(n, w, k) + ShardSize(n, w, k)) - 1 <= n
    <2>1. ShardStart(n, w, k + 1) = ShardStart(n, w, k) + ShardSize(n, w, k)
        BY <1>1, ShardsAreContiguous
    <2>2. ShardStart(n, w, k + 1) = 1 + k * q + (IF k <= r THEN k ELSE r)
        BY DEF ShardStart, q, r
    <2>3. k * q \in Nat /\ w * q \in Nat /\ k * q <= w * q
        <3>1. w * q = k * q + (w - k) * q /\ (w - k) * q \in Nat /\ k * q \in Nat
            BY <1>2
        <3> QED BY <3>1
    <2>4. ShardStart(n, w, k) + ShardSize(n, w, k) \in Int
        BY <1>2, <2>1, <2>2, <2>3
    <2>5. ShardStart(n, w, k) + ShardSize(n, w, k) <= 1 + (w * q + r)
        BY <1>2, <2>1, <2>2, <2>3
    <2> DEFINE end == ShardStart(n, w, k) + ShardSize(n, w, k)
    <2>6. end \in Int /\ end <= 1 + n
        BY <1>2, <2>4, <2>5
    <2> HIDE DEF end
    <2>7. end - 1 <= n
        BY <1>1, <2>6
    <2> QED BY <2>7 DEF end
<1> QED BY <1>3, <1>4, <1>5, SlicesAreParts DEF Shard

(* What the backend's validation of the whole request accepts, the actors' *)
(* accepts in every part of it, with the fields that were found in the     *)
(* whole, and every field that is forwarded stacks in every micro-batch:   *)
(* fields cannot make one actor raise and leave the others in a collective.*)
THEOREM AcceptedFieldsPassInEveryPart ==
    ASSUME NEW Row, NEW data \in Seq(Row), FSDPAccepts(data),
           NEW part \in Seq(Row), IsPartOf(part, data)
    PROVE  ActorAccepts(part, Keys(data)) /\ Stacks(part, Keys(data), Owned)
<1>1. Keys(part) \subseteq Keys(data)
    BY DEF Keys, IsPartOf
<1>2. \A key \in Keys(data) \ Owned : Uniform(data, key)
    <2>1. data = <<>> => Keys(data) = {}
        BY DEF Keys
    <2> QED BY <2>1 DEF FSDPAccepts, Valid
<1>3. \A key \in Keys(data) \ Owned : Uniform(part, key)
    BY <1>2 DEF Uniform, IsPartOf
<1>4. FSDPAccepts(part)
    BY <1>1, <1>3 DEF FSDPAccepts, Valid
<1> QED BY <1>1, <1>3, <1>4 DEF ActorAccepts, Stacks

(* Every loss function finds the tensors it needs, whatever fields the     *)
(* client sent (fsdp_engine.py, _prepare_loss_fn_inputs).                  *)
THEOREM NeededTensorsAreThere ==
    ASSUME NEW keys, NEW rlhf \in BOOLEAN
    PROVE  Needed(rlhf) \subseteq LossKeys(keys, rlhf)
BY Zenon DEF Needed, LossKeys

(* A position that has a weight by default is scored against the next      *)
(* token of its own row, or against a target the client gave: never        *)
(* against a token of another one.                                         *)
THEOREM NoForeignLabels ==
    ASSUME NEW Row, NEW batch \in Seq(Row), NEW i \in DOMAIN batch,
           batch[i].length \in Nat, NEW p \in 1..batch[i].length,
           DefaultWeight(batch[i], p) # 0
    PROVE  Explicit(batch[i]) \/ Rolled(batch, i, p) = <<i, p + 1>>
BY DEF DefaultWeight, Rolled, Explicit
=============================================================================
