------------------------- MODULE PersistentStoreProofs -------------------------
(***************************************************************************)
(* Theorems about PersistentStore, for any keys, configurations, number of *)
(* starts and writes, with the file and with Redis. A server and a clear   *)
(* command that use one file at once are excluded (Apart) where section 5  *)
(* of the README says that the property fails with them.                   *)
(***************************************************************************)
EXTENDS PersistentStore, TLAPS

Apart == "online" \notin Faults

-----------------------------------------------------------------------------
(* Shapes. Values are anything: records, signatures, None.                 *)

Times == {"never", "later", "past"}
Stages == {"idle", "begun", "dumping", "opened", "filled", "done", "failed"}
Phases == {"off", "validating", "looking", "refused", "restoring", "signing", "up"}

IsEntry(e) == e = [value |-> e.value, expires |-> e.expires] /\ e.expires \in Times
IsImage(m) == m = [k \in AllKeys |-> m[k]] /\ \A k \in AllKeys : IsEntry(m[k])
IsFile(f) == f = [is |-> f.is, image |-> f.image] /\ f.is \in {"full", "torn", "none"} /\ IsImage(f.image)
IsCall(c) ==
    /\ c = [op |-> c.op, keys |-> c.keys, entry |-> c.entry, at |-> c.at]
    /\ c.op \in {"none", "read", "set", "pipeline", "delete"}
    /\ c.keys \subseteq AllKeys
    /\ IsEntry(c.entry)
    /\ c.at \in Stages
    /\ c.op = "none" => c = Idle
    /\ c.at = "begun" => c.entry.expires # "past"

(* Which calls there are in which mode, and that only memory and the       *)
(* temporary file are anything but whole.                                  *)
Shape ==
    /\ mode \in {"FILE", "REDIS"}
    /\ IsFile(disk) /\ IsFile(tmp)
    /\ cache = [p \in Processes |-> cache[p]] /\ call = [p \in Processes |-> call[p]]
    /\ \A p \in Processes : IsFile(cache[p]) /\ IsCall(call[p])
    /\ promised = [k \in AllKeys |-> promised[k]]
    /\ \A k \in AllKeys : promised[k] # None => IsEntry(promised[k]) /\ promised[k].expires # "past"

Modal ==
    /\ mode = "REDIS" =>
           /\ \A k \in AllKeys : disk.image[k].expires # "past"
           /\ disk.is = "full"
           /\ \A p \in Processes : /\ cache[p] = NoClient
                                   /\ call[p].at \in {"idle", "begun", "done", "failed"}
    /\ mode = "FILE" => \A p \in Processes : call[p].at # "begun"
    /\ \A p \in Processes : call[p].at \in {"dumping", "opened", "filled"} => cache[p].is = "full"
    /\ \A p \in Processes : cache[p].is \in {"none", "full"} /\ (cache[p].is = "none" => cache[p] = NoClient)

(* Where the processes are.                                                *)
Control ==
    /\ phase \in Phases
    /\ phase \in {"off", "refused"} => call[Server] = Idle
    /\ phase = "off" => cache[Server] = NoClient
    /\ phase # "off" => config \in Configs
    /\ phase \in {"validating", "looking", "restoring"} => call[Server].op = "read"
    /\ phase = "signing" => /\ call[Server].op = "set" /\ call[Server].keys = {Sig}
                            /\ call[Server].entry = Permanent(SignatureOf(config))
    /\ clearing \in {"idle", "scanning", "deleting"}
    /\ clearing = "idle" => call[Cli] = Idle /\ cache[Cli] = NoClient
    /\ clearing = "scanning" => call[Cli].op = "read"
    /\ clearing = "deleting" => call[Cli].op = "delete"
    /\ launches \in Nat /\ writes \in Nat

TypeInv == Shape /\ Modal /\ Control

-----------------------------------------------------------------------------
(* Durability.                                                             *)
Alone == mode = "FILE" => phase = "off" \/ clearing = "idle"

Moved == mode = "FILE" =>
    /\ disk.is # "torn"
    /\ \A p \in Processes : call[p].at = "filled" => tmp = cache[p]

Kept ==
    ~unread =>
    \A k \in AllKeys :
        /\ promised[k] # None =>
               /\ disk.image[k] = promised[k]
               /\ \A p \in Processes : cache[p] # NoClient => cache[p].image[k] = promised[k]
        /\ \A p \in Processes :
               call[p].op = "set" /\ call[p].at \in {"dumping", "opened", "filled"} /\ k \in call[p].keys =>
                   cache[p].image[k] = call[p].entry

DurableInv == TypeInv /\ Alone /\ Moved /\ Kept

-----------------------------------------------------------------------------
(* Transactions.                                                           *)
Ordered(m, w) ==
    \A k \in Keys : m[k] # Absent =>
        /\ m[k].value.n \in Nat /\ m[k].value.n <= w
        /\ \A j \in Keys : j \in m[k].value.with /\ m[j] # Absent => m[j].value.n >= m[k].value.n

WritesRecords(c) == c.op \in {"set", "pipeline"} /\ c.keys # {Sig}

Whole(c, w) ==
    /\ c.entry.value.n \in Nat /\ c.entry.value.n <= w
    /\ c.keys = Keys \/ \E k \in Keys : c.keys = {k} /\ c.entry.value.with = {k}

Newer(c, m) == \A k \in Keys : m[k] # Absent => m[k].value.n <= c.entry.value.n

AtomicInv ==
    /\ TypeInv
    /\ Ordered(disk.image, writes) /\ Ordered(tmp.image, writes)
    /\ \A p \in Processes :
           /\ Ordered(cache[p].image, writes)
           /\ call[p].at = "begun" /\ WritesRecords(call[p]) =>
                  Whole(call[p], writes) /\ Newer(call[p], disk.image)

-----------------------------------------------------------------------------
(* Records and signatures of the same models.                              *)
Models(c) == ModelsOf(c.fields["SUPPORTED_MODELS"])
Accepted == phase \in {"restoring", "signing", "up"}

Mine(k, v, m) ==
    /\ k \in Keys => v.by = m
    /\ k = Sig => \E c \in Configs : v = SignatureOf(c) /\ Models(c) = m

Owned(m) ==
    /\ \A k \in AllKeys :
           disk.image[k] # Absent /\ disk.image[k].expires # "past" => Mine(k, disk.image[k].value, m)
    /\ \A p \in Processes, k \in AllKeys :
           cache[p].image[k] # Absent => Mine(k, cache[p].image[k].value, m)
    /\ \A p \in Processes : call[p].at = "begun" /\ call[p].op \in {"set", "pipeline"} =>
           \A k \in call[p].keys : Mine(k, call[p].entry.value, m)

HasClient ==
    mode = "FILE" => /\ phase # "off" => cache[Server].is = "full"
                     /\ clearing # "idle" => cache[Cli].is = "full"

Mirrored ==
    mode = "FILE" /\ phase \in {"validating", "looking"} =>
        \A k \in AllKeys : disk.image[k].expires # "past" => disk.image[k] = cache[Server].image[k]

OwnerInv ==
    /\ DurableInv /\ HasClient
    /\ restored # {} => phase \in {"signing", "up"}
    /\ ~unread /\ ~blind =>
           /\ \E m : Owned(m) /\ (Accepted => m = Models(config))
           /\ Mirrored
           /\ \A r \in restored : r.by = Models(config)

-----------------------------------------------------------------------------
(* Records are beside a signature of one of the owners, as long as nothing *)
(* got troubled: so a server finds no store without a signature but an     *)
(* empty one, and no signature but of one that signed last or still may    *)
(* have signed.                                                            *)
Beside(m, os) ==
    /\ \A k \in Keys : m[k] # Absent /\ m[k].expires # "past" => m[Sig] # Absent
    /\ m[Sig] # Absent => m[Sig].expires = "never" /\ \E c \in os : m[Sig].value = SignatureOf(c)

SignedBy(m) == m[Sig] = Permanent(SignatureOf(config))

AllBeside == Beside(disk.image, owners) /\ \A p \in Processes : Beside(cache[p].image, owners)

Blank == phase = "looking" => \A k \in AllKeys : View(Server)[k] = Absent

SignedStore ==
    /\ phase \in {"signing", "up"} =>
           config \in owners /\ (mode = "FILE" => SignedBy(cache[Server].image))
    /\ phase = "up" \/ (phase = "signing" /\ call[Server].at = "done") => SignedBy(disk.image)
    /\ phase = "up" => Sig \notin call[Server].keys

Refusal == phase = "refused" => \E c \in owners : ~Compatible(config, c)

Cleaning ==
    clearing = "deleting" =>
        /\ phase = "off"
        /\ mode = "FILE" => \A k \in AllKeys : cache[Cli].image[k] = Absent
        /\ mode = "REDIS" => \A k \in AllKeys : disk.image[k] # Absent => k \in call[Cli].keys
        /\ call[Cli].at = "done" => \A k \in AllKeys : disk.image[k] = Absent

Signatures == owners \subseteq Configs /\ AllBeside /\ Blank /\ SignedStore /\ Refusal /\ Cleaning

SignInv == DurableInv /\ HasClient /\ (~troubled => Signatures)

-----------------------------------------------------------------------------
(* Steps of one process leave the other's call and memory alone.           *)
Moves(p, c, at) ==
    /\ call' = [q \in Processes |-> call'[q]]
    /\ \A q \in Processes : q # p => call'[q] = call[q]
    /\ call'[p] = [op |-> c.op, keys |-> c.keys, entry |-> c.entry, at |-> at]

Remembers(p, m) ==
    /\ cache' = [q \in Processes |-> cache'[q]]
    /\ \A q \in Processes : q # p => cache'[q] = cache[q]
    /\ cache'[p] = m

LEMMA IdleShape == IsCall(Idle) /\ IsFile(NoFile) /\ IsImage(Empty) /\ IsEntry(Absent)
BY DEF IsCall, Idle, IsEntry, Absent, Times, Stages, IsFile, NoFile, IsImage, Empty

LEMMA MovedCall ==
    ASSUME NEW p \in Processes, call = [q \in Processes |-> call[q]], IsCall(call[p]), NEW at,
           call' = [call EXCEPT ![p].at = at]
    PROVE  Moves(p, call[p], at)
<1>1. [call[p] EXCEPT !.at = at] =
          [op |-> call[p].op, keys |-> call[p].keys, entry |-> call[p].entry, at |-> at]
    BY DEF IsCall
<1>2. call' = [q \in Processes |-> IF q = p THEN [call[p] EXCEPT !.at = at] ELSE call[q]]
    OBVIOUS
<1> QED BY <1>1, <1>2 DEF Moves

LEMMA AssignedCall ==
    ASSUME NEW p \in Processes, call = [q \in Processes |-> call[q]], NEW c, IsCall(c),
           call' = [call EXCEPT ![p] = c]
    PROVE  Moves(p, c, c.at)
<1>1. c = [op |-> c.op, keys |-> c.keys, entry |-> c.entry, at |-> c.at]
    BY DEF IsCall
<1>2. call' = [q \in Processes |-> IF q = p THEN c ELSE call[q]]
    OBVIOUS
<1> QED BY <1>1, <1>2 DEF Moves

LEMMA AssignedCache ==
    ASSUME NEW p \in Processes, cache = [q \in Processes |-> cache[q]], NEW m,
           cache' = [cache EXCEPT ![p] = m]
    PROVE  Remembers(p, m)
BY DEF Remembers

LEMMA AppliedShape ==
    ASSUME NEW m, IsImage(m), NEW c, IsCall(c), c.op # "none"
    PROVE  /\ IsImage(Applied(c, m))
           /\ c.op = "read" => \A k \in AllKeys :
                  Applied(c, m)[k] = IF m[k].expires = "past" THEN Absent ELSE m[k]
           /\ c.op \in {"set", "pipeline"} => \A k \in AllKeys :
                  Applied(c, m)[k] = IF k \in c.keys THEN c.entry ELSE m[k]
           /\ c.op = "delete" => \A k \in AllKeys :
                  Applied(c, m)[k] = IF k \in c.keys THEN Absent ELSE m[k]
<1>1. CASE c.op = "read"
    BY <1>1, IdleShape DEF Applied, Purged, IsImage
<1>2. CASE c.op \in {"set", "pipeline"}
    <2>1. IsEntry(c.entry)
        BY DEF IsCall
    <2> QED BY <1>2, <2>1 DEF Applied, IsImage
<1>3. CASE c.op = "delete"
    BY <1>3, IdleShape DEF Applied, IsImage
<1> QED BY <1>1, <1>2, <1>3 DEF IsCall

LEMMA KnownShape ==
    ASSUME NEW c, IsCall(c), NEW at,
           \A k \in AllKeys : promised[k] # None => IsEntry(promised[k]) /\ promised[k].expires # "past",
           promised' = Known(c, at)
    PROVE  /\ promised' = [k \in AllKeys |-> promised'[k]]
           /\ \A k \in AllKeys : promised'[k] # None => IsEntry(promised'[k]) /\ promised'[k].expires # "past"
           /\ \A k \in AllKeys : promised'[k] # None =>
                  \/ promised'[k] = promised[k] /\ (c.op = "read" \/ k \notin c.keys)
                  \/ c.op = "set" /\ at = "done" /\ promised'[k] = c.entry /\ k \in c.keys
<1>1. \A k \in AllKeys : promised'[k] =
          IF c.op = "read" \/ k \notin c.keys THEN promised[k]
          ELSE IF c.op = "set" /\ at = "done" /\ c.entry.expires # "past" THEN c.entry
          ELSE None
    BY DEF Known
<1>2. IsEntry(c.entry)
    BY DEF IsCall
<1>3. promised' = [k \in AllKeys |-> promised'[k]]
    BY DEF Known
<1> QED BY <1>1, <1>2, <1>3

(* What the begin of a call does, with a file: the memory has the change   *)
(* at once, made to the image of the client or to the one that was loaded. *)
LoadedBy(client, image) ==
    \/ client # NoClient /\ image = client.image
    \/ client = NoClient /\ image = disk.image
    \/ client = NoClient /\ image = Empty /\ image # disk.image /\ unread'

BegunInFile(p, c, client, image) ==
    /\ IsImage(image) /\ LoadedBy(client, image)
    /\ Remembers(p, Full(Applied(c, image)))
    /\ \/ Dumps(c, image) /\ Moves(p, c, "dumping") /\ promised' = Known(c, "dumping")
       \/ ~Dumps(c, image) /\ Moves(p, c, "done") /\ promised' = Known(c, "done")

LEMMA BeginEffect ==
    ASSUME TypeInv, NEW p \in Processes, NEW c, IsCall(c), c.at = "begun", c.op # "none",
           NEW client, client \in {NoClient, cache[p]}, Begin(p, c, client)
    PROVE  /\ UNCHANGED <<mode, disk, tmp>>
           /\ unread => unread'
           /\ \/ /\ mode = "REDIS" /\ Moves(p, c, "begun")
                 /\ UNCHANGED <<cache, unread>> /\ promised' = Known(c, "begun")
              \/ mode = "FILE" /\ \E image : BegunInFile(p, c, client, image)
<1> USE DEF TypeInv, Shape
<1>1. UNCHANGED <<mode, disk, tmp>>
    BY DEF Begin
<1>2. CASE mode = "REDIS"
    <2>1. call' = [call EXCEPT ![p] = c] /\ promised' = Known(c, "begun") /\ UNCHANGED <<cache, unread>>
        BY <1>2 DEF Begin
    <2>2. Moves(p, c, c.at)
        BY <2>1, AssignedCall
    <2> QED BY <1>1, <1>2, <2>1, <2>2
<1>3. CASE mode = "FILE"
    <2>1. PICK image \in IF client # NoClient THEN {client.image}
                         ELSE {disk.image} \cup (IF "read" \in Faults THEN {Empty} ELSE {}) :
              LET at == IF Dumps(c, image) THEN "dumping" ELSE "done"
              IN  /\ cache' = [cache EXCEPT ![p] = Full(Applied(c, image))]
                  /\ call' = [call EXCEPT ![p] = [c EXCEPT !.at = at]]
                  /\ promised' = Known(c, at)
                  /\ unread' = (unread \/ (client = NoClient /\ image # disk.image))
        BY <1>3 DEF Begin
    <2>2. IsImage(image)
        BY <2>1, IdleShape DEF IsFile
    <2>3. LoadedBy(client, image)
        BY <2>1 DEF LoadedBy
    <2>4. Remembers(p, Full(Applied(c, image)))
        BY <2>1, AssignedCache
    <2>5. ASSUME NEW at, at \in {"dumping", "done"}, call' = [call EXCEPT ![p] = [c EXCEPT !.at = at]]
          PROVE  Moves(p, c, at)
        <3> DEFINE d == [c EXCEPT !.at = at]
        <3>1. d = [op |-> c.op, keys |-> c.keys, entry |-> c.entry, at |-> at]
            BY DEF IsCall
        <3>2. IsCall(d)
            <4>1. d.op = c.op /\ d.keys = c.keys /\ d.entry = c.entry /\ d.at = at
                BY <3>1
            <4> HIDE DEF d
            <4>2. d = [op |-> d.op, keys |-> d.keys, entry |-> d.entry, at |-> d.at]
                BY <3>1, <4>1
            <4> QED BY <2>5, <4>1, <4>2 DEF IsCall, Stages
        <3>3. Moves(p, d, d.at)
            BY <3>2, <2>5, AssignedCall
        <3> QED BY <3>1, <3>3 DEF Moves
    <2>6. BegunInFile(p, c, client, image)
        BY <2>1, <2>2, <2>3, <2>4, <2>5 DEF BegunInFile
    <2> QED BY <1>1, <1>3, <2>1, <2>6
<1> QED BY <1>2, <1>3

-----------------------------------------------------------------------------
(* Shape and Modal.                                                        *)
LEMMA MovedShape ==
    ASSUME NEW p \in Processes, \A q \in Processes : IsCall(call[q]),
           NEW c, IsCall(c), NEW at \in Stages, Moves(p, c, at),
           c.op # "none" \/ at = c.at, at = "begun" => c.entry.expires # "past"
    PROVE  \A q \in Processes : IsCall(call'[q])
<1>1. IsCall(call'[p])
    <2>1. /\ call'[p].op = c.op /\ call'[p].keys = c.keys /\ call'[p].entry = c.entry
          /\ call'[p].at = at
          /\ call'[p] = [op |-> call'[p].op, keys |-> call'[p].keys, entry |-> call'[p].entry,
                         at |-> call'[p].at]
        BY DEF Moves
    <2>2. c.op = "none" => call'[p] = Idle
        BY DEF Moves, IsCall
    <2> QED BY <2>1, <2>2 DEF IsCall
<1> QED BY <1>1 DEF Moves

LEMMA RememberedShape ==
    ASSUME NEW p \in Processes, \A q \in Processes : IsFile(cache[q]),
           NEW m, IsFile(m), Remembers(p, m)
    PROVE  \A q \in Processes : IsFile(cache'[q])
BY DEF Remembers

LEMMA BeginKeepsType ==
    ASSUME TypeInv, NEW p \in Processes, NEW c, IsCall(c), c.at = "begun", c.op # "none",
           NEW client, client \in {NoClient, cache[p]}, Begin(p, c, client)
    PROVE  Shape' /\ Modal'
<1> USE DEF TypeInv
<1>1. /\ UNCHANGED <<mode, disk, tmp>>
      /\ \/ /\ mode = "REDIS" /\ Moves(p, c, "begun")
            /\ UNCHANGED <<cache, unread>> /\ promised' = Known(c, "begun")
         \/ mode = "FILE" /\ \E image : BegunInFile(p, c, client, image)
    BY BeginEffect
<1>2. CASE mode = "REDIS"
    <2>1. Moves(p, c, "begun") /\ UNCHANGED cache /\ promised' = Known(c, "begun")
        BY <1>1, <1>2
    <2>2. \A q \in Processes : IsCall(call'[q])
        BY <2>1, MovedShape DEF Shape, IsCall, Stages
    <2>3. /\ promised' = [k \in AllKeys |-> promised'[k]]
          /\ \A k \in AllKeys :
                 promised'[k] # None => IsEntry(promised'[k]) /\ promised'[k].expires # "past"
        BY <2>1, KnownShape DEF Shape
    <2>4. Shape'
        BY <1>1, <2>1, <2>2, <2>3 DEF Shape, Moves
    <2>5. \A q \in Processes : call'[q].at \in {call[q].at, "begun"}
        BY <2>1 DEF Moves
    <2>6. Modal'
        BY <1>1, <1>2, <2>1, <2>5 DEF Modal
    <2> QED BY <2>4, <2>6
<1>3. CASE mode = "FILE"
    <2>1. PICK image : BegunInFile(p, c, client, image)
        BY <1>1, <1>3
    <2>2. IsImage(Applied(c, image))
        BY <2>1, AppliedShape DEF BegunInFile
    <2>3. IsFile(Full(Applied(c, image))) /\ Full(Applied(c, image)).is = "full"
        BY <2>2 DEF IsFile, Full
    <2>4. \A q \in Processes : IsFile(cache'[q])
        BY <2>1, <2>3, RememberedShape DEF BegunInFile, Shape
    <2>5. PICK at \in {"dumping", "done"} : Moves(p, c, at) /\ promised' = Known(c, at)
        BY <2>1 DEF BegunInFile
    <2>6. \A q \in Processes : IsCall(call'[q])
        BY <2>5, MovedShape DEF Shape, Stages
    <2>7. /\ promised' = [k \in AllKeys |-> promised'[k]]
          /\ \A k \in AllKeys :
                 promised'[k] # None => IsEntry(promised'[k]) /\ promised'[k].expires # "past"
        BY <2>5, KnownShape DEF Shape
    <2>8. Shape'
        BY <1>1, <2>1, <2>4, <2>5, <2>6, <2>7 DEF Shape, Moves, BegunInFile, Remembers
    <2>9. /\ \A q \in Processes : q # p => call'[q] = call[q] /\ cache'[q] = cache[q]
          /\ call'[p].at \in {"dumping", "done"} /\ cache'[p].is = "full"
        BY <2>1, <2>3, <2>5 DEF Moves, BegunInFile, Remembers
    <2>10. Modal'
        BY <1>1, <1>3, <2>9 DEF Modal
    <2> QED BY <2>8, <2>10
<1> QED BY <1>1, <1>2, <1>3

(* The part of a step that changes a call and what is promised of its keys.*)
LEMMA GotoEffect ==
    ASSUME TypeInv, NEW p \in Processes, NEW at, Goto(p, at)
    PROVE  /\ Moves(p, call[p], at)
           /\ promised' = Known(call[p], at)
BY MovedCall DEF TypeInv, Shape, Goto

LEMMA WentTo ==
    ASSUME TypeInv, NEW p \in Processes, NEW at, Goto(p, at)
    PROVE  call'[p].at = at
<1>1. Moves(p, call[p], at)
    BY GotoEffect
<1> QED BY <1>1 DEF Moves

LEMMA GotoKeepsShape ==
    ASSUME TypeInv, NEW p \in Processes, NEW at \in Stages \ {"begun"}, Goto(p, at),
           call[p].at # "idle",
           UNCHANGED <<mode, cache>>, IsFile(disk)', IsFile(tmp)'
    PROVE  Shape'
<1> USE DEF TypeInv
<1>1. Moves(p, call[p], at) /\ promised' = Known(call[p], at)
    BY GotoEffect
<1>2. call[p].op # "none"
    BY DEF Shape, IsCall, Idle
<1>3. \A q \in Processes : IsCall(call'[q])
    BY <1>1, <1>2, MovedShape DEF Shape
<1> QED BY <1>1, <1>3, KnownShape DEF Shape, Moves

LEMMA DumpKeepsType ==
    ASSUME TypeInv, NEW p \in Processes, OpenTmp(p) \/ FillTmp(p) \/ ReplaceFile(p) \/ RaiseDump(p)
    PROVE  Shape' /\ Modal'
<1> USE DEF TypeInv
<1>1. mode = "FILE" /\ UNCHANGED <<mode, cache>> /\ call[p].at \in {"dumping", "opened", "filled"}
    BY DEF OpenTmp, FillTmp, ReplaceFile, RaiseDump, Shape, Modal
<1>2. IsFile(disk)' /\ IsFile(tmp)'
    BY IdleShape DEF OpenTmp, FillTmp, ReplaceFile, RaiseDump, Shape, TornFile, IsFile
<1>3. PICK at \in {"opened", "filled", "done", "failed"} : Goto(p, at)
    BY DEF OpenTmp, FillTmp, ReplaceFile, RaiseDump
<1>4. Shape'
    BY <1>1, <1>2, <1>3, GotoKeepsShape DEF Stages
<1>5. Moves(p, call[p], at)
    BY <1>3, GotoEffect
<1>6. Modal'
    BY <1>1, <1>3, <1>5 DEF Modal, Moves
<1> QED BY <1>4, <1>6

LEMMA RedisKeepsType ==
    ASSUME TypeInv, NEW p \in Processes, RedisReply(p) \/ RedisError(p)
    PROVE  Shape' /\ Modal'
<1> USE DEF TypeInv
<1>1. mode = "REDIS" /\ UNCHANGED <<mode, cache, tmp>> /\ call[p].at = "begun"
    BY DEF RedisReply, RedisError, Shape, Modal
<1>2. call[p].op # "none" /\ IsCall(call[p])
    BY <1>1 DEF Shape, IsCall, Idle
<1>3. IsImage(Applied(call[p], disk.image))
    BY <1>2, AppliedShape DEF Shape, IsFile
<1>4. IsFile(disk)' /\ disk'.is = "full" /\ disk'.image \in {disk.image, Applied(call[p], disk.image)}
    BY <1>1, <1>3 DEF RedisReply, RedisError, Full, IsFile, Shape, Modal
<1>5. PICK at \in {"done", "failed"} : Goto(p, at)
    BY DEF RedisReply, RedisError
<1>6. Shape'
    BY <1>1, <1>4, <1>5, GotoKeepsShape DEF Stages, Shape
<1>7. Moves(p, call[p], at)
    BY <1>5, GotoEffect
<1>8. \A k \in AllKeys : disk'.image[k].expires # "past"
    <2> SUFFICES ASSUME NEW k \in AllKeys PROVE Applied(call[p], disk.image)[k].expires # "past"
        BY <1>1, <1>4 DEF Modal
    <2>1. disk.image[k].expires # "past" /\ Absent.expires # "past" /\ call[p].entry.expires # "past"
        BY <1>1, <1>2 DEF Modal, Absent, IsCall
    <2>2. IsImage(disk.image)
        BY DEF Shape, IsFile
    <2> QED BY <1>2, <2>1, <2>2, AppliedShape DEF IsCall
<1>9. Modal'
    BY <1>1, <1>4, <1>5, <1>7, <1>8 DEF Modal, Moves
<1> QED BY <1>6, <1>9

(* A call that has returned is forgotten, or its process ends.             *)
Ends(p) ==
    /\ UNCHANGED <<mode, disk, tmp, promised, unread>>
    /\ call' = [call EXCEPT ![p] = Idle]
    /\ cache' = cache \/ cache' = [cache EXCEPT ![p] = NoClient]

LEMMA EndEffect ==
    ASSUME TypeInv, NEW p \in Processes, Ends(p)
    PROVE  /\ Moves(p, Idle, "idle")
           /\ cache' = cache \/ Remembers(p, NoClient)
<1>1. Moves(p, Idle, Idle.at)
    BY IdleShape, AssignedCall DEF TypeInv, Shape, Ends
<1>2. cache' = cache \/ Remembers(p, NoClient)
    BY AssignedCache DEF TypeInv, Shape, Ends
<1> QED BY <1>1, <1>2 DEF Idle

LEMMA EndKeepsType ==
    ASSUME TypeInv, NEW p \in Processes, Ends(p)
    PROVE  Shape' /\ Modal'
<1> USE DEF TypeInv
<1>1. UNCHANGED <<mode, disk, tmp, promised>>
    BY DEF Ends
<1>2. Moves(p, Idle, "idle")
    BY EndEffect
<1>3. cache' = cache \/ Remembers(p, NoClient)
    BY EndEffect
<1>4. call'[p] = Idle
    BY <1>2 DEF Moves, Idle
<1>5. IsCall(Idle) /\ IsFile(NoClient) /\ Idle.at = "idle" /\ NoClient.is = "none"
    BY IdleShape DEF Idle, NoClient, NoFile
<1>6. \A q \in Processes : IsCall(call'[q])
    BY <1>2, <1>4, <1>5 DEF Moves, Shape
<1>7. /\ \A q \in Processes : cache'[q] = cache[q] \/ cache'[q] = NoClient
      /\ \A q \in Processes : q # p => cache'[q] = cache[q] /\ call'[q] = call[q]
      /\ cache' = [q \in Processes |-> cache'[q]]
    BY <1>2, <1>3 DEF Remembers, Moves, Shape
<1>8. Shape'
    BY <1>1, <1>2, <1>5, <1>6, <1>7 DEF Shape, Moves
<1>9. Modal'
    BY <1>1, <1>4, <1>5, <1>7 DEF Modal
<1> QED BY <1>8, <1>9

-----------------------------------------------------------------------------
(* Time passes.                                                            *)
Older(e) == IF e.expires = "later" THEN [value |-> e.value, expires |-> "past"] ELSE e

LEMMA AgedImage ==
    ASSUME NEW m, IsImage(m)
    PROVE  IsImage(Aged(m)) /\ \A k \in AllKeys : Aged(m)[k] = Older(m[k])
<1>1. ASSUME NEW k \in AllKeys
      PROVE  Aged(m)[k] = Older(m[k]) /\ IsEntry(Older(m[k]))
    <2>1. IsEntry(m[k])
        BY DEF IsImage
    <2>2. [m[k] EXCEPT !.expires = "past"] = [value |-> m[k].value, expires |-> "past"]
        BY <2>1 DEF IsEntry
    <2>3. Aged(m)[k] = Older(m[k])
        BY <2>2 DEF Aged, Later, Older
    <2>4. IsEntry(Older(m[k]))
        BY <2>1 DEF IsEntry, Older, Times
    <2> QED BY <2>3, <2>4
<1> QED BY <1>1 DEF IsImage, Aged

LEMMA DroppedImage ==
    ASSUME NEW m, IsImage(m)
    PROVE  /\ IsImage(Dropped(m))
           /\ \A k \in AllKeys : Dropped(m)[k] = IF m[k].expires = "later" THEN Absent ELSE m[k]
BY IdleShape DEF Dropped, Later, IsImage

OlderFile(f) == [is |-> f.is, image |-> Aged(f.image)]

LEMMA AgedFile ==
    ASSUME NEW f, IsFile(f)
    PROVE  [f EXCEPT !.image = Aged(@)] = OlderFile(f) /\ IsFile(OlderFile(f))
<1>1. [f EXCEPT !.image = Aged(@)] = OlderFile(f)
    BY DEF IsFile, OlderFile
<1>2. OlderFile(f).is = f.is /\ OlderFile(f).image = Aged(f.image)
    BY DEF OlderFile
<1>3. IsImage(Aged(f.image))
    BY AgedImage DEF IsFile
<1> QED BY <1>1, <1>2, <1>3 DEF IsFile, OlderFile

OlderCall(c) ==
    IF c.at # "begun"
    THEN [op |-> c.op, keys |-> c.keys, entry |-> Older(c.entry), at |-> c.at] ELSE c

LEMMA AgedCallShape ==
    ASSUME NEW c, IsCall(c)
    PROVE  /\ IsCall(OlderCall(c))
           /\ (IF c.at # "begun" /\ c.entry.expires = "later"
               THEN [c EXCEPT !.entry.expires = "past"] ELSE c) = OlderCall(c)
           /\ OlderCall(c).op = c.op /\ OlderCall(c).keys = c.keys /\ OlderCall(c).at = c.at
           /\ OlderCall(c).entry = IF c.at = "begun" THEN c.entry ELSE Older(c.entry)
<1>1. IsEntry(c.entry) /\ c = [op |-> c.op, keys |-> c.keys, entry |-> c.entry, at |-> c.at]
    BY DEF IsCall
<1>2. IsEntry(Older(c.entry))
    BY <1>1 DEF IsEntry, Older, Times
<1>3. /\ OlderCall(c).op = c.op /\ OlderCall(c).keys = c.keys /\ OlderCall(c).at = c.at
      /\ OlderCall(c).entry = IF c.at = "begun" THEN c.entry ELSE Older(c.entry)
    BY <1>1 DEF OlderCall
<1>4. OlderCall(c) = [op |-> OlderCall(c).op, keys |-> OlderCall(c).keys,
                      entry |-> OlderCall(c).entry, at |-> OlderCall(c).at]
    BY <1>1 DEF OlderCall
<1>5. c.op = "none" => OlderCall(c) = Idle
    BY DEF OlderCall, IsCall, Idle, Older, Absent
<1>6. IsCall(OlderCall(c))
    BY <1>1, <1>2, <1>3, <1>4, <1>5 DEF IsCall
<1>7. CASE c.at # "begun" /\ c.entry.expires = "later"
    <2>1. [c.entry EXCEPT !.expires = "past"] = Older(c.entry)
        BY <1>1, <1>7 DEF IsEntry, Older
    <2>2. [c EXCEPT !.entry.expires = "past"] = [c EXCEPT !.entry = [c.entry EXCEPT !.expires = "past"]]
        BY <1>1
    <2>3. [c EXCEPT !.entry = Older(c.entry)] =
              [op |-> c.op, keys |-> c.keys, entry |-> Older(c.entry), at |-> c.at]
        BY <1>1
    <2>4. [c EXCEPT !.entry.expires = "past"] = OlderCall(c)
        BY <1>7, <2>1, <2>2, <2>3 DEF OlderCall
    <2> QED BY <1>3, <1>6, <1>7, <2>4
<1>8. CASE ~(c.at # "begun" /\ c.entry.expires = "later")
    <2>1. OlderCall(c) = c
        BY <1>1, <1>8 DEF OlderCall, Older
    <2> QED BY <1>3, <1>6, <1>8, <2>1
<1> QED BY <1>7, <1>8

LEMMA ExpireEffect ==
    ASSUME TypeInv, Expire
    PROVE  /\ mode' = mode /\ unread' = unread
           /\ IsFile(disk') /\ disk'.is = disk.is
           /\ \A k \in AllKeys : disk'.image[k] =
                  IF mode = "REDIS" /\ disk.image[k].expires = "later" THEN Absent
                  ELSE Older(disk.image[k])
           /\ tmp' = OlderFile(tmp)
           /\ cache' = [p \in Processes |-> OlderFile(cache[p])]
           /\ call' = [p \in Processes |-> OlderCall(call[p])]
           /\ promised' = [k \in AllKeys |->
                  IF promised[k] # None /\ promised[k].expires = "later" THEN None ELSE promised[k]]
<1> USE DEF TypeInv
<1>1. mode' = mode /\ unread' = unread /\ tmp' = OlderFile(tmp)
    BY AgedFile DEF Expire, Shape
<1>2. cache' = [p \in Processes |-> OlderFile(cache[p])]
    BY AgedFile DEF Expire, Shape
<1>3. call' = [p \in Processes |-> OlderCall(call[p])]
    <2>1. call' = [p \in Processes |->
              IF call[p].at # "begun" /\ call[p].entry.expires = "later"
              THEN [call[p] EXCEPT !.entry.expires = "past"] ELSE call[p]]
        BY DEF Expire
    <2>2. \A p \in Processes : call'[p] = OlderCall(call[p])
        BY <2>1, AgedCallShape DEF Shape
    <2> QED BY <2>1, <2>2
<1>4. promised' = [k \in AllKeys |->
          IF promised[k] # None /\ promised[k].expires = "later" THEN None ELSE promised[k]]
    BY DEF Expire
<1>5. CASE mode = "REDIS"
    <2>1. disk' = [disk EXCEPT !.image = Dropped(disk.image)]
        BY <1>5 DEF Expire
    <2>2. disk' = [is |-> disk.is, image |-> Dropped(disk.image)]
        BY <2>1 DEF Shape, IsFile
    <2>3. IsImage(disk.image)
        BY DEF Shape, IsFile
    <2>4. IsFile(disk') /\ disk'.is = disk.is
        BY <2>2, <2>3, DroppedImage DEF Shape, IsFile
    <2>5. \A k \in AllKeys : disk.image[k].expires # "later" => Older(disk.image[k]) = disk.image[k]
        BY DEF Older
    <2>6. \A k \in AllKeys : disk'.image[k] =
              IF mode = "REDIS" /\ disk.image[k].expires = "later" THEN Absent ELSE Older(disk.image[k])
        BY <1>5, <2>2, <2>3, <2>5, DroppedImage
    <2> QED BY <1>1, <1>2, <1>3, <1>4, <2>4, <2>6
<1>6. CASE mode = "FILE"
    <2>1. disk' = [disk EXCEPT !.image = Aged(disk.image)]
        BY <1>6 DEF Expire
    <2>2. disk' = [is |-> disk.is, image |-> Aged(disk.image)]
        BY <2>1 DEF Shape, IsFile
    <2>3. IsImage(disk.image)
        BY DEF Shape, IsFile
    <2>4. IsFile(disk') /\ disk'.is = disk.is
        BY <2>2, <2>3, AgedImage DEF Shape, IsFile
    <2>5. \A k \in AllKeys : disk'.image[k] =
              IF mode = "REDIS" /\ disk.image[k].expires = "later" THEN Absent ELSE Older(disk.image[k])
        BY <1>6, <2>2, <2>3, AgedImage
    <2> QED BY <1>1, <1>2, <1>3, <1>4, <2>4, <2>5
<1> QED BY <1>5, <1>6 DEF Shape

LEMMA ExpireKeepsType ==
    ASSUME TypeInv, Expire
    PROVE  Shape' /\ Modal'
<1> USE DEF TypeInv
<1>1. mode' = mode /\ IsFile(disk') /\ disk'.is = disk.is
    BY ExpireEffect
<1>2. \A k \in AllKeys : disk'.image[k] =
          IF mode = "REDIS" /\ disk.image[k].expires = "later" THEN Absent ELSE Older(disk.image[k])
    BY ExpireEffect
<1>3. tmp' = OlderFile(tmp) /\ cache' = [p \in Processes |-> OlderFile(cache[p])]
    BY ExpireEffect
<1>4. call' = [p \in Processes |-> OlderCall(call[p])]
    BY ExpireEffect
<1>5. promised' = [k \in AllKeys |->
          IF promised[k] # None /\ promised[k].expires = "later" THEN None ELSE promised[k]]
    BY ExpireEffect
<1>6. IsFile(tmp') /\ \A p \in Processes : IsFile(cache'[p]) /\ cache'[p].is = cache[p].is
    BY <1>3, AgedFile DEF Shape, OlderFile
<1>7. \A p \in Processes : IsCall(call'[p]) /\ call'[p].at = call[p].at
    BY <1>4, AgedCallShape DEF Shape
<1>8. \A k \in AllKeys : promised'[k] # None => IsEntry(promised'[k]) /\ promised'[k].expires # "past"
    BY <1>5 DEF Shape
<1>9. Shape'
    BY <1>1, <1>3, <1>4, <1>5, <1>6, <1>7, <1>8 DEF Shape
<1>10. \A p \in Processes : cache[p] = NoClient => cache'[p] = NoClient
    <2>1. Aged(Empty) = Empty
        BY DEF Aged, Empty, Later, Absent
    <2>2. OlderFile(NoClient) = NoClient
        BY <2>1 DEF OlderFile, NoClient, NoFile
    <2> QED BY <1>3, <2>2
<1>11. mode = "REDIS" => \A k \in AllKeys : disk'.image[k].expires # "past"
    BY <1>2 DEF Modal, Older, Absent
<1>12. Modal'
    BY <1>1, <1>6, <1>7, <1>10, <1>11 DEF Modal
<1> QED BY <1>9, <1>12

-----------------------------------------------------------------------------
(* The calls that processes make.                                          *)
LEMMA CallShapes ==
    /\ \A ks \in SUBSET AllKeys : /\ IsCall(Read(ks)) /\ Read(ks).at = "begun" /\ Read(ks).op = "read"
                                  /\ IsCall(Delete(ks)) /\ Delete(ks).at = "begun" /\ Delete(ks).op = "delete"
                                  /\ Delete(ks).keys = ks
    /\ \A v : \A ks \in SUBSET AllKeys, e \in {Permanent(v), Expiring(v)} :
           /\ IsCall(Set(ks, e)) /\ Set(ks, e).at = "begun" /\ Set(ks, e).op = "set"
           /\ Set(ks, e).entry = e /\ Set(ks, e).keys = ks
           /\ IsCall(Pipeline(ks, e)) /\ Pipeline(ks, e).at = "begun" /\ Pipeline(ks, e).op = "pipeline"
           /\ Pipeline(ks, e).entry = e /\ Pipeline(ks, e).keys = ks
<1>1. \A v : \A e \in {Permanent(v), Expiring(v)} : IsEntry(e) /\ e.expires # "past"
    BY DEF Permanent, Expiring, IsEntry, Times
<1>2. IsEntry(Absent) /\ Absent.expires # "past"
    BY IdleShape DEF Absent
<1>3. ASSUME NEW ks \in SUBSET AllKeys, NEW e, IsEntry(e), e.expires # "past",
             NEW op \in {"read", "set", "pipeline", "delete"}
      PROVE  IsCall([op |-> op, keys |-> ks, entry |-> e, at |-> "begun"])
    BY <1>3 DEF IsCall, Stages
<1>4. ASSUME NEW ks \in SUBSET AllKeys
      PROVE  /\ IsCall(Read(ks)) /\ Read(ks).at = "begun" /\ Read(ks).op = "read"
             /\ IsCall(Delete(ks)) /\ Delete(ks).at = "begun" /\ Delete(ks).op = "delete"
             /\ Delete(ks).keys = ks
    BY <1>2, <1>3 DEF Read, Delete
<1>5. ASSUME NEW ks \in SUBSET AllKeys, NEW v, NEW e \in {Permanent(v), Expiring(v)}
      PROVE  /\ IsCall(Set(ks, e)) /\ Set(ks, e).at = "begun" /\ Set(ks, e).op = "set"
             /\ Set(ks, e).entry = e /\ Set(ks, e).keys = ks
             /\ IsCall(Pipeline(ks, e)) /\ Pipeline(ks, e).at = "begun" /\ Pipeline(ks, e).op = "pipeline"
             /\ Pipeline(ks, e).entry = e /\ Pipeline(ks, e).keys = ks
    <2>1. IsEntry(e) /\ e.expires # "past"
        BY <1>1
    <2> QED BY <2>1, <1>3 DEF Set, Pipeline
<1> QED BY <1>4, <1>5

(* A call p makes, with the client it has or with a new one.               *)
Begins(p, c) ==
    /\ IsCall(c) /\ c.at = "begun" /\ c.op # "none"
    /\ \E client : client \in {NoClient, cache[p]} /\ Begin(p, c, client)

LEMMA BeginsEffect ==
    ASSUME TypeInv, NEW p \in Processes, NEW c, Begins(p, c)
    PROVE  /\ Shape' /\ Modal'
           /\ UNCHANGED <<mode, disk, tmp>>
           /\ unread => unread'
           /\ \A q \in Processes : q # p => call'[q] = call[q] /\ cache'[q] = cache[q]
           /\ call'[p].op = c.op /\ call'[p].keys = c.keys /\ call'[p].entry = c.entry
           /\ call'[p].at \in {"begun", "dumping", "done"}
<1>1. PICK client : client \in {NoClient, cache[p]} /\ Begin(p, c, client)
    BY DEF Begins
<1>2. IsCall(c) /\ c.at = "begun" /\ c.op # "none"
    BY DEF Begins
<1>3. Shape' /\ Modal'
    BY <1>1, <1>2, BeginKeepsType
<1>4. /\ UNCHANGED <<mode, disk, tmp>>
      /\ unread => unread'
      /\ \/ /\ mode = "REDIS" /\ Moves(p, c, "begun")
            /\ UNCHANGED <<cache, unread>> /\ promised' = Known(c, "begun")
         \/ mode = "FILE" /\ \E image : BegunInFile(p, c, client, image)
    BY <1>1, <1>2, BeginEffect
<1>5. /\ \A q \in Processes : q # p => call'[q] = call[q] /\ cache'[q] = cache[q]
      /\ \E at \in {"begun", "dumping", "done"} : Moves(p, c, at)
    BY <1>4 DEF Moves, BegunInFile, Remembers
<1>6. /\ call'[p].op = c.op /\ call'[p].keys = c.keys /\ call'[p].entry = c.entry
      /\ call'[p].at \in {"begun", "dumping", "done"}
    BY <1>5 DEF Moves
<1> QED BY <1>3, <1>4, <1>5, <1>6

(* What a step of the storage of p leaves of p's call.                     *)
LEMMA StorageEffect ==
    ASSUME TypeInv, NEW p \in Processes, Storage(p)
    PROVE  /\ Shape' /\ Modal'
           /\ UNCHANGED <<mode, cache, program, known, unread>>
           /\ call[p].at \in {"begun", "dumping", "opened", "filled"} /\ call[p].op # "none"
           /\ \E at \in {"opened", "filled", "done", "failed"} :
                  Moves(p, call[p], at) /\ promised' = Known(call[p], at)
<1>1. Shape' /\ Modal'
    BY DumpKeepsType, RedisKeepsType DEF Storage
<1>2. /\ UNCHANGED <<mode, cache, program, known, unread>>
      /\ call[p].at \in {"begun", "dumping", "opened", "filled"}
    BY DEF Storage, OpenTmp, FillTmp, ReplaceFile, RaiseDump, RedisReply, RedisError
<1>3. PICK at \in {"opened", "filled", "done", "failed"} : Goto(p, at)
    BY DEF Storage, OpenTmp, FillTmp, ReplaceFile, RaiseDump, RedisReply, RedisError
<1>4. Moves(p, call[p], at) /\ promised' = Known(call[p], at)
    BY <1>3, GotoEffect
<1>5. call[p].op # "none"
    BY <1>2 DEF TypeInv, Shape, IsCall, Idle
<1> QED BY <1>1, <1>2, <1>4, <1>5

LEMMA StorageCalls ==
    ASSUME TypeInv, NEW p \in Processes, Storage(p), NEW q \in Processes
    PROVE  /\ call'[q].op = call[q].op /\ call'[q].keys = call[q].keys
           /\ call'[q].entry = call[q].entry
           /\ call'[q].at = "begun" => call[q].at = "begun"
           /\ q # p => call'[q] = call[q]
<1>1. PICK at \in {"opened", "filled", "done", "failed"} : Moves(p, call[p], at)
    BY StorageEffect
<1>2. CASE q = p
    BY <1>1, <1>2 DEF Moves
<1>3. CASE q # p
    BY <1>1, <1>3 DEF Moves
<1> QED BY <1>2, <1>3

-----------------------------------------------------------------------------
(* The actions of the two processes as calls that begin or end.            *)
MovesServer ==
    \/ \E c \in Configs : Launch(c)
    \/ Validated \/ LookedForData \/ Restored \/ Signed
    \/ \E k \in Keys : SaveRecord(k) \/ DeleteRecord(k)
    \/ SaveRecordsAtomic(Keys)
    \/ Return \/ Exit

MovesCli == Clear \/ Scanned \/ Cleared \/ CliExit

LEMMA ServerCalls ==
    ASSUME TypeInv, MovesServer
    PROVE  Ends(Server) \/ \E c : Begins(Server, c)
<1> USE DEF Begins
<1>1. ASSUME NEW ks \in {{Sig}, AllKeys}
      PROVE  IsCall(Read(ks)) /\ Read(ks).at = "begun" /\ Read(ks).op # "none"
    BY CallShapes DEF AllKeys
<1>2. ASSUME NEW c \in Configs, Launch(c) PROVE \E d : Begins(Server, d)
    BY <1>1, <1>2 DEF Launch
<1>3. Restore => \E d : Begins(Server, d)
    BY <1>1 DEF Restore
<1>4. CASE Validated
    BY <1>1, <1>3, <1>4, SMTT(30) DEF Validated, Refuse, Ends
<1>5. CASE LookedForData
    BY <1>3, <1>5 DEF LookedForData, Refuse, Ends
<1>6. CASE Restored
    <2>1. Begin(Server, Set({Sig}, Permanent(SignatureOf(config))), cache[Server])
        BY <1>6 DEF Restored
    <2> QED BY <2>1, CallShapes DEF AllKeys
<1>7. ASSUME NEW k \in Keys, SaveRecord(k) PROVE \E d : Begins(Server, d)
    <2>1. PICK v : \E e \in {Permanent(v), Expiring(v)} : Begin(Server, Set({k}, e), cache[Server])
        BY <1>7 DEF SaveRecord
    <2> QED BY <2>1, CallShapes DEF AllKeys
<1>8. CASE SaveRecordsAtomic(Keys)
    <2>1. PICK v : Begin(Server, Pipeline(Keys, Permanent(v)), cache[Server])
        BY <1>8 DEF SaveRecordsAtomic
    <2> QED BY <2>1, CallShapes DEF AllKeys
<1>9. ASSUME NEW k \in Keys, DeleteRecord(k) PROVE \E d : Begins(Server, d)
    <2>1. Begin(Server, Delete({k}), cache[Server])
        BY <1>9 DEF DeleteRecord
    <2> QED BY <2>1, CallShapes DEF AllKeys
<1>10. CASE Signed \/ Return \/ Exit
    BY <1>10 DEF Signed, Return, Exit, Ends, ghosts
<1> QED BY <1>2, <1>4, <1>5, <1>6, <1>7, <1>8, <1>9, <1>10 DEF MovesServer

LEMMA CliCalls ==
    ASSUME TypeInv, MovesCli
    PROVE  Ends(Cli) \/ \E c : Begins(Cli, c) /\ c.op \in {"read", "delete"}
<1> USE DEF Begins
<1>1. CASE Clear
    <2>1. Begin(Cli, Read(AllKeys), NoClient)
        BY <1>1 DEF Clear
    <2> QED BY <2>1, CallShapes
<1>2. CASE Scanned
    <2>1. CASE EndClear /\ UNCHANGED <<mode, disk, tmp, promised, unread>>
        BY <2>1 DEF EndClear, Ends
    <2>2. CASE Begin(Cli, Delete(Present(View(Cli))), cache[Cli])
        <3>1. Present(View(Cli)) \subseteq AllKeys
            BY DEF Present
        <3> QED BY <2>2, <3>1, CallShapes
    <2> QED BY <1>2, <2>1, <2>2 DEF Scanned
<1>3. CASE Cleared \/ CliExit
    BY <1>3 DEF Cleared, CliExit, EndClear, Ends, ghosts
<1> QED BY <1>1, <1>2, <1>3 DEF MovesCli

-----------------------------------------------------------------------------
(* Control.                                                                *)
LEMMA TypeParts ==
    TypeInv' <=> Shape' /\ Modal' /\ Control'
BY DEF TypeInv

LEMMA BeginControl ==
    ASSUME TypeInv, NEW c, NEW p \in Processes, NEW client \in {NoClient, cache[p]}, Begin(p, c, client),
           IsCall(c), c.at = "begun", c.op # "none"
    PROVE  /\ call'[p].op = c.op /\ call'[p].keys = c.keys /\ call'[p].entry = c.entry
           /\ \A q \in Processes : q # p => call'[q] = call[q] /\ cache'[q] = cache[q]
BY BeginsEffect DEF Begins

LEMMA ServerControl ==
    ASSUME TypeInv, MovesServer
    PROVE  Control'
<1> USE DEF TypeInv, Control, program, counters, known, ghosts
<1>0. Server \in Processes /\ Cli \in Processes /\ Server # Cli
    BY DEF Processes, Server, Cli
<1>1. UNCHANGED clearing /\ call'[Cli] = call[Cli] /\ cache'[Cli] = cache[Cli]
    <2>1. CASE Ends(Server)
        <3>1. UNCHANGED clearing
            BY DEF MovesServer, Launch, Validated, LookedForData, Restored, Signed, SaveRecord,
                   DeleteRecord, SaveRecordsAtomic, Return, Exit
        <3> QED BY <1>0, <2>1, <3>1, EndEffect DEF Moves, Remembers
    <2>2. CASE \E c : Begins(Server, c)
        <3>1. UNCHANGED clearing
            BY DEF MovesServer, Launch, Validated, LookedForData, Restored, Signed, SaveRecord,
                   DeleteRecord, SaveRecordsAtomic, Return, Exit
        <3> QED BY <1>0, <2>2, <3>1, BeginsEffect
    <2> QED BY <2>1, <2>2, ServerCalls
<1>2. ASSUME NEW ks \in {{Sig}, AllKeys}, NEW client \in {NoClient, cache[Server]},
             Begin(Server, Read(ks), client)
      PROVE  call'[Server].op = "read"
    <2>1. IsCall(Read(ks)) /\ Read(ks).at = "begun" /\ Read(ks).op = "read"
        BY CallShapes DEF AllKeys
    <2> QED BY <1>0, <1>2, <2>1, BeginControl
<1>3. ASSUME NEW c \in Configs, Launch(c) PROVE Control'
    <2>1. call'[Server].op = "read"
        BY <1>2, <1>3 DEF Launch
    <2>2. /\ phase' = "validating" /\ config' = c /\ launches' = launches + 1 /\ UNCHANGED writes
        BY <1>3 DEF Launch
    <2> QED BY <1>1, <2>1, <2>2 DEF Phases
<1>4. CASE Validated
    <2>1. UNCHANGED <<config, launches, writes>> /\ phase = "validating"
        BY <1>4 DEF Validated
    <2>2. \/ phase' \in {"looking", "restoring"} /\ call'[Server].op = "read"
          \/ phase' = "refused" /\ call'[Server] = Idle
        BY <1>0, <1>2, <1>4, EndEffect, SMTT(30) DEF Validated, Restore, Refuse, Shape
    <2> QED BY <1>1, <2>1, <2>2 DEF Phases
<1>5. CASE LookedForData
    <2>1. UNCHANGED <<config, launches, writes>> /\ phase = "looking"
        BY <1>5 DEF LookedForData
    <2>2. \/ phase' = "restoring" /\ call'[Server].op = "read"
          \/ phase' = "refused" /\ call'[Server] = Idle
        BY <1>0, <1>2, <1>5, SMTT(30) DEF LookedForData, Restore, Refuse, Shape
    <2> QED BY <1>1, <2>1, <2>2 DEF Phases
<1>6. CASE Restored
    <2> DEFINE c == Set({Sig}, Permanent(SignatureOf(config)))
    <2>1. UNCHANGED <<config, launches, writes>> /\ phase = "restoring" /\ phase' = "signing"
          /\ Begin(Server, c, cache[Server])
        BY <1>6 DEF Restored
    <2>2. IsCall(c) /\ c.at = "begun" /\ c.op = "set" /\ c.entry = Permanent(SignatureOf(config))
          /\ c.keys = {Sig}
        BY CallShapes DEF AllKeys
    <2> HIDE DEF c
    <2>3. call'[Server].op = "set" /\ call'[Server].keys = {Sig}
          /\ call'[Server].entry = Permanent(SignatureOf(config))
        BY <1>0, <2>1, <2>2, BeginControl
    <2>4. SignatureOf(config') = SignatureOf(config)
        BY <2>1
    <2> QED BY <1>1, <2>1, <2>3, <2>4 DEF Phases
<1>7. CASE Signed \/ Return
    BY <1>1, <1>7 DEF Signed, Return, Phases
<1>8. CASE Exit
    <2>1. call'[Server] = Idle /\ cache'[Server] = NoClient
        BY <1>0, <1>8 DEF Exit, Shape
    <2> QED BY <1>1, <1>8, <2>1 DEF Exit, Phases
<1>9. CASE \/ \E k \in Keys : SaveRecord(k) \/ DeleteRecord(k)
           \/ SaveRecordsAtomic(Keys)
    <2>1. UNCHANGED <<phase, config, launches>> /\ phase = "up" /\ writes' \in {writes, writes + 1}
        BY <1>9 DEF SaveRecord, DeleteRecord, SaveRecordsAtomic, Serving
    <2> QED BY <1>1, <2>1 DEF Phases
<1> QED BY <1>3, <1>4, <1>5, <1>6, <1>7, <1>8, <1>9 DEF MovesServer

LEMMA CliControl ==
    ASSUME TypeInv, MovesCli
    PROVE  Control'
<1> USE DEF TypeInv, Control, program, counters, known, ghosts
<1>0. Server \in Processes /\ Cli \in Processes /\ Server # Cli
    BY DEF Processes, Server, Cli
<1>1. /\ UNCHANGED <<phase, config, launches, writes>>
      /\ call'[Server] = call[Server] /\ cache'[Server] = cache[Server]
    <2>1. UNCHANGED <<phase, config, launches, writes>>
        BY DEF MovesCli, Clear, Scanned, Cleared, CliExit
    <2>2. CASE Ends(Cli)
        BY <1>0, <2>1, <2>2, EndEffect DEF Moves, Remembers
    <2>3. CASE \E c : Begins(Cli, c)
        BY <1>0, <2>1, <2>3, BeginsEffect
    <2> QED BY <2>2, <2>3, CliCalls
<1>2. SignatureOf(config') = SignatureOf(config)
    BY <1>1
<1>3. EndClear => clearing' = "idle" /\ call'[Cli] = Idle /\ cache'[Cli] = NoClient
    BY <1>0 DEF EndClear, Shape
<1>4. CASE Clear
    <2>1. IsCall(Read(AllKeys)) /\ Read(AllKeys).at = "begun" /\ Read(AllKeys).op = "read"
        BY CallShapes
    <2>2. Begin(Cli, Read(AllKeys), NoClient) /\ clearing' = "scanning"
        BY <1>4 DEF Clear
    <2>3. call'[Cli].op = "read"
        BY <1>0, <2>1, <2>2, BeginControl
    <2> QED BY <1>1, <1>2, <2>2, <2>3
<1>5. CASE Scanned
    <2>1. CASE EndClear
        <3>1. clearing' = "idle" /\ call'[Cli] = Idle /\ cache'[Cli] = NoClient
            BY <1>3, <2>1
        <3> QED BY <1>1, <1>2, <3>1
    <2>2. CASE clearing' = "deleting" /\ Begin(Cli, Delete(Present(View(Cli))), cache[Cli])
        <3> DEFINE d == Delete(Present(View(Cli)))
        <3>1. IsCall(d) /\ d.at = "begun" /\ d.op = "delete"
            <4>1. Present(View(Cli)) \in SUBSET AllKeys
                BY DEF Present
            <4> QED BY <4>1, CallShapes
        <3> HIDE DEF d
        <3>2. call'[Cli].op = "delete"
            BY <1>0, <2>2, <3>1, BeginControl DEF d
        <3> QED BY <1>1, <1>2, <2>2, <3>2
    <2> QED BY <1>5, <2>1, <2>2 DEF Scanned
<1>6. CASE Cleared \/ CliExit
    BY <1>1, <1>2, <1>3, <1>6 DEF Cleared, CliExit
<1> QED BY <1>4, <1>5, <1>6 DEF MovesCli

LEMMA NextCases ==
    ASSUME Next
    PROVE  (\E p \in Processes : Storage(p)) \/ MovesServer \/ MovesCli \/ Expire
BY DEF Next, MovesServer, MovesCli

LEMMA TypeInit == Init => TypeInv
<1> SUFFICES ASSUME Init PROVE TypeInv
    OBVIOUS
<1>1. IsCall(Idle) /\ IsFile(NoFile) /\ IsImage(Empty)
    BY IdleShape
<1>2. IsFile(Full(Empty)) /\ Full(Empty).is = "full" /\ Full(Empty).image = Empty
    BY <1>1 DEF IsFile, Full
<1>3. Shape
    BY <1>1, <1>2, ModesAssumption DEF Init, Shape, NoClient
<1>4. Modal
    <2>1. \A k \in AllKeys : Empty[k].expires # "past"
        BY DEF Empty, Absent
    <2> QED BY <1>2, <2>1 DEF Init, Modal, NoClient, NoFile, Idle
<1>5. Control
    <2>1. \A p \in Processes : call[p] = Idle /\ cache[p] = NoClient
        BY DEF Init
    <2>2. Server \in Processes /\ Cli \in Processes
        BY DEF Processes
    <2> QED BY <2>1, <2>2 DEF Init, Control, Phases
<1> QED BY <1>3, <1>4, <1>5 DEF TypeInv

LEMMA TypeStep ==
    ASSUME TypeInv, [Next]_vars
    PROVE  TypeInv'
<1>0. Server \in Processes /\ Cli \in Processes
    BY DEF Processes
<1>1. CASE UNCHANGED vars
    <2>1. Shape' /\ Modal'
        BY <1>1 DEF vars, TypeInv, Shape, Modal
    <2>2. Control'
        <3>1. UNCHANGED <<phase, config, clearing, launches, writes, call, cache>>
            BY <1>1 DEF vars, program, counters
        <3> QED BY <3>1 DEF TypeInv, Control
    <2> QED BY <2>1, <2>2, TypeParts
<1>2. ASSUME NEW p \in Processes, Storage(p) PROVE TypeInv'
    <2>1. Shape' /\ Modal'
        BY <1>2, StorageEffect
    <2>2. /\ UNCHANGED <<cache, program>> /\ call[p].op # "none"
          /\ \E at : Moves(p, call[p], at)
        BY <1>2, StorageEffect
    <2>3. Control'
        <3>1. UNCHANGED <<phase, config, clearing, launches, writes>>
            BY <2>2 DEF program
        <3>2. call[p] # Idle
            BY <2>2 DEF Idle
        <3>3. \A q \in Processes : /\ call'[q].op = call[q].op /\ call'[q].keys = call[q].keys
                                   /\ call'[q].entry = call[q].entry
                                   /\ call[q] = Idle => call'[q] = Idle
            BY <2>2, <3>2 DEF Moves
        <3> QED BY <1>0, <2>2, <3>1, <3>3 DEF TypeInv, Control
    <2> QED BY <2>1, <2>3, TypeParts
<1>3. CASE MovesServer
    <2>1. Shape' /\ Modal'
        BY <1>0, <1>3, ServerCalls, BeginsEffect, EndKeepsType
    <2> QED BY <1>3, <2>1, ServerControl, TypeParts
<1>4. CASE MovesCli
    <2>1. Shape' /\ Modal'
        BY <1>0, <1>4, CliCalls, BeginsEffect, EndKeepsType
    <2> QED BY <1>4, <2>1, CliControl, TypeParts
<1>5. CASE Expire
    <2>1. Shape' /\ Modal'
        BY <1>5, ExpireKeepsType
    <2>2. UNCHANGED <<phase, config, clearing, launches, writes>>
        BY <1>5 DEF Expire, counters
    <2>3. /\ call' = [p \in Processes |-> OlderCall(call[p])]
          /\ cache' = [p \in Processes |-> OlderFile(cache[p])]
        BY <1>5, ExpireEffect
    <2>4. \A q \in Processes : /\ call'[q].op = call[q].op /\ call'[q].keys = call[q].keys
                               /\ call[q].entry.expires = "never" => call'[q].entry = call[q].entry
                               /\ call[q] = Idle => call'[q] = Idle
        <3>1. OlderCall(Idle) = Idle
            BY DEF OlderCall, Idle, Older, Absent
        <3> QED BY <2>3, <3>1, AgedCallShape DEF TypeInv, Shape, Older
    <2>5. \A q \in Processes : cache[q] = NoClient => cache'[q] = NoClient
        <3>1. Aged(Empty) = Empty
            BY DEF Aged, Empty, Later, Absent
        <3>2. OlderFile(NoClient) = NoClient
            BY <3>1 DEF OlderFile, NoClient, NoFile
        <3> QED BY <2>3, <3>2
    <2>6. \A v : Permanent(v).expires = "never"
        BY DEF Permanent
    <2>7. Control'
        BY <1>0, <2>2, <2>4, <2>5, <2>6 DEF TypeInv, Control
    <2> QED BY <2>1, <2>7, TypeParts
<1> QED BY <1>1, <1>2, <1>3, <1>4, <1>5, NextCases

-----------------------------------------------------------------------------
(* What was acknowledged is durable.                                       *)
LEMMA AloneStep ==
    ASSUME Apart, TypeInv, Alone, [Next]_vars
    PROVE  Alone'
<1>1. CASE UNCHANGED <<mode, phase, clearing>>
    BY <1>1 DEF Alone
<1>2. CASE MovesServer
    <2>1. mode' = mode /\ clearing' = clearing
        <3>1. mode' = mode
            BY <1>2, ServerCalls, BeginsEffect DEF Ends, Processes
        <3>2. clearing' = clearing
            BY <1>2 DEF MovesServer, Launch, Validated, LookedForData, Restored, Signed, SaveRecord,
                   DeleteRecord, SaveRecordsAtomic, Return, Exit, program, counters
        <3> QED BY <3>1, <3>2
    <2>2. phase' = "off" \/ phase # "off" \/ (mode = "REDIS" \/ clearing = "idle")
        BY <1>2 DEF MovesServer, Launch, MayMeet, Apart, Validated, LookedForData, Restored, Signed,
               SaveRecord, DeleteRecord, SaveRecordsAtomic, Return, Exit, Serving
    <2> QED BY <2>1, <2>2 DEF Alone
<1>3. CASE MovesCli
    <2>1. mode' = mode /\ phase' = phase
        <3>1. mode' = mode
            BY <1>3, CliCalls, BeginsEffect DEF Ends, Processes
        <3>2. phase' = phase
            BY <1>3 DEF MovesCli, Clear, Scanned, Cleared, CliExit
        <3> QED BY <3>1, <3>2
    <2>2. clearing' = "idle" \/ clearing # "idle" \/ (mode = "REDIS" \/ phase = "off")
        BY <1>3 DEF MovesCli, Clear, Scanned, Cleared, CliExit, EndClear, MayMeet, Apart
    <2> QED BY <2>1, <2>2 DEF Alone
<1>4. CASE Expire
    <2>1. UNCHANGED <<mode, phase, clearing>>
        BY <1>4 DEF Expire
    <2> QED BY <1>1, <2>1
<1>5. ASSUME NEW p \in Processes, Storage(p) PROVE Alone'
    <2>1. UNCHANGED <<mode, phase, clearing>>
        BY <1>5, StorageEffect DEF program
    <2> QED BY <1>1, <2>1
<1>6. CASE UNCHANGED vars
    BY <1>1, <1>6 DEF vars, program
<1> QED BY <1>2, <1>3, <1>4, <1>5, <1>6, NextCases

(* With a file, a process that is in a call has the file for itself.       *)
LEMMA OtherIsIdle ==
    ASSUME TypeInv, Alone, mode = "FILE", NEW p \in Processes, call[p].op # "none",
           NEW q \in Processes, q # p
    PROVE  call[q] = Idle /\ cache[q] = NoClient
BY DEF TypeInv, Control, Alone, Processes, Server, Cli, Idle

LEMMA BeginKeepsDurable ==
    ASSUME DurableInv, NEW p \in Processes, NEW c, Begins(p, c),
           mode = "FILE" => \A q \in Processes : q # p => call[q] = Idle /\ cache[q] = NoClient
    PROVE  Moved' /\ Kept'
<1> USE DEF DurableInv
<1>1. PICK client : client \in {NoClient, cache[p]} /\ Begin(p, c, client)
    BY DEF Begins
<1>2. IsCall(c) /\ c.at = "begun" /\ c.op # "none"
    BY DEF Begins
<1>3. /\ UNCHANGED <<mode, disk, tmp>>
      /\ unread => unread'
      /\ \/ /\ mode = "REDIS" /\ Moves(p, c, "begun")
            /\ UNCHANGED <<cache, unread>> /\ promised' = Known(c, "begun")
         \/ mode = "FILE" /\ \E image : BegunInFile(p, c, client, image)
    BY <1>1, <1>2, BeginEffect
<1>4. CASE mode = "REDIS"
    <2>1. Moves(p, c, "begun") /\ UNCHANGED cache /\ promised' = Known(c, "begun")
        BY <1>3, <1>4
    <2>2. \A k \in AllKeys : promised'[k] # None => promised'[k] = promised[k]
        BY <1>2, <2>1, KnownShape DEF TypeInv, Shape
    <2>3. \A q \in Processes : /\ cache[q] = NoClient
                               /\ call'[q].at \notin {"dumping", "opened", "filled"}
        BY <1>4, <2>1 DEF TypeInv, Modal, Moves
    <2> QED BY <1>3, <1>4, <2>1, <2>2, <2>3 DEF Moved, Kept
<1>5. CASE mode = "FILE"
    <2>1. PICK image : BegunInFile(p, c, client, image)
        BY <1>3, <1>5
    <2>2. PICK at \in {"dumping", "done"} :
              /\ Moves(p, c, at) /\ promised' = Known(c, at)
              /\ c.op = "set" => at = "dumping"
        BY <2>1 DEF BegunInFile, Dumps
    <2>3. \A k \in AllKeys : promised'[k] # None =>
              promised'[k] = promised[k] /\ (c.op = "read" \/ k \notin c.keys)
        BY <1>2, <2>2, KnownShape DEF TypeInv, Shape
    <2>4. /\ \A q \in Processes : q # p => cache'[q] = NoClient /\ call'[q] = Idle
          /\ cache'[p] = Full(Applied(c, image))
          /\ call'[p].at # "filled" /\ call'[p].op = c.op /\ call'[p].keys = c.keys
          /\ call'[p].entry = c.entry
        BY <1>5, <2>1, <2>2 DEF BegunInFile, Remembers, Moves
    <2>5. Moved'
        BY <1>3, <2>4 DEF Moved, Idle
    <2>6. ASSUME ~unread', NEW k \in AllKeys, promised'[k] # None
          PROVE  disk'.image[k] = promised'[k] /\ cache'[p].image[k] = promised'[k]
        <3>1. disk.image[k] = promised[k] /\ image[k] = promised[k] /\ promised[k].expires # "past"
            BY <1>1, <1>3, <2>1, <2>3, <2>6 DEF BegunInFile, LoadedBy, Kept, TypeInv, Shape
        <3>2. Applied(c, image)[k] = image[k]
            BY <1>2, <2>1, <2>3, <2>6, <3>1, AppliedShape DEF BegunInFile, IsCall
        <3> QED BY <1>3, <2>3, <2>4, <2>6, <3>1, <3>2 DEF Full
    <2>7. ASSUME NEW k \in AllKeys, c.op = "set", k \in c.keys
          PROVE  cache'[p].image[k] = c.entry
        BY <1>2, <2>1, <2>4, <2>7, AppliedShape DEF BegunInFile, Full
    <2>8. Kept'
        BY <2>4, <2>6, <2>7 DEF Kept, Idle
    <2> QED BY <2>5, <2>8
<1> QED BY <1>4, <1>5 DEF TypeInv, Shape

LEMMA StorageKeepsDurable ==
    ASSUME DurableInv, NEW p \in Processes, Storage(p)
    PROVE  Moved' /\ Kept'
<1> USE DEF DurableInv
<1>1. /\ UNCHANGED <<mode, cache, unread>>
      /\ call[p].at \in {"begun", "dumping", "opened", "filled"} /\ call[p].op # "none"
    BY StorageEffect
<1>2. PICK at \in {"opened", "filled", "done", "failed"} :
          Moves(p, call[p], at) /\ promised' = Known(call[p], at)
    BY StorageEffect
<1>3. \A k \in AllKeys : promised'[k] # None =>
          \/ promised'[k] = promised[k] /\ (call[p].op = "read" \/ k \notin call[p].keys)
          \/ call[p].op = "set" /\ at = "done" /\ promised'[k] = call[p].entry /\ k \in call[p].keys
    BY <1>2, KnownShape DEF TypeInv, Shape
<1>4. \A k \in AllKeys : promised'[k] # None => IsEntry(promised'[k]) /\ promised'[k].expires # "past"
    BY <1>2, KnownShape DEF TypeInv, Shape
<1>5. /\ \A q \in Processes : q # p => call'[q] = call[q]
      /\ call'[p].op = call[p].op /\ call'[p].keys = call[p].keys /\ call'[p].entry = call[p].entry
      /\ call'[p].at = at
    BY <1>2 DEF Moves
<1>6. CASE mode = "FILE"
    <2>1. \A q \in Processes : q # p => call[q] = Idle /\ cache[q] = NoClient
        BY <1>1, <1>6, OtherIsIdle
    <2>2. call[p].at \in {"dumping", "opened", "filled"} /\ cache[p].is = "full"
        BY <1>1, <1>6 DEF TypeInv, Modal
    <2>3. \/ at # "done" /\ UNCHANGED disk /\ (at = "filled" => tmp' = cache[p])
          \/ at = "done" /\ disk' = cache[p] /\ call[p].at = "filled"
        <3>1. CASE OpenTmp(p) \/ FillTmp(p) \/ RaiseDump(p)
            <4>1. UNCHANGED disk
                BY <3>1 DEF OpenTmp, FillTmp, RaiseDump
            <4>2. \/ Goto(p, "opened") \/ Goto(p, "failed")
                  \/ Goto(p, "filled") /\ tmp' = cache[p]
                BY <3>1 DEF OpenTmp, FillTmp, RaiseDump
            <4>3. at # "done" /\ (at = "filled" => tmp' = cache[p])
                BY <1>5, <4>2, WentTo
            <4> QED BY <4>1, <4>3
        <3>2. CASE ReplaceFile(p)
            <4>1. call[p].at = "filled"
                BY <3>2 DEF ReplaceFile
            <4>2. tmp = cache[p]
                BY <1>6, <4>1 DEF Moved
            <4>3. tmp # NoFile
                BY <2>2, <4>2 DEF NoFile
            <4>4. disk' = cache[p] /\ Goto(p, "done")
                BY <3>2, <4>2, <4>3 DEF ReplaceFile
            <4>5. at = "done"
                BY <1>5, <4>4, WentTo
            <4> QED BY <4>1, <4>4, <4>5
        <3>3. ~RedisReply(p) /\ ~RedisError(p)
            BY <2>2 DEF RedisReply, RedisError
        <3> QED BY <3>1, <3>2, <3>3 DEF Storage
    <2>4. Moved'
        BY <1>1, <1>5, <1>6, <2>1, <2>2, <2>3 DEF Moved, Idle
    <2>5. Kept'
        <3> SUFFICES ASSUME ~unread, NEW k \in AllKeys
            PROVE  /\ promised'[k] # None => disk'.image[k] = promised'[k] /\ cache'[p].image[k] = promised'[k]
                   /\ call[p].op = "set" /\ at \in {"dumping", "opened", "filled"} /\ k \in call[p].keys =>
                          cache'[p].image[k] = call[p].entry
            BY <1>1, <1>5, <2>1 DEF Kept, Idle
        <3>1. cache[p] # NoClient
            BY <2>2 DEF NoClient, NoFile
        <3>2. promised'[k] # None /\ promised'[k] = promised[k] =>
                  disk'.image[k] = promised'[k] /\ cache'[p].image[k] = promised'[k]
            BY <1>1, <2>3, <3>1 DEF Kept
        <3>3. call[p].op = "set" /\ k \in call[p].keys => cache'[p].image[k] = call[p].entry
            BY <1>1, <2>2 DEF Kept
        <3>4. promised'[k] # None /\ promised'[k] # promised[k] =>
                  disk'.image[k] = promised'[k] /\ cache'[p].image[k] = promised'[k]
            BY <1>1, <1>3, <2>3, <3>3
        <3> QED BY <3>2, <3>3, <3>4
    <2> QED BY <2>4, <2>5
<1>7. CASE mode = "REDIS"
    <2>1. \A q \in Processes : /\ cache'[q] = NoClient
                               /\ call'[q].at \notin {"dumping", "opened", "filled"}
        <3>1. Modal' /\ mode' = mode
            BY StorageEffect
        <3> QED BY <1>7, <3>1 DEF Modal
    <2>2. Moved'
        BY <1>1, <1>7 DEF Moved
    <2>3. \/ UNCHANGED disk /\ at = "failed"
          \/ disk' = Full(Applied(call[p], disk.image))
        <3>1. CASE RedisReply(p)
            BY <3>1 DEF RedisReply
        <3>2. CASE RedisError(p)
            <4>1. UNCHANGED disk /\ Goto(p, "failed")
                BY <3>2 DEF RedisError
            <4>2. at = "failed"
                BY <1>5, <4>1, WentTo
            <4> QED BY <4>1, <4>2
        <3>3. call[p].at = "begun"
            BY <1>1, <1>7 DEF TypeInv, Modal
        <3> QED BY <3>1, <3>2, <3>3 DEF Storage, OpenTmp, FillTmp, ReplaceFile, RaiseDump
    <2>4. ASSUME ~unread, NEW k \in AllKeys, promised'[k] # None
          PROVE  disk'.image[k] = promised'[k]
        <3>1. IsImage(disk.image) /\ IsCall(call[p])
            BY DEF TypeInv, Shape, IsFile
        <3>2. CASE promised'[k] = promised[k] /\ (call[p].op = "read" \/ k \notin call[p].keys)
            <4>1. disk.image[k] = promised[k] /\ promised[k].expires # "past"
                BY <1>4, <2>4, <3>2 DEF Kept
            <4>2. Applied(call[p], disk.image)[k] = disk.image[k]
                BY <1>1, <3>1, <3>2, <4>1, AppliedShape DEF IsCall
            <4> QED BY <2>3, <3>2, <4>1, <4>2 DEF Full
        <3>3. CASE call[p].op = "set" /\ at = "done" /\ promised'[k] = call[p].entry /\ k \in call[p].keys
            <4>1. Applied(call[p], disk.image)[k] = call[p].entry
                BY <3>1, <3>3, AppliedShape
            <4> QED BY <2>3, <3>3, <4>1 DEF Full
        <3> QED BY <1>3, <2>4, <3>2, <3>3
    <2>5. Kept'
        BY <1>1, <2>1, <2>4 DEF Kept
    <2> QED BY <2>2, <2>5
<1> QED BY <1>6, <1>7 DEF TypeInv, Shape

LEMMA EndKeepsDurable ==
    ASSUME DurableInv, NEW p \in Processes, Ends(p)
    PROVE  Moved' /\ Kept'
<1>1. UNCHANGED <<mode, disk, tmp, promised, unread>>
    BY DEF Ends
<1>2. Moves(p, Idle, "idle") /\ (cache' = cache \/ Remembers(p, NoClient))
    BY EndEffect DEF DurableInv
<1>3. /\ \A q \in Processes : cache'[q] \in {cache[q], NoClient}
      /\ \A q \in Processes : q # p => cache'[q] = cache[q] /\ call'[q] = call[q]
      /\ call'[p].at = "idle" /\ call'[p].op = "none"
    BY <1>2 DEF Remembers, Moves, Idle
<1> QED BY <1>1, <1>3 DEF DurableInv, Moved, Kept

LEMMA ExpireKeepsDurable ==
    ASSUME DurableInv, Expire
    PROVE  Moved' /\ Kept'
<1> USE DEF DurableInv
<1>1. mode' = mode /\ unread' = unread /\ disk'.is = disk.is
    BY ExpireEffect
<1>2. \A k \in AllKeys : disk'.image[k] =
          IF mode = "REDIS" /\ disk.image[k].expires = "later" THEN Absent ELSE Older(disk.image[k])
    BY ExpireEffect
<1>3. tmp' = OlderFile(tmp) /\ cache' = [p \in Processes |-> OlderFile(cache[p])]
    BY ExpireEffect
<1>4. call' = [p \in Processes |-> OlderCall(call[p])]
    BY ExpireEffect
<1>5. promised' = [k \in AllKeys |->
          IF promised[k] # None /\ promised[k].expires = "later" THEN None ELSE promised[k]]
    BY ExpireEffect
<1>6. \A p \in Processes : /\ call'[p].op = call[p].op /\ call'[p].keys = call[p].keys
                           /\ call'[p].at = call[p].at
                           /\ call[p].at # "begun" => call'[p].entry = Older(call[p].entry)
    BY <1>4, AgedCallShape DEF TypeInv, Shape
<1>7. \A p \in Processes, k \in AllKeys : cache'[p].image[k] = Older(cache[p].image[k])
    BY <1>3, AgedImage DEF TypeInv, Shape, OlderFile, IsFile
<1>8. Moved'
    BY <1>1, <1>3, <1>6 DEF Moved
<1>9. \A p \in Processes : cache[p] = NoClient => cache'[p] = NoClient
    <2>1. Aged(Empty) = Empty
        BY DEF Aged, Empty, Later, Absent
    <2>2. OlderFile(NoClient) = NoClient
        BY <2>1 DEF OlderFile, NoClient, NoFile
    <2> QED BY <1>3, <2>2
<1>10. Kept'
    <2> SUFFICES ASSUME ~unread, NEW k \in AllKeys
        PROVE  /\ promised'[k] # None =>
                      /\ disk'.image[k] = promised'[k]
                      /\ \A p \in Processes : cache'[p] # NoClient => cache'[p].image[k] = promised'[k]
               /\ \A p \in Processes :
                      /\ call'[p].op = "set" /\ call'[p].at \in {"dumping", "opened", "filled"}
                      /\ k \in call'[p].keys
                      => cache'[p].image[k] = call'[p].entry
        BY <1>1 DEF Kept
    <2>1. ASSUME promised'[k] # None
          PROVE  promised'[k] = promised[k] /\ promised[k].expires = "never"
        BY <1>5, <2>1 DEF TypeInv, Shape, IsEntry, Times
    <2>2. \A e : e.expires = "never" => Older(e) = e
        BY DEF Older
    <2>3. promised'[k] # None => disk'.image[k] = promised'[k]
        BY <1>2, <2>1, <2>2 DEF Kept
    <2>4. ASSUME promised'[k] # None, NEW p \in Processes, cache'[p] # NoClient
          PROVE  cache'[p].image[k] = promised'[k]
        BY <1>7, <1>9, <2>1, <2>2, <2>4 DEF Kept
    <2>5. ASSUME NEW p \in Processes,
                 call'[p].op = "set" /\ call'[p].at \in {"dumping", "opened", "filled"},
                 k \in call'[p].keys
          PROVE  cache'[p].image[k] = call'[p].entry
        BY <1>6, <1>7, <2>5 DEF Kept
    <2> QED BY <2>3, <2>4, <2>5
<1> QED BY <1>8, <1>10

LEMMA DurableInit == Init => DurableInv
<1> SUFFICES ASSUME Init PROVE DurableInv
    OBVIOUS
<1>1. TypeInv
    BY TypeInit
<1>2. Alone /\ Moved /\ Kept
    BY DEF Init, Alone, Moved, Kept, NoFile, NoClient, Idle
<1> QED BY <1>1, <1>2 DEF DurableInv

(* The calls of the server and of the command meet an idle other process   *)
(* when there is a file.                                                   *)
LEMMA BegunAlone ==
    ASSUME Apart, DurableInv, NEW p \in Processes, NEW c, Begins(p, c),
           TypeInv', Alone'
    PROVE  mode = "FILE" => \A q \in Processes : q # p => call[q] = Idle /\ cache[q] = NoClient
<1> SUFFICES ASSUME mode = "FILE", NEW q \in Processes, q # p
             PROVE  call[q] = Idle /\ cache[q] = NoClient
    OBVIOUS
<1>1. mode' = "FILE" /\ call'[q] = call[q] /\ cache'[q] = cache[q] /\ call'[p].op = c.op
    BY BeginsEffect DEF DurableInv
<1>2. call'[p].op # "none"
    BY <1>1 DEF Begins
<1>3. IF p = Server THEN phase' # "off" /\ q = Cli ELSE clearing' # "idle" /\ q = Server
    BY <1>2 DEF TypeInv, Control, Processes, Server, Cli, Idle
<1>4. call'[q] = Idle /\ cache'[q] = NoClient
    BY <1>1, <1>3 DEF TypeInv, Control, Alone, Processes
<1> QED BY <1>1, <1>4

LEMMA DurableStep ==
    ASSUME Apart, DurableInv, [Next]_vars
    PROVE  DurableInv'
<1>1. TypeInv'
    BY TypeStep DEF DurableInv
<1>2. Alone'
    BY AloneStep DEF DurableInv
<1>3. CASE UNCHANGED vars
    <2>1. UNCHANGED <<mode, disk, tmp, cache, call, promised, unread>>
        BY <1>3 DEF vars
    <2>2. Moved' /\ Kept'
        BY <2>1 DEF DurableInv, Moved, Kept
    <2> QED BY <1>1, <1>2, <2>2 DEF DurableInv
<1>4. ASSUME NEW p \in Processes, Ends(p) \/ (\E c : Begins(p, c)) PROVE Moved' /\ Kept'
    BY <1>1, <1>2, <1>4, BegunAlone, BeginKeepsDurable, EndKeepsDurable
<1>5. CASE MovesServer \/ MovesCli
    <2>1. \E p \in Processes : Ends(p) \/ \E c : Begins(p, c)
        BY <1>5, ServerCalls, CliCalls DEF DurableInv, Processes
    <2> QED BY <1>1, <1>2, <1>4, <2>1 DEF DurableInv
<1>6. CASE Expire
    BY <1>1, <1>2, <1>6, ExpireKeepsDurable DEF DurableInv
<1>7. CASE \E p \in Processes : Storage(p)
    BY <1>1, <1>2, <1>7, StorageKeepsDurable DEF DurableInv
<1> QED BY <1>3, <1>5, <1>6, <1>7, NextCases

(* Whatever an acknowledged save wrote is in the store that survives the   *)
(* process, and the store's file is never half written: with a file and    *)
(* with Redis, whatever raises and however often the processes end,        *)
(* provided a server and a clear do not share one file (file_redis.py,     *)
(* _dump; redis_store.py, save_record).                                    *)
THEOREM AcknowledgedStaysDurable == ASSUME Apart PROVE Spec => []AcknowledgedIsDurable
<1>1. Init => DurableInv
    BY DurableInit
<1>2. DurableInv /\ [Next]_vars => DurableInv'
    BY DurableStep
<1>3. DurableInv => AcknowledgedIsDurable
    BY DEF DurableInv, TypeInv, Shape, Modal, Moved, Kept, AcknowledgedIsDurable, AllKeys
<1> QED BY <1>1, <1>2, <1>3, PTL DEF Spec

-----------------------------------------------------------------------------
(* Transactions are whole.                                                 *)
LEMMA OrderedApplied ==
    ASSUME NEW m, IsImage(m), NEW c, IsCall(c), c.op # "none", NEW w \in Nat, Ordered(m, w),
           WritesRecords(c) => Whole(c, w) /\ Newer(c, m)
    PROVE  Ordered(Applied(c, m), w)
<1> DEFINE a == Applied(c, m)
<1>1. CASE ~WritesRecords(c)
    <2>1. \A k \in Keys : a[k] = m[k] \/ a[k] = Absent
        <3>1. CASE c.op = "read"
            BY <3>1, AppliedShape DEF AllKeys
        <3>2. CASE c.op = "delete"
            BY <3>2, AppliedShape DEF AllKeys
        <3>3. CASE c.op \in {"set", "pipeline"} /\ c.keys = {Sig}
            BY <3>3, AppliedShape, KeysAssumption DEF AllKeys
        <3> QED BY <1>1, <3>1, <3>2, <3>3 DEF WritesRecords, IsCall
    <2> HIDE DEF a
    <2>2. Ordered(a, w)
        BY <2>1 DEF Ordered
    <2> QED BY <2>2 DEF a
<1>2. CASE WritesRecords(c)
    <2> DEFINE n == c.entry.value.n
    <2>1. \A k \in Keys : a[k] = IF k \in c.keys THEN c.entry ELSE m[k]
        BY <1>2, AppliedShape DEF WritesRecords, AllKeys
    <2>2. n \in Nat /\ n <= w
        BY <1>2 DEF Whole
    <2>3. \A k \in Keys : m[k] # Absent => m[k].value.n \in Nat /\ m[k].value.n <= n
        BY <1>2 DEF Newer, Ordered
    <2> HIDE DEF a
    <2>4. ASSUME NEW k \in Keys, a[k] # Absent
          PROVE  /\ a[k].value.n \in Nat /\ a[k].value.n <= w
                 /\ \A j \in Keys : j \in a[k].value.with /\ a[j] # Absent => a[j].value.n >= a[k].value.n
        <3>1. CASE c.keys = Keys
            BY <2>1, <2>2, <2>4, <3>1
        <3>2. CASE \E i \in Keys : c.keys = {i} /\ c.entry.value.with = {i}
            <4>1. PICK i \in Keys : c.keys = {i} /\ c.entry.value.with = {i}
                BY <3>2
            <4>2. CASE k = i
                BY <2>1, <2>2, <2>4, <4>1, <4>2
            <4>3. CASE k # i
                <5>1. a[k] = m[k] /\ m[k].value.n \in Nat /\ m[k].value.n <= n /\ m[k].value.n <= w
                    BY <2>1, <2>3, <2>4, <4>1, <4>3 DEF Ordered
                <5>2. ASSUME NEW j \in Keys, j \in a[k].value.with, a[j] # Absent
                      PROVE  a[j].value.n >= a[k].value.n
                    <6>1. CASE j = i
                        BY <2>1, <2>2, <4>1, <5>1, <6>1
                    <6>2. CASE j # i
                        <7>1. a[j] = m[j]
                            BY <2>1, <4>1, <6>2
                        <7> QED BY <2>4, <5>1, <5>2, <7>1 DEF Ordered
                    <6> QED BY <6>1, <6>2
                <5> QED BY <5>1, <5>2
            <4> QED BY <4>2, <4>3
        <3> QED BY <1>2, <3>1, <3>2 DEF Whole
    <2>5. Ordered(a, w)
        BY <2>4 DEF Ordered
    <2> QED BY <2>5 DEF a
<1> QED BY <1>1, <1>2

LEMMA OrderedLater ==
    ASSUME NEW m, NEW v \in Nat, NEW w \in Nat, v <= w, Ordered(m, v)
    PROVE  Ordered(m, w)
BY DEF Ordered

LEMMA OrderedAged ==
    ASSUME NEW m, NEW n, NEW w \in Nat, Ordered(m, w),
           \A k \in Keys : n[k] = Absent \/ n[k] = Older(m[k])
    PROVE  /\ Ordered(n, w)
           /\ \A k \in Keys : n[k] # Absent => m[k] # Absent /\ n[k].value = m[k].value
<1>1. Older(Absent) = Absent
    BY DEF Older, Absent
<1>2. \A e : Older(e).value = e.value
    BY DEF Older
<1>3. \A k \in Keys : n[k] # Absent => m[k] # Absent /\ n[k].value = m[k].value
    BY <1>1, <1>2
<1> QED BY <1>3 DEF Ordered

(* What the server and the command write is newer than all there is.       *)
LEMMA ServerWrites ==
    ASSUME TypeInv, MovesServer
    PROVE  /\ writes' \in {writes, writes + 1}
           /\ \/ Ends(Server)
              \/ \E c : /\ Begins(Server, c)
                        /\ WritesRecords(c) => Whole(c, writes') /\ c.entry.value.n >= writes
<1> USE DEF counters, program, known, ghosts, Begins
<1>1. writes \in Nat
    BY DEF TypeInv, Control
<1>2. ASSUME NEW k \in Keys, SaveRecord(k)
      PROVE  \E c : Begins(Server, c) /\ Whole(c, writes') /\ c.entry.value.n >= writes
    <2>1. PICK n \in {writes, writes'} \ {0} :
              \E e \in {Permanent(Record(n, {k})), Expiring(Record(n, {k}))} :
                  Begin(Server, Set({k}, e), cache[Server])
        BY <1>2 DEF SaveRecord
    <2>2. PICK e \in {Permanent(Record(n, {k})), Expiring(Record(n, {k}))} :
              Begin(Server, Set({k}, e), cache[Server])
        BY <2>1
    <2> DEFINE c == Set({k}, e)
    <2>3. IsCall(c) /\ c.at = "begun" /\ c.op = "set" /\ c.keys = {k} /\ c.entry = e
        BY CallShapes DEF AllKeys
    <2>4. e.value.n = n /\ e.value.with = {k}
        BY DEF Permanent, Expiring, Record
    <2>5. writes' = writes + 1
        BY <1>2 DEF SaveRecord
    <2> HIDE DEF c
    <2>6. Whole(c, writes') /\ c.entry.value.n >= writes
        BY <1>1, <2>3, <2>4, <2>5 DEF Whole
    <2> QED BY <2>2, <2>3, <2>6 DEF c
<1>3. CASE SaveRecordsAtomic(Keys)
    <2> DEFINE e == Permanent(Record(writes', Keys))
               c == Pipeline(Keys, e)
    <2>1. Begin(Server, c, cache[Server]) /\ writes' = writes + 1
        BY <1>3 DEF SaveRecordsAtomic
    <2>2. IsCall(c) /\ c.at = "begun" /\ c.op = "pipeline" /\ c.keys = Keys /\ c.entry = e
        BY CallShapes DEF AllKeys
    <2>3. e.value.n = writes'
        BY DEF Permanent, Record
    <2> HIDE DEF c, e
    <2>4. Whole(c, writes') /\ c.entry.value.n >= writes
        BY <1>1, <2>1, <2>2, <2>3 DEF Whole
    <2> QED BY <1>1, <2>1, <2>2, <2>4
<1>4. CASE Restored
    <2> DEFINE c == Set({Sig}, Permanent(SignatureOf(config)))
    <2>1. Begin(Server, c, cache[Server]) /\ writes' = writes
        BY <1>4 DEF Restored
    <2>2. IsCall(c) /\ c.at = "begun" /\ c.op = "set" /\ c.keys = {Sig}
        BY CallShapes DEF AllKeys
    <2> HIDE DEF c
    <2> QED BY <2>1, <2>2 DEF WritesRecords
<1>5. ASSUME NEW ks \in SUBSET AllKeys
      PROVE  /\ IsCall(Read(ks)) /\ Read(ks).at = "begun" /\ Read(ks).op # "none"
             /\ ~WritesRecords(Read(ks))
             /\ IsCall(Delete(ks)) /\ Delete(ks).at = "begun" /\ Delete(ks).op # "none"
             /\ ~WritesRecords(Delete(ks))
    BY CallShapes DEF WritesRecords
<1>6. {Sig} \in SUBSET AllKeys /\ AllKeys \in SUBSET AllKeys /\ \A k \in Keys : {k} \in SUBSET AllKeys
    BY DEF AllKeys
<1>7. CASE \E c \in Configs : Launch(c)
    BY <1>5, <1>6, <1>7 DEF Launch
<1>8. Restore => \E c : Begins(Server, c) /\ ~WritesRecords(c)
    BY <1>5, <1>6 DEF Restore
<1>9. CASE Validated
    <2>1. \/ Begin(Server, Read(AllKeys), cache[Server]) \/ Restore \/ Refuse
        BY <1>9 DEF Validated
    <2>2. writes' = writes /\ (Refuse => Ends(Server))
        BY <1>9 DEF Validated, Refuse, Ends
    <2> QED BY <1>5, <1>6, <1>8, <2>1, <2>2
<1>10. CASE LookedForData
    <2>1. Restore \/ Refuse
        BY <1>10 DEF LookedForData
    <2>2. writes' = writes /\ (Refuse => Ends(Server))
        BY <1>10 DEF LookedForData, Refuse, Ends
    <2> QED BY <1>8, <2>1, <2>2
<1>11. CASE \E k \in Keys : DeleteRecord(k)
    BY <1>5, <1>6, <1>11 DEF DeleteRecord
<1>12. CASE Signed \/ Return \/ Exit
    BY <1>12 DEF Signed, Return, Exit, Ends
<1>13. CASE \E k \in Keys : SaveRecord(k)
    BY <1>2, <1>13 DEF SaveRecord
<1> QED BY <1>3, <1>4, <1>7, <1>9, <1>10, <1>11, <1>12, <1>13 DEF MovesServer

LEMMA BeginKeepsAtomic ==
    ASSUME AtomicInv, NEW p \in Processes, NEW c, Begins(p, c), TypeInv',
           writes' \in {writes, writes + 1},
           WritesRecords(c) => Whole(c, writes') /\ c.entry.value.n >= writes
    PROVE  AtomicInv'
<1> USE DEF AtomicInv
<1>0. writes \in Nat /\ writes' \in Nat /\ writes <= writes'
    BY DEF TypeInv, Control
<1>1. PICK client : client \in {NoClient, cache[p]} /\ Begin(p, c, client)
    BY DEF Begins
<1>2. IsCall(c) /\ c.at = "begun" /\ c.op # "none"
    BY DEF Begins
<1>3. /\ UNCHANGED <<mode, disk, tmp>>
      /\ \/ /\ mode = "REDIS" /\ Moves(p, c, "begun") /\ UNCHANGED cache
         \/ mode = "FILE" /\ \E image : BegunInFile(p, c, client, image)
    BY <1>1, <1>2, BeginEffect
<1>4. \A m : Ordered(m, writes) => Ordered(m, writes')
    BY <1>0, OrderedLater
<1>5. \A m : Ordered(m, writes) /\ WritesRecords(c) => Newer(c, m)
    BY <1>0 DEF Ordered, Newer, Whole
<1>6. \A q \in Processes : q # p => call'[q] = call[q] /\ cache'[q] = cache[q]
    BY BeginsEffect
<1>7. \A q \in Processes : q # p =>
          (call'[q].at = "begun" /\ WritesRecords(call'[q]) =>
               Whole(call'[q], writes') /\ Newer(call'[q], disk.image))
    BY <1>0, <1>6 DEF Whole
<1>8. Ordered(disk.image, writes') /\ Ordered(tmp.image, writes')
    BY <1>4
<1>9. CASE mode = "REDIS"
    <2>1. \A q \in Processes : Ordered(cache'[q].image, writes')
        BY <1>3, <1>4, <1>9
    <2>2. WritesRecords(call'[p]) => Whole(call'[p], writes') /\ Newer(call'[p], disk.image)
        <3>1. call'[p].op = c.op /\ call'[p].keys = c.keys /\ call'[p].entry = c.entry
            BY BeginsEffect
        <3>2. WritesRecords(c) => Whole(c, writes') /\ Newer(c, disk.image)
            BY <1>5
        <3> QED BY <3>1, <3>2 DEF WritesRecords, Whole, Newer
    <2> QED BY <1>3, <1>7, <1>8, <2>1, <2>2
<1>10. CASE mode = "FILE"
    <2>1. PICK image : BegunInFile(p, c, client, image)
        BY <1>3, <1>10
    <2>2. Ordered(image, writes)
        <3>1. Ordered(Empty, writes)
            BY DEF Ordered, Empty, AllKeys
        <3> QED BY <1>1, <2>1, <3>1 DEF BegunInFile, LoadedBy
    <2>3. Ordered(Applied(c, image), writes')
        <3>1. Ordered(image, writes') /\ (WritesRecords(c) => Newer(c, image))
            BY <1>4, <1>5, <2>2
        <3> QED BY <1>0, <1>2, <2>1, <3>1, OrderedApplied DEF BegunInFile
    <2>4. \A q \in Processes : Ordered(cache'[q].image, writes')
        <3>1. cache'[p].image = Applied(c, image)
            BY <2>1 DEF BegunInFile, Remembers, Full
        <3> QED BY <1>4, <1>6, <2>3, <3>1
    <2>5. \A q \in Processes : call'[q].at # "begun"
        BY <1>3, <1>10 DEF TypeInv, Modal
    <2> QED BY <1>3, <1>8, <2>4, <2>5
<1> QED BY <1>9, <1>10 DEF TypeInv, Shape

LEMMA StorageKeepsAtomic ==
    ASSUME AtomicInv, NEW p \in Processes, Storage(p), TypeInv'
    PROVE  AtomicInv'
<1> USE DEF AtomicInv
<1>1. UNCHANGED <<mode, cache, program>> /\ call[p].op # "none" /\ writes \in Nat
    BY StorageEffect DEF TypeInv, Control
<1>2. UNCHANGED writes
    BY <1>1 DEF program
<1>3. PICK at \in {"opened", "filled", "done", "failed"} : Moves(p, call[p], at)
    BY StorageEffect
<1>4. call'[p].at # "begun" /\ \A q \in Processes : q # p => call'[q] = call[q]
    BY <1>3 DEF Moves
<1>5. CASE disk' \in {disk, tmp} /\ tmp' \in {tmp, TornFile, NoFile, cache[p]} /\ mode = "FILE"
    <2>1. Ordered(Empty, writes)
        BY DEF Ordered, Empty, AllKeys
    <2>2. Ordered(disk'.image, writes) /\ Ordered(tmp'.image, writes)
        BY <1>5, <2>1 DEF TornFile, NoFile
    <2>3. \A q \in Processes : call'[q].at # "begun"
        BY <1>1, <1>5 DEF TypeInv, Modal
    <2> QED BY <1>1, <1>2, <2>2, <2>3
<1>6. CASE /\ mode = "REDIS" /\ tmp' = tmp
           /\ disk' = disk \/ disk' = Full(Applied(call[p], disk.image))
    <2>1. CASE disk' = disk
        BY <1>1, <1>2, <1>4, <1>6, <2>1
    <2>2. CASE disk' = Full(Applied(call[p], disk.image))
        <3>1. call[p].at = "begun" /\ IsImage(disk.image) /\ IsCall(call[p])
            BY <1>1, <1>6, StorageEffect DEF TypeInv, Modal, Shape, IsFile
        <3>2. Ordered(disk'.image, writes)
            BY <1>1, <2>2, <3>1, OrderedApplied DEF Full
        <3>3. ASSUME NEW q \in Processes, call'[q].at = "begun", WritesRecords(call'[q])
              PROVE  Whole(call'[q], writes) /\ Newer(call'[q], disk'.image)
            <4>1. q # p /\ call'[q] = call[q]
                BY <1>4, <3>3
            <4>2. q = Server /\ call[p].op \in {"read", "delete"}
                BY <1>1, <3>3, <4>1 DEF TypeInv, Control, Processes, WritesRecords, Idle
            <4>3. \A k \in Keys : disk'.image[k] \in {disk.image[k], Absent}
                BY <2>2, <3>1, <4>2, <1>1, AppliedShape DEF Full, AllKeys
            <4> QED BY <3>3, <4>1, <4>3 DEF Newer
        <3> QED BY <1>1, <1>2, <1>6, <3>2, <3>3
    <2> QED BY <1>6, <2>1, <2>2
<1>7. \/ OpenTmp(p) \/ FillTmp(p) \/ ReplaceFile(p) \/ RaiseDump(p)
      \/ RedisReply(p) \/ RedisError(p)
    BY DEF Storage
<1>8. CASE OpenTmp(p) \/ FillTmp(p) \/ ReplaceFile(p) \/ RaiseDump(p)
    <2>1. mode = "FILE"
        BY <1>8 DEF OpenTmp, FillTmp, ReplaceFile, RaiseDump, TypeInv, Modal, Shape
    <2>2. disk' \in {disk, tmp} /\ tmp' \in {tmp, TornFile, NoFile, cache[p]}
        BY <1>8 DEF OpenTmp, FillTmp, ReplaceFile, RaiseDump
    <2> QED BY <1>5, <2>1, <2>2
<1>9. CASE RedisReply(p) \/ RedisError(p)
    <2>1. mode = "REDIS"
        BY <1>9 DEF RedisReply, RedisError, TypeInv, Modal, Shape
    <2>2. tmp' = tmp /\ (disk' = disk \/ disk' = Full(Applied(call[p], disk.image)))
        BY <1>9 DEF RedisReply, RedisError
    <2> QED BY <1>6, <2>1, <2>2
<1> QED BY <1>7, <1>8, <1>9

LEMMA EndKeepsAtomic ==
    ASSUME AtomicInv, NEW p \in Processes, Ends(p), TypeInv', writes' \in {writes, writes + 1}
    PROVE  AtomicInv'
<1> USE DEF AtomicInv
<1>0. writes \in Nat /\ writes' \in Nat /\ writes <= writes'
    BY DEF TypeInv, Control
<1>1. UNCHANGED <<mode, disk, tmp>>
    BY DEF Ends
<1>2. Moves(p, Idle, "idle") /\ (cache' = cache \/ Remembers(p, NoClient))
    BY EndEffect
<1>3. /\ \A q \in Processes : cache'[q] \in {cache[q], NoClient}
      /\ \A q \in Processes : q # p => call'[q] = call[q]
      /\ call'[p].at = "idle"
    BY <1>2 DEF Remembers, Moves
<1>4. \A m : Ordered(m, writes) => Ordered(m, writes')
    BY <1>0, OrderedLater
<1>5. Ordered(NoClient.image, writes')
    BY DEF Ordered, NoClient, NoFile, Empty, AllKeys
<1>6. \A c : Whole(c, writes) => Whole(c, writes')
    BY <1>0 DEF Whole
<1>7. /\ Ordered(disk.image, writes') /\ Ordered(tmp.image, writes')
      /\ \A q \in Processes : Ordered(cache'[q].image, writes')
    BY <1>3, <1>4, <1>5
<1>8. ASSUME NEW q \in Processes, call'[q].at = "begun", WritesRecords(call'[q])
      PROVE  Whole(call'[q], writes') /\ Newer(call'[q], disk.image)
    BY <1>3, <1>6, <1>8
<1> QED BY <1>1, <1>7, <1>8

LEMMA ExpireKeepsAtomic ==
    ASSUME AtomicInv, Expire, TypeInv'
    PROVE  AtomicInv'
<1> USE DEF AtomicInv
<1>0. writes' = writes /\ writes \in Nat /\ Keys \subseteq AllKeys
    BY DEF Expire, counters, TypeInv, Control, AllKeys
<1>1. \A k \in AllKeys : disk'.image[k] =
          IF mode = "REDIS" /\ disk.image[k].expires = "later" THEN Absent ELSE Older(disk.image[k])
    BY ExpireEffect
<1>2. /\ tmp' = OlderFile(tmp) /\ cache' = [p \in Processes |-> OlderFile(cache[p])]
      /\ call' = [p \in Processes |-> OlderCall(call[p])]
    BY ExpireEffect
<1>3. /\ Ordered(disk'.image, writes)
      /\ \A k \in Keys : disk'.image[k] # Absent =>
             disk.image[k] # Absent /\ disk'.image[k].value = disk.image[k].value
    <2>1. \A k \in Keys : disk'.image[k] = Absent \/ disk'.image[k] = Older(disk.image[k])
        BY <1>0, <1>1
    <2> QED BY <1>0, <2>1, OrderedAged
<1>4. \A f : IsFile(f) /\ Ordered(f.image, writes) => Ordered(OlderFile(f).image, writes)
    <2> SUFFICES ASSUME NEW f, IsFile(f), Ordered(f.image, writes)
                 PROVE  Ordered(OlderFile(f).image, writes)
        OBVIOUS
    <2>1. \A k \in Keys : OlderFile(f).image[k] = Older(f.image[k])
        BY <1>0, AgedImage DEF OlderFile, IsFile
    <2> QED BY <1>0, <2>1, OrderedAged
<1>5. Ordered(tmp'.image, writes) /\ \A p \in Processes : Ordered(cache'[p].image, writes)
    BY <1>2, <1>4 DEF TypeInv, Shape
<1>6. ASSUME NEW p \in Processes, call'[p].at = "begun", WritesRecords(call'[p])
      PROVE  Whole(call'[p], writes) /\ Newer(call'[p], disk'.image)
    <2>1. call'[p] = call[p]
        BY <1>2, <1>6, AgedCallShape DEF OlderCall, TypeInv, Shape
    <2> QED BY <1>3, <1>6, <2>1 DEF Newer
<1> QED BY <1>0, <1>3, <1>5, <1>6

LEMMA AtomicInit == Init => AtomicInv
<1> SUFFICES ASSUME Init PROVE AtomicInv
    OBVIOUS
<1>1. TypeInv
    BY TypeInit
<1>2. Ordered(Empty, writes)
    BY DEF Ordered, Empty, AllKeys
<1>3. disk.image = Empty /\ tmp.image = Empty /\ \A p \in Processes : cache[p].image = Empty
    BY DEF Init, Full, NoFile, NoClient
<1>4. \A p \in Processes : call[p].at # "begun"
    BY DEF Init, Idle
<1> QED BY <1>1, <1>2, <1>3, <1>4 DEF AtomicInv

LEMMA AtomicStep ==
    ASSUME AtomicInv, [Next]_vars
    PROVE  AtomicInv'
<1>1. TypeInv'
    BY TypeStep DEF AtomicInv
<1>2. CASE UNCHANGED vars
    <2>1. UNCHANGED <<disk, tmp, cache, call, writes>>
        BY <1>2 DEF vars
    <2> QED BY <1>1, <2>1 DEF AtomicInv
<1>3. CASE MovesServer
    BY <1>1, <1>3, ServerWrites, BeginKeepsAtomic, EndKeepsAtomic DEF AtomicInv, Processes
<1>4. CASE MovesCli
    <2>1. writes' = writes
        BY <1>4 DEF MovesCli, Clear, Scanned, Cleared, CliExit, counters, program
    <2>2. Ends(Cli) \/ \E c : Begins(Cli, c) /\ ~WritesRecords(c)
        BY <1>4, CliCalls DEF AtomicInv, WritesRecords
    <2> QED BY <1>1, <2>1, <2>2, BeginKeepsAtomic, EndKeepsAtomic DEF Processes
<1>5. CASE Expire
    BY <1>1, <1>5, ExpireKeepsAtomic
<1>6. CASE \E p \in Processes : Storage(p)
    BY <1>1, <1>6, StorageKeepsAtomic
<1> QED BY <1>2, <1>3, <1>4, <1>5, <1>6, NextCases

(* Of the keys of a transaction none is on the disk with an older value    *)
(* than another, in a file and in Redis, whatever raises, and even while a *)
(* server and a clear share one file (save_records_atomic).                *)
THEOREM TransactionsStayWhole == Spec => []SavesAreAtomic
<1>1. Init => AtomicInv
    BY AtomicInit
<1>2. AtomicInv /\ [Next]_vars => AtomicInv'
    BY AtomicStep
<1>3. AtomicInv => SavesAreAtomic
    BY DEF AtomicInv, Ordered, SavesAreAtomic
<1> QED BY <1>1, <1>2, <1>3, PTL DEF Spec

-----------------------------------------------------------------------------
(* What the comparison of signatures compares.                             *)
LEMMA SameModels ==
    ASSUME NEW a, NEW b
    PROVE  Range(WithoutCapabilities(a)) = Range(WithoutCapabilities(b)) <=> ModelsOf(a) = ModelsOf(b)
<1> DEFINE R(m) == {[name |-> m[i].name, rest |-> m[i].rest] : i \in DOMAIN m}
           N(m) == {<<m[i].name, m[i].rest>> : i \in DOMAIN m}
<1>1. \A m : Range(WithoutCapabilities(m)) = R(m)
    BY DEF Range, WithoutCapabilities
<1>2. \A m : ModelsOf(m) = N(m)
    BY DEF ModelsOf
<1>3. ASSUME NEW m, NEW n, R(m) \subseteq R(n) PROVE N(m) \subseteq N(n)
    <2> SUFFICES ASSUME NEW i \in DOMAIN m PROVE <<m[i].name, m[i].rest>> \in N(n)
        OBVIOUS
    <2>1. [name |-> m[i].name, rest |-> m[i].rest] \in R(n)
        BY <1>3
    <2>2. PICK j \in DOMAIN n :
              [name |-> m[i].name, rest |-> m[i].rest] = [name |-> n[j].name, rest |-> n[j].rest]
        BY <2>1
    <2>3. m[i].name = n[j].name /\ m[i].rest = n[j].rest
        BY <2>2
    <2> QED BY <2>3
<1>4. ASSUME NEW m, NEW n, N(m) \subseteq N(n) PROVE R(m) \subseteq R(n)
    <2> SUFFICES ASSUME NEW i \in DOMAIN m
                 PROVE  [name |-> m[i].name, rest |-> m[i].rest] \in R(n)
        OBVIOUS
    <2>1. <<m[i].name, m[i].rest>> \in N(n)
        BY <1>4
    <2>2. PICK j \in DOMAIN n : <<m[i].name, m[i].rest>> = <<n[j].name, n[j].rest>>
        BY <2>1
    <2>3. m[i].name = n[j].name /\ m[i].rest = n[j].rest
        BY <2>2
    <2> QED BY <2>3
<1>5. R(a) = R(b) <=> N(a) = N(b)
    <2> HIDE DEF R, N
    <2>1. R(a) = R(b) => N(a) \subseteq N(b) /\ N(b) \subseteq N(a)
        BY <1>3
    <2>2. N(a) = N(b) => R(a) \subseteq R(b) /\ R(b) \subseteq R(a)
        BY <1>4
    <2> QED BY <2>1, <2>2
<1> QED BY <1>1, <1>2, <1>5

(* A signature has the fields of the configuration but its secrets.        *)
LEMMA SignedField ==
    ASSUME NEW c \in Configs, NEW f
    PROVE  GetFieldValue(SignatureOf(c), f) =
               IF f \in DOMAIN c.fields /\ f # "AUTHORIZED_USERS"
               THEN IF f = "SUPPORTED_MODELS" THEN WithoutCapabilities(c.fields[f]) ELSE c.fields[f]
               ELSE None
BY DEF GetFieldValue, SignatureOf, GetConfigForPersistence

LEMMA AcceptedModels ==
    ASSUME config \in Configs, NEW c \in Configs, Accepts(SignatureOf(c))
    PROVE  Models(config) = Models(c)
<1> DEFINE s == SignatureOf(config)
           t == SignatureOf(c)
<1>1. CompareField(s, t, "SUPPORTED_MODELS")
    BY DEF Accepts, Matches, GetDiff, GetFieldsToCheck
<1>2. \A d \in Configs : GetFieldValue(SignatureOf(d), "SUPPORTED_MODELS") =
                             WithoutCapabilities(d.fields["SUPPORTED_MODELS"])
    BY SignedField, ConfigsAssumption
<1>3. Range(WithoutCapabilities(config.fields["SUPPORTED_MODELS"])) =
          Range(WithoutCapabilities(c.fields["SUPPORTED_MODELS"]))
    BY <1>1, <1>2 DEF CompareField, NormalizeForComparison
<1> QED BY <1>3, SameModels DEF Models

LEMMA RefusedDiffers ==
    ASSUME config \in Configs, NEW c \in Configs, ~Accepts(SignatureOf(c))
    PROVE  ~Compatible(config, c)
<1> DEFINE s == SignatureOf(config)
           t == SignatureOf(c)
<1>1. PICK f \in GetFieldsToCheck(config.check_fields) : ~CompareField(s, t, f)
    BY DEF Accepts, Matches, GetDiff
<1>2. /\ DOMAIN config.fields = DOMAIN c.fields
      /\ "SUPPORTED_MODELS" \in DOMAIN config.fields
    BY ConfigsAssumption
<1>3. CASE f = "SUPPORTED_MODELS"
    <2>1. Range(WithoutCapabilities(config.fields["SUPPORTED_MODELS"])) #
              Range(WithoutCapabilities(c.fields["SUPPORTED_MODELS"]))
        BY <1>1, <1>2, <1>3, SignedField DEF CompareField, NormalizeForComparison
    <2> QED BY <2>1, SameModels DEF Compatible
<1>4. CASE f # "SUPPORTED_MODELS"
    <2>1. f \in config.check_fields \ {"SUPPORTED_MODELS"}
        BY <1>4 DEF GetFieldsToCheck
    <2>2. GetFieldValue(s, f) # GetFieldValue(t, f)
        BY <1>1, <1>4 DEF CompareField, NormalizeForComparison
    <2>3. config.fields[f] # c.fields[f]
        BY <1>2, <1>4, <2>2, SignedField
    <2> QED BY <2>1, <2>3 DEF Compatible
<1> QED BY <1>3, <1>4

-----------------------------------------------------------------------------
(* Records and signatures are of the same models.                          *)
Reads(p) == \E ks \in {{Sig}, AllKeys} : Begins(p, Read(ks))

(* The actions of the server, by what becomes of its call. The client a    *)
(* read is made with is a new one or the old one; writes are made with the *)
(* one the server has.                                                     *)
WritesWith(p, c) == IsCall(c) /\ c.at = "begun" /\ c.op # "none" /\ Begin(p, c, cache[p])

LEMMA ReadsAre ==
    ASSUME NEW p, NEW ks \in {{Sig}, AllKeys}, NEW client \in {NoClient, cache[p]},
           Begin(p, Read(ks), client)
    PROVE  Reads(p)
<1>1. IsCall(Read(ks)) /\ Read(ks).at = "begun" /\ Read(ks).op # "none"
    BY CallShapes DEF AllKeys
<1> QED BY <1>1 DEF Reads, Begins

Signature == Set({Sig}, Permanent(SignatureOf(config)))

LEMMA ServerSteps ==
    ASSUME TypeInv, MovesServer
    PROVE  /\ UNCHANGED clearing
           /\ \/ /\ \E c \in Configs : Launch(c)
                 /\ Reads(Server) /\ phase = "off" /\ phase' = "validating"
              \/ /\ Validated /\ Reads(Server) /\ UNCHANGED <<config, restored, blind>>
                 /\ phase = "validating" /\ phase' = "looking"
              \/ /\ Validated \/ LookedForData
                 /\ Reads(Server) /\ UNCHANGED <<config, restored>>
                 /\ phase \in {"validating", "looking"} /\ phase' = "restoring"
              \/ /\ Validated \/ LookedForData
                 /\ Ends(Server) /\ UNCHANGED <<cache, config, restored>>
                 /\ phase \in {"validating", "looking"} /\ phase' = "refused"
              \/ /\ Restored /\ WritesWith(Server, Signature)
                 /\ phase = "restoring" /\ phase' = "signing" /\ UNCHANGED <<config, blind>>
              \/ /\ Signed \/ Return
                 /\ Ends(Server) /\ UNCHANGED <<cache, config, restored, blind>>
                 /\ phase \in {"signing", "up"} /\ phase' = "up"
              \/ /\ (\E k \in Keys : SaveRecord(k) \/ DeleteRecord(k)) \/ SaveRecordsAtomic(Keys)
                 /\ \E c : /\ WritesWith(Server, c) /\ c.keys \subseteq Keys
                           /\ c.op \in {"set", "pipeline"} =>
                                  c.entry.value.by = Models(config)
                 /\ phase = "up" /\ UNCHANGED <<phase, config, restored, blind>>
              \/ /\ Exit /\ Ends(Server) /\ cache'[Server] = NoClient
                 /\ phase' = "off" /\ restored' = {} /\ UNCHANGED blind
<1> USE DEF counters, program, known, ghosts
<1>1. CASE \E c \in Configs : Launch(c)
    BY <1>1, ReadsAre DEF Launch
<1>2. CASE Validated
    <2>1. \/ phase' = "looking" /\ Begin(Server, Read(AllKeys), cache[Server])
          \/ Restore \/ Refuse
        BY <1>2 DEF Validated
    <2>2. phase = "validating" /\ UNCHANGED <<clearing, config, restored, blind>>
        BY <1>2 DEF Validated
    <2>3. Restore => Reads(Server) /\ phase' = "restoring"
        BY ReadsAre DEF Restore
    <2>4. Refuse => Ends(Server) /\ UNCHANGED cache /\ phase' = "refused"
        BY DEF Refuse, Ends
    <2>5. Begin(Server, Read(AllKeys), cache[Server]) => Reads(Server)
        BY ReadsAre
    <2> QED BY <1>2, <2>1, <2>2, <2>3, <2>4, <2>5
<1>3. CASE LookedForData
    <2>1. phase = "looking" /\ UNCHANGED <<clearing, config, restored>> /\ (Restore \/ Refuse)
        BY <1>3 DEF LookedForData
    <2>2. Restore => Reads(Server) /\ phase' = "restoring"
        BY ReadsAre DEF Restore
    <2>3. Refuse => Ends(Server) /\ UNCHANGED cache /\ phase' = "refused"
        BY DEF Refuse, Ends
    <2> QED BY <1>3, <2>1, <2>2, <2>3
<1>4. CASE Restored
    <2>1. IsCall(Signature) /\ Signature.at = "begun" /\ Signature.op # "none"
        BY CallShapes DEF AllKeys, Signature
    <2> QED BY <1>4, <2>1 DEF Restored, WritesWith, Signature
<1>5. CASE Signed \/ Return
    BY <1>5 DEF Signed, Return, Ends
<1>6. CASE Exit
    BY <1>6 DEF Exit, Ends, TypeInv, Shape, Processes
<1>7. ASSUME NEW k \in Keys, SaveRecord(k)
      PROVE  \E c : /\ WritesWith(Server, c) /\ c.keys \subseteq Keys
                    /\ c.op \in {"set", "pipeline"} => c.entry.value.by = Models(config)
    <2>1. PICK n : \E e \in {Permanent(Record(n, {k})), Expiring(Record(n, {k}))} :
                       Begin(Server, Set({k}, e), cache[Server])
        BY <1>7 DEF SaveRecord
    <2>2. PICK e \in {Permanent(Record(n, {k})), Expiring(Record(n, {k}))} :
              Begin(Server, Set({k}, e), cache[Server])
        BY <2>1
    <2> DEFINE c == Set({k}, e)
    <2>3. IsCall(c) /\ c.at = "begun" /\ c.op = "set" /\ c.keys = {k} /\ c.entry = e
        BY CallShapes DEF AllKeys
    <2>4. e.value.by = Models(config)
        BY DEF Permanent, Expiring, Record, Models
    <2> HIDE DEF c
    <2> QED BY <2>2, <2>3, <2>4 DEF c, WritesWith
<1>8. ASSUME SaveRecordsAtomic(Keys)
      PROVE  \E c : /\ WritesWith(Server, c) /\ c.keys \subseteq Keys
                    /\ c.op \in {"set", "pipeline"} => c.entry.value.by = Models(config)
    <2> DEFINE e == Permanent(Record(writes', Keys))
               c == Pipeline(Keys, e)
    <2>1. Begin(Server, c, cache[Server])
        BY <1>8 DEF SaveRecordsAtomic
    <2>2. IsCall(c) /\ c.at = "begun" /\ c.op = "pipeline" /\ c.keys = Keys /\ c.entry = e
        BY CallShapes DEF AllKeys
    <2>3. e.value.by = Models(config)
        BY DEF Permanent, Record, Models
    <2> HIDE DEF c, e
    <2> QED BY <2>1, <2>2, <2>3 DEF WritesWith
<1>9. ASSUME NEW k \in Keys, DeleteRecord(k)
      PROVE  \E c : /\ WritesWith(Server, c) /\ c.keys \subseteq Keys
                    /\ c.op \in {"set", "pipeline"} => c.entry.value.by = Models(config)
    <2>1. Begin(Server, Delete({k}), cache[Server])
        BY <1>9 DEF DeleteRecord
    <2>2. /\ IsCall(Delete({k})) /\ Delete({k}).at = "begun" /\ Delete({k}).op = "delete"
          /\ Delete({k}).keys = {k}
        BY CallShapes DEF AllKeys
    <2> QED BY <2>1, <2>2 DEF WritesWith
<1>10. CASE (\E k \in Keys : SaveRecord(k) \/ DeleteRecord(k)) \/ SaveRecordsAtomic(Keys)
    <2>1. /\ phase = "up" /\ UNCHANGED <<clearing, phase, config, restored, blind>>
        BY <1>10 DEF SaveRecord, DeleteRecord, SaveRecordsAtomic, Serving
    <2> QED BY <1>7, <1>8, <1>9, <1>10, <2>1
<1> QED BY <1>1, <1>2, <1>3, <1>4, <1>5, <1>6, <1>10 DEF MovesServer

LEMMA CliSteps ==
    ASSUME TypeInv, MovesCli
    PROVE  /\ UNCHANGED <<phase, config, restored, blind>>
           /\ \/ Clear /\ Reads(Cli) /\ clearing = "idle" /\ clearing' = "scanning"
              \/ /\ Scanned /\ WritesWith(Cli, Delete(Present(View(Cli))))
                 /\ Succeeded(Cli) /\ Present(View(Cli)) # {}
                 /\ clearing = "scanning" /\ clearing' = "deleting"
              \/ /\ Scanned \/ Cleared \/ CliExit
                 /\ Ends(Cli) /\ cache'[Cli] = NoClient
                 /\ clearing # "idle" /\ clearing' = "idle"
<1> USE DEF counters, program, known, ghosts
<1>1. EndClear => clearing' = "idle" /\ cache'[Cli] = NoClient
    BY DEF EndClear, TypeInv, Shape, Processes
<1>2. CASE Clear
    BY <1>2, ReadsAre DEF Clear
<1>3. CASE Scanned
    <2>1. CASE EndClear /\ UNCHANGED <<mode, disk, tmp, promised, unread>>
        BY <1>1, <1>3, <2>1 DEF Scanned, EndClear, Ends
    <2>2. CASE /\ Succeeded(Cli) /\ Present(View(Cli)) # {} /\ clearing' = "deleting"
               /\ Begin(Cli, Delete(Present(View(Cli))), cache[Cli])
        <3> DEFINE ks == Present(View(Cli))
        <3>1. ks \in SUBSET AllKeys
            BY DEF Present
        <3>2. IsCall(Delete(ks)) /\ Delete(ks).at = "begun" /\ Delete(ks).op # "none"
            BY <3>1, CallShapes
        <3>3. clearing = "scanning" /\ UNCHANGED <<phase, config, restored, blind>>
            BY <1>3 DEF Scanned
        <3>4. WritesWith(Cli, Delete(ks))
            BY <2>2, <3>2 DEF WritesWith
        <3> QED BY <1>3, <2>2, <3>3, <3>4
    <2> QED BY <1>3, <2>1, <2>2 DEF Scanned
<1>4. CASE Cleared \/ CliExit
    BY <1>1, <1>4 DEF Cleared, CliExit, EndClear, Ends
<1> QED BY <1>2, <1>3, <1>4 DEF MovesCli

LEMMA BegunFull ==
    ASSUME TypeInv, mode = "FILE", NEW p \in Processes,
           Reads(p) \/ \E c : WritesWith(p, c)
    PROVE  mode' = mode /\ cache'[p].is = "full" /\ \A q \in Processes : q # p => cache'[q] = cache[q]
<1>1. PICK c : Begins(p, c)
    BY DEF Reads, WritesWith, Begins
<1>2. PICK client : client \in {NoClient, cache[p]} /\ Begin(p, c, client)
    BY <1>1 DEF Begins
<1>3. \E image : BegunInFile(p, c, client, image)
    BY <1>1, <1>2, BeginEffect DEF Begins
<1> QED BY <1>1, <1>3, BeginsEffect DEF BegunInFile, Remembers, Full

LEMMA ClientStep ==
    ASSUME TypeInv, HasClient, [Next]_vars, TypeInv'
    PROVE  HasClient'
<1> SUFFICES ASSUME mode' = "FILE" PROVE HasClient'
    BY DEF HasClient
<1>1. CASE UNCHANGED <<mode, phase, clearing, cache>>
    BY <1>1 DEF HasClient
<1>2. Server \in Processes /\ Cli \in Processes /\ Server # Cli
    BY DEF Processes, Server, Cli
<1>3. CASE MovesServer
    <2>1. CASE Reads(Server) \/ \E c : WritesWith(Server, c)
        <3>1. mode = "FILE"
            BY <2>1, BeginsEffect DEF Reads, WritesWith, Begins, Processes
        <3> QED BY <1>2, <1>3, <2>1, <3>1, BegunFull, ServerSteps DEF HasClient
    <2>2. CASE /\ Ends(Server) /\ phase # "off"
               /\ cache' = cache \/ (phase' = "off" /\ cache'[Server] = NoClient)
        <3>1. mode' = mode /\ cache'[Cli] = cache[Cli] /\ UNCHANGED clearing
            BY <1>2, <1>3, <2>2, EndEffect, ServerSteps DEF Ends, Remembers
        <3> QED BY <2>2, <3>1 DEF HasClient
    <2>3. Exit => phase # "off"
        BY DEF Exit
    <2>4. \/ Reads(Server) \/ \E c : WritesWith(Server, c)
          \/ Ends(Server) /\ cache' = cache /\ phase # "off"
          \/ Exit /\ Ends(Server) /\ phase' = "off" /\ cache'[Server] = NoClient
        BY <1>3, ServerSteps
    <2> QED BY <2>1, <2>2, <2>3, <2>4
<1>4. CASE MovesCli
    <2>1. CASE Reads(Cli) \/ \E c : WritesWith(Cli, c)
        <3>1. mode = "FILE"
            BY <2>1, BeginsEffect DEF Reads, WritesWith, Begins, Processes
        <3> QED BY <1>2, <1>4, <2>1, <3>1, BegunFull, CliSteps DEF HasClient
    <2>2. CASE Ends(Cli) /\ clearing' = "idle"
        <3>1. mode' = mode /\ cache'[Server] = cache[Server] /\ UNCHANGED phase
            BY <1>2, <1>4, <2>2, EndEffect, CliSteps DEF Ends, Remembers
        <3> QED BY <2>2, <3>1 DEF HasClient
    <2> QED BY <1>4, <2>1, <2>2, CliSteps
<1>5. CASE Expire
    <2>1. UNCHANGED <<mode, phase, clearing>>
        BY <1>5 DEF Expire
    <2>2. \A p \in Processes : cache'[p].is = cache[p].is
        BY <1>5, ExpireEffect DEF OlderFile
    <2> QED BY <1>2, <2>1, <2>2 DEF HasClient
<1>6. CASE \E p \in Processes : Storage(p)
    <2>1. UNCHANGED <<mode, phase, clearing, cache>>
        BY <1>6, StorageEffect DEF program
    <2> QED BY <1>1, <2>1
<1>7. CASE UNCHANGED vars
    BY <1>1, <1>7 DEF vars
<1> QED BY <1>3, <1>4, <1>5, <1>6, <1>7, NextCases

(* Whatever is stored stays of one and the same models.                    *)
LEMMA BeginKeepsOwned ==
    ASSUME TypeInv, NEW p \in Processes, NEW c, IsCall(c), c.at = "begun", c.op # "none",
           NEW client, client \in {NoClient, cache[p]}, Begin(p, c, client), ~unread',
           NEW m, Owned(m),
           c.op = "read" \/ (client = cache[p] /\ (mode = "FILE" => cache[p].is = "full")),
           c.op \in {"set", "pipeline"} => \A k \in c.keys : Mine(k, c.entry.value, m)
    PROVE  Owned(m)'
<1>1. /\ UNCHANGED <<mode, disk, tmp>>
      /\ \/ /\ mode = "REDIS" /\ Moves(p, c, "begun") /\ UNCHANGED cache
         \/ mode = "FILE" /\ \E image : BegunInFile(p, c, client, image)
    BY BeginEffect
<1>2. /\ \A q \in Processes : q # p => call'[q] = call[q] /\ cache'[q] = cache[q]
      /\ call'[p].op = c.op /\ call'[p].keys = c.keys /\ call'[p].entry = c.entry
    BY BeginsEffect DEF Begins
<1>3. \A q \in Processes : call'[q].at = "begun" /\ call'[q].op \in {"set", "pipeline"} =>
          \A k \in call'[q].keys : Mine(k, call'[q].entry.value, m)
    BY <1>2 DEF Owned
<1>4. CASE mode = "REDIS"
    BY <1>1, <1>3, <1>4 DEF Owned
<1>5. CASE mode = "FILE"
    <2>1. PICK image : BegunInFile(p, c, client, image)
        BY <1>1, <1>5
    <2>2. IsImage(image) /\ cache'[p].image = Applied(c, image)
        BY <2>1 DEF BegunInFile, Remembers, Full
    <2>3. ASSUME NEW k \in AllKeys, image[k] # Absent, c.op # "read" \/ image[k].expires # "past"
          PROVE  Mine(k, image[k].value, m)
        <3>1. CASE client # NoClient
            BY <2>1, <2>3, <3>1 DEF BegunInFile, LoadedBy, Owned
        <3>2. CASE client = NoClient
            <4>1. c.op = "read"
                BY <1>5, <3>2 DEF NoClient, NoFile
            <4>2. image = disk.image
                BY <2>1, <3>2 DEF BegunInFile, LoadedBy
            <4> QED BY <2>3, <4>1, <4>2 DEF Owned
        <3> QED BY <3>1, <3>2
    <2>4. ASSUME NEW k \in AllKeys, Applied(c, image)[k] # Absent
          PROVE  Mine(k, Applied(c, image)[k].value, m)
        <3>1. CASE c.op = "read"
            BY <2>2, <2>3, <2>4, <3>1, AppliedShape
        <3>2. CASE c.op \in {"set", "pipeline"}
            BY <2>2, <2>3, <2>4, <3>2, AppliedShape
        <3>3. CASE c.op = "delete"
            BY <2>2, <2>3, <2>4, <3>3, AppliedShape
        <3> QED BY <3>1, <3>2, <3>3 DEF IsCall
    <2>5. \A q \in Processes, k \in AllKeys : cache'[q].image[k] # Absent =>
              Mine(k, cache'[q].image[k].value, m)
        BY <1>2, <2>2, <2>4 DEF Owned
    <2> QED BY <1>1, <1>3, <2>5 DEF Owned
<1> QED BY <1>4, <1>5 DEF TypeInv, Shape

(* What a step of the storage makes of the store.                          *)
LEMMA StorageDisk ==
    ASSUME DurableInv, NEW p \in Processes, Storage(p)
    PROVE  \/ UNCHANGED disk /\ call'[p].at # "done"
           \/ mode = "FILE" /\ disk' = cache[p] /\ cache[p].is = "full" /\ call'[p].at = "done"
           \/ /\ mode = "REDIS" /\ call[p].at = "begun" /\ call[p].op # "none"
              /\ disk' = Full(Applied(call[p], disk.image))
<1> USE DEF DurableInv
<1>1. CASE OpenTmp(p) \/ FillTmp(p) \/ RaiseDump(p) \/ RedisError(p)
    <2>1. UNCHANGED disk
        BY <1>1 DEF OpenTmp, FillTmp, RaiseDump, RedisError
    <2>2. \E at \in {"opened", "filled", "failed"} : Goto(p, at)
        BY <1>1 DEF OpenTmp, FillTmp, RaiseDump, RedisError
    <2> QED BY <2>1, <2>2, WentTo
<1>2. CASE ReplaceFile(p)
    <2>1. call[p].at = "filled" /\ mode = "FILE" /\ cache[p].is = "full"
        BY <1>2 DEF ReplaceFile, TypeInv, Modal, Shape
    <2>2. tmp = cache[p] /\ tmp # NoFile
        BY <2>1 DEF Moved, NoFile
    <2>3. disk' = cache[p] /\ Goto(p, "done")
        BY <1>2, <2>2 DEF ReplaceFile
    <2> QED BY <2>1, <2>3, WentTo
<1>3. CASE RedisReply(p)
    <2>1. call[p].at = "begun" /\ disk' = Full(Applied(call[p], disk.image))
        BY <1>3 DEF RedisReply
    <2>2. mode = "REDIS"
        BY <2>1 DEF TypeInv, Modal, Shape
    <2> QED BY <1>3, <2>1, <2>2, StorageEffect DEF Storage
<1> QED BY <1>1, <1>2, <1>3 DEF Storage

LEMMA StorageKeepsOwned ==
    ASSUME DurableInv, NEW p \in Processes, Storage(p), NEW m, Owned(m)
    PROVE  Owned(m)'
<1> USE DEF DurableInv
<1>1. UNCHANGED cache
    BY StorageEffect
<1>2. \A q \in Processes : /\ call'[q].op = call[q].op /\ call'[q].keys = call[q].keys
                           /\ call'[q].entry = call[q].entry
                           /\ call'[q].at = "begun" => call[q].at = "begun"
    BY StorageCalls
<1>3. ASSUME NEW k \in AllKeys, disk'.image[k] # Absent, disk'.image[k].expires # "past"
      PROVE  Mine(k, disk'.image[k].value, m)
    <2>1. CASE UNCHANGED disk
        BY <1>3, <2>1 DEF Owned
    <2>2. CASE disk' = cache[p]
        BY <1>3, <2>2 DEF Owned
    <2>3. CASE /\ call[p].at = "begun" /\ call[p].op # "none"
               /\ disk' = Full(Applied(call[p], disk.image))
        <3>1. IsImage(disk.image) /\ IsCall(call[p]) /\ disk'.image = Applied(call[p], disk.image)
            BY <2>3 DEF TypeInv, Shape, IsFile, Full
        <3>2. \/ disk'.image[k] = disk.image[k]
              \/ disk'.image[k] = Absent
              \/ /\ call[p].op \in {"set", "pipeline"} /\ k \in call[p].keys
                 /\ disk'.image[k] = call[p].entry
            BY <2>3, <3>1, AppliedShape DEF IsCall
        <3> QED BY <1>3, <2>3, <3>2 DEF Owned
    <2> QED BY <2>1, <2>2, <2>3, StorageDisk
<1> QED BY <1>1, <1>2, <1>3 DEF Owned

LEMMA EndKeepsOwned ==
    ASSUME TypeInv, NEW p \in Processes, Ends(p), NEW m, Owned(m)
    PROVE  Owned(m)'
<1>1. UNCHANGED disk
    BY DEF Ends
<1>2. /\ \A q \in Processes : cache'[q] = cache[q] \/ cache'[q] = NoClient
      /\ \A q \in Processes : q # p => call'[q] = call[q]
      /\ call'[p].at = "idle"
    BY EndEffect DEF Remembers, Moves
<1>3. \A k \in AllKeys : NoClient.image[k] = Absent
    BY DEF NoClient, NoFile, Empty
<1> QED BY <1>1, <1>2, <1>3 DEF Owned

LEMMA ExpireKeepsOwned ==
    ASSUME TypeInv, Expire, NEW m, Owned(m)
    PROVE  Owned(m)'
<1>1. \A e : Older(e).value = e.value \/ Older(e) = e
    BY DEF Older
<1>2. \A e : /\ Older(e) # Absent => e # Absent
             /\ Older(e).expires # "past" => Older(e) = e
    BY DEF Older, Absent
<1>3. \A k \in AllKeys : disk'.image[k] \in {Absent, Older(disk.image[k])}
    BY ExpireEffect
<1>4. \A p \in Processes, k \in AllKeys : cache'[p].image[k] = Older(cache[p].image[k])
    BY ExpireEffect, AgedImage DEF TypeInv, Shape, OlderFile, IsFile
<1>5. \A p \in Processes : /\ call'[p].op = call[p].op /\ call'[p].keys = call[p].keys
                           /\ call'[p].at = call[p].at
                           /\ call[p].at = "begun" => call'[p].entry = call[p].entry
    BY ExpireEffect, AgedCallShape DEF TypeInv, Shape
<1>6. \A k \in AllKeys : disk'.image[k] # Absent /\ disk'.image[k].expires # "past" =>
          Mine(k, disk'.image[k].value, m)
    BY <1>2, <1>3 DEF Owned
<1>7. \A p \in Processes, k \in AllKeys : cache'[p].image[k] # Absent =>
          Mine(k, cache'[p].image[k].value, m)
    BY <1>1, <1>2, <1>4 DEF Owned
<1> QED BY <1>5, <1>6, <1>7 DEF Owned

(* A starting server has in memory what the file has.                      *)
LEMMA ReadMirrors ==
    ASSUME TypeInv, mode = "FILE", NEW client, NEW ks \in {{Sig}, AllKeys},
           client = NoClient \/ (client = cache[Server] /\ Mirrored /\ phase \in {"validating", "looking"}),
           Begin(Server, Read(ks), client), ~unread'
    PROVE  Mirrored'
<1>1. Server \in Processes /\ client \in {NoClient, cache[Server]}
    BY DEF Processes
<1>2. IsCall(Read(ks)) /\ Read(ks).at = "begun" /\ Read(ks).op = "read"
    BY CallShapes DEF AllKeys
<1>3. UNCHANGED <<mode, disk, tmp>> /\ \E image : BegunInFile(Server, Read(ks), client, image)
    BY <1>1, <1>2, BeginEffect
<1>4. PICK image : BegunInFile(Server, Read(ks), client, image)
    BY <1>3
<1>5. IsImage(image) /\ cache'[Server].image = Applied(Read(ks), image)
    BY <1>4 DEF BegunInFile, Remembers, Full
<1>6. \A k \in AllKeys : disk.image[k].expires # "past" => image[k] = disk.image[k]
    BY <1>4 DEF BegunInFile, LoadedBy, Mirrored
<1>7. \A k \in AllKeys : disk.image[k].expires # "past" => cache'[Server].image[k] = disk.image[k]
    BY <1>2, <1>5, <1>6, AppliedShape
<1> QED BY <1>3, <1>7 DEF Mirrored

LEMMA MirroredStep ==
    ASSUME Apart, DurableInv, DurableInv', HasClient, ~unread', Mirrored, [Next]_vars
    PROVE  Mirrored'
<1> USE DEF DurableInv
<1> SUFFICES ASSUME mode' = "FILE", phase' \in {"validating", "looking"}
             PROVE  Mirrored'
    BY DEF Mirrored
<1>1. Server \in Processes /\ Cli \in Processes /\ Server # Cli
    BY DEF Processes, Server, Cli
<1>2. CASE UNCHANGED <<mode, phase, disk, cache>>
    BY <1>2 DEF Mirrored
<1>3. CASE MovesServer
    <2>1. \/ \E c \in Configs : Launch(c)
          \/ Validated /\ phase = "validating" /\ phase' = "looking"
        BY <1>3, ServerSteps
    <2>2. ASSUME NEW client, NEW ks \in {{Sig}, AllKeys}, Begin(Server, Read(ks), client)
          PROVE  mode = "FILE"
        BY <2>2 DEF Begin
    <2>3. ASSUME NEW c \in Configs, Launch(c) PROVE Mirrored'
        <3>1. Begin(Server, Read({Sig}), NoClient)
            BY <2>3 DEF Launch
        <3> QED BY <2>2, <3>1, ReadMirrors
    <2>4. CASE Validated /\ phase = "validating" /\ phase' = "looking"
        <3>1. Begin(Server, Read(AllKeys), cache[Server])
            BY <2>4 DEF Validated, Restore, Refuse
        <3> QED BY <2>2, <2>4, <3>1, ReadMirrors
    <2> QED BY <2>1, <2>3, <2>4
<1>4. CASE MovesCli
    <2>1. phase' = phase /\ (clearing # "idle" \/ clearing' # "idle")
        BY <1>4, CliSteps
    <2>2. mode' = mode
        BY <1>1, <1>4, CliCalls, BeginsEffect DEF Ends
    <2> QED BY <2>1, <2>2 DEF Alone
<1>5. CASE Expire
    <2>1. mode' = mode /\ phase' = phase
        BY <1>5, ExpireEffect DEF Expire
    <2>2. \A k \in AllKeys : disk'.image[k] = Older(disk.image[k])
        BY <1>5, <2>1, ExpireEffect
    <2>3. \A k \in AllKeys : cache'[Server].image[k] = Older(cache[Server].image[k])
        BY <1>1, <1>5, ExpireEffect, AgedImage DEF TypeInv, Shape, OlderFile, IsFile
    <2>4. \A e : Older(e).expires # "past" => Older(e) = e
        BY DEF Older
    <2> QED BY <2>1, <2>2, <2>3, <2>4 DEF Mirrored
<1>6. ASSUME NEW p \in Processes, Storage(p) PROVE Mirrored'
    <2>1. UNCHANGED <<mode, phase, cache>> /\ call[p].op # "none"
        BY <1>6, StorageEffect DEF program
    <2>2. p = Server
        BY <2>1, OtherIsIdle, <1>1 DEF Processes, TypeInv, Control, Alone, Idle
    <2>3. UNCHANGED disk \/ disk' = cache[Server]
        BY <1>6, <2>1, <2>2, StorageDisk
    <2> QED BY <2>1, <2>3 DEF Mirrored
<1>7. CASE UNCHANGED vars
    BY <1>2, <1>7 DEF vars
<1> QED BY <1>3, <1>4, <1>5, <1>6, <1>7, NextCases

(* The store whose search for data finds none may become anyone's.         *)
LEMMA EmptyIsAnyones ==
    ASSUME TypeInv, Alone, Mirrored, phase = "looking",
           \A k \in AllKeys : View(Server)[k] = Absent, NEW m
    PROVE  Owned(m)
<1>1. \A p \in Processes : ~(call[p].at = "begun" /\ call[p].op \in {"set", "pipeline"})
    BY DEF TypeInv, Control, Processes, Idle
<1>2. \A k \in AllKeys : NoClient.image[k] = Absent
    BY DEF NoClient, NoFile, Empty
<1>3. CASE mode = "REDIS"
    <2>1. \A k \in AllKeys : disk.image[k] = Absent
        BY <1>3 DEF View
    <2>2. \A p \in Processes : cache[p] = NoClient
        BY <1>3 DEF TypeInv, Modal
    <2> QED BY <1>1, <1>2, <2>1, <2>2 DEF Owned
<1>4. CASE mode = "FILE"
    <2>1. \A k \in AllKeys : cache[Server].image[k] = Absent
        BY <1>4 DEF View
    <2>2. cache[Cli] = NoClient
        BY <1>4 DEF Alone, TypeInv, Control
    <2>3. \A k \in AllKeys : disk.image[k].expires # "past" => disk.image[k] = Absent
        BY <1>4, <2>1 DEF Mirrored
    <2> QED BY <1>1, <1>2, <2>1, <2>2, <2>3 DEF Owned, Processes
<1> QED BY <1>3, <1>4 DEF TypeInv, Shape

LEMMA ReadKeepsOwned ==
    ASSUME TypeInv, NEW p \in Processes, Reads(p), ~unread', NEW m, Owned(m)
    PROVE  Owned(m)'
<1>1. PICK ks \in {{Sig}, AllKeys} : Begins(p, Read(ks))
    BY DEF Reads
<1>2. IsCall(Read(ks)) /\ Read(ks).at = "begun" /\ Read(ks).op = "read"
    BY CallShapes DEF AllKeys
<1>3. PICK client : client \in {NoClient, cache[p]} /\ Begin(p, Read(ks), client)
    BY <1>1 DEF Begins
<1> QED BY <1>2, <1>3, BeginKeepsOwned

LEMMA WriteKeepsOwned ==
    ASSUME TypeInv, HasClient, ~unread', NEW m, Owned(m), NEW p \in Processes,
           IF p = Server THEN phase # "off" ELSE clearing # "idle",
           NEW c, WritesWith(p, c),
           c.op \in {"set", "pipeline"} => \A k \in c.keys : Mine(k, c.entry.value, m)
    PROVE  Owned(m)'
<1>1. mode = "FILE" => cache[p].is = "full"
    BY DEF HasClient, Processes
<1>2. cache[p] \in {NoClient, cache[p]}
    OBVIOUS
<1> QED BY <1>1, <1>2, BeginKeepsOwned DEF WritesWith

(* What a process sees in its client, or in Redis, is of these models.     *)
LEMMA ViewIsOwned ==
    ASSUME TypeInv, NEW m, Owned(m), NEW k \in AllKeys, View(Server)[k] # Absent
    PROVE  Mine(k, View(Server)[k].value, m)
<1>1. CASE mode = "REDIS"
    BY <1>1 DEF View, Owned, TypeInv, Modal
<1>2. CASE mode = "FILE"
    BY <1>2 DEF View, Owned, Processes
<1> QED BY <1>1, <1>2 DEF TypeInv, Shape

LEMMA OwnedStep ==
    ASSUME Apart, OwnerInv, DurableInv', ~unread', ~blind', ~unread, ~blind, [Next]_vars
    PROVE  \E m : Owned(m)' /\ (Accepted' => m = Models(config)')
<1> USE DEF OwnerInv, DurableInv
<1>1. PICK m : Owned(m) /\ (Accepted => m = Models(config))
    OBVIOUS
<1>2. Server \in Processes /\ Cli \in Processes /\ Server # Cli
    BY DEF Processes, Server, Cli
<1>3. CASE MovesServer
    <2>1. ASSUME Reads(Server) \/ Ends(Server) PROVE Owned(m)'
        BY <1>1, <1>2, <2>1, ReadKeepsOwned, EndKeepsOwned
    <2>2. CASE phase' \notin {"restoring", "signing", "up"}
        BY <1>3, <2>1, <2>2, ServerSteps DEF Accepted
    <2>3. CASE /\ Validated /\ phase = "validating" /\ phase' = "restoring"
               /\ Reads(Server) /\ UNCHANGED config
        <3>1. PICK stored : /\ stored = IF Succeeded(Server) THEN View(Server)[Sig].value ELSE None
                            /\ stored # None /\ Accepts(stored)
            BY <2>3 DEF Validated, Refuse
        <3>2. stored = View(Server)[Sig].value /\ View(Server)[Sig] # Absent
            BY <3>1 DEF Absent
        <3>3. Sig \in AllKeys
            BY DEF AllKeys
        <3>4. Mine(Sig, stored, m)
            BY <1>1, <3>2, <3>3, ViewIsOwned
        <3>5. PICK c \in Configs : stored = SignatureOf(c) /\ Models(c) = m
            BY <3>4 DEF Mine
        <3>6. config \in Configs
            BY <2>3 DEF TypeInv, Control
        <3>7. m = Models(config)
            BY <3>1, <3>5, <3>6, AcceptedModels
        <3> QED BY <2>1, <2>3, <3>7 DEF Models
    <2>4. CASE /\ LookedForData /\ phase' = "restoring" /\ Reads(Server) /\ UNCHANGED config
        <3>1. Succeeded(Server) /\ phase = "looking"
            BY <2>4 DEF LookedForData
        <3>2. Present(View(Server)) = {}
            BY <2>4, <3>1 DEF LookedForData, Refuse
        <3>3. Owned(Models(config))
            BY <3>1, <3>2, EmptyIsAnyones DEF Present
        <3>4. Owned(Models(config))'
            <4> DEFINE n == Models(config)
            <4>1. Owned(n)
                BY <3>3
            <4>2. n' = n
                BY <2>4 DEF Models
            <4> HIDE DEF n
            <4>3. \A o : Owned(o) => Owned(o)'
                BY <1>2, <2>4, ReadKeepsOwned
            <4> QED BY <4>1, <4>2, <4>3 DEF n
        <3> QED BY <3>4
    <2>5. CASE /\ WritesWith(Server, Signature) /\ phase = "restoring" /\ UNCHANGED config
        <3>1. m = Models(config) /\ config \in Configs
            BY <1>1, <2>5 DEF Accepted, TypeInv, Control
        <3>2. /\ Signature.keys = {Sig} /\ Signature.entry.value = SignatureOf(config)
            BY DEF Signature, Set, Permanent
        <3>3. Mine(Sig, SignatureOf(config), m)
            BY <3>1, KeysAssumption DEF Mine
        <3>4. Owned(m)'
            BY <1>1, <1>2, <2>5, <3>2, <3>3, WriteKeepsOwned
        <3> QED BY <2>5, <3>1, <3>4 DEF Models
    <2>6. CASE /\ \E c : /\ WritesWith(Server, c) /\ c.keys \subseteq Keys
                         /\ c.op \in {"set", "pipeline"} => c.entry.value.by = Models(config)
               /\ phase = "up" /\ UNCHANGED <<phase, config>>
        <3>1. m = Models(config)
            BY <1>1, <2>6 DEF Accepted
        <3>2. PICK c : /\ WritesWith(Server, c) /\ c.keys \subseteq Keys
                       /\ c.op \in {"set", "pipeline"} => c.entry.value.by = Models(config)
            BY <2>6
        <3>3. c.op \in {"set", "pipeline"} => \A k \in c.keys : Mine(k, c.entry.value, m)
            BY <3>1, <3>2, KeysAssumption DEF Mine
        <3>4. Owned(m)'
            BY <1>1, <1>2, <2>6, <3>2, <3>3, WriteKeepsOwned
        <3> QED BY <2>6, <3>1, <3>4 DEF Models
    <2>7. CASE /\ Ends(Server) /\ phase \in {"signing", "up"} /\ UNCHANGED config
        <3>1. m = Models(config)
            BY <1>1, <2>7 DEF Accepted
        <3> QED BY <2>1, <2>7, <3>1 DEF Models
    <2>8. \/ phase' \in {"validating", "looking", "refused", "off"}
          \/ /\ Validated \/ LookedForData
             /\ Reads(Server) /\ UNCHANGED config /\ phase' = "restoring"
          \/ WritesWith(Server, Signature) /\ phase = "restoring" /\ UNCHANGED config
          \/ Ends(Server) /\ phase \in {"signing", "up"} /\ UNCHANGED config
          \/ /\ \E c : /\ WritesWith(Server, c) /\ c.keys \subseteq Keys
                       /\ c.op \in {"set", "pipeline"} => c.entry.value.by = Models(config)
             /\ phase = "up" /\ UNCHANGED <<phase, config>>
        BY <1>3, ServerSteps
    <2>9. Validated => phase = "validating"
        BY DEF Validated
    <2> QED BY <2>2, <2>3, <2>4, <2>5, <2>6, <2>7, <2>8, <2>9
<1>4. ASSUME UNCHANGED <<phase, config>>, Owned(m)'
      PROVE  \E n : Owned(n)' /\ (Accepted' => n = Models(config)')
    <2>1. Accepted' => m = Models(config)'
        BY <1>1, <1>4 DEF Accepted, Models
    <2> QED BY <1>4, <2>1
<1>5. CASE MovesCli
    <2>1. UNCHANGED <<phase, config>>
        BY <1>5, CliSteps
    <2>2. CASE Reads(Cli) \/ Ends(Cli)
        BY <1>1, <1>2, <1>4, <2>1, <2>2, ReadKeepsOwned, EndKeepsOwned
    <2>3. CASE WritesWith(Cli, Delete(Present(View(Cli)))) /\ clearing = "scanning"
        <3>1. Delete(Present(View(Cli))).op = "delete"
            BY DEF Delete
        <3>2. Owned(m)'
            BY <1>1, <1>2, <2>3, <3>1, WriteKeepsOwned
        <3> QED BY <1>4, <2>1, <3>2
    <2> QED BY <1>5, <2>2, <2>3, CliSteps
<1>6. CASE Expire
    <2>1. UNCHANGED <<phase, config>>
        BY <1>6 DEF Expire
    <2> QED BY <1>1, <1>4, <1>6, <2>1, ExpireKeepsOwned
<1>7. ASSUME NEW p \in Processes, Storage(p)
      PROVE  \E n : Owned(n)' /\ (Accepted' => n = Models(config)')
    <2>1. UNCHANGED <<phase, config>>
        BY <1>7, StorageEffect DEF program
    <2> QED BY <1>1, <1>4, <1>7, <2>1, StorageKeepsOwned
<1>8. CASE UNCHANGED vars
    <2>1. UNCHANGED <<phase, config, disk, cache, call>>
        BY <1>8 DEF vars
    <2>2. Owned(m)'
        BY <1>1, <2>1 DEF Owned
    <2> QED BY <1>4, <2>1, <2>2
<1> QED BY <1>3, <1>5, <1>6, <1>7, <1>8, NextCases

LEMMA RestoredStep ==
    ASSUME Apart, OwnerInv, DurableInv', [Next]_vars
    PROVE  /\ restored' # {} => phase' \in {"signing", "up"}
           /\ unread => unread'
           /\ blind => blind'
           /\ ~unread' /\ ~blind' => \A r \in restored' : r.by = Models(config)'
<1> USE DEF OwnerInv, DurableInv
<1>1. Server \in Processes /\ Cli \in Processes
    BY DEF Processes
<1>2. CASE Restored
    <2>1. /\ phase' = "signing" /\ UNCHANGED <<config, blind>> /\ phase = "restoring"
          /\ Begin(Server, Signature, cache[Server])
        BY <1>2 DEF Restored, Signature
    <2>2. unread => unread'
        BY <2>1 DEF Begin
    <2>3. \A r \in restored' : \E k \in Keys : View(Server)[k] # Absent /\ r = View(Server)[k].value
        <3>1. restored' \subseteq {View(Server)[k].value : k \in Present(View(Server)) \ {Sig}}
            BY <1>2 DEF Restored
        <3> QED BY <3>1 DEF Present, AllKeys
    <2>4. ASSUME ~unread', ~blind' PROVE \A r \in restored' : r.by = Models(config)'
        <3>1. PICK m : Owned(m) /\ m = Models(config)
            BY <2>1, <2>2, <2>4 DEF Accepted
        <3>2. \A k \in Keys : View(Server)[k] # Absent => View(Server)[k].value.by = m
            BY <3>1, ViewIsOwned DEF Mine, AllKeys
        <3> QED BY <2>1, <2>3, <3>1, <3>2 DEF Models
    <2> QED BY <2>1, <2>2, <2>4
<1>3. ASSUME /\ restored' = {} \/ UNCHANGED <<restored, config>>
             /\ restored' = {} \/ phase \notin {"signing", "up"} \/ phase' \in {"signing", "up"}
             /\ unread => unread'
             /\ blind => blind'
      PROVE  /\ restored' # {} => phase' \in {"signing", "up"}
             /\ ~unread' /\ ~blind' => \A r \in restored' : r.by = Models(config)'
    BY <1>3 DEF Models
<1>4. CASE MovesServer /\ ~Restored
    <2>1. unread => unread'
        <3>1. Ends(Server) \/ \E c : Begins(Server, c)
            BY <1>4, ServerCalls
        <3> QED BY <1>1, <3>1, BeginsEffect DEF Ends
    <2>2. blind => blind'
        BY <1>4 DEF MovesServer, Launch, Validated, LookedForData, Restored, Signed, SaveRecord,
               DeleteRecord, SaveRecordsAtomic, Return, Exit, known, ghosts
    <2>3. CASE \E c \in Configs : Launch(c)
        <3>1. restored' = restored /\ phase = "off"
            BY <2>3 DEF Launch
        <3>2. restored = {}
            BY <3>1
        <3> QED BY <1>3, <2>1, <2>2, <3>1, <3>2
    <2>4. CASE ~\E c \in Configs : Launch(c)
        <3>1. /\ restored' = {} \/ UNCHANGED <<restored, config>>
              /\ restored' = {} \/ phase \notin {"signing", "up"} \/ phase' \in {"signing", "up"}
            BY <1>4, <2>4, ServerSteps
        <3> QED BY <1>3, <2>1, <2>2, <3>1
    <2> QED BY <2>3, <2>4
<1>5. CASE MovesCli
    <2>1. UNCHANGED <<phase, config, restored, blind>>
        BY <1>5, CliSteps
    <2>2. Ends(Cli) \/ \E c : Begins(Cli, c)
        BY <1>5, CliCalls
    <2>3. unread => unread'
        BY <1>1, <2>2, BeginsEffect DEF Ends
    <2> QED BY <1>3, <2>1, <2>3
<1>6. CASE Expire
    <2>1. UNCHANGED <<phase, config, restored, blind, unread>>
        BY <1>6 DEF Expire, known
    <2> QED BY <1>3, <2>1
<1>7. ASSUME NEW p \in Processes, Storage(p) PROVE UNCHANGED <<phase, config, restored, blind, unread>>
    BY <1>7, StorageEffect DEF program, known
<1>8. CASE UNCHANGED vars
    BY <1>3, <1>8 DEF vars
<1> QED BY <1>2, <1>3, <1>4, <1>5, <1>6, <1>7, <1>8, NextCases

LEMMA OwnerInit == Init => OwnerInv
<1> SUFFICES ASSUME Init PROVE OwnerInv
    OBVIOUS
<1>1. DurableInv
    BY DurableInit
<1>2. HasClient /\ Mirrored /\ restored = {}
    BY DEF Init, HasClient, Mirrored
<1>3. Owned({}) /\ ~Accepted
    BY DEF Init, Owned, Accepted, Full, NoFile, NoClient, Empty, Idle
<1> QED BY <1>1, <1>2, <1>3 DEF OwnerInv

LEMMA OwnerStep ==
    ASSUME Apart, OwnerInv, [Next]_vars
    PROVE  OwnerInv'
<1>1. DurableInv'
    BY DurableStep DEF OwnerInv
<1>2. HasClient'
    BY <1>1, ClientStep DEF OwnerInv, DurableInv
<1>3. /\ restored' # {} => phase' \in {"signing", "up"}
      /\ unread => unread'
      /\ blind => blind'
      /\ ~unread' /\ ~blind' => \A r \in restored' : r.by = Models(config)'
    BY <1>1, RestoredStep
<1>4. ASSUME ~unread', ~blind'
      PROVE  (\E m : Owned(m) /\ (Accepted => m = Models(config)))' /\ Mirrored'
    <2>1. ~unread /\ ~blind
        BY <1>3, <1>4
    <2>2. \E m : Owned(m)' /\ (Accepted' => m = Models(config)')
        BY <1>1, <1>4, <2>1, OwnedStep
    <2>3. Mirrored'
        BY <1>1, <1>4, <2>1, MirroredStep DEF OwnerInv
    <2> QED BY <2>2, <2>3
<1> QED BY <1>1, <1>2, <1>3, <1>4 DEF OwnerInv

(* A server that starts only takes over records of servers with the same   *)
(* models, whatever fails while servers start, sign and end (the check of  *)
(* validate_config_signature in redis_store.py, with the search for data): *)
(* for any configurations, provided a server and a clear do not share one  *)
(* file.                                                                   *)
THEOREM ServersTakeTheirOwnRecords == ASSUME Apart PROVE Spec => []RestoredUnderItsModels
<1>1. Init => OwnerInv
    BY OwnerInit
<1>2. OwnerInv /\ [Next]_vars => OwnerInv'
    BY OwnerStep
<1>3. OwnerInv => RestoredUnderItsModels
    BY DEF OwnerInv, RestoredUnderItsModels, Models
<1> QED BY <1>1, <1>2, <1>3, PTL DEF Spec

-----------------------------------------------------------------------------
(* A server is refused only for a configuration that differs.              *)
LEMMA BesideEmpty == \A m, os : (\A k \in AllKeys : m[k] = Absent) => Beside(m, os)
BY DEF Beside, AllKeys

LEMMA BesideMore ==
    ASSUME NEW m, NEW os, NEW us, os \subseteq us, Beside(m, os)
    PROVE  Beside(m, us)
BY DEF Beside

(* An image that time has passed over, or that Redis has dropped some of.  *)
LEMMA BesideOlder ==
    ASSUME NEW m, NEW n, NEW os, Beside(m, os),
           \A k \in AllKeys : n[k] \in {Absent, Older(m[k])},
           \A k \in AllKeys : m[k].expires = "never" => n[k] = m[k]
    PROVE  Beside(n, os)
<1>1. \A e : Older(e).expires # "past" => Older(e) = e
    BY DEF Older
<1>2. Sig \in AllKeys /\ \A k \in Keys : k \in AllKeys
    BY DEF AllKeys
<1>3. \A k \in Keys : n[k] # Absent /\ n[k].expires # "past" => n[k] = m[k]
    BY <1>1, <1>2
<1>4. n[Sig] = m[Sig]
    <2>1. m[Sig] # Absent => m[Sig].expires = "never"
        BY DEF Beside
    <2>2. Absent.expires = "never"
        BY DEF Absent
    <2> QED BY <1>2, <2>1, <2>2
<1> QED BY <1>3, <1>4 DEF Beside

(* A call that leaves records beside a signature.                          *)
Fits(c, m, os) ==
    /\ c.op \in {"set", "pipeline"} =>
           \/ Sig \notin c.keys /\ m[Sig] # Absent
           \/ c.keys = {Sig} /\ \E o \in os : c.entry = Permanent(SignatureOf(o))
    /\ c.op = "delete" => Sig \notin c.keys \/ \A k \in AllKeys : m[k] # Absent => k \in c.keys

LEMMA SignedEntry ==
    ASSUME NEW c \in Configs
    PROVE  /\ Permanent(SignatureOf(c)) # Absent
           /\ Permanent(SignatureOf(c)).expires = "never"
           /\ Permanent(SignatureOf(c)).value = SignatureOf(c)
BY ConfigsAssumption DEF Permanent, Absent

LEMMA BesideApplied ==
    ASSUME NEW m, IsImage(m), NEW os, os \subseteq Configs, Beside(m, os),
           NEW c, IsCall(c), c.op # "none", NEW us, us \subseteq Configs, os \subseteq us,
           Fits(c, m, us)
    PROVE  Beside(Applied(c, m), us)
<1> DEFINE n == Applied(c, m)
<1> HIDE DEF n
<1>1. Sig \in AllKeys /\ Sig \notin Keys /\ \A k \in Keys : k \in AllKeys
    BY KeysAssumption DEF AllKeys
<1>2. Beside(m, us)
    BY BesideMore
<1>3. CASE c.op = "read"
    <2>1. \A k \in AllKeys : n[k] = IF m[k].expires = "past" THEN Absent ELSE m[k]
        BY <1>3, AppliedShape DEF n
    <2>2. n[Sig] = m[Sig]
        BY <1>1, <1>2, <2>1 DEF Beside, Absent
    <2> QED BY <1>1, <1>2, <2>1, <2>2 DEF Beside, n
<1>4. CASE c.op \in {"set", "pipeline"}
    <2>1. \A k \in AllKeys : n[k] = IF k \in c.keys THEN c.entry ELSE m[k]
        BY <1>4, AppliedShape DEF n
    <2>2. CASE Sig \notin c.keys /\ m[Sig] # Absent
        <3>1. n[Sig] = m[Sig]
            BY <1>1, <2>1, <2>2
        <3> QED BY <1>2, <2>2, <3>1 DEF Beside, n
    <2>3. CASE c.keys = {Sig} /\ \E o \in us : c.entry = Permanent(SignatureOf(o))
        <3>1. PICK o \in us : c.entry = Permanent(SignatureOf(o))
            BY <2>3
        <3>2. n[Sig] # Absent /\ n[Sig].expires = "never" /\ n[Sig].value = SignatureOf(o)
            BY <1>1, <2>1, <2>3, <3>1, SignedEntry
        <3> QED BY <3>1, <3>2 DEF Beside, n
    <2> QED BY <1>4, <2>2, <2>3 DEF Fits
<1>5. CASE c.op = "delete"
    <2>1. \A k \in AllKeys : n[k] = IF k \in c.keys THEN Absent ELSE m[k]
        BY <1>5, AppliedShape DEF n
    <2>2. CASE Sig \notin c.keys
        BY <1>1, <1>2, <2>1, <2>2 DEF Beside, n
    <2>3. CASE \A k \in AllKeys : m[k] # Absent => k \in c.keys
        <3>1. \A k \in AllKeys : n[k] = Absent
            BY <2>1, <2>3
        <3> QED BY <3>1, BesideEmpty DEF n
    <2> QED BY <1>5, <2>2, <2>3 DEF Fits
<1> QED BY <1>3, <1>4, <1>5 DEF IsCall

LEMMA ReadFits == \A ks, m, os : Fits(Read(ks), m, os)
BY DEF Fits, Read

(* The begin of a call leaves the store and the memories so.               *)
LEMMA BeginKeepsBeside ==
    ASSUME TypeInv, NEW p \in Processes, NEW c, IsCall(c), c.at = "begun", c.op # "none",
           NEW client, client \in {NoClient, cache[p]}, Begin(p, c, client),
           NEW os, os \subseteq Configs, NEW us, us \subseteq Configs, os \subseteq us,
           Beside(disk.image, os), \A q \in Processes : Beside(cache[q].image, os),
           mode = "FILE" => \A m, o : Fits(c, m, o) \/ (client # NoClient /\ Fits(c, client.image, us))
    PROVE  Beside(disk'.image, us) /\ \A q \in Processes : Beside(cache'[q].image, us)
<1>1. /\ UNCHANGED <<mode, disk, tmp>>
      /\ \/ /\ mode = "REDIS" /\ Moves(p, c, "begun") /\ UNCHANGED cache
         \/ mode = "FILE" /\ \E image : BegunInFile(p, c, client, image)
    BY BeginEffect
<1>2. Beside(disk.image, us) /\ \A q \in Processes : Beside(cache[q].image, us)
    BY BesideMore
<1>3. CASE mode = "REDIS"
    BY <1>1, <1>2, <1>3
<1>4. CASE mode = "FILE"
    <2>1. PICK image : BegunInFile(p, c, client, image)
        BY <1>1, <1>4
    <2>2. IsImage(image) /\ LoadedBy(client, image)
        BY <2>1 DEF BegunInFile
    <2>3. /\ cache'[p].image = Applied(c, image)
          /\ \A q \in Processes : q # p => cache'[q] = cache[q]
        BY <2>1 DEF BegunInFile, Remembers, Full
    <2>4. Beside(image, os)
        <3>1. Beside(Empty, os)
            BY BesideEmpty DEF Empty
        <3> QED BY <2>2, <3>1 DEF LoadedBy
    <2>5. Fits(c, image, us)
        BY <1>4, <2>2 DEF LoadedBy
    <2>6. Beside(Applied(c, image), us)
        BY <2>2, <2>4, <2>5, BesideApplied
    <2> QED BY <1>1, <1>2, <2>3, <2>6
<1> QED BY <1>3, <1>4 DEF TypeInv, Shape

LEMMA ReadKeepsBeside ==
    ASSUME TypeInv, NEW p \in Processes, Reads(p), owners \subseteq Configs, AllBeside
    PROVE  Beside(disk'.image, owners) /\ \A q \in Processes : Beside(cache'[q].image, owners)
<1>1. PICK ks \in {{Sig}, AllKeys} : Begins(p, Read(ks))
    BY DEF Reads
<1>2. IsCall(Read(ks)) /\ Read(ks).at = "begun" /\ Read(ks).op = "read"
    BY CallShapes DEF AllKeys
<1>3. PICK client : client \in {NoClient, cache[p]} /\ Begin(p, Read(ks), client)
    BY <1>1 DEF Begins
<1>4. \A os : os \subseteq Configs /\ Beside(disk.image, os) /\ (\A q \in Processes : Beside(cache[q].image, os))
              => Beside(disk'.image, os) /\ \A q \in Processes : Beside(cache'[q].image, os)
    BY <1>2, <1>3, ReadFits, BeginKeepsBeside
<1> QED BY <1>4 DEF AllBeside

(* A write with the client a process has: from its memory, where there is  *)
(* a file; nothing has reached the file or Redis yet.                      *)
LEMMA WriteBegins ==
    ASSUME TypeInv, HasClient, NEW p \in Processes, NEW c, WritesWith(p, c),
           IF p = Server THEN phase # "off" ELSE clearing # "idle"
    PROVE  /\ UNCHANGED <<mode, disk>>
           /\ \A q \in Processes : q # p => call'[q] = call[q] /\ cache'[q] = cache[q]
           /\ call'[p].op = c.op /\ call'[p].keys = c.keys
           /\ mode = "FILE" => /\ cache[p] # NoClient
                               /\ cache'[p].image = Applied(c, cache[p].image)
                               /\ call'[p].at = "done" => ~Dumps(c, cache[p].image)
           /\ mode = "REDIS" => call'[p].at = "begun" /\ UNCHANGED cache
<1>1. /\ IsCall(c) /\ c.at = "begun" /\ c.op # "none" /\ Begin(p, c, cache[p])
      /\ cache[p] \in {NoClient, cache[p]}
    BY DEF WritesWith
<1>2. /\ UNCHANGED <<mode, disk, tmp>>
      /\ \/ /\ mode = "REDIS" /\ Moves(p, c, "begun") /\ UNCHANGED cache
         \/ mode = "FILE" /\ \E image : BegunInFile(p, c, cache[p], image)
    BY <1>1, BeginEffect
<1>3. /\ \A q \in Processes : q # p => call'[q] = call[q] /\ cache'[q] = cache[q]
      /\ call'[p].op = c.op /\ call'[p].keys = c.keys
    BY <1>1, BeginsEffect DEF Begins
<1>4. mode = "REDIS" => call'[p].at = "begun" /\ UNCHANGED cache
    BY <1>2 DEF Moves
<1>5. ASSUME mode = "FILE"
      PROVE  /\ cache[p] # NoClient
             /\ cache'[p].image = Applied(c, cache[p].image)
             /\ call'[p].at = "done" => ~Dumps(c, cache[p].image)
    <2>1. PICK image : BegunInFile(p, c, cache[p], image)
        BY <1>2, <1>5
    <2>2. cache[p].is = "full"
        BY <1>5 DEF HasClient, Processes
    <2>3. cache[p] # NoClient
        BY <2>2 DEF NoClient, NoFile
    <2>4. image = cache[p].image
        BY <2>1, <2>3 DEF BegunInFile, LoadedBy
    <2> QED BY <2>1, <2>3, <2>4 DEF BegunInFile, Remembers, Full, Moves
<1> QED BY <1>2, <1>3, <1>4, <1>5

(* The same of it, with what it takes for the records to stay beside.      *)
LEMMA WriteKeepsBeside ==
    ASSUME TypeInv, HasClient, NEW p \in Processes, NEW c, WritesWith(p, c),
           IF p = Server THEN phase # "off" ELSE clearing # "idle",
           NEW us, us \subseteq Configs, owners \subseteq us, AllBeside,
           mode = "FILE" => Fits(c, cache[p].image, us)
    PROVE  Beside(disk'.image, us) /\ \A q \in Processes : Beside(cache'[q].image, us)
<1>1. /\ IsCall(c) /\ c.at = "begun" /\ c.op # "none" /\ Begin(p, c, cache[p])
      /\ cache[p] \in {NoClient, cache[p]}
    BY DEF WritesWith
<1>2. mode = "FILE" => cache[p] # NoClient
    BY WriteBegins
<1>3. \A os : os \subseteq us /\ Beside(disk.image, os) /\ (\A q \in Processes : Beside(cache[q].image, os))
              => Beside(disk'.image, us) /\ \A q \in Processes : Beside(cache'[q].image, us)
    BY <1>1, <1>2, BeginKeepsBeside
<1> QED BY <1>3 DEF AllBeside

-----------------------------------------------------------------------------
(* The steps of the storage.                                               *)
LEMMA CallFits ==
    ASSUME SignInv, ~troubled, NEW p \in Processes, call[p].op # "none", mode = "REDIS"
    PROVE  Fits(call[p], disk.image, owners)
<1> USE DEF SignInv, DurableInv, Signatures
<1>1. call[p].op = "read" => Fits(call[p], disk.image, owners)
    BY DEF Fits
<1>2. CASE p = Server
    <2>1. phase \in {"signing", "up"} \/ call[p].op = "read"
        BY <1>2 DEF TypeInv, Control, Phases, Idle
    <2>2. CASE phase = "signing"
        <3>1. call[p].op = "set" /\ call[p].keys = {Sig} /\ call[p].entry = Permanent(SignatureOf(config))
            BY <1>2, <2>2 DEF TypeInv, Control
        <3> QED BY <2>2, <3>1 DEF Fits, SignedStore
    <2>3. CASE phase = "up"
        <3>1. Sig \notin call[p].keys /\ SignedBy(disk.image) /\ config \in Configs
            BY <1>2, <2>3 DEF SignedStore, TypeInv, Control
        <3>2. disk.image[Sig] # Absent
            BY <3>1, SignedEntry DEF SignedBy
        <3> QED BY <3>1, <3>2 DEF Fits
    <2> QED BY <1>1, <2>1, <2>2, <2>3
<1>3. CASE p = Cli
    <2>1. call[p].op = "read" \/ (clearing = "deleting" /\ call[p].op = "delete")
        BY <1>3 DEF TypeInv, Control, Idle
    <2>2. clearing = "deleting" => \A k \in AllKeys : disk.image[k] # Absent => k \in call[p].keys
        BY <1>3 DEF Cleaning
    <2> QED BY <1>1, <1>3, <2>1, <2>2 DEF Fits
<1> QED BY <1>2, <1>3 DEF Processes

LEMMA StorageKeepsSigned ==
    ASSUME SignInv, ~troubled, NEW p \in Processes, Storage(p)
    PROVE  AllBeside' /\ Blank' /\ SignedStore' /\ Cleaning'
<1> USE DEF SignInv, DurableInv, Signatures
<1>1. /\ UNCHANGED <<mode, cache, phase, config, clearing, owners>>
      /\ call[p].op # "none"
    BY StorageEffect DEF program, known
<1>2. /\ \A q \in Processes : call'[q].keys = call[q].keys /\ call'[q].op = call[q].op
      /\ \A q \in Processes : q # p => call'[q] = call[q]
    BY StorageCalls
<1>3. \/ UNCHANGED disk /\ call'[p].at # "done"
      \/ mode = "FILE" /\ disk' = cache[p] /\ cache[p].is = "full" /\ call'[p].at = "done"
      \/ mode = "REDIS" /\ disk'.image = Applied(call[p], disk.image)
    BY StorageDisk DEF Full
<1>4. /\ IsImage(disk.image) /\ IsCall(call[p]) /\ Server \in Processes /\ Cli \in Processes
      /\ Sig \in AllKeys /\ Server # Cli
    BY DEF TypeInv, Shape, IsFile, Processes, AllKeys, Server, Cli
<1>5. AllBeside'
    <2>1. mode = "REDIS" => Beside(Applied(call[p], disk.image), owners)
        BY <1>1, <1>4, CallFits, BesideApplied DEF AllBeside
    <2>2. Beside(disk'.image, owners)
        BY <1>3, <2>1 DEF AllBeside
    <2> QED BY <1>1, <2>2 DEF AllBeside
<1>6. call[p].op = "read" => \A k \in AllKeys :
          Applied(call[p], disk.image)[k] = IF disk.image[k].expires = "past" THEN Absent ELSE disk.image[k]
    BY <1>4, AppliedShape
<1>7. Blank'
    <2> SUFFICES ASSUME phase = "looking", NEW k \in AllKeys PROVE View(Server)'[k] = Absent
        BY <1>1 DEF Blank
    <2>1. View(Server)[k] = Absent
        BY DEF Blank
    <2>2. CASE mode = "FILE"
        BY <1>1, <2>1, <2>2 DEF View
    <2>3. CASE mode = "REDIS"
        <3>1. call[p].op = "read"
            BY <1>1, <1>4 DEF TypeInv, Control, Cleaning, Processes, Idle
        <3>2. disk.image[k] = Absent
            BY <2>1, <2>3 DEF View
        <3>3. disk'.image[k] = Absent
            BY <1>3, <1>6, <2>3, <3>1, <3>2
        <3> QED BY <1>1, <2>3, <3>3 DEF View
    <2> QED BY <2>2, <2>3 DEF TypeInv, Shape
<1>8. SignedStore'
    <2>1. ASSUME SignedBy(disk.image), phase = "up" \/ p = Cli, phase # "off"
          PROVE  SignedBy(disk'.image)
        <3>1. CASE UNCHANGED disk
            BY <2>1, <3>1
        <3>2. CASE mode = "FILE" /\ disk' = cache[p]
            <4>1. call[Cli].op = "none"
                BY <2>1, <3>2 DEF Alone, TypeInv, Control, Idle
            <4>2. p = Server
                BY <1>1, <4>1 DEF Processes
            <4>3. phase = "up"
                BY <1>4, <2>1, <4>2
            <4>4. disk'.image = cache[Server].image /\ SignedBy(cache[Server].image)
                BY <3>2, <4>2, <4>3 DEF SignedStore
            <4> QED BY <4>4 DEF SignedBy
        <3>3. CASE mode = "REDIS" /\ disk'.image = Applied(call[p], disk.image)
            <4>1. config \in Configs
                BY <2>1 DEF TypeInv, Control
            <4>2. disk.image[Sig].expires = "never"
                BY <2>1, <4>1, SignedEntry DEF SignedBy
            <4>3. CASE p = Server
                <5>1. Sig \notin call[p].keys
                    BY <2>1, <4>3, <1>4 DEF SignedStore
                <5>2. Applied(call[p], disk.image)[Sig] = disk.image[Sig]
                    BY <1>1, <1>4, <4>2, <5>1, AppliedShape DEF IsCall
                <5> QED BY <2>1, <3>3, <5>2 DEF SignedBy
            <4>4. CASE p = Cli
                <5>1. call[p].op = "read"
                    BY <1>1, <2>1, <4>4 DEF TypeInv, Control, Cleaning, Idle
                <5>2. Applied(call[p], disk.image)[Sig] = disk.image[Sig]
                    BY <1>4, <1>6, <4>2, <5>1
                <5> QED BY <2>1, <3>3, <5>2 DEF SignedBy
            <4> QED BY <4>3, <4>4 DEF Processes
        <3> QED BY <1>3, <3>1, <3>2, <3>3
    <2>2. ASSUME phase = "signing", p = Server, call'[p].at = "done"
          PROVE  SignedBy(disk'.image)
        <3>1. CASE mode = "FILE" /\ disk' = cache[p]
            BY <2>2, <3>1 DEF SignedStore
        <3>2. CASE mode = "REDIS" /\ disk'.image = Applied(call[p], disk.image)
            <4>1. call[p].op = "set" /\ call[p].keys = {Sig} /\ call[p].entry = Permanent(SignatureOf(config))
                BY <2>2 DEF TypeInv, Control
            <4>2. Applied(call[p], disk.image)[Sig] = Permanent(SignatureOf(config))
                BY <1>1, <1>4, <4>1, AppliedShape
            <4> QED BY <3>2, <4>2 DEF SignedBy
        <3> QED BY <1>3, <2>2, <3>1, <3>2
    <2>3. ASSUME phase = "up" \/ (phase = "signing" /\ call'[Server].at = "done")
          PROVE  SignedBy(disk'.image)
        <3>1. CASE p = Server
            BY <2>1, <2>2, <2>3, <3>1 DEF SignedStore
        <3>2. CASE p = Cli
            BY <1>2, <1>4, <2>1, <2>3, <3>2 DEF SignedStore
        <3> QED BY <3>1, <3>2 DEF Processes
    <2>4. (phase = "up" \/ (phase = "signing" /\ call[Server].at = "done") => SignedBy(disk.image))'
        BY <1>1, <2>3 DEF SignedBy
    <2> QED BY <1>1, <1>2, <1>4, <2>4 DEF SignedStore, SignedBy
<1>9. Cleaning'
    <2> SUFFICES ASSUME clearing = "deleting"
                 PROVE  /\ mode = "REDIS" => \A k \in AllKeys : disk'.image[k] # Absent => k \in call[Cli].keys
                        /\ call'[Cli].at = "done" => \A k \in AllKeys : disk'.image[k] = Absent
        BY <1>1, <1>2, <1>4 DEF Cleaning
    <2>1. p = Cli /\ call[p].op = "delete"
        BY <1>1 DEF TypeInv, Control, Processes, Cleaning, Idle
    <2>2. CASE UNCHANGED disk /\ call'[p].at # "done"
        BY <2>1, <2>2 DEF Cleaning
    <2>3. CASE mode = "FILE" /\ disk' = cache[p]
        BY <2>1, <2>3 DEF Cleaning
    <2>4. CASE mode = "REDIS" /\ disk'.image = Applied(call[p], disk.image)
        <3>1. \A k \in AllKeys : Applied(call[p], disk.image)[k] =
                  IF k \in call[p].keys THEN Absent ELSE disk.image[k]
            BY <1>4, <2>1, AppliedShape
        <3>2. \A k \in AllKeys : disk'.image[k] = Absent
            BY <2>1, <2>4, <3>1 DEF Cleaning
        <3> QED BY <3>2
    <2> QED BY <1>3, <2>2, <2>3, <2>4
<1> QED BY <1>5, <1>7, <1>8, <1>9

LEMMA ExpireKeepsSigned ==
    ASSUME SignInv, ~troubled, Expire
    PROVE  AllBeside' /\ Blank' /\ SignedStore' /\ Cleaning'
<1> USE DEF SignInv, DurableInv, Signatures
<1>1. UNCHANGED <<mode, phase, config, clearing, owners>>
    BY DEF Expire, known
<1>2. \A k \in AllKeys : /\ disk'.image[k] \in {Absent, Older(disk.image[k])}
                         /\ disk.image[k].expires = "never" => disk'.image[k] = disk.image[k]
    BY ExpireEffect DEF Older
<1>3. \A p \in Processes, k \in AllKeys :
          /\ cache'[p].image[k] = Older(cache[p].image[k])
          /\ cache[p].image[k].expires = "never" => cache'[p].image[k] = cache[p].image[k]
    BY ExpireEffect, AgedImage DEF TypeInv, Shape, OlderFile, IsFile, Older
<1>4. \A p \in Processes : /\ call'[p].keys = call[p].keys
                           /\ call'[p].at = call[p].at
    BY ExpireEffect, AgedCallShape DEF TypeInv, Shape
<1>5. Older(Absent) = Absent /\ Server \in Processes /\ Cli \in Processes /\ Sig \in AllKeys
    BY DEF Older, Absent, Processes, AllKeys
<1>6. AllBeside'
    <2>1. Beside(disk'.image, owners)
        BY <1>2, BesideOlder DEF AllBeside
    <2>2. \A p \in Processes : Beside(cache'[p].image, owners)
        BY <1>3, BesideOlder DEF AllBeside
    <2> QED BY <1>1, <2>1, <2>2 DEF AllBeside
<1>7. Blank'
    BY <1>1, <1>2, <1>3, <1>5 DEF Blank, View
<1>8. SignedStore'
    <2>1. ASSUME phase \in {"signing", "up"}, NEW m, NEW n, SignedBy(m),
                 m[Sig].expires = "never" => n[Sig] = m[Sig]
          PROVE  n[Sig] = Permanent(SignatureOf(config))
        BY <2>1, SignedEntry DEF SignedBy, TypeInv, Control
    <2> QED BY <1>1, <1>2, <1>3, <1>4, <1>5, <2>1 DEF SignedStore, SignedBy
<1>9. Cleaning'
    BY <1>1, <1>2, <1>3, <1>4, <1>5 DEF Cleaning
<1> QED BY <1>6, <1>7, <1>8, <1>9

-----------------------------------------------------------------------------
(* The steps of the server.                                                *)
LEMMA SeenBeside ==
    ASSUME AllBeside, TypeInv
    PROVE  Beside(View(Server), owners) /\ Beside(View(Cli), owners)
BY DEF AllBeside, View, Processes

(* Whoever finds no signature finds nothing that has not expired.          *)
LEMMA LooksBlank ==
    ASSUME SignInv, ~troubled, Validated, ~troubled', phase' = "looking"
    PROVE  Blank'
<1> USE DEF SignInv, DurableInv, Signatures
<1>1. Succeeded(Server) /\ View(Server)[Sig].value = None
    BY DEF Validated, Restore, Refuse
<1>2. Begin(Server, Read(AllKeys), cache[Server]) /\ phase = "validating"
    BY DEF Validated, Restore, Refuse
<1>3. View(Server)[Sig] = Absent
    BY <1>1, SeenBeside, ConfigsAssumption DEF Beside
<1>4. \A k \in AllKeys : View(Server)[k] = Absent \/ View(Server)[k].expires = "past"
    BY <1>3, SeenBeside DEF Beside, AllKeys
<1>5. WritesWith(Server, Read(AllKeys)) /\ Read(AllKeys).op = "read"
    BY <1>2, CallShapes DEF WritesWith, AllKeys
<1>6. /\ UNCHANGED <<mode, disk>>
      /\ mode = "FILE" => cache'[Server].image = Applied(Read(AllKeys), cache[Server].image)
    BY <1>2, <1>5, WriteBegins DEF Processes
<1>7. CASE mode = "REDIS"
    BY <1>4, <1>6, <1>7 DEF Blank, View, TypeInv, Modal
<1>8. CASE mode = "FILE"
    <2>1. IsImage(cache[Server].image) /\ IsCall(Read(AllKeys))
        BY CallShapes DEF TypeInv, Shape, IsFile, Processes
    <2>2. \A k \in AllKeys : cache'[Server].image[k] = Absent
        BY <1>4, <1>5, <1>6, <1>8, <2>1, AppliedShape DEF View
    <2> QED BY <1>6, <1>8, <2>2 DEF Blank, View
<1> QED BY <1>7, <1>8 DEF TypeInv, Shape

LEMMA RefusedRightly ==
    ASSUME SignInv, ~troubled, ~troubled', Validated \/ LookedForData, phase' = "refused"
    PROVE  Refusal'
<1> USE DEF SignInv, DurableInv, Signatures
<1>1. UNCHANGED <<config, owners>>
    BY DEF Validated, LookedForData
<1>2. Validated
    <2>1. SUFFICES ASSUME LookedForData PROVE FALSE
        OBVIOUS
    <2>2. phase = "looking" /\ Present(View(Server)) # {}
        BY <2>1 DEF LookedForData, Restore
    <2> QED BY <2>2 DEF Blank, Present
<1>3. PICK stored : stored = View(Server)[Sig].value /\ stored # None /\ ~Accepts(stored)
    BY <1>2 DEF Validated, Restore
<1>4. View(Server)[Sig] # Absent
    BY <1>3 DEF Absent
<1>5. PICK c \in owners : stored = SignatureOf(c)
    BY <1>3, <1>4, SeenBeside DEF Beside
<1>6. config \in Configs
    BY <1>2 DEF Validated, TypeInv, Control
<1>7. ~Compatible(config, c)
    BY <1>3, <1>5, <1>6, RefusedDiffers
<1> QED BY <1>1, <1>7 DEF Refusal, Compatible

(* The signature is written where what the server has in memory stays.     *)
LEMMA SigningStep ==
    ASSUME SignInv, ~troubled, Restored
    PROVE  owners' \subseteq Configs /\ AllBeside' /\ SignedStore'
<1> USE DEF SignInv, DurableInv, Signatures
<1>1. /\ WritesWith(Server, Signature) /\ phase = "restoring" /\ phase' = "signing"
      /\ UNCHANGED config
    <2>1. MovesServer /\ phase = "restoring" /\ phase' = "signing" /\ UNCHANGED config
        BY DEF MovesServer, Restored
    <2> QED BY <2>1, ServerSteps
<1>2. owners' = owners \cup {config} /\ config \in Configs
    BY <1>1 DEF Restored, TypeInv, Control
<1>3. /\ IsCall(Signature) /\ Signature.op = "set" /\ Signature.keys = {Sig}
      /\ Signature.entry = Permanent(SignatureOf(config))
    BY CallShapes DEF Signature, AllKeys
<1>4. /\ UNCHANGED <<mode, disk>>
      /\ mode = "FILE" => /\ cache'[Server].image = Applied(Signature, cache[Server].image)
                          /\ call'[Server].at = "done" => ~Dumps(Signature, cache[Server].image)
      /\ mode = "REDIS" => call'[Server].at = "begun"
    BY <1>1, WriteBegins DEF Processes
<1>5. Fits(Signature, cache[Server].image, owners')
    BY <1>2, <1>3 DEF Fits
<1>6. Beside(disk'.image, owners') /\ \A q \in Processes : Beside(cache'[q].image, owners')
    <2> DEFINE us == owners \cup {config}
    <2>1. us \subseteq Configs /\ owners \subseteq us /\ Fits(Signature, cache[Server].image, us)
        BY <1>2, <1>5
    <2>2. \A vs : /\ vs \subseteq Configs /\ owners \subseteq vs
                  /\ Fits(Signature, cache[Server].image, vs)
                  => Beside(disk'.image, vs) /\ \A q \in Processes : Beside(cache'[q].image, vs)
        BY <1>1, WriteKeepsBeside DEF Processes
    <2> QED BY <1>2, <2>1, <2>2
<1>7. mode = "FILE" => SignedBy(cache'[Server].image)
    <2>1. IsImage(cache[Server].image) /\ Sig \in AllKeys
        BY DEF TypeInv, Shape, IsFile, Processes, AllKeys
    <2> QED BY <1>3, <1>4, <2>1, AppliedShape DEF SignedBy
<1>8. call'[Server].at # "done"
    BY <1>3, <1>4 DEF Dumps, TypeInv, Shape
<1>9. SignedStore'
    BY <1>1, <1>2, <1>4, <1>7, <1>8 DEF SignedStore, SignedBy
<1> QED BY <1>2, <1>6, <1>9 DEF AllBeside

LEMMA ServingStep ==
    ASSUME SignInv, ~troubled, UNCHANGED <<owners, config, phase>>, phase = "up",
           NEW c, WritesWith(Server, c), c.keys \subseteq Keys
    PROVE  AllBeside' /\ SignedStore'
<1> USE DEF SignInv, DurableInv, Signatures
<1>1. /\ UNCHANGED <<mode, disk>>
      /\ call'[Server].keys = c.keys
      /\ mode = "FILE" => /\ cache'[Server].image = Applied(c, cache[Server].image)
    BY WriteBegins DEF Processes
<1>2. Sig \notin c.keys /\ Sig \in AllKeys /\ config \in Configs
    BY KeysAssumption DEF AllKeys, TypeInv, Control
<1>3. \A m : SignedBy(m) => m[Sig] # Absent /\ m[Sig].expires = "never"
    BY <1>2, SignedEntry DEF SignedBy
<1>4. mode = "FILE" => Fits(c, cache[Server].image, owners)
    BY <1>2, <1>3 DEF Fits, SignedStore
<1>5. Beside(disk'.image, owners) /\ \A q \in Processes : Beside(cache'[q].image, owners)
    <2>1. \A vs : /\ vs \subseteq Configs /\ owners \subseteq vs
                  /\ mode = "FILE" => Fits(c, cache[Server].image, vs)
                  => Beside(disk'.image, vs) /\ \A q \in Processes : Beside(cache'[q].image, vs)
        BY WriteKeepsBeside DEF Processes
    <2> QED BY <1>4, <2>1
<1>6. mode = "FILE" => SignedBy(cache'[Server].image)
    <2>1. IsImage(cache[Server].image) /\ IsCall(c) /\ c.op # "none"
        BY DEF TypeInv, Shape, IsFile, Processes, WritesWith
    <2>2. SignedBy(cache[Server].image) => Applied(c, cache[Server].image)[Sig] = cache[Server].image[Sig]
        BY <1>2, <1>3, <2>1, AppliedShape DEF IsCall
    <2> QED BY <1>1, <2>2 DEF SignedStore, SignedBy
<1>7. SignedStore'
    BY <1>1, <1>2, <1>6 DEF SignedStore, SignedBy
<1> QED BY <1>5, <1>7 DEF AllBeside

LEMMA SignedUpStep ==
    ASSUME SignInv, ~troubled, ~troubled', Signed \/ Return
    PROVE  owners' \subseteq Configs /\ AllBeside' /\ SignedStore'
<1> USE DEF SignInv, DurableInv, Signatures
<1>1. /\ UNCHANGED <<mode, disk, cache, config>> /\ phase \in {"signing", "up"} /\ phase' = "up"
      /\ call' = [call EXCEPT ![Server] = Idle]
    BY DEF Signed, Return
<1>2. config \in owners /\ config \in Configs
    BY <1>1 DEF SignedStore, TypeInv, Control
<1>3. SignedBy(disk.image) /\ owners' \in {owners, {config}}
    BY DEF Signed, Return, Succeeded, SignedStore, ghosts, known
<1>4. call'[Server].keys = {}
    BY <1>1 DEF TypeInv, Shape, Processes, Idle
<1>5. SignedStore'
    BY <1>1, <1>2, <1>3, <1>4 DEF SignedStore, SignedBy
<1>6. AllBeside'
    <2>1. CASE owners' = owners
        BY <1>1, <2>1 DEF AllBeside
    <2>2. CASE owners' = {config}
        <3>1. ASSUME NEW m, SignedBy(m), Beside(m, owners) PROVE Beside(m, {config})
            <4>1. m[Sig].value = SignatureOf(config)
                BY <3>1, <1>2, SignedEntry DEF SignedBy
            <4> QED BY <3>1, <4>1 DEF Beside
        <3>2. Beside(disk.image, {config})
            BY <1>3, <3>1 DEF AllBeside
        <3>3. Beside(NoClient.image, {config})
            BY BesideEmpty DEF NoClient, NoFile, Empty
        <3>4. mode = "FILE" => Beside(cache[Server].image, {config}) /\ cache[Cli] = NoClient
            <4>1. mode = "FILE" => cache[Cli] = NoClient
                BY <1>1 DEF Alone, TypeInv, Control
            <4> QED BY <1>1, <3>1, <4>1 DEF SignedStore, AllBeside, Processes
        <3>5. mode = "REDIS" => \A p \in Processes : cache[p] = NoClient
            BY DEF TypeInv, Modal
        <3>6. \A p \in Processes : Beside(cache[p].image, {config})
            BY <3>3, <3>4, <3>5 DEF TypeInv, Shape, Processes
        <3> QED BY <1>1, <2>2, <3>2, <3>6 DEF AllBeside
    <2> QED BY <1>3, <2>1, <2>2
<1> QED BY <1>2, <1>3, <1>5, <1>6

LEMMA ServerKeepsSigned ==
    ASSUME SignInv, ~troubled, ~troubled', MovesServer
    PROVE  Signatures'
<1> USE DEF SignInv, DurableInv, Signatures
<1>1. ASSUME phase # "off" PROVE clearing' # "deleting"
    BY <1>1, ServerSteps DEF Cleaning
<1>2. ASSUME clearing' # "deleting" PROVE Cleaning'
    BY <1>2 DEF Cleaning
<1>3. ASSUME UNCHANGED owners, Reads(Server) PROVE owners' \subseteq Configs /\ AllBeside'
    BY <1>3, ReadKeepsBeside DEF AllBeside, Processes
<1>4. ASSUME phase' \notin {"looking"} PROVE Blank'
    BY <1>4 DEF Blank
<1>5. ASSUME phase' \notin {"signing", "up"} PROVE SignedStore'
    BY <1>5 DEF SignedStore
<1>6. ASSUME phase' # "refused" PROVE Refusal'
    BY <1>6 DEF Refusal
<1>7. CASE (\E c \in Configs : Launch(c)) /\ Reads(Server) /\ phase' = "validating"
    <2>1. UNCHANGED <<owners, clearing>> /\ clearing # "deleting"
        BY <1>7 DEF Launch
    <2> QED BY <1>2, <1>3, <1>4, <1>5, <1>6, <1>7, <2>1
<1>8. CASE Validated /\ Reads(Server) /\ phase = "validating" /\ phase' = "looking"
    <2>1. UNCHANGED owners
        BY <1>8 DEF Validated
    <2> QED BY <1>1, <1>2, <1>3, <1>5, <1>6, <1>8, <2>1, LooksBlank
<1>9. CASE /\ Validated \/ LookedForData
           /\ Reads(Server) /\ phase \in {"validating", "looking"} /\ phase' = "restoring"
    <2>1. UNCHANGED owners
        BY <1>9 DEF Validated, LookedForData
    <2> QED BY <1>1, <1>2, <1>3, <1>4, <1>5, <1>6, <1>9, <2>1
<1>10. CASE /\ Validated \/ LookedForData
            /\ Ends(Server) /\ UNCHANGED cache /\ phase \in {"validating", "looking"} /\ phase' = "refused"
    <2>1. UNCHANGED <<owners, disk, cache>>
        BY <1>10 DEF Validated, LookedForData, Ends
    <2>2. owners' \subseteq Configs /\ AllBeside'
        BY <2>1 DEF AllBeside
    <2> QED BY <1>1, <1>2, <1>4, <1>5, <1>10, <2>2, RefusedRightly
<1>11. CASE Restored /\ phase = "restoring" /\ phase' = "signing"
    BY <1>1, <1>2, <1>4, <1>6, <1>11, SigningStep
<1>12. CASE (Signed \/ Return) /\ phase \in {"signing", "up"} /\ phase' = "up"
    BY <1>1, <1>2, <1>4, <1>6, <1>12, SignedUpStep
<1>13. CASE /\ (\E k \in Keys : SaveRecord(k) \/ DeleteRecord(k)) \/ SaveRecordsAtomic(Keys)
            /\ \E c : WritesWith(Server, c) /\ c.keys \subseteq Keys
            /\ phase = "up" /\ UNCHANGED <<phase, config>>
    <2>1. UNCHANGED owners
        BY <1>13 DEF SaveRecord, DeleteRecord, SaveRecordsAtomic, known
    <2> QED BY <1>1, <1>2, <1>4, <1>6, <1>13, <2>1, ServingStep
<1>14. CASE Exit /\ Ends(Server) /\ cache'[Server] = NoClient /\ phase' = "off"
    <2>1. UNCHANGED <<mode, disk, owners, clearing>>
        BY <1>14 DEF Exit, ghosts, known
    <2>2. cache'[Cli] = cache[Cli] /\ call'[Cli] = call[Cli]
        BY <1>14, EndEffect DEF Remembers, Moves, Processes, Server, Cli
    <2>3. Beside(NoClient.image, owners)
        BY BesideEmpty DEF NoClient, NoFile, Empty
    <2>4. AllBeside'
        BY <1>14, <2>1, <2>2, <2>3 DEF AllBeside, Processes
    <2>5. Cleaning'
        BY <1>14, <2>1, <2>2 DEF Cleaning
    <2> QED BY <1>4, <1>5, <1>6, <1>14, <2>1, <2>4, <2>5
<1> QED BY <1>7, <1>8, <1>9, <1>10, <1>11, <1>12, <1>13, <1>14, ServerSteps

-----------------------------------------------------------------------------
(* The steps of the clear command.                                         *)
LEMMA CliKeepsSigned ==
    ASSUME SignInv, ~troubled, ~troubled', MovesCli
    PROVE  Signatures'
<1> USE DEF SignInv, DurableInv, Signatures
<1>1. UNCHANGED <<phase, config>> /\ Server \in Processes /\ Cli \in Processes /\ Server # Cli
    BY CliSteps DEF Processes, Server, Cli
<1>2. Ends(Cli) \/ \E c : Begins(Cli, c)
    BY CliCalls
<1>3. UNCHANGED <<mode, disk>> /\ call'[Server] = call[Server] /\ cache'[Server] = cache[Server]
    <2>1. CASE Ends(Cli)
        BY <1>1, <2>1, EndEffect DEF Ends, Moves, Remembers
    <2>2. CASE \E c : Begins(Cli, c)
        BY <1>1, <2>2, BeginsEffect
    <2> QED BY <1>2, <2>1, <2>2
<1>4. Blank'
    BY <1>1, <1>3 DEF Blank, View
<1>5. ASSUME UNCHANGED owners PROVE SignedStore' /\ Refusal'
    BY <1>1, <1>3, <1>5 DEF SignedStore, SignedBy, Refusal, Compatible
<1>6. CASE Clear /\ Reads(Cli) /\ clearing' = "scanning"
    <2>1. UNCHANGED owners
        BY <1>6 DEF Clear, known
    <2>2. AllBeside'
        BY <1>1, <1>6, <2>1, ReadKeepsBeside DEF AllBeside
    <2>3. Cleaning'
        BY <1>6 DEF Cleaning
    <2> QED BY <1>4, <1>5, <2>1, <2>2, <2>3
<1>7. CASE /\ Scanned /\ WritesWith(Cli, Delete(Present(View(Cli))))
           /\ Present(View(Cli)) # {} /\ clearing = "scanning" /\ clearing' = "deleting"
    <2> DEFINE c == Delete(Present(View(Cli)))
    <2>1. UNCHANGED owners /\ phase = "off"
        BY <1>7 DEF Scanned
    <2>2. /\ IsCall(c) /\ c.op = "delete" /\ c.keys = Present(View(Cli)) /\ Present(View(Cli)) \subseteq AllKeys
        BY CallShapes DEF Present
    <2>3. WritesWith(Cli, c) /\ clearing # "idle"
        BY <1>7
    <2> HIDE DEF c
    <2>4. /\ call'[Cli].op = c.op /\ call'[Cli].keys = c.keys
          /\ mode = "FILE" => /\ cache'[Cli].image = Applied(c, cache[Cli].image)
                              /\ call'[Cli].at = "done" => ~Dumps(c, cache[Cli].image)
          /\ mode = "REDIS" => call'[Cli].at = "begun" /\ UNCHANGED cache
        BY <1>1, <2>3, WriteBegins
    <2>5. \A k \in AllKeys : View(Cli)[k] # Absent => k \in c.keys
        BY <2>2 DEF Present
    <2>6. mode = "FILE" => /\ \A k \in AllKeys : cache[Cli].image[k] # Absent => k \in c.keys
                           /\ \E k \in AllKeys : cache[Cli].image[k] # Absent
        BY <1>7, <2>5 DEF View, Present, TypeInv, Shape
    <2>7. mode = "FILE" => Fits(c, cache[Cli].image, owners)
        BY <2>2, <2>6 DEF Fits
    <2>8. AllBeside'
        <3>1. \A vs : /\ vs \subseteq Configs /\ owners \subseteq vs
                      /\ mode = "FILE" => Fits(c, cache[Cli].image, vs)
                      => Beside(disk'.image, vs) /\ \A q \in Processes : Beside(cache'[q].image, vs)
            BY <1>1, <2>3, WriteKeepsBeside
        <3>2. Beside(disk'.image, owners) /\ \A q \in Processes : Beside(cache'[q].image, owners)
            BY <2>7, <3>1
        <3> QED BY <2>1, <3>2 DEF AllBeside
    <2>9. mode = "FILE" => \A k \in AllKeys : cache'[Cli].image[k] = Absent
        <3>1. IsImage(cache[Cli].image)
            BY <1>1 DEF TypeInv, Shape, IsFile
        <3> QED BY <2>2, <2>4, <2>6, <3>1, AppliedShape
    <2>10. mode = "FILE" => Dumps(c, cache[Cli].image)
        BY <2>4, <2>6, <2>9 DEF Dumps
    <2>11. mode = "REDIS" => \A k \in AllKeys : disk.image[k] # Absent => k \in c.keys
        BY <2>5 DEF View
    <2>12. Cleaning'
        BY <1>1, <1>3, <2>1, <2>4, <2>9, <2>10, <2>11 DEF Cleaning, TypeInv, Shape
    <2> QED BY <1>4, <1>5, <2>1, <2>8, <2>12
<1>8. CASE /\ Scanned \/ Cleared \/ CliExit
           /\ Ends(Cli) /\ cache'[Cli] = NoClient /\ clearing' = "idle"
    <2>1. \A os : Beside(NoClient.image, os)
        BY BesideEmpty DEF NoClient, NoFile, Empty
    <2>2. Cleaning'
        BY <1>8 DEF Cleaning
    <2>3. CASE UNCHANGED owners
        <3>1. AllBeside'
            BY <1>1, <1>3, <1>8, <2>1, <2>3 DEF AllBeside, Processes
        <3> QED BY <1>4, <1>5, <2>2, <2>3, <3>1
    <2>4. CASE Cleared /\ Succeeded(Cli) /\ phase = "off" /\ owners' = {}
        <3>1. clearing = "deleting" /\ call[Cli].at = "done"
            BY <2>4 DEF Cleared, Succeeded
        <3>2. \A k \in AllKeys : disk.image[k] = Absent
            BY <3>1 DEF Cleaning
        <3>3. cache[Server] = NoClient
            BY <2>4 DEF TypeInv, Control
        <3>4. AllBeside'
            BY <1>1, <1>3, <1>8, <2>1, <2>4, <3>2, <3>3, BesideEmpty DEF AllBeside, Processes
        <3>5. SignedStore' /\ Refusal'
            BY <1>1, <2>4 DEF SignedStore, Refusal
        <3> QED BY <1>4, <2>2, <2>4, <3>4, <3>5
    <2>5. UNCHANGED owners \/ (Cleared /\ Succeeded(Cli) /\ phase = "off" /\ owners' = {})
        BY <1>8 DEF Scanned, Cleared, CliExit, ghosts, known
    <2> QED BY <2>3, <2>4, <2>5
<1> QED BY <1>6, <1>7, <1>8, CliSteps

LEMMA SignInit == Init => SignInv
<1> SUFFICES ASSUME Init PROVE SignInv
    OBVIOUS
<1>1. DurableInv /\ HasClient
    BY DurableInit DEF Init, HasClient
<1>2. AllBeside
    BY BesideEmpty DEF Init, AllBeside, Full, NoFile, NoClient, Empty
<1>3. owners \subseteq Configs /\ Blank /\ SignedStore /\ Refusal /\ Cleaning
    BY DEF Init, Blank, SignedStore, Refusal, Cleaning
<1> QED BY <1>1, <1>2, <1>3 DEF SignInv, Signatures

LEMMA SignStep ==
    ASSUME Apart, SignInv, [Next]_vars
    PROVE  SignInv'
<1> USE DEF SignInv
<1>1. DurableInv'
    BY DurableStep
<1>2. HasClient'
    BY <1>1, ClientStep DEF DurableInv
<1>3. troubled => troubled'
    <2>1. CASE MovesServer
        BY <2>1 DEF MovesServer, Launch, Validated, LookedForData, Restored, Signed, SaveRecord,
               DeleteRecord, SaveRecordsAtomic, Return, Exit, known, ghosts
    <2>2. CASE MovesCli
        BY <2>2 DEF MovesCli, Clear, Scanned, Cleared, CliExit, known, ghosts
    <2>3. CASE Expire
        BY <2>3 DEF Expire, known
    <2>4. CASE \E p \in Processes : Storage(p)
        BY <2>4, StorageEffect DEF known, DurableInv
    <2>5. CASE UNCHANGED vars
        BY <2>5 DEF vars, known
    <2> QED BY <2>1, <2>2, <2>3, <2>4, <2>5, NextCases
<1>4. ASSUME ~troubled' PROVE Signatures'
    <2>1. ~troubled
        BY <1>3, <1>4
    <2>2. ASSUME UNCHANGED <<owners, phase, config>>, AllBeside' /\ Blank' /\ SignedStore' /\ Cleaning'
          PROVE  Signatures'
        BY <2>1, <2>2 DEF Signatures, Refusal, Compatible
    <2>3. CASE MovesServer
        BY <1>4, <2>1, <2>3, ServerKeepsSigned
    <2>4. CASE MovesCli
        BY <1>4, <2>1, <2>4, CliKeepsSigned
    <2>5. CASE Expire
        <3>1. UNCHANGED <<owners, phase, config>>
            BY <2>5 DEF Expire, known
        <3> QED BY <2>1, <2>2, <2>5, <3>1, ExpireKeepsSigned
    <2>6. ASSUME NEW p \in Processes, Storage(p) PROVE Signatures'
        <3>1. UNCHANGED <<owners, phase, config>>
            BY <2>6, StorageEffect DEF program, known, DurableInv
        <3> QED BY <2>1, <2>2, <2>6, <3>1, StorageKeepsSigned
    <2>7. CASE UNCHANGED vars
        <3>1. UNCHANGED <<owners, phase, config, clearing, mode, disk, cache, call>>
            BY <2>7 DEF vars, known
        <3> QED BY <2>1, <2>2, <3>1 DEF Signatures, AllBeside, Blank, View, SignedStore, SignedBy, Cleaning
    <2> QED BY <2>3, <2>4, <2>5, <2>6, <2>7, NextCases
<1> QED BY <1>1, <1>2, <1>4

(* A server is refused only for a configuration that differs, in a field   *)
(* it checks, from the one of a server that wrote what it found            *)
(* (validate_config_signature, ConfigSignature.matches): whatever the      *)
(* configurations, as long as no start met a failing store before, no      *)
(* clear met a running server, and a server and a clear do not share one   *)
(* file.                                                                   *)
THEOREM RefusalsAreJustified == ASSUME Apart PROVE Spec => []RefusedOnlyOnMismatch
<1>1. Init => SignInv
    BY SignInit
<1>2. SignInv /\ [Next]_vars => SignInv'
    BY SignStep
<1>3. SignInv => RefusedOnlyOnMismatch
    BY DEF SignInv, Signatures, Refusal, RefusedOnlyOnMismatch
<1> QED BY <1>1, <1>2, <1>3, PTL DEF Spec
===============================================================================
