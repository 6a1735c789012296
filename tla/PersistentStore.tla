-------------------------- MODULE PersistentStore --------------------------
(***************************************************************************)
(* The key-value store of a server and its life across starts:             *)
(* persistence/file_redis.py, persistence/redis_store.py, the checks of    *)
(* cli.py before a start, the lifespan of server.py, and the command       *)
(* "tuft clear persistence", which is a process of its own.                *)
(*                                                                         *)
(* With mode FILE every process holds the whole store in memory (cache)    *)
(* and each write dumps all of it: to a temporary file, which then takes   *)
(* the place of the store's file. FileRedis._lock is held over a call, so  *)
(* a process has one call at a time and a call is begun, has its dump      *)
(* opened, filled and moved into place, and returns; it may raise at each  *)
(* of these, and the process may end. With mode REDIS the server of Redis  *)
(* (external) executes a call in one step.                                 *)
(***************************************************************************)
EXTENDS ConfigSignature, FiniteSets, Integers

CONSTANTS
    Keys,         \* of records: sessions, runs, checkpoints, futures
    Configs,      \* configurations the server may be started with
    Modes,        \* PersistenceMode of the instance: subset of {"FILE", "REDIS"}
    Faults,       \* what may go wrong: subset of {"write", "read", "online"}
    MaxLaunches,  \* bound on starts of the server
    MaxWrites     \* bound on calls that save records

Sig == "config_signature"
ASSUME KeysAssumption == Sig \notin Keys
ASSUME ModesAssumption == Modes \subseteq {"FILE", "REDIS"}
ASSUME BoundsAssumption == MaxLaunches \in Nat /\ MaxWrites \in Nat
\* AppConfig has fixed fields, and its signature is an object.
ASSUME ConfigsAssumption ==
    \A c, d \in Configs :
        /\ "SUPPORTED_MODELS" \in DOMAIN c.fields
        /\ DOMAIN c.fields = DOMAIN d.fields
        /\ SignatureOf(c) # None

AllKeys == Keys \cup {Sig}
Server == "server"
Cli == "cli"
Processes == {Server, Cli}

VARIABLES
    mode,      \* PersistenceConfig.mode
    disk,      \* the JSON file, or the database of Redis
    tmp,       \* the file that _dump fills before it replaces the other
    cache,     \* of each process: FileRedis._data, or no client yet
    call,      \* of each process: the call in FileRedis._lock
    phase,     \* of the server process: what it is doing with the store
    config,    \* the configuration it was launched with, if it runs
    clearing,  \* of the clear command: what it is doing
    restored,  \* the records the controllers restored at construction
    launches, writes, \* counters
    promised,  \* per key: what the last save that succeeded wrote, if no later
               \* call touched the key
    owners,    \* configurations the signature in the store may be of
    troubled,  \* records may be in the store without a signature, because a
               \* call of a starting server raised, or a clear met a server
    blind,     \* a server was not refused because has_existing_data raised
    unread     \* a server took the file for empty because reading it raised

vars == <<mode, disk, tmp, cache, call, phase, config, clearing, restored, launches, writes,
          promised, owners, troubled, blind, unread>>
program == <<phase, config, clearing, restored, launches, writes>>
known == <<owners, troubled, blind>>
ghosts == <<promised, known, unread>>
counters == <<launches, writes>>

(* Entries, images of a store, files of an image (or the memory of a       *)
(* client), calls. What is not there or not parsed loads as empty.         *)
Absent == [value |-> None, expires |-> "never"]
Empty == [k \in AllKeys |-> Absent]
Present(image) == {k \in AllKeys : image[k] # Absent}
Full(image) == [is |-> "full", image |-> image]
TornFile == [is |-> "torn", image |-> Empty]
NoFile == [is |-> "none", image |-> Empty]
NoClient == NoFile

Idle == [op |-> "none", keys |-> {}, entry |-> Absent, at |-> "idle"]
Read(ks) == [op |-> "read", keys |-> ks, entry |-> Absent, at |-> "begun"]
Set(ks, e) == [op |-> "set", keys |-> ks, entry |-> e, at |-> "begun"]
Pipeline(ks, e) == [op |-> "pipeline", keys |-> ks, entry |-> e, at |-> "begun"]
Delete(ks) == [op |-> "delete", keys |-> ks, entry |-> Absent, at |-> "begun"]

Permanent(v) == [value |-> v, expires |-> "never"]
Expiring(v) == [value |-> v, expires |-> "later"]

Purged(image) == [k \in AllKeys |-> IF image[k].expires = "past" THEN Absent ELSE image[k]]

(* What a call makes of the store before it is dumped: get, exists and     *)
(* scan_iter purge what has expired; set, setex and the pipeline assign;   *)
(* delete removes.                                                         *)
Applied(c, image) ==
    CASE c.op = "read"              -> Purged(image)
      [] c.op \in {"set", "pipeline"} -> [k \in AllKeys |-> IF k \in c.keys THEN c.entry ELSE image[k]]
      [] c.op = "delete"            -> [k \in AllKeys |-> IF k \in c.keys THEN Absent ELSE image[k]]

MutantDumps(c, image) == Applied(c, image) # image

(* An assignment always dumps, the others when they changed something.     *)
Dumps(c, image) == c.op \in {"set", "pipeline"} \/ Applied(c, image) # image

(* What the process sees when its call returns.                            *)
View(p) == IF mode = "REDIS" THEN disk.image ELSE cache[p].image


(* A call changes what is known of its keys, and so does its success:      *)
(* save_record will return True. For save_records_atomic that says nothing,*)
(* as the exit of the pipeline swallows what it raises.                    *)
Known(c, at) ==
    [k \in AllKeys |->
        IF c.op = "read" \/ k \notin c.keys THEN promised[k]
        ELSE IF c.op = "set" /\ at = "done" /\ c.entry.expires # "past" THEN c.entry
        ELSE None]

Goto(p, at) ==
    /\ call' = [call EXCEPT ![p].at = at]
    /\ promised' = Known(call[p], at)

-----------------------------------------------------------------------------
(* Process p makes call c with the client it has, or with a new one that   *)
(* loads the file (_load). With FILE the memory is changed at once, and    *)
(* what is left is the dump. A file that cannot be read is taken for empty.*)
Begin(p, c, client) ==
    /\ UNCHANGED <<mode, disk, tmp>>
    /\ IF mode = "REDIS"
       THEN /\ call' = [call EXCEPT ![p] = c]
            /\ promised' = Known(c, "begun")
            /\ UNCHANGED <<cache, unread>>
       ELSE \E image \in IF client # NoClient THEN {client.image}
                         ELSE {disk.image} \cup (IF "read" \in Faults THEN {Empty} ELSE {}) :
                LET at == IF Dumps(c, image) THEN "dumping" ELSE "done"
                IN  /\ cache' = [cache EXCEPT ![p] = Full(Applied(c, image))]
                    /\ call' = [call EXCEPT ![p] = [c EXCEPT !.at = at]]
                    /\ promised' = Known(c, at)
                    /\ unread' = (unread \/ (client = NoClient /\ image # disk.image))

(* FileRedis._dump: write_text opens and fills the temporary file, replace *)
(* moves it.                                                               *)
OpenTmp(p) ==
    /\ call[p].at = "dumping"
    /\ tmp' = TornFile
    /\ Goto(p, "opened")
    /\ UNCHANGED <<mode, disk, cache, program, known, unread>>

FillTmp(p) ==
    /\ call[p].at = "opened"
    /\ tmp' = cache[p]
    /\ Goto(p, "filled")
    /\ UNCHANGED <<mode, disk, cache, program, known, unread>>

ReplaceFile(p) ==
    /\ call[p].at = "filled"
    /\ IF tmp = NoFile
       THEN Goto(p, "failed") /\ UNCHANGED <<disk, tmp>>
       ELSE Goto(p, "done") /\ disk' = tmp /\ tmp' = NoFile
    /\ UNCHANGED <<mode, cache, program, known, unread>>

(* OSError out of a dump, anywhere: the call raises, and RedisStore turns  *)
(* that into its result; the memory stays changed.                         *)
RaiseDump(p) ==
    /\ "write" \in Faults
    /\ call[p].at \in {"dumping", "opened", "filled"}
    /\ Goto(p, "failed")
    /\ UNCHANGED <<mode, disk, tmp, cache, program, known, unread>>

(* The server of Redis executes a call (external), and its answer may get  *)
(* lost, or the call may not get there.                                    *)
RedisReply(p) ==
    /\ call[p].at = "begun"
    /\ disk' = Full(Applied(call[p], disk.image))
    /\ \/ Goto(p, "done")
       \/ call[p].op # "read" /\ "write" \in Faults /\ Goto(p, "failed")
    /\ UNCHANGED <<mode, tmp, cache, program, known, unread>>

RedisError(p) ==
    /\ call[p].at = "begun"
    /\ (IF call[p].op = "read" THEN "read" ELSE "write") \in Faults
    /\ Goto(p, "failed")
    /\ UNCHANGED <<mode, disk, tmp, cache, program, known, unread>>

Returned(p) == call[p].at \in {"done", "failed"}
Succeeded(p) == call[p].at = "done"

-----------------------------------------------------------------------------
(* The server process.                                                     *)

(* The clear command and a server are not to use one file at once; "online"*)
(* lets them.                                                              *)
MayMeet == mode = "REDIS" \/ "online" \in Faults

(* cli.launch with a configuration: configure, then the first call of      *)
(* validate_config_signature.                                              *)
Launch(c) ==
    /\ phase = "off" /\ launches < MaxLaunches
    /\ clearing = "idle" \/ MayMeet
    /\ config' = c
    /\ phase' = "validating"
    /\ launches' = launches + 1
    /\ Begin(Server, Read({Sig}), NoClient)
    /\ troubled' = (troubled \/ clearing = "deleting")
    /\ UNCHANGED <<clearing, restored, writes, owners, blind>>

(* create_root_app: configure again, which drops the client, and construct *)
(* the controllers, which load their records.                              *)
Restore ==
    /\ phase' = "restoring"
    /\ Begin(Server, Read(AllKeys), NoClient)

Refuse ==
    /\ phase' = "refused"
    /\ call' = [call EXCEPT ![Server] = Idle]
    /\ UNCHANGED <<mode, disk, tmp, cache, promised, unread>>

(* matches(stored, check_fields)                                           *)
Accepts(stored) == Matches(SignatureOf(config), stored, config.check_fields)

(* load_config_signature returned: None also when the call raised. Without *)
(* a signature, has_existing_data looks for records.                       *)
Validated ==
    /\ phase = "validating" /\ Returned(Server)
    /\ LET stored == IF Succeeded(Server) THEN View(Server)[Sig].value ELSE None
       IN  IF stored = None
           THEN phase' = "looking" /\ Begin(Server, Read(AllKeys), cache[Server])
           ELSE IF Accepts(stored) THEN Restore ELSE Refuse
    /\ troubled' = (troubled \/ ~Succeeded(Server))
    /\ UNCHANGED <<config, clearing, restored, counters, owners, blind>>

LookedForData ==
    /\ phase = "looking" /\ Returned(Server)
    /\ IF Succeeded(Server) /\ Present(View(Server)) # {} THEN Refuse ELSE Restore
    /\ troubled' = (troubled \/ ~Succeeded(Server))
    /\ blind' = (blind \/ ~Succeeded(Server))
    /\ UNCHANGED <<config, clearing, restored, counters, owners>>

(* The records that were restored; each is a get of its own in the code,   *)
(* and one that raises leaves its record out. After async_init the lifespan*)
(* saves the signature.                                                    *)
Restored ==
    /\ phase = "restoring" /\ Returned(Server)
    /\ LET found == {View(Server)[k].value : k \in Present(View(Server)) \ {Sig}}
       IN  restored' \in IF Succeeded(Server) THEN {found} ELSE SUBSET found
    /\ phase' = "signing"
    /\ Begin(Server, Set({Sig}, Permanent(SignatureOf(config))), cache[Server])
    /\ owners' = owners \cup {config}
    /\ troubled' = (troubled \/ ~Succeeded(Server))
    /\ UNCHANGED <<config, clearing, counters, blind>>

(* save_config_signature returned; its result is not looked at.            *)
Signed ==
    /\ phase = "signing" /\ Returned(Server)
    /\ phase' = "up"
    /\ call' = [call EXCEPT ![Server] = Idle]
    /\ troubled' = (troubled \/ ~Succeeded(Server))
    /\ owners' = IF Succeeded(Server) THEN {config} ELSE owners
    /\ UNCHANGED <<mode, disk, tmp, cache, config, clearing, restored, counters, promised,
                   blind, unread>>

(* The models of a configuration, in any order: their names and what of    *)
(* them is not a capability.                                               *)
ModelsOf(models) == {<<models[i].name, models[i].rest>> : i \in DOMAIN models}

(* A record: by servers with which models it was written, its number, and  *)
(* the keys of its transaction.                                            *)
Record(n, ks) == [by |-> ModelsOf(config.fields["SUPPORTED_MODELS"]), n |-> n, with |-> ks]

Serving == phase = "up" /\ call[Server] = Idle

(* save_record of a new or of the same record (a future is saved again when*)
(* a save failed): permanent, or for a time.                               *)
SaveRecord(k) ==
    /\ Serving /\ writes < MaxWrites
    /\ writes' = writes + 1
    /\ \E n \in {writes, writes'} \ {0} :
           \E e \in {Permanent(Record(n, {k})), Expiring(Record(n, {k}))} :
               Begin(Server, Set({k}, e), cache[Server])
    /\ UNCHANGED <<phase, config, clearing, restored, launches, known>>

MutantSaveRecordsAtomic(ks) ==
    /\ Serving /\ writes < MaxWrites
    /\ writes' = writes + 1
    /\ \E k \in ks : Begin(Server, Pipeline({k}, Permanent(Record(writes', ks))), cache[Server])
    /\ UNCHANGED <<phase, config, clearing, restored, launches, known>>

(* save_records_atomic, of a run and its checkpoint.                       *)
SaveRecordsAtomic(ks) ==
    /\ Serving /\ writes < MaxWrites
    /\ writes' = writes + 1
    /\ Begin(Server, Pipeline(ks, Permanent(Record(writes', ks))), cache[Server])
    /\ UNCHANGED <<phase, config, clearing, restored, launches, known>>

DeleteRecord(k) ==
    /\ Serving
    /\ k \in Present(View(Server))
    /\ Begin(Server, Delete({k}), cache[Server])
    /\ UNCHANGED <<phase, config, clearing, restored, counters, known>>

(* A call of the running server returns.                                   *)
Return ==
    /\ phase = "up" /\ Returned(Server)
    /\ call' = [call EXCEPT ![Server] = Idle]
    /\ UNCHANGED <<mode, disk, tmp, cache, phase, config, clearing, restored, counters, ghosts>>

(* The process ends: refused, stopped or killed.                           *)
Exit ==
    /\ phase # "off"
    /\ phase' = "off"
    /\ config' = None
    /\ call' = [call EXCEPT ![Server] = Idle]
    /\ cache' = [cache EXCEPT ![Server] = NoClient]
    /\ restored' = {}
    /\ UNCHANGED <<mode, disk, tmp, clearing, counters, ghosts>>

-----------------------------------------------------------------------------
(* tuft clear persistence: flush_all_data scans and deletes what it found. *)
Clear ==
    /\ clearing = "idle"
    /\ phase = "off" \/ MayMeet
    /\ clearing' = "scanning"
    /\ Begin(Cli, Read(AllKeys), NoClient)
    /\ UNCHANGED <<phase, config, restored, counters, known>>

EndClear ==
    /\ clearing' = "idle"
    /\ call' = [call EXCEPT ![Cli] = Idle]
    /\ cache' = [cache EXCEPT ![Cli] = NoClient]

Scanned ==
    /\ clearing = "scanning" /\ Returned(Cli)
    /\ LET found == Present(View(Cli))
       IN  IF Succeeded(Cli) /\ found # {}
           THEN clearing' = "deleting" /\ Begin(Cli, Delete(found), cache[Cli])
           ELSE EndClear /\ UNCHANGED <<mode, disk, tmp, promised, unread>>
    /\ troubled' = (troubled \/ phase # "off")
    /\ UNCHANGED <<phase, config, restored, counters, owners, blind>>

Cleared ==
    /\ clearing = "deleting" /\ Returned(Cli)
    /\ EndClear
    /\ owners' = IF Succeeded(Cli) /\ phase = "off" THEN {} ELSE owners
    /\ UNCHANGED <<mode, disk, tmp, phase, config, restored, counters, promised, troubled,
                   blind, unread>>

CliExit ==
    /\ clearing # "idle"
    /\ EndClear
    /\ UNCHANGED <<mode, disk, tmp, phase, config, restored, counters, ghosts>>

-----------------------------------------------------------------------------
(* Time passes: what was to expire has expired; Redis drops it.            *)
Later(image) == {k \in AllKeys : image[k].expires = "later"}

Aged(image) ==
    [k \in AllKeys |-> IF k \in Later(image) THEN [image[k] EXCEPT !.expires = "past"] ELSE image[k]]

Dropped(image) == [k \in AllKeys |-> IF k \in Later(image) THEN Absent ELSE image[k]]

Expire ==
    LET AgedCall(c) == IF c.at # "begun" /\ c.entry.expires = "later"
                       THEN [c EXCEPT !.entry.expires = "past"] ELSE c
    IN  /\ Later(disk.image) # {} \/ Later(cache[Server].image) # {}
        /\ disk' = [disk EXCEPT !.image = IF mode = "REDIS" THEN Dropped(@) ELSE Aged(@)]
        /\ tmp' = [tmp EXCEPT !.image = Aged(@)]
        /\ cache' = [p \in Processes |-> [cache[p] EXCEPT !.image = Aged(@)]]
        /\ call' = [p \in Processes |-> AgedCall(call[p])]
        /\ promised' = [k \in AllKeys |->
               IF promised[k] # None /\ promised[k].expires = "later" THEN None
               ELSE promised[k]]
        /\ UNCHANGED <<mode, phase, config, clearing, restored, counters, known, unread>>

-----------------------------------------------------------------------------
Init ==
    /\ mode \in Modes
    /\ disk = IF mode = "REDIS" THEN Full(Empty) ELSE NoFile
    /\ tmp = NoFile
    /\ cache = [p \in Processes |-> NoClient]
    /\ call = [p \in Processes |-> Idle]
    /\ phase = "off"
    /\ config = None
    /\ clearing = "idle"
    /\ restored = {}
    /\ launches = 0 /\ writes = 0
    /\ promised = [k \in AllKeys |-> None]
    /\ owners = {}
    /\ troubled = FALSE /\ blind = FALSE /\ unread = FALSE

Storage(p) ==
    OpenTmp(p) \/ FillTmp(p) \/ ReplaceFile(p) \/ RaiseDump(p) \/ RedisReply(p) \/ RedisError(p)

Next ==
    \/ \E p \in Processes : Storage(p)
    \/ \E c \in Configs : Launch(c)
    \/ Validated \/ LookedForData \/ Restored \/ Signed
    \/ \E k \in Keys : SaveRecord(k) \/ DeleteRecord(k)
    \/ SaveRecordsAtomic(Keys)
    \/ Return \/ Exit
    \/ Clear \/ Scanned \/ Cleared \/ CliExit
    \/ Expire

Spec == Init /\ [][Next]_vars

-----------------------------------------------------------------------------
(* Properties                                                              *)

(* What save_record reported as saved is in the store that survives the    *)
(* process, until a later call on its key or its time: whatever writes of  *)
(* other keys fail or are cut short, and however often the process ends.   *)
(* Only the temporary file is ever half written. The exception is a start  *)
(* that could not read the file.                                           *)
AcknowledgedIsDurable ==
    /\ disk.is # "torn"
    /\ ~unread => \A k \in Keys : promised[k] # None => disk.image[k] = promised[k]

(* The records of a transaction are on the disk together: beside one of    *)
(* them no other key still has what it had before.                         *)
SavesAreAtomic ==
    \A k, j \in Keys :
        LET e == disk.image[k]
            f == disk.image[j]
        IN  e # Absent /\ j \in e.value.with /\ f # Absent => f.value.n >= e.value.n

(* A server only takes over records that servers with the same models      *)
(* wrote: validate_config_signature is to keep others from starting, also  *)
(* after starts that failed half-way, failed saves of a signature, and     *)
(* clears that were cut short or met a running server. It takes a start    *)
(* that could not read the file, or whose search for data raised too.      *)
RestoredUnderItsModels ==
    ~unread /\ ~blind =>
    \A r \in restored : r.by = ModelsOf(config.fields["SUPPORTED_MODELS"])

(* What is to be compared of two configurations at a start of the first.   *)
Compatible(c, d) ==
    /\ ModelsOf(c.fields["SUPPORTED_MODELS"]) = ModelsOf(d.fields["SUPPORTED_MODELS"])
    /\ \A f \in c.check_fields \ {"SUPPORTED_MODELS"} : c.fields[f] = d.fields[f]

(* A server is refused only for a configuration that differs from the last *)
(* one in a field it checks, unless a start before it met a failing store  *)
(* or its signature was cleared under a running server.                    *)
RefusedOnlyOnMismatch ==
    phase = "refused" /\ ~troubled => \E c \in owners : ~Compatible(config, c)
============================================================================
