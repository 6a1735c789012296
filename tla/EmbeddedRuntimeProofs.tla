------------------------- MODULE EmbeddedRuntimeProofs -------------------------
(***************************************************************************)
(* Servers that the package launches for a Python process (tuft.init), and *)
(* their end with shutdown or with the process, for any number of          *)
(* processes, threads, addresses and calls.                                *)
(***************************************************************************)
EXTENDS EmbeddedRuntime, TLAPS

(* What the constants are. None is nothing else.                           *)
RuntimeConstants ==
    /\ ProcessOf \in [Threads -> Procs]
    /\ MaxCalls \in Nat
    /\ None \notin Threads /\ None \notin Procs /\ None \notin Nat

RuntimeStages == {
    "idle", "locking", "explicit", "env", "file", "checking_file", "scan", "default", "launching",
    "waiting", "probing", "ready", "signalling", "reaping", "removing",
    "unlinking", "stopped"}
Discovering == {"explicit", "env", "file", "checking_file", "scan", "default", "launching"}
Waiting == {"waiting", "probing", "ready"}
Terminating == {"signalling", "reaping"}
Reaped == {"removing", "unlinking", "stopped"}

(* The thread is in the with statement, or runs the handlers of an exit.   *)
In(t) == thread[t].stage \notin {"idle", "locking"}

(* The domains of functions and records; what is in most of their fields   *)
(* is of no importance here.                                               *)
RuntimeShape ==
    /\ DOMAIN runtime = Procs
    /\ \A p \in Procs : DOMAIN runtime[p] = {"initialized", "mode", "client", "server", "key"}
    /\ life \in [Procs -> {"running", "exiting", "gone", "killed"}]
    /\ DOMAIN lock = Procs /\ DOMAIN atexit = Procs
    /\ DOMAIN thread = Threads
    /\ \A t \in Threads :
           /\ DOMAIN thread[t] = {"stage", "task", "args", "found", "target", "seen"}
           /\ thread[t].stage \in RuntimeStages
    /\ DOMAIN servers = Ids
    /\ \A s \in Ids :
           /\ DOMAIN servers[s] = {"state", "at", "told", "owner", "keys"}
           /\ servers[s].owner \in Procs \cup {None}
    /\ launched \in Nat
OtherThreadsIdle(p, t) ==
    \A u \in Threads \ Daemons : ProcessOf[u] = p /\ u # t => thread[u].stage = "idle"

(* Calls of init and shutdown proceed in the lock, one per process; an     *)
(* exit finds the other threads idle that are no daemons.                  *)
InCalls == \A t \in Threads :
    LET p == ProcessOf[t]
    IN  /\ thread[t].stage # "idle" =>
              \/ thread[t].task \in {"init", "shutdown"} /\ Runs(t)
              \/ /\ thread[t].task = "exit" /\ life[p] = "exiting" /\ In(t)
                 /\ t \notin Daemons /\ OtherThreadsIdle(p, t)
        /\ In(t) /\ thread[t].task # "exit" => lock[p] = t
        /\ thread[t].stage \in Discovering \cup Waiting => thread[t].task = "init"
        /\ thread[t].stage \in Reaped => thread[t].task # "init"

(* Ids of the server processes there have been.                            *)
Old == 1..launched

(* The server has come as far as the port, or has ended: it will never     *)
(* begin to serve.                                                         *)
Past(s) == servers[s].state \notin {"absent", "validating", "starting"}

(* No id is used before its server is launched.                            *)
Launched ==
    /\ \A s \in Ids \ Old : servers[s].state = "absent"
    /\ \A p \in Procs :
           (runtime[p].server = None \/ runtime[p].server \in Old) /\ atexit[p] \subseteq Old
    /\ \A t \in Threads :
           /\ thread[t].stage \in Terminating \cup Reaped => Target(t) \in Old
           /\ thread[t].stage \in Waiting => Mine(t) \in Old

(* A call of init waits for the child, or stops it.                        *)
MindedIn(p, s) == \E t \in Threads : ProcessOf[t] = p /\ Minding(t, s)

(* A child is registered for the exit, or in the hands of a call of init,  *)
(* unless one has left it.                                                 *)
Kept(p, s) ==
    \/ s \in adrift \/ life[p] = "killed"
    \/ life[p] # "gone" /\ (s \in atexit[p] \/ MindedIn(p, s))

(* What was stopped is dead; every child that lives is kept.               *)
Minded ==
    /\ \A t \in Threads : thread[t].stage \in Reaped => Target(t) \notin Alive
    /\ \A s \in Alive : servers[s].owner # None => Kept(servers[s].owner, s)

(* The child that lives is the one of the module's global, which says that *)
(* it is initialized unless a call of init goes on or has lost it.         *)
Only(p, s) ==
    life[p] = "running" => runtime[p].server = s /\ (runtime[p].initialized \/ MindedIn(p, s))
Loose == adrift \cup unclaimed
OneChild == \A s \in Alive \ Loose : servers[s].owner # None => Only(servers[s].owner, s)

(* While init goes on nobody has initialized the process, and what is      *)
(* stopped is the child of the global.                                     *)
UnderWay == \A t \in Threads :
    /\ In(t) /\ thread[t].task = "init" => ~runtime[ProcessOf[t]].initialized
    /\ thread[t].stage \in Terminating \cup Reaped /\ thread[t].task # "exit"
      => Target(t) = Mine(t)

(* What served when discovery began may have ended since but not begun,    *)
(* and after the scan none of it serves where its command line tells.      *)
Hidden(s) == s \in Serving => servers[s].told # servers[s].at
Looked == \A t \in Threads :
    /\ \A s \in thread[t].seen : s \in Ids \cap Old /\ Past(s)
    /\ thread[t].stage \in {"default", "launching"} => \A s \in thread[t].seen : Hidden(s)

(* What a step of discovery does: it goes on, or the call ends, with or    *)
(* without a client.                                                       *)
Searches(t) ==
    /\ UNCHANGED <<life, atexit, servers, launched, adrift, unclaimed>>
    /\ thread[t].stage \in Discovering \ {"launching"}
    /\ \A u \in Threads \ {t} : thread'[u] = thread[u]
    /\ \A p \in Procs : runtime'[p].server = runtime[p].server
    /\ \/ /\ thread'[t].stage \in Discovering
          /\ thread'[t].task = thread[t].task /\ thread'[t].seen = thread[t].seen
          /\ thread'[t].stage = "launching" => thread[t].stage = "default"
          /\ thread'[t].stage = "default" => \A s \in Ids : Hidden(s)
          /\ UNCHANGED <<runtime, lock>>
       \/ /\ thread'[t] = IdleThread
          /\ \A p \in Procs \ {ProcessOf[t]} : runtime'[p].initialized = runtime[p].initialized
          /\ lock' = [lock EXCEPT ![ProcessOf[t]] = IF @ = t THEN None ELSE @]

LEMMA Searching ==
    ASSUME RuntimeConstants, RuntimeShape, InCalls, NEW t \in Threads, Discover(t)
    PROVE  Searches(t) /\ RuntimeShape'
<1> DEFINE p == ProcessOf[t]
<1>0. p \in Procs /\ DOMAIN thread = Threads /\ DOMAIN runtime = Procs
       /\ DOMAIN runtime[p] = {"initialized", "mode", "client", "server", "key"}
    BY DEF RuntimeConstants, RuntimeShape
<1>1. ASSUME NEW x \in Discovering, thread[t].stage \in Discovering \ {"launching"},
             NotFound(t, x),
             x = "launching" => thread[t].stage = "default",
             x = "default" => \A s \in Ids : Hidden(s)
      PROVE  Searches(t) /\ RuntimeShape'
    BY <1>1 DEF Searches, NotFound, Goto, process, children, history, RuntimeShape,
        Discovering, RuntimeStages, Ids
<1>2. ASSUME thread[t].stage \in Discovering \ {"launching"}, Raise(t)
      PROVE  Searches(t) /\ RuntimeShape'
    BY <1>2 DEF Searches, Raise, Leave, process, children, history, RuntimeShape,
        IdleThread, RuntimeStages, Ids
<1>3. ASSUME thread[t].stage \in Discovering \ {"launching"}, NEW a, Connect(t, a)
      PROVE  Searches(t) /\ RuntimeShape'
    <2>1. /\ thread' = [thread EXCEPT ![t] = IdleThread]
          /\ UNCHANGED <<life, atexit, servers, launched, adrift, unclaimed>>
          /\ lock' = [lock EXCEPT ![p] = IF @ = t THEN None ELSE @]
        BY <1>3 DEF Connect, Leave, process, children, history
    <2>2. \A q \in Procs \ {p} : runtime'[q] = runtime[q]
        BY <1>0, <1>3 DEF Connect
    <2>3. runtime'[p].server = runtime[p].server /\ DOMAIN runtime'[p] = DOMAIN runtime[p]
           /\ DOMAIN runtime' = Procs
        BY <1>0, <1>3 DEF Connect
    <2>4. Searches(t)
        BY <1>0, <1>3, <2>1, <2>2, <2>3 DEF Searches
    <2> QED BY <1>0, <2>1, <2>2, <2>3, <2>4 DEF RuntimeShape, IdleThread, RuntimeStages, Ids
<1>4. CASE DiscoverExplicit(t)
    BY <1>4, <1>2, <1>3 DEF DiscoverExplicit, At, Discovering
<1>5. CASE DiscoverFromEnv(t)
    BY <1>5, <1>1, <1>3 DEF DiscoverFromEnv, At, Discovering
<1>6. CASE ReadAddressFile(t)
    BY <1>6, <1>0 DEF ReadAddressFile, At, Discovering, Searches, process, children, history,
        RuntimeShape, RuntimeStages, Ids
<1>7. CASE DiscoverFromAddressFile(t)
    BY <1>7, <1>1, <1>3 DEF DiscoverFromAddressFile, At, Discovering
<1>8. CASE DiscoverFromProcessScan(t)
    <2> DEFINE told == {servers[s].told : s \in Alive}
    <2>1. CASE \E a \in told : Healthy(a) /\ Connect(t, a)
        BY <1>8, <2>1, <1>3 DEF DiscoverFromProcessScan, At, Discovering
    <2>2. CASE (\A a \in told : ~Healthy(a)) /\ NotFound(t, "default")
        <3>1. \A s \in Ids : Hidden(s)
            BY <2>2 DEF Hidden, Healthy, Serving, Alive, Dead
        <3> QED BY <1>8, <2>2, <3>1, <1>1 DEF DiscoverFromProcessScan, At, Discovering
    <2> QED BY <1>8, <2>1, <2>2 DEF DiscoverFromProcessScan
<1>9. CASE DiscoverFromDefaultPort(t)
    BY <1>9, <1>1, <1>3 DEF DiscoverFromDefaultPort, At, Discovering
<1> QED BY <1>4, <1>5, <1>6, <1>7, <1>8, <1>9 DEF Discover

(* Ids are used once.                                                      *)
LEMMA IdsGrow ==
    ASSUME RuntimeShape, Next
    PROVE  /\ launched' \in Nat /\ Old \subseteq Old'
           /\ launched' # launched =>
                 launched' = launched + 1 /\ launched' \in Old' /\ launched' \notin Old
<1>1. launched' = launched \/ launched' = launched + 1
    <2>1. ASSUME NEW t \in Threads, Discover(t) PROVE launched' = launched
        BY <2>1 DEF Discover, DiscoverExplicit, DiscoverFromEnv, ReadAddressFile,
            DiscoverFromAddressFile, DiscoverFromProcessScan, DiscoverFromDefaultPort,
            NotFound, Raise, Connect, children
    <2>2. ASSUME NEW t \in Threads, Stop(t) PROVE launched' = launched
        BY <2>2 DEF Stop, Signal, Reap, CheckFile, Unlink, Stopped, children
    <2>3. ASSUME NEW s \in Ids, ServerProcess(s) \/ Crash(s) \/ StopDaemon(s)
                 PROVE launched' = launched
        BY <2>3 DEF ServerProcess, WriteAddressFile, Bind, End, RemoveAddressFile,
            UnlinkAddressFile, Crash, StopDaemon
    <2>4. ASSUME NEW t \in Threads,
                 \/ \E a \in InitArgs : BeginInit(t, a)
                 \/ BeginShutdown(t) \/ BeginExit(t) \/ Deadline(t) \/ Escape(t)
                 \/ EnterInit(t) \/ EnterShutdown(t) \/ Poll(t) \/ Probe(t) \/ Ready(t)
          PROVE  launched' = launched
        BY <2>4 DEF BeginInit, BeginShutdown, BeginExit, Deadline, Escape, EnterInit,
            EnterShutdown, Poll, Probe, Ready, NotFound, Raise, children
    <2>5. ASSUME NEW t \in Threads, Launch(t)
          PROVE  launched' = launched \/ launched' = launched + 1
        BY <2>5 DEF Launch, Raise, children
    <2>6. ASSUME NEW p \in Procs, Kill(p) PROVE launched' = launched
        BY <2>6 DEF Kill, children
    <2>7. ASSUME NEW a \in Addresses, LaunchDaemon(a) PROVE launched' = launched + 1
        BY <2>7 DEF LaunchDaemon
    <2> QED BY <2>1, <2>2, <2>3, <2>4, <2>5, <2>6, <2>7 DEF Next, Proceed
<1> QED BY <1>1 DEF RuntimeShape, Old

(* What a call of init has lost stays lost.                                *)
LEMMA LooseStays == ASSUME Next PROVE adrift \subseteq adrift' /\ Loose \subseteq Loose'
<1>1. ASSUME NEW t \in Threads, Discover(t) PROVE UNCHANGED history
    BY <1>1 DEF Discover, DiscoverExplicit, DiscoverFromEnv, ReadAddressFile,
        DiscoverFromAddressFile, DiscoverFromProcessScan, DiscoverFromDefaultPort,
        NotFound, Raise, Connect, children
<1>2. ASSUME NEW t \in Threads, Ready(t) \/ Stopped(t) \/ BeginExit(t) \/ Escape(t)
      PROVE  adrift \subseteq adrift' /\ unclaimed \subseteq unclaimed'
    BY <1>2 DEF Ready, Stopped, BeginExit, Escape, RunHandlers
<1>3. ASSUME NEW t \in Threads,
             \/ \E a \in InitArgs : BeginInit(t, a)
             \/ BeginShutdown(t) \/ Deadline(t) \/ EnterInit(t) \/ EnterShutdown(t)
             \/ Launch(t) \/ Poll(t) \/ Probe(t) \/ Signal(t) \/ Reap(t)
             \/ CheckFile(t) \/ Unlink(t)
      PROVE  UNCHANGED history
    BY <1>3 DEF BeginInit, BeginShutdown, Deadline, EnterInit, EnterShutdown, Launch, Poll,
        Probe, Signal, Reap, CheckFile, Unlink, Raise, NotFound, children
<1>4. ASSUME NEW s \in Ids, ServerProcess(s) \/ Crash(s) \/ StopDaemon(s) PROVE UNCHANGED history
    BY <1>4 DEF ServerProcess, WriteAddressFile, Bind, End, RemoveAddressFile,
        UnlinkAddressFile, Crash, StopDaemon
<1>5. ASSUME NEW p \in Procs, Kill(p) PROVE UNCHANGED history
    BY <1>5 DEF Kill, children
<1>6. ASSUME NEW a \in Addresses, LaunchDaemon(a) PROVE UNCHANGED history
    BY <1>6 DEF LaunchDaemon
<1> QED BY <1>1, <1>2, <1>3, <1>4, <1>5, <1>6 DEF Next, Proceed, Stop, history, Loose

(* Servers there have been keep their addresses and their owners, and never*)
(* come back to life or to the port.                                       *)
Age ==
    /\ \A s \in Ids \ Old' : servers'[s].state = "absent"
    /\ \A s \in Ids \cap Old :
           /\ servers'[s].owner = servers[s].owner
           /\ servers'[s].at = servers[s].at /\ servers'[s].told = servers[s].told
           /\ s \in Alive' => s \in Alive
           /\ Past(s) => Past(s)' /\ (s \in Serving' => s \in Serving)

(* The others are launched by hand, or by init in the process that owns    *)
(* them.                                                                   *)
Born(s) ==
    \/ servers'[s].owner = None
    \/ \E t \in Threads : Launch(t) /\ s = launched + 1 /\ servers'[s].owner = ProcessOf[t]

(* Every step keeps to that.                                               *)
LEMMA ServersAge ==
    ASSUME RuntimeConstants, RuntimeShape, Launched, Next
    PROVE  Age /\ \A s \in Alive' \ Old : Born(s)
<1> USE DEF Age, Born, Alive, Serving, Past, Dead
<1>0. \A s \in Ids \ Old : servers[s].state = "absent"
    BY DEF Launched
<1>1. ASSUME launched' = launched, \A s \in Ids : servers'[s] = servers[s]
      PROVE  Age /\ \A q \in Alive' \ Old : Born(q)
    BY <1>0, <1>1 DEF Old, Ids
<1>2. ASSUME launched' = launched, NEW s \in Ids, NEW x,
             servers' = [servers EXCEPT ![s].state = x],
             s \in Old, Past(s) => x \notin {"absent", "validating", "starting", "serving"},
             servers[s].state \in {"absent", "gone"} => x \in {"absent", "gone"}
      PROVE  Age /\ \A q \in Alive' \ Old : Born(q)
    BY <1>0, <1>2 DEF Old, Ids, RuntimeShape
<1>3. ASSUME NEW x, servers' = [servers EXCEPT ![launched + 1] = x], launched' = launched + 1,
             launched + 1 \in Alive' => Born(launched + 1)
      PROVE  Age /\ \A q \in Alive' \ Old : Born(q)
    <2>1. Old' = Old \cup {launched + 1} /\ launched + 1 \notin Old
        BY <1>3 DEF Old, RuntimeShape
    <2> HIDE DEF Born
    <2>2. \A s \in Ids \ {launched + 1} : servers'[s] = servers[s]
        BY <1>3 DEF RuntimeShape
    <2> QED BY <1>0, <1>3, <2>1, <2>2 DEF Ids
<1>4. ASSUME NEW t \in Threads
      PROVE  thread[t].stage \in Terminating \cup Reaped => Target(t) \in Old
    BY DEF Launched
<1>5. ASSUME NEW t \in Threads, thread[t].stage \in Terminating, launched' = launched, NEW x,
             x \notin {"absent", "validating", "starting", "serving"},
             servers[Target(t)].state \notin {"absent", "gone"} \/ x = "gone",
             servers' = [servers EXCEPT ![Target(t)].state = x]
      PROVE  Age /\ \A q \in Alive' \ Old : Born(q)
    <2>1. CASE Target(t) \in Ids
        BY <1>2, <1>4, <1>5, <2>1 DEF Dead
    <2>2. CASE Target(t) \notin Ids
        <3>1. \A s \in Ids : servers'[s] = servers[s]
            BY <1>5, <2>2 DEF RuntimeShape
        <3> QED BY <1>1, <1>5, <3>1
    <2> QED BY <2>1, <2>2
<1> HIDE DEF Age, Born, Alive, Serving, Past, Dead
<1>6. ASSUME NEW t \in Threads, Proceed(t) PROVE Age /\ \A q \in Alive' \ Old : Born(q)
    <2>1. CASE Signal(t)
        <3>1. thread[t].stage \in Terminating /\ launched' = launched
            BY <2>1 DEF Signal, At, Terminating
        <3> DEFINE x == IF servers[Target(t)].state \in {"starting", "serving", "ending"}
                        THEN "ending" ELSE "gone"
        <3>2. CASE servers[Target(t)].state \in Dead
            <4>1. servers' = servers
                BY <2>1, <3>2 DEF Signal, SetState, Dead
            <4> QED BY <1>1, <3>1, <4>1
        <3>3. CASE servers[Target(t)].state \notin Dead
            <4>1. servers' = [servers EXCEPT ![Target(t)].state = x]
                <5>1. CASE servers[Target(t)].state \in {"starting", "serving", "ending"}
                    BY <2>1, <3>3, <5>1 DEF Signal, SetState
                <5>2. CASE servers[Target(t)].state \notin {"starting", "serving", "ending"}
                    BY <2>1, <3>3, <5>2, Zenon DEF Signal, SetState, Dead
                <5> QED BY <5>1, <5>2
            <4>2. x \notin {"absent", "validating", "starting", "serving"}
                OBVIOUS
            <4> HIDE DEF x
            <4> QED BY <1>5, <3>1, <3>3, <4>1, <4>2 DEF Dead
        <3> QED BY <3>2, <3>3
    <2>2. CASE Reap(t)
        <3> DEFINE x == "gone"
        <3>1. thread[t].stage \in Terminating /\ launched' = launched
               /\ servers' = [servers EXCEPT ![Target(t)].state = x]
            BY <2>2 DEF Reap, At, Terminating, SetState
        <3>2. x = "gone" /\ x \notin {"absent", "validating", "starting", "serving"}
            OBVIOUS
        <3> HIDE DEF x
        <3> QED BY <1>5, <3>1, <3>2
    <2>3. CASE Launch(t)
        <3>1. CASE Args(t).source = "none"
            BY <1>1, <2>3, <3>1 DEF Launch, Raise, children
        <3>2. CASE Args(t).source # "none"
            <4> DEFINE x == [state |-> "validating", at |-> Args(t).at,
                             told |-> Args(t).at, owner |-> ProcessOf[t],
                             keys |-> IF Args(t).source = "model"
                                      THEN {launched + 1} ELSE {Given}]
            <4>1. servers' = [servers EXCEPT ![launched + 1] = x] /\ launched' = launched + 1
                BY <2>3, <3>2, SMTT(30) DEF Launch
            <4>3. x.owner = ProcessOf[t]
                OBVIOUS
            <4> HIDE DEF x
            <4>2. launched + 1 \in Alive' => Born(launched + 1)
                <5>1. launched + 1 \in Alive' => servers'[launched + 1] = x
                    BY <4>1 DEF Alive, Ids, RuntimeShape
                <5> QED BY <2>3, <4>3, <5>1 DEF Born
            <4> QED BY <1>3, <4>1, <4>2
        <3> QED BY <3>1, <3>2
    <2>4. CASE Discover(t)
        <3>1. UNCHANGED <<servers, launched>>
            BY <2>4 DEF Discover, DiscoverExplicit, DiscoverFromEnv, ReadAddressFile,
                DiscoverFromAddressFile, DiscoverFromProcessScan,
                DiscoverFromDefaultPort, NotFound, Raise, Connect, children
        <3> QED BY <1>1, <3>1
    <2>5. CASE \/ EnterInit(t) \/ EnterShutdown(t) \/ Poll(t) \/ Probe(t)
               \/ Ready(t) \/ CheckFile(t) \/ Unlink(t) \/ Stopped(t)
        <3>1. UNCHANGED <<servers, launched>>
            BY <2>5 DEF EnterInit, EnterShutdown, Poll, Probe, Ready, CheckFile,
                Unlink, Stopped, Raise, NotFound, children
        <3> QED BY <1>1, <3>1
    <2> QED BY <1>6, <2>1, <2>2, <2>3, <2>4, <2>5 DEF Proceed, Stop
<1>7. ASSUME NEW s \in Ids, ServerProcess(s) \/ Crash(s) \/ StopDaemon(s)
      PROVE  Age /\ \A q \in Alive' \ Old : Born(q)
    <2>1. PICK x : /\ servers' = [servers EXCEPT ![s].state = x] /\ launched' = launched
                   /\ servers[s].state # "absent" /\ servers[s].state # "gone"
                   /\ Past(s) => x \notin {"absent", "validating", "starting", "serving"}
        BY <1>7 DEF ServerProcess, WriteAddressFile, Bind, End, RemoveAddressFile,
            UnlinkAddressFile, Crash, StopDaemon, SetState, Past, Serving
    <2>2. s \in Old
        BY <1>0, <2>1
    <2> QED BY <1>2, <2>1, <2>2 DEF Dead
<1>8. ASSUME NEW a \in Addresses, LaunchDaemon(a)
      PROVE  Age /\ \A q \in Alive' \ Old : Born(q)
    <2>0. PICK told \in {a, Default} :
               /\ servers' = [servers EXCEPT ![launched'] =
                     [state |-> "validating", at |-> a, told |-> told, owner |-> None,
                      keys |-> {Given}]]
               /\ launched' = launched + 1
        BY <1>8 DEF LaunchDaemon
    <2> DEFINE x == [state |-> "validating", at |-> a, told |-> told, owner |-> None,
                     keys |-> {Given}]
    <2>1. servers' = [servers EXCEPT ![launched + 1] = x] /\ launched' = launched + 1
           /\ x.owner = None
        BY <2>0
    <2> HIDE DEF x
    <2>2. launched + 1 \in Alive' => Born(launched + 1)
        <3>1. launched + 1 \in Alive' => servers'[launched + 1] = x
            BY <2>1 DEF Alive, Ids, RuntimeShape
        <3> QED BY <2>1, <3>1 DEF Born
    <2> QED BY <1>3, <2>1, <2>2
<1>9. CASE \E t \in Threads : \/ \E a \in InitArgs : BeginInit(t, a)
                              \/ BeginShutdown(t) \/ BeginExit(t) \/ Deadline(t) \/ Escape(t)
    <2>1. UNCHANGED <<servers, launched>>
        BY <1>9 DEF BeginInit, BeginShutdown, BeginExit, Deadline, Escape, children
    <2> QED BY <1>1, <2>1
<1>10. CASE \E p \in Procs : Kill(p)
    BY <1>1, <1>10 DEF Kill, children
<1> QED BY <1>6, <1>7, <1>8, <1>9, <1>10 DEF Next

(* A launch that does not raise.                                           *)
Opens(t) ==
    LET p == ProcessOf[t]
    IN  /\ thread[t].stage = "launching" /\ thread'[t].stage = "waiting"
        /\ thread'[t].task = thread[t].task /\ thread'[t].seen = thread[t].seen
        /\ \A u \in Threads \ {t} : thread'[u] = thread[u]
        /\ runtime'[p].server = launched + 1 /\ launched' = launched + 1
        /\ runtime'[p].initialized = runtime[p].initialized
        /\ \A q \in Procs \ {p} : runtime'[q] = runtime[q]
        /\ UNCHANGED <<life, atexit, lock>>

(* Launch raises or opens.                                                 *)
LEMMA Launching ==
    ASSUME RuntimeConstants, RuntimeShape, NEW t \in Threads, Launch(t)
    PROVE  (Raise(t) /\ thread[t].stage = "launching") \/ Opens(t)
<1> DEFINE p == ProcessOf[t]
<1>1. CASE Args(t).source = "none"
    BY <1>1 DEF Launch, At
<1>2. CASE Args(t).source # "none"
    <2>1. thread[t].stage = "launching" /\ launched' = launched + 1
        BY <1>2 DEF Launch, At
    <2>2. PICK k : runtime' = [runtime EXCEPT ![p].server = launched + 1, ![p].key = k]
        <3>1. CASE Args(t).source = "model"
            BY <1>2, <3>1 DEF Launch
        <3>2. CASE Args(t).source # "model"
            BY <1>2, <3>2 DEF Launch
        <3> QED BY <3>1, <3>2
    <2>3. Goto(t, "waiting") /\ UNCHANGED <<life, atexit, lock>>
        BY <1>2 DEF Launch, process
    <2>4. p \in Procs
        BY DEF RuntimeConstants
    <2>5. /\ runtime'[p].server = launched + 1 /\ runtime'[p].initialized = runtime[p].initialized
          /\ \A q \in Procs \ {p} : runtime'[q] = runtime[q]
        BY <2>2, <2>4 DEF RuntimeShape
    <2>6. /\ thread'[t].stage = "waiting" /\ thread'[t].task = thread[t].task
          /\ thread'[t].seen = thread[t].seen
          /\ \A u \in Threads \ {t} : thread'[u] = thread[u]
        BY <2>3 DEF RuntimeShape, Goto
    <2> QED BY <2>1, <2>3, <2>5, <2>6 DEF Opens
<1> QED BY <1>1, <1>2

(* The end of a call of init that launched a server.                       *)
Connects(t) ==
    LET p == ProcessOf[t]
    IN  /\ thread[t].stage = "ready" /\ thread' = [thread EXCEPT ![t] = IdleThread]
        /\ \A q \in Procs : runtime'[q].server = runtime[q].server
        /\ \A q \in Procs \ {p} : runtime'[q] = runtime[q]
        /\ runtime'[p].initialized \/ Mine(t) \in Loose'
        /\ \A q \in Procs : atexit[q] \subseteq atexit'[q]
        /\ \A q \in Procs : atexit'[q] \subseteq atexit[q] \cup {Mine(t)}
        /\ DOMAIN atexit' = Procs
        /\ Mine(t) \in atexit'[p] \cup adrift'
        /\ UNCHANGED <<life, servers, launched>>

(* Ready is that.                                                          *)
LEMMA Connecting ==
    ASSUME RuntimeConstants, RuntimeShape, NEW t \in Threads, Ready(t) PROVE Connects(t)
<1> DEFINE p == ProcessOf[t]
<1>0. p \in Procs
    BY DEF RuntimeConstants
<1>1. /\ thread[t].stage = "ready" /\ thread' = [thread EXCEPT ![t] = IdleThread]
      /\ UNCHANGED <<life, servers, launched>>
    BY DEF Ready, At, Leave
<1>4. /\ \A q \in Procs : atexit[q] \subseteq atexit'[q]
      /\ \A q \in Procs : atexit'[q] \subseteq atexit[q] \cup {Mine(t)}
      /\ DOMAIN atexit' = Procs
      /\ Mine(t) \in atexit'[p] \cup adrift'
    BY <1>0 DEF Ready, RuntimeShape
<1> DEFINE k == IF runtime[p].key = None THEN Args(t).key ELSE runtime[p].key
           c == [base |-> servers[Mine(t)].at, key |-> k]
<1>2. \/ runtime' = [runtime EXCEPT ![p].key = k, ![p].initialized = TRUE,
       ![p].mode = "embedded", ![p].client = c]
      \/ Mine(t) \in unclaimed' /\ runtime' = [runtime EXCEPT ![p].key = k]
    BY DEF Ready
<1> HIDE DEF k, c
<1>3. /\ \A q \in Procs : runtime'[q].server = runtime[q].server
      /\ \A q \in Procs \ {p} : runtime'[q] = runtime[q]
      /\ runtime'[p].initialized \/ Mine(t) \in Loose'
    BY <1>0, <1>2 DEF RuntimeShape, Loose
<1> QED BY <1>1, <1>3, <1>4 DEF Connects

(* Each part of the invariant is kept, given the ones before it.           *)
LEMMA ShapeNext ==
    ASSUME RuntimeConstants, RuntimeShape, InCalls, Next PROVE RuntimeShape'
<1> USE DEF RuntimeConstants, RuntimeShape, RuntimeStages, In, Mine, Target, Args,
        Discovering, Waiting, Terminating, Reaped, NotFound, Raise, Leave, Goto,
        StopServer, SetState, StartDiscovery, At, process, children, history,
        RunHandlers, IdleThread, Uninitialized, NoServer, Ids
<1>1. ASSUME NEW t \in Threads, NEW a \in InitArgs, BeginInit(t, a) PROVE RuntimeShape'
    BY <1>1 DEF BeginInit
<1>2. ASSUME NEW t \in Threads, BeginShutdown(t) PROVE RuntimeShape'
    BY <1>2 DEF BeginShutdown
<1>3. ASSUME NEW t \in Threads, BeginExit(t) PROVE RuntimeShape'
    BY <1>3 DEF BeginExit
<1>4. ASSUME NEW t \in Threads, Deadline(t) PROVE RuntimeShape'
    BY <1>4 DEF Deadline
<1>5. ASSUME NEW t \in Threads, EnterInit(t) PROVE RuntimeShape'
    BY <1>5 DEF EnterInit
<1>6. ASSUME NEW t \in Threads, EnterShutdown(t) PROVE RuntimeShape'
    BY <1>6 DEF EnterShutdown
<1>7. ASSUME NEW t \in Threads, Discover(t) PROVE RuntimeShape'
    BY <1>7, Searching
<1>8. ASSUME NEW t \in Threads, Launch(t) PROVE RuntimeShape'
    BY <1>8 DEF Launch
<1>9. ASSUME NEW t \in Threads, Poll(t) PROVE RuntimeShape'
    BY <1>9 DEF Poll
<1>10. ASSUME NEW t \in Threads, Probe(t) PROVE RuntimeShape'
    BY <1>10 DEF Probe
<1>11. ASSUME NEW t \in Threads, Ready(t) PROVE RuntimeShape'
    BY <1>11 DEF Ready
<1>12. ASSUME NEW t \in Threads, Signal(t) PROVE RuntimeShape'
    BY <1>12 DEF Signal
<1>13. ASSUME NEW t \in Threads, Reap(t) PROVE RuntimeShape'
    BY <1>13 DEF Reap
<1>14. ASSUME NEW t \in Threads, CheckFile(t) PROVE RuntimeShape'
    BY <1>14 DEF CheckFile
<1>15. ASSUME NEW t \in Threads, Unlink(t) PROVE RuntimeShape'
    BY <1>15 DEF Unlink
<1>16. ASSUME NEW t \in Threads, Stopped(t) PROVE RuntimeShape'
    BY <1>16 DEF Stopped
<1>17. ASSUME NEW p \in Procs, Kill(p) PROVE RuntimeShape'
    BY <1>17 DEF Kill
<1>18. ASSUME NEW s \in Ids, ServerProcess(s) \/ Crash(s) \/ StopDaemon(s)
              PROVE RuntimeShape'
    BY <1>18 DEF ServerProcess, WriteAddressFile, Bind, End, RemoveAddressFile,
        UnlinkAddressFile, Crash, StopDaemon
<1>19. ASSUME NEW a \in Addresses, LaunchDaemon(a) PROVE RuntimeShape'
    BY <1>19 DEF LaunchDaemon
<1>20. ASSUME NEW t \in Threads, Escape(t) PROVE RuntimeShape'
    BY <1>20 DEF Escape
<1> QED
    BY <1>1, <1>2, <1>3, <1>4, <1>5, <1>6, <1>7, <1>8, <1>9, <1>10, <1>11, <1>12, <1>13, <1>14,
        <1>15, <1>16, <1>17, <1>18, <1>19, <1>20 DEF Next, Proceed, Stop

LEMMA CallsNext ==
    ASSUME RuntimeConstants, RuntimeShape, InCalls, Next PROVE InCalls'
<1> USE DEF RuntimeConstants, RuntimeShape, RuntimeStages, In, Mine, Target, Args,
        Discovering, Waiting, Terminating, Reaped, NotFound, Raise, Leave, Goto,
        StopServer, SetState, StartDiscovery, At, process, children, history,
        RunHandlers, IdleThread, Uninitialized, NoServer, InCalls, OtherThreadsIdle, Runs
<1>1. ASSUME NEW t \in Threads, NEW a \in InitArgs, BeginInit(t, a) PROVE InCalls'
    BY <1>1 DEF BeginInit
<1>2. ASSUME NEW t \in Threads, BeginShutdown(t) PROVE InCalls'
    BY <1>2 DEF BeginShutdown
<1>3. ASSUME NEW t \in Threads, BeginExit(t) PROVE InCalls'
    BY <1>3 DEF BeginExit
<1>4. ASSUME NEW t \in Threads, Deadline(t) PROVE InCalls'
    BY <1>4 DEF Deadline
<1>5. ASSUME NEW t \in Threads, EnterInit(t) PROVE InCalls'
    BY <1>5 DEF EnterInit
<1>6. ASSUME NEW t \in Threads, EnterShutdown(t) PROVE InCalls'
    BY <1>6 DEF EnterShutdown
<1>7. ASSUME NEW t \in Threads, Discover(t) PROVE InCalls'
    BY <1>7, Searching DEF Searches
<1>8. ASSUME NEW t \in Threads, Launch(t) PROVE InCalls'
    BY <1>8 DEF Launch
<1>9. ASSUME NEW t \in Threads, Poll(t) PROVE InCalls'
    BY <1>9 DEF Poll
<1>10. ASSUME NEW t \in Threads, Probe(t) PROVE InCalls'
    BY <1>10 DEF Probe
<1>11. ASSUME NEW t \in Threads, Ready(t) PROVE InCalls'
    BY <1>11 DEF Ready
<1>12. ASSUME NEW t \in Threads, Signal(t) PROVE InCalls'
    BY <1>12 DEF Signal
<1>13. ASSUME NEW t \in Threads, Reap(t) PROVE InCalls'
    BY <1>13 DEF Reap
<1>14. ASSUME NEW t \in Threads, CheckFile(t) PROVE InCalls'
    BY <1>14 DEF CheckFile
<1>15. ASSUME NEW t \in Threads, Unlink(t) PROVE InCalls'
    BY <1>15 DEF Unlink
<1>16. ASSUME NEW t \in Threads, Stopped(t) PROVE InCalls'
    BY <1>16 DEF Stopped
<1>17. ASSUME NEW p \in Procs, Kill(p) PROVE InCalls'
    BY <1>17 DEF Kill
<1>18. ASSUME NEW s \in Ids, ServerProcess(s) \/ Crash(s) \/ StopDaemon(s)
              PROVE InCalls'
    BY <1>18 DEF ServerProcess, WriteAddressFile, Bind, End, RemoveAddressFile,
        UnlinkAddressFile, Crash, StopDaemon
<1>19. ASSUME NEW a \in Addresses, LaunchDaemon(a) PROVE InCalls'
    BY <1>19 DEF LaunchDaemon
<1>20. ASSUME NEW t \in Threads, Escape(t) PROVE InCalls'
    BY <1>20 DEF Escape
<1> QED
    BY <1>1, <1>2, <1>3, <1>4, <1>5, <1>6, <1>7, <1>8, <1>9, <1>10, <1>11, <1>12, <1>13, <1>14,
        <1>15, <1>16, <1>17, <1>18, <1>19, <1>20 DEF Next, Proceed, Stop

LEMMA LaunchedNext ==
    ASSUME RuntimeConstants, RuntimeShape, InCalls, Launched, Next PROVE Launched'
<1> USE DEF RuntimeConstants, RuntimeShape, RuntimeStages, In, Mine, Target, Args,
        Discovering, Waiting, Terminating, Reaped, NotFound, Raise, Leave, Goto,
        StopServer, SetState, StartDiscovery, At, process, children, history,
        RunHandlers, IdleThread, Uninitialized, NoServer, InCalls, Launched
<1>1. Old \subseteq Old' /\ None \notin Old
    BY IdsGrow DEF RuntimeConstants, Old
<1>2. \A s \in Ids \ Old' : servers'[s].state = "absent"
    BY ServersAge DEF Age
<1>3. ASSUME NEW t \in Threads, NEW a \in InitArgs, BeginInit(t, a) PROVE Launched'
    BY <1>1, <1>2, <1>3 DEF BeginInit
<1>4. ASSUME NEW t \in Threads, BeginShutdown(t) PROVE Launched'
    BY <1>1, <1>2, <1>4 DEF BeginShutdown
<1>5. ASSUME NEW t \in Threads, BeginExit(t) PROVE Launched'
    BY <1>1, <1>2, <1>5 DEF BeginExit
<1>6. ASSUME NEW t \in Threads, Deadline(t) PROVE Launched'
    BY <1>1, <1>2, <1>6 DEF Deadline
<1>7. ASSUME NEW t \in Threads, EnterInit(t) PROVE Launched'
    BY <1>1, <1>2, <1>7 DEF EnterInit
<1>8. ASSUME NEW t \in Threads, EnterShutdown(t) PROVE Launched'
    BY <1>1, <1>2, <1>8 DEF EnterShutdown
<1>9. ASSUME NEW t \in Threads, Discover(t) PROVE Launched'
    BY <1>1, <1>2, <1>9, Searching DEF Searches
<1>10. ASSUME NEW t \in Threads, Launch(t) PROVE Launched'
    <2>1. CASE Raise(t)
        BY <1>1, <1>2, <1>10, <2>1
    <2>2. CASE Opens(t)
        <3>1. launched' # launched
            BY <2>2 DEF Opens
        <3>2. runtime'[ProcessOf[t]].server \in Old'
            BY <2>2, <3>1, IdsGrow DEF Opens
        <3> QED BY <1>1, <1>2, <2>2, <3>2 DEF Opens
    <2> QED BY <1>10, <2>1, <2>2, Launching
<1>11. ASSUME NEW t \in Threads, Poll(t) PROVE Launched'
    BY <1>1, <1>2, <1>11 DEF Poll
<1>12. ASSUME NEW t \in Threads, Probe(t) PROVE Launched'
    BY <1>1, <1>2, <1>12 DEF Probe
<1>13. ASSUME NEW t \in Threads, Ready(t) PROVE Launched'
    BY <1>1, <1>2, <1>13, Connecting DEF Connects
<1>14. ASSUME NEW t \in Threads, Signal(t) PROVE Launched'
    BY <1>1, <1>2, <1>14 DEF Signal
<1>15. ASSUME NEW t \in Threads, Reap(t) PROVE Launched'
    BY <1>1, <1>2, <1>15 DEF Reap
<1>16. ASSUME NEW t \in Threads, CheckFile(t) PROVE Launched'
    BY <1>1, <1>2, <1>16 DEF CheckFile
<1>17. ASSUME NEW t \in Threads, Unlink(t) PROVE Launched'
    BY <1>1, <1>2, <1>17 DEF Unlink
<1>18. ASSUME NEW t \in Threads, Stopped(t) PROVE Launched'
    BY <1>1, <1>2, <1>18 DEF Stopped
<1>19. ASSUME NEW p \in Procs, Kill(p) PROVE Launched'
    BY <1>1, <1>2, <1>19 DEF Kill
<1>20. ASSUME NEW s \in Ids, ServerProcess(s) \/ Crash(s) \/ StopDaemon(s)
              PROVE Launched'
    BY <1>1, <1>2, <1>20 DEF ServerProcess, WriteAddressFile, Bind, End,
        RemoveAddressFile, UnlinkAddressFile, Crash, StopDaemon
<1>21. ASSUME NEW a \in Addresses, LaunchDaemon(a) PROVE Launched'
    BY <1>1, <1>2, <1>21 DEF LaunchDaemon
<1>22. ASSUME NEW t \in Threads, Escape(t) PROVE Launched'
    BY <1>1, <1>2, <1>22 DEF Escape
<1> QED
    BY <1>3, <1>4, <1>5, <1>6, <1>7, <1>8, <1>9, <1>10, <1>11, <1>12, <1>13, <1>14, <1>15, <1>16,
        <1>17, <1>18, <1>19, <1>20, <1>21, <1>22 DEF Next, Proceed, Stop

LEMMA LookedNext ==
    ASSUME RuntimeConstants, RuntimeShape, InCalls, Launched, Looked, Next PROVE Looked'
<1> USE DEF RuntimeConstants, RuntimeShape, RuntimeStages, In, Mine, Target, Args,
        Discovering, Waiting, Terminating, Reaped, NotFound, Raise, Leave, Goto,
        StopServer, SetState, StartDiscovery, At, process, children, history,
        RunHandlers, IdleThread, Uninitialized, NoServer
<1>1. Old \subseteq Old'
    BY IdsGrow
<1>2. \A s \in Ids \cap Old :
          /\ Past(s) => Past(s)' /\ (s \in Serving' => s \in Serving)
          /\ servers'[s].at = servers[s].at /\ servers'[s].told = servers[s].told
    BY ServersAge DEF Age
<1>3. \A s \in Serving : s \in Ids \cap Old /\ Past(s)
    BY DEF Launched, Serving, Past
<1>4. ASSUME \A t \in Threads :
                 \/ /\ thread'[t].seen = thread[t].seen
                    /\ \/ thread'[t].stage \notin {"default", "launching"}
                       \/ thread[t].stage \in {"default", "launching"}
                       \/ \A s \in Ids : Hidden(s)
                 \/ thread'[t].seen = {}
                 \/ thread'[t].seen = Serving
                  /\ thread'[t].stage \notin {"default", "launching"}
      PROVE  Looked'
    <2> SUFFICES ASSUME NEW t \in Threads
                 PROVE  /\ \A s \in thread'[t].seen : s \in Ids \cap Old' /\ Past(s)'
                        /\ thread'[t].stage \in {"default", "launching"}
                         => \A s \in thread'[t].seen : Hidden(s)'
        BY DEF Looked
    <2>1. \A s \in thread[t].seen : s \in Ids \cap Old /\ Past(s)
        BY DEF Looked
    <2>2. thread[t].stage \in {"default", "launching"} => \A s \in thread[t].seen : Hidden(s)
        BY DEF Looked
    <2>3. \A s \in Ids \cap Old : Past(s) /\ Hidden(s) => Hidden(s)'
        BY <1>2 DEF Hidden
    <2> QED BY <1>1, <1>2, <1>3, <1>4, <2>1, <2>2, <2>3
<1>5. ASSUME NEW t \in Threads, NEW a \in InitArgs, BeginInit(t, a) PROVE Looked'
    BY <1>4, <1>5 DEF BeginInit
<1>6. ASSUME NEW t \in Threads, BeginShutdown(t) PROVE Looked'
    BY <1>4, <1>6 DEF BeginShutdown
<1>7. ASSUME NEW t \in Threads, BeginExit(t) PROVE Looked'
    BY <1>4, <1>7 DEF BeginExit
<1>8. ASSUME NEW t \in Threads, Deadline(t) PROVE Looked'
    BY <1>4, <1>8 DEF Deadline
<1>9. ASSUME NEW t \in Threads, EnterInit(t) PROVE Looked'
    BY <1>4, <1>9 DEF EnterInit
<1>10. ASSUME NEW t \in Threads, EnterShutdown(t) PROVE Looked'
    BY <1>4, <1>10 DEF EnterShutdown
<1>11. ASSUME NEW t \in Threads, Discover(t) PROVE Looked'
    BY <1>4, <1>11, Searching DEF Searches
<1>12. ASSUME NEW t \in Threads, Launch(t) PROVE Looked'
    BY <1>4, <1>12, Launching DEF Opens
<1>13. ASSUME NEW t \in Threads, Poll(t) PROVE Looked'
    BY <1>4, <1>13 DEF Poll
<1>14. ASSUME NEW t \in Threads, Probe(t) PROVE Looked'
    BY <1>4, <1>14 DEF Probe
<1>15. ASSUME NEW t \in Threads, Ready(t) PROVE Looked'
    <2>1. thread'[t].seen = {} /\ \A u \in Threads \ {t} : thread'[u] = thread[u]
        BY <1>15, Connecting DEF Connects
    <2> QED BY <1>4, <2>1
<1>16. ASSUME NEW t \in Threads, Signal(t) PROVE Looked'
    BY <1>4, <1>16 DEF Signal
<1>17. ASSUME NEW t \in Threads, Reap(t) PROVE Looked'
    BY <1>4, <1>17 DEF Reap
<1>18. ASSUME NEW t \in Threads, CheckFile(t) PROVE Looked'
    BY <1>4, <1>18 DEF CheckFile
<1>19. ASSUME NEW t \in Threads, Unlink(t) PROVE Looked'
    BY <1>4, <1>19 DEF Unlink
<1>20. ASSUME NEW t \in Threads, Stopped(t) PROVE Looked'
    BY <1>4, <1>20 DEF Stopped
<1>21. ASSUME NEW p \in Procs, Kill(p) PROVE Looked'
    BY <1>4, <1>21 DEF Kill
<1>22. ASSUME NEW s \in Ids, ServerProcess(s) \/ Crash(s) \/ StopDaemon(s)
              PROVE Looked'
    BY <1>4, <1>22 DEF ServerProcess, WriteAddressFile, Bind, End,
        RemoveAddressFile, UnlinkAddressFile, Crash, StopDaemon
<1>23. ASSUME NEW a \in Addresses, LaunchDaemon(a) PROVE Looked'
    BY <1>4, <1>23 DEF LaunchDaemon
<1>24. ASSUME NEW t \in Threads, Escape(t) PROVE Looked'
    BY <1>4, <1>24 DEF Escape
<1> QED
    BY <1>5, <1>6, <1>7, <1>8, <1>9, <1>10, <1>11, <1>12, <1>13, <1>14, <1>15, <1>16, <1>17,
        <1>18, <1>19, <1>20, <1>21, <1>22, <1>23, <1>24 DEF Next, Proceed, Stop

(* No two threads of a process are in calls of init and shutdown.          *)
LEMMA AloneInIt ==
    ASSUME RuntimeConstants, InCalls,
           NEW t \in Threads, In(t), thread[t].task # "exit",
           NEW u \in Threads \ {t}, ProcessOf[u] = ProcessOf[t], thread[u].task # "exit"
    PROVE  ~In(u)
BY DEF InCalls, In, RuntimeConstants

(* Handlers run for what is registered: of the children that live, all are *)
(* still registered, in the hands of a daemon, or lost.                    *)
LEMMA Handled ==
    ASSUME RuntimeConstants, RuntimeShape, InCalls, NEW t \in Threads \ Daemons,
           RunHandlers(t, ProcessOf[t], atexit'[ProcessOf[t]]),
           life[ProcessOf[t]] \in {"running", "exiting"}, OtherThreadsIdle(ProcessOf[t], t),
           UNCHANGED <<runtime, servers>>, \A s \in Ids : ~Minding(t, s),
           adrift \subseteq adrift', \A q \in Procs, s \in Alive : s \in atexit[q] => s \in atexit'[q]
    PROVE  /\ \A u \in Threads : thread'[u].stage \in Reaped => thread'[u] = thread[u]
           /\ \A q \in Procs, s \in Alive : Kept(q, s) => Kept(q, s)'
<1> DEFINE p == ProcessOf[t]
<1>0. /\ p \in Procs /\ DOMAIN life = Procs /\ DOMAIN thread = Threads
      /\ DOMAIN thread[t] = {"stage", "task", "args", "found", "target", "seen"}
    BY DEF RuntimeConstants, RuntimeShape
<1>1. CASE atexit'[p] = {}
    <2>1. /\ life' = [life EXCEPT ![p] = "gone"]
          /\ \A u \in Threads : thread'[u] = IF ProcessOf[u] = p THEN IdleThread ELSE thread[u]
          /\ \A s \in Ids, u \in Daemons : ProcessOf[u] = p /\ Minding(u, s) => s \in adrift'
        BY <1>1 DEF RunHandlers
    <2>2. \A u \in Threads, s \in Ids : ProcessOf[u] # p /\ Minding(u, s) => Minding(u, s)'
        BY <2>1 DEF Minding, Mine, Target
    <2>3. \A u \in Threads, s \in Ids : ProcessOf[u] = p /\ Minding(u, s) => s \in adrift'
        BY <2>1 DEF OtherThreadsIdle, Minding
    <2>4. ASSUME NEW q \in Procs, NEW s \in Alive, Kept(q, s) PROVE Kept(q, s)'
        <3>1. CASE q = p
            BY <1>1, <2>3, <2>4, <3>1 DEF Kept, MindedIn, Alive
        <3>2. CASE q # p
            BY <1>0, <2>1, <2>2, <2>4, <3>2 DEF Kept, MindedIn, Alive
        <3> QED BY <3>1, <3>2
    <2> QED BY <2>1, <2>4 DEF IdleThread, Reaped
<1>2. CASE atexit'[p] # {}
    <2>1. /\ life' = [life EXCEPT ![p] = "exiting"]
          /\ thread'[t].stage = "signalling"
          /\ \A u \in Threads \ {t} : thread'[u] = thread[u]
        BY <1>0, <1>2 DEF RunHandlers
    <2>2. \A u \in Threads, s \in Ids : Minding(u, s) => Minding(u, s)'
        BY <2>1 DEF Minding, Mine, Target
    <2>3. \A q \in Procs, s \in Alive : Kept(q, s) => Kept(q, s)'
        BY <1>0, <2>1, <2>2 DEF Kept, MindedIn, Alive
    <2> QED BY <2>1, <2>3 DEF Reaped
<1> QED BY <1>1, <1>2

LEMMA MindedNext ==
    ASSUME RuntimeConstants, RuntimeShape, InCalls, Launched, Minded, Next PROVE Minded'
<1> USE DEF RuntimeConstants, RuntimeShape, RuntimeStages, In, Mine, Target, Args,
        Discovering, Waiting, Terminating, Reaped, NotFound, Raise, Leave, Goto,
        StopServer, SetState, StartDiscovery, At, process, children, history,
        RunHandlers, IdleThread, Uninitialized, NoServer, InCalls, Minding
<1>0. adrift \subseteq adrift'
    BY LooseStays
<1>1. Old \subseteq Old'
    BY IdsGrow
<1>2. \A s \in Alive' \cap Old : s \in Alive /\ servers'[s].owner = servers[s].owner
    BY ServersAge DEF Age, Alive
<1>3. Alive' \subseteq Old' /\ Alive \subseteq Old /\ (launched' = launched
       => Alive' \subseteq Old)
    BY ServersAge DEF Launched, Age, Alive, Dead, Old
<1>4. \A t \in Threads : thread'[t] = thread[t] /\ thread[t].stage \in Reaped
       => Target(t)' \notin Alive'
    BY <1>2 DEF Minded, Launched, Target
<1>5. ASSUME \A t \in Threads : thread'[t].stage \in Reaped => Target(t)' \notin Alive',
             \A p \in Procs, s \in Alive' \cap Alive : servers[s].owner = p
              /\ Kept(p, s) => Kept(p, s)',
             \A p \in Procs, s \in Alive' \ Old : servers'[s].owner = p => Kept(p, s)'
      PROVE  Minded'
    BY <1>2, <1>3, <1>5, ShapeNext DEF Minded, RuntimeShape, Alive
<1>6. ASSUME \A t \in Threads : thread'[t].stage \in Reaped => Target(t)' \notin Alive',
             launched' = launched, life' = life, atexit' = atexit,
             \A t \in Threads, s \in Alive' : Minding(t, s) => Minding(t, s)'
      PROVE  Minded'
    BY <1>0, <1>3, <1>5, <1>6 DEF Kept, MindedIn
<1>7. ASSUME NEW t \in Threads, In(t), launched' = launched, life' = life, atexit' = atexit,
             \A u \in Threads \ {t} : thread'[u] = thread[u],
             \A q \in Procs : runtime'[q].server = runtime[q].server,
             thread'[t].stage \in Reaped => Target(t)' \notin Alive',
             \A s \in Alive' : Minding(t, s) => Minding(t, s)'
      PROVE  Minded'
    <2>1. ASSUME NEW u \in Threads \ {t}, NEW s, Minding(u, s) PROVE Minding(u, s)'
        BY <1>7, <2>1
    <2> QED BY <1>4, <1>6, <1>7, <2>1
<1>8. ASSUME NEW t \in Threads, NEW a \in InitArgs, BeginInit(t, a) PROVE Minded'
    BY <1>4, <1>6, <1>8 DEF BeginInit
<1>9. ASSUME NEW t \in Threads, BeginShutdown(t) PROVE Minded'
    BY <1>4, <1>6, <1>9 DEF BeginShutdown
<1>10. ASSUME NEW t \in Threads, BeginExit(t) PROVE Minded'
    <2> DEFINE p == ProcessOf[t]
    <2>1. /\ life[p] = "running" /\ UNCHANGED <<runtime, atexit, servers, launched>>
          /\ t \notin Daemons /\ RunHandlers(t, p, atexit[p]) /\ OtherThreadsIdle(p, t)
          /\ \A s \in Ids : ~Minding(t, s)
        BY <1>10 DEF BeginExit, OtherThreadsIdle
    <2> HIDE DEF RunHandlers
    <2>2. /\ \A u \in Threads : thread'[u].stage \in Reaped => thread'[u] = thread[u]
          /\ \A q \in Procs, s \in Alive : servers[s].owner = q /\ Kept(q, s) => Kept(q, s)'
        <3>1. t \in Threads \ Daemons /\ \A q \in Procs, s \in Alive : s \in atexit[q] => s \in atexit'[q]
            BY <2>1
        <3> QED BY <1>0, <2>1, <3>1, Handled DEF Alive
    <2> QED BY <1>3, <1>4, <1>5, <2>1, <2>2
<1>11. ASSUME NEW t \in Threads, Deadline(t) PROVE Minded'
    BY <1>4, <1>6, <1>11 DEF Deadline
<1>12. ASSUME NEW t \in Threads, EnterInit(t) PROVE Minded'
    BY <1>4, <1>6, <1>12 DEF EnterInit
<1>13. ASSUME NEW t \in Threads, EnterShutdown(t) PROVE Minded'
    BY <1>4, <1>6, <1>13 DEF EnterShutdown
<1>14. ASSUME NEW t \in Threads, Discover(t) PROVE Minded'
    <2>1. Searches(t) /\ In(t)
        BY <1>14, Searching DEF Searches
    <2>2. \A s \in Alive' : ~Minding(t, s)
        BY <2>1 DEF Searches
    <2>3. thread'[t].stage \notin Reaped
        BY <2>1 DEF Searches
    <2> QED BY <1>7, <2>1, <2>2, <2>3 DEF Searches
<1>15. ASSUME NEW t \in Threads, Launch(t) PROVE Minded'
    <2> DEFINE p == ProcessOf[t]
    <2>0. p \in Procs
        OBVIOUS
    <2>1. CASE Raise(t) /\ thread[t].stage = "launching"
        <3>1. In(t) /\ thread'[t].stage \notin Reaped /\ \A s \in Alive' : ~Minding(t, s)
            BY <2>1
        <3> QED BY <1>7, <2>1, <3>1
    <2>2. CASE Opens(t)
        <3>1. \A u \in Threads : thread'[u].stage \in Reaped => Target(u)' \notin Alive'
            BY <1>4, <2>2 DEF Opens
        <3>2. \A u \in Threads, s \in Ids : Minding(u, s) => Minding(u, s)'
            BY <2>2, AloneInIt DEF Opens
        <3>3. thread[t].task = "init" /\ life[p] \in {"running", "exiting"}
            BY <2>2 DEF Opens, Runs
        <3>4. \A s \in Ids : s = launched + 1 => Minding(t, s)'
            BY <2>2, <3>3 DEF Opens
        <3>5. \A q \in Procs, s \in Alive' \cap Alive : servers[s].owner = q
               /\ Kept(q, s) => Kept(q, s)'
            BY <1>0, <2>2, <3>2 DEF Opens, Kept, MindedIn, Alive
        <3>6. \A q \in Procs, s \in Alive' \ Old : servers'[s].owner = q => Kept(q, s)'
            <4> SUFFICES ASSUME NEW q \in Procs, NEW s \in Alive' \ Old,
                         servers'[s].owner = q PROVE Kept(q, s)'
                OBVIOUS
            <4>1. PICK u \in Threads : Launch(u) /\ s = launched + 1 /\ q = ProcessOf[u]
                BY ServersAge DEF Born
            <4>2. Opens(u)
                <5>1. CASE Raise(u)
                    BY <2>2, <5>1 DEF Opens
                <5> QED BY <4>1, <5>1, Launching
            <4>3. Minding(u, s)' /\ life[q] \in {"running", "exiting"}
                BY <4>1, <4>2 DEF Opens, Alive, Runs
            <4> QED BY <2>2, <4>1, <4>3 DEF Opens, Kept, MindedIn
        <3> QED BY <1>5, <3>1, <3>5, <3>6
    <2> QED BY <1>15, <2>1, <2>2, Launching
<1>16. ASSUME NEW t \in Threads, Poll(t) PROVE Minded'
    <2>1. In(t) /\ UNCHANGED <<runtime, servers, launched, life, atexit>>
           /\ (\A u \in Threads \ {t} : thread'[u] = thread[u])
        BY <1>16 DEF Poll
    <2>2. thread'[t].stage \notin Reaped
        BY <1>16 DEF Poll
    <2>3. CASE servers[Mine(t)].state = "gone"
        <3>1. \A s \in Alive' : ~Minding(t, s)
            BY <1>16, <2>1, <2>3 DEF Poll, Alive, Dead
        <3> QED BY <1>7, <2>1, <2>2, <3>1
    <2>4. CASE servers[Mine(t)].state # "gone"
        <3>1. \A s \in Alive' : Minding(t, s) => Minding(t, s)'
            BY <1>16, <2>1, <2>4 DEF Poll
        <3> QED BY <1>7, <2>1, <2>2, <3>1
    <2> QED BY <2>3, <2>4
<1>17. ASSUME NEW t \in Threads, Probe(t) PROVE Minded'
    BY <1>4, <1>6, <1>17 DEF Probe
<1>18. ASSUME NEW t \in Threads, Ready(t) PROVE Minded'
    <2> DEFINE p == ProcessOf[t]
    <2>0. Connects(t) /\ p \in Procs
        BY <1>18, Connecting
    <2>1. \A u \in Threads \ {t} : thread'[u] = thread[u]
        BY <2>0 DEF Connects
    <2>2. \A u \in Threads \ {t}, s \in Ids : Minding(u, s) => Minding(u, s)'
        BY <2>0, <2>1 DEF Connects
    <2>3. \A s \in Ids : Minding(t, s) => s \in atexit'[p] \cup adrift'
        BY <2>0 DEF Connects
    <2>4. \A q \in Procs : atexit[q] \subseteq atexit'[q]
        BY <2>0 DEF Connects
    <2>5. \A q \in Procs, s \in Alive' \cap Alive : servers[s].owner = q /\ Kept(q, s)
           => Kept(q, s)'
        BY <1>0, <2>0, <2>2, <2>3, <2>4 DEF Connects, Kept, MindedIn, Alive
    <2>6. \A u \in Threads : thread'[u].stage \in Reaped => Target(u)' \notin Alive'
        BY <1>4, <2>0, <2>1 DEF Connects
    <2>7. launched' = launched
        BY <2>0 DEF Connects
    <2> QED BY <1>3, <1>5, <2>5, <2>6, <2>7
<1>19. ASSUME NEW t \in Threads, Signal(t) PROVE Minded'
    BY <1>4, <1>6, <1>19 DEF Signal
<1>20. ASSUME NEW t \in Threads, Reap(t) PROVE Minded'
    <2>1. Target(t) \notin Alive'
        BY <1>20 DEF Reap, Alive, Dead
    <2>2. /\ In(t) /\ UNCHANGED <<runtime, launched, life, atexit>>
          /\ (\A u \in Threads \ {t} : thread'[u] = thread[u])
        BY <1>20 DEF Reap
    <2>3. \A s \in Alive' : ~Minding(t, s)
        BY <1>20, <2>1 DEF Reap
    <2>4. thread'[t].stage \in Reaped => Target(t)' \notin Alive'
        BY <1>20, <2>1 DEF Reap
    <2> QED BY <1>7, <2>2, <2>3, <2>4
<1>21. ASSUME NEW t \in Threads, CheckFile(t) PROVE Minded'
    <2>1. In(t) /\ UNCHANGED <<runtime, servers, launched, life, atexit>>
           /\ (\A u \in Threads \ {t} : thread'[u] = thread[u])
        BY <1>21 DEF CheckFile
    <2>2. thread[t].stage \in Reaped /\ Target(t)' = Target(t)
           /\ \A s \in Ids : ~Minding(t, s)
        BY <1>21 DEF CheckFile
    <2>3. Target(t)' \notin Alive' /\ Alive' = Alive
        BY <2>1, <2>2 DEF Alive, Minded
    <2> QED BY <1>7, <2>1, <2>2, <2>3 DEF Alive
<1>22. ASSUME NEW t \in Threads, Unlink(t) PROVE Minded'
    <2>1. In(t) /\ UNCHANGED <<runtime, servers, launched, life, atexit>>
           /\ (\A u \in Threads \ {t} : thread'[u] = thread[u])
        BY <1>22 DEF Unlink
    <2>2. thread[t].stage \in Reaped /\ Target(t)' = Target(t)
           /\ \A s \in Ids : ~Minding(t, s)
        BY <1>22 DEF Unlink
    <2>3. Target(t)' \notin Alive' /\ Alive' = Alive
        BY <2>1, <2>2 DEF Alive, Minded
    <2> QED BY <1>7, <2>1, <2>2, <2>3 DEF Alive
<1>23. ASSUME NEW t \in Threads, Stopped(t) PROVE Minded'
    <2> DEFINE p == ProcessOf[t]
    <2>0. p \in Procs /\ DOMAIN life = Procs /\ DOMAIN atexit = Procs
        OBVIOUS
    <2> HIDE DEF RunHandlers
    <2>1. /\ thread[t].stage = "stopped" /\ UNCHANGED <<servers, launched>>
          /\ atexit' = [atexit EXCEPT ![p] = @ \ {Target(t)}]
          /\ \A s \in Ids : ~Minding(t, s)
        BY <1>23 DEF Stopped
    <2>2. Target(t) \notin Alive /\ Alive' = Alive
        BY <2>1 DEF Minded, Alive
    <2>3. \A q \in Procs, s \in Alive : s \in atexit[q] => s \in atexit'[q]
        BY <2>0, <2>1, <2>2
    <2>4. CASE thread[t].task = "shutdown"
        <3>1. /\ thread' = [thread EXCEPT ![t] = IdleThread] /\ life' = life
              /\ \A q \in Procs \ {p} : runtime'[q] = runtime[q]
            BY <1>23, <2>4 DEF Stopped
        <3>2. \A u \in Threads, s \in Ids : Minding(u, s) => Minding(u, s)'
            BY <2>1, <2>4, <3>1, AloneInIt
        <3>3. \A q \in Procs, s \in Alive : Kept(q, s) => Kept(q, s)'
            BY <1>0, <2>3, <3>1, <3>2 DEF Kept, MindedIn, Alive
        <3>4. \A u \in Threads : thread'[u].stage \in Reaped => Target(u)' \notin Alive'
            BY <1>4, <3>1
        <3> QED BY <1>3, <1>5, <2>1, <3>3, <3>4
    <2>5. CASE thread[t].task # "shutdown"
        <3>1. /\ life[p] = "exiting" /\ t \notin Daemons /\ OtherThreadsIdle(p, t)
              /\ RunHandlers(t, p, atexit'[p]) /\ runtime' = runtime
              /\ \A q \in Procs \ {p} : atexit'[q] = atexit[q]
            BY <1>23, <2>0, <2>1, <2>5 DEF Stopped
        <3>2. /\ \A u \in Threads : thread'[u].stage \in Reaped => thread'[u] = thread[u]
              /\ \A q \in Procs, s \in Alive : servers[s].owner = q /\ Kept(q, s) => Kept(q, s)'
            BY <1>0, <2>1, <2>3, <3>1, Handled DEF Alive
        <3> QED BY <1>3, <1>4, <1>5, <2>1, <3>2
    <2> QED BY <2>4, <2>5
<1>24. ASSUME NEW p \in Procs, Kill(p) PROVE Minded'
    <2>1. /\ life' = [life EXCEPT ![p] = "killed"]
          /\ UNCHANGED <<runtime, atexit, servers, launched>>
          /\ \A u \in Threads :
                 thread'[u] = IF ProcessOf[u] = p THEN IdleThread ELSE thread[u]
        BY <1>24 DEF Kill
    <2>2. \A u \in Threads, s \in Ids : ProcessOf[u] # p /\ Minding(u, s) => Minding(u, s)'
        BY <2>1
    <2>3. \A q \in Procs, s \in Alive' \cap Alive : servers[s].owner = q /\ Kept(q, s)
           => Kept(q, s)'
        BY <1>0, <2>1, <2>2 DEF Kept, MindedIn, Alive
    <2>4. \A u \in Threads : thread'[u].stage \in Reaped => Target(u)' \notin Alive'
        BY <1>4, <2>1
    <2> QED BY <1>3, <1>5, <2>1, <2>3, <2>4
<1>25. ASSUME NEW s \in Ids, ServerProcess(s) \/ Crash(s) \/ StopDaemon(s)
              PROVE Minded'
    BY <1>4, <1>6, <1>25 DEF ServerProcess, WriteAddressFile, Bind, End,
        RemoveAddressFile, UnlinkAddressFile, Crash, StopDaemon
<1>26. ASSUME NEW a \in Addresses, LaunchDaemon(a) PROVE Minded'
    <2>1. UNCHANGED <<runtime, life, atexit, thread>>
        BY <1>26 DEF LaunchDaemon
    <2>2. \A s \in Alive' \ Old : servers'[s].owner \notin Procs
        <3> SUFFICES ASSUME NEW s \in Alive' \ Old, servers'[s].owner \in Procs PROVE FALSE
            OBVIOUS
        <3>1. PICK u \in Threads : Launch(u)
            BY ServersAge DEF Born
        <3>2. calls' = calls + 1 /\ launched' = launched + 1
            BY <1>26 DEF LaunchDaemon
        <3> QED BY <2>1, <3>1, <3>2, Launching DEF Opens
    <2>3. \A q \in Procs, s \in Alive' \cap Alive : servers[s].owner = q /\ Kept(q, s)
           => Kept(q, s)'
        BY <1>0, <2>1 DEF Kept, MindedIn
    <2>4. \A u \in Threads : thread'[u].stage \in Reaped => Target(u)' \notin Alive'
        BY <1>4, <2>1
    <2> QED BY <1>5, <2>2, <2>3, <2>4
<1>27. ASSUME NEW t \in Threads, Escape(t) PROVE Minded'
    <2> DEFINE p == ProcessOf[t]
    <2>1. /\ In(t) /\ UNCHANGED <<runtime, servers, launched, life, atexit>>
          /\ \A u \in Threads \ {t} : thread'[u] = thread[u]
          /\ thread'[t].stage \notin Reaped
        BY <1>27 DEF Escape
    <2>2. \A s \in Ids : Minding(t, s) => s \in adrift'
        BY <1>27 DEF Escape
    <2>3. \A u \in Threads \ {t}, s \in Ids : Minding(u, s) => Minding(u, s)'
        BY <2>1
    <2>4. \A q \in Procs, s \in Alive : Kept(q, s) => Kept(q, s)'
        BY <1>0, <2>1, <2>2, <2>3 DEF Kept, MindedIn, Alive
    <2>5. \A u \in Threads : thread'[u].stage \in Reaped => Target(u)' \notin Alive'
        BY <1>4, <2>1
    <2> QED BY <1>3, <1>5, <2>1, <2>4, <2>5
<1> QED
    BY <1>8, <1>9, <1>10, <1>11, <1>12, <1>13, <1>14, <1>15, <1>16, <1>17, <1>18, <1>19, <1>20,
        <1>21, <1>22, <1>23, <1>24, <1>25, <1>26, <1>27 DEF Next, Proceed, Stop

LEMMA UnderWayNext ==
    ASSUME RuntimeConstants, RuntimeShape, InCalls, UnderWay, Next PROVE UnderWay'
<1> USE DEF RuntimeConstants, RuntimeShape, RuntimeStages, In, Mine, Target, Args,
        Discovering, Waiting, Terminating, Reaped, NotFound, Raise, Leave, Goto,
        StopServer, SetState, StartDiscovery, At, process, children, history,
        RunHandlers, IdleThread, Uninitialized, NoServer, InCalls, UnderWay
<1>1. ASSUME NEW t \in Threads, NEW a \in InitArgs, BeginInit(t, a) PROVE UnderWay'
    BY <1>1 DEF BeginInit
<1>2. ASSUME NEW t \in Threads, BeginShutdown(t) PROVE UnderWay'
    BY <1>2 DEF BeginShutdown
<1>3. ASSUME NEW t \in Threads, BeginExit(t) PROVE UnderWay'
    BY <1>3 DEF BeginExit
<1>4. ASSUME NEW t \in Threads, Deadline(t) PROVE UnderWay'
    BY <1>4 DEF Deadline
<1>5. ASSUME NEW t \in Threads, EnterInit(t) PROVE UnderWay'
    BY <1>5 DEF EnterInit
<1>6. ASSUME NEW t \in Threads, EnterShutdown(t) PROVE UnderWay'
    BY <1>6 DEF EnterShutdown
<1>7. ASSUME NEW t \in Threads, Discover(t) PROVE UnderWay'
    <2>1. Searches(t) /\ In(t) /\ \A u \in Threads \ {t} : In(u) /\ thread[u].task # "exit" => ProcessOf[u] # ProcessOf[t]
        BY <1>7, Searching, AloneInIt DEF Searches
    <2> QED BY <2>1 DEF Searches
<1>8. ASSUME NEW t \in Threads, Launch(t) PROVE UnderWay'
    <2>1. CASE Raise(t)
        BY <1>8, <2>1
    <2>2. CASE Opens(t)
        <3>1. \A u \in Threads \ {t} : In(u) /\ thread[u].task # "exit" => ProcessOf[u] # ProcessOf[t]
            BY <2>2, AloneInIt DEF Opens
        <3> QED BY <2>2, <3>1 DEF Opens
    <2> QED BY <1>8, <2>1, <2>2, Launching
<1>9. ASSUME NEW t \in Threads, Poll(t) PROVE UnderWay'
    BY <1>9 DEF Poll
<1>10. ASSUME NEW t \in Threads, Probe(t) PROVE UnderWay'
    BY <1>10 DEF Probe
<1>11. ASSUME NEW t \in Threads, Ready(t) PROVE UnderWay'
    <2>1. Connects(t) /\ In(t) /\ \A u \in Threads \ {t} : In(u) /\ thread[u].task # "exit" => ProcessOf[u] # ProcessOf[t]
        BY <1>11, Connecting, AloneInIt DEF Connects
    <2> QED BY <2>1 DEF Connects
<1>12. ASSUME NEW t \in Threads, Signal(t) PROVE UnderWay'
    BY <1>12 DEF Signal
<1>13. ASSUME NEW t \in Threads, Reap(t) PROVE UnderWay'
    BY <1>13 DEF Reap
<1>14. ASSUME NEW t \in Threads, CheckFile(t) PROVE UnderWay'
    BY <1>14 DEF CheckFile
<1>15. ASSUME NEW t \in Threads, Unlink(t) PROVE UnderWay'
    BY <1>15 DEF Unlink
<1>16. ASSUME NEW t \in Threads, Stopped(t) PROVE UnderWay'
    <2>1. CASE thread[t].task = "shutdown"
        <3>1. In(t) /\ thread' = [thread EXCEPT ![t] = IdleThread]
               /\ \A q \in Procs \ {ProcessOf[t]} : runtime'[q] = runtime[q]
            BY <1>16, <2>1 DEF Stopped
        <3>2. \A u \in Threads \ {t} :
                  In(u) /\ thread[u].task # "exit" => ProcessOf[u] # ProcessOf[t]
            BY <2>1, <3>1, AloneInIt
        <3> QED BY <3>1, <3>2
    <2>2. CASE thread[t].task # "shutdown"
        <3>1. thread[t].task = "exit" /\ runtime' = runtime
            BY <1>16, <2>2 DEF Stopped
        <3>2. \A u \in Threads : thread'[u] = thread[u] \/ thread'[u].stage = "idle"
                                 \/ thread'[u].task = "exit"
            <4>1. CASE atexit'[ProcessOf[t]] = {}
                BY <1>16, <2>2, <4>1 DEF Stopped
            <4>2. CASE atexit'[ProcessOf[t]] # {}
                <5>1. PICK x : thread' = [thread EXCEPT ![t].stage = "signalling",
                                                       ![t].task = "exit", ![t].target = x]
                    BY <1>16, <2>2, <4>2 DEF Stopped
                <5> QED BY <5>1
            <4> QED BY <4>1, <4>2
        <3> QED BY <3>1, <3>2
    <2> QED BY <2>1, <2>2
<1>17. ASSUME NEW p \in Procs, Kill(p) PROVE UnderWay'
    BY <1>17 DEF Kill
<1>18. ASSUME NEW s \in Ids, ServerProcess(s) \/ Crash(s) \/ StopDaemon(s)
              PROVE UnderWay'
    BY <1>18 DEF ServerProcess, WriteAddressFile, Bind, End, RemoveAddressFile,
        UnlinkAddressFile, Crash, StopDaemon
<1>19. ASSUME NEW a \in Addresses, LaunchDaemon(a) PROVE UnderWay'
    BY <1>19 DEF LaunchDaemon
<1>20. ASSUME NEW t \in Threads, Escape(t) PROVE UnderWay'
    <2>1. In(t) /\ thread[t].task # "exit" /\ thread' = [thread EXCEPT ![t] = IdleThread]
           /\ UNCHANGED runtime
        BY <1>20 DEF Escape
    <2> QED BY <2>1
<1> QED
    BY <1>1, <1>2, <1>3, <1>4, <1>5, <1>6, <1>7, <1>8, <1>9, <1>10, <1>11, <1>12, <1>13, <1>14,
        <1>15, <1>16, <1>17, <1>18, <1>19, <1>20 DEF Next, Proceed, Stop

LEMMA OneChildNext ==
    ASSUME RuntimeConstants, RuntimeShape, InCalls, Launched, Minded,
           UnderWay, OneChild, Next PROVE OneChild'
<1> USE DEF RuntimeConstants, RuntimeShape, RuntimeStages, In, Mine, Target, Args,
        Discovering, Waiting, Terminating, Reaped, NotFound, Raise, Leave, Goto,
        StopServer, SetState, StartDiscovery, At, process, children, history,
        RunHandlers, IdleThread, Uninitialized, NoServer, InCalls, Minding
<1>0. Loose \subseteq Loose'
    BY LooseStays
<1>1. \A s \in Alive' \cap Old : s \in Alive /\ servers'[s].owner = servers[s].owner
    BY ServersAge DEF Age, Alive
<1>2. Alive' \subseteq Old' /\ Alive \subseteq Old /\ (launched' = launched
       => Alive' \subseteq Old)
    BY ServersAge DEF Launched, Age, Alive, Dead, Old
<1>3. ASSUME \A p \in Procs, s \in (Alive' \cap Alive) \ Loose' : servers[s].owner = p
             /\ Only(p, s) => Only(p, s)',
             \A p \in Procs, s \in Alive' \ Old : servers'[s].owner = p => Only(p, s)'
      PROVE  OneChild'
    BY <1>0, <1>1, <1>2, <1>3, ShapeNext DEF OneChild, RuntimeShape, Alive
<1>4. ASSUME NEW t \in Threads, launched' = launched, \A q \in Procs \ {ProcessOf[t]}
             : life'[q] = life[q],
             \A u \in Threads : ProcessOf[u] # ProcessOf[t] => thread'[u] = thread[u],
             \A q \in Procs \ {ProcessOf[t]} : runtime'[q] = runtime[q],
             \A s \in (Alive' \cap Alive) \ Loose' : servers[s].owner = ProcessOf[t]
              /\ Only(ProcessOf[t], s) => Only(ProcessOf[t], s)'
      PROVE  OneChild'
    <2>1. ASSUME NEW q \in Procs \ {ProcessOf[t]}, NEW u \in Threads, NEW s, ProcessOf[u] = q,
                 Minding(u, s) PROVE Minding(u, s)'
        BY <1>4, <2>1
    <2>2. \A q \in Procs \ {ProcessOf[t]}, s \in Alive' \cap Alive : Only(q, s)
           => Only(q, s)'
        BY <1>4, <2>1 DEF Only, MindedIn
    <2> QED BY <1>2, <1>3, <1>4, <2>2
<1>5. ASSUME NEW t \in Threads, In(t), UNCHANGED <<runtime, launched, life>>,
             \A u \in Threads \ {t} : thread'[u] = thread[u],
             \A s \in Alive' \cap Alive : Minding(t, s) => Minding(t, s)'
      PROVE  OneChild'
    BY <1>4, <1>5 DEF Only, MindedIn
<1>6. ASSUME NEW t \in Threads, thread[t].stage \in Discovering, NEW s \in Alive,
             life[ProcessOf[t]] = "running", servers[s].owner = ProcessOf[t]
      PROVE  ~Only(ProcessOf[t], s)
    <2>1. ~runtime[ProcessOf[t]].initialized
        BY <1>6 DEF UnderWay
    <2>2. In(t) /\ thread[t].task = "init" /\ ~Minding(t, s)
        BY <1>6
    <2>3. ASSUME NEW u \in Threads \ {t}, ProcessOf[u] = ProcessOf[t] PROVE ~Minding(u, s)
        <3>1. Minding(u, s) => In(u) /\ thread[u].task # "exit"
            OBVIOUS
        <3>2. RuntimeConstants /\ InCalls /\ thread[t].task # "exit"
            BY <2>2
        <3> HIDE DEF RuntimeConstants, InCalls, In, Minding
        <3> QED BY <2>2, <2>3, <3>1, <3>2, AloneInIt
    <2> HIDE DEF Minding
    <2> QED BY <1>6, <2>1, <2>2, <2>3 DEF Only, MindedIn
<1>7. ASSUME NEW t \in Threads, NEW a \in InitArgs, BeginInit(t, a) PROVE OneChild'
    <2>1. launched' = launched /\ life' = life /\ runtime' = runtime
           /\ \A u \in Threads \ {t} : thread'[u] = thread[u]
        BY <1>7 DEF BeginInit
    <2>2. \A u \in Threads, s \in Ids : Minding(u, s) => Minding(u, s)'
        BY <1>7, <2>1 DEF BeginInit
    <2>3. \A q \in Procs, s \in Alive' \cap Alive : Only(q, s) => Only(q, s)'
        BY <2>1, <2>2 DEF Only, MindedIn, Alive
    <2> QED BY <1>2, <1>3, <2>1, <2>3
<1>8. ASSUME NEW t \in Threads, BeginShutdown(t) PROVE OneChild'
    <2>1. launched' = launched /\ life' = life /\ runtime' = runtime
           /\ \A u \in Threads \ {t} : thread'[u] = thread[u]
        BY <1>8 DEF BeginShutdown
    <2>2. \A u \in Threads, s \in Ids : Minding(u, s) => Minding(u, s)'
        BY <1>8, <2>1 DEF BeginShutdown
    <2>3. \A q \in Procs, s \in Alive' \cap Alive : Only(q, s) => Only(q, s)'
        BY <2>1, <2>2 DEF Only, MindedIn, Alive
    <2> QED BY <1>2, <1>3, <2>1, <2>3
<1>9. ASSUME NEW t \in Threads, BeginExit(t) PROVE OneChild'
    <2>1. /\ launched' = launched /\ runtime' = runtime
          /\ \A q \in Procs \ {ProcessOf[t]} : life'[q] = life[q]
          /\ \A u \in Threads : ProcessOf[u] # ProcessOf[t] => thread'[u] = thread[u]
        BY <1>9 DEF BeginExit
    <2>2. life'[ProcessOf[t]] # "running"
        BY <1>9 DEF BeginExit
    <2> QED BY <1>4, <2>1, <2>2 DEF Only
<1>10. ASSUME NEW t \in Threads, Deadline(t) PROVE OneChild'
    <2>1. launched' = launched /\ life' = life /\ runtime' = runtime
           /\ \A u \in Threads \ {t} : thread'[u] = thread[u]
        BY <1>10 DEF Deadline
    <2>2. \A u \in Threads, s \in Ids : Minding(u, s) => Minding(u, s)'
        BY <1>10, <2>1 DEF Deadline
    <2>3. \A q \in Procs, s \in Alive' \cap Alive : Only(q, s) => Only(q, s)'
        BY <2>1, <2>2 DEF Only, MindedIn, Alive
    <2> QED BY <1>2, <1>3, <2>1, <2>3
<1>11. ASSUME NEW t \in Threads, EnterInit(t) PROVE OneChild'
    <2>1. launched' = launched /\ life' = life /\ runtime' = runtime
           /\ \A u \in Threads \ {t} : thread'[u] = thread[u]
        BY <1>11 DEF EnterInit
    <2>2. \A u \in Threads, s \in Ids : Minding(u, s) => Minding(u, s)'
        BY <1>11, <2>1 DEF EnterInit
    <2>3. \A q \in Procs, s \in Alive' \cap Alive : Only(q, s) => Only(q, s)'
        BY <2>1, <2>2 DEF Only, MindedIn, Alive
    <2> QED BY <1>2, <1>3, <2>1, <2>3
<1>12. ASSUME NEW t \in Threads, EnterShutdown(t) PROVE OneChild'
    <2> DEFINE p == ProcessOf[t]
    <2>1. launched' = launched /\ life' = life
           /\ (\A u \in Threads \ {t} : thread'[u] = thread[u])
          /\ \A q \in Procs \ {p} : runtime'[q] = runtime[q]
        BY <1>12 DEF EnterShutdown
    <2>2. CASE Mine(t) = None
        <3>1. life[p] = "running" => \A s \in Ids : ~Only(p, s)
            BY <1>12, <2>2 DEF EnterShutdown, Only, Ids
        <3>2. \A s \in Alive' \cap Alive : Only(p, s) => Only(p, s)'
            BY <2>1, <3>1 DEF Only, Alive
        <3> QED BY <1>4, <2>1, <3>2
    <2>3. CASE Mine(t) # None
        <3>1. runtime' = runtime /\ \A s \in Ids : ~Minding(t, s)
            BY <1>12, <2>3 DEF EnterShutdown
        <3>2. \A u \in Threads, s \in Ids : Minding(u, s) => Minding(u, s)'
            BY <2>1, <3>1
        <3>3. \A q \in Procs, s \in Alive' \cap Alive : Only(q, s) => Only(q, s)'
            BY <2>1, <3>1, <3>2 DEF Only, MindedIn, Alive
        <3> QED BY <1>2, <1>3, <2>1, <3>3
    <2> QED BY <2>2, <2>3
<1>13. ASSUME NEW t \in Threads, Discover(t) PROVE OneChild'
    <2>1. Searches(t)
        BY <1>13, Searching
    <2>2. UNCHANGED <<launched, life, servers>> /\ thread[t].stage \in Discovering
           /\ \A u \in Threads \ {t} : thread'[u] = thread[u]
        BY <2>1 DEF Searches
    <2>3. ASSUME NEW u \in Threads, NEW s, ProcessOf[u] # ProcessOf[t], Minding(u, s)
                 PROVE Minding(u, s)'
        BY <2>1, <2>3 DEF Searches
    <2>4. \A q \in Procs : runtime'[q].server = runtime[q].server /\ (q # ProcessOf[t]
           => runtime'[q].initialized = runtime[q].initialized)
        BY <2>1 DEF Searches
    <2>5. \A q \in Procs, s \in Alive' \cap Alive : servers[s].owner = q /\ Only(q, s)
           => Only(q, s)'
        BY <1>6, <2>2, <2>3, <2>4 DEF Only, MindedIn
    <2> QED BY <1>2, <1>3, <2>2, <2>5
<1>14. ASSUME NEW t \in Threads, Launch(t) PROVE OneChild'
    <2>1. CASE Raise(t) /\ thread[t].stage = "launching"
        <3>1. In(t) /\ \A s \in Ids : ~Minding(t, s)
            BY <2>1
        <3> QED BY <1>5, <2>1, <3>1 DEF Alive
    <2>2. CASE Opens(t)
        <3>1. \A s \in Alive' \cap Alive :
                  servers[s].owner = ProcessOf[t] /\ life[ProcessOf[t]] = "running"
                    => ~Only(ProcessOf[t], s)
            BY <1>6, <2>2 DEF Opens
        <3>3. ASSUME NEW u \in Threads, NEW s, ProcessOf[u] # ProcessOf[t], Minding(u, s)
                     PROVE Minding(u, s)'
            BY <2>2, <3>3 DEF Opens
        <3>4. \A q \in Procs, s \in Alive' \cap Alive : servers[s].owner = q
               /\ Only(q, s) => Only(q, s)'
            BY <2>2, <3>1, <3>3 DEF Opens, Only, MindedIn
        <3>5. \A q \in Procs, s \in Alive' \ Old : servers'[s].owner = q => Only(q, s)'
            <4> SUFFICES ASSUME NEW q \in Procs, NEW s \in Alive' \ Old,
                         servers'[s].owner = q PROVE Only(q, s)'
                OBVIOUS
            <4>1. PICK u \in Threads : Launch(u) /\ s = launched + 1 /\ q = ProcessOf[u]
                BY ServersAge DEF Born
            <4>2. Opens(u)
                <5>1. CASE Raise(u)
                    BY <2>2, <5>1 DEF Opens
                <5> QED BY <4>1, <5>1, Launching
            <4>3. Minding(u, s)' /\ runtime'[q].server = s
                BY <4>1, <4>2 DEF Opens
            <4> QED BY <4>1, <4>3 DEF Only, MindedIn
        <3> QED BY <1>3, <3>4, <3>5
    <2> QED BY <1>14, <2>1, <2>2, Launching
<1>15. ASSUME NEW t \in Threads, Poll(t) PROVE OneChild'
    <2>1. In(t) /\ UNCHANGED <<runtime, servers, launched, life>>
           /\ (\A u \in Threads \ {t} : thread'[u] = thread[u])
        BY <1>15 DEF Poll
    <2>2. CASE servers[Mine(t)].state = "gone"
        <3>1. \A s \in Alive : ~Minding(t, s)
            BY <1>15, <2>2 DEF Poll, Alive, Dead
        <3> QED BY <1>5, <2>1, <3>1
    <2>3. CASE servers[Mine(t)].state # "gone"
        <3>1. \A s \in Alive : Minding(t, s) => Minding(t, s)'
            BY <1>15, <2>1, <2>3 DEF Poll
        <3> QED BY <1>5, <2>1, <3>1
    <2> QED BY <2>2, <2>3
<1>16. ASSUME NEW t \in Threads, Probe(t) PROVE OneChild'
    <2>1. launched' = launched /\ life' = life /\ runtime' = runtime
           /\ \A u \in Threads \ {t} : thread'[u] = thread[u]
        BY <1>16 DEF Probe
    <2>2. \A u \in Threads, s \in Ids : Minding(u, s) => Minding(u, s)'
        BY <1>16, <2>1 DEF Probe
    <2>3. \A q \in Procs, s \in Alive' \cap Alive : Only(q, s) => Only(q, s)'
        BY <2>1, <2>2 DEF Only, MindedIn, Alive
    <2> QED BY <1>2, <1>3, <2>1, <2>3
<1>17. ASSUME NEW t \in Threads, Ready(t) PROVE OneChild'
    <2>1. Connects(t)
        BY <1>17, Connecting
    <2>2. launched' = launched /\ life' = life /\ \A u \in Threads \ {t} : thread'[u] = thread[u]
        BY <2>1 DEF Connects
    <2>3. /\ runtime'[ProcessOf[t]].initialized \/ Mine(t) \in Loose'
          /\ runtime'[ProcessOf[t]].server = runtime[ProcessOf[t]].server
          /\ \A q \in Procs \ {ProcessOf[t]} : runtime'[q] = runtime[q]
        BY <2>1 DEF Connects
    <2>4. \A s \in (Alive' \cap Alive) \ Loose' :
              Only(ProcessOf[t], s) => Only(ProcessOf[t], s)'
        BY <2>2, <2>3 DEF Only
    <2> QED BY <1>4, <2>2, <2>3, <2>4
<1>18. ASSUME NEW t \in Threads, Signal(t) PROVE OneChild'
    <2>1. launched' = launched /\ life' = life /\ runtime' = runtime
           /\ \A u \in Threads \ {t} : thread'[u] = thread[u]
        BY <1>18 DEF Signal
    <2>2. \A u \in Threads, s \in Ids : Minding(u, s) => Minding(u, s)'
        BY <1>18, <2>1 DEF Signal
    <2>3. \A q \in Procs, s \in Alive' \cap Alive : Only(q, s) => Only(q, s)'
        BY <2>1, <2>2 DEF Only, MindedIn, Alive
    <2> QED BY <1>2, <1>3, <2>1, <2>3
<1>19. ASSUME NEW t \in Threads, Reap(t) PROVE OneChild'
    <2>1. In(t) /\ UNCHANGED <<runtime, launched, life>>
           /\ (\A u \in Threads \ {t} : thread'[u] = thread[u])
        BY <1>19 DEF Reap
    <2>2. \A s \in Alive' \cap Alive : ~Minding(t, s)
        BY <1>19 DEF Reap, Alive, Dead
    <2> QED BY <1>5, <2>1, <2>2
<1>20. ASSUME NEW t \in Threads, CheckFile(t) PROVE OneChild'
    <2>1. launched' = launched /\ life' = life /\ runtime' = runtime
           /\ \A u \in Threads \ {t} : thread'[u] = thread[u]
        BY <1>20 DEF CheckFile
    <2>2. \A u \in Threads, s \in Ids : Minding(u, s) => Minding(u, s)'
        BY <1>20, <2>1 DEF CheckFile
    <2>3. \A q \in Procs, s \in Alive' \cap Alive : Only(q, s) => Only(q, s)'
        BY <2>1, <2>2 DEF Only, MindedIn, Alive
    <2> QED BY <1>2, <1>3, <2>1, <2>3
<1>21. ASSUME NEW t \in Threads, Unlink(t) PROVE OneChild'
    <2>1. launched' = launched /\ life' = life /\ runtime' = runtime
           /\ \A u \in Threads \ {t} : thread'[u] = thread[u]
        BY <1>21 DEF Unlink
    <2>2. \A u \in Threads, s \in Ids : Minding(u, s) => Minding(u, s)'
        BY <1>21, <2>1 DEF Unlink
    <2>3. \A q \in Procs, s \in Alive' \cap Alive : Only(q, s) => Only(q, s)'
        BY <2>1, <2>2 DEF Only, MindedIn, Alive
    <2> QED BY <1>2, <1>3, <2>1, <2>3
<1>22. ASSUME NEW t \in Threads, Stopped(t) PROVE OneChild'
    <2> DEFINE p == ProcessOf[t]
    <2>1. /\ launched' = launched /\ servers' = servers
          /\ \A u \in Threads : ProcessOf[u] # ProcessOf[t] => thread'[u] = thread[u]
          /\ \A q \in Procs \ {p} : runtime'[q] = runtime[q] /\ life'[q] = life[q]
        BY <1>22 DEF Stopped
    <2>2. CASE thread[t].task = "shutdown"
        <3>1. Mine(t) \notin Alive /\ life' = life
            BY <1>22, <2>2 DEF Stopped, UnderWay, Minded
        <3>2. \A s \in Alive' \cap Alive : Only(p, s) => Only(p, s)'
            BY <3>1 DEF Only
        <3> QED BY <1>4, <2>1, <3>2
    <2>3. CASE thread[t].task # "shutdown"
        <3>1. life'[p] # "running"
            BY <1>22, <2>3 DEF Stopped
        <3> QED BY <1>4, <2>1, <3>1 DEF Only
    <2> QED BY <2>2, <2>3
<1>23. ASSUME NEW p \in Procs, Kill(p) PROVE OneChild'
    <2>1. /\ life' = [life EXCEPT ![p] = "killed"] /\ UNCHANGED <<runtime, servers, launched>>
          /\ \A u \in Threads : ProcessOf[u] # p => thread'[u] = thread[u]
        BY <1>23 DEF Kill
    <2>2. \A u \in Threads, s \in Ids : ProcessOf[u] # p /\ Minding(u, s) => Minding(u, s)'
        BY <2>1
    <2>3. \A q \in Procs, s \in Alive' \cap Alive : Only(q, s) => Only(q, s)'
        BY <2>1, <2>2 DEF Only, MindedIn, Alive
    <2> QED BY <1>2, <1>3, <2>1, <2>3
<1>24. ASSUME NEW s \in Ids, ServerProcess(s) \/ Crash(s) \/ StopDaemon(s)
              PROVE OneChild'
    <2>1. UNCHANGED <<runtime, life, thread, launched>>
        BY <1>24 DEF ServerProcess, WriteAddressFile, Bind, End, RemoveAddressFile,
            UnlinkAddressFile, Crash, StopDaemon
    <2>2. \A p \in Procs, q \in Alive' \cap Alive : Only(p, q) => Only(p, q)'
        BY <2>1 DEF Only, MindedIn
    <2> QED BY <1>2, <1>3, <2>1, <2>2
<1>25. ASSUME NEW a \in Addresses, LaunchDaemon(a) PROVE OneChild'
    <2>1. UNCHANGED <<runtime, life, thread>>
        BY <1>25 DEF LaunchDaemon
    <2>2. \A s \in Alive' \ Old : servers'[s].owner \notin Procs
        <3> SUFFICES ASSUME NEW s \in Alive' \ Old, servers'[s].owner \in Procs PROVE FALSE
            OBVIOUS
        <3>1. PICK u \in Threads : Launch(u)
            BY ServersAge DEF Born
        <3>2. launched' = launched + 1
            BY <1>25 DEF LaunchDaemon
        <3> QED BY <2>1, <3>1, <3>2, Launching DEF Opens
    <2>3. \A q \in Procs, s \in Alive' \cap Alive : Only(q, s) => Only(q, s)'
        BY <2>1 DEF Only, MindedIn
    <2> QED BY <1>3, <2>2, <2>3
<1>26. ASSUME NEW t \in Threads, Escape(t) PROVE OneChild'
    <2>1. /\ In(t) /\ UNCHANGED <<runtime, launched, life, servers>>
          /\ \A u \in Threads \ {t} : thread'[u] = thread[u]
          /\ \A s \in Ids : Minding(t, s) => s \in Loose'
        BY <1>26 DEF Escape, Loose
    <2>2. \A s \in Ids \ Loose', u \in Threads : Minding(u, s) => Minding(u, s)'
        BY <2>1
    <2>3. \A s \in (Alive' \cap Alive) \ Loose' :
              Only(ProcessOf[t], s) => Only(ProcessOf[t], s)'
        BY <2>1, <2>2 DEF Only, MindedIn, Alive
    <2> QED BY <1>4, <2>1, <2>3
<1> QED
    BY <1>7, <1>8, <1>9, <1>10, <1>11, <1>12, <1>13, <1>14, <1>15, <1>16, <1>17, <1>18, <1>19,
        <1>20, <1>21, <1>22, <1>23, <1>24, <1>25, <1>26 DEF Next, Proceed, Stop

(* The invariant, but for OneChild.                                        *)
SafeInv == RuntimeShape /\ InCalls /\ Launched /\ Minded /\ Looked /\ UnderWay

LEMMA SafeInit == ASSUME RuntimeConstants, Init PROVE SafeInv /\ OneChild
<1> USE DEF Init, Uninitialized, IdleThread, NoServer
<1>1. RuntimeShape
    BY DEF RuntimeConstants, RuntimeShape, RuntimeStages, Ids
<1>2. \A s \in Ids : s \notin Alive
    BY DEF Alive, Dead
<1>3. InCalls /\ Launched /\ UnderWay /\ Looked
    BY DEF InCalls, Launched, UnderWay, Looked, In, Discovering, Waiting, Terminating, Reaped
<1>4. Minded /\ OneChild
    BY <1>2 DEF Minded, OneChild, Alive, Reaped
<1> QED BY <1>1, <1>3, <1>4 DEF SafeInv

LEMMA SafeNext == ASSUME RuntimeConstants, SafeInv, [Next]_vars PROVE SafeInv'
<1>1. CASE Next
    BY <1>1, ShapeNext, CallsNext, LaunchedNext, MindedNext, LookedNext, UnderWayNext DEF SafeInv
<1>2. CASE UNCHANGED vars
    BY <1>2 DEF vars, process, children, history, SafeInv, RuntimeShape, InCalls, Launched,
        Minded, Looked, Hidden, UnderWay, OtherThreadsIdle, Runs, In, Old, Past, Kept, MindedIn, Minding,
        Alive, Dead, Serving, Target, Mine
<1> QED BY <1>1, <1>2

LEMMA ChildNext ==
    ASSUME RuntimeConstants, SafeInv, OneChild, [Next]_vars
    PROVE  OneChild'
<1>1. CASE Next
    BY <1>1, OneChildNext DEF SafeInv
<1>2. CASE UNCHANGED vars
    BY <1>2 DEF vars, process, children, history, OneChild, Loose, Only, MindedIn, Minding, Alive,
        Dead, Target, Mine
<1> QED BY <1>1, <1>2

(* An exit that runs the handlers leaves no child behind, however the calls*)
(* of init and shutdown, the threads, the processes and the servers        *)
(* interleave, and whatever raises: but for the children that an exception *)
(* or the exit itself took from the start before it registered them.       *)
THEOREM ExitsStopTheirServers ==
    ASSUME RuntimeConstants PROVE Spec => []ExitStopsServers
<1>1. SafeInv => ExitStopsServers
    BY DEF SafeInv, Minded, Kept, ExitStopsServers
<1> QED BY <1>1, SafeInit, SafeNext, PTL DEF Spec

(* No server that has answered since discovery began at the address that   *)
(* its command line tells is missed.                                       *)
THEOREM LaunchesAreNeeded ==
    ASSUME RuntimeConstants PROVE Spec => []NoNeedlessLaunch
<1>1. SafeInv => NoNeedlessLaunch
    BY DEF SafeInv, Looked, Hidden, NoNeedlessLaunch, At
<1> QED BY <1>1, SafeInit, SafeNext, PTL DEF Spec

(* A child that lives is the one its process would stop, unless an         *)
(* exception took it from the call of init that launched it.               *)
THEOREM ChildrenAreKnown ==
    ASSUME RuntimeConstants PROVE Spec => []NoStrayChild
<1>1. SafeInv /\ OneChild => NoStrayChild
    BY DEF OneChild, Loose, Only, NoStrayChild
<1> QED BY <1>1, SafeInit, SafeNext, ChildNext, PTL DEF Spec
=============================================================================
