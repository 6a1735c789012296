-------------------------- MODULE EmbeddedRuntime --------------------------
(***************************************************************************)
(* tuft.init and tuft.shutdown (runtime/__init__.py), the discovery of a   *)
(* running server (_discovery.py), the child that init launches when there *)
(* is none (_launcher.py), and the address file that children and "tuft    *)
(* launch" write and remove (cli.py).                                      *)
(*                                                                         *)
(* Several Python processes on one machine share the address file. The     *)
(* threads of a process share the module's globals and its lock. A server  *)
(* process is a child of one of them or was launched by hand. An action is *)
(* what happens between two looks at what other processes may change: a    *)
(* health check, a read or write of the file, the state of a child.        *)
(***************************************************************************)
EXTENDS Integers, FiniteSets

CONSTANTS
    None,        \* Python's None
    Procs,       \* Python processes that use the package
    Threads,     \* their threads
    ProcessOf,   \* [Threads -> Procs]
    Daemons,     \* the threads for which the exit of an interpreter does not wait
    Addresses,   \* http://host:port, all on the default host
    Default,     \* the address of DEFAULT_HOST and DEFAULT_PORT
    Env,         \* TUFT_ADDRESS, or None
    Given,       \* the key users know: of a configuration file, api_key, TUFT_API_KEY
    InitArgs,    \* what init may be called with
    Faults,      \* subset of {"client", "crash", "escape", "kill"}
    MaxCalls     \* bound on calls of init and shutdown and on launches by hand

ASSUME ProcessOfAssumption == ProcessOf \in [Threads -> Procs]
ASSUME CallsAssumption == MaxCalls \in Nat
ASSUME AddressAssumption == Default \in Addresses /\ Env \in Addresses \cup {None}

(* Where the configuration of a new server comes from, after the arguments *)
(* and the environment: a file, a generated one, or nowhere.               *)
Sources == {"config", "model", "none"}
ASSUME InitArgsAssumption ==
    InitArgs \subseteq [address : Addresses \cup {None}, source : Sources,
                        at : Addresses, key : {Given, None}]

Ids == 1..MaxCalls   \* of server processes, in the order of their launch

VARIABLES
    runtime,   \* per process: the globals of the module
    lock,      \* per process: the thread in _lock
    life,      \* per process: running, exiting, gone, or killed
    atexit,    \* per process: EmbeddedServers whose shutdown is registered and has work
    thread,    \* per thread: where it is in which call, and its local variables
    servers,   \* per id: the server process
    launched,  \* number of server processes there have been
    adrift,    \* history: children that a call of init left, neither stopped nor registered
    unclaimed, \* history: children that init registered and then found no client for
    file,      \* content of the address file
    calls      \* counter

history == <<adrift, unclaimed>>
process == <<life, atexit>>
children == <<servers, launched, history>>
vars == <<runtime, lock, process, thread, children, file, calls>>

Uninitialized == [initialized |-> FALSE, mode |-> None, client |-> None, server |-> None,
                  key |-> None]

(* told is the address that the command line tells: of "--port N", "-p N",  *)
(* or the default one.                                                     *)
NoServer == [state |-> "absent", at |-> None, told |-> None, owner |-> None, keys |-> {}]

(* task is init, shutdown or exit; found the address read from the file;   *)
(* target the EmbeddedServer being stopped; seen the servers that answered *)
(* when discovery began.                                                   *)
IdleThread == [stage |-> "idle", task |-> None, args |-> None, found |-> None, target |-> None,
               seen |-> {}]
Dead == {"absent", "gone"}
Alive == {s \in Ids : servers[s].state \notin Dead}
Serving == {s \in Ids : servers[s].state = "serving"}

(* GET /api/v1/healthz                                                     *)
Healthy(a) == \E s \in Serving : servers[s].at = a

(* The threads of a process run until it exits; the daemons among them     *)
(* while it exits, too.                                                    *)
Runs(t) ==
    \/ life[ProcessOf[t]] = "running"
    \/ life[ProcessOf[t]] = "exiting" /\ t \in Daemons

At(t, where) == thread[t].stage = where
Goto(t, where) == thread' = [thread EXCEPT ![t].stage = where]
Args(t) == thread[t].args
Target(t) == thread[t].target
StopServer(t, s) == thread' = [thread EXCEPT ![t].stage = "signalling", ![t].target = s]
SetState(s, state) == servers' = [servers EXCEPT ![s].state = state]

(* The end of a call, which leaves the lock if it is in it.                *)
Leave(t) ==
    /\ thread' = [thread EXCEPT ![t] = IdleThread]
    /\ lock' = [lock EXCEPT ![ProcessOf[t]] = IF @ = t THEN None ELSE @]

-----------------------------------------------------------------------------
(* init. The first look at _initialized is without the lock.               *)
BeginInit(t, a) ==
    /\ At(t, "idle") /\ Runs(t)
    /\ calls < MaxCalls
    /\ ~runtime[ProcessOf[t]].initialized
    /\ calls' = calls + 1
    /\ thread' = [thread EXCEPT ![t].stage = "locking", ![t].task = "init", ![t].args = a]
    /\ UNCHANGED <<runtime, lock, process, children, file>>

StartDiscovery(t) ==
    /\ lock' = [lock EXCEPT ![ProcessOf[t]] = t]
    /\ thread' = [thread EXCEPT ![t].seen = Serving,
                                ![t].stage = IF Args(t).address # None THEN "explicit" ELSE "env"]

(* The double check in the lock; the start of discover.                    *)
EnterInit(t) ==
    /\ At(t, "locking") /\ thread[t].task = "init"
    /\ lock[ProcessOf[t]] = None
    /\ IF runtime[ProcessOf[t]].initialized THEN Leave(t) ELSE StartDiscovery(t)
    /\ UNCHANGED <<runtime, process, children, file, calls>>

(* An exception leaves the with statement. What was assigned stays.        *)
Raise(t) ==
    /\ Leave(t)
    /\ UNCHANGED <<runtime, process, children, file, calls>>

(* A server was discovered. The construction of ServiceClient may raise.   *)
Connect(t, a) ==
    LET p == ProcessOf[t]
    IN  /\ \/ runtime' = [runtime EXCEPT ![p].key = Args(t).key, ![p].initialized = TRUE,
                              ![p].mode = "connected",
                              ![p].client = [base |-> a, key |-> Args(t).key]]
           \/ "client" \in Faults /\ runtime' = [runtime EXCEPT ![p].key = Args(t).key]
        /\ Leave(t)
        /\ UNCHANGED <<process, children, file, calls>>

NotFound(t, next) ==
    /\ Goto(t, next)
    /\ UNCHANGED <<runtime, lock, process, children, file, calls>>

DiscoverExplicit(t) ==
    /\ At(t, "explicit")
    /\ IF Healthy(Args(t).address) THEN Connect(t, Args(t).address) ELSE Raise(t)

DiscoverFromEnv(t) ==
    /\ At(t, "env")
    /\ IF Env # None /\ Healthy(Env) THEN Connect(t, Env) ELSE NotFound(t, "file")

(* The file is read, and what it names is then checked.                    *)
ReadAddressFile(t) ==
    /\ At(t, "file")
    /\ thread' = [thread EXCEPT ![t].found = file,
                                ![t].stage = IF file = None THEN "scan" ELSE "checking_file"]
    /\ UNCHANGED <<runtime, lock, process, children, file, calls>>

DiscoverFromAddressFile(t) ==
    /\ At(t, "checking_file")
    /\ IF Healthy(thread[t].found) THEN Connect(t, thread[t].found) ELSE NotFound(t, "scan")

MutantDiscoverFromProcessScan(t) ==
    /\ At(t, "scan")
    /\ NotFound(t, "default")

(* The processes are in the order of their ids, which wrap around: any may *)
(* be met first whose command line tells an address where a server answers,*)
(* itself or another. Children, too, have "tuft" and "launch" in theirs.   *)
DiscoverFromProcessScan(t) ==
    LET told == {servers[s].told : s \in Alive}
    IN  /\ At(t, "scan")
        /\ \/ \E a \in told : Healthy(a) /\ Connect(t, a)
           \/ (\A a \in told : ~Healthy(a)) /\ NotFound(t, "default")

DiscoverFromDefaultPort(t) ==
    /\ At(t, "default")
    /\ IF Healthy(Default) THEN Connect(t, Default) ELSE NotFound(t, "launching")

(* Phase 2: the configuration, and Popen. A generated configuration has a  *)
(* key of its own, here the id of its server, which becomes _api_key.      *)
Launch(t) ==
    LET p == ProcessOf[t]
        s == launched + 1
        generated == Args(t).source = "model"
    IN  /\ At(t, "launching")
        /\ IF Args(t).source = "none"
           THEN Raise(t)
           ELSE /\ runtime' = [runtime EXCEPT ![p].server = s,
                                              ![p].key = IF generated THEN s ELSE @]
                /\ servers' = [servers EXCEPT ![s] =
                       [state |-> "validating", at |-> Args(t).at, told |-> Args(t).at,
                        owner |-> p, keys |-> IF generated THEN {s} ELSE {Given}]]
                /\ launched' = s
                /\ Goto(t, "waiting")
                /\ UNCHANGED <<lock, process, history, file, calls>>

Mine(t) == runtime[ProcessOf[t]].server

(* _wait_for_healthy: has the child died, does somebody answer at its      *)
(* address, is the deadline over.                                          *)
Poll(t) ==
    /\ At(t, "waiting")
    /\ IF servers[Mine(t)].state = "gone" THEN Raise(t) ELSE NotFound(t, "probing")

Probe(t) ==
    /\ At(t, "probing")
    /\ NotFound(t, IF Healthy(servers[Mine(t)].at) THEN "ready" ELSE "waiting")

MutantDeadline(t) == At(t, "waiting") /\ Raise(t)

Deadline(t) ==
    /\ At(t, "waiting")
    /\ StopServer(t, Mine(t))
    /\ UNCHANGED <<runtime, lock, process, children, file, calls>>

MutantReady(t) ==
    LET p == ProcessOf[t]
        key == IF runtime[p].key = None THEN Args(t).key ELSE runtime[p].key
    IN  /\ At(t, "ready")
        /\ file' = servers[Mine(t)].at
        /\ runtime' = [runtime EXCEPT ![p].key = key, ![p].initialized = TRUE,
                              ![p].mode = "embedded",
                              ![p].client = [base |-> servers[Mine(t)].at, key |-> key]]
        /\ Leave(t)
        /\ UNCHANGED <<process, children, calls>>

(* The health checks handle ConnectError, TimeoutException and OSError. Any*)
(* other error of httpx leaves init, and so does a Ctrl-C while it waits. A*)
(* child that has been launched lives on: start stops it when the poll     *)
(* returns, and registers it after that.                                   *)
Escape(t) ==
    /\ "escape" \in Faults
    /\ thread[t].stage \in {"explicit", "env", "checking_file", "scan", "default",
                            "waiting", "probing"}
    /\ At(t, "env") => Env # None
    /\ adrift' = IF thread[t].stage \in {"waiting", "probing"} THEN adrift \cup {Mine(t)} ELSE adrift
    /\ Leave(t)
    /\ UNCHANGED <<runtime, process, servers, launched, unclaimed, file, calls>>

(* The rest of start and of init: the file, the handler at exit, which is  *)
(* too late once the handlers run, the key unless one is there, the client.*)
Ready(t) ==
    LET p == ProcessOf[t]
        key == IF runtime[p].key = None THEN Args(t).key ELSE runtime[p].key
    IN  /\ At(t, "ready")
        /\ file' = servers[Mine(t)].at
        /\ IF life[p] = "running"
           THEN atexit' = [atexit EXCEPT ![p] = @ \cup {Mine(t)}] /\ UNCHANGED adrift
           ELSE adrift' = adrift \cup {Mine(t)} /\ UNCHANGED atexit
        /\ \/ /\ runtime' = [runtime EXCEPT ![p].key = key, ![p].initialized = TRUE,
                                 ![p].mode = "embedded",
                                 ![p].client = [base |-> servers[Mine(t)].at, key |-> key]]
              /\ UNCHANGED unclaimed
           \/ /\ "client" \in Faults
              /\ runtime' = [runtime EXCEPT ![p].key = key]
              /\ unclaimed' = unclaimed \cup {Mine(t)}
        /\ Leave(t)
        /\ UNCHANGED <<life, servers, launched, calls>>

-----------------------------------------------------------------------------
(* shutdown, and the handlers at exit. Both stop an EmbeddedServer.        *)
BeginShutdown(t) ==
    /\ At(t, "idle") /\ Runs(t)
    /\ calls < MaxCalls
    /\ calls' = calls + 1
    /\ thread' = [thread EXCEPT ![t].stage = "locking", ![t].task = "shutdown"]
    /\ UNCHANGED <<runtime, lock, process, children, file>>

EnterShutdown(t) ==
    /\ At(t, "locking") /\ thread[t].task = "shutdown"
    /\ lock[ProcessOf[t]] = None
    /\ IF Mine(t) = None
       THEN runtime' = [runtime EXCEPT ![ProcessOf[t]] = Uninitialized] /\ Leave(t)
       ELSE /\ lock' = [lock EXCEPT ![ProcessOf[t]] = t]
            /\ StopServer(t, Mine(t))
            /\ UNCHANGED runtime
    /\ UNCHANGED <<process, children, file, calls>>

(* The child that a call of init waits for, or stops.                      *)
Minding(t, s) ==
    /\ thread[t].task = "init"
    /\ \/ thread[t].stage \in {"waiting", "probing", "ready"} /\ Mine(t) = s
       \/ thread[t].stage \in {"signalling", "reaping"} /\ Target(t) = s

(* The interpreter exits in its main thread, once the other threads ended, *)
(* and runs the handlers. It does not wait for daemons: they go on until   *)
(* the last handler has returned, and end where they are.                  *)
RunHandlers(t, p, handlers) ==
    IF handlers = {}
    THEN /\ life' = [life EXCEPT ![p] = "gone"]
         /\ thread' = [u \in Threads |-> IF ProcessOf[u] = p THEN IdleThread ELSE thread[u]]
         /\ adrift' = adrift \cup {s \in Ids : \E u \in Daemons : ProcessOf[u] = p /\ Minding(u, s)}
    ELSE /\ life' = [life EXCEPT ![p] = "exiting"]
         /\ \E s \in handlers :
                thread' = [thread EXCEPT ![t].stage = "signalling", ![t].task = "exit",
                                         ![t].target = s]
         /\ UNCHANGED adrift

BeginExit(t) ==
    LET p == ProcessOf[t]
    IN  /\ life[p] = "running" /\ t \notin Daemons
        /\ \A u \in Threads \ Daemons : ProcessOf[u] = p => At(u, "idle")
        /\ RunHandlers(t, p, atexit[p])
        /\ UNCHANGED <<runtime, lock, atexit, servers, launched, unclaimed, file, calls>>

(* _terminate: SIGTERM to the group of the child. It ends at once if it    *)
(* has not reached uvicorn, or is past it.                                 *)
Signal(t) ==
    /\ At(t, "signalling")
    /\ CASE servers[Target(t)].state \in Dead -> UNCHANGED servers
         [] servers[Target(t)].state \in {"starting", "serving", "ending"} -> SetState(Target(t), "ending")
         [] OTHER -> SetState(Target(t), "gone")
    /\ Goto(t, "reaping")
    /\ UNCHANGED <<runtime, lock, process, launched, history, file, calls>>

(* The child has ended, or is killed after ten seconds. A failed start     *)
(* raises now; a shutdown looks at the address file.                       *)
Reap(t) ==
    /\ At(t, "reaping")
    /\ SetState(Target(t), "gone")
    /\ IF thread[t].task = "init" THEN Leave(t)
       ELSE Goto(t, "removing") /\ UNCHANGED lock
    /\ UNCHANGED <<runtime, process, launched, history, file, calls>>

(* The file is read, and if it has the address of the child, unlinked.     *)
CheckFile(t) ==
    /\ At(t, "removing")
    /\ Goto(t, IF file = servers[Target(t)].at THEN "unlinking" ELSE "stopped")
    /\ UNCHANGED <<runtime, lock, process, children, file, calls>>

Unlink(t) ==
    /\ At(t, "unlinking")
    /\ file' = None
    /\ Goto(t, "stopped")
    /\ UNCHANGED <<runtime, lock, process, children, calls>>

Stopped(t) ==
    LET p == ProcessOf[t]
        left == atexit[p] \ {Target(t)}
    IN  /\ At(t, "stopped")
        /\ atexit' = [atexit EXCEPT ![p] = left]
        /\ IF thread[t].task = "shutdown"
           THEN /\ runtime' = [runtime EXCEPT ![p] = Uninitialized]
                /\ Leave(t)
                /\ UNCHANGED <<life, adrift>>
           ELSE RunHandlers(t, p, left) /\ UNCHANGED <<runtime, lock>>
        /\ UNCHANGED <<servers, launched, unclaimed, file, calls>>

(* A signal that Python does not handle, or a crash: no handler at exit    *)
(* runs, and the children, in sessions of their own, do not notice.        *)
Kill(p) ==
    /\ "kill" \in Faults
    /\ life[p] \in {"running", "exiting"}
    /\ life' = [life EXCEPT ![p] = "killed"]
    /\ thread' = [t \in Threads |-> IF ProcessOf[t] = p THEN IdleThread ELSE thread[t]]
    /\ UNCHANGED <<runtime, lock, atexit, children, file, calls>>

-----------------------------------------------------------------------------
(* A server process: cli.launch. Its configuration is refused, or it writes*)
(* the address file and runs uvicorn.                                      *)
WriteAddressFile(s) ==
    /\ servers[s].state = "validating"
    /\ \/ SetState(s, "starting") /\ file' = servers[s].at
       \/ SetState(s, "gone") /\ UNCHANGED file
    /\ UNCHANGED <<runtime, lock, process, thread, launched, history, calls>>

(* uvicorn (external): the lifespan starts and may raise; then the port is *)
(* bound, unless another server has it.                                    *)
Bind(s) ==
    /\ servers[s].state = "starting"
    /\ \/ ~Healthy(servers[s].at) /\ SetState(s, "serving")
       \/ SetState(s, "leaving")
    /\ UNCHANGED <<runtime, lock, process, thread, launched, history, file, calls>>

(* uvicorn ends after a signal: it returns, or raises the signal again,    *)
(* which ends the process.                                                 *)
End(s) ==
    /\ servers[s].state = "ending"
    /\ \/ SetState(s, "leaving")
       \/ SetState(s, "gone")
    /\ UNCHANGED <<runtime, lock, process, thread, launched, history, file, calls>>

(* The finally clause: _remove_address_file.                               *)
RemoveAddressFile(s) ==
    /\ servers[s].state = "leaving"
    /\ SetState(s, IF file = servers[s].at THEN "unlinking" ELSE "gone")
    /\ UNCHANGED <<runtime, lock, process, thread, launched, history, file, calls>>

UnlinkAddressFile(s) ==
    /\ servers[s].state = "unlinking"
    /\ file' = None
    /\ SetState(s, "gone")
    /\ UNCHANGED <<runtime, lock, process, thread, launched, history, calls>>

Crash(s) ==
    /\ "crash" \in Faults
    /\ s \in Serving
    /\ SetState(s, "gone")
    /\ UNCHANGED <<runtime, lock, process, thread, launched, history, file, calls>>

(* "tuft launch" by hand. TUFT_PORT and "--port=N" are not for the scan: it *)
(* takes the default port.                                                 *)
LaunchDaemon(a) ==
    /\ calls < MaxCalls
    /\ calls' = calls + 1
    /\ launched' = launched + 1
    /\ \E told \in {a, Default} :
           servers' = [servers EXCEPT ![launched'] =
               [state |-> "validating", at |-> a, told |-> told, owner |-> None, keys |-> {Given}]]
    /\ UNCHANGED <<runtime, lock, process, thread, history, file>>

StopDaemon(s) ==
    /\ s \in Serving /\ servers[s].owner = None
    /\ SetState(s, "ending")
    /\ UNCHANGED <<runtime, lock, process, thread, launched, history, file, calls>>

-----------------------------------------------------------------------------
Init ==
    /\ runtime = [p \in Procs |-> Uninitialized]
    /\ lock = [p \in Procs |-> None]
    /\ life = [p \in Procs |-> "running"]
    /\ atexit = [p \in Procs |-> {}]
    /\ thread = [t \in Threads |-> IdleThread]
    /\ servers = [s \in Ids |-> NoServer]
    /\ launched = 0
    /\ adrift = {} /\ unclaimed = {}
    /\ file = None
    /\ calls = 0

Discover(t) ==
    \/ DiscoverExplicit(t) \/ DiscoverFromEnv(t) \/ ReadAddressFile(t)
    \/ DiscoverFromAddressFile(t) \/ DiscoverFromProcessScan(t) \/ DiscoverFromDefaultPort(t)

Stop(t) == Signal(t) \/ Reap(t) \/ CheckFile(t) \/ Unlink(t) \/ Stopped(t)

(* What a thread does by itself once it is in a call.                      *)
Proceed(t) ==
    \/ EnterInit(t) \/ EnterShutdown(t) \/ Discover(t)
    \/ Launch(t) \/ Poll(t) \/ Probe(t) \/ Ready(t) \/ Stop(t)

ServerProcess(s) ==
    WriteAddressFile(s) \/ Bind(s) \/ End(s) \/ RemoveAddressFile(s) \/ UnlinkAddressFile(s)

Next ==
    \/ \E t \in Threads :
           \/ \E a \in InitArgs : BeginInit(t, a)
           \/ BeginShutdown(t) \/ BeginExit(t) \/ Proceed(t) \/ Deadline(t) \/ Escape(t)
    \/ \E p \in Procs : Kill(p)
    \/ \E s \in Ids : ServerProcess(s) \/ Crash(s) \/ StopDaemon(s)
    \/ \E a \in Addresses : LaunchDaemon(a)

Spec == Init /\ [][Next]_vars

-----------------------------------------------------------------------------
(* Properties                                                              *)

(* A process knows its children: whatever two threads, failed starts,      *)
(* shutdowns and crashes do, a child that lives is the one of              *)
(* _embedded_server, which shutdown would stop. Exceptions that leave the  *)
(* poll, or come from the client for a child, are the exception: the next  *)
(* init may put another server in the place of theirs.                     *)
NoStrayChild ==
    \A s \in Alive \ (adrift \cup unclaimed) :
        LET p == servers[s].owner
        IN  p # None /\ life[p] = "running" => runtime[p].server = s

(* "Embedded services are tied to the main process": an exit that runs the *)
(* handlers leaves no child behind, neither of a failed start nor of a call*)
(* that found no client. Only a child outlives it whose start was left by  *)
(* an exception, or cut short in a daemon thread, before it came to        *)
(* atexit.register.                                                        *)
ExitStopsServers ==
    \A s \in Alive \ adrift : servers[s].owner # None => life[servers[s].owner] # "gone"

(* "Only when no running service is found does it start an embedded        *)
(* instance": none is missed that has answered since discovery began at    *)
(* the address that its command line tells, though the address file may    *)
(* name another server, a dead one or none.                                *)
NoNeedlessLaunch ==
    \A t \in Threads : At(t, "launching") =>
        \A s \in thread[t].seen \cap Serving : servers[s].told # servers[s].at
============================================================================
