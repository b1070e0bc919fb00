--------------------------- MODULE ServiceInstance ---------------------------
(***************************************************************************)
(* Processes of the service that share one runtime directory: the flock    *)
(* lease, the socket and the pid file at their paths, the start order of   *)
(* the machine and the job coordinator, the clients that connect, and the  *)
(* shutdown that unwinds all of it.  A process may be killed between any   *)
(* two steps: the kernel then drops its lock, its listener and its         *)
(* threads, and leaves its socket and pid file behind.                     *)
(*                                                                         *)
(* Source: cli/service.py, service/_instance.py, service/server.py,        *)
(* service/runtime.py, bootstrap.py.  What the coordinators do is in       *)
(* MachineCoordinator and JobCoordinator; what a handler does, in them and *)
(* in Staging.                                                             *)
(***************************************************************************)
EXTENDS FiniteSets, Naturals

CONSTANTS
  Processes,        \* each lives once
  Clients,          \* client connections
  Awaits,           \* the processes whose asyncio waits, in Server.wait_closed, for open
                    \* connections (CPython 3.12.1 and later; 3.11 returns at once)
  MaxServiceFaults  \* calls of the service that raise or time out

VARIABLES
  at,           \* at[p]: where the main task of the process is
  lock,         \* the process that holds the flock
  path,         \* whose socket is at the socket path
  pidfile,      \* whose pid file is at its path
  listener,     \* listener[p]: the socket in the kernel
  machine,      \* machine[p]: the machine coordinator's thread
  jobs,         \* jobs[p]: the job coordinator's thread
  conn,         \* conn[c]: the connection of a client
  ifaults

Nobody == "nobody"
NoConn == [is |-> "idle", to |-> Nobody, taken |-> FALSE]

files == <<path, pidfile>>
threads == <<machine, jobs>>
serviceVars == <<at, lock, files, listener, threads, conn, ifaults>>

Init ==
  /\ at = [p \in Processes |-> "off"]
  /\ lock = Nobody /\ path = Nobody /\ pidfile = Nobody
  /\ listener = [p \in Processes |-> "none"]
  /\ machine = [p \in Processes |-> "none"] /\ jobs = [p \in Processes |-> "none"]
  /\ conn = [c \in Clients |-> NoConn]
  /\ ifaults = 0

Raises == ifaults < MaxServiceFaults /\ ifaults' = ifaults + 1
Goes(p, from, to) == at[p] = from /\ at' = [at EXCEPT ![p] = to]
Keeps == UNCHANGED <<conn, ifaults>>

-----------------------------------------------------------------------------
(***************************************************************************)
(* Start: build_runtime, build_instance_lease, ServiceRuntime.start.       *)
(***************************************************************************)
\* The configuration and the access policy are read before the lease is taken.
Build(p) ==
  /\ Goes(p, "off", "built")
  /\ UNCHANGED <<lock, files, listener, threads>> /\ Keeps

\* Mutated form of the next definition: the lease is not waited for.
AcquireAnyway(p) ==
  /\ Goes(p, "built", "leased") /\ lock' = p
  /\ UNCHANGED <<files, listener, threads>> /\ Keeps

\* InstanceLease.acquire: a held lock ends the process (SERVICE_ALREADY_RUNNING).
Acquire(p) ==
  /\ IF lock = Nobody THEN Goes(p, "built", "leased") /\ lock' = p
     ELSE Goes(p, "built", "dead") /\ UNCHANGED lock
  /\ UNCHANGED <<files, listener, threads>> /\ Keeps

StartMachine(p) ==
  /\ Goes(p, "leased", "machine")
  /\ machine' = [machine EXCEPT ![p] = "running"]
  /\ UNCHANGED <<lock, files, listener, jobs>> /\ Keeps

StartJobs(p) ==
  /\ Goes(p, "machine", "jobs")
  /\ jobs' = [jobs EXCEPT ![p] = "running"]
  /\ UNCHANGED <<lock, files, listener, machine>> /\ Keeps

StartAudit(p) ==
  /\ Goes(p, "jobs", "started")
  /\ UNCHANGED <<lock, files, listener, threads>> /\ Keeps

\* A start that raises stops what it started, the machine first; the server was
\* not built and stop() has nothing to do.
StartFails(p) ==
  /\ \E from \in {"leased", "machine", "jobs"} : Goes(p, from, "release")
  /\ Raises
  /\ machine' = [machine EXCEPT ![p] = IF @ = "running" THEN "stopped" ELSE @]
  /\ jobs' = [jobs EXCEPT ![p] = IF @ = "running" THEN "stopped" ELSE @]
  /\ UNCHANGED <<lock, files, listener, conn>>

-----------------------------------------------------------------------------
(***************************************************************************)
(* serve: the stale socket goes, the listener and the pid file come, then  *)
(* the staging is reconciled, then clients are served.                     *)
(***************************************************************************)
InUse == path # Nobody /\ listener[path] # "none"

\* _remove_proven_stale_socket: a socket that answers, or that the kernel still
\* knows, is another service's.
Probe(p) ==
  /\ Goes(p, "started", IF InUse THEN "closing" ELSE "stale")
  /\ UNCHANGED <<lock, files, listener, threads>> /\ Keeps

UnlinkStale(p) ==
  /\ Goes(p, "stale", "binding") /\ path' = Nobody
  /\ UNCHANGED <<lock, pidfile, listener, threads>> /\ Keeps

\* bind refuses a path that is taken.
Bind(p) ==
  /\ IF path = Nobody
     THEN Goes(p, "binding", "bound") /\ path' = p /\ listener' = [listener EXCEPT ![p] = "bound"]
     ELSE Goes(p, "binding", "closing") /\ UNCHANGED <<path, listener>>
  /\ UNCHANGED <<lock, pidfile, threads>> /\ Keeps

Listen(p) ==
  /\ Goes(p, "bound", "listening")
  /\ listener' = [listener EXCEPT ![p] = "listening"]
  /\ UNCHANGED <<lock, files, threads>> /\ Keeps

WritePidFile(p) ==
  /\ Goes(p, "listening", "recorded") /\ pidfile' = p
  /\ UNCHANGED <<lock, path, listener, threads>> /\ Keeps

\* The access policy still holds and reconcile_staging("startup") returned.
Ready(p) ==
  /\ Goes(p, "recorded", "serving")
  /\ UNCHANGED <<lock, files, listener, threads>> /\ Keeps

\* Anything that raises before that (a socket whose identity changes under the
\* probe, bind, the policy's checks, the startup reconciliation), and the periodic
\* maintenance after it.
ServeFails(p) ==
  /\ \E from \in {"started", "stale", "binding", "bound", "listening", "recorded", "serving"} :
       Goes(p, from, "closing")
  /\ Raises
  /\ UNCHANGED <<lock, files, listener, threads, conn>>

\* SIGINT or SIGTERM.
StopRequested(p) ==
  /\ Goes(p, "serving", "closing")
  /\ UNCHANGED <<lock, files, listener, threads>> /\ Keeps

-----------------------------------------------------------------------------
(***************************************************************************)
(* Clients.                                                                *)
(***************************************************************************)
\* The kernel takes connections from listen on; they wait for the event loop.
Connect(c) ==
  /\ conn[c].is = "idle" /\ path # Nobody /\ listener[path] = "listening"
  /\ conn' = [conn EXCEPT ![c] = [is |-> "silent", to |-> path, taken |-> FALSE]]
  /\ UNCHANGED <<at, lock, files, listener, threads, ifaults>>

\* A client need not send its frame: _read_frame has no deadline.
SendFrame(c) ==
  /\ conn[c].is = "silent"
  /\ conn' = [conn EXCEPT ![c].is = "waiting"]
  /\ UNCHANGED <<at, lock, files, listener, threads, ifaults>>

\* It may close its end: the server's task reads the end and closes the other.
ClientLeaves(c) ==
  /\ conn[c].is \in {"silent", "waiting"}
  /\ conn' = [conn EXCEPT ![c].is = "dropped"]
  /\ UNCHANGED <<at, lock, files, listener, threads, ifaults>>

\* _accept_client: a writer and a task of its own for the connection.
Accept(c) ==
  /\ conn[c].is \in {"silent", "waiting"} /\ ~conn[c].taken /\ at[conn[c].to] = "serving"
  /\ conn' = [conn EXCEPT ![c].taken = TRUE]
  /\ UNCHANGED <<at, lock, files, listener, threads, ifaults>>

\* The tasks of the connections run until the shutdown closes their writers.
Attended(c) == conn[c].taken /\ at[conn[c].to] \in {"serving", "closing", "draining"}

\* _handle_client: decode, dispatch, answer, without a step of another task.
Handle(c) ==
  /\ conn[c].is = "waiting" /\ Attended(c)
  /\ conn' = [conn EXCEPT ![c].is = "answered"]
  /\ UNCHANGED <<at, lock, files, listener, threads, ifaults>>

\* The access policy changed, or the task raised: the connection is closed without
\* an answer.
HandleFails(c) ==
  /\ conn[c].is \in {"silent", "waiting"} /\ Attended(c) /\ Raises
  /\ conn' = [conn EXCEPT ![c].is = "dropped"]
  /\ UNCHANGED <<at, lock, files, listener, threads>>

\* The event loop's part.
Serve(c) == Accept(c) \/ Handle(c)

Open(p) == {c \in Clients : conn[c].is \in {"silent", "waiting"} /\ conn[c].to = p}
Taken(p) == {c \in Open(p) : conn[c].taken}
Dropped(cs) == [c \in Clients |-> IF c \in cs THEN [conn[c] EXCEPT !.is = "dropped"] ELSE conn[c]]

-----------------------------------------------------------------------------
(***************************************************************************)
(* Shutdown: the server, the runtime, the lease.                           *)
(***************************************************************************)
\* Server.close, by serve_forever's end or by _shutdown: the listener goes, and
\* with it the connections the event loop has not taken.
CloseListener(p) ==
  /\ Goes(p, "closing", "draining")
  /\ listener' = [listener EXCEPT ![p] = "none"]
  /\ conn' = Dropped(Open(p) \ Taken(p))
  /\ UNCHANGED <<lock, files, threads, ifaults>>

\* _shutdown closes the writers and cancels the tasks of the connections behind
\* Server.wait_closed, which from CPython 3.12.1 on returns when no connection is
\* open any more.
CloseConnections(p) ==
  /\ Goes(p, "draining", "closed")
  /\ p \in Awaits => Taken(p) = {}
  /\ conn' = Dropped(Taken(p))
  /\ UNCHANGED <<lock, files, listener, threads, ifaults>>

RemovePidFile(p) ==
  /\ Goes(p, "closed", "unrecorded")
  /\ pidfile' = IF pidfile = p THEN Nobody ELSE pidfile
  /\ UNCHANGED <<lock, path, listener, threads>> /\ Keeps

UnlinkSocket(p) ==
  /\ Goes(p, "unrecorded", "stop")
  /\ path' = IF path = p THEN Nobody ELSE path
  /\ UNCHANGED <<lock, pidfile, listener, threads>> /\ Keeps

\* ServiceRuntime.stop: the shutdown reconciliation, and only when it returns
\* the machine coordinator, whose stop joins the thread.
Reconcile(p) ==
  /\ Goes(p, "stop", "stopmachine")
  /\ UNCHANGED <<lock, files, listener, threads>> /\ Keeps

ReconcileFails(p) ==
  /\ Goes(p, "stop", "stopjobs") /\ Raises
  /\ UNCHANGED <<lock, files, listener, threads, conn>>

StopMachine(p) ==
  /\ Goes(p, "stopmachine", "stopjobs")
  /\ machine' = [machine EXCEPT ![p] = "stopped"]
  /\ UNCHANGED <<lock, files, listener, jobs>> /\ Keeps

StopJobs(p) ==
  /\ Goes(p, "stopjobs", "release")
  /\ jobs' = [jobs EXCEPT ![p] = "stopped"]
  /\ UNCHANGED <<lock, files, listener, machine>> /\ Keeps

\* JobCoordinator.stop gives up waiting; its thread ends when its work does.
StopJobsTimesOut(p) ==
  /\ Goes(p, "stopjobs", "release") /\ Raises
  /\ jobs' = [jobs EXCEPT ![p] = "ending"]
  /\ UNCHANGED <<lock, files, listener, machine, conn>>

JobsEnd(p) ==
  /\ jobs[p] = "ending"
  /\ jobs' = [jobs EXCEPT ![p] = "stopped"]
  /\ UNCHANGED <<at, lock, files, listener, machine>> /\ Keeps

Release(p) ==
  /\ Goes(p, "release", "exit")
  /\ lock' = IF lock = p THEN Nobody ELSE lock
  /\ UNCHANGED <<files, listener, threads>> /\ Keeps

\* The interpreter waits for threads that are not daemons.
Alive(p) == machine[p] = "running" \/ jobs[p] \in {"running", "ending"}

Exit(p) ==
  /\ ~Alive(p) /\ Goes(p, "exit", "dead")
  /\ UNCHANGED <<lock, files, listener, threads>> /\ Keeps

Kill(p) ==
  /\ at[p] \notin {"off", "dead"}
  /\ at' = [at EXCEPT ![p] = "dead"]
  /\ lock' = IF lock = p THEN Nobody ELSE lock
  /\ listener' = [listener EXCEPT ![p] = "none"]
  /\ machine' = [machine EXCEPT ![p] = "none"] /\ jobs' = [jobs EXCEPT ![p] = "none"]
  /\ conn' = Dropped(Open(p))
  /\ UNCHANGED <<files, ifaults>>

-----------------------------------------------------------------------------
MainTask(p) ==
  \/ Acquire(p) \/ StartMachine(p) \/ StartJobs(p) \/ StartAudit(p) \/ StartFails(p)
  \/ Probe(p) \/ UnlinkStale(p) \/ Bind(p) \/ Listen(p) \/ WritePidFile(p) \/ Ready(p) \/ ServeFails(p)
  \/ CloseListener(p) \/ CloseConnections(p) \/ RemovePidFile(p) \/ UnlinkSocket(p)
  \/ Reconcile(p) \/ ReconcileFails(p) \/ StopMachine(p) \/ StopJobs(p) \/ StopJobsTimesOut(p) \/ Release(p) \/ Exit(p)

ClientStep ==
  \E c \in Clients : Connect(c) \/ SendFrame(c) \/ ClientLeaves(c) \/ Serve(c) \/ HandleFails(c)

Next ==
  \/ \E p \in Processes : MainTask(p) \/ Build(p) \/ StopRequested(p) \/ JobsEnd(p) \/ Kill(p)
  \/ ClientStep

Spec == Init /\ [][Next]_serviceVars

\* What runs, runs on: the main task of a process until it serves, and from the
\* shutdown to its end.
Advances(p) == at[p] \notin {"off", "serving"} /\ MainTask(p)

-----------------------------------------------------------------------------
Phases ==
  {"off", "built", "leased", "machine", "jobs", "started", "stale", "binding", "bound", "listening",
   "recorded", "serving", "closing", "draining", "closed", "unrecorded", "stop", "stopmachine", "stopjobs",
   "release", "exit", "dead"}

TypeOK ==
  /\ at \in [Processes -> Phases]
  /\ lock \in Processes \cup {Nobody}
  /\ path \in Processes \cup {Nobody} /\ pidfile \in Processes \cup {Nobody}
  /\ listener \in [Processes -> {"none", "bound", "listening"}]
  /\ machine \in [Processes -> {"none", "running", "stopped"}]
  /\ jobs \in [Processes -> {"none", "running", "ending", "stopped"}]
  /\ conn \in [Clients -> [is : {"idle", "silent", "waiting", "answered", "dropped"},
                           to : Processes \cup {Nobody}, taken : BOOLEAN]]

\* A process that serves owns everything it promises: the lease, the socket at
\* the path and the pid file, which no other process, starting, stopping or
\* dying at any moment, has removed or replaced; and both coordinators run, in
\* no other process that is not at its exit.
ServingOwns ==
  /\ \A p \in Processes : at[p] = "serving" =>
       /\ lock = p /\ path = p /\ pidfile = p /\ listener[p] = "listening"
       /\ machine[p] = "running" /\ jobs[p] = "running"
  /\ \A p, q \in Processes : p # q /\ Alive(p) /\ Alive(q) => "exit" \in {at[p], at[q]}

\* A client that sends nothing has its connection while it is served.
SilentOnlyServed == \A c \in Clients : conn[c].is = "silent" => at[conn[c].to] = "serving"

\* A shutdown that waits for a client which sends nothing (the finding of MCStalled).
Stalls(c) ==
  /\ conn[c].is = "silent" /\ conn[c].taken
  /\ conn[c].to \in Awaits /\ at[conn[c].to] = "draining"

\* No client is left on its connection: a frame is answered, or the connection is
\* closed, also when the service fails before it serves, or stops or dies while the
\* client waits; a client that sends nothing has its connection while it is served,
\* and, where Server.wait_closed waits for it, keeps it until it leaves.
ConnectionsEnded ==
  \A c \in Clients :
    /\ conn[c].is # "waiting"
    /\ conn[c].is = "silent" => at[conn[c].to] = "serving" \/ Stalls(c)

\* docs/current/recovery.md: "service shutdown ... closes the owned session": a
\* process that has released the lease has no machine thread left.
ShutdownStopsMachine == \A p \in Processes : at[p] = "exit" => machine[p] # "running"

===============================================================================
