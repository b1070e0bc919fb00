----------------------------- MODULE MCParts -------------------------------
(***************************************************************************)
(* Components that share no state with one another, each checked on a      *)
(* small instance: a behaviour is one of the chosen parts running by       *)
(* itself, while the variables of the others keep their initial values.    *)
(* The machine coordinator's part is the module that is extended.          *)
(***************************************************************************)
EXTENDS MachineCoordinator, FiniteSets

CONSTANTS Parts, Lines, CalSteps, MaxEvidence, MaxLineFaults,
          Input, WorkerAttempts, MaxStoreCrashes, MaxStoreFaults,
          Processes, Clients, Awaits, MaxServiceFaults,
          Requests, Args, MaxSends, MaxMishaps

ASSUME PartsAssumption ==
  /\ Parts \subseteq {"mailbox", "serial", "store", "service", "staging"}
  /\ IsFiniteSet(Requests) /\ "no_request" \notin Requests /\ Args \subseteq Nat \ {0}
  /\ MaxSends \in Nat /\ MaxMishaps \in Nat
  /\ Lines \in Nat /\ CalSteps \in Nat /\ MaxEvidence \in Nat \ {0}
  /\ "nobody" \notin Processes /\ Awaits \subseteq Processes
  /\ Input \notin WorkerAttempts /\ "no_attempt" \notin {Input} \cup WorkerAttempts
  /\ MaxStoreCrashes \in Nat /\ MaxStoreFaults \in Nat

VARIABLES
  part,       \* the component this behaviour is of
  spc, op, step, cmd, status, evidence, settled, failure, results, rx, tx, link, planner, homed,
  taken, alarm, lost, stray, trouble, crossed, unasked, pending, durable, lifetime, sfaults,
  jpc, cur, stage, begun, claim, refs, jobdir, bundle, doc, xpc, xcur, exportdir, export, published,
  unsynced, sused,
  at, lock, path, pidfile, listener, machine, jobs, conn, ifaults,
  client, loc, lease, overdue, obs, adm, bound, job, art, markers, blocked, svc, mail, frames, answers, used

serialVars == <<spc, op, step, cmd, status, evidence, settled, failure, results, rx, tx, link, planner, homed,
  taken, alarm, lost, stray, trouble, crossed, unasked, pending, durable, lifetime, sfaults>>
storeVars == <<jpc, cur, stage, begun, claim, refs, jobdir, bundle, doc, xpc, xcur, exportdir, export,
  published, unsynced, sused>>
serviceVars == <<at, lock, path, pidfile, listener, machine, jobs, conn, ifaults>>
stagingVars == <<client, loc, lease, overdue, obs, adm, bound, job, art, markers, blocked, svc, mail, frames,
  answers, used>>

Serial == INSTANCE SerialSessionProofs
Store == INSTANCE ArtifactStore
Service == INSTANCE ServiceInstance
Staged == INSTANCE StagingProofs

MailboxOnly == part = "mailbox" /\ UNCHANGED <<part, serialVars, storeVars, serviceVars, stagingVars>>
SerialOnly == part = "serial" /\ UNCHANGED <<part, vars, storeVars, serviceVars, stagingVars>>
StoreOnly == part = "store" /\ UNCHANGED <<part, vars, serialVars, serviceVars, stagingVars>>
ServiceOnly == part = "service" /\ UNCHANGED <<part, vars, serialVars, storeVars, stagingVars>>
StagingOnly == part = "staging" /\ UNCHANGED <<part, vars, serialVars, storeVars, serviceVars>>

partVars == <<part, vars, serialVars, storeVars, serviceVars, stagingVars>>

PartsInit ==
  /\ part \in Parts /\ Init /\ Serial!Init /\ Store!Init /\ Service!Init /\ Staged!Init
  /\ part # "serial" => homed

PartsNext ==
  \/ MailboxOnly /\ Next
  \/ SerialOnly /\ Serial!Next
  \/ StoreOnly /\ Store!Next
  \/ ServiceOnly /\ Service!Next
  \/ StagingOnly /\ Staged!Next

\* The fairness each component states for itself: MachineCoordinator for its owner
\* thread, its stopper and its callers, SerialSession for the thread of the session
\* and its clock, ServiceInstance for the main task and the event loop, Staging for
\* the service, its threads, its maintenance and its clients. A behaviour is of one
\* part, so fairness of a union of actions of different parts is fairness of each.
PartsFairness ==
  /\ WF_partVars(\/ MailboxOnly /\ Run
                 \/ SerialOnly /\ Serial!SessionStep
                 \/ StagingOnly /\ (Staged!Reconcile \/ Staged!Command))
  /\ WF_partVars(\/ MailboxOnly /\ StopRest
                 \/ SerialOnly /\ Serial!DeadlineExpires
                 \/ StagingOnly /\ Staged!Thread)
  /\ WF_partVars(StagingOnly /\ Staged!Periodic)
  /\ WF_partVars(StagingOnly /\ Staged!Start /\ svc.out # "stopped")
  /\ \A c \in Commands : WF_partVars(MailboxOnly /\ Wait(c))
  /\ \A p \in Processes : WF_partVars(ServiceOnly /\ Service!Advances(p))
  /\ \A c \in Clients : WF_partVars(ServiceOnly /\ Service!Serve(c))
  /\ \A r \in Requests : /\ WF_partVars(StagingOnly /\ Staged!ClientStep(r))
                         /\ SF_partVars(StagingOnly /\ Staged!DeadlinePasses(r))

PartsSpec == PartsInit /\ [][PartsNext]_partVars /\ PartsFairness

-----------------------------------------------------------------------------
\* Every variable has its type.
PartsTypeOK ==
  part \in Parts /\ TypeOK /\ Serial!TypeOK /\ Store!TypeOK /\ Service!TypeOK /\ Staged!TypeOK

\* SerialSession!AckedPrefix: one line, one acknowledgement, and a durable row
\* that never claims more than the controller accepted.
AckedPrefix == Serial!AckedPrefix

\* SerialSession!StreamSafe: a stream reported as complete was drawn, and a line of
\* trouble stops the sender.
StreamSafe == Serial!StreamSafe

\* SerialSession!ProgressFinal: a late progress callback changes nothing.
ProgressFinal == Serial!ProgressFinal

\* SerialSession!IdleProven: success is reported after an answered status query.
IdleProven == Serial!IdleProven

\* Everything that is waited for ends, whatever the other side does: every caller of
\* the machine coordinator and every stop() returns, every operation of the serial
\* session comes to rest, every frame of a client is answered or its connection
\* closed (a client that sends nothing may hold its connection), and what a client
\* published leaves the shared directories.
EverythingEnds ==
  []<>(/\ part = "mailbox" => NobodyWaits
       /\ part = "serial" => Serial!AtRest
       /\ part = "service" => Service!ConnectionsEnded
       /\ part = "staging" => Staged!Drained)

\* ArtifactStore!StoreSafe: what a row refers to and what a client was given is
\* there, and no name is torn.
StoreSafe == Store!StoreSafe

\* ServiceInstance!ServingOwns: a serving process owns all it promises, alone.
ServingOwns == Service!ServingOwns

\* test_unix_socket.py, test_close_terminates_stalled_connections_without_leaking_tasks:
\* a connection whose client has stopped in mid frame ends when the service does.
StalledConnectionsEnd == []<>Service!SilentOnlyServed

\* ServiceInstance!ShutdownStopsMachine: no machine thread outlives the lease.
ShutdownStopsMachine == Service!ShutdownStopsMachine

\* Staging!PayloadsKept: nothing a client handed over is lost or left.
PayloadsKept == Staged!PayloadsKept

\* Staging!RequestsExact: a request and its job are one.
RequestsExact == Staged!RequestsExact

\* Staging!BlockedRefuses: unresolved evidence admits nothing.
BlockedRefuses == Staged!BlockedRefuses

\* Staging!HeldLeaseBlocksOnly: a preparation a client holds blocks its role at most.
HeldLeaseBlocksOnly == Staged!HeldLeaseBlocksOnly
=============================================================================
