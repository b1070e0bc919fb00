# A TLA+ verification of the drawing machine's control program

`src/` is a local service that turns an image into G-code and drives a pen
plotter (a FluidNC controller on a serial port) from it. A person approves every
physical motion. This project models the parts of that service whose correctness
depends on interleaving, failure and restart, checks them with TLC on small
instances, and proves the most important results with TLAPS for every instance.

Paths below are relative to `src/src/drawingmachine/`.

## 1. Inventory

| Component | State it keeps | Operations | Talks to | What is hard |
|---|---|---|---|---|
| Machine execution chain, `application/machine/execution.py` | live FluidNC sessions, sessions whose close is uncertain, session evidence, stream progress | prepare, request and consume an approval, HOME, ZCAL, ZCONFIRM, STREAM, HOME_Z, recover (release, restart, safe home), replay, start and shutdown reconciliation | machine repository (transactions), artifact store, FluidNC adapter | crash between two transactions, commit that fails after the machine moved, close with unknown effect |
| Machine persistence, `adapters/persistence/machine_sql.py`, `migrations/0003`, `0005` | executions, approval challenges, request admissions, events, progress | insert, revision-checked update, claim, retire, transfer, reconcile | SQLite; shares the job rows with the job thread | one global owner, frozen evidence, admission used once |
| Approval challenges, `domain/machine/approvals.py` | status, binding, two deadlines | issue, consume, supersede, expire | the chain | staleness, expiry, replay |
| Machine coordinator, `service/machine_coordinator.py` | mailbox, envelope states, stop and fatal flags | submit, observe, stop, run loop | request threads, chain | acknowledgement timeout against commit, stop against admission |
| Serial adapter, `adapters/hardware/serial_fluidnc.py` | transport, one-open latch, closed and failed flags | open, preflight, motion, stream, close | controller | line protocol, timeouts, late lines |
| Offline job chain, `application/offline_job_chain.py`; job coordinator, `service/job_coordinator.py` | job rows, queue, running worker | submit, advance, continue after review, cancel, recover | job repository, worker supervisor, artifact store | cancel against completion, crash in a stage |
| Worker supervisor, `adapters/workers/process_supervisor.py`, `worker_entrypoint.py` | child processes, outcome pipe, reader threads, deadlines | submit, wait, cancel, close | worker processes | deadline against outcome, partial frames, a child that survives a signal |
| Client data, `adapters/filesystem/client_data.py`; staging reconciliation, `application/staging_reconciliation.py` | bundles and leases in shared directories, observations, admission rows, recovery markers | prepare, publish, transfer, discard, claim, import, consume, quarantine | client processes, database, job thread | two sides without a common lock, either of which may die between any two steps |
| Artifact store, `adapters/filesystem/artifact_store.py`, `_secure_fs.py`, `_artifact_validation.py` | staged, promoted and exported files, `job.json` | stage, promote, revoke, project, export | filesystem, database | power loss between copy, fsync, rename and commit |
| Runtime, server, lease, `service/runtime.py`, `server.py`, `_instance.py` | lease, socket, pid file, connections, coordinator threads | start, serve, handle, stop | every coordinator, clients | two processes around one path, failing start and stop, shutdown order |
| ComfyUI provider, `adapters/providers/local_comfyui.py` | prepared requests, submissions | create, submit, poll, retrieve, release | HTTP service | calls that talk to the server without the lock, capacity, late results |
| OpenClaw integration, `adapters/filesystem/openclaw_install.py`, `service/openclaw_protocol.py` | managed files, transaction names, completed requests | install, roll back, check | filesystem, a registry of somebody else | one step of several failing, power loss |
| Access policy, protocol codec, CLI, configuration, G-code and planning, endpoint installation | none, or pure functions | validate, encode, plan | | pure computation, floating point |

What makes the core correct:

* at most one execution owns the machine, over all jobs and restarts;
* every motion is covered by one approval consumed for exactly that execution,
  revision and service, and is dispatched at most once;
* a program reaches the machine at most once, whatever fails or restarts; a
  recovery successor restarts only from an untouched stream;
* the port is never opened beside a session that may still be open;
* evidence in the database is never withdrawn, and the job row agrees with it;
* a job row refers to files that exist, whole, after a power loss too;
* what a client handed over is neither lost nor used twice;
* a worker's outcome is what the worker did, and no worker is left behind;
* one process serves, and every client and caller gets an answer or an end;
* whatever began settles.

`PROJECT.json` lists the components with their status and, under `hazards`,
where in the code each of these can go wrong.

## 2. What is modelled

### MachineExecution

The machine execution chain with its persistence, its approvals and the thread
that runs it. One step is one database transaction, one adapter call or one
session close. Between two steps the process may crash, the job thread may
cancel a job, and a challenge may run out of time.

| Variable | In the code |
|---|---|
| `jobs` | `jobs.state`, for jobs that reached READY_TO_RUN |
| `exec` | `machine_executions` rows: phase, revision, stream milestone, recovery intent, retirement, predecessor, job; `fresh` says that the row carries the running service's epoch |
| `chal` | the newest `machine_approval_challenges` row of an execution and action |
| `adm` | `machine_request_results` rows that carry an admission: reserved, claimed or invalidated |
| `sess` | `_sessions` ("held") and `_retained_sessions` ("retained") |
| `port` | executions whose serial session may physically still be open |
| `opened` | `SerialFluidNCFactory._opened` |
| `moved` | history: how often the adapter was told to perform each motion |
| `faults` | failing transactions so far (a bound) |
| `pc` | the coordinator thread: where it stands in `_process`, with the admission in hand and what the drive's local variables `session_closed`, `session_retained` and `confirmed` say |

The actions are grouped as in the code. *Lifecycle*: `Start`, `StartRefused`,
`StartFault` (initialize_and_reconcile), `Stop`, `ShutdownReconcile`,
`ShutdownUnreconciled`, `ShutdownClose` (shutdown_for_recovery and close),
`ProcessExit`, `Crash`. *Admission*: `CheckPrepare` and `CommitPrepare` (the read
outside and the check inside the transaction), `RequestMotion`, `ExecuteMotion`,
`RequestRecovery`, `ReleaseRecovery`, `TransferRecovery`, `Replay`. *Drive*:
`ClaimRequest`, `OpenSession`, `CommitPreflight`, `DriveMotion`,
`CommitFirstWrite`, `DriveStream`, the success commits, `CloseBeforeCompletion`,
`CommitCompleted`. *Failure*: `CommitRecovery`, `RecoveryCommitFails`,
`RecoveryReadFault`, `CloseFailedSession`, `CloseRecordFault`. *Beside*:
`CancelJob` (the job thread) and `TimeUp`.

Choices that deserve a reader's attention:

* The motion and recovery commands read before their transaction and check
  everything again inside it, so each is one step; PREPARE keeps both steps,
  since its read also decides what is loaded.
* Only the coordinator thread writes an active execution's row, so what a drive
  reads again after its claim is the row it claimed.
* Issuing a challenge retires the pending one for good, so the newest one stands
  for all. A service epoch is only compared with the running one, so one bit
  stands for it; `EndProcess` clears that bit everywhere.
* A failing transaction rolls back; what the code does next depends on where it
  happened (admission and claim end the coordinator, an outcome commit turns
  into a recovery commit, a failing recovery commit closes the session and ends
  the coordinator).
* A typed motion failure whose recovery commit fails raises its fatal signal
  inside the block that catches it. The drive tries again with a session it has
  already closed; `pc.close = "early"` carries this, and the second close
  reports SESSION_ALREADY_CLOSED, which counts as uncertain.
* A serial open that fails closes its transport and suppresses a failing close,
  so `port` may keep the execution although no session exists.
* `CommitPreflight` reads the session's row back; if that read raises, the
  session is held and the coordinator ends.
* Left out: principals and requester checks, digests and artifact
  re-validation (frozen with the job), event and evidence documents, progress
  checkpoints.

### MachineLatch

What the chain promises, without sessions, challenges, crashes or commits: a
latch that one job holds at a time, a set of jobs that were drawn, and the fate
of each job. A job is drawn only while it holds the latch and only once; it ends
completed only if it was drawn. `MachineExecution!ImplementsLatch` maps the
latch to the job of the active row, `drawn` to the jobs with a dispatched
stream, and `fate` to the job rows.

### MCMachineExecution

The module of the chain's own runs: `MachineExecution` and the two sentences of
the documentation that the code does not keep.

### MachineCoordinator

The threads around the chain (`service/machine_coordinator.py`): request threads
that submit commands, the owner thread, and the thread that calls `stop()`. One
step is one critical section of the state lock or of an envelope's lock, one
mailbox operation, or one call into the chain.

| Variable | In the code |
|---|---|
| `env` | the `_Envelope` of each command: state, `acknowledged`, `error`, `projection_ready` |
| `box` | the mailbox, envelopes and `_Stop` |
| `caller` | each request thread in `_submit` and `submit_observed`, and its answer at the end |
| `late` | commands whose deadline has passed |
| `thread` | the owner thread in `_run` and `_process`, with the envelope in hand |
| `stopper`, `stopping`, `fatal` | the thread in `stop()`, `_stopping`, `_fatal_error` |
| `arrived`, `admitted`, `shown` | history: order of puts, order of commits, commits the status shows |

Here a call into the chain commits, is refused or raises; what it does inside is
`MachineExecution`, whose `pc` is this owner thread between `ClaimAdmission` and
`NextRound`. `Deadline` is separate from `WaitExpires`, so a deadline can pass
before, while and after the owner thread asks `still_requested`, and an
acknowledgement can arrive between the expiry of a wait and its withdrawal.
`stop()` holds the state lock while it drains (`LockFree`), the owner thread
drains without it; both take one item at a time.

Left out: the comparison of projection revisions in `_publish_projection` (a
publication succeeds or raises; the owner thread makes all of them), a second
`start()`, a second concurrent `stop()`, and `submit` without observation, which
returns one step earlier than `submit_observed`. A submission during the
start cannot happen: the server opens its socket afterwards.

### JobCoordinator

Drawing jobs: job rows, the offline chain, and the coordinator thread that owns
it. A step is one critical section of the coordinator's lock or of an envelope's
lock, one commit, or one worker outcome.

| Variable | In the code |
|---|---|
| `rows` | `jobs` rows: state, revision, blocker code; `roles` are the roles of `job_artifacts` that later stages read |
| `known` | `_absolute_artifacts`: roles whose path the chain holds in memory |
| `proj`, `token`, `box` | `_projections`, `_tokens`, `_mailbox` |
| `env`, `late`, `caller` | `_Envelope` and its deadline; the thread in `submit()` |
| `pc`, `item`, `snap`, `work` | the coordinator thread: where it is, the mailbox item, the last record read, the running worker and whether it is the second attempt |
| `stopper`, `stopping` | the thread in `stop()`, `_stopping` |
| `owned`, `unsent` | external: jobs the machine executes, outcomes its thread has not yet announced |
| `committed`, `driven`, `paid` | history: what was committed and driven for which request, calls of the image provider |

Actions follow the code: `Submit`, `WaitEnds`, `WaitExpires`, `RequestCancel`
are request threads; `TakeCommand`, `CheckCommand` (`commit_allowed` before and
inside the transaction), `CommitCommand`, `Acknowledge`, `WriteProjection` are
one command; `Advance*` and `Worker*` are the drive; `TakeCancel`, `Cancel`,
`RecoverCancel` one cancellation; `FailBefore` and `FailAfter` the two failure
handlers; `StartReady`, `StartFails`, `Stop*`, `Restart` the life of the service.
A decision and its commit are one step where only this thread may change the row
(jobs in flight); the cancellation of a resting job, which the machine thread
may change, reads and commits in two. `Fault` is any call of the repository or
the artifact store that raises, before or after its commit; `SecondFault` is one
inside a failure handler, with a bound of its own (`MaxHandlerFaults`). Behind it
the code has no fallback, and the properties that it breaks name it
(`HandlerFailed`): an error raised inside the handler after the commit is
reported although the job is durable, and a job may stay in flight until the next
start. Abstracted: how a staged input is imported (it
succeeds or raises), what the artifact content checks compare (an outcome that
fails them is a failed worker), request identities and audit rows. A submission
of a `"check"` job is `gcode.check`. A worker that begins between the look at
the cancellation event and `stop()` is ended by its own wait, so the look and the
launch are one step.

### SerialSession

The line protocol below one adapter call of `MachineExecution`
(`adapters/hardware/serial_fluidnc.py`) with the progress callbacks of the chain
and, at the other end, a FluidNC controller. The caller (`spc`, `op`, `step`,
`cmd`) writes a command, reads its reply, drains what else has arrived and asks
for an Idle status; `rx` and `tx` are the bytes under way. `pending`, `durable`
and `lifetime` are `_pending_progress`, the progress row and
`_StreamProgressLifetime`. The controller (external) accepts lines into its
planner and may refuse one, alarm, boot, fall silent, send a status line nobody
asked for, or send garbage; the line may lose a write, cut it short or be
unplugged; a progress commit may fail, and the service may die. `DeadlineExpires`
is the wall clock of `_read_line`. Numbers in status lines (positions, buffer
levels) are reduced to idle, busy (Run, Hold, Home), idle at the unhomed zero,
alarm, and `"Door"` for the states that no waiting ends (`WaitGivesUp`). A write
may raise or be cut short on a line that is plugged in; one that raises after the
line is out is a `Write` whose deadline expires.

### WorkerSupervisor

`SpawnProcessSupervisor` with the child's `main`, the reader thread of the
outcome pipe, and `OfflineJobChain._execute` above it. A child boots, works,
writes a frame in one piece or two, and exits; it may crash, hang, send a
failed, foreign or oversized outcome, and be slow to die of SIGTERM. The caller
goes through `wait` look by look (cancellation, pipe, clock, liveness), through
`cancel` with its grace period, terminate, kill, join and reap, and through the
retry and the promotion. The reader thread has a step of its own, so a frame can
be in the pipe, half read, or starved at every look.

### Staging

The hand-over of client inputs: a client process prepares a bundle, publishes it,
marks the dispatch uncertain and sends its frame; the service claims the bundle
for the request, the job thread imports and commits it, and `consume` removes it.
Around every command, at start and stop and periodically, the reconciliation goes
through the directories entry by entry (`ObservePrepare`, `JudgeObservation`,
`ReviewBundle`, `SettleBundle`, ...). `loc`, `lease` and `obs` are directories and
files shared with the clients, `adm`, `bound` and `job` are rows, `svc` is the
event loop and `mail` the job thread's mailbox. `Mishap`s are crashes of the
service and calls that raise. `PassRaises` is an exception that ends a pass (a
preparation renamed between `exists` and `lstat`, a row that cannot be written);
at start and while serving it goes on with the shutdown and its own
reconciliation. A caller may give up before or after the commit of its job, and
before or after the acknowledgement; `commit_allowed` and the COMMIT it guards are
one step, so that a wait that expires between them counts as one that expires
after the commit. One role is modelled, since
two roles share nothing.

### ArtifactStore

The files of one job. A directory entry is what a reader sees now and the set of
what a power loss may leave of it; fsync settles it, and a file that was not
flushed is torn by the loss. The job thread imports, stages, promotes (copy,
flush, rename, sync), commits the reference and replaces `job.json`; the event
loop exports for `job.status` with link and unlink; `RevokeDetaches` and
`RevokeSyncs` are `discard_promoted_bundle`. `unsynced` records the directories
whose sync failed or never came, because a call or the process ended between
mkdir and fsync, between the rename of an import and its fsync, or between the
unlink of an export's second name and its fsync. That is the one exception the
properties make. `PromoteFails` is a promotion that cannot make, open or sync its
directory; the staging directory of an import then stays.

### ServiceInstance

Up to three processes of the service around one lease, one socket path and one
pid file: the order of the start, the probe of a stale socket, bind and listen,
serving, a signal, the shutdown step by step, and the exit that waits for the
coordinators' threads. Each call may raise, `stop` of the job coordinator may
time out, and a process may be killed anywhere. A client connects, may stay
silent, send a frame or leave; the event loop takes its connection (`Accept`) and
handles it, or drops it.

The shutdown closes the listener and awaits `Server.wait_closed()` before it
closes the connections (`CloseListener`, `CloseConnections`). What that call does
is up to the version of Python, so the constant `Awaits` names the processes in
which it waits for open connections, as from CPython 3.12.1 on; in the others it
returns at once, as in 3.11. The project supports both (`requires-python` is
3.11, the CI runs 3.12).

### LocalComfyUI

`LocalComfyUIProvider` as an object shared by threads. A call takes the lock for
short steps and talks to the server between them. Prepared requests and
submissions are objects with an identity; `prepared` and `submissions` are the
dictionaries of those still owned. `_purge_expired_locked` is part of every step
that runs it. The server may fail, lose an answer or send an unusable one.
Abstracted: HTTP, JSON and image decoding, which pass or fail.

### OpenClawInstall

`openclaw.install`: the managed files are replaced one by one, through a
temporary name and a backup, then verified, then cleaned up; a failure before
the cleanup rolls back in reverse order. `dirs` is what each file's directory
shows, `kept` what a power loss may leave of it, `mut` the `_Mutation` in memory
with its names and frozen identities, `completed` the remembered results.
Calls raise at every step, the registry may be edited at any time, and the
process or the power may go. The service is the only writer of the managed
directories, so the error that reports a foreign change
(`recovery_required`, raised without a rollback) does not occur; `check` only
reads.

### MCParts, MCOuter, MCWorkers, MCJobCoordinator

Modules for TLC. `MCParts` and `MCOuter` put several components that share no
state into one run: `part` says which one a behaviour is of, the others keep
their initial state. The fairness of each component is restated with its guard.
`MCParts` instantiates SerialSession and Staging, and `MCOuter` instantiates
LocalComfyUI, through their proof modules, so that their theorems can be cited for
the composition.
`MCJobCoordinator` defines the jobs and requests of the job run, and `Scope`, what
that run looks at: every mishap together with the workflow and its approved review,
one of them together with the check, and any two requests without one. Fairness
asks for nothing that `Scope` refuses, since a client and a mishap are not obliged
to come and the thread always has a step without one. The deadlines and waits of
the callers have one fairness condition together, which is weaker than one each.

## 3. Runs

| Run | Instance | Checks |
|---|---|---|
| MCSerial | 2 jobs, 2 executions, 2 faults, HOME_Z on, reopening factory | `TypeOK`, `OneOwner`, `MotionApproved`, `PortSafe`, `RestingState`, `JobAgreement`; `DispatchUnderDurablePhase`, `EvidenceFrozen`; the chain implements MachineLatch |
| MCLineage | 1 job, 3 executions, 1 fault, HOME_Z off, reopening factory | `StreamAtMostOnce`, `RecoverySound` |
| MCOuter | *chain*: 1 job, 2 executions, 1 fault, fair; *provider*: 2 threads, 3 request identities, 2 places, 1 live submission, 1 failing answer; *OpenClaw*: 2 files in any initial state, 2 requests, 2 registry edits, 1 crash or power loss, 2 failing calls | `InitialSettles`; `OwnershipSafe`; `InstallSafe` |
| MCParts | *mailbox*: 2 requests, one stop; *serial*: 2 program lines, 1 calibration step, 2 faults; *store*: 1 import, 2 worker attempts, 2 crashes or power losses, 1 failing call; *service*: 3 processes, in one of which `wait_closed` waits, 1 client, 1 failing call, kills; *staging*: 1 bundle, 2 frames with any arguments, 1 crash or failing call; all fair | `AnswersHonest`, `Serialized`, `NothingStranded`, `QuietAfterStop`; `AckedPrefix`, `StreamSafe`, `ProgressFinal`; `StoreSafe`; `ServingOwns`; `PayloadsKept`, `RequestsExact`, `BlockedRefuses`; `EverythingEnds` |
| MCWorkers | 2 attempts, 1 failing call, fair | `ChildrenHeld`, `OutcomeHonest`, `CallsReturn` |
| MCJobs | 1 workflow (automatic route) with an approved and a refused review, 1 G-code check submitted twice, 1 cancellation, 1 execution by the machine, 1 restart, 1 fault and 1 inside a handler, one stop, within `Scope`, fair | `AnswersHonest`, `NoOrphan`, `StagesEarned`, `MachineAgreement`, `NoWorkWhileStopping`, `StatusMonotone`, `JobsSettle` |
| MCSuccessorCrash, MCReplay, MCIdleProven, MCHeldLease, MCShutdown, MCStalled | small instances of the chain, the session, staging and the service | violated: see below |

**Properties.** Several are conjunctions of named parts, each with its own
comment in its module: `PortSafe` (the port is exclusive, and owned by a session
that is held or retained), `RestingState` (a resting coordinator has nothing in
mid action and no admission left over), `RecoverySound` (safe successors, honest
completion), `StagesEarned` (a ready job went through every stage, with inputs
that are known, and the provider was called once), `MachineAgreement` (the
machine keeps its job, and its outcome is published), `ChildrenHeld`,
`StreamSafe`, `StoreSafe`, `PayloadsKept`, `RequestsExact`, `OwnershipSafe`,
`InstallSafe`. `EverythingEnds` joins the liveness of four components: nobody
waits for the coordinator forever, an adapter call comes to rest whatever the
controller does, a client's frame is answered or its connection ended, and a
published bundle leaves the shared directories. A client that sends nothing keeps
its connection while it is served, and, where `wait_closed` waits for it, through
the shutdown too; MCStalled shows that case. `StatusMonotone` looks at the
publication that the machine's thread asks for and that comes behind a
cancellation of the same job, at the same or a newer revision.

**Bounds.** `Executions` bounds how many execution rows are ever inserted, and
with them the challenges and admissions. Two let two jobs compete, or one job be
recovered once in the same or the next process; three let a successor of a
successor exist, the longest lineage in which intent and milestone are inherited
from an inherited row. `MaxFaults` bounds failing transactions only: two make
the retry of a failing commit fail as well. Crashes of the chain are not bounded.
When all execution ids are used, PREPARE and TRANSFER are disabled; the service
can still stop and start, so MCSerial and MCLineage keep their deadlock check.
The other runs switch it off: a coordinator, a session, a process lives once.

Two requests in the mailbox are one in the thread's hand and one that waits or
arrives during a stop. Two program lines have a line in doubt behind an
acknowledged one; two faults make the failure of a failure (a reset after a lost
acknowledgement, a crash after a failed progress commit). Two worker attempts
are the one retry. One job fault reaches every handler, and one more makes a
handler fail. Three processes are one that leaves, one that takes over, and one
that starts beside it. In the provider three identities compete for two prepared
places and two requests for one live submission, so both limits are met; two
objects let a call hold one that another has replaced. Two OpenClaw files, each old, absent or current, are
enough for a set that is half replaced; two failing calls let the rollback fail.

**Fairness.** Threads that are not blocked run, deadlines pass, and a service
that ended with an error is started again (`Restart=on-failure` of the shipped
unit). In particular: the coordinator threads finish what they began, since
every adapter call has a deadline, every transaction returns and a worker's wait
has a timeout of its own; a begun `stop()` and each waiting caller go on; the
session's thread runs and its clock advances; the main task of a process runs
until it serves and from the shutdown to its end, and the event loop takes
connections and handles one that has sent a frame; periodic maintenance recurs, time passes for
leases (strong fairness, since a deadline may be renewed), and a client process
goes on or ends. Nothing is assumed of the controller, of a worker child, of the
ComfyUI server or of operators, and a client that has connected need not send.

**What the passing runs show.** MCLineage is the strongest of the chain: three
executions, each of which may crash, fail or be recovered at any step, never
stream a program twice. MCSerial shows that the retained sessions alone keep a
second session from opening when a factory reopens within one process. MCParts
shows, below the chain, that a stream reported complete was drawn, except by an
unasked status line (MCIdleProven); and that neither a killed service nor a
killed client loses a bundle.

**What the violated runs show.**

* *MCSuccessorCrash.* `docs/current/recovery.md` says that any crash in an
  in-progress phase persists RECOVERY_REQUIRED. A successor's recovery intent is
  frozen when it is created, and every recovery write proposes the intent of the
  current milestone. A RESTART_SEQUENCE successor is created with
  PRE_STREAM_RESTART; once its own stream passes FIRST_WRITE_POSSIBLE the
  proposed intent differs, the write is refused, and so is the reconciliation of
  every later start. The execution keeps the latch in STREAMING and the service
  cannot start. `InitialSettles` states what does hold: initial executions
  settle.
* *MCReplay.* The same document says that exact replay returns the prior
  result. `_replay` does so for a claimed admission; one that a restart
  invalidated is handed out again, the claim refuses it, and the coordinator
  ends.
* *MCIdleProven.* It also says that a stream is uncertain until Idle is proven.
  `_wait_for_idle_snapshot` accepts a status line that was already collected, so
  an automatic report sent before the last line moved counts as the proof.
* *MCHeldLease.* It says that an orphaned lease is reconciled or blocks its role.
  A preparation that its client publishes between the listing and the `lstat` of
  a reconciliation raises out of the periodic maintenance and ends the service.
* *MCShutdown.* It says that a shutdown closes the owned session. `stop()` skips
  the machine coordinator when the staging reconciliation before it raises, and
  releases the lease while that thread still runs.
* *MCStalled.* `tests/integration/service/test_unix_socket.py:1305` says that
  `close()` ends the connection of a client that has stopped in mid frame. The
  shutdown awaits `wait_closed()` before it closes the connections, and
  `_read_frame` has no deadline: where that call waits for them (Python 3.12.1 and
  later, the version of the CI and of the deployment report), such a client holds
  up the shutdown until it leaves. systemd's stop timeout ends this only when
  systemd asked for the stop; a shutdown caused by a raising reconciliation
  (MCHeldLease) has none. The run's one client, without faults and kills, is
  enough.

## 4. Proofs

Every theorem is checked by TLAPS from the module's definitions, for every value
of the constants that satisfies the named assumptions. Where an inductive
invariant was needed, TLC checked it on a small instance first.

| Module | Theorems |
|---|---|
| MachineExecutionProofs | `TypeCorrect`, `AlwaysOneOwner`, `NeverStreamedTwice`, `NeverMovedTwice` (`MotionApproved`), `PortAlwaysSafe` (`PortSafe`), `RestsSafely` (`RestingState`), `DispatchesAreDurable` (`DispatchUnderDurablePhase`), `JobAlwaysAgrees` (`JobAgreement`), `RecoveryAlwaysSound` (`RecoverySound`), `EvidenceStaysFrozen` (`EvidenceFrozen`), `ChainImplementsLatch` (`ImplementsLatch`) |
| JobCoordinatorProofs | `TypeCorrect`, `AnswersAlwaysHonest`, `NeverOrphaned`, `StagesAlwaysEarned`, `MachineAlwaysAgrees`, `QuietStop` (`NoWorkWhileStopping`), `StatusNeverGoesBack` (`StatusMonotone`) |
| WorkerSupervisorProofs | `TypeCorrect`, `AlwaysHeld` (`ChildrenHeld`), `OutcomesHonest` (`OutcomeHonest`) |
| SerialSessionProofs | `TypeCorrect`, `AlwaysAckedPrefix`, `StreamAlwaysSafe` (`StreamSafe`), `ProgressStaysFinal` |
| StagingProofs | `StagingTyped`, `PayloadsAlwaysKept`, `RequestsAlwaysExact`, `AlwaysBlockedRefuses` |
| LocalComfyUIProofs | `OwnershipAlwaysSafe` |
| MCPartsProofs | of MachineCoordinator: `TypeCorrect`, `HonestAnswers`, `NoneStranded`, `StaysQuiet`, `InArrivalOrder` (`Serialized`); of the composition: `PartsServe` (`ServingOwns`), `PartsStoreSafe` (`StoreSafe`), `PartsAckedPrefix`, `PartsStreamSafe`, `PartsProgressFinal`, `PartsPayloadsKept`, `PartsRequestsExact`, `PartsBlockedRefuses`, `PartsTyped` (`PartsTypeOK`) |
| MCOuterProofs | of OpenClawInstall: `InstallAlwaysSafe`; of the composition: `OuterInstallSafe` (`InstallSafe`), `OuterOwnershipSafe` (`OwnershipSafe`) |

Every invariant and every action property that a passing run checks is stated by
one of these theorems.

### MachineExecutionProofs

Assumptions: `MaxFaults` is a natural number, the two configuration constants
are Boolean, and `None` is no execution and no job.

*Types.* `TypeOK` alone is not inductive: an action writes the row `exec[pc.ex]`
and must know that `pc.ex` is an execution. `TypeInv` adds `TaskBound`. Each row
a transaction writes has a lemma that gives its type and its fields
(`RevisedRow`, `RecoveredRow`, `RetiredRow`, `CompletedRow`, `InitialRow`,
`SuccessorRow`), and later proofs use these lemmas in place of the definitions.

*The stream.* `StreamAtMostOnce` speaks about a history; what makes it inductive
is where that history left marks. `IInv` adds

* `RowsBound`: a row that was never inserted is blank and never moved;
* `DrivesOwner`: until its outcome is committed, a drive works for an in-flight
  owner, and a drive about to write has FIRST_WRITE_POSSIBLE in its row;
* `ReadyUntouched`: a READY_TO_RUN job has no execution but its initial one in
  flight, so a new preparation starts from a job nothing was streamed for;
* `StreamLeavesMark`: a streamed program left its milestone on the row that
  streamed it and on whichever row owns the machine for that job;
* `WritingIsFirst`: when the adapter is about to be called, nothing was streamed
  for the job.

`CommitFirstWrite` requires NOT_STARTED in the owner's row, so by
`StreamLeavesMark` nothing was streamed, which establishes `WritingIsFirst`;
`DriveStream` then streams for the first time, and by `OneOwner` the only row
that needs the mark already has it. A transfer hands the milestone on, and a
preparation needs a READY_TO_RUN job, which by `ReadyUntouched` has no other
row.

*Approvals.* `AdmInv` ties the admissions to the phase of their execution by
`PhaseRank`, the order in which phases are passed: there is one admission for an
execution and action, a motion's stands behind its consumed challenge, and an
unclaimed one is of the owner in the admitted phase (`AdmissionsExact`); a
dispatch happens once and for a claimed admission (`MovesAdmitted`); an admission
still RESERVED is in the coordinator's hand (`ReservedInHand`); and a drive has
its claim behind it and, before the dispatch, has not moved (`TaskClaimed`).
Phases only advance, so a second admission for a motion cannot be made;
`NeverMovedTwice` follows.

*Sessions and the port.* `SessInv` says who answers for the port: nothing is open
in a service that is down (`DownClean`), a drive past the opening holds its
session (`TaskHeld`), only the owner's session is held (`HeldOwner`), an open port
belongs to a held or retained session or to a factory that refuses to open again
(`PortGuarded`, `OnePort`), and at rest the owner is in recovery without a session
or awaits approval with one (`Rested`). `SafeInv` is the conjunction of `IInv`,
`AdmInv` and `SessInv`; `DispatchesAreDurable` follows from it action by action,
since only `DriveMotion` and `DriveStream` move the machine (`OnlyDrivesMove`).
`PortSafe` counts the members of `port` (`ExclusivePort`); the proof shows that any
two are equal and takes the cardinality from the library's fact on singletons.

*Lineages.* `LineInv` follows an execution to its successors and its job: the job
row is the one the in-flight execution implies (`JobsFollow`, `JobRows`), an
execution in recovery has the intent of its milestone (`IntentFrozen`), a
successor has a predecessor in recovery of the same job and intent, never an
ambiguous one (`Lineage`), a confirmed or completed stream was drawn by some row
of the job (`ConfirmedDrawn`, `CompletedWasDrawn`), and a safe-home successor
admits no motion but HOME (`SafeHomeAdmits`). With it lineages of any length are
covered, where TLC reaches three executions.

`ChainImplementsLatch` proves the refinement of `MachineLatch` under the mapping
of `MachineExecution`: Init implies the abstract one, and every action is an
acquisition, a drawing, a failure, a completion, a release or a cancellation of
the latch, or leaves its variables alone.

### MCPartsProofs: the mailbox

For every set of commands, from the assumption that the stop message is no
command. The inductive invariant says what ties the threads together: the
envelope in the owner thread's hand (`InHand`), a commit is marked on its
envelope except while it waits to be acknowledged (`CommittedMarked`),
acknowledgements and answers follow the commits (`AcksHonest`, `CallerInformed`,
`UnshownFatal`), a queued envelope is in the mailbox or in hand
(`QueuedIsHeld`), and the loop is left only behind a stop or a fatal mark
(`LeavesClosed`), which is why no put can follow the last drain. For `Serialized`
`OrderInv` orders what was committed, what is in hand and what is in the mailbox
by arrival.

### JobCoordinatorProofs

For any jobs and modes, requests and bounds. The invariant is built in layers,
each proved with the ones before it: `Held` (what the thread has in hand by its
place), `RequestInv` (an envelope's state, its caller and its commit agree),
`StopInv` (a stop has set every cancellation event), `RowInv` (a row is one its
mode allows, and the snapshot a drive works from is still the row, unless the
machine took it), `StageInv` (the artifacts and provider calls of every state,
and the worker that belongs to it) and `ProjInv` (a projection is the row or an
older one, and complete as long as nothing failed).

No theorem assumes that failure handlers do not fail: `AnswersHonest`, `NoOrphan`
and `StatusMonotone` state the exception (`HandlerFailed`) themselves, and the other
properties hold with failing handlers as they stand.

### WorkerSupervisorProofs

For any set of attempts and failing calls. `IInv` adds to `ChildrenHeld` what is
known of the child in hand (`CurHeld`), that close comes last (`CloseLast`), that
attempts are started in order (`InOrder`), that a child not dead and without a
pending SIGKILL is the one in hand (`OthersDying`), and what pipe, reader and exit
code say of an outcome (`Traced`).

### SerialSessionProofs

For programs, calibrations and evidence of any length (at least one line of
evidence, `Bounds`) and any number of faults. `SerialInv` is mostly about what is
under way on the line:

* `PlaceFits`: where the caller may be in which operation;
* `WireFits`: of commands that are not a status query, one at most is under way,
  the one in hand, or its acknowledgement, never both, and neither while the
  caller is not waiting for it;
* `QueryFits`: the same of status queries, as long as the controller reports
  only when asked;
* `CountFits`, `ProgressFits`: accepted, acknowledged and recorded lines by the
  caller's place;
* `HomeFits`: what was thrown away, or drawn at an unknown position, shows on the
  controller as an alarm or a lost position;
* `StatusFits`: an Idle that was asked for was said, and read, with nothing left
  to draw;
* `CrossFits`: while word of trouble is under way the caller cannot get past its
  next read.

The line's two directions are sequences; one lemma for each way they change
(`RxAppend`, `RxTail`, `TxGarbled`, ...) says what becomes of these predicates,
and no action proof looks into a sequence. `FailInv` serves all ways in which an
operation fails. The hypothesis on `unasked` in `StreamDrawn` is needed:
MCIdleProven shows the state without it.

### StagingProofs

For any requests, arguments, sends, crashes and failing calls. `StagingInv` has
three layers:

* the client's side: its lease file says how far it went, and a bundle whose
  dispatch is uncertain is moved by the service alone (`ClientInv`);
* the rows: an admission says where its bundle may be and whether there is a job,
  whose arguments are those the request was bound to (`RowInv`, `JobInv`);
* the places: what the event loop knows at each place of a reconciliation
  (`LoopInv`, `SettleInv`) and of a command (`CommandInv`, `AnswerInv`), and what
  the mailbox and the thread's copy are (`MailInv`, `ImportInv`). A command in the
  mailbox is live exactly while the event loop waits for it, so that neither a
  reconciliation nor another command runs while it may still commit. This is what
  `ImportUndisturbed` and `QuarantineKept` rest on.

`StrayInv` names who will discard a promoted copy that has no job, for
`NoStrayArtifact`. `BlockedRefuses` is an action property: a row is made by
`Register` alone, where `CommandInv` has no marker.

### LocalComfyUIProofs

For any threads, finitely many identities and any caps (`Bounds`). The dictionaries
have an invariant of their own, `Books`, stated of a pair of dictionaries rather
than of the variables: entries are under their own identity, a submission is held
with its request and a request has one at most, what is busy has a call, and the
places suffice. Every call purges first, so `PurgedBooks` shows `Books` of what a
purge leaves, and each action continues from there. `Askers` and `Users` tie a call
to the object it works on, whether the dictionaries still hold it or not: a call
that returns from the server may find its object expired, released or its identity
given to another. The two counts of places are cardinalities of subsets; each
action changes them by one element, with the library's facts on finite sets.

The history `delivered` is extended where `retrieve` hands the image out with its
records, not at the check before, after which it may still fail.

### MCPartsProofs: service instances, artifact store, composition

*Service instances.* For any set of processes that does not contain the name used
for nobody: a process between its lease and its release has the lock, what it has
made of the socket, the pid file and its threads follows from its phase, and
threads run between lease and exit.

*Artifact store.* For any set of attempts and any number of crashes, power losses
and failing calls. `StoreSafe` is not inductive: that a committed bundle survives a
power loss rests on where the job thread is (behind the sync, or at a bundle found
under its name), on which bundles a crash may leave unsettled (an input whose
recovery is still to come, a worker's that no row will ever refer to) and on the
directory above being durable. `StoreJobInv` states this of the job thread and
`ExportInv` of the exporter.

*The composition.* A step of MCParts is a step of one component and leaves the
variables of the rest alone; a behaviour is therefore one of each component, and
the components' theorems hold of the definitions the MCParts run checks.
`PartsTyped` joins their type invariants. The assumptions are `PartsAssumption`,
which TLC evaluates in that run.

### MCOuterProofs

OpenClawInstall, for any number of files (at least one), requests, crashes, power
losses, failing calls and edits of the registry. The invariant follows the call
through the files (`FilesInv`): behind it everything is in place, ahead of it
nothing has been touched, and at the file it works on the directory agrees with the
`_Mutation` in memory. After a failure only this agreement is known of every file
(`Coherent`); the rollback walks back through the files and leaves each restored.
`OldFiles` says that the old bytes are all still there, under their name or their
backup's, also after a power loss, or all durably replaced; which of the two is
decided before the first backup is removed. `ResultsTrue` keeps the remembered
results true of what was done. `OuterAssumption` gives the bounds, and TLC
evaluates it in the MCOuter run.

### Model-checked only

* Liveness, which is outside what the prover supports: `InitialSettles`,
  `EverythingEnds`, `CallsReturn`, `JobsSettle`.
* The violated properties, which are false.

## 5. Plan and what is not modelled

The plan is carried out: every component that keeps state and meets concurrency or
failure is modelled, and every safety property the runs check is proved. What is
left is outside the prover (liveness) or outside the models below.

Partly modelled:

* *Approvals*: one challenge row per execution and action stands for all; the two
  clocks of a challenge are one deadline.
* *Machine coordinator*: the comparison of projection revisions is left out.
* *Job repository*: audit rows and the migration ledger are left out.
* *Access policy and protocol*: a check of a peer or of a directory is a step that
  passes or ends the request.
* *Command line and configuration*: the life of `service run` and the client's
  call; parsing keeps no state.

Not modelled:

* *G-code and path planning*: floating-point geometry and text, computed in a
  worker that the other modules treat as a step.
* *Endpoint installation* (`install/client_endpoint.py`): a one-shot program that
  checks ownership and layout, with nothing beside it.
* HTTP, frame and JSON encoding, file permission checks and formatting.
