-------------------------- MODULE MachineExecution --------------------------
(***************************************************************************)
(* The machine-execution chain of drawingmachine: the durable execution    *)
(* records of the SQLite machine repository, the one-use approval          *)
(* challenges, the request admissions, and the coordinator thread that     *)
(* admits a command, claims it, drives the FluidNC session and commits the *)
(* outcome.  One step of the model is one database transaction, one        *)
(* adapter call, or one session close; between any two of them the process *)
(* may crash, the job thread may cancel a job, and time may pass.          *)
(*                                                                         *)
(* Source: application/machine/execution.py, with the transactions of      *)
(* adapters/persistence/machine_sql.py and migrations/0003, the domain     *)
(* rules of domain/machine, and the thread of service/machine_coordinator. *)
(*                                                                         *)
(* Data abstraction: UUIDs are members of finite sets; a service epoch is  *)
(* only ever compared with the running service's, so a record keeps the    *)
(* one bit "issued under the running service" (fresh); the newest challenge *)
(* of an execution and action stands for all of them, since issuing it     *)
(* retires the pending one for good and a retired challenge is refused;    *)
(* the G-code program, digests and snapshots are frozen with the job and   *)
(* are left out; whether an adapter call succeeds, is refused or raises is *)
(* nondeterministic.                                                       *)
(***************************************************************************)
EXTENDS Naturals, FiniteSets

CONSTANTS
    Jobs,           \* offline workflow jobs that reached READY_TO_RUN
    Executions,     \* execution ids the service may draw (bound on executions)
    MaxFaults,      \* bound on failing transactions and clocks that do not advance
    PostRunHomeZ,   \* configuration machine.post_run_home_z
    ReopenAllowed,  \* FALSE: the serial factory, which opens one session per process
    None            \* no execution, no job

ASSUME MaxFaultsAssumption == MaxFaults \in Nat
ASSUME ConfigAssumption == PostRunHomeZ \in BOOLEAN /\ ReopenAllowed \in BOOLEAN
ASSUME NoneAssumption == None \notin Executions /\ None \notin Jobs

VARIABLES
    jobs,    \* jobs[j]: durable job state
    exec,    \* exec[e]: durable machine_executions row
    chal,    \* chal[e][a]: newest machine_approval_challenges row of e and a
    adm,     \* durable machine_request_results rows that carry an admission
    sess,    \* sess[e]: the session the process owns for e (_sessions, _retained_sessions)
    port,    \* executions whose serial session may still be open
    opened,  \* the factory's one-open latch
    moved,   \* history: adapter dispatches of each motion action per execution
    faults,  \* faults injected so far
    pc       \* the coordinator thread

durable == <<jobs, exec, chal, adm>>
sessions == <<sess, port, opened>>
vars == <<jobs, exec, chal, adm, sess, port, opened, moved, faults, pc>>

-----------------------------------------------------------------------------
(* Vocabulary *)

JobStates == {"READY_TO_RUN", "RECOVERY_REQUIRED", "COMPLETED", "CANCELLED"}
AwaitingPhases == {"AWAITING_HOME_APPROVAL", "AWAITING_ZCAL_APPROVAL",
                   "AWAITING_ZCONFIRM_APPROVAL", "AWAITING_STREAM_APPROVAL",
                   "AWAITING_HOME_Z_APPROVAL"}
InProgressPhases == {"PREPARING_SESSION", "HOMING", "Z_CALIBRATING",
                     "Z_CONFIRMING", "STREAMING", "HOMING_Z"}
Phases == AwaitingPhases \cup InProgressPhases \cup {"RECOVERY_REQUIRED", "COMPLETED"}
Milestones == {"NOT_STARTED", "FIRST_WRITE_POSSIBLE", "STREAM_CONFIRMED"}
Intents == {"PRE_STREAM_RESTART", "STREAM_AMBIGUOUS_RELEASE_ONLY",
            "POST_STREAM_SAFE_HOME"}
Dispositions == {"RELEASE", "RESTART_SEQUENCE", "SAFE_HOME"}
MotionActions == {"HOME", "ZCAL", "ZCONFIRM", "STREAM", "HOME_Z"}
SessionActions == {"PREPARE_SESSION", "RECOVER"}
ApprovedActions == MotionActions \cup {"RECOVER"}

PriorPhase(a) ==
    CASE a = "HOME"     -> "AWAITING_HOME_APPROVAL"
      [] a = "ZCAL"     -> "AWAITING_ZCAL_APPROVAL"
      [] a = "ZCONFIRM" -> "AWAITING_ZCONFIRM_APPROVAL"
      [] a = "STREAM"   -> "AWAITING_STREAM_APPROVAL"
      [] a = "HOME_Z"   -> "AWAITING_HOME_Z_APPROVAL"

\* The phase an admitted action holds until its outcome is committed.
AdmittedPhase(a) ==
    CASE a \in SessionActions -> "PREPARING_SESSION"
      [] a = "HOME"     -> "HOMING"
      [] a = "ZCAL"     -> "Z_CALIBRATING"
      [] a = "ZCONFIRM" -> "Z_CONFIRMING"
      [] a = "STREAM"   -> "STREAMING"
      [] a = "HOME_Z"   -> "HOMING_Z"

\* Where a confirmed HOME, ZCAL or ZCONFIRM leads.
NextPhase(a) ==
    CASE a = "HOME" -> "AWAITING_ZCAL_APPROVAL"
      [] a = "ZCAL" -> "AWAITING_ZCONFIRM_APPROVAL"
      [] OTHER      -> "AWAITING_STREAM_APPROVAL"

\* Mutated form of the next definition: an enum value that is not an intent.
IntentNamedAfterMilestone(m) == IF m = "NOT_STARTED" THEN "PRE_STREAM_RESTART" ELSE m

RecoveryIntentForMilestone(m) ==
    CASE m = "NOT_STARTED"          -> "PRE_STREAM_RESTART"
      [] m = "FIRST_WRITE_POSSIBLE" -> "STREAM_AMBIGUOUS_RELEASE_ONLY"
      [] OTHER                      -> "POST_STREAM_SAFE_HOME"

\* Mutated form of the next definition: an ambiguous stream may restart.
RestartUnlessConfirmed(intent, d) ==
    \/ d = "RELEASE"
    \/ intent # "POST_STREAM_SAFE_HOME" /\ d = "RESTART_SEQUENCE"
    \/ intent = "POST_STREAM_SAFE_HOME" /\ d = "SAFE_HOME"

AllowedRecoveryDisposition(intent, d) ==
    \/ d = "RELEASE"
    \/ intent = "PRE_STREAM_RESTART" /\ d = "RESTART_SEQUENCE"
    \/ intent = "POST_STREAM_SAFE_HOME" /\ d = "SAFE_HOME"

NoExecution == [phase |-> "ABSENT", rev |-> 0, mile |-> "NOT_STARTED",
                intent |-> "NONE", retired |-> "NO", pred |-> None,
                job |-> None, fresh |-> FALSE]
\* Only a pending challenge's binding and time matter.
ChallengeRow(status) == [status |-> status, rev |-> 0, disp |-> "NONE",
                         fresh |-> FALSE, late |-> FALSE]
\* close: has the drive in hand closed its session ("done" by its success
\* path, "early" by a failed recovery commit)?
NoTask == [at |-> "idle", act |-> "NONE", ex |-> None, job |-> None, rev |-> 0,
           confirmed |-> FALSE, close |-> "never"]

Present(e) == exec[e].phase # "ABSENT"
Active(e) == Present(e) /\ exec[e].retired = "NO" /\ exec[e].phase # "COMPLETED"
InProgress(e) == Active(e) /\ exec[e].phase \in InProgressPhases
IsSuccessor(e) == exec[e].pred # None
Held(e) == sess[e] = "held"
AnyRetained == \E e \in Executions : sess[e] = "retained"

\* A successor created by SAFE_HOME only homes, then completes.
PostStreamHome(e) == IsSuccessor(e) /\ exec[e].intent = "POST_STREAM_SAFE_HOME"

\* The job state an active, not yet recovered execution requires.
ExpectedJobState(e) == IF IsSuccessor(e) THEN "RECOVERY_REQUIRED" ELSE "READY_TO_RUN"

UnusedExecutions == {e \in Executions : ~Present(e)}
NewExecution == CHOOSE e \in UnusedExecutions : TRUE

\* The repository freezes a successor's intent; every recovery write proposes
\* the intent of the milestone it records, and is rejected when they differ.
RecoveryWriteAccepted(e, m) ==
    IsSuccessor(e) => exec[e].intent = RecoveryIntentForMilestone(m)

\* Mutated form of the next definition: recovery forgets the milestone.
RecoveredFromScratch(e, m) ==
    [exec[e] EXCEPT !.rev = @ + 1, !.phase = "RECOVERY_REQUIRED",
                    !.mile = "NOT_STARTED", !.intent = RecoveryIntentForMilestone(m)]

Recovered(e, m) ==
    [exec[e] EXCEPT !.rev = @ + 1, !.phase = "RECOVERY_REQUIRED", !.mile = m,
                    !.intent = RecoveryIntentForMilestone(m)]

\* The other rows a transaction may write; each advances the revision by one.
Revised(e, p, m) == [exec[e] EXCEPT !.rev = @ + 1, !.phase = p, !.mile = m]
Retired(e, how) == [exec[e] EXCEPT !.rev = @ + 1, !.retired = how]
Completed(e) == [exec[e] EXCEPT !.rev = @ + 1, !.phase = "COMPLETED",
                                !.mile = "STREAM_CONFIRMED", !.retired = "COMPLETED"]
Write(e, row) == exec' = [exec EXCEPT ![e] = row]

Fault == faults < MaxFaults /\ faults' = faults + 1
To(at) == pc' = [pc EXCEPT !.at = at]
Idle == pc.at = "idle"
Rest == pc' = NoTask

-----------------------------------------------------------------------------
(* Process lifecycle: start, reconciliation, stop, crash *)

InFlight(e) == Active(e) /\ exec[e].phase # "RECOVERY_REQUIRED"

\* Reconciliation is refused as a whole when the owner's row cannot be frozen.
ReconcileAccepted ==
    \A e \in Executions : InFlight(e) =>
        /\ RecoveryWriteAccepted(e, exec[e].mile)
        /\ jobs[exec[e].job] = ExpectedJobState(e)

\* Mutated form of the next definition: a restart leaves the owner as it was.
OwnerLeftAsItWas == exec

\* The active owner is frozen in RECOVERY_REQUIRED; a repeated one is kept.
ReconciledExecutions ==
    [e \in Executions |-> IF InFlight(e) THEN Recovered(e, exec[e].mile) ELSE exec[e]]

\* The job of an initial execution follows it; a successor's already has.
ReconciledJobs ==
    [j \in Jobs |-> IF \E e \in Executions :
                           InFlight(e) /\ ~IsSuccessor(e) /\ exec[e].job = j
                    THEN "RECOVERY_REQUIRED" ELSE jobs[j]]

ReconciledChallenges ==
    [e \in Executions |-> [a \in ApprovedActions |->
        IF Active(e) /\ chal[e][a].status = "PENDING"
        THEN ChallengeRow("EXPIRED") ELSE chal[e][a]]]

\* Mutated form of the next definition: unclaimed admissions stay open.
AdmissionsLeftOpen == adm

ReconciledAdmissions ==
    {IF r.st = "RESERVED" /\ Active(r.ex)
     THEN [r EXCEPT !.st = "INVALIDATED"] ELSE r : r \in adm}

\* reconcile_restart: all four in one transaction.
ReconcileRestart ==
    /\ exec' = ReconciledExecutions /\ jobs' = ReconciledJobs
    /\ chal' = ReconciledChallenges /\ adm' = ReconciledAdmissions

Start ==
    /\ pc.at = "down" /\ ReconcileAccepted
    /\ ReconcileRestart /\ Rest
    /\ UNCHANGED <<sessions, moved, faults>>

\* A start whose reconciliation fails runs the shutdown path and exits.
StartRefused ==
    /\ pc.at = "down" /\ ~ReconcileAccepted
    /\ To("halting")
    /\ UNCHANGED <<durable, sessions, moved, faults>>

StartFault ==
    /\ pc.at = "down" /\ (\E e \in Executions : Active(e))
    /\ Fault /\ To("halting")
    /\ UNCHANGED <<durable, sessions, moved>>

Stop ==
    /\ Idle /\ To("halting")
    /\ UNCHANGED <<durable, sessions, moved, faults>>

ShutdownReconcile ==
    /\ pc.at = "halting" /\ ReconcileAccepted
    /\ ReconcileRestart /\ To("closing")
    /\ UNCHANGED <<sessions, moved, faults>>

\* A failing reconciliation is remembered, and the sessions are closed anyway.
ShutdownUnreconciled ==
    /\ pc.at = "halting"
    /\ (~ReconcileAccepted /\ UNCHANGED faults) \/ Fault
    /\ To("closing")
    /\ UNCHANGED <<durable, sessions, moved>>

\* Each owned session is closed once; the chain then forgets every handle.
ShutdownClose ==
    /\ pc.at = "closing"
    /\ \E closed \in SUBSET {e \in Executions : Held(e)} : port' = port \ closed
    /\ sess' = [e \in Executions |-> "none"]
    /\ To("halted")
    /\ UNCHANGED <<durable, opened, moved, faults>>

\* The end of the process ends its service epoch and its file descriptors.
EndProcess ==
    /\ exec' = [e \in Executions |-> [exec[e] EXCEPT !.fresh = FALSE]]
    /\ chal' = [e \in Executions |-> [a \in ApprovedActions |->
                   [chal[e][a] EXCEPT !.fresh = FALSE]]]
    /\ sess' = [e \in Executions |-> "none"]
    /\ port' = {} /\ opened' = FALSE
    /\ pc' = [NoTask EXCEPT !.at = "down"]
    /\ UNCHANGED <<jobs, adm, moved, faults>>

ProcessExit == pc.at = "halted" /\ EndProcess
Crash == pc.at \notin {"down", "halted"} /\ EndProcess

-----------------------------------------------------------------------------
(* Admission: the commands the coordinator takes from its mailbox *)

\* PREPARE reads the job outside the transaction ...
CheckPrepare(j) ==
    /\ Idle /\ jobs[j] = "READY_TO_RUN"
    /\ pc' = [NoTask EXCEPT !.at = "checked", !.act = "PREPARE_SESSION", !.job = j]
    /\ UNCHANGED <<durable, sessions, moved, faults>>

Admit(e, a, rev) ==
    /\ adm' = adm \cup {[ex |-> e, rev |-> rev, act |-> a, st |-> "RESERVED"]}
    /\ pc' = [NoTask EXCEPT !.at = "admitted", !.act = a, !.ex = e, !.rev = rev]

\* Mutated form of the next definition: an owner index per job.
NoOwnerOfThisJob == \A e \in Executions : Active(e) => exec[e].job # pc.job

\* The partial unique index over all active rows.
NoOwner == \A e \in Executions : ~Active(e)

\* ... and again inside it, under the one-active-owner index.
CommitPrepare ==
    /\ pc.at = "checked" /\ UnusedExecutions # {}
    /\ jobs[pc.job] = "READY_TO_RUN" /\ NoOwner
    /\ Write(NewExecution, [NoExecution EXCEPT !.phase = "PREPARING_SESSION",
                                               !.job = pc.job, !.fresh = TRUE])
    /\ Admit(NewExecution, "PREPARE_SESSION", 0)
    /\ UNCHANGED <<jobs, chal, sessions, moved, faults>>

\* Refused by the transaction, or withdrawn by the requester before it.
AbandonPrepare ==
    /\ pc.at = "checked" /\ Rest
    /\ UNCHANGED <<durable, sessions, moved, faults>>

\* An admission transaction that raises terminates the coordinator.
AdmissionFault ==
    /\ pc.at \in {"idle", "checked"}
    /\ Fault /\ pc' = [NoTask EXCEPT !.at = "halting"]
    /\ UNCHANGED <<durable, sessions, moved>>

\* A new challenge replaces the pending one, which is superseded, or expired
\* when its time is up; either way it can no longer be consumed.
IssueChallenge(e, a, d) ==
    chal' = [chal EXCEPT ![e][a] =
                [status |-> "PENDING", rev |-> exec[e].rev, disp |-> d,
                 fresh |-> TRUE, late |-> FALSE]]

\* consume_approval: pending, bound to the current row and epoch, in time.
Consumable(e, a, d) ==
    /\ chal[e][a].status = "PENDING" /\ ~chal[e][a].late
    /\ chal[e][a].rev = exec[e].rev /\ chal[e][a].disp = d
    /\ chal[e][a].fresh

\* Mutated form of the next definition: the decision is not stored.
ConsumeForgotten(e, a) == UNCHANGED chal

Consume(e, a) == chal' = [chal EXCEPT ![e][a] = ChallengeRow("CONSUMED")]

MotionOwner(e, a) ==
    /\ Active(e) /\ exec[e].phase = PriorPhase(a) /\ exec[e].fresh
    /\ Held(e) /\ jobs[exec[e].job] = ExpectedJobState(e)

RequestMotion(e, a) ==
    /\ Idle /\ MotionOwner(e, a) /\ IssueChallenge(e, a, "NONE")
    /\ UNCHANGED <<jobs, exec, adm, sessions, moved, faults, pc>>

\* The challenge is consumed, the in-progress phase entered and the request
\* reserved in one transaction, before any adapter call.
ExecuteMotion(e, a) ==
    /\ Idle /\ MotionOwner(e, a) /\ Consumable(e, a, "NONE")
    /\ Consume(e, a)
    /\ Write(e, Revised(e, AdmittedPhase(a), exec[e].mile))
    /\ Admit(e, a, exec[e].rev + 1)
    /\ UNCHANGED <<jobs, sessions, moved, faults>>

RecoveryOwner(e, d) ==
    /\ Active(e) /\ exec[e].phase = "RECOVERY_REQUIRED"
    /\ AllowedRecoveryDisposition(exec[e].intent, d)
    /\ jobs[exec[e].job] = "RECOVERY_REQUIRED"

RequestRecovery(e, d) ==
    /\ Idle /\ RecoveryOwner(e, d) /\ IssueChallenge(e, "RECOVER", d)
    /\ UNCHANGED <<jobs, exec, adm, sessions, moved, faults, pc>>

ReleaseRecovery(e) ==
    /\ Idle /\ RecoveryOwner(e, "RELEASE")
    /\ Consumable(e, "RECOVER", "RELEASE") /\ Consume(e, "RECOVER")
    /\ Write(e, Retired(e, "RELEASED"))
    /\ UNCHANGED <<jobs, adm, sessions, moved, faults, pc>>

Successor(e) == [NoExecution EXCEPT
    !.phase = "PREPARING_SESSION", !.mile = exec[e].mile, !.intent = exec[e].intent,
    !.pred = e, !.job = exec[e].job, !.fresh = TRUE]

\* The latch moves to a successor that inherits milestone and intent.
TransferRecovery(e, d) ==
    /\ Idle /\ RecoveryOwner(e, d) /\ d # "RELEASE"
    /\ ~AnyRetained /\ UnusedExecutions # {}
    /\ Consumable(e, "RECOVER", d) /\ Consume(e, "RECOVER")
    /\ exec' = [exec EXCEPT ![e] = Retired(e, "TRANSFERRED"), ![NewExecution] = Successor(e)]
    /\ Admit(NewExecution, "RECOVER", 0)
    /\ UNCHANGED <<jobs, sessions, moved, faults>>

\* A repeated request id whose admission was not claimed is admitted again.
Replay(r) ==
    /\ Idle /\ r.st # "CLAIMED"
    /\ pc' = [NoTask EXCEPT !.at = "admitted", !.act = r.act, !.ex = r.ex, !.rev = r.rev]
    /\ UNCHANGED <<durable, sessions, moved, faults>>

-----------------------------------------------------------------------------
(* Driving a claimed admission.  Only the coordinator thread writes the row *)
(* of the active execution, so the re-reads after the claim see that row.   *)

Admission(st) == [ex |-> pc.ex, rev |-> pc.rev, act |-> pc.act, st |-> st]

ClaimAccepted ==
    /\ Admission("RESERVED") \in adm
    /\ Active(pc.ex) /\ exec[pc.ex].rev = pc.rev
    /\ exec[pc.ex].phase = AdmittedPhase(pc.act)

\* Mutated form of the next definition: the claim is not stored.
AdmissionsUnclaimed == adm

ClaimedAdmissions == (adm \ {Admission("RESERVED")}) \cup {Admission("CLAIMED")}

ClaimRequest ==
    /\ pc.at = "admitted" /\ ClaimAccepted
    /\ adm' = ClaimedAdmissions
    /\ To("claimed")
    /\ UNCHANGED <<jobs, exec, chal, sessions, moved, faults>>

\* A claim that fails raises out of the coordinator loop, which terminates.
ClaimFailed ==
    /\ pc.at = "admitted"
    /\ (~ClaimAccepted /\ UNCHANGED faults) \/ Fault
    /\ pc' = [NoTask EXCEPT !.at = "halting"]
    /\ UNCHANGED <<durable, sessions, moved>>

\* Mutated form of the next definition: the retained sessions are not consulted.
OpenDeniedIfOpened == opened /\ ~ReopenAllowed

OpenDenied == AnyRetained \/ (opened /\ ~ReopenAllowed)

\* A serial open that fails closes the transport, ignoring a failing close.
OpenSession ==
    /\ pc.at = "claimed" /\ pc.act \in SessionActions /\ ~OpenDenied
    /\ opened' = TRUE
    /\ \/ /\ sess' = [sess EXCEPT ![pc.ex] = "held"]
          /\ port' = port \cup {pc.ex}
          /\ To("opened")
       \/ /\ port' \in {port, IF ReopenAllowed THEN port ELSE port \cup {pc.ex}}
          /\ To("failing") /\ UNCHANGED sess
    /\ UNCHANGED <<durable, moved, faults>>

OpenRefused ==
    /\ pc.at = "claimed" /\ pc.act \in SessionActions /\ OpenDenied
    /\ To("failing")
    /\ UNCHANGED <<durable, sessions, moved, faults>>

\* The session is kept, and its row is read back (get_session); if that raises
\* the coordinator terminates.
CommitPreflight ==
    /\ pc.at = "opened"
    /\ Write(pc.ex, Revised(pc.ex, "AWAITING_HOME_APPROVAL", exec[pc.ex].mile))
    /\ \/ Rest /\ UNCHANGED faults
       \/ Fault /\ pc' = [NoTask EXCEPT !.at = "halting"]
    /\ UNCHANGED <<jobs, chal, adm, sessions, moved>>

\* The gate rejects the snapshot, the adapter raises, or the commit fails.
PreflightFailed ==
    /\ pc.at = "opened" /\ To("failing")
    /\ UNCHANGED <<durable, sessions, moved, faults>>

\* HOME, ZCAL, ZCONFIRM or HOME_Z: one adapter call, which succeeds, answers
\* with a typed failure, or raises.  Without a session, or with session evidence
\* that does not meet the action's precondition, the adapter is not called.
DriveMotion ==
    /\ pc.at = "claimed" /\ pc.act \in MotionActions \ {"STREAM"}
    /\ \/ /\ Held(pc.ex)
          /\ moved' = [moved EXCEPT ![pc.ex][pc.act] = @ + 1]
          /\ To("succeeded") \/ To("failing") \/ (pc.act # "HOME_Z" /\ To("rejected"))
       \/ To("failing") /\ UNCHANGED moved
    /\ UNCHANGED <<durable, sessions, faults>>

\* Mutated form of the next definition: the boundary is not recorded.
WriteBoundaryForgotten == Revised(pc.ex, "STREAMING", exec[pc.ex].mile)

WriteBoundary == Revised(pc.ex, "STREAMING", "FIRST_WRITE_POSSIBLE")

\* The irreversible write boundary is durable before the program is streamed;
\* it is not reached without a session whose evidence shows the calibrated pose.
CommitFirstWrite ==
    /\ pc.at = "claimed" /\ pc.act = "STREAM"
    /\ exec[pc.ex].mile = "NOT_STARTED"
    /\ \/ /\ Held(pc.ex) /\ Write(pc.ex, WriteBoundary)
          /\ pc' = [pc EXCEPT !.at = "writing", !.rev = @ + 1]
       \/ To("failing") /\ UNCHANGED exec
    /\ UNCHANGED <<jobs, chal, adm, sessions, moved, faults>>

FirstWriteFault ==
    /\ pc.at = "claimed" /\ pc.act = "STREAM"
    /\ Fault /\ To("halting")
    /\ UNCHANGED <<durable, sessions, moved>>

\* The program streams and ends Idle; or it fails; or it ends but its outcome
\* disagrees with the acknowledged prefix, which is a confirmed failure.
DriveStream ==
    /\ pc.at = "writing"
    /\ moved' = [moved EXCEPT ![pc.ex]["STREAM"] = @ + 1]
    /\ \/ To("succeeded") \/ To("failing")
       \/ pc' = [pc EXCEPT !.at = "failing", !.confirmed = TRUE]
    /\ UNCHANGED <<durable, sessions, faults>>

-----------------------------------------------------------------------------
(* Committing success *)

\* The last action of an execution closes its session before completing.
Completes ==
    \/ pc.act = "HOME" /\ PostStreamHome(pc.ex)
    \/ pc.act = "STREAM" /\ ~PostRunHomeZ
    \/ pc.act = "HOME_Z"

CommitMotionSuccess ==
    /\ pc.at = "succeeded" /\ pc.act # "STREAM" /\ ~Completes
    /\ Write(pc.ex, Revised(pc.ex, NextPhase(pc.act), exec[pc.ex].mile))
    /\ Rest
    /\ UNCHANGED <<jobs, chal, adm, sessions, moved, faults>>

CommitStreamConfirmed ==
    /\ pc.at = "succeeded" /\ pc.act = "STREAM" /\ ~Completes
    /\ Write(pc.ex, Revised(pc.ex, "AWAITING_HOME_Z_APPROVAL", "STREAM_CONFIRMED"))
    /\ Rest
    /\ UNCHANGED <<jobs, chal, adm, sessions, moved, faults>>

FailConfirmed == pc' = [pc EXCEPT !.at = "failing", !.confirmed = (pc.act = "STREAM")]

SuccessCommitFault ==
    /\ pc.at \in {"succeeded", "closed"} /\ (pc.at = "succeeded" => ~Completes)
    /\ Fault /\ FailConfirmed
    /\ UNCHANGED <<durable, sessions, moved>>

CloseCertain(e) == sess' = [sess EXCEPT ![e] = "none"] /\ port' = port \ {e}

CloseUncertain(e) == sess' = [sess EXCEPT ![e] = "retained"] /\ UNCHANGED port

CloseBeforeCompletion ==
    /\ pc.at = "succeeded" /\ Completes
    /\ \/ CloseCertain(pc.ex) /\ pc' = [pc EXCEPT !.at = "closed", !.close = "done"]
       \/ CloseUncertain(pc.ex) /\ FailConfirmed
    /\ UNCHANGED <<durable, opened, moved, faults>>

CommitCompleted ==
    /\ pc.at = "closed"
    /\ Write(pc.ex, Completed(pc.ex))
    /\ jobs' = [jobs EXCEPT ![exec[pc.ex].job] = "COMPLETED"]
    /\ Rest
    /\ UNCHANGED <<chal, adm, sessions, moved, faults>>

-----------------------------------------------------------------------------
(* Committing failure: recovery, or a coordinator that terminates *)

FailureMilestone == IF pc.confirmed THEN "STREAM_CONFIRMED" ELSE exec[pc.ex].mile

\* The drive still has a session to close after its recovery commit.
NeedsClose == Held(pc.ex) \/ pc.close = "early"

CommitRecovery ==
    /\ pc.at \in {"failing", "rejected"}
    /\ RecoveryWriteAccepted(pc.ex, FailureMilestone)
    /\ Write(pc.ex, Recovered(pc.ex, FailureMilestone))
    /\ jobs' = [jobs EXCEPT ![exec[pc.ex].job] = "RECOVERY_REQUIRED"]
    /\ IF NeedsClose THEN To("cleanup") ELSE Rest
    /\ UNCHANGED <<chal, adm, sessions, moved, faults>>

\* A rejected or failing recovery commit closes the session once.  The handle
\* of a preparation or motion drive outlives an earlier close, and closing it
\* again reports SESSION_ALREADY_CLOSED.
CloseOnFatal ==
    \/ Held(pc.ex) /\ (CloseCertain(pc.ex) \/ CloseUncertain(pc.ex))
    \/ /\ ~Held(pc.ex)
       /\ IF pc.close # "never" /\ pc.act \notin {"STREAM", "HOME_Z"}
          THEN CloseUncertain(pc.ex) ELSE UNCHANGED <<sess, port>>

\* After a typed motion failure the fatal signal is caught by the drive, which
\* tries the recovery commit once more; elsewhere it terminates the coordinator.
RecoveryCommitFails ==
    /\ pc.at \in {"failing", "rejected"}
    /\ (~RecoveryWriteAccepted(pc.ex, FailureMilestone) /\ UNCHANGED faults) \/ Fault
    /\ CloseOnFatal
    /\ pc' = IF pc.at = "rejected"
             THEN [pc EXCEPT !.at = "failing", !.close = "early"]
             ELSE [NoTask EXCEPT !.at = "halting"]
    /\ UNCHANGED <<durable, opened, moved>>

\* The failing drive cannot even read its row: a session not yet in _sessions
\* is forgotten without a close.
RecoveryReadFault ==
    /\ pc.at = "failing" /\ Fault
    /\ sess' = IF pc.act \in SessionActions THEN [sess EXCEPT ![pc.ex] = "none"] ELSE sess
    /\ pc' = [NoTask EXCEPT !.at = "halting"]
    /\ UNCHANGED <<durable, port, opened, moved>>

CloseFailedSession ==
    /\ pc.at = "cleanup" /\ Rest
    /\ \/ pc.close = "never" /\ CloseCertain(pc.ex)
       \/ CloseUncertain(pc.ex)
    /\ UNCHANGED <<durable, opened, moved, faults>>

\* The retained session could not be recorded.
CloseRecordFault ==
    /\ pc.at = "cleanup" /\ CloseUncertain(pc.ex)
    /\ Fault /\ pc' = [NoTask EXCEPT !.at = "halting"]
    /\ UNCHANGED <<durable, opened, moved>>

-----------------------------------------------------------------------------
(* The job thread and time *)

\* Mutated form of the next definition: only streaming blocks a cancellation.
BeingStreamed(j) ==
    \E e \in Executions : Active(e) /\ exec[e].job = j /\ exec[e].phase = "STREAMING"

OwnedByMachine(j) == \E e \in Executions : Active(e) /\ exec[e].job = j

\* A trigger rejects cancelling the job of an active owner.
CancelJob(j) ==
    /\ pc.at # "down" /\ jobs[j] = "READY_TO_RUN"
    /\ ~OwnedByMachine(j)
    /\ jobs' = [jobs EXCEPT ![j] = "CANCELLED"]
    /\ UNCHANGED <<exec, chal, adm, sessions, moved, faults, pc>>

TimeUp(e, a) ==
    /\ chal[e][a].status = "PENDING" /\ ~chal[e][a].late
    /\ chal' = [chal EXCEPT ![e][a].late = TRUE]
    /\ UNCHANGED <<jobs, exec, adm, sessions, moved, faults, pc>>

-----------------------------------------------------------------------------
(* Specification *)

Init ==
    /\ jobs = [j \in Jobs |-> "READY_TO_RUN"]
    /\ exec = [e \in Executions |-> NoExecution]
    /\ chal = [e \in Executions |-> [a \in ApprovedActions |-> ChallengeRow("ABSENT")]]
    /\ adm = {}
    /\ sess = [e \in Executions |-> "none"]
    /\ port = {} /\ opened = FALSE
    /\ moved = [e \in Executions |-> [a \in MotionActions |-> 0]]
    /\ faults = 0
    /\ pc = [NoTask EXCEPT !.at = "down"]

StartUp == Start \/ StartRefused \/ StartFault

ShutDown == ShutdownReconcile \/ ShutdownUnreconciled \/ ShutdownClose

Drive ==
    \/ ClaimRequest \/ ClaimFailed
    \/ OpenSession \/ OpenRefused \/ CommitPreflight \/ PreflightFailed
    \/ DriveMotion \/ CommitFirstWrite \/ FirstWriteFault \/ DriveStream
    \/ CommitMotionSuccess \/ CommitStreamConfirmed \/ SuccessCommitFault
    \/ CloseBeforeCompletion \/ CommitCompleted
    \/ CommitRecovery \/ RecoveryCommitFails \/ RecoveryReadFault
    \/ CloseFailedSession \/ CloseRecordFault

Command ==
    \/ \E j \in Jobs : CheckPrepare(j)
    \/ CommitPrepare \/ AbandonPrepare \/ AdmissionFault
    \/ \E e \in Executions, a \in MotionActions :
          RequestMotion(e, a) \/ ExecuteMotion(e, a)
    \/ \E e \in Executions, d \in Dispositions :
          RequestRecovery(e, d) \/ TransferRecovery(e, d)
    \/ \E e \in Executions : ReleaseRecovery(e)
    \/ \E r \in adm : Replay(r)

Next ==
    \/ StartUp \/ Stop \/ ShutDown \/ ProcessExit \/ Crash
    \/ Command \/ Drive
    \/ \E j \in Jobs : CancelJob(j)
    \/ \E e \in Executions, a \in ApprovedActions : TimeUp(e, a)

Spec == Init /\ [][Next]_vars

\* The coordinator thread keeps running what it has begun, a service that is
\* down is started again, and one whose coordinator ended is restarted.
Fairness == WF_vars(StartUp) /\ WF_vars(ShutDown) /\ WF_vars(Drive) /\ WF_vars(ProcessExit)

FairSpec == Spec /\ Fairness

-----------------------------------------------------------------------------
(* Invariants *)

ExecutionRows ==
    [phase : Phases \cup {"ABSENT"}, rev : Nat, mile : Milestones,
     intent : Intents \cup {"NONE"},
     retired : {"NO", "COMPLETED", "RELEASED", "TRANSFERRED"},
     pred : Executions \cup {None}, job : Jobs \cup {None}, fresh : BOOLEAN]
ChallengeRows ==
    [status : {"ABSENT", "PENDING", "CONSUMED", "EXPIRED"}, rev : Nat,
     disp : Dispositions \cup {"NONE"}, fresh : BOOLEAN, late : BOOLEAN]
AdmissionRows ==
    [ex : Executions, rev : Nat, act : MotionActions \cup SessionActions,
     st : {"RESERVED", "CLAIMED", "INVALIDATED"}]
\* Where the coordinator stands: with no task, with a job, or with an execution.
Ashore == {"down", "idle", "halting", "closing", "halted"}
Driving == {"claimed", "opened", "writing", "succeeded", "rejected", "failing",
            "closed", "cleanup"}
Tasks ==
    [at : Ashore \cup Driving \cup {"checked", "admitted"},
     act : MotionActions \cup SessionActions \cup {"NONE"},
     ex : Executions \cup {None}, job : Jobs \cup {None}, rev : Nat,
     confirmed : BOOLEAN, close : {"never", "done", "early"}]

\* Every variable holds a value the database schema and the process allow.
TypeOK ==
    /\ jobs \in [Jobs -> JobStates]
    /\ exec \in [Executions -> ExecutionRows]
    /\ chal \in [Executions -> [ApprovedActions -> ChallengeRows]]
    /\ adm \in SUBSET AdmissionRows
    /\ sess \in [Executions -> {"none", "held", "retained"}]
    /\ port \in SUBSET Executions
    /\ opened \in BOOLEAN
    /\ moved \in [Executions -> [MotionActions -> Nat]]
    /\ faults \in 0 .. MaxFaults
    /\ pc \in Tasks

\* At most one execution owns the machine, whatever crashes, transfers and
\* concurrent jobs the history holds (the one-global-active-owner index).
OneOwner == \A e, f \in Executions : Active(e) /\ Active(f) => e = f

Streamed(e) == moved[e]["STREAM"]

\* A job's program reaches the machine at most once: no crash, replay, restart
\* or recovery successor streams it a second time ("never retried or resumed").
StreamAtMostOnce ==
    \A e \in Executions :
        /\ Streamed(e) <= 1
        /\ \A f \in Executions : f # e /\ exec[e].job = exec[f].job =>
               Streamed(e) = 0 \/ Streamed(f) = 0

\* A motion action is dispatched at most once per execution, and only after a
\* challenge for it was consumed: one approval never moves the machine twice.
MotionApproved ==
    \A e \in Executions, a \in MotionActions : moved[e][a] > 0 =>
        moved[e][a] = 1 /\ chal[e][a].status = "CONSUMED"

\* Two serial sessions are never open at once, even after a close whose effect
\* is unknown or an open that failed half way.
ExclusivePort == Cardinality(port) <= 1

\* While the service works on, every session that may be open has an owner in
\* the process, so that nothing else opens the port beside it; or, after an open
\* that failed half way, the one-session factory opens nothing more.
PortOwned == Idle => \A e \in port : sess[e] # "none" \/ (opened /\ ~ReopenAllowed)

\* The serial port is safe: ExclusivePort and PortOwned.
PortSafe == ExclusivePort /\ PortOwned

\* When the coordinator rests, its owner is in recovery, or awaits approval
\* with a session of this service in hand; it never rests in mid action, and it
\* leaves no admission to be claimed later: it was claimed, or died with its service.
RestingState ==
    Idle =>
        /\ \A r \in adm : r.st # "RESERVED"
        /\ \A e \in Executions : Active(e) =>
              \/ exec[e].phase = "RECOVERY_REQUIRED" /\ ~Held(e)
              \/ exec[e].phase \in AwaitingPhases /\ Held(e) /\ exec[e].fresh

\* The job row agrees with the executions of the job.
JobAgreement ==
    \A j \in Jobs : LET mine == {e \in Executions : Present(e) /\ exec[e].job = j} IN
        /\ jobs[j] = "READY_TO_RUN" => \A e \in mine : InFlight(e) /\ ~IsSuccessor(e)
        /\ jobs[j] = "CANCELLED" => mine = {}
        /\ jobs[j] = "COMPLETED" <=> \E e \in mine : exec[e].phase = "COMPLETED"
        /\ jobs[j] = "RECOVERY_REQUIRED" =>
              \E e \in mine : exec[e].phase = "RECOVERY_REQUIRED"

\* Completion is honest: the program of a COMPLETED job was streamed, by this
\* execution or by the one whose confirmed stream a SAFE_HOME successor inherits.
CompletedWasDrawn ==
    \A j \in Jobs : jobs[j] = "COMPLETED" =>
        \E e \in Executions : exec[e].job = j /\ Streamed(e) = 1

\* After a first possible write nobody restarts the sequence: a successor starts
\* from an untouched or a fully confirmed stream, and after a confirmed one it
\* dispatches nothing but HOME.
SuccessorSafety ==
    \A e \in Executions : Present(e) /\ IsSuccessor(e) =>
        /\ exec[exec[e].pred].mile # "FIRST_WRITE_POSSIBLE"
        /\ PostStreamHome(e) => \A a \in MotionActions \ {"HOME"} : moved[e][a] = 0
        /\ ~PostStreamHome(e) => Streamed(exec[e].pred) = 0

\* Recovery is sound: SuccessorSafety and CompletedWasDrawn.
RecoverySound == SuccessorSafety /\ CompletedWasDrawn

-----------------------------------------------------------------------------
(* Action properties *)

\* The machine moves only for a claimed admission of the current owner, in the
\* phase made durable for that action, on the session this service holds, and
\* the program only after the write boundary is durable.
DispatchUnderDurablePhase ==
    [][\A e \in Executions, a \in MotionActions : moved'[e][a] # moved[e][a] =>
          /\ Active(e) /\ exec[e].phase = AdmittedPhase(a)
          /\ exec[e].fresh /\ Held(e)
          /\ \E r \in adm : r.ex = e /\ r.act = a /\ r.st = "CLAIMED"
          /\ a = "STREAM" => exec[e].mile = "FIRST_WRITE_POSSIBLE"]_vars

MilestoneOrder(m) ==
    CASE m = "NOT_STARTED" -> 0 [] m = "FIRST_WRITE_POSSIBLE" -> 1 [] OTHER -> 2

\* Evidence is frozen: an execution in recovery keeps its milestone and intent,
\* milestones never regress, and a retirement is never withdrawn or changed.
EvidenceFrozen ==
    [][\A e \in Executions : Present(e) =>
          /\ MilestoneOrder(exec[e].mile) <= MilestoneOrder(exec'[e].mile)
          /\ exec[e].phase = "RECOVERY_REQUIRED" =>
                /\ exec'[e].phase = "RECOVERY_REQUIRED"
                /\ exec'[e].mile = exec[e].mile /\ exec'[e].intent = exec[e].intent
          /\ exec[e].retired # "NO" => exec'[e].retired = exec[e].retired
          /\ exec'[e].job = exec[e].job /\ exec'[e].pred = exec[e].pred]_vars

-----------------------------------------------------------------------------
(* Refinement and liveness *)

Latch == INSTANCE MachineLatch WITH
    NoJob <- None,
    latch <- IF \E e \in Executions : Active(e)
             THEN exec[CHOOSE e \in Executions : Active(e)].job ELSE None,
    drawn <- {j \in Jobs : \E e \in Executions : exec[e].job = j /\ Streamed(e) > 0},
    fate <- jobs

\* The chain implements the one-owner, draw-once latch of MachineLatch.
ImplementsLatch == Latch!Spec

\* The service settles what it began: an initial execution in mid action reaches
\* an approval gate, recovery or completion, through any number of crashes.
InitialSettles ==
    \A e \in Executions : (InProgress(e) /\ ~IsSuccessor(e)) ~> ~InProgress(e)
=============================================================================
