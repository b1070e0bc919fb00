----------------------- MODULE MachineExecutionProofs -----------------------
(***************************************************************************)
(* Theorems about MachineExecution for every set of jobs and executions,   *)
(* every bound on faults and both configurations: types, the owner and the *)
(* stream; approvals, dispatches, the serial port and the resting states.  *)
(***************************************************************************)
EXTENDS MachineExecution, FiniteSetTheorems, TLAPS

-----------------------------------------------------------------------------
(* The inductive invariant, as a conjunction of named parts *)

\* A task that carries an execution or a job names a real one.
TaskBound ==
    /\ pc.at \in Driving \cup {"admitted"} => pc.ex \in Executions
    /\ pc.at = "checked" => pc.job \in Jobs

\* A row names its job; a row that was never inserted is blank and never moved.
RowsBound ==
    \A e \in Executions :
        /\ Present(e) => exec[e].job \in Jobs
        /\ ~Present(e) => exec[e] = NoExecution /\ Streamed(e) = 0

\* Until its outcome is committed, a claimed drive works for the active owner.
DrivesOwner ==
    /\ pc.at \in Driving \ {"cleanup"} => InFlight(pc.ex)
    /\ pc.at = "writing" =>
          pc.act = "STREAM" /\ exec[pc.ex].mile = "FIRST_WRITE_POSSIBLE"

\* A READY_TO_RUN job has no execution but its initial one in flight.
ReadyUntouched ==
    \A e \in Executions : Present(e) /\ jobs[exec[e].job] = "READY_TO_RUN" =>
        InFlight(e) /\ ~IsSuccessor(e)

\* A streamed program has left its mark on the row that streamed it, and on the
\* row of whoever owns the machine for the same job.
StreamLeavesMark ==
    \A e, f \in Executions :
        Streamed(e) > 0 /\ exec[e].job = exec[f].job /\ (f = e \/ Active(f)) =>
            exec[f].mile # "NOT_STARTED"

\* Before the adapter is called nothing was streamed for the job.
WritingIsFirst ==
    pc.at = "writing" => \A e \in Executions :
        exec[e].job = exec[pc.ex].job => Streamed(e) = 0

\* What only the rows and the history say, what the task says about them, and
\* the whole.
RowInv == RowsBound /\ OneOwner /\ ReadyUntouched /\ StreamLeavesMark /\ StreamAtMostOnce
TaskInv == DrivesOwner /\ WritingIsFirst
TypeInv == TypeOK /\ TaskBound
IInv == TypeInv /\ RowInv /\ TaskInv

-----------------------------------------------------------------------------
(* Type correctness *)

LEMMA NewExecutionFresh ==
    ASSUME UnusedExecutions # {}
    PROVE  NewExecution \in Executions /\ ~Present(NewExecution)
BY DEF NewExecution, UnusedExecutions

LEMMA RowTypes ==
    /\ NoExecution \in ExecutionRows
    /\ \A s \in {"ABSENT", "PENDING", "CONSUMED", "EXPIRED"} : ChallengeRow(s) \in ChallengeRows
    /\ NoTask \in Tasks
    /\ \A m \in Milestones : RecoveryIntentForMilestone(m) \in Intents
    /\ \A a \in MotionActions : AdmittedPhase(a) \in Phases
    /\ \A a \in MotionActions \cup SessionActions : NextPhase(a) \in Phases
BY DEF NoExecution, ExecutionRows, ChallengeRow, ChallengeRows, NoTask, Tasks, Phases,
       AwaitingPhases, InProgressPhases, Milestones, Intents, Dispositions, MotionActions,
       SessionActions, RecoveryIntentForMilestone, AdmittedPhase, NextPhase, Ashore, Driving

LEMMA AshoreTasks ==
    \A at \in Ashore : LET t == [NoTask EXCEPT !.at = at] IN
        t \in Tasks /\ t.at = at
BY RowTypes DEF NoTask, Tasks, Ashore

LEMMA InitType == Init => TypeInv
<1> SUFFICES ASSUME Init PROVE TypeInv
    OBVIOUS
<1>1. pc \in Tasks /\ pc.at = "down"
    BY AshoreTasks DEF Init, Ashore
<1>2. TaskBound
    BY <1>1 DEF TaskBound, Driving
<1>3. chal \in [Executions -> [ApprovedActions -> ChallengeRows]]
    BY RowTypes DEF Init
<1>4. exec \in [Executions -> ExecutionRows]
    BY RowTypes DEF Init
<1>5. moved \in [Executions -> [MotionActions -> Nat]]
    BY DEF Init
<1>6. faults \in 0 .. MaxFaults
    BY MaxFaultsAssumption DEF Init
<1> QED
    BY <1>1, <1>2, <1>3, <1>4, <1>5, <1>6 DEF Init, TypeInv, TypeOK, JobStates

\* What each row a transaction writes looks like.
LEMMA RevisionTypes ==
    ASSUME TypeOK, NEW e \in Executions
    PROVE  exec[e] \in ExecutionRows /\ exec[e].rev + 1 \in Nat
BY DEF TypeOK, ExecutionRows

LEMMA RevisedRow ==
    ASSUME TypeOK, NEW e \in Executions, NEW p \in Phases, NEW m \in Milestones
    PROVE  LET r == Revised(e, p, m) IN
           /\ r \in ExecutionRows /\ r.phase = p /\ r.mile = m
           /\ r.retired = exec[e].retired /\ r.job = exec[e].job
           /\ r.pred = exec[e].pred /\ r.intent = exec[e].intent
BY RevisionTypes DEF Revised, ExecutionRows

LEMMA RecoveredRow ==
    ASSUME TypeOK, NEW e \in Executions, NEW m \in Milestones
    PROVE  LET r == Recovered(e, m) IN
           /\ r \in ExecutionRows /\ r.phase = "RECOVERY_REQUIRED" /\ r.mile = m
           /\ r.retired = exec[e].retired /\ r.job = exec[e].job
           /\ r.pred = exec[e].pred /\ r.intent = RecoveryIntentForMilestone(m)
<1>1. "RECOVERY_REQUIRED" \in Phases /\ RecoveryIntentForMilestone(m) \in Intents
    BY RowTypes DEF Phases
<1> QED
    BY <1>1, RevisionTypes DEF Recovered, ExecutionRows

LEMMA RetiredRow ==
    ASSUME TypeOK, NEW e \in Executions, NEW how \in {"RELEASED", "TRANSFERRED"}
    PROVE  LET r == Retired(e, how) IN
           /\ r \in ExecutionRows /\ r.phase = exec[e].phase /\ r.mile = exec[e].mile
           /\ r.retired = how /\ r.job = exec[e].job
           /\ r.pred = exec[e].pred /\ r.intent = exec[e].intent
BY RevisionTypes DEF Retired, ExecutionRows

LEMMA CompletedRow ==
    ASSUME TypeOK, NEW e \in Executions
    PROVE  LET r == Completed(e) IN
           /\ r \in ExecutionRows /\ r.phase = "COMPLETED" /\ r.mile = "STREAM_CONFIRMED"
           /\ r.retired = "COMPLETED" /\ r.job = exec[e].job
           /\ r.pred = exec[e].pred /\ r.intent = exec[e].intent
<1>1. "COMPLETED" \in Phases /\ "STREAM_CONFIRMED" \in Milestones
    BY DEF Phases, Milestones
<1> QED
    BY <1>1, RevisionTypes DEF Completed, ExecutionRows

Initial(j) == [NoExecution EXCEPT !.phase = "PREPARING_SESSION", !.job = j, !.fresh = TRUE]

LEMMA InitialRow ==
    ASSUME NEW j \in Jobs
    PROVE  LET r == Initial(j) IN
           /\ r \in ExecutionRows /\ r.phase = "PREPARING_SESSION" /\ r.mile = "NOT_STARTED"
           /\ r.retired = "NO" /\ r.job = j /\ r.pred = None
<1>1. "PREPARING_SESSION" \in Phases
    BY DEF Phases, InProgressPhases
<1> QED
    BY <1>1, RowTypes DEF Initial, NoExecution, ExecutionRows

LEMMA SuccessorRow ==
    ASSUME TypeOK, NEW e \in Executions
    PROVE  LET r == Successor(e) IN
           /\ r \in ExecutionRows /\ r.phase = "PREPARING_SESSION" /\ r.mile = exec[e].mile
           /\ r.retired = "NO" /\ r.job = exec[e].job /\ r.pred = e
           /\ r.intent = exec[e].intent
<1>1. "PREPARING_SESSION" \in Phases
    BY DEF Phases, InProgressPhases
<1> QED
    BY <1>1, RowTypes, RevisionTypes DEF Successor, NoExecution, ExecutionRows

\* Where the coordinator may go from a task.
LEMMA TaskMoves ==
    ASSUME TypeOK, NEW at \in Ashore \cup Driving \cup {"checked", "admitted"}
    PROVE  LET t == [pc EXCEPT !.at = at] IN
           t \in Tasks /\ t.at = at /\ t.ex = pc.ex /\ t.job = pc.job /\ t.act = pc.act
BY DEF TypeOK, Tasks

LEMMA MovedTypes ==
    ASSUME TypeOK, NEW e, NEW a \in MotionActions,
           moved' = [moved EXCEPT ![e][a] = @ + 1]
    PROVE  moved' \in [Executions -> [MotionActions -> Nat]]
<1>1. CASE e \in Executions
    <2>1. moved[e][a] + 1 \in Nat
        BY <1>1 DEF TypeOK
    <2>2. [moved[e] EXCEPT ![a] = moved[e][a] + 1] \in [MotionActions -> Nat]
        BY <1>1, <2>1 DEF TypeOK
    <2> QED
        BY <1>1, <2>2 DEF TypeOK
<1>2. CASE e \notin Executions
    BY <1>2 DEF TypeOK
<1> QED
    BY <1>1, <1>2

LEMMA FaultTypes ==
    ASSUME TypeOK, Fault
    PROVE  faults' \in 0 .. MaxFaults
BY MaxFaultsAssumption DEF TypeOK, Fault

LEMMA WriteTypes ==
    ASSUME TypeOK, NEW e, NEW row \in ExecutionRows, Write(e, row)
    PROVE  exec' \in [Executions -> ExecutionRows]
BY DEF TypeOK, Write

LEMMA AdmissionInvalidated ==
    ASSUME NEW r \in AdmissionRows
    PROVE  [r EXCEPT !.st = "INVALIDATED"] \in AdmissionRows
BY DEF AdmissionRows

LEMMA ChallengeStale ==
    ASSUME NEW r \in ChallengeRows
    PROVE  /\ [r EXCEPT !.fresh = FALSE] \in ChallengeRows
           /\ [r EXCEPT !.late = TRUE] \in ChallengeRows
BY DEF ChallengeRows

LEMMA RowStale ==
    ASSUME NEW r \in ExecutionRows
    PROVE  LET s == [r EXCEPT !.fresh = FALSE] IN
           /\ s \in ExecutionRows /\ s.phase = r.phase /\ s.mile = r.mile
           /\ s.retired = r.retired /\ s.job = r.job /\ s.pred = r.pred
           /\ s.intent = r.intent
BY DEF ExecutionRows

LEMMA ReconcileTypes ==
    ASSUME TypeOK, ReconcileRestart
    PROVE  /\ exec' \in [Executions -> ExecutionRows]
           /\ jobs' \in [Jobs -> JobStates]
           /\ chal' \in [Executions -> [ApprovedActions -> ChallengeRows]]
           /\ adm' \in SUBSET AdmissionRows
<1>1. \A e \in Executions : Recovered(e, exec[e].mile) \in ExecutionRows
    BY RecoveredRow DEF TypeOK, ExecutionRows
<1>2. exec' \in [Executions -> ExecutionRows]
    BY <1>1 DEF TypeOK, ReconcileRestart, ReconciledExecutions
<1>3. jobs' \in [Jobs -> JobStates]
    BY DEF TypeOK, ReconcileRestart, ReconciledJobs, JobStates
<1>4. chal' \in [Executions -> [ApprovedActions -> ChallengeRows]]
    BY RowTypes DEF TypeOK, ReconcileRestart, ReconciledChallenges
<1>5. adm' \in SUBSET AdmissionRows
    BY AdmissionInvalidated DEF TypeOK, ReconcileRestart, ReconciledAdmissions
<1> QED
    BY <1>2, <1>3, <1>4, <1>5

LEMMA EndProcessTypes ==
    ASSUME TypeOK, EndProcess
    PROVE  TypeInv'
<1>1. pc' \in Tasks /\ pc'.at = "down"
    BY AshoreTasks DEF EndProcess, Ashore
<1>2. TaskBound'
    BY <1>1 DEF TaskBound, Driving
<1>3. exec' \in [Executions -> ExecutionRows]
    BY RowStale DEF TypeOK, EndProcess
<1>4. chal' \in [Executions -> [ApprovedActions -> ChallengeRows]]
    BY ChallengeStale DEF TypeOK, EndProcess
<1> QED
    BY <1>1, <1>2, <1>3, <1>4 DEF EndProcess, TypeInv, TypeOK

\* A task that carries nothing, and one that carries an execution or a job.
LEMMA RestType ==
    ASSUME NEW t, t = NoTask \/ \E at \in Ashore : t = [NoTask EXCEPT !.at = at]
    PROVE  t \in Tasks /\ t.at \in Ashore
<1>1. CASE t = NoTask
    BY <1>1, RowTypes DEF NoTask, Ashore
<1>2. CASE \E at \in Ashore : t = [NoTask EXCEPT !.at = at]
    BY <1>2, AshoreTasks
<1> QED
    BY <1>1, <1>2

LEMMA AdmitTypes ==
    ASSUME TypeOK, NEW e \in Executions, NEW a \in MotionActions \cup SessionActions,
           NEW n \in Nat, Admit(e, a, n)
    PROVE  /\ adm' \in SUBSET AdmissionRows
           /\ pc' \in Tasks /\ TaskBound'
           /\ pc'.at = "admitted" /\ pc'.ex = e
<1>1. pc' \in Tasks /\ pc'.at = "admitted" /\ pc'.ex = e
    BY RowTypes DEF Admit, NoTask, Tasks
<1>2. adm' \in SUBSET AdmissionRows
    BY DEF TypeOK, Admit, AdmissionRows
<1> QED
    BY <1>1, <1>2 DEF TaskBound

LEMMA LifecycleTypes ==
    ASSUME TypeInv, StartUp \/ Stop \/ ShutDown \/ ProcessExit \/ Crash
    PROVE  TypeInv'
<1> USE DEF TypeInv
<1>t. {"halting", "closing", "halted"} \subseteq Ashore /\ Ashore \cap (Driving \cup {"admitted", "checked"}) = {}
    BY DEF Ashore, Driving
<1>b. ASSUME pc' \in Tasks, pc'.at \in Ashore PROVE TaskBound'
    BY <1>b, <1>t DEF TaskBound
<1>1. CASE Start
    <2>1. pc' \in Tasks /\ pc'.at \in Ashore
        BY <1>1, RestType DEF Start, Rest
    <2> QED
        BY <1>1, <1>b, <2>1, ReconcileTypes DEF Start, TypeOK, sessions
<1>2. CASE StartRefused \/ Stop
    <2>1. pc' \in Tasks /\ pc'.at \in Ashore
        BY <1>2, <1>t, TaskMoves DEF StartRefused, Stop, To
    <2> QED
        BY <1>2, <1>b, <2>1 DEF StartRefused, Stop, TypeOK, sessions, durable
<1>3. CASE StartFault
    <2>1. pc' \in Tasks /\ pc'.at \in Ashore
        BY <1>3, <1>t, TaskMoves DEF StartFault, To
    <2> QED
        BY <1>3, <1>b, <2>1, FaultTypes DEF StartFault, TypeOK, sessions, durable
<1>4. CASE ShutdownReconcile
    <2>1. pc' \in Tasks /\ pc'.at \in Ashore
        BY <1>4, <1>t, TaskMoves DEF ShutdownReconcile, To
    <2> QED
        BY <1>4, <1>b, <2>1, ReconcileTypes DEF ShutdownReconcile, TypeOK, sessions
<1>5. CASE ShutdownUnreconciled
    <2>1. pc' \in Tasks /\ pc'.at \in Ashore
        BY <1>5, <1>t, TaskMoves DEF ShutdownUnreconciled, To
    <2>2. faults' \in 0 .. MaxFaults
        BY <1>5, FaultTypes DEF ShutdownUnreconciled, TypeOK
    <2> QED
        BY <1>5, <1>b, <2>1, <2>2 DEF ShutdownUnreconciled, TypeOK, sessions, durable
<1>6. CASE ShutdownClose
    <2>1. pc' \in Tasks /\ pc'.at \in Ashore
        BY <1>6, <1>t, TaskMoves DEF ShutdownClose, To
    <2> QED
        BY <1>6, <1>b, <2>1 DEF ShutdownClose, TypeOK, durable
<1>7. CASE ProcessExit \/ Crash
    BY <1>7, EndProcessTypes DEF ProcessExit, Crash
<1> QED
    BY <1>1, <1>2, <1>3, <1>4, <1>5, <1>6, <1>7 DEF StartUp, ShutDown

LEMMA CommandTypes ==
    ASSUME TypeInv, Command
    PROVE  TypeInv'
<1> USE DEF TypeInv
<1>b. ASSUME pc' \in Tasks, pc'.at \in Ashore PROVE TaskBound'
    BY <1>b DEF TaskBound, Ashore, Driving
<1>u. ASSUME UNCHANGED pc PROVE pc' \in Tasks /\ TaskBound'
    BY <1>u DEF TypeOK, TaskBound
<1>1. ASSUME NEW j \in Jobs, CheckPrepare(j) PROVE TypeInv'
    <2>1. pc' \in Tasks /\ pc'.at = "checked" /\ pc'.job = j
        BY <1>1, RowTypes DEF CheckPrepare, NoTask, Tasks, SessionActions
    <2>2. TaskBound'
        BY <2>1 DEF TaskBound, Driving
    <2> QED
        BY <1>1, <2>1, <2>2 DEF CheckPrepare, TypeOK, durable, sessions
<1>2. CASE CommitPrepare
    <2>1. NewExecution \in Executions /\ pc.job \in Jobs
        BY <1>2, NewExecutionFresh DEF CommitPrepare, TaskBound
    <2>2. exec' \in [Executions -> ExecutionRows]
        BY <1>2, <2>1, InitialRow, WriteTypes DEF CommitPrepare, Initial
    <2>3. Admit(NewExecution, "PREPARE_SESSION", 0) /\ "PREPARE_SESSION" \in MotionActions \cup SessionActions
        BY <1>2 DEF CommitPrepare, SessionActions
    <2> QED
        BY <1>2, <2>1, <2>2, <2>3, AdmitTypes DEF CommitPrepare, TypeOK, sessions
<1>3. CASE AbandonPrepare
    BY <1>3, <1>b, RestType DEF AbandonPrepare, Rest, TypeOK, durable, sessions
<1>4. CASE AdmissionFault
    <2>1. pc' \in Tasks /\ pc'.at \in Ashore
        BY <1>4, RestType DEF AdmissionFault, Ashore
    <2> QED
        BY <1>4, <1>b, <2>1, FaultTypes DEF AdmissionFault, TypeOK, durable, sessions
<1>5. ASSUME NEW e \in Executions, NEW a \in ApprovedActions,
             NEW d \in Dispositions \cup {"NONE"}, IssueChallenge(e, a, d)
      PROVE  chal' \in [Executions -> [ApprovedActions -> ChallengeRows]]
    <2>1. exec[e].rev \in Nat
        BY DEF TypeOK, ExecutionRows
    <2>2. [status |-> "PENDING", rev |-> exec[e].rev, disp |-> d,
           fresh |-> TRUE, late |-> FALSE] \in ChallengeRows
        BY <2>1 DEF ChallengeRows
    <2> QED
        BY <1>5, <2>2 DEF TypeOK, IssueChallenge
<1>6. ASSUME NEW e \in Executions, NEW a \in ApprovedActions, Consume(e, a)
      PROVE  chal' \in [Executions -> [ApprovedActions -> ChallengeRows]]
    BY <1>6, RowTypes DEF TypeOK, Consume
<1>7. ASSUME NEW e \in Executions, NEW a \in MotionActions, RequestMotion(e, a)
      PROVE  TypeInv'
    BY <1>7, <1>5, <1>u DEF RequestMotion, TypeOK, ApprovedActions, sessions
<1>8. ASSUME NEW e \in Executions, NEW a \in MotionActions, ExecuteMotion(e, a)
      PROVE  TypeInv'
    <2>1. AdmittedPhase(a) \in Phases /\ exec[e].mile \in Milestones
        BY RowTypes DEF TypeOK, ExecutionRows
    <2>2. exec' \in [Executions -> ExecutionRows]
        BY <1>8, <2>1, RevisedRow, WriteTypes DEF ExecuteMotion
    <2>3. chal' \in [Executions -> [ApprovedActions -> ChallengeRows]]
        BY <1>8, <1>6 DEF ExecuteMotion, ApprovedActions
    <2>4. adm' \in SUBSET AdmissionRows /\ pc' \in Tasks /\ TaskBound'
        BY <1>8, AdmitTypes, RevisionTypes DEF ExecuteMotion
    <2> QED
        BY <1>8, <2>2, <2>3, <2>4 DEF ExecuteMotion, TypeOK, sessions
<1>9. ASSUME NEW e \in Executions, NEW d \in Dispositions, RequestRecovery(e, d)
      PROVE  TypeInv'
    BY <1>9, <1>5, <1>u DEF RequestRecovery, TypeOK, ApprovedActions, sessions
<1>10. ASSUME NEW e \in Executions, NEW d \in Dispositions, TransferRecovery(e, d)
       PROVE  TypeInv'
    <2>1. NewExecution \in Executions
        BY <1>10, NewExecutionFresh DEF TransferRecovery
    <2>2. Retired(e, "TRANSFERRED") \in ExecutionRows /\ Successor(e) \in ExecutionRows
        BY RetiredRow, SuccessorRow
    <2>3. exec' \in [Executions -> ExecutionRows]
        BY <1>10, <2>2 DEF TransferRecovery, TypeOK
    <2>4. chal' \in [Executions -> [ApprovedActions -> ChallengeRows]]
        BY <1>10, <1>6 DEF TransferRecovery, ApprovedActions
    <2>5. adm' \in SUBSET AdmissionRows /\ pc' \in Tasks /\ TaskBound'
        BY <1>10, <2>1, AdmitTypes DEF TransferRecovery, SessionActions
    <2> QED
        BY <1>10, <2>3, <2>4, <2>5 DEF TransferRecovery, TypeOK, sessions
<1>11. ASSUME NEW e \in Executions, ReleaseRecovery(e) PROVE TypeInv'
    <2>1. exec' \in [Executions -> ExecutionRows]
        BY <1>11, RetiredRow, WriteTypes DEF ReleaseRecovery
    <2>2. chal' \in [Executions -> [ApprovedActions -> ChallengeRows]]
        BY <1>11, <1>6 DEF ReleaseRecovery, ApprovedActions
    <2> QED
        BY <1>11, <1>u, <2>1, <2>2 DEF ReleaseRecovery, TypeOK, sessions
<1>12. ASSUME NEW r \in adm, Replay(r) PROVE TypeInv'
    <2>1. r.ex \in Executions /\ r.act \in MotionActions \cup SessionActions /\ r.rev \in Nat
        BY DEF TypeOK, AdmissionRows
    <2>2. pc' \in Tasks /\ pc'.at = "admitted" /\ pc'.ex = r.ex
        BY <1>12, <2>1, RowTypes DEF Replay, NoTask, Tasks
    <2>3. TaskBound'
        BY <2>1, <2>2 DEF TaskBound
    <2> QED
        BY <1>12, <2>2, <2>3 DEF Replay, TypeOK, durable, sessions
<1> QED
    BY <1>1, <1>2, <1>3, <1>4, <1>7, <1>8, <1>9, <1>10, <1>11, <1>12 DEF Command

LEMMA DriveTypes ==
    ASSUME TypeInv, Drive
    PROVE  TypeInv'
<1> USE DEF TypeInv
<1>e. pc.ex \in Executions
    BY DEF TaskBound, Drive, Driving, ClaimRequest, ClaimFailed, OpenSession, OpenRefused,
           CommitPreflight, PreflightFailed, DriveMotion, CommitFirstWrite, FirstWriteFault,
           DriveStream, CommitMotionSuccess, CommitStreamConfirmed, SuccessCommitFault,
           CloseBeforeCompletion, CommitCompleted, CommitRecovery, RecoveryCommitFails,
           RecoveryReadFault, CloseFailedSession, CloseRecordFault
<1>m. exec[pc.ex].mile \in Milestones /\ exec[pc.ex].rev + 1 \in Nat
    BY <1>e, RevisionTypes DEF ExecutionRows
<1>a. pc \in Tasks
    BY DEF TypeOK
<1>g. ASSUME pc' \in Tasks, pc'.ex = pc.ex \/ pc'.at \in Ashore, pc'.at # "checked"
      PROVE  TaskBound'
    BY <1>e, <1>g DEF TaskBound, Ashore, Driving
<1>t. ASSUME NEW at \in Driving \cup {"halting"}, To(at) PROVE pc' \in Tasks /\ TaskBound'
    <2>1. at \in Ashore \cup Driving \cup {"checked", "admitted"} /\ at # "checked"
        BY <1>t DEF Ashore, Driving
    <2> QED
        BY <1>t, <1>g, <2>1, TaskMoves DEF To
<1>r. ASSUME Rest \/ pc' = [NoTask EXCEPT !.at = "halting"] PROVE pc' \in Tasks /\ TaskBound'
    <2>1. pc' \in Tasks /\ pc'.at \in Ashore
        BY <1>r, RestType DEF Rest, Ashore
    <2> QED
        BY <2>1, <1>g DEF Ashore
<1>c. ASSUME CloseCertain(pc.ex) \/ CloseUncertain(pc.ex) \/ UNCHANGED <<sess, port>>
      PROVE  sess' \in [Executions -> {"none", "held", "retained"}] /\ port' \in SUBSET Executions
    BY <1>c DEF TypeOK, CloseCertain, CloseUncertain
<1>w. ASSUME NEW p \in Phases, NEW m \in Milestones, Write(pc.ex, Revised(pc.ex, p, m))
      PROVE  exec' \in [Executions -> ExecutionRows]
    BY <1>w, <1>e, RevisedRow, WriteTypes
<1>p. /\ {"AWAITING_HOME_APPROVAL", "STREAMING", "AWAITING_HOME_Z_APPROVAL"} \subseteq Phases
      /\ {"FIRST_WRITE_POSSIBLE", "STREAM_CONFIRMED"} \subseteq Milestones
    BY DEF Phases, AwaitingPhases, InProgressPhases, Milestones
<1>d. {"claimed", "opened", "writing", "succeeded", "rejected", "failing", "closed",
       "cleanup"} \subseteq Driving
    BY DEF Driving
<1>f. ASSUME FailConfirmed PROVE pc' \in Tasks /\ TaskBound'
    <2>1. pc' \in Tasks /\ pc'.at = "failing" /\ pc'.ex = pc.ex
        BY <1>f, <1>a DEF FailConfirmed, Tasks, Driving
    <2> QED
        BY <2>1, <1>g
<1>1. CASE ClaimRequest
    <2>1. Admission("RESERVED") \in AdmissionRows
        BY <1>1 DEF ClaimRequest, ClaimAccepted, TypeOK
    <2>2. Admission("CLAIMED") \in AdmissionRows
        BY <2>1 DEF Admission, AdmissionRows
    <2>3. adm' \in SUBSET AdmissionRows
        BY <1>1, <2>2 DEF ClaimRequest, ClaimedAdmissions, TypeOK
    <2> QED
        BY <1>1, <1>t, <1>d, <2>3 DEF ClaimRequest, TypeOK, sessions
<1>2. CASE ClaimFailed
    <2>1. faults' \in 0 .. MaxFaults
        BY <1>2, FaultTypes DEF ClaimFailed, TypeOK
    <2> QED
        BY <1>2, <1>r, <2>1 DEF ClaimFailed, TypeOK, sessions, durable
<1>3. CASE OpenSession
    <2>1. pc' \in Tasks /\ TaskBound'
        BY <1>3, <1>t, <1>d DEF OpenSession
    <2>2. /\ sess' \in [Executions -> {"none", "held", "retained"}]
          /\ port' \in SUBSET Executions /\ opened' \in BOOLEAN
        BY <1>3, <1>e DEF OpenSession, TypeOK
    <2> QED
        BY <1>3, <2>1, <2>2 DEF OpenSession, TypeOK, durable
<1>4. CASE OpenRefused \/ PreflightFailed
    BY <1>4, <1>t, <1>d DEF OpenRefused, PreflightFailed, TypeOK, durable, sessions
<1>5. CASE CommitPreflight
    <2>1. exec' \in [Executions -> ExecutionRows]
        BY <1>5, <1>w, <1>p, <1>m DEF CommitPreflight
    <2> QED
        BY <1>5, <1>r, <2>1, FaultTypes DEF CommitPreflight, TypeOK, sessions
<1>6. CASE DriveMotion
    <2>1. moved' \in [Executions -> [MotionActions -> Nat]]
        BY <1>6, MovedTypes DEF DriveMotion, TypeOK
    <2>2. pc' \in Tasks /\ TaskBound'
        BY <1>6, <1>t, <1>d DEF DriveMotion
    <2> QED
        BY <1>6, <2>1, <2>2 DEF DriveMotion, TypeOK, durable, sessions
<1>7. CASE CommitFirstWrite
    <2>1. exec' \in [Executions -> ExecutionRows]
        BY <1>7, <1>w, <1>p DEF CommitFirstWrite, WriteBoundary, TypeOK
    <2>2. pc.rev + 1 \in Nat
        BY <1>a DEF Tasks
    <2>3. LET t == [pc EXCEPT !.at = "writing", !.rev = @ + 1] IN
          t \in Tasks /\ t.at = "writing" /\ t.ex = pc.ex
        BY <1>a, <2>2 DEF Tasks, Driving
    <2>4. pc' \in Tasks /\ TaskBound'
        BY <1>7, <1>g, <1>t, <1>d, <2>3 DEF CommitFirstWrite
    <2> QED
        BY <1>7, <2>1, <2>4 DEF CommitFirstWrite, TypeOK, sessions
<1>8. CASE FirstWriteFault
    BY <1>8, <1>t, FaultTypes DEF FirstWriteFault, TypeOK, sessions, durable
<1>9. CASE DriveStream
    <2>1. moved' \in [Executions -> [MotionActions -> Nat]]
        BY <1>9, MovedTypes DEF DriveStream, MotionActions
    <2>2. LET t == [pc EXCEPT !.at = "failing", !.confirmed = TRUE] IN
          t \in Tasks /\ t.at = "failing" /\ t.ex = pc.ex
        BY <1>a DEF Tasks, Driving
    <2>3. pc' \in Tasks /\ TaskBound'
        BY <1>9, <1>g, <1>t, <1>d, <2>2 DEF DriveStream
    <2> QED
        BY <1>9, <2>1, <2>3 DEF DriveStream, TypeOK, durable, sessions
<1>10. CASE CommitMotionSuccess
    <2>1. NextPhase(pc.act) \in Phases
        BY DEF NextPhase, Phases, AwaitingPhases
    <2>2. exec' \in [Executions -> ExecutionRows]
        BY <1>10, <1>w, <1>m, <2>1 DEF CommitMotionSuccess
    <2> QED
        BY <1>10, <1>r, <2>2 DEF CommitMotionSuccess, TypeOK, sessions
<1>11. CASE CommitStreamConfirmed
    <2>1. exec' \in [Executions -> ExecutionRows]
        BY <1>11, <1>w, <1>p DEF CommitStreamConfirmed
    <2> QED
        BY <1>11, <1>r, <2>1 DEF CommitStreamConfirmed, TypeOK, sessions
<1>12. CASE SuccessCommitFault
    BY <1>12, <1>f, FaultTypes DEF SuccessCommitFault, TypeOK, durable, sessions
<1>13. CASE CloseBeforeCompletion
    <2>1. LET t == [pc EXCEPT !.at = "closed", !.close = "done"] IN
          t \in Tasks /\ t.at = "closed" /\ t.ex = pc.ex
        BY <1>a DEF Tasks, Driving
    <2>2. pc' \in Tasks /\ TaskBound'
        BY <1>13, <1>f, <1>g, <2>1 DEF CloseBeforeCompletion
    <2> QED
        BY <1>13, <1>c, <2>2 DEF CloseBeforeCompletion, TypeOK, durable
<1>14. CASE CommitCompleted
    <2>1. exec' \in [Executions -> ExecutionRows]
        BY <1>14, <1>e, CompletedRow, WriteTypes DEF CommitCompleted
    <2>2. jobs' \in [Jobs -> JobStates]
        BY <1>14 DEF CommitCompleted, TypeOK, JobStates
    <2> QED
        BY <1>14, <1>r, <2>1, <2>2 DEF CommitCompleted, TypeOK, sessions
<1>15. CASE CommitRecovery
    <2>1. FailureMilestone \in Milestones
        BY <1>m DEF FailureMilestone, Milestones
    <2>2. exec' \in [Executions -> ExecutionRows]
        BY <1>15, <1>e, <2>1, RecoveredRow, WriteTypes DEF CommitRecovery
    <2>3. jobs' \in [Jobs -> JobStates]
        BY <1>15 DEF CommitRecovery, TypeOK, JobStates
    <2>4. pc' \in Tasks /\ TaskBound'
        BY <1>15, <1>r, <1>t, <1>d DEF CommitRecovery
    <2> QED
        BY <1>15, <2>2, <2>3, <2>4 DEF CommitRecovery, TypeOK, sessions
<1>16. CASE RecoveryCommitFails
    <2>1. faults' \in 0 .. MaxFaults
        BY <1>16, FaultTypes DEF RecoveryCommitFails, TypeOK
    <2>2. sess' \in [Executions -> {"none", "held", "retained"}] /\ port' \in SUBSET Executions
        BY <1>16, <1>c DEF RecoveryCommitFails, CloseOnFatal
    <2>3. LET t == [pc EXCEPT !.at = "failing", !.close = "early"] IN
          t \in Tasks /\ t.at = "failing" /\ t.ex = pc.ex
        BY <1>a DEF Tasks, Driving
    <2>4. pc' \in Tasks /\ TaskBound'
        BY <1>16, <1>g, <1>r, <2>3 DEF RecoveryCommitFails
    <2> QED
        BY <1>16, <2>1, <2>2, <2>4 DEF RecoveryCommitFails, TypeOK, durable
<1>17. CASE RecoveryReadFault
    <2>1. sess' \in [Executions -> {"none", "held", "retained"}]
        BY <1>17 DEF RecoveryReadFault, TypeOK
    <2> QED
        BY <1>17, <1>r, <2>1, FaultTypes DEF RecoveryReadFault, TypeOK, durable
<1>18. CASE CloseFailedSession
    BY <1>18, <1>r, <1>c DEF CloseFailedSession, TypeOK, durable
<1>19. CASE CloseRecordFault
    BY <1>19, <1>r, <1>c, FaultTypes DEF CloseRecordFault, TypeOK, durable
<1> QED
    BY <1>1, <1>2, <1>3, <1>4, <1>5, <1>6, <1>7, <1>8, <1>9, <1>10, <1>11, <1>12, <1>13,
       <1>14, <1>15, <1>16, <1>17, <1>18, <1>19 DEF Drive

LEMMA BesideTypes ==
    ASSUME TypeInv,
           \/ \E j \in Jobs : CancelJob(j)
           \/ \E e \in Executions, a \in ApprovedActions : TimeUp(e, a)
           \/ UNCHANGED vars
    PROVE  TypeInv'
<1> USE DEF TypeInv
<1>1. ASSUME NEW j \in Jobs, CancelJob(j) PROVE TypeInv'
    BY <1>1 DEF CancelJob, TypeOK, TaskBound, JobStates, sessions
<1>2. ASSUME NEW e \in Executions, NEW a \in ApprovedActions, TimeUp(e, a) PROVE TypeInv'
    <2>0. chal[e][a] \in ChallengeRows
        BY DEF TypeOK
    <2>1. [chal[e][a] EXCEPT !.late = TRUE] \in ChallengeRows
        BY <2>0, ChallengeStale
    <2>2. chal' \in [Executions -> [ApprovedActions -> ChallengeRows]]
        BY <1>2, <2>1 DEF TimeUp, TypeOK
    <2> QED
        BY <1>2, <2>2 DEF TimeUp, TypeOK, TaskBound, sessions
<1>3. CASE UNCHANGED vars
    BY <1>3 DEF vars, TypeOK, TaskBound
<1> QED
    BY <1>1, <1>2, <1>3

LEMMA StepType == TypeInv /\ [Next]_vars => TypeInv'
BY LifecycleTypes, CommandTypes, DriveTypes, BesideTypes DEF Next

\* Type correctness: whatever the coordinator, the job thread, time, faults and
\* crashes do, every row, session and task holds a value the schema allows.
THEOREM TypeCorrect == Spec => []TypeOK
<1>1. Spec => []TypeInv
    BY InitType, StepType, PTL DEF Spec
<1>2. TypeInv => TypeOK
    BY DEF TypeInv
<1> QED
    BY <1>1, <1>2, PTL

-----------------------------------------------------------------------------
(* One owner, and at most one stream per job *)

\* Rows that only advance: nobody becomes an owner, jobs and predecessors stay,
\* marks stay, and a job still READY_TO_RUN keeps its execution in flight.
LEMMA RowsAdvance ==
    ASSUME TypeInv, RowInv, TypeInv',
           \A e \in Executions :
               /\ Streamed(e)' = Streamed(e)
               /\ exec'[e].job = exec[e].job /\ exec'[e].pred = exec[e].pred
               /\ Present(e) => Present(e)'
               /\ ~Present(e) => exec'[e] = NoExecution
               /\ Active(e)' => Active(e)
               /\ exec[e].mile # "NOT_STARTED" => exec'[e].mile # "NOT_STARTED"
               /\ Present(e) /\ jobs'[exec[e].job] = "READY_TO_RUN" =>
                      /\ jobs[exec[e].job] = "READY_TO_RUN"
                      /\ InFlight(e) => InFlight(e)'
    PROVE  RowInv'
<1> USE DEF RowInv
<1>0. NoExecution.phase = "ABSENT"
    BY DEF NoExecution
<1>1. \A e \in Executions : Present(e)' <=> Present(e)
    BY <1>0 DEF Present
<1>2. RowsBound'
    BY <1>1 DEF RowsBound
<1>3. OneOwner'
    BY DEF OneOwner
<1>4. ReadyUntouched'
    BY <1>1 DEF ReadyUntouched, IsSuccessor
<1>5. StreamLeavesMark'
    BY DEF StreamLeavesMark
<1>6. StreamAtMostOnce'
    BY DEF StreamAtMostOnce
<1> QED
    BY <1>2, <1>3, <1>4, <1>5, <1>6

\* Nothing of what RowInv speaks about changes.
LEMMA RowsSame ==
    ASSUME TypeInv, RowInv, TypeInv', UNCHANGED exec,
           \A e \in Executions : Streamed(e)' = Streamed(e),
           \A j \in Jobs : jobs'[j] = "READY_TO_RUN" => jobs[j] = "READY_TO_RUN"
    PROVE  RowInv'
<1>1. \A e \in Executions : Present(e) => exec[e].job \in Jobs
    BY DEF RowInv, RowsBound
<1>2. \A e \in Executions : ~Present(e) => exec'[e] = NoExecution
    BY DEF RowInv, RowsBound
<1>3. \A e \in Executions : /\ Present(e)' <=> Present(e)
                            /\ Active(e)' <=> Active(e)
                            /\ InFlight(e)' <=> InFlight(e)
    BY DEF Present, Active, InFlight
<1> QED
    BY <1>1, <1>2, <1>3, RowsAdvance

\* One transaction that advances the row of the owner.
LEMMA OwnerAdvances ==
    ASSUME TypeInv, RowInv, TypeInv', UNCHANGED moved,
           NEW e \in Executions, Active(e), NEW row \in ExecutionRows, Write(e, row),
           row.phase # "ABSENT", row.job = exec[e].job, row.pred = exec[e].pred,
           exec[e].mile # "NOT_STARTED" => row.mile # "NOT_STARTED",
           \A j \in Jobs : jobs'[j] = "READY_TO_RUN" => jobs[j] = "READY_TO_RUN",
           \/ jobs'[exec[e].job] # "READY_TO_RUN"
           \/ /\ row.retired = "NO"
              /\ row.phase \notin {"COMPLETED", "RECOVERY_REQUIRED"}
    PROVE  RowInv'
<1>1. exec'[e] = row /\ \A f \in Executions : f # e => exec'[f] = exec[f]
    BY DEF Write, TypeInv, TypeOK
<1>2. \A f \in Executions : Present(f) => exec[f].job \in Jobs
    BY DEF RowInv, RowsBound
<1>3. \A f \in Executions : ~Present(f) => exec'[f] = NoExecution
    BY <1>1 DEF RowInv, RowsBound, Active
<1>4. \A f \in Executions : Streamed(f)' = Streamed(f)
    BY DEF Streamed
<1>5. \A f \in Executions : f # e => /\ Present(f)' <=> Present(f)
                                     /\ Active(f)' <=> Active(f)
                                     /\ InFlight(f)' <=> InFlight(f)
    BY <1>1 DEF Present, Active, InFlight
<1>6. Present(e) /\ Present(e)'
    BY <1>1 DEF Active, Present
<1>7. row.retired = "NO" /\ row.phase \notin {"COMPLETED", "RECOVERY_REQUIRED"} => InFlight(e)'
    BY <1>1, <1>6 DEF InFlight, Active, Present
<1> QED
    BY <1>1, <1>2, <1>3, <1>4, <1>5, <1>6, <1>7, RowsAdvance

\* A new row n for a machine that no other row owns any more.
LEMMA RowInserted ==
    ASSUME TypeInv, RowInv, TypeInv', UNCHANGED <<jobs, moved>>,
           NEW n \in Executions, ~Present(n),
           Present(n)', exec'[n].job \in Jobs,
           exec'[n].mile = "NOT_STARTED" =>
               \A f \in Executions : exec[f].job = exec'[n].job => Streamed(f) = 0,
           jobs[exec'[n].job] = "READY_TO_RUN" => InFlight(n)' /\ ~IsSuccessor(n)',
           \A f \in Executions \ {n} :
               /\ exec'[f].job = exec[f].job /\ exec'[f].pred = exec[f].pred
               /\ exec'[f].mile = exec[f].mile
               /\ Present(f)' <=> Present(f)
               /\ ~Present(f) => exec'[f] = NoExecution
               /\ ~Active(f)'
               /\ Present(f) /\ jobs[exec[f].job] = "READY_TO_RUN" => InFlight(f)'
    PROVE  RowInv'
<1> USE DEF RowInv
<1>1. \A f \in Executions : Streamed(f)' = Streamed(f)
    BY DEF Streamed
<1>2. Streamed(n) = 0
    BY DEF RowsBound
<1>3. RowsBound'
    BY <1>1 DEF RowsBound
<1>4. OneOwner'
    BY DEF OneOwner
<1>5. ReadyUntouched'
    BY DEF ReadyUntouched, IsSuccessor
<1>6. StreamLeavesMark'
    <2>1. SUFFICES ASSUME NEW e \in Executions, NEW f \in Executions,
                          Streamed(e) > 0, exec'[e].job = exec'[f].job, f = e \/ Active(f)'
                   PROVE  exec'[f].mile # "NOT_STARTED"
        BY <1>1 DEF StreamLeavesMark
    <2>2. e # n
        BY <1>2, <2>1
    <2>3. CASE f = n
        BY <2>1, <2>2, <2>3
    <2>4. CASE f # n
        BY <2>1, <2>4 DEF StreamLeavesMark
    <2> QED
        BY <2>3, <2>4
<1>7. StreamAtMostOnce'
    <2>1. \A e \in Executions : Streamed(e)' <= 1
        BY <1>1 DEF StreamAtMostOnce
    <2>2. ASSUME NEW e \in Executions, NEW f \in Executions, f # e, exec'[e].job = exec'[f].job
          PROVE  Streamed(e) = 0 \/ Streamed(f) = 0
        <3>1. CASE e = n \/ f = n
            BY <1>2, <3>1
        <3>2. CASE e # n /\ f # n
            BY <2>2, <3>2 DEF StreamAtMostOnce
        <3> QED
            BY <3>1, <3>2
    <2> QED
        BY <1>1, <2>1, <2>2 DEF StreamAtMostOnce
<1> QED
    BY <1>3, <1>4, <1>5, <1>6, <1>7

LEMMA InitSafe == Init => IInv
<1> SUFFICES ASSUME Init PROVE IInv
    OBVIOUS
<1>1. TypeInv
    BY InitType
<1>2. \A e \in Executions : /\ exec[e] = NoExecution /\ Streamed(e) = 0
                            /\ exec[e].phase = "ABSENT"
    BY DEF Init, Streamed, MotionActions, NoExecution
<1>3. \A e \in Executions : ~Present(e) /\ ~Active(e)
    BY <1>2 DEF Present, Active
<1>4. RowInv
    BY <1>2, <1>3 DEF RowInv, RowsBound, OneOwner, ReadyUntouched, StreamLeavesMark,
                      StreamAtMostOnce
<1>5. pc.at = "down"
    BY AshoreTasks DEF Init, Ashore
<1>6. TaskInv
    BY <1>5 DEF TaskInv, DrivesOwner, WritingIsFirst, Driving
<1> QED
    BY <1>1, <1>4, <1>6 DEF IInv

\* A task off the machine claims nothing about the rows.
LEMMA AshoreSafe ==
    ASSUME pc'.at \notin Driving \/ pc'.at = "cleanup"
    PROVE  TaskInv'
BY DEF TaskInv, DrivesOwner, WritingIsFirst, Driving

\* A drive that goes on short of writing still works for the owner.
LEMMA DriveGoesOn ==
    ASSUME pc'.at # "writing", InFlight(pc.ex)'
    PROVE  TaskInv'
BY DEF TaskInv, DrivesOwner, WritingIsFirst

LEMMA ReconcileSafe ==
    ASSUME TypeInv, RowInv, TypeInv', ReconcileRestart, UNCHANGED moved
    PROVE  RowInv'
<1>1. \A e \in Executions : exec[e].mile \in Milestones
    BY DEF TypeInv, TypeOK, ExecutionRows
<1>2. ASSUME NEW e \in Executions, InFlight(e)
      PROVE  /\ exec'[e].phase = "RECOVERY_REQUIRED" /\ exec'[e].mile = exec[e].mile
             /\ exec'[e].retired = exec[e].retired /\ exec'[e].job = exec[e].job
             /\ exec'[e].pred = exec[e].pred
             /\ Present(e) /\ Present(e)' /\ Active(e)
             /\ ~IsSuccessor(e) => jobs'[exec[e].job] # "READY_TO_RUN"
    <2>1. exec'[e] = Recovered(e, exec[e].mile)
        BY <1>2 DEF ReconcileRestart, ReconciledExecutions
    <2>2. exec[e].job \in Jobs
        BY <1>2 DEF InFlight, Active, RowInv, RowsBound
    <2>3. ~IsSuccessor(e) => jobs'[exec[e].job] = "RECOVERY_REQUIRED"
        BY <1>2, <2>2 DEF ReconcileRestart, ReconciledJobs
    <2> QED
        BY <1>1, <1>2, <2>1, <2>3, RecoveredRow DEF TypeInv, InFlight, Active, Present
<1>3. ASSUME NEW e \in Executions, ~InFlight(e)
      PROVE  /\ exec'[e] = exec[e] /\ (Present(e)' <=> Present(e)) /\ (Active(e)' <=> Active(e))
    <2>1. exec'[e] = exec[e]
        BY <1>3 DEF ReconcileRestart, ReconciledExecutions
    <2> QED
        BY <2>1 DEF Present, Active
<1>4. \A j \in Jobs : jobs'[j] = "READY_TO_RUN" => jobs[j] = "READY_TO_RUN"
    BY DEF ReconcileRestart, ReconciledJobs
<1>5. \A e \in Executions : Present(e) => exec[e].job \in Jobs
    BY DEF RowInv, RowsBound
<1>6. \A e \in Executions : ~Present(e) => exec[e] = NoExecution /\ ~InFlight(e)
    BY DEF RowInv, RowsBound, InFlight, Active
<1>7. \A e \in Executions : Streamed(e)' = Streamed(e)
    BY DEF Streamed
<1>8. ASSUME NEW e \in Executions, Present(e), jobs'[exec[e].job] = "READY_TO_RUN"
      PROVE  ~InFlight(e)
    BY <1>2, <1>4, <1>5, <1>8 DEF RowInv, ReadyUntouched
<1> QED
    BY <1>2, <1>3, <1>4, <1>5, <1>6, <1>7, <1>8, RowsAdvance

LEMMA LifecycleSafe ==
    ASSUME IInv, StartUp \/ Stop \/ ShutDown \/ ProcessExit \/ Crash
    PROVE  IInv'
<1> USE DEF IInv
<1>1. TypeInv'
    BY LifecycleTypes
<1>2. pc'.at \notin Driving
    <2>1. CASE \E at \in {"halting", "closing", "halted"} : To(at)
        BY <2>1, TaskMoves DEF TypeInv, To, Ashore, Driving
    <2>2. CASE Rest \/ pc' = [NoTask EXCEPT !.at = "down"]
        BY <2>2, AshoreTasks DEF Rest, NoTask, Ashore, Driving
    <2> QED
        BY <2>1, <2>2 DEF StartUp, Stop, ShutDown, ProcessExit, Crash, Start, StartRefused,
           StartFault, ShutdownReconcile, ShutdownUnreconciled, ShutdownClose, EndProcess
<1>3. CASE Start \/ ShutdownReconcile
    BY <1>1, <1>2, <1>3, AshoreSafe, ReconcileSafe DEF Start, ShutdownReconcile
<1>4. CASE StartRefused \/ StartFault \/ Stop \/ ShutdownUnreconciled \/ ShutdownClose
    <2>1. UNCHANGED <<exec, jobs, moved>>
        BY <1>4 DEF StartRefused, StartFault, Stop, ShutdownUnreconciled, ShutdownClose, durable
    <2> QED
        BY <1>1, <1>2, <2>1, AshoreSafe, RowsSame DEF Streamed
<1>5. CASE ProcessExit \/ Crash
    <2>1. /\ \A e \in Executions : exec'[e] = [exec[e] EXCEPT !.fresh = FALSE]
          /\ UNCHANGED <<jobs, moved>>
        BY <1>5 DEF ProcessExit, Crash, EndProcess
    <2>2. \A e \in Executions :
            /\ exec'[e].phase = exec[e].phase /\ exec'[e].mile = exec[e].mile
            /\ exec'[e].retired = exec[e].retired /\ exec'[e].job = exec[e].job
            /\ exec'[e].pred = exec[e].pred
        BY <2>1, RowStale DEF TypeInv, TypeOK
    <2>3. \A e \in Executions : ~Present(e) => exec'[e] = NoExecution
        BY <2>1 DEF RowInv, RowsBound, NoExecution
    <2>4. \A e \in Executions : /\ Present(e)' <=> Present(e)
                                /\ Active(e)' <=> Active(e)
                                /\ InFlight(e)' <=> InFlight(e)
        BY <2>2 DEF Present, Active, InFlight
    <2>5. RowInv'
        BY <1>1, <2>1, <2>2, <2>3, <2>4, RowsAdvance DEF Streamed
    <2> QED
        BY <1>1, <1>2, <2>5, AshoreSafe
<1> QED
    BY <1>3, <1>4, <1>5 DEF StartUp, ShutDown

LEMMA CommandSafe ==
    ASSUME IInv, Command
    PROVE  IInv'
<1> USE DEF IInv
<1>t. TypeInv'
    BY CommandTypes
<1>j. \A f \in Executions : Present(f) => exec[f].job \in Jobs
    BY DEF RowInv, RowsBound
<1>p. \A f \in Executions : ~Present(f) => exec[f] = NoExecution /\ ~Active(f)
    BY DEF RowInv, RowsBound, Active
<1>d. pc'.at \notin Driving => TaskInv'
    BY AshoreSafe
<1>i. Idle => pc.at \notin Driving
    BY DEF Idle, Driving
<1>1. CASE \/ \E j \in Jobs : CheckPrepare(j)
           \/ AbandonPrepare \/ AdmissionFault
           \/ \E r \in adm : Replay(r)
    <2>1. UNCHANGED <<exec, jobs, moved>>
        BY <1>1 DEF CheckPrepare, AbandonPrepare, AdmissionFault, Replay, durable
    <2>2. pc'.at \in {"checked", "idle", "halting", "admitted"}
        <3>1. CASE AbandonPrepare \/ AdmissionFault
            BY <3>1 DEF AbandonPrepare, AdmissionFault, Rest, NoTask
        <3>2. CASE \E j \in Jobs : CheckPrepare(j)
            BY <3>2 DEF CheckPrepare, NoTask
        <3>3. CASE \E r \in adm : Replay(r)
            BY <3>3 DEF Replay, NoTask
        <3> QED
            BY <1>1, <3>1, <3>2, <3>3
    <2>3. pc'.at \notin Driving
        BY <2>2 DEF Driving
    <2> QED
        BY <1>t, <1>d, <2>1, <2>3, RowsSame DEF Streamed
<1>2. CASE CommitPrepare
    <2>0. PICK n \in Executions : n = NewExecution
        BY <1>2, NewExecutionFresh DEF CommitPrepare
    <2>1. n \in Executions /\ ~Present(n) /\ pc.job \in Jobs
        BY <1>2, <2>0, NewExecutionFresh DEF CommitPrepare, TypeInv, TaskBound
    <2>2. exec'[n] = Initial(pc.job) /\ \A f \in Executions \ {n} : exec'[f] = exec[f]
        BY <1>2, <2>0, <2>1 DEF CommitPrepare, Write, Initial, TypeInv, TypeOK
    <2>3. /\ Present(n)' /\ InFlight(n)' /\ ~IsSuccessor(n)'
          /\ exec'[n].job = pc.job
        BY <2>1, <2>2, InitialRow DEF Present, Active, InFlight, IsSuccessor
    <2>4. \A f \in Executions : ~Active(f)
        BY <1>2 DEF CommitPrepare, NoOwner
    <2>5. \A f \in Executions \ {n} : /\ Present(f)' <=> Present(f)
                                      /\ Active(f)' <=> Active(f)
                                      /\ InFlight(f)' <=> InFlight(f)
        BY <2>2 DEF Present, Active, InFlight
    <2>6. \A f \in Executions : Present(f) => exec[f].job # pc.job
        BY <1>2, <2>4 DEF CommitPrepare, RowInv, ReadyUntouched, InFlight
    <2>7. \A f \in Executions : exec[f].job = pc.job => Streamed(f) = 0
        BY <2>6 DEF RowInv, RowsBound
    <2>8. \A f \in Executions : Present(f) /\ jobs[exec[f].job] = "READY_TO_RUN" => InFlight(f)
        BY DEF RowInv, ReadyUntouched
    <2>9. UNCHANGED <<jobs, moved>>
        BY <1>2 DEF CommitPrepare
    <2>10. RowInv'
        BY <1>t, <1>p, <2>1, <2>2, <2>3, <2>4, <2>5, <2>7, <2>8, <2>9, RowInserted
    <2>11. pc'.at \notin Driving
        BY <1>2, <2>0, AdmitTypes DEF CommitPrepare, TypeInv, SessionActions, Driving
    <2> QED
        BY <1>t, <1>d, <2>10, <2>11
<1>3. ASSUME NEW e \in Executions, NEW a \in MotionActions, NEW d \in Dispositions,
             RequestMotion(e, a) \/ RequestRecovery(e, d)
      PROVE  IInv'
    <2>1. UNCHANGED <<exec, jobs, moved, pc>> /\ Idle
        BY <1>3 DEF RequestMotion, RequestRecovery
    <2>2. pc'.at \notin Driving
        BY <1>i, <2>1
    <2> QED
        BY <1>t, <1>d, <2>1, <2>2, RowsSame DEF Streamed
<1>4. ASSUME NEW e \in Executions, NEW a \in MotionActions, ExecuteMotion(e, a)
      PROVE  IInv'
    <2>1. /\ AdmittedPhase(a) \in Phases
          /\ AdmittedPhase(a) \notin {"ABSENT", "COMPLETED", "RECOVERY_REQUIRED"}
          /\ exec[e].mile \in Milestones
        BY RowTypes DEF AdmittedPhase, MotionActions, SessionActions, TypeInv, TypeOK, ExecutionRows
    <2> DEFINE row == Revised(e, AdmittedPhase(a), exec[e].mile)
    <2>2. /\ row \in ExecutionRows /\ row.phase = AdmittedPhase(a) /\ row.mile = exec[e].mile
          /\ row.retired = exec[e].retired /\ row.job = exec[e].job /\ row.pred = exec[e].pred
        BY <2>1, RevisedRow DEF TypeInv
    <2>3. Active(e) /\ exec[e].retired = "NO"
        BY <1>4 DEF ExecuteMotion, MotionOwner, Active
    <2>4. Write(e, row) /\ UNCHANGED <<jobs, moved>>
        BY <1>4 DEF ExecuteMotion
    <2> HIDE DEF row
    <2>5. RowInv'
        BY <1>t, <2>1, <2>2, <2>3, <2>4, OwnerAdvances
    <2>6. pc'.at \notin Driving
        BY <1>4, AdmitTypes, RevisionTypes DEF ExecuteMotion, TypeInv, Driving
    <2> QED
        BY <1>t, <1>d, <2>5, <2>6
<1>5. ASSUME NEW e \in Executions, ReleaseRecovery(e) PROVE IInv'
    <2> DEFINE row == Retired(e, "RELEASED")
    <2>1. /\ row \in ExecutionRows /\ row.phase = exec[e].phase /\ row.mile = exec[e].mile
          /\ row.job = exec[e].job /\ row.pred = exec[e].pred
        BY RetiredRow DEF TypeInv
    <2>2. Active(e) /\ exec[e].phase # "ABSENT" /\ jobs[exec[e].job] # "READY_TO_RUN"
        BY <1>5 DEF ReleaseRecovery, RecoveryOwner
    <2>3. Write(e, row) /\ UNCHANGED <<jobs, moved, pc>> /\ Idle
        BY <1>5 DEF ReleaseRecovery
    <2> HIDE DEF row
    <2>4. RowInv'
        BY <1>t, <2>1, <2>2, <2>3, OwnerAdvances
    <2> QED
        BY <1>t, <1>d, <1>i, <2>3, <2>4
<1>6. ASSUME NEW e \in Executions, NEW d \in Dispositions, TransferRecovery(e, d)
      PROVE  IInv'
    <2>0. PICK n \in Executions : n = NewExecution
        BY <1>6, NewExecutionFresh DEF TransferRecovery
    <2>1. n \in Executions /\ ~Present(n)
        BY <1>6, <2>0, NewExecutionFresh DEF TransferRecovery
    <2>2. Active(e) /\ jobs[exec[e].job] # "READY_TO_RUN" /\ Present(e) /\ e # n
        BY <1>6, <2>1 DEF TransferRecovery, RecoveryOwner, Active
    <2>3. /\ exec'[n] = Successor(e) /\ exec'[e] = Retired(e, "TRANSFERRED")
          /\ \A f \in Executions \ {n, e} : exec'[f] = exec[f]
        BY <1>6, <2>0, <2>1, <2>2 DEF TransferRecovery, TypeInv, TypeOK
    <2>4. /\ Present(n)' /\ exec'[n].job = exec[e].job /\ exec'[n].mile = exec[e].mile
        BY <2>1, <2>3, SuccessorRow DEF TypeInv, Present
    <2>5. /\ exec'[e].job = exec[e].job /\ exec'[e].pred = exec[e].pred
          /\ exec'[e].mile = exec[e].mile /\ Present(e)' /\ ~Active(e)'
        BY <2>2, <2>3, RetiredRow DEF TypeInv, Present, Active
    <2>6. \A f \in Executions \ {n, e} : /\ Present(f)' <=> Present(f)
                                         /\ Active(f)' <=> Active(f)
                                         /\ InFlight(f)' <=> InFlight(f)
        BY <2>3 DEF Present, Active, InFlight
    <2>7. \A f \in Executions \ {e} : ~Active(f)
        BY <2>2 DEF RowInv, OneOwner
    <2>8. exec[e].mile = "NOT_STARTED" =>
              \A f \in Executions : exec[f].job = exec[e].job => Streamed(f) = 0
        BY <2>2 DEF RowInv, StreamLeavesMark, TypeInv, TypeOK, Streamed, MotionActions
    <2>9. \A f \in Executions : Present(f) /\ jobs[exec[f].job] = "READY_TO_RUN" =>
              InFlight(f) /\ f # e
        BY <2>2 DEF RowInv, ReadyUntouched
    <2>10. UNCHANGED <<jobs, moved>>
        BY <1>6 DEF TransferRecovery
    <2>11. RowInv'
        BY <1>t, <1>j, <1>p, <2>1, <2>2, <2>3, <2>4, <2>5, <2>6, <2>7, <2>8, <2>9, <2>10,
           RowInserted
    <2>12. pc'.at \notin Driving
        BY <1>6, <2>0, AdmitTypes DEF TransferRecovery, TypeInv, SessionActions, Driving
    <2> QED
        BY <1>t, <1>d, <2>11, <2>12
<1>m. MotionActions # {} /\ Dispositions # {}
    BY DEF MotionActions, Dispositions
<1> QED
    BY <1>m, <1>1, <1>2, <1>3, <1>4, <1>5, <1>6 DEF Command

LEMMA DriveSafe ==
    ASSUME IInv, Drive
    PROVE  IInv'
<1> USE DEF IInv
<1>t. TypeInv'
    BY DriveTypes
<1>e. pc.ex \in Executions /\ pc.at \in Driving \cup {"admitted"}
    BY DEF TypeInv, TaskBound, Drive, Driving, ClaimRequest, ClaimFailed, OpenSession,
           OpenRefused, CommitPreflight, PreflightFailed, DriveMotion, CommitFirstWrite,
           FirstWriteFault, DriveStream, CommitMotionSuccess, CommitStreamConfirmed,
           SuccessCommitFault, CloseBeforeCompletion, CommitCompleted, CommitRecovery,
           RecoveryCommitFails, RecoveryReadFault, CloseFailedSession, CloseRecordFault
<1>o. pc.at \notin {"admitted", "cleanup"} =>
          InFlight(pc.ex) /\ Active(pc.ex) /\ exec[pc.ex].retired = "NO"
    BY <1>e DEF TaskInv, DrivesOwner, InFlight, Active
<1>m. exec[pc.ex].mile \in Milestones /\ pc \in Tasks
    BY <1>e DEF TypeInv, TypeOK, ExecutionRows
<1>r. ASSUME Rest \/ pc' = [NoTask EXCEPT !.at = "halting"] \/ To("halting") \/ To("cleanup")
      PROVE  TaskInv'
    <2>1. pc'.at \in {"idle", "halting", "cleanup"}
        BY <1>m, <1>r DEF Rest, To, NoTask, Tasks
    <2> QED
        BY <2>1, AshoreSafe DEF Driving
<1>g. ASSUME pc'.ex = pc.ex, pc'.at # "writing", InFlight(pc.ex), UNCHANGED exec
      PROVE  TaskInv'
    <2>1. InFlight(pc.ex)'
        BY <1>g DEF InFlight, Active, Present
    <2> QED
        BY <1>g, <2>1, DriveGoesOn
<1>s. ASSUME UNCHANGED <<jobs, exec, moved>> PROVE RowInv'
    BY <1>s, <1>t, RowsSame DEF Streamed
<1>w. ASSUME NEW p \in Phases, NEW m \in Milestones, pc.at \notin {"admitted", "cleanup"},
             p \notin {"COMPLETED", "RECOVERY_REQUIRED", "ABSENT"},
             exec[pc.ex].mile # "NOT_STARTED" => m # "NOT_STARTED",
             Write(pc.ex, Revised(pc.ex, p, m)), UNCHANGED <<jobs, moved>>
      PROVE  RowInv'
    <2>1. PICK e \in Executions : e = pc.ex
        BY <1>e
    <2>2. PICK row : row = Revised(pc.ex, p, m)
        OBVIOUS
    <2>3. /\ row \in ExecutionRows /\ row.phase = p /\ row.mile = m
          /\ row.retired = "NO" /\ row.job = exec[e].job /\ row.pred = exec[e].pred
        BY <1>o, <1>w, <2>1, <2>2, RevisedRow DEF TypeInv
    <2>4. Write(e, row) /\ Active(e)
        BY <1>o, <1>w, <2>1, <2>2 DEF Write
    <2> QED
        BY <1>t, <1>w, <2>1, <2>3, <2>4, OwnerAdvances
<1>p. /\ {"AWAITING_HOME_APPROVAL", "STREAMING", "AWAITING_HOME_Z_APPROVAL"} \subseteq Phases
      /\ {"FIRST_WRITE_POSSIBLE", "STREAM_CONFIRMED"} \subseteq Milestones
    BY DEF Phases, AwaitingPhases, InProgressPhases, Milestones
<1>1. CASE ClaimRequest
    <2>1. Active(pc.ex) /\ exec[pc.ex].phase = AdmittedPhase(pc.act)
        BY <1>1 DEF ClaimRequest, ClaimAccepted
    <2>2. pc.act \in MotionActions \cup SessionActions
        <3>1. Admission("RESERVED") \in AdmissionRows
            BY <1>1 DEF ClaimRequest, ClaimAccepted, TypeInv, TypeOK
        <3> QED
            BY <3>1 DEF Admission, AdmissionRows
    <2>3. AdmittedPhase(pc.act) # "RECOVERY_REQUIRED"
        BY <2>2 DEF AdmittedPhase, MotionActions, SessionActions
    <2>4. InFlight(pc.ex)
        BY <2>1, <2>3 DEF InFlight
    <2>5. pc'.ex = pc.ex /\ pc'.at # "writing"
        BY <1>1, <1>m DEF ClaimRequest, To, Tasks
    <2> QED
        BY <1>1, <1>t, <1>g, <1>s, <2>4, <2>5 DEF ClaimRequest
<1>2. CASE ClaimFailed \/ FirstWriteFault \/ RecoveryReadFault \/ CloseFailedSession \/ CloseRecordFault
    <2>1. UNCHANGED <<jobs, exec, moved>>
        BY <1>2 DEF ClaimFailed, FirstWriteFault, RecoveryReadFault, CloseFailedSession,
                    CloseRecordFault, durable
    <2>2. TaskInv'
        BY <1>2, <1>r DEF ClaimFailed, FirstWriteFault, RecoveryReadFault, CloseFailedSession,
                          CloseRecordFault
    <2> QED
        BY <1>t, <1>s, <2>1, <2>2
<1>3. CASE OpenSession \/ OpenRefused \/ PreflightFailed \/ SuccessCommitFault \/ CloseBeforeCompletion
    <2>1. UNCHANGED <<jobs, exec, moved>> /\ InFlight(pc.ex)
        BY <1>3, <1>o DEF OpenSession, OpenRefused, PreflightFailed, SuccessCommitFault,
                          CloseBeforeCompletion, durable
    <2>2. \/ \E at \in {"opened", "failing"} : To(at)
          \/ FailConfirmed
          \/ pc' = [pc EXCEPT !.at = "closed", !.close = "done"]
        BY <1>3 DEF OpenSession, OpenRefused, PreflightFailed, SuccessCommitFault,
                    CloseBeforeCompletion
    <2>3. pc'.ex = pc.ex /\ pc'.at # "writing"
        BY <1>m, <2>2 DEF To, FailConfirmed, Tasks
    <2> QED
        BY <1>t, <1>s, <1>g, <2>1, <2>3
<1>4. CASE CommitPreflight
    <2>1. RowInv'
        BY <1>4, <1>w, <1>p, <1>m DEF CommitPreflight
    <2> QED
        BY <1>4, <1>t, <1>r, <2>1 DEF CommitPreflight
<1>5. CASE DriveMotion
    <2>1. UNCHANGED <<jobs, exec>> /\ InFlight(pc.ex) /\ pc.act # "STREAM"
        BY <1>5, <1>o DEF DriveMotion, durable
    <2>2. \A f \in Executions : Streamed(f)' = Streamed(f)
        BY <1>5, <1>e, <2>1 DEF DriveMotion, Streamed, TypeInv, TypeOK, MotionActions
    <2>3. \E at \in {"succeeded", "failing", "rejected"} : To(at)
        BY <1>5 DEF DriveMotion
    <2>4. pc'.ex = pc.ex /\ pc'.at # "writing"
        BY <1>m, <2>3 DEF To, Tasks
    <2>5. RowInv'
        BY <1>t, <2>1, <2>2, RowsSame
    <2> QED
        BY <1>t, <1>g, <2>1, <2>4, <2>5
<1>6. CASE CommitFirstWrite /\ To("failing") /\ UNCHANGED exec
    <2>1. UNCHANGED <<jobs, exec, moved>> /\ InFlight(pc.ex) /\ To("failing")
        BY <1>6, <1>o DEF CommitFirstWrite
    <2>2. pc'.ex = pc.ex /\ pc'.at # "writing"
        BY <1>m, <2>1 DEF To, Tasks
    <2> QED
        BY <1>t, <1>s, <1>g, <2>1, <2>2
<1>7. CASE CommitFirstWrite /\ Write(pc.ex, WriteBoundary)
           /\ pc' = [pc EXCEPT !.at = "writing", !.rev = @ + 1]
    <2>1. PICK x \in Executions : x = pc.ex
        BY <1>e
    <2>2. /\ exec[x].mile = "NOT_STARTED" /\ UNCHANGED <<jobs, moved>>
          /\ Write(x, Revised(x, "STREAMING", "FIRST_WRITE_POSSIBLE"))
          /\ pc' = [pc EXCEPT !.at = "writing", !.rev = @ + 1]
          /\ pc.act = "STREAM" /\ pc.at = "claimed"
        BY <1>7, <2>1 DEF CommitFirstWrite, WriteBoundary, Revised
    <2>3. RowInv'
        BY <1>p, <1>w, <2>1, <2>2
    <2>4. pc'.at = "writing" /\ pc'.ex = x /\ pc'.act = "STREAM"
        BY <1>m, <2>1, <2>2 DEF Tasks
    <2>5. Active(x) /\ exec[x].retired = "NO"
        BY <1>o, <2>1, <2>2
    <2>6. /\ exec'[x].phase = "STREAMING" /\ exec'[x].mile = "FIRST_WRITE_POSSIBLE"
          /\ exec'[x].retired = "NO" /\ \A f \in Executions : exec'[f].job = exec[f].job
        BY <1>p, <2>2, <2>5, RevisedRow DEF TypeInv, TypeOK, Write
    <2>7. InFlight(x)'
        BY <2>6 DEF InFlight, Active, Present
    <2>8. \A f \in Executions : exec[f].job = exec[x].job => Streamed(f) = 0
        BY <2>2, <2>5 DEF RowInv, StreamLeavesMark, TypeInv, TypeOK, Streamed, MotionActions
    <2>9. \A f \in Executions : exec'[f].job = exec'[x].job => Streamed(f)' = 0
        BY <2>2, <2>6, <2>8 DEF Streamed
    <2>10. TaskInv'
        BY <2>4, <2>6, <2>7, <2>9 DEF TaskInv, DrivesOwner, WritingIsFirst, InFlight, Active,
           Present
    <2> QED
        BY <1>t, <2>3, <2>10
<1>8. CASE DriveStream
    <2>1. PICK x \in Executions : x = pc.ex
        BY <1>e
    <2>2. /\ UNCHANGED <<jobs, exec>> /\ moved' = [moved EXCEPT ![x]["STREAM"] = @ + 1]
          /\ InFlight(pc.ex) /\ Active(x) /\ pc.at = "writing"
        BY <1>8, <1>o, <2>1 DEF DriveStream, durable
    <2>3. exec[x].mile = "FIRST_WRITE_POSSIBLE" /\
          \A f \in Executions : exec[f].job = exec[x].job => Streamed(f) = 0
        BY <2>1, <2>2 DEF TaskInv, DrivesOwner, WritingIsFirst
    <2>4. Streamed(x)' = 1 /\ \A f \in Executions : f # x => Streamed(f)' = Streamed(f)
        BY <2>2, <2>3 DEF Streamed, TypeInv, TypeOK, MotionActions
    <2>5. \A f \in Executions : /\ Present(f)' <=> Present(f)
                                /\ Active(f)' <=> Active(f)
                                /\ InFlight(f)' <=> InFlight(f)
                                /\ IsSuccessor(f)' <=> IsSuccessor(f)
        BY <2>2 DEF Present, Active, InFlight, IsSuccessor
    <2>6. RowsBound' /\ OneOwner' /\ ReadyUntouched'
        BY <2>2, <2>4, <2>5 DEF RowInv, RowsBound, OneOwner, ReadyUntouched, Active
    <2>7. StreamLeavesMark'
        BY <2>2, <2>3, <2>4, <2>5 DEF RowInv, OneOwner, StreamLeavesMark
    <2>8. StreamAtMostOnce'
        BY <2>2, <2>3, <2>4 DEF RowInv, StreamAtMostOnce
    <2>9. pc'.ex = pc.ex /\ pc'.at # "writing"
        BY <1>8, <1>m DEF DriveStream, To, Tasks
    <2> QED
        BY <1>t, <1>g, <2>2, <2>6, <2>7, <2>8, <2>9 DEF RowInv
<1>9. CASE CommitMotionSuccess
    <2>1. NextPhase(pc.act) \in Phases /\ NextPhase(pc.act) \notin {"COMPLETED", "RECOVERY_REQUIRED", "ABSENT"}
        BY DEF NextPhase, Phases, AwaitingPhases
    <2>2. RowInv'
        BY <1>9, <1>w, <1>m, <2>1 DEF CommitMotionSuccess
    <2> QED
        BY <1>9, <1>t, <1>r, <2>2 DEF CommitMotionSuccess
<1>10. CASE CommitStreamConfirmed
    <2>1. RowInv'
        BY <1>10, <1>w, <1>p DEF CommitStreamConfirmed
    <2> QED
        BY <1>10, <1>t, <1>r, <2>1 DEF CommitStreamConfirmed
<1>11. CASE CommitCompleted
    <2>1. PICK e \in Executions : e = pc.ex
        BY <1>e
    <2>2. PICK row : row = Completed(pc.ex)
        OBVIOUS
    <2>3. /\ row \in ExecutionRows /\ row.phase = "COMPLETED" /\ row.mile = "STREAM_CONFIRMED"
          /\ row.job = exec[e].job /\ row.pred = exec[e].pred
        BY <2>1, <2>2, CompletedRow DEF TypeInv
    <2>4. Write(e, row) /\ Active(e) /\ UNCHANGED moved
        BY <1>11, <1>o, <2>1, <2>2 DEF CommitCompleted, Write
    <2>5. exec[e].job \in Jobs
        BY <2>4 DEF RowInv, RowsBound, Active
    <2>6. /\ \A j \in Jobs : jobs'[j] = "READY_TO_RUN" => jobs[j] = "READY_TO_RUN"
          /\ jobs'[exec[e].job] # "READY_TO_RUN"
        BY <1>11, <2>1, <2>5 DEF CommitCompleted, TypeInv, TypeOK
    <2>7. RowInv'
        BY <1>t, <2>3, <2>4, <2>6, OwnerAdvances
    <2> QED
        BY <1>11, <1>t, <1>r, <2>7 DEF CommitCompleted
<1>12. CASE CommitRecovery
    <2>1. PICK e \in Executions : e = pc.ex
        BY <1>e
    <2>2. PICK m : m = FailureMilestone
        OBVIOUS
    <2>3. m \in Milestones /\ (exec[e].mile # "NOT_STARTED" => m # "NOT_STARTED")
        BY <1>m, <2>1, <2>2 DEF FailureMilestone, Milestones
    <2>4. PICK row : row = Recovered(pc.ex, FailureMilestone)
        OBVIOUS
    <2>5. /\ row \in ExecutionRows /\ row.phase = "RECOVERY_REQUIRED" /\ row.mile = m
          /\ row.job = exec[e].job /\ row.pred = exec[e].pred
        BY <2>1, <2>2, <2>3, <2>4, RecoveredRow DEF TypeInv
    <2>6. Write(e, row) /\ Active(e) /\ UNCHANGED moved
        BY <1>12, <1>o, <2>1, <2>4 DEF CommitRecovery, Write
    <2>7. exec[e].job \in Jobs
        BY <2>6 DEF RowInv, RowsBound, Active
    <2>8. /\ \A j \in Jobs : jobs'[j] = "READY_TO_RUN" => jobs[j] = "READY_TO_RUN"
          /\ jobs'[exec[e].job] # "READY_TO_RUN"
        BY <1>12, <2>1, <2>7 DEF CommitRecovery, TypeInv, TypeOK
    <2>9. RowInv'
        BY <1>t, <2>3, <2>5, <2>6, <2>8, OwnerAdvances
    <2> QED
        BY <1>12, <1>t, <1>r, <2>9 DEF CommitRecovery
<1>13. CASE RecoveryCommitFails
    <2>1. UNCHANGED <<jobs, exec, moved>> /\ InFlight(pc.ex)
        BY <1>13, <1>o DEF RecoveryCommitFails, durable
    <2>2. CASE pc' = [pc EXCEPT !.at = "failing", !.close = "early"]
        <3>1. pc'.ex = pc.ex /\ pc'.at # "writing"
            BY <1>m, <2>2 DEF Tasks
        <3> QED
            BY <1>t, <1>s, <1>g, <2>1, <3>1
    <2>3. CASE pc' = [NoTask EXCEPT !.at = "halting"]
        BY <1>t, <1>s, <1>r, <2>1, <2>3
    <2> QED
        BY <1>13, <2>2, <2>3 DEF RecoveryCommitFails
<1> QED
    BY <1>1, <1>2, <1>3, <1>4, <1>5, <1>6, <1>7, <1>8, <1>9, <1>10, <1>11, <1>12, <1>13 
       DEF Drive, CommitFirstWrite

LEMMA BesideSafe ==
    ASSUME IInv,
           \/ \E j \in Jobs : CancelJob(j)
           \/ \E e \in Executions, a \in ApprovedActions : TimeUp(e, a)
           \/ UNCHANGED vars
    PROVE  IInv'
<1> USE DEF IInv
<1>1. TypeInv'
    BY BesideTypes
<1>2. UNCHANGED <<exec, moved, pc>>
    BY DEF CancelJob, TimeUp, vars
<1>3. \A j \in Jobs : jobs'[j] = "READY_TO_RUN" => jobs[j] = "READY_TO_RUN"
    BY DEF CancelJob, TimeUp, vars, TypeInv, TypeOK
<1>4. RowInv'
    BY <1>1, <1>2, <1>3, RowsSame DEF Streamed
<1>5. TaskInv'
    BY <1>2 DEF TaskInv, DrivesOwner, WritingIsFirst, InFlight, Active, Present, Streamed
<1> QED
    BY <1>1, <1>4, <1>5

LEMMA StepSafe == IInv /\ [Next]_vars => IInv'
BY LifecycleSafe, CommandSafe, DriveSafe, BesideSafe DEF Next

LEMMA Inductive == Spec => []IInv
BY InitSafe, StepSafe, PTL DEF Spec

\* One global owner: no history of preparations, transfers, failures, restarts
\* and crashes leaves two active execution rows.
THEOREM AlwaysOneOwner == Spec => []OneOwner
<1>1. IInv => OneOwner
    BY DEF IInv, RowInv
<1> QED
    BY <1>1, Inductive, PTL

\* No automatic retry: the program of a job is handed to the adapter at most
\* once, by whichever of its executions, because the write boundary is durable
\* before the call and every later owner of the job inherits it.
THEOREM NeverStreamedTwice == Spec => []StreamAtMostOnce
<1>1. IInv => StreamAtMostOnce
    BY DEF IInv, RowInv
<1> QED
    BY <1>1, Inductive, PTL

-----------------------------------------------------------------------------
(* Admissions, claims and moves *)

\* The phases of an execution in the order it goes through them.
PhaseRank(p) ==
    CASE p = "ABSENT"                     -> 0
      [] p = "PREPARING_SESSION"          -> 1
      [] p = "AWAITING_HOME_APPROVAL"     -> 2
      [] p = "HOMING"                     -> 3
      [] p = "AWAITING_ZCAL_APPROVAL"     -> 4
      [] p = "Z_CALIBRATING"              -> 5
      [] p = "AWAITING_ZCONFIRM_APPROVAL" -> 6
      [] p = "Z_CONFIRMING"               -> 7
      [] p = "AWAITING_STREAM_APPROVAL"   -> 8
      [] p = "STREAMING"                  -> 9
      [] p = "AWAITING_HOME_Z_APPROVAL"   -> 10
      [] p = "HOMING_Z"                   -> 11
      [] p = "RECOVERY_REQUIRED"          -> 12
      [] OTHER                            -> 13

Reached(e, a) == PhaseRank(exec[e].phase) >= PhaseRank(AdmittedPhase(a))

Claimed(e, a) == \E r \in adm : r.ex = e /\ r.act = a /\ r.st = "CLAIMED"

\* One admission per execution and action; a motion's is behind its consumed
\* approval, and an unclaimed one is of the owner in the admitted phase.
AdmissionsExact ==
    /\ \A r \in adm :
          /\ Present(r.ex)
          /\ r.act \in MotionActions => Reached(r.ex, r.act) /\ chal[r.ex][r.act].status = "CONSUMED"
          /\ r.st = "RESERVED" => Active(r.ex) /\ exec[r.ex].phase = AdmittedPhase(r.act)
    /\ \A r, s \in adm : r.ex = s.ex /\ r.act = s.act => r = s

\* A dispatch happens once and for a claimed admission.
MovesAdmitted ==
    \A e \in Executions, a \in MotionActions : moved[e][a] > 0 => moved[e][a] = 1 /\ Claimed(e, a)

\* An unclaimed admission is in the coordinator's hand, or waits for the next
\* reconciliation while the process goes down.
ReservedInHand ==
    /\ pc.at \in {"idle", "checked"} \cup Driving => \A r \in adm : r.st # "RESERVED"
    /\ pc.at = "admitted" => \A r \in adm : r.st = "RESERVED" =>
          r.ex = pc.ex /\ r.act = pc.act /\ exec[r.ex].fresh

\* What a drive has behind it: its claim, the admitted phase, no dispatch yet.
TaskClaimed ==
    /\ pc.at \in Driving => exec[pc.ex].fresh /\ Claimed(pc.ex, pc.act)
    /\ pc.at \in Driving \ {"cleanup"} => exec[pc.ex].phase = AdmittedPhase(pc.act)
    /\ pc.at = "claimed" /\ pc.act \in MotionActions => moved[pc.ex][pc.act] = 0
    /\ pc.at = "opened" => pc.act \in SessionActions
    /\ pc.at \in {"succeeded", "closed", "rejected"} => pc.act \in MotionActions

AdmInv == AdmissionsExact /\ MovesAdmitted /\ ReservedInHand /\ TaskClaimed

-----------------------------------------------------------------------------
(* Sessions *)

Working == {"idle", "checked", "admitted"} \cup Driving

DownClean == pc.at = "down" => (\A e \in Executions : sess[e] = "none") /\ port = {} /\ opened = FALSE

TaskHeld ==
    /\ pc.at \in {"opened", "writing", "succeeded", "rejected"} => Held(pc.ex)
    /\ pc.at = "closed" => ~Held(pc.ex)
    /\ pc.at = "cleanup" => Active(pc.ex) /\ exec[pc.ex].phase = "RECOVERY_REQUIRED"

HeldOwner == pc.at \in Working => \A e \in Executions : Held(e) => Active(e)

PortGuarded ==
    pc.at \in Working => \A e \in port : sess[e] # "none" \/ (opened /\ ~ReopenAllowed)

OnePort == \A e, f \in port : e = f

Rested ==
    pc.at \in {"idle", "checked"} => \A e \in Executions : Active(e) =>
        \/ exec[e].phase = "RECOVERY_REQUIRED" /\ ~Held(e)
        \/ exec[e].phase \in AwaitingPhases /\ Held(e) /\ exec[e].fresh

SessInv == DownClean /\ TaskHeld /\ HeldOwner /\ PortGuarded /\ OnePort /\ Rested

-----------------------------------------------------------------------------
(* Rows and tasks from one state to the next *)

LEMMA SameRows ==
    ASSUME UNCHANGED exec
    PROVE  \A e \in Executions :
               /\ exec'[e] = exec[e]
               /\ Present(e)' <=> Present(e)
               /\ Active(e)' <=> Active(e)
               /\ InFlight(e)' <=> InFlight(e)
               /\ IsSuccessor(e)' <=> IsSuccessor(e)
               /\ PostStreamHome(e)' <=> PostStreamHome(e)
               /\ ExpectedJobState(e)' = ExpectedJobState(e)
BY DEF Present, Active, InFlight, IsSuccessor, PostStreamHome, ExpectedJobState

LEMMA OneRow ==
    ASSUME TypeOK, NEW e \in Executions, NEW row, Write(e, row)
    PROVE  /\ exec'[e] = row
           /\ \A f \in Executions \ {e} :
                  /\ exec'[f] = exec[f]
                  /\ Present(f)' <=> Present(f)
                  /\ Active(f)' <=> Active(f)
                  /\ InFlight(f)' <=> InFlight(f)
                  /\ IsSuccessor(f)' <=> IsSuccessor(f)
                  /\ PostStreamHome(f)' <=> PostStreamHome(f)
                  /\ ExpectedJobState(f)' = ExpectedJobState(f)
BY DEF TypeOK, Write, Present, Active, InFlight, IsSuccessor, PostStreamHome, ExpectedJobState

LEMMA TaskFields ==
    ASSUME TypeOK, NEW at, To(at)
    PROVE  /\ pc'.at = at /\ pc'.ex = pc.ex /\ pc'.act = pc.act
           /\ pc'.confirmed = pc.confirmed /\ pc'.close = pc.close
BY DEF TypeOK, Tasks, To

LEMMA TaskEnds ==
    /\ Rest => pc'.at = "idle"
    /\ \A at : pc' = [NoTask EXCEPT !.at = at] => pc'.at = at
BY DEF Rest, NoTask

LEMMA AdmitFields ==
    ASSUME NEW e, NEW a, NEW n, Admit(e, a, n)
    PROVE  /\ pc'.at = "admitted" /\ pc'.ex = e /\ pc'.act = a
           /\ adm' = adm \cup {[ex |-> e, rev |-> n, act |-> a, st |-> "RESERVED"]}
BY DEF Admit, NoTask

\* An action that the coordinator drives has an execution in hand, which is the
\* owner until the outcome is committed.
LEMMA InHand ==
    ASSUME IInv
    PROVE  /\ pc \in Tasks
           /\ pc.at \in Driving \cup {"admitted"} => pc.ex \in Executions
           /\ pc.at \in Driving \ {"cleanup"} =>
                  /\ InFlight(pc.ex) /\ Active(pc.ex) /\ Present(pc.ex)
                  /\ exec[pc.ex].retired = "NO"
BY DEF IInv, TypeInv, TypeOK, TaskBound, TaskInv, DrivesOwner, InFlight, Active, Driving

LEMMA RowInHand ==
    ASSUME IInv, NEW e \in Executions
    PROVE  /\ exec[e] \in ExecutionRows /\ exec[e].mile \in Milestones
           /\ exec[e].phase \in Phases \cup {"ABSENT"}
           /\ exec[e].pred \in Executions \cup {None}
BY DEF IInv, TypeInv, TypeOK, ExecutionRows

LEMMA RankFacts ==
    /\ \A p : PhaseRank(p) \in 0 .. 13
    /\ \A p \in Phases : PhaseRank(p) >= 1
    /\ \A p \in Phases \cup {"ABSENT"} : PhaseRank(p) <= PhaseRank("COMPLETED")
    /\ \A p \in (Phases \cup {"ABSENT"}) \ {"COMPLETED"} :
           PhaseRank(p) <= PhaseRank("RECOVERY_REQUIRED")
    /\ \A a \in MotionActions :
           /\ PhaseRank(PriorPhase(a)) < PhaseRank(AdmittedPhase(a))
           /\ PhaseRank(AdmittedPhase(a)) <= PhaseRank(NextPhase(a)) \/ a \in {"STREAM", "HOME_Z"}
    /\ PhaseRank("STREAMING") <= PhaseRank("AWAITING_HOME_Z_APPROVAL")
    /\ PhaseRank("PREPARING_SESSION") <= PhaseRank("AWAITING_HOME_APPROVAL")
<1>1. \A p : PhaseRank(p) \in 0 .. 13
    BY DEF PhaseRank
<1>2. \A p \in Phases : PhaseRank(p) >= 1
    BY DEF PhaseRank, Phases, AwaitingPhases, InProgressPhases
<1>3. /\ \A p \in Phases \cup {"ABSENT"} : PhaseRank(p) <= PhaseRank("COMPLETED")
      /\ \A p \in (Phases \cup {"ABSENT"}) \ {"COMPLETED"} :
             PhaseRank(p) <= PhaseRank("RECOVERY_REQUIRED")
    BY DEF PhaseRank, Phases, AwaitingPhases, InProgressPhases
<1>4. \A a \in MotionActions :
           /\ PhaseRank(PriorPhase(a)) < PhaseRank(AdmittedPhase(a))
           /\ PhaseRank(AdmittedPhase(a)) <= PhaseRank(NextPhase(a)) \/ a \in {"STREAM", "HOME_Z"}
    BY DEF PhaseRank, MotionActions, PriorPhase, AdmittedPhase, NextPhase, SessionActions
<1>5. /\ PhaseRank("STREAMING") <= PhaseRank("AWAITING_HOME_Z_APPROVAL")
      /\ PhaseRank("PREPARING_SESSION") <= PhaseRank("AWAITING_HOME_APPROVAL")
    BY DEF PhaseRank
<1> QED
    BY <1>1, <1>2, <1>3, <1>4, <1>5

LEMMA FreshRows ==
    ASSUME IInv, NEW e \in Executions
    PROVE  /\ \A p, m : Revised(e, p, m).fresh = exec[e].fresh
           /\ \A m : Recovered(e, m).fresh = exec[e].fresh
BY RowInHand DEF Revised, Recovered, ExecutionRows

-----------------------------------------------------------------------------
(* Admissions: every step keeps AdmInv *)

\* Admissions and moves survive when phases only advance, consumed approvals
\* stay consumed, and the owner of an unclaimed admission waits.
LEMMA AdmissionsKept ==
    ASSUME IInv, AdmInv, IInv', UNCHANGED <<adm, moved>>,
           \A e \in Executions : Present(e) =>
               /\ Present(e)' /\ PhaseRank(exec[e].phase) <= PhaseRank(exec'[e].phase)
               /\ \A a \in MotionActions : Reached(e, a) /\ chal[e][a].status = "CONSUMED" =>
                      chal'[e][a].status = "CONSUMED",
           \A r \in adm : r.st = "RESERVED" =>
               Active(r.ex)' /\ exec'[r.ex].phase = exec[r.ex].phase
    PROVE  AdmissionsExact' /\ MovesAdmitted'
<1>1. \A r \in adm : r.ex \in Executions
    BY DEF IInv, TypeInv, TypeOK, AdmissionRows
<1>2. \A e \in Executions, a \in MotionActions : Present(e) /\ Reached(e, a) => Reached(e, a)'
    BY RankFacts DEF Reached
<1>3. AdmissionsExact'
    BY <1>1, <1>2 DEF AdmInv, AdmissionsExact
<1>4. MovesAdmitted'
    BY DEF AdmInv, MovesAdmitted, Claimed
<1> QED
    BY <1>3, <1>4

LEMMA AdmissionsSame ==
    ASSUME IInv, AdmInv, IInv', UNCHANGED <<exec, chal, adm, moved>>
    PROVE  AdmissionsExact' /\ MovesAdmitted'
<1>1. \A e \in Executions : Present(e)' <=> Present(e)
    BY DEF Present
<1>2. \A r \in adm : r.ex \in Executions
    BY DEF IInv, TypeInv, TypeOK, AdmissionRows
<1>3. \A r \in adm : r.st = "RESERVED" => Active(r.ex)' /\ exec'[r.ex].phase = exec[r.ex].phase
    BY <1>2, SameRows DEF AdmInv, AdmissionsExact
<1>4. \A e \in Executions : PhaseRank(exec[e].phase) <= PhaseRank(exec'[e].phase)
    BY RankFacts
<1> QED
    BY <1>1, <1>3, <1>4, AdmissionsKept

\* With no task of its own in hand the coordinator owes nothing.
LEMMA NoTaskOwes ==
    ASSUME pc'.at \in {"halting", "closing", "halted", "down"}
    PROVE  ReservedInHand' /\ TaskClaimed'
BY DEF ReservedInHand, TaskClaimed, Driving

LEMMA RestOwes ==
    ASSUME pc'.at \in {"idle", "checked"}, \A r \in adm' : r.st # "RESERVED"
    PROVE  ReservedInHand' /\ TaskClaimed'
BY DEF ReservedInHand, TaskClaimed, Driving

\* A drive that goes on keeps its claim; its phase lasts until the outcome.
LEMMA DriveOwes ==
    ASSUME AdmInv, pc.at \in Driving, pc'.at \in Driving, pc'.ex = pc.ex, pc'.act = pc.act,
           UNCHANGED adm, exec'[pc.ex].fresh = exec[pc.ex].fresh,
           pc'.at # "cleanup" => pc.at # "cleanup" /\ exec'[pc.ex].phase = exec[pc.ex].phase,
           pc'.at # "claimed",
           pc'.at = "opened" => pc.act \in SessionActions,
           pc'.at \in {"succeeded", "closed", "rejected"} => pc.act \in MotionActions
    PROVE  ReservedInHand' /\ TaskClaimed'
<1>1. \A r \in adm : r.st # "RESERVED"
    BY DEF AdmInv, ReservedInHand
<1>2. Claimed(pc.ex, pc.act)'
    BY DEF AdmInv, TaskClaimed, Claimed
<1>3. ReservedInHand'
    BY <1>1 DEF ReservedInHand, Driving
<1>4. TaskClaimed'
    BY <1>2 DEF AdmInv, TaskClaimed, Driving, Claimed
<1> QED
    BY <1>3, <1>4

LEMMA ReconcileAdmissions ==
    ASSUME IInv, AdmInv, IInv', ReconcileRestart, UNCHANGED moved
    PROVE  /\ AdmissionsExact' /\ MovesAdmitted'
           /\ \A r \in adm' : r.st # "RESERVED"
<1>1. \A r \in adm : r \in AdmissionRows /\ r.ex \in Executions
    BY DEF IInv, TypeInv, TypeOK, AdmissionRows
<1>2. \A r \in adm : LET s == [r EXCEPT !.st = "INVALIDATED"] IN
          s.ex = r.ex /\ s.act = r.act /\ s.rev = r.rev /\ s.st = "INVALIDATED"
    BY <1>1 DEF AdmissionRows
<1>3. /\ \A s \in adm' : s.st # "RESERVED" /\ \E r \in adm :
             s = IF r.st = "RESERVED" THEN [r EXCEPT !.st = "INVALIDATED"] ELSE r
      /\ \A r \in adm : r.st # "RESERVED" => r \in adm'
    BY <1>1, <1>2 DEF ReconcileRestart, ReconciledAdmissions, AdmInv, AdmissionsExact
<1>4. \A e \in Executions : Present(e) =>
          Present(e)' /\ PhaseRank(exec[e].phase) <= PhaseRank(exec'[e].phase)
    <2> SUFFICES ASSUME NEW e \in Executions, Present(e)
                 PROVE  Present(e)' /\ PhaseRank(exec[e].phase) <= PhaseRank(exec'[e].phase)
        OBVIOUS
    <2>1. CASE InFlight(e)
        <3>1. exec'[e] = Recovered(e, exec[e].mile)
            BY <2>1 DEF ReconcileRestart, ReconciledExecutions
        <3>2. exec'[e].phase = "RECOVERY_REQUIRED"
            BY <3>1, RowInHand, RecoveredRow DEF IInv, TypeInv
        <3>3. exec[e].phase \in (Phases \cup {"ABSENT"}) \ {"COMPLETED"}
            BY <2>1, RowInHand DEF InFlight, Active
        <3> QED
            BY <3>2, <3>3, RankFacts DEF Present
    <2>2. CASE ~InFlight(e)
        <3>1. exec'[e] = exec[e]
            BY <2>2 DEF ReconcileRestart, ReconciledExecutions
        <3> QED
            BY <3>1, RankFacts DEF Present
    <2> QED
        BY <2>1, <2>2
<1>5. \A e \in Executions, a \in MotionActions : Present(e) /\ Reached(e, a) => Reached(e, a)'
    BY <1>4, RankFacts DEF Reached
<1>6. \A e \in Executions, a \in MotionActions :
          chal[e][a].status = "CONSUMED" => chal'[e][a].status = "CONSUMED"
    BY DEF ReconcileRestart, ReconciledChallenges, ApprovedActions
<1>7. \A s \in adm' : \E r \in adm : s.ex = r.ex /\ s.act = r.act
    BY <1>2, <1>3
<1>8. ASSUME NEW s \in adm', NEW t \in adm', s.ex = t.ex, s.act = t.act PROVE s = t
    <2>1. PICK r \in adm : s = IF r.st = "RESERVED" THEN [r EXCEPT !.st = "INVALIDATED"] ELSE r
        BY <1>3
    <2>2. PICK q \in adm : t = IF q.st = "RESERVED" THEN [q EXCEPT !.st = "INVALIDATED"] ELSE q
        BY <1>3
    <2>3. r.ex = q.ex /\ r.act = q.act
        BY <1>2, <1>8, <2>1, <2>2
    <2>4. r = q
        BY <2>3 DEF AdmInv, AdmissionsExact
    <2> QED
        BY <2>1, <2>2, <2>4
<1>9. AdmissionsExact'
    BY <1>1, <1>3, <1>4, <1>5, <1>6, <1>7, <1>8 DEF AdmInv, AdmissionsExact
<1>10. MovesAdmitted'
    BY <1>3 DEF AdmInv, MovesAdmitted, Claimed
<1> QED
    BY <1>3, <1>9, <1>10

LEMMA LifecycleAdmissions ==
    ASSUME IInv, AdmInv, IInv', StartUp \/ Stop \/ ShutDown \/ ProcessExit \/ Crash
    PROVE  AdmInv'
<1>t. TypeOK
    BY DEF IInv, TypeInv
<1>1. CASE Start
    BY <1>1, ReconcileAdmissions, TaskEnds, RestOwes DEF Start, AdmInv
<1>2. CASE ShutdownReconcile
    BY <1>2, <1>t, ReconcileAdmissions, TaskFields, NoTaskOwes DEF ShutdownReconcile, AdmInv
<1>3. CASE StartRefused \/ StartFault \/ Stop \/ ShutdownUnreconciled \/ ShutdownClose
    <2>1. UNCHANGED <<exec, chal, adm, moved>> /\ \E at \in {"halting", "closing", "halted"} : To(at)
        BY <1>3 DEF StartRefused, StartFault, Stop, ShutdownUnreconciled, ShutdownClose, durable
    <2>2. pc'.at \in {"halting", "closing", "halted"}
        BY <1>t, <2>1, TaskFields
    <2> QED
        BY <2>1, <2>2, AdmissionsSame, NoTaskOwes DEF AdmInv
<1>4. CASE EndProcess
    <2>1. pc'.at = "down" /\ UNCHANGED <<adm, moved>>
        BY <1>4, TaskEnds DEF EndProcess
    <2>2. \A e \in Executions : /\ exec'[e].phase = exec[e].phase
                                /\ exec'[e].retired = exec[e].retired
        BY <1>4, RowInHand, RowStale DEF EndProcess
    <2>3. \A e \in Executions, a \in MotionActions : chal'[e][a].status = chal[e][a].status
        <3>1. ASSUME NEW e \in Executions, NEW a \in ApprovedActions
              PROVE  chal'[e][a].status = chal[e][a].status
            <4>1. chal'[e][a] = [chal[e][a] EXCEPT !.fresh = FALSE] /\ chal[e][a] \in ChallengeRows
                BY <1>4, <1>t DEF EndProcess, TypeOK
            <4> QED
                BY <4>1 DEF ChallengeRows
        <3> QED
            BY <3>1 DEF ApprovedActions
    <2>4. \A e \in Executions : Active(e) => Active(e)'
        BY <2>2 DEF Active, Present
    <2>5. \A r \in adm : r.ex \in Executions
        BY <1>t DEF TypeOK, AdmissionRows
    <2>6. \A r \in adm : r.st = "RESERVED" => Active(r.ex)' /\ exec'[r.ex].phase = exec[r.ex].phase
        BY <2>2, <2>4, <2>5 DEF AdmInv, AdmissionsExact
    <2>7. \A e \in Executions : PhaseRank(exec[e].phase) <= PhaseRank(exec'[e].phase)
        BY <2>2, RankFacts
    <2>8. \A e \in Executions : Present(e) => Present(e)'
        BY <2>2 DEF Present
    <2> QED
        BY <2>1, <2>3, <2>6, <2>7, <2>8, AdmissionsKept, NoTaskOwes DEF AdmInv
<1> QED
    BY <1>1, <1>2, <1>3, <1>4 DEF StartUp, ShutDown, ProcessExit, Crash

\* A transaction that inserts the unclaimed admission of e and a: nothing else is
\* unclaimed, and e has no admission for a yet.
LEMMA AdmissionInserted ==
    ASSUME IInv, AdmInv, IInv', pc.at \in {"idle", "checked"}, UNCHANGED moved,
           NEW e \in Executions, NEW a \in MotionActions \cup SessionActions, NEW n,
           Admit(e, a, n), Active(e)', exec'[e].phase = AdmittedPhase(a), exec'[e].fresh,
           \A r \in adm : r.ex = e => r.act # a,
           a \in MotionActions => chal'[e][a].status = "CONSUMED",
           \A f \in Executions : Present(f) =>
               /\ Present(f)' /\ PhaseRank(exec[f].phase) <= PhaseRank(exec'[f].phase)
               /\ \A b \in MotionActions : chal[f][b].status = "CONSUMED" =>
                      chal'[f][b].status = "CONSUMED"
    PROVE  AdmInv'
<1>1. PICK q : q = [ex |-> e, rev |-> n, act |-> a, st |-> "RESERVED"]
    OBVIOUS
<1>2. /\ q.ex = e /\ q.act = a /\ q.st = "RESERVED" /\ adm' = adm \cup {q}
      /\ pc'.at = "admitted" /\ pc'.ex = e /\ pc'.act = a
    BY <1>1, AdmitFields
<1>3. \A r \in adm : r.ex \in Executions /\ r.st # "RESERVED"
    BY DEF IInv, TypeInv, TypeOK, AdmissionRows, AdmInv, ReservedInHand
<1>4. \A f \in Executions, b \in MotionActions : Present(f) /\ Reached(f, b) => Reached(f, b)'
    BY RankFacts DEF Reached
<1>5. Present(e)' /\ (a \in MotionActions => Reached(e, a)')
    BY RankFacts DEF Reached, Active
<1>6. AdmissionsExact'
    <2>1. ASSUME NEW r \in adm'
          PROVE  /\ Present(r.ex)'
                 /\ r.act \in MotionActions => Reached(r.ex, r.act)' /\ chal'[r.ex][r.act].status = "CONSUMED"
                 /\ r.st = "RESERVED" => Active(r.ex)' /\ exec'[r.ex].phase = AdmittedPhase(r.act)
        <3>1. CASE r = q
            BY <1>2, <1>5, <3>1
        <3>2. CASE r \in adm
            BY <1>3, <1>4, <3>2 DEF AdmInv, AdmissionsExact
        <3> QED
            BY <1>2, <3>1, <3>2
    <2>2. \A r, s \in adm' : r.ex = s.ex /\ r.act = s.act => r = s
        BY <1>2 DEF AdmInv, AdmissionsExact
    <2> QED
        BY <2>1, <2>2 DEF AdmissionsExact
<1>7. MovesAdmitted'
    BY <1>2 DEF AdmInv, MovesAdmitted, Claimed
<1>8. ReservedInHand' /\ TaskClaimed'
    BY <1>2, <1>3 DEF ReservedInHand, TaskClaimed, Driving
<1> QED
    BY <1>6, <1>7, <1>8 DEF AdmInv

LEMMA CommandAdmissions ==
    ASSUME IInv, AdmInv, IInv', Command
    PROVE  AdmInv'
<1>t. TypeOK /\ TypeInv /\ RowInv
    BY DEF IInv, TypeInv
<1>n. pc.at \in {"idle", "checked"} => \A r \in adm : r.st # "RESERVED"
    BY DEF AdmInv, ReservedInHand
<1>a. \A r \in adm : r.ex \in Executions /\ Present(r.ex)
    BY <1>t DEF TypeOK, AdmissionRows, AdmInv, AdmissionsExact
<1>r. \A e \in Executions : PhaseRank(exec[e].phase) <= PhaseRank(exec[e].phase)
    BY RankFacts
<1>1. CASE (\E j \in Jobs : CheckPrepare(j)) \/ AbandonPrepare \/ AdmissionFault
    <2>1. UNCHANGED <<exec, chal, adm, moved>> /\ pc.at \in {"idle", "checked"}
        BY <1>1 DEF CheckPrepare, AbandonPrepare, AdmissionFault, durable, Idle
    <2>2. pc'.at \in {"idle", "checked", "halting"}
        BY <1>1, TaskEnds DEF CheckPrepare, AbandonPrepare, AdmissionFault, NoTask
    <2> QED
        BY <1>n, <2>1, <2>2, AdmissionsSame, NoTaskOwes, RestOwes DEF AdmInv
<1>2. CASE CommitPrepare
    <2>1. PICK e \in Executions : e = NewExecution /\ ~Present(e)
        BY <1>2, NewExecutionFresh DEF CommitPrepare
    <2>2. PICK j \in Jobs : j = pc.job
        BY <1>2, <1>t DEF CommitPrepare, TypeInv, TaskBound
    <2>3. PICK row : row = Initial(j)
        OBVIOUS
    <2>4. /\ Write(e, row) /\ Admit(e, "PREPARE_SESSION", 0)
          /\ pc.at = "checked" /\ UNCHANGED <<chal, moved>>
        BY <1>2, <2>1, <2>2, <2>3 DEF CommitPrepare, Initial
    <2>5. row.phase = "PREPARING_SESSION" /\ row.retired = "NO" /\ row.fresh
        BY <2>3, InitialRow DEF Initial, NoExecution
    <2>6. exec'[e] = row /\ \A f \in Executions \ {e} : exec'[f] = exec[f]
        BY <1>t, <2>4, OneRow
    <2>7. Active(e)' /\ \A f \in Executions : Present(f) => Present(f)' /\ exec'[f] = exec[f]
        BY <2>1, <2>5, <2>6 DEF Active, Present
    <2>8. AdmittedPhase("PREPARE_SESSION") = "PREPARING_SESSION"
        BY DEF AdmittedPhase, SessionActions
    <2>9. "PREPARE_SESSION" \in SessionActions /\ "PREPARE_SESSION" \notin MotionActions
        BY DEF SessionActions, MotionActions
    <2> QED
        BY <1>a, <1>r, <2>1, <2>4, <2>5, <2>6, <2>7, <2>8, <2>9, AdmissionInserted
<1>3. ASSUME NEW e \in Executions, NEW a \in MotionActions, RequestMotion(e, a) PROVE AdmInv'
    <2>1. /\ UNCHANGED <<exec, adm, moved, pc>> /\ pc.at = "idle"
          /\ exec[e].phase = PriorPhase(a) /\ IssueChallenge(e, a, "NONE")
        BY <1>3 DEF RequestMotion, Idle, MotionOwner
    <2>2. ~Reached(e, a)
        BY <2>1, RankFacts DEF Reached
    <2>3. \A f \in Executions, b \in MotionActions : f # e \/ b # a => chal'[f][b] = chal[f][b]
        BY <1>t, <2>1 DEF IssueChallenge, TypeOK, ApprovedActions
    <2>4. \A f \in Executions : Present(f)' <=> Present(f)
        BY <2>1, SameRows
    <2>5. AdmissionsExact' /\ MovesAdmitted'
        BY <1>n, <1>r, <2>1, <2>2, <2>3, <2>4, AdmissionsKept
    <2> QED
        BY <1>n, <2>1, <2>5, RestOwes DEF AdmInv
<1>4. ASSUME NEW e \in Executions, NEW a \in MotionActions, ExecuteMotion(e, a) PROVE AdmInv'
    <2>1. PICK row : row = Revised(e, AdmittedPhase(a), exec[e].mile)
        OBVIOUS
    <2>2. /\ UNCHANGED moved /\ pc.at = "idle" /\ Active(e) /\ exec[e].fresh
          /\ exec[e].phase = PriorPhase(a) /\ Write(e, row) /\ Consume(e, a)
          /\ Admit(e, a, exec[e].rev + 1)
        BY <1>4, <2>1 DEF ExecuteMotion, Idle, MotionOwner
    <2>3. AdmittedPhase(a) \in Phases \ {"COMPLETED"} /\ exec[e].mile \in Milestones
        BY RowTypes, RowInHand DEF AdmittedPhase, MotionActions, SessionActions
    <2>4. /\ row.phase = AdmittedPhase(a) /\ row.retired = exec[e].retired
          /\ row.fresh = exec[e].fresh
        BY <1>t, <2>1, <2>3, RevisedRow, FreshRows
    <2>5. /\ exec'[e] = row /\ \A f \in Executions \ {e} : exec'[f] = exec[f]
          /\ \A f \in Executions \ {e} : Present(f)' <=> Present(f)
        BY <1>t, <2>2, OneRow
    <2>6. Active(e)'
        BY <2>2, <2>3, <2>4, <2>5 DEF Active, Present, Phases, AwaitingPhases, InProgressPhases
    <2>7. \A r \in adm : r.ex = e => r.act # a
        BY <2>2, RankFacts DEF AdmInv, AdmissionsExact, Reached
    <2>8. chal'[e][a].status = "CONSUMED"
        BY <1>t, <2>2 DEF Consume, TypeOK, ApprovedActions, ChallengeRow
    <2>9. \A f \in Executions, b \in MotionActions : f # e \/ b # a => chal'[f][b] = chal[f][b]
        BY <1>t, <2>2 DEF Consume, TypeOK, ApprovedActions
    <2>10. PhaseRank(exec[e].phase) <= PhaseRank(exec'[e].phase)
        BY <2>2, <2>4, <2>5, RankFacts
    <2>11. Present(e)'
        BY <2>6 DEF Active
    <2> QED
        BY <1>r, <2>2, <2>4, <2>5, <2>6, <2>7, <2>8, <2>9, <2>10, <2>11, AdmissionInserted, ZenonT(40)
<1>5. ASSUME NEW e \in Executions, NEW d \in Dispositions, RequestRecovery(e, d) PROVE AdmInv'
    <2>1. UNCHANGED <<exec, adm, moved, pc>> /\ pc.at = "idle" /\ IssueChallenge(e, "RECOVER", d)
        BY <1>5 DEF RequestRecovery, Idle
    <2>2. \A f \in Executions, b \in MotionActions : chal'[f][b] = chal[f][b]
        BY <1>t, <2>1 DEF IssueChallenge, TypeOK, ApprovedActions, MotionActions
    <2>3. \A f \in Executions : Present(f)' <=> Present(f)
        BY <2>1, SameRows
    <2>4. AdmissionsExact' /\ MovesAdmitted'
        BY <1>n, <1>r, <2>1, <2>2, <2>3, AdmissionsKept
    <2> QED
        BY <1>n, <2>1, <2>4, RestOwes DEF AdmInv
<1>6. ASSUME NEW e \in Executions, ReleaseRecovery(e) PROVE AdmInv'
    <2>1. /\ UNCHANGED <<adm, moved, pc>> /\ pc.at = "idle" /\ Consume(e, "RECOVER")
          /\ Write(e, Retired(e, "RELEASED")) /\ Active(e)
        BY <1>6 DEF ReleaseRecovery, Idle, RecoveryOwner
    <2>2. \A f \in Executions, b \in MotionActions : chal'[f][b] = chal[f][b]
        BY <1>t, <2>1 DEF Consume, TypeOK, ApprovedActions, MotionActions
    <2>3. exec'[e].phase = exec[e].phase /\ \A f \in Executions \ {e} : exec'[f] = exec[f]
        BY <1>t, <2>1, OneRow, RetiredRow
    <2>4. \A f \in Executions : exec'[f].phase = exec[f].phase /\ (Present(f)' <=> Present(f))
        BY <2>3 DEF Present
    <2>5. AdmissionsExact' /\ MovesAdmitted'
        BY <1>n, <1>r, <2>1, <2>2, <2>4, AdmissionsKept
    <2> QED
        BY <1>n, <2>1, <2>5, RestOwes DEF AdmInv
<1>7. ASSUME NEW e \in Executions, NEW d \in Dispositions, TransferRecovery(e, d) PROVE AdmInv'
    <2>1. PICK n \in Executions : n = NewExecution /\ ~Present(n)
        BY <1>7, NewExecutionFresh DEF TransferRecovery
    <2>2. /\ UNCHANGED moved /\ pc.at = "idle" /\ Active(e) /\ Present(e)
          /\ exec' = [exec EXCEPT ![e] = Retired(e, "TRANSFERRED"), ![n] = Successor(e)]
          /\ Consume(e, "RECOVER") /\ Admit(n, "RECOVER", 0)
        BY <1>7, <2>1 DEF TransferRecovery, Idle, RecoveryOwner, Active
    <2>3. \A f \in Executions, b \in MotionActions : chal'[f][b] = chal[f][b]
        BY <1>t, <2>2 DEF Consume, TypeOK, ApprovedActions, MotionActions
    <2>4. /\ exec'[n] = Successor(e) /\ exec'[e] = Retired(e, "TRANSFERRED")
          /\ \A f \in Executions \ {n, e} : exec'[f] = exec[f]
        BY <1>t, <2>1, <2>2 DEF TypeOK
    <2>5. exec'[e].phase = exec[e].phase
        BY <1>t, <2>4, RetiredRow
    <2>6. exec'[n].phase = "PREPARING_SESSION" /\ exec'[n].retired = "NO" /\ exec'[n].fresh
        <3>1. Successor(e).fresh
            BY DEF Successor, NoExecution
        <3> QED
            BY <1>t, <2>4, <3>1, SuccessorRow
    <2>7. \A f \in Executions : Present(f) => Present(f)' /\ exec'[f].phase = exec[f].phase
        BY <2>1, <2>4, <2>5 DEF Present
    <2>8. Active(n)' /\ AdmittedPhase("RECOVER") = "PREPARING_SESSION"
        BY <2>6 DEF Active, Present, AdmittedPhase, SessionActions
    <2>9. "RECOVER" \in SessionActions /\ "RECOVER" \notin MotionActions
        BY DEF SessionActions, MotionActions
    <2> QED
        BY <1>a, <1>r, <2>1, <2>2, <2>3, <2>6, <2>7, <2>8, <2>9, AdmissionInserted, ZenonT(40)
<1>8. ASSUME NEW r \in adm, Replay(r) PROVE AdmInv'
    <2>1. UNCHANGED <<exec, chal, adm, moved>> /\ pc.at = "idle" /\ pc'.at = "admitted"
        BY <1>8 DEF Replay, durable, Idle, NoTask
    <2>2. ReservedInHand' /\ TaskClaimed'
        BY <1>n, <2>1 DEF ReservedInHand, TaskClaimed, Driving
    <2> QED
        BY <2>1, <2>2, AdmissionsSame DEF AdmInv
<1> QED
    BY <1>1, <1>2, <1>3, <1>4, <1>5, <1>6, <1>7, <1>8 DEF Command

\* The owner's row is written by the drive in hand and its phase advances.
LEMMA AdvanceKeepsAdmissions ==
    ASSUME IInv, AdmInv, IInv', pc.at \in Driving, NEW row, Write(pc.ex, row),
           UNCHANGED <<chal, adm, moved>>, row.phase # "ABSENT",
           PhaseRank(exec[pc.ex].phase) <= PhaseRank(row.phase)
    PROVE  AdmissionsExact' /\ MovesAdmitted'
<1>1. PICK e \in Executions : e = pc.ex
    BY InHand DEF Driving
<1>2. /\ exec'[e] = row /\ \A f \in Executions \ {e} : exec'[f] = exec[f]
      /\ \A f \in Executions \ {e} : Present(f)' <=> Present(f)
    BY <1>1, OneRow DEF IInv, TypeInv
<1>3. Present(e)'
    BY <1>2 DEF Present
<1>4. \A f \in Executions : PhaseRank(exec[f].phase) <= PhaseRank(exec'[f].phase)
    BY <1>1, <1>2, RankFacts
<1>5. \A r \in adm : r.st # "RESERVED"
    BY DEF AdmInv, ReservedInHand
<1> QED
    BY <1>2, <1>3, <1>4, <1>5, AdmissionsKept

LEMMA ClaimAdmissions ==
    ASSUME IInv, AdmInv, IInv', ClaimRequest
    PROVE  AdmInv'
<1>1. PICK e \in Executions : e = pc.ex
    BY InHand DEF ClaimRequest
<1>2. PICK r : r = Admission("RESERVED")
    OBVIOUS
<1>3. PICK c : c = Admission("CLAIMED")
    OBVIOUS
<1>4. /\ r \in adm /\ adm' = (adm \ {r}) \cup {c} /\ UNCHANGED <<exec, chal, moved>>
      /\ pc.at = "admitted" /\ Active(e) /\ exec[e].phase = AdmittedPhase(pc.act)
      /\ To("claimed")
    BY <1>1, <1>2, <1>3 DEF ClaimRequest, ClaimAccepted, ClaimedAdmissions
<1>5. /\ pc'.at = "claimed" /\ pc'.ex = e /\ pc'.act = pc.act
    BY <1>1, <1>4, TaskFields DEF IInv, TypeInv
<1>6. /\ r.ex = e /\ r.act = pc.act /\ r.st = "RESERVED"
      /\ c.ex = e /\ c.act = pc.act /\ c.st = "CLAIMED"
    BY <1>1, <1>2, <1>3 DEF Admission
<1>7. \A q \in adm : q.ex = e /\ q.act = pc.act => q = r
    BY <1>4, <1>6 DEF AdmInv, AdmissionsExact
<1>8. exec[e].fresh /\ \A q \in adm : q.st = "RESERVED" => q = r
    BY <1>1, <1>4, <1>6, <1>7 DEF AdmInv, ReservedInHand
<1>9. \A f \in Executions : /\ (Present(f)' <=> Present(f)) /\ (Active(f)' <=> Active(f))
                            /\ exec'[f] = exec[f]
    BY <1>4, SameRows
<1>10. \A q \in adm : q.ex \in Executions
    BY DEF IInv, TypeInv, TypeOK, AdmissionRows
<1>11. \A f \in Executions, a \in MotionActions : Reached(f, a)' <=> Reached(f, a)
    BY <1>9 DEF Reached
<1>12. AdmissionsExact'
    <2>1. ASSUME NEW q \in adm'
          PROVE  /\ Present(q.ex)'
                 /\ q.act \in MotionActions => Reached(q.ex, q.act)' /\ chal'[q.ex][q.act].status = "CONSUMED"
                 /\ q.st = "RESERVED" => Active(q.ex)' /\ exec'[q.ex].phase = AdmittedPhase(q.act)
        <3>1. PICK p \in adm : q.ex = p.ex /\ q.act = p.act /\ (q.st = "RESERVED" => p.st = "RESERVED")
            BY <1>4, <1>6
        <3> QED
            BY <1>4, <1>9, <1>10, <1>11, <3>1 DEF AdmInv, AdmissionsExact
    <2>2. \A p, q \in adm' : p.ex = q.ex /\ p.act = q.act => p = q
        BY <1>4, <1>6, <1>7 DEF AdmInv, AdmissionsExact
    <2> QED
        BY <2>1, <2>2 DEF AdmissionsExact
<1>13. Claimed(e, pc.act)'
    BY <1>4, <1>5, <1>6 DEF Claimed
<1>14. MovesAdmitted'
    BY <1>4, <1>6 DEF AdmInv, MovesAdmitted, Claimed
<1>15. pc.act \in MotionActions => moved[e][pc.act] = 0
    <2>1. pc.act \in MotionActions => ~Claimed(e, pc.act) /\ moved[e][pc.act] \in Nat
        BY <1>6, <1>7 DEF Claimed, IInv, TypeInv, TypeOK
    <2> QED
        BY <2>1 DEF AdmInv, MovesAdmitted
<1>16. ReservedInHand'
    BY <1>4, <1>5, <1>6, <1>8 DEF ReservedInHand
<1>17. TaskClaimed'
    BY <1>4, <1>5, <1>8, <1>9, <1>13, <1>15 DEF TaskClaimed, Driving
<1> QED
    BY <1>12, <1>14, <1>16, <1>17 DEF AdmInv

\* The adapter is called for the claim in hand.
LEMMA DispatchAdmissions ==
    ASSUME IInv, AdmInv, IInv', pc.at \in Driving, UNCHANGED <<exec, chal, adm>>,
           pc.act \in MotionActions, moved[pc.ex][pc.act] = 0,
           moved' = [moved EXCEPT ![pc.ex][pc.act] = @ + 1]
    PROVE  AdmissionsExact' /\ MovesAdmitted'
<1>1. PICK e \in Executions : e = pc.ex
    BY InHand DEF Driving
<1>2. /\ moved'[e][pc.act] = 1
      /\ \A f \in Executions, a \in MotionActions :
            f # e \/ a # pc.act => moved'[f][a] = moved[f][a]
    BY <1>1 DEF IInv, TypeInv, TypeOK
<1>3. Claimed(e, pc.act) /\ \A f \in Executions, a \in MotionActions : Claimed(f, a)' <=> Claimed(f, a)
    BY <1>1 DEF AdmInv, TaskClaimed, Claimed
<1>4. MovesAdmitted'
    BY <1>2, <1>3 DEF AdmInv, MovesAdmitted
<1>5. \A f \in Executions : (Present(f)' <=> Present(f)) /\ (Active(f)' <=> Active(f))
    BY SameRows
<1>6. \A r \in adm : r.ex \in Executions
    BY DEF IInv, TypeInv, TypeOK, AdmissionRows
<1>7. \A f \in Executions, a \in MotionActions : Reached(f, a)' <=> Reached(f, a)
    BY DEF Reached
<1>8. AdmissionsExact'
    BY <1>5, <1>6, <1>7 DEF AdmInv, AdmissionsExact
<1> QED
    BY <1>4, <1>8

LEMMA DriveAdmissions ==
    ASSUME IInv, AdmInv, IInv', Drive
    PROVE  AdmInv'
<1>t. TypeOK
    BY DEF IInv, TypeInv
<1>e. pc.at \in Driving => pc.ex \in Executions
    BY InHand
<1>m. pc.at \in Driving => exec[pc.ex].mile \in Milestones /\ exec[pc.ex].phase \in Phases \cup {"ABSENT"}
    BY <1>e, RowInHand
<1>n. pc.at \in Driving => \A r \in adm : r.st # "RESERVED"
    BY DEF AdmInv, ReservedInHand
<1>s. ASSUME UNCHANGED <<exec, chal, adm, moved>>, pc.at \in Driving \ {"cleanup"},
             pc'.at \in Driving \ {"claimed", "cleanup"}, pc'.ex = pc.ex, pc'.act = pc.act,
             pc'.at = "opened" => pc.act \in SessionActions,
             pc'.at \in {"succeeded", "closed", "rejected"} => pc.act \in MotionActions
      PROVE  AdmInv'
    BY <1>s, AdmissionsSame, DriveOwes DEF AdmInv
<1>h. ASSUME UNCHANGED <<exec, chal, adm, moved>>, pc'.at = "halting" PROVE AdmInv'
    BY <1>h, AdmissionsSame, NoTaskOwes DEF AdmInv
<1>w. ASSUME NEW row, pc.at \in Driving, Write(pc.ex, row), UNCHANGED <<chal, adm, moved>>,
             Rest \/ pc'.at = "halting", row.phase # "ABSENT", PhaseRank(exec[pc.ex].phase) <= PhaseRank(row.phase)
      PROVE  AdmInv'
    <2>1. AdmissionsExact' /\ MovesAdmitted'
        BY <1>w, AdvanceKeepsAdmissions
    <2> QED
        BY <1>n, <1>w, <2>1, TaskEnds, RestOwes, NoTaskOwes DEF AdmInv
<1>c. pc.at \in Driving \ {"cleanup"} => exec[pc.ex].phase = AdmittedPhase(pc.act)
    BY DEF AdmInv, TaskClaimed
<1>1. CASE ClaimRequest
    BY <1>1, ClaimAdmissions
<1>2. CASE ClaimFailed \/ FirstWriteFault \/ RecoveryReadFault \/ CloseRecordFault
    <2>1. UNCHANGED <<exec, chal, adm, moved>>
        BY <1>2 DEF ClaimFailed, FirstWriteFault, RecoveryReadFault, CloseRecordFault, durable
    <2>2. pc'.at = "halting"
        BY <1>2, <1>t, TaskEnds, TaskFields DEF ClaimFailed, FirstWriteFault, RecoveryReadFault,
                                                CloseRecordFault
    <2> QED
        BY <1>h, <2>1, <2>2
<1>3. CASE CloseFailedSession
    <2>1. UNCHANGED <<exec, chal, adm, moved>> /\ pc'.at = "idle" /\ pc.at \in Driving
        BY <1>3, TaskEnds DEF CloseFailedSession, durable, Driving
    <2> QED
        BY <1>n, <2>1, AdmissionsSame, RestOwes DEF AdmInv
<1>4. CASE OpenSession \/ OpenRefused \/ PreflightFailed
    <2>1. UNCHANGED <<exec, chal, adm, moved>> /\ pc.at \in {"claimed", "opened"}
        BY <1>4 DEF OpenSession, OpenRefused, PreflightFailed, durable
    <2>2. (pc.act \in SessionActions /\ To("opened")) \/ To("failing")
        BY <1>4 DEF OpenSession, OpenRefused, PreflightFailed
    <2> QED
        BY <1>s, <1>t, <2>1, <2>2, TaskFields DEF Driving
<1>5. CASE SuccessCommitFault \/ CloseBeforeCompletion
    <2>1. UNCHANGED <<exec, chal, adm, moved>> /\ pc.at \in {"succeeded", "closed"}
        BY <1>5 DEF SuccessCommitFault, CloseBeforeCompletion, durable
    <2>2. pc.act \in MotionActions
        BY <2>1 DEF AdmInv, TaskClaimed
    <2>3. pc'.at \in {"failing", "closed"} /\ pc'.ex = pc.ex /\ pc'.act = pc.act
        BY <1>5, <1>t DEF SuccessCommitFault, CloseBeforeCompletion, FailConfirmed, TypeOK, Tasks
    <2> QED
        BY <1>s, <2>1, <2>2, <2>3 DEF Driving
<1>6. CASE CommitPreflight
    <2>1. PICK row : row = Revised(pc.ex, "AWAITING_HOME_APPROVAL", exec[pc.ex].mile)
        OBVIOUS
    <2>2. /\ pc.at = "opened" /\ Write(pc.ex, row) /\ UNCHANGED <<chal, adm, moved>>
          /\ Rest \/ pc'.at = "halting"
        BY <1>6, <2>1, TaskEnds DEF CommitPreflight
    <2>3. pc.act \in SessionActions /\ pc.at \in Driving /\ "AWAITING_HOME_APPROVAL" \in Phases
        BY <2>2 DEF AdmInv, TaskClaimed, Driving, Phases, AwaitingPhases
    <2>4. row.phase = "AWAITING_HOME_APPROVAL"
        BY <1>e, <1>m, <1>t, <2>1, <2>3, RevisedRow
    <2>5. exec[pc.ex].phase = "PREPARING_SESSION"
        BY <1>c, <2>2, <2>3 DEF AdmittedPhase, SessionActions, Driving
    <2> QED
        BY <1>w, <2>2, <2>3, <2>4, <2>5, RankFacts
<1>7. CASE DriveMotion
    <2>1. /\ pc.at = "claimed" /\ pc.act \in MotionActions /\ UNCHANGED <<exec, chal, adm>>
          /\ \/ moved' = [moved EXCEPT ![pc.ex][pc.act] = @ + 1] \/ UNCHANGED moved
          /\ \E at \in {"succeeded", "failing", "rejected"} : To(at)
        BY <1>7 DEF DriveMotion, durable
    <2>2. moved[pc.ex][pc.act] = 0 /\ pc.at \in Driving
        BY <2>1 DEF AdmInv, TaskClaimed, Driving
    <2>3. AdmissionsExact' /\ MovesAdmitted'
        BY <2>1, <2>2, AdmissionsSame, DispatchAdmissions
    <2>4. pc'.at \in {"succeeded", "failing", "rejected"} /\ pc'.ex = pc.ex /\ pc'.act = pc.act
        BY <1>t, <2>1, TaskFields
    <2>5. ReservedInHand' /\ TaskClaimed'
        BY <2>1, <2>2, <2>4, DriveOwes DEF Driving
    <2> QED
        BY <2>3, <2>5 DEF AdmInv
<1>8. CASE CommitFirstWrite /\ To("failing") /\ UNCHANGED exec
    <2>1. UNCHANGED <<exec, chal, adm, moved>> /\ pc.at = "claimed" /\ To("failing")
        BY <1>8 DEF CommitFirstWrite
    <2> QED
        BY <1>s, <1>t, <2>1, TaskFields DEF Driving
<1>9. CASE CommitFirstWrite /\ Write(pc.ex, WriteBoundary)
           /\ pc' = [pc EXCEPT !.at = "writing", !.rev = @ + 1]
    <2>1. PICK row : row = Revised(pc.ex, "STREAMING", "FIRST_WRITE_POSSIBLE")
        OBVIOUS
    <2>2. /\ pc.at = "claimed" /\ pc.act = "STREAM" /\ Write(pc.ex, row)
          /\ UNCHANGED <<chal, adm, moved>>
        BY <1>9, <2>1 DEF CommitFirstWrite, WriteBoundary
    <2>3. pc.at \in Driving /\ "STREAMING" \in Phases /\ "FIRST_WRITE_POSSIBLE" \in Milestones
        BY <2>2 DEF Driving, Phases, InProgressPhases, Milestones
    <2>4. row.phase = "STREAMING" /\ row.fresh = exec[pc.ex].fresh
        BY <1>e, <1>t, <2>1, <2>3, RevisedRow, FreshRows
    <2>5. exec[pc.ex].phase = "STREAMING"
        BY <1>c, <2>2 DEF AdmittedPhase, SessionActions, Driving
    <2>6. exec'[pc.ex] = row
        BY <1>e, <1>t, <2>2, <2>3, OneRow
    <2>7. pc'.at = "writing" /\ pc'.ex = pc.ex /\ pc'.act = pc.act
        BY <1>9, <1>t DEF TypeOK, Tasks
    <2>8. AdmissionsExact' /\ MovesAdmitted'
        BY <2>2, <2>3, <2>4, <2>5, RankFacts, AdvanceKeepsAdmissions
    <2>9. ReservedInHand' /\ TaskClaimed'
        BY <2>2, <2>3, <2>4, <2>5, <2>6, <2>7, DriveOwes DEF Driving
    <2> QED
        BY <2>8, <2>9 DEF AdmInv
<1>10. CASE DriveStream
    <2>1. /\ pc.at = "writing" /\ UNCHANGED <<exec, chal, adm>>
          /\ moved' = [moved EXCEPT ![pc.ex]["STREAM"] = @ + 1]
        BY <1>10 DEF DriveStream, durable
    <2>2. pc.act = "STREAM" /\ Streamed(pc.ex) = 0
        BY <1>e, <2>1 DEF IInv, TaskInv, DrivesOwner, WritingIsFirst, Driving
    <2>3. pc'.at \in {"succeeded", "failing"} /\ pc'.ex = pc.ex /\ pc'.act = pc.act
        BY <1>10, <1>t DEF DriveStream, To, TypeOK, Tasks
    <2>4. AdmissionsExact' /\ MovesAdmitted'
        BY <2>1, <2>2, DispatchAdmissions DEF Streamed, Driving, MotionActions
    <2>5. ReservedInHand' /\ TaskClaimed'
        BY <2>1, <2>2, <2>3, DriveOwes DEF Driving, MotionActions
    <2> QED
        BY <2>4, <2>5 DEF AdmInv
<1>11. CASE CommitMotionSuccess
    <2>1. PICK row : row = Revised(pc.ex, NextPhase(pc.act), exec[pc.ex].mile)
        OBVIOUS
    <2>2. /\ pc.at = "succeeded" /\ Write(pc.ex, row) /\ UNCHANGED <<chal, adm, moved>> /\ Rest
          /\ pc.act \notin {"STREAM", "HOME_Z"}
        BY <1>11, <2>1 DEF CommitMotionSuccess, Completes
    <2>3. pc.act \in MotionActions /\ pc.at \in Driving
        BY <2>2 DEF AdmInv, TaskClaimed, Driving
    <2>4. row.phase = NextPhase(pc.act) /\ row.phase # "ABSENT"
        BY <1>e, <1>m, <1>t, <2>1, <2>3, RevisedRow, RowTypes DEF NextPhase
    <2>5. exec[pc.ex].phase = AdmittedPhase(pc.act)
        BY <1>c, <2>2, <2>3
    <2> QED
        BY <1>w, <2>2, <2>3, <2>4, <2>5, RankFacts
<1>12. CASE CommitStreamConfirmed
    <2>1. PICK row : row = Revised(pc.ex, "AWAITING_HOME_Z_APPROVAL", "STREAM_CONFIRMED")
        OBVIOUS
    <2>2. /\ pc.at = "succeeded" /\ Write(pc.ex, row) /\ UNCHANGED <<chal, adm, moved>> /\ Rest
          /\ pc.act = "STREAM"
        BY <1>12, <2>1 DEF CommitStreamConfirmed
    <2>3. /\ pc.at \in Driving /\ "AWAITING_HOME_Z_APPROVAL" \in Phases
          /\ "STREAM_CONFIRMED" \in Milestones
        BY <2>2 DEF Driving, Phases, AwaitingPhases, Milestones
    <2>4. row.phase = "AWAITING_HOME_Z_APPROVAL"
        BY <1>e, <1>t, <2>1, <2>3, RevisedRow
    <2>5. exec[pc.ex].phase = "STREAMING"
        BY <1>c, <2>2 DEF AdmittedPhase, SessionActions, Driving
    <2> QED
        BY <1>w, <2>2, <2>3, <2>4, <2>5, RankFacts
<1>13. CASE CommitCompleted
    <2>1. PICK row : row = Completed(pc.ex)
        OBVIOUS
    <2>2. pc.at \in Driving /\ Write(pc.ex, row) /\ UNCHANGED <<chal, adm, moved>> /\ Rest
        BY <1>13, <2>1 DEF CommitCompleted, Driving
    <2>3. row.phase = "COMPLETED"
        BY <1>e, <1>t, <2>1, <2>2, CompletedRow
    <2> QED
        BY <1>m, <1>w, <2>2, <2>3, RankFacts
<1>14. CASE CommitRecovery
    <2>1. PICK row : row = Recovered(pc.ex, FailureMilestone)
        OBVIOUS
    <2>2. /\ pc.at \in Driving \ {"cleanup"} /\ Write(pc.ex, row) /\ UNCHANGED <<chal, adm, moved>>
          /\ To("cleanup") \/ Rest
        BY <1>14, <2>1 DEF CommitRecovery, Driving
    <2>3. FailureMilestone \in Milestones
        BY <1>m, <2>2 DEF FailureMilestone, Milestones
    <2>4. row.phase = "RECOVERY_REQUIRED" /\ row.fresh = exec[pc.ex].fresh
        BY <1>e, <1>t, <2>1, <2>2, <2>3, RecoveredRow, FreshRows
    <2>5. exec[pc.ex].phase # "COMPLETED"
        BY <2>2, InHand DEF Active
    <2>6. PhaseRank(exec[pc.ex].phase) <= PhaseRank(row.phase)
        BY <1>m, <2>2, <2>4, <2>5, RankFacts
    <2>7. CASE Rest
        BY <1>w, <2>2, <2>4, <2>6, <2>7
    <2>8. CASE To("cleanup")
        <3>1. AdmissionsExact' /\ MovesAdmitted'
            BY <2>2, <2>4, <2>6, AdvanceKeepsAdmissions
        <3>2. pc'.at = "cleanup" /\ pc'.ex = pc.ex /\ pc'.act = pc.act
            BY <1>t, <2>8, TaskFields
        <3>3. exec'[pc.ex] = row
            BY <1>e, <1>t, <2>2, OneRow
        <3>4. ReservedInHand' /\ TaskClaimed'
            BY <2>2, <2>4, <3>2, <3>3, DriveOwes DEF Driving
        <3> QED
            BY <3>1, <3>4 DEF AdmInv
    <2> QED
        BY <2>2, <2>7, <2>8
<1>15. CASE RecoveryCommitFails
    <2>1. UNCHANGED <<exec, chal, adm, moved>> /\ pc.at \in {"failing", "rejected"}
        BY <1>15 DEF RecoveryCommitFails, durable
    <2>2. \/ pc'.at = "halting"
          \/ pc'.at = "failing" /\ pc'.ex = pc.ex /\ pc'.act = pc.act
        BY <1>15, <1>t, TaskEnds DEF RecoveryCommitFails, TypeOK, Tasks
    <2> QED
        BY <1>h, <1>s, <2>1, <2>2 DEF Driving
<1> QED
    BY <1>1, <1>2, <1>3, <1>4, <1>5, <1>6, <1>7, <1>8, <1>9, <1>10, <1>11, <1>12, <1>13, <1>14,
       <1>15 DEF Drive, CommitFirstWrite

LEMMA BesideAdmissions ==
    ASSUME IInv, AdmInv, IInv',
           \/ \E j \in Jobs : CancelJob(j)
           \/ \E e \in Executions, a \in ApprovedActions : TimeUp(e, a)
           \/ UNCHANGED vars
    PROVE  AdmInv'
<1>1. UNCHANGED <<exec, adm, moved, pc>>
    BY DEF CancelJob, TimeUp, vars
<1>2. \A e \in Executions, a \in MotionActions : chal'[e][a].status = chal[e][a].status
    <2>1. CASE UNCHANGED chal
        BY <2>1
    <2>2. ASSUME NEW e \in Executions, NEW a \in ApprovedActions, TimeUp(e, a)
          PROVE  \A f \in Executions, b \in MotionActions : chal'[f][b].status = chal[f][b].status
        <3>1. chal[e][a] \in ChallengeRows
            BY DEF IInv, TypeInv, TypeOK
        <3>2. PICK row : row = [chal[e][a] EXCEPT !.late = TRUE]
            OBVIOUS
        <3>3. row.status = chal[e][a].status /\ chal' = [chal EXCEPT ![e][a] = row]
            BY <2>2, <3>1, <3>2 DEF TimeUp, ChallengeRows
        <3> QED
            BY <3>3 DEF IInv, TypeInv, TypeOK, ApprovedActions
    <2> QED
        BY <2>1, <2>2 DEF CancelJob, vars
<1>3. \A f \in Executions : (Present(f)' <=> Present(f)) /\ (Active(f)' <=> Active(f))
    BY <1>1, SameRows
<1>4. \A r \in adm : r.ex \in Executions
    BY DEF IInv, TypeInv, TypeOK, AdmissionRows
<1>5. \A r \in adm : r.st = "RESERVED" => Active(r.ex)' /\ exec'[r.ex].phase = exec[r.ex].phase
    BY <1>1, <1>3, <1>4 DEF AdmInv, AdmissionsExact
<1>6. \A e \in Executions : PhaseRank(exec[e].phase) <= PhaseRank(exec'[e].phase)
    BY <1>1, RankFacts
<1>7. AdmissionsExact' /\ MovesAdmitted'
    BY <1>1, <1>2, <1>3, <1>5, <1>6, AdmissionsKept
<1>8. ReservedInHand' /\ TaskClaimed'
    BY <1>1 DEF AdmInv, ReservedInHand, TaskClaimed, Claimed
<1> QED
    BY <1>7, <1>8 DEF AdmInv

LEMMA StepAdmissions == IInv /\ AdmInv /\ [Next]_vars => AdmInv'
BY StepSafe, LifecycleAdmissions, CommandAdmissions, DriveAdmissions, BesideAdmissions DEF Next

-----------------------------------------------------------------------------
(* Sessions: every step keeps SessInv *)

\* The parts of SessInv that no task and no resting owner is about.
Guarded == DownClean /\ HeldOwner /\ PortGuarded /\ OnePort

\* A step that leaves the sessions alone, in a process that was at work before.
LEMMA SessionsKept ==
    ASSUME SessInv, UNCHANGED sessions, pc'.at # "down", pc'.at \in Working => pc.at \in Working,
           pc'.at \in Working => \A e \in Executions : Held(e) /\ Active(e) => Active(e)'
    PROVE  Guarded'
<1>1. \A e \in Executions : Held(e)' <=> Held(e)
    BY DEF sessions, Held
<1> QED
    BY <1>1 DEF SessInv, Guarded, DownClean, HeldOwner, PortGuarded, OnePort, sessions

\* A step that ends one session, surely or with its handle retained, or leaves it.
LEMMA SessionClosed ==
    ASSUME IInv, SessInv, IInv', NEW e \in Executions, UNCHANGED <<exec, opened>>,
           pc.at \in Working, pc'.at # "down",
           CloseCertain(e) \/ CloseUncertain(e) \/ UNCHANGED <<sess, port>>
    PROVE  /\ Guarded'
           /\ \A f \in Executions : Held(f)' => Held(f)
           /\ CloseCertain(e) \/ CloseUncertain(e) => ~Held(e)'
<1>1. sess \in [Executions -> {"none", "held", "retained"}] /\ port \in SUBSET Executions
    BY DEF IInv, TypeInv, TypeOK
<1>2. \A f \in Executions : Held(f)' => Held(f)
    BY <1>1 DEF Held, CloseCertain, CloseUncertain
<1>3. CloseCertain(e) \/ CloseUncertain(e) => ~Held(e)'
    BY <1>1 DEF Held, CloseCertain, CloseUncertain
<1>4. port' \subseteq port /\ \A f \in port' : sess[f] # "none" => sess'[f] # "none"
    BY <1>1 DEF CloseCertain, CloseUncertain
<1>5. Guarded'
    BY <1>2, <1>4, SameRows DEF SessInv, Guarded, DownClean, HeldOwner, PortGuarded, OnePort
<1> QED
    BY <1>2, <1>3, <1>5

LEMMA NotResting ==
    ASSUME pc'.at \notin {"idle", "checked"}
    PROVE  Rested'
BY DEF Rested

LEMMA NotHolding ==
    ASSUME pc'.at \notin {"opened", "writing", "succeeded", "rejected", "closed", "cleanup"}
    PROVE  TaskHeld'
BY DEF TaskHeld

\* After its last transaction a drive leaves its owner, the only one, at rest.
LEMMA OwnerRests ==
    ASSUME IInv', NEW e \in Executions, Active(e)',
           \/ exec'[e].phase = "RECOVERY_REQUIRED" /\ ~Held(e)'
           \/ exec'[e].phase \in AwaitingPhases /\ Held(e)' /\ exec'[e].fresh
    PROVE  Rested'
BY DEF IInv, RowInv, OneOwner, Rested

\* A process on its way out, whose sessions nobody added to.
LEMMA LeavingSessions ==
    ASSUME SessInv, port' \subseteq port, pc'.at \in {"halting", "closing", "halted"}
    PROVE  SessInv'
<1>1. Guarded'
    BY DEF SessInv, Guarded, DownClean, HeldOwner, PortGuarded, OnePort, Working, Driving
<1> QED
    BY <1>1, NotResting, NotHolding DEF SessInv, Guarded

LEMMA LifecycleSessions ==
    ASSUME IInv, SessInv, IInv', StartUp \/ Stop \/ ShutDown \/ ProcessExit \/ Crash
    PROVE  SessInv'
<1>t. TypeOK
    BY DEF IInv, TypeInv
<1>1. CASE Start
    <2>1. pc.at = "down" /\ UNCHANGED sessions /\ ReconcileRestart /\ pc'.at = "idle"
        BY <1>1, TaskEnds DEF Start
    <2>2. port' = {} /\ \A e \in Executions : ~Held(e)'
        BY <2>1 DEF SessInv, DownClean, sessions, Held
    <2>3. Guarded'
        BY <2>1, <2>2 DEF Guarded, DownClean, HeldOwner, PortGuarded, OnePort
    <2>4. \A e \in Executions : Active(e)' => exec'[e].phase = "RECOVERY_REQUIRED"
        <3>1. ASSUME NEW e \in Executions, InFlight(e) PROVE exec'[e].phase = "RECOVERY_REQUIRED"
            BY <1>t, <2>1, <3>1, RowInHand, RecoveredRow DEF ReconcileRestart, ReconciledExecutions
        <3>2. ASSUME NEW e \in Executions, ~InFlight(e) PROVE exec'[e] = exec[e]
            BY <2>1, <3>2 DEF ReconcileRestart, ReconciledExecutions
        <3> QED
            BY <3>1, <3>2 DEF InFlight, Active, Present
    <2>5. Rested'
        BY <2>2, <2>4 DEF Rested
    <2> QED
        BY <2>1, <2>3, <2>5, NotHolding DEF SessInv, Guarded
<1>2. CASE StartRefused \/ StartFault \/ Stop \/ ShutdownReconcile \/ ShutdownUnreconciled \/ ShutdownClose
    <2>1. port' \subseteq port /\ \E at \in {"halting", "closing", "halted"} : To(at)
        BY <1>2 DEF StartRefused, StartFault, Stop, ShutdownReconcile, ShutdownUnreconciled,
                    ShutdownClose, sessions
    <2>2. pc'.at \in {"halting", "closing", "halted"}
        BY <1>t, <2>1, TaskFields
    <2> QED
        BY <2>1, <2>2, LeavingSessions
<1>3. CASE EndProcess
    <2>1. /\ pc'.at = "down" /\ port' = {} /\ opened' = FALSE
          /\ \A e \in Executions : sess'[e] = "none"
        BY <1>3, TaskEnds DEF EndProcess
    <2>2. Guarded'
        BY <2>1 DEF Guarded, DownClean, HeldOwner, PortGuarded, OnePort, Working, Driving
    <2> QED
        BY <2>1, <2>2, NotResting, NotHolding DEF SessInv, Guarded
<1> QED
    BY <1>1, <1>2, <1>3 DEF StartUp, ShutDown, ProcessExit, Crash

LEMMA CommandSessions ==
    ASSUME IInv, SessInv, IInv', Command
    PROVE  SessInv'
<1>t. TypeOK /\ TypeInv /\ RowInv
    BY DEF IInv, TypeInv
<1>w. {"idle", "checked", "admitted"} \subseteq Working
    BY DEF Working
\* An admission takes the coordinator from rest to the claim.
<1>a. ASSUME pc.at \in {"idle", "checked"}, pc'.at = "admitted", UNCHANGED sessions,
             \A e \in Executions : Held(e) /\ Active(e) => Active(e)'
      PROVE  SessInv'
    BY <1>a, <1>w, SessionsKept, NotResting, NotHolding DEF SessInv, Guarded
\* A step that leaves rows and sessions alone.
<1>s. ASSUME pc.at \in {"idle", "checked"}, pc'.at \in {"idle", "checked"},
             UNCHANGED <<exec, sess, port, opened>>
      PROVE  SessInv'
    <2>1. \A e \in Executions : (Active(e)' <=> Active(e)) /\ (Held(e)' <=> Held(e))
        BY <1>s, SameRows DEF Held
    <2>2. Guarded'
        BY <1>s, <1>w, <2>1, SessionsKept DEF sessions
    <2>3. Rested'
        BY <1>s, <2>1 DEF SessInv, Rested
    <2> QED
        BY <1>s, <2>2, <2>3, NotHolding DEF SessInv, Guarded
<1>1. CASE (\E j \in Jobs : CheckPrepare(j)) \/ AbandonPrepare
    <2>1. UNCHANGED <<exec, sess, port, opened>> /\ pc.at \in {"idle", "checked"}
        BY <1>1 DEF CheckPrepare, AbandonPrepare, durable, sessions, Idle
    <2>2. pc'.at \in {"idle", "checked"}
        BY <1>1, TaskEnds DEF CheckPrepare, AbandonPrepare, NoTask
    <2> QED
        BY <1>s, <2>1, <2>2
<1>2. CASE AdmissionFault
    BY <1>2, TaskEnds, LeavingSessions DEF AdmissionFault, sessions
<1>3. CASE CommitPrepare
    <2>1. pc.at = "checked" /\ UNCHANGED sessions /\ \A e \in Executions : ~Active(e)
        BY <1>3 DEF CommitPrepare, NoOwner
    <2>2. pc'.at = "admitted"
        BY <1>3, AdmitFields DEF CommitPrepare
    <2> QED
        BY <1>a, <2>1, <2>2
<1>4. ASSUME NEW e \in Executions, NEW a \in MotionActions, RequestMotion(e, a) PROVE SessInv'
    BY <1>4, <1>s DEF RequestMotion, sessions, Idle
<1>5. ASSUME NEW e \in Executions, NEW d \in Dispositions, RequestRecovery(e, d) PROVE SessInv'
    BY <1>5, <1>s DEF RequestRecovery, sessions, Idle
<1>6. ASSUME NEW e \in Executions, NEW a \in MotionActions, ExecuteMotion(e, a) PROVE SessInv'
    <2>1. PICK row : row = Revised(e, AdmittedPhase(a), exec[e].mile)
        OBVIOUS
    <2>2. /\ pc.at = "idle" /\ UNCHANGED sessions /\ Active(e) /\ Write(e, row)
          /\ pc'.at = "admitted"
        BY <1>6, <2>1, AdmitFields DEF ExecuteMotion, Idle, MotionOwner
    <2>3. row.phase \in InProgressPhases /\ row.retired = "NO"
        <3>1. AdmittedPhase(a) \in InProgressPhases
            BY DEF AdmittedPhase, MotionActions, SessionActions, InProgressPhases
        <3>2. row.phase = AdmittedPhase(a) /\ row.retired = exec[e].retired
            BY <1>t, <2>1, RowTypes, RowInHand, RevisedRow
        <3> QED
            BY <2>2, <3>1, <3>2 DEF Active
    <2>4. exec'[e] = row /\ \A f \in Executions \ {e} : Active(f)' <=> Active(f)
        BY <1>t, <2>2, OneRow
    <2>5. Active(e)'
        BY <2>3, <2>4 DEF Active, Present, InProgressPhases
    <2> QED
        BY <1>a, <2>2, <2>4, <2>5
<1>7. ASSUME NEW e \in Executions, ReleaseRecovery(e) PROVE SessInv'
    <2>1. /\ UNCHANGED <<sess, port, opened, pc>> /\ pc.at = "idle" /\ Active(e)
          /\ Write(e, Retired(e, "RELEASED")) /\ exec[e].phase = "RECOVERY_REQUIRED"
        BY <1>7 DEF ReleaseRecovery, Idle, RecoveryOwner, sessions
    <2>2. /\ exec'[e].retired = "RELEASED"
          /\ \A f \in Executions \ {e} : (Active(f)' <=> Active(f)) /\ exec'[f] = exec[f]
        BY <1>t, <2>1, OneRow, RetiredRow
    <2>3. ~Held(e) /\ ~Active(e)'
        BY <2>1, <2>2 DEF SessInv, Rested, Active, AwaitingPhases
    <2>4. \A f \in Executions : Held(f)' <=> Held(f)
        BY <2>1 DEF Held
    <2>5. Guarded'
        BY <1>w, <2>1, <2>2, <2>3, SessionsKept DEF sessions
    <2>6. Rested'
        BY <2>1, <2>2, <2>3, <2>4 DEF SessInv, Rested
    <2> QED
        BY <2>1, <2>5, <2>6, NotHolding DEF SessInv, Guarded
<1>8. ASSUME NEW e \in Executions, NEW d \in Dispositions, TransferRecovery(e, d) PROVE SessInv'
    <2>1. /\ UNCHANGED sessions /\ pc.at = "idle" /\ pc'.at = "admitted"
          /\ Active(e) /\ exec[e].phase = "RECOVERY_REQUIRED"
        BY <1>8, AdmitFields DEF TransferRecovery, Idle, RecoveryOwner
    <2>2. ~Held(e) /\ \A f \in Executions : Active(f) => f = e
        BY <1>t, <2>1 DEF SessInv, Rested, AwaitingPhases, RowInv, OneOwner
    <2> QED
        BY <1>a, <2>1, <2>2
<1>9. ASSUME NEW r \in adm, Replay(r) PROVE SessInv'
    <2>1. UNCHANGED <<exec, sessions>> /\ pc.at = "idle" /\ pc'.at = "admitted"
        BY <1>9 DEF Replay, durable, Idle, NoTask
    <2> QED
        BY <1>a, <2>1, SameRows
<1> QED
    BY <1>1, <1>2, <1>3, <1>4, <1>5, <1>6, <1>7, <1>8, <1>9 DEF Command

\* A new session is opened only when no other may be open: the port's sessions
\* are held, so they are the owner's.
LEMMA OpenSessions ==
    ASSUME IInv, SessInv, IInv', OpenSession
    PROVE  SessInv'
<1>1. PICK e \in Executions : e = pc.ex /\ Active(e)
    BY InHand DEF OpenSession, Driving
<1>2. /\ pc.at = "claimed" /\ ~AnyRetained /\ ~(opened /\ ~ReopenAllowed) /\ opened'
      /\ UNCHANGED exec
    BY DEF OpenSession, OpenDenied, durable
<1>3. /\ sess \in [Executions -> {"none", "held", "retained"}] /\ port \in SUBSET Executions
      /\ ReopenAllowed \in BOOLEAN
    BY ConfigAssumption DEF IInv, TypeInv, TypeOK
<1>4. "claimed" \in Working /\ "opened" \in Working /\ "failing" \in Working
    BY DEF Working, Driving
<1>5. \A f \in port : f = e /\ Held(f)
    <2>1. \A f \in port : sess[f] # "none" /\ sess[f] # "retained"
        BY <1>2, <1>3, <1>4 DEF SessInv, PortGuarded, AnyRetained
    <2>2. \A f \in port : Held(f) /\ Active(f)
        BY <1>2, <1>3, <1>4, <2>1 DEF SessInv, HeldOwner, Held
    <2> QED
        BY <1>1, <1>3, <2>2 DEF IInv, RowInv, OneOwner
<1>6. CASE To("opened") /\ sess' = [sess EXCEPT ![e] = "held"] /\ port' = port \cup {e}
    <2>1. pc'.at = "opened" /\ pc'.ex = e
        BY <1>1, <1>6, TaskFields DEF IInv, TypeInv
    <2>2. Held(e)' /\ \A f \in Executions : f # e => sess'[f] = sess[f]
        BY <1>3, <1>6 DEF Held
    <2>3. \A f \in port' : f = e
        BY <1>5, <1>6
    <2>4. Guarded'
        BY <1>1, <1>2, <1>4, <2>1, <2>2, <2>3, SameRows
           DEF SessInv, Guarded, DownClean, HeldOwner, PortGuarded, OnePort, Held
    <2>5. TaskHeld'
        BY <2>1, <2>2 DEF TaskHeld
    <2> QED
        BY <2>1, <2>4, <2>5, NotResting DEF SessInv, Guarded
<1>7. CASE To("failing") /\ UNCHANGED sess
           /\ port' \in {port, IF ReopenAllowed THEN port ELSE port \cup {e}}
    <2>1. pc'.at = "failing"
        BY <1>7, TaskFields DEF IInv, TypeInv
    <2>2. \A f \in port' : f = e
        BY <1>5, <1>7
    <2>3. \A f \in port' : sess'[f] # "none" \/ ~ReopenAllowed
        BY <1>5, <1>7 DEF Held
    <2>4. HeldOwner'
        BY <1>2, <1>4, <1>7, SameRows DEF SessInv, HeldOwner, Held
    <2>5. Guarded'
        BY <1>2, <2>1, <2>2, <2>3, <2>4 DEF Guarded, DownClean, PortGuarded, OnePort
    <2> QED
        BY <2>1, <2>5, NotResting, NotHolding DEF SessInv, Guarded
<1> QED
    BY <1>1, <1>6, <1>7 DEF OpenSession

LEMMA DriveSessions ==
    ASSUME IInv, AdmInv, SessInv, IInv', Drive
    PROVE  SessInv'
<1>t. TypeOK
    BY DEF IInv, TypeInv
<1>e. pc.at \in Driving => pc.ex \in Executions
    BY InHand
<1>m. pc.at \in Driving => exec[pc.ex].mile \in Milestones
    BY <1>e, RowInHand
<1>d. Driving \subseteq Working /\ {"idle", "admitted"} \subseteq Working
    BY DEF Working
<1>f. pc.at \in Driving => exec[pc.ex].fresh
    BY DEF AdmInv, TaskClaimed
\* Nothing but the task moves, to a place that asks for a session only if it is held.
<1>s. ASSUME UNCHANGED <<exec, sessions>>, pc.at \in Working, pc'.at \in Driving \ {"closed", "cleanup"},
             pc'.at \in {"opened", "writing", "succeeded", "rejected"} => Held(pc'.ex)
      PROVE  SessInv'
    <2>1. Guarded'
        BY <1>s, <1>d, SessionsKept, SameRows DEF Driving
    <2>2. TaskHeld'
        BY <1>s DEF TaskHeld, Held, sessions
    <2> QED
        BY <1>s, <2>1, <2>2, NotResting DEF SessInv, Guarded, Driving
\* The outcome of an action leaves its owner, with the session, at an approval gate.
<1>w. ASSUME NEW p \in AwaitingPhases, NEW m \in Milestones, pc.at \in {"opened", "succeeded"},
             Write(pc.ex, Revised(pc.ex, p, m)), Rest, UNCHANGED sessions
      PROVE  SessInv'
    <2>1. PICK e \in Executions : e = pc.ex /\ Active(e) /\ exec[e].retired = "NO" /\ exec[e].fresh
        BY <1>f, <1>w, InHand DEF Driving
    <2>2. PICK row : row = Revised(e, p, m)
        OBVIOUS
    <2>3. row.phase = p /\ row.retired = "NO" /\ row.fresh
        BY <1>t, <1>w, <2>1, <2>2, RevisedRow, FreshRows DEF Phases
    <2>4. exec'[e] = row /\ \A f \in Executions \ {e} : Active(f)' <=> Active(f)
        BY <1>t, <1>w, <2>1, <2>2, OneRow
    <2>5. Active(e)'
        BY <1>w, <2>3, <2>4 DEF Active, Present, AwaitingPhases
    <2>6. Held(e)' /\ pc'.at = "idle"
        BY <1>w, <2>1, TaskEnds DEF SessInv, TaskHeld, Held, sessions
    <2>7. Guarded'
        BY <1>d, <1>w, <2>4, <2>5, <2>6, SessionsKept DEF Driving
    <2>8. Rested'
        BY <1>w, <2>3, <2>4, <2>5, <2>6, OwnerRests
    <2> QED
        BY <2>6, <2>7, <2>8, NotHolding DEF SessInv, Guarded
<1>1. CASE ClaimRequest
    <2>1. UNCHANGED <<exec, sessions>> /\ pc.at = "admitted" /\ pc'.at = "claimed"
        BY <1>1, <1>t, TaskFields DEF ClaimRequest
    <2> QED
        BY <1>d, <1>s, <2>1 DEF Driving
<1>2. CASE ClaimFailed \/ FirstWriteFault \/ RecoveryReadFault \/ CloseRecordFault
    <2>1. port' \subseteq port
        BY <1>2 DEF ClaimFailed, FirstWriteFault, RecoveryReadFault, CloseRecordFault,
                    CloseUncertain, sessions
    <2>2. pc'.at = "halting"
        BY <1>2, <1>t, TaskEnds, TaskFields DEF ClaimFailed, FirstWriteFault, RecoveryReadFault,
                                                CloseRecordFault
    <2> QED
        BY <2>1, <2>2, LeavingSessions
<1>3. CASE OpenSession
    BY <1>3, OpenSessions
<1>4. CASE OpenRefused \/ PreflightFailed
    <2>1. UNCHANGED <<exec, sessions>> /\ pc.at \in Driving /\ pc'.at = "failing"
        BY <1>4, <1>t, TaskFields DEF OpenRefused, PreflightFailed, durable, Driving
    <2> QED
        BY <1>d, <1>s, <2>1 DEF Driving
<1>5. CASE CommitPreflight
    <2>1. CASE Rest
        BY <1>5, <1>m, <1>w, <2>1 DEF CommitPreflight, AwaitingPhases, Driving
    <2>2. CASE pc' = [NoTask EXCEPT !.at = "halting"]
        <3>1. port' \subseteq port /\ pc'.at = "halting"
            BY <1>5, <2>2, TaskEnds DEF CommitPreflight, sessions
        <3> QED
            BY <3>1, LeavingSessions
    <2> QED
        BY <1>5, <2>1, <2>2 DEF CommitPreflight
<1>6. CASE DriveMotion
    <2>1. /\ UNCHANGED <<exec, sessions>> /\ pc.at = "claimed"
          /\ \/ Held(pc.ex) /\ \E at \in {"succeeded", "failing", "rejected"} : To(at)
             \/ To("failing")
        BY <1>6 DEF DriveMotion, durable
    <2>2. /\ pc'.at \in {"succeeded", "failing", "rejected"} /\ pc'.ex = pc.ex
          /\ pc'.at # "failing" => Held(pc.ex)
        BY <1>t, <2>1, TaskFields
    <2> QED
        BY <1>d, <1>s, <2>1, <2>2 DEF Driving
<1>7. CASE CommitFirstWrite /\ To("failing") /\ UNCHANGED exec
    <2>1. UNCHANGED <<exec, sessions>> /\ pc.at = "claimed" /\ pc'.at = "failing"
        BY <1>7, <1>t, TaskFields DEF CommitFirstWrite
    <2> QED
        BY <1>d, <1>s, <2>1 DEF Driving
<1>8. CASE CommitFirstWrite /\ Held(pc.ex) /\ Write(pc.ex, WriteBoundary)
           /\ pc' = [pc EXCEPT !.at = "writing", !.rev = @ + 1]
    <2>1. PICK e \in Executions : e = pc.ex /\ Active(e) /\ Held(e)
        BY <1>8, InHand DEF CommitFirstWrite, Driving
    <2>2. PICK row : row = Revised(e, "STREAMING", "FIRST_WRITE_POSSIBLE")
        OBVIOUS
    <2>3. Write(e, row) /\ UNCHANGED sessions /\ pc.at = "claimed"
        BY <1>8, <2>1, <2>2 DEF CommitFirstWrite, WriteBoundary
    <2>4. pc'.at = "writing" /\ pc'.ex = e
        BY <1>8, <1>t, <2>1 DEF TypeOK, Tasks
    <2>5. InFlight(e)'
        BY <2>1, <2>4 DEF IInv, TaskInv, DrivesOwner, Driving
    <2>6. \A f \in Executions \ {e} : Active(f)' <=> Active(f)
        BY <1>t, <2>3, OneRow
    <2>7. Guarded'
        BY <1>d, <2>3, <2>4, <2>5, <2>6, SessionsKept DEF InFlight, Driving
    <2>8. TaskHeld'
        BY <2>1, <2>3, <2>4 DEF TaskHeld, Held, sessions
    <2> QED
        BY <2>4, <2>7, <2>8, NotResting DEF SessInv, Guarded
<1>9. CASE DriveStream
    <2>1. UNCHANGED <<exec, sessions>> /\ pc.at = "writing"
        BY <1>9 DEF DriveStream, durable
    <2>2. pc'.at \in {"succeeded", "failing"} /\ pc'.ex = pc.ex
        BY <1>9, <1>t DEF DriveStream, To, TypeOK, Tasks
    <2>3. Held(pc.ex)
        BY <2>1 DEF SessInv, TaskHeld
    <2> QED
        BY <1>d, <1>s, <2>1, <2>2, <2>3 DEF Driving
<1>10. CASE CommitMotionSuccess
    <2>1. NextPhase(pc.act) \in AwaitingPhases
        BY DEF NextPhase, AwaitingPhases
    <2> QED
        BY <1>10, <1>m, <1>w, <2>1 DEF CommitMotionSuccess, Driving
<1>11. CASE CommitStreamConfirmed
    BY <1>11, <1>w DEF CommitStreamConfirmed, AwaitingPhases, Milestones
<1>12. CASE SuccessCommitFault
    <2>1. UNCHANGED <<exec, sessions>> /\ pc.at \in Driving
        BY <1>12 DEF SuccessCommitFault, durable, Driving
    <2>2. pc'.at = "failing"
        BY <1>12, <1>t DEF SuccessCommitFault, FailConfirmed, TypeOK, Tasks
    <2> QED
        BY <1>d, <1>s, <2>1, <2>2 DEF Driving
<1>13. CASE CloseBeforeCompletion
    <2>1. PICK e \in Executions : e = pc.ex
        BY <1>13, <1>e DEF CloseBeforeCompletion, Driving
    <2>2. /\ UNCHANGED <<exec, opened>> /\ pc.at \in Working
          /\ CloseCertain(e) \/ CloseUncertain(e)
        BY <1>13, <1>d, <2>1 DEF CloseBeforeCompletion, durable, Driving
    <2>3. pc'.at \in {"closed", "failing"} /\ pc'.ex = e
        BY <1>13, <1>t, <2>1 DEF CloseBeforeCompletion, FailConfirmed, TypeOK, Tasks
    <2>4. Guarded' /\ ~Held(e)'
        BY <2>2, <2>3, SessionClosed
    <2>5. TaskHeld'
        BY <2>3, <2>4 DEF TaskHeld
    <2> QED
        BY <2>3, <2>4, <2>5, NotResting DEF SessInv, Guarded
<1>14. CASE CommitCompleted
    <2>1. PICK e \in Executions : e = pc.ex /\ Active(e)
        BY <1>14, InHand DEF CommitCompleted, Driving
    <2>2. /\ Write(e, Completed(e)) /\ UNCHANGED sessions /\ pc.at = "closed" /\ pc'.at = "idle"
        BY <1>14, <2>1, TaskEnds DEF CommitCompleted
    <2>3. ~Held(e) /\ \A f \in Executions : Active(f) => f = e
        BY <2>1, <2>2 DEF SessInv, TaskHeld, IInv, RowInv, OneOwner
    <2>4. exec'[e].phase = "COMPLETED" /\ \A f \in Executions \ {e} : Active(f)' <=> Active(f)
        BY <1>t, <2>2, OneRow, CompletedRow
    <2>5. \A f \in Executions : ~Active(f)'
        BY <2>3, <2>4 DEF Active
    <2>6. Guarded'
        BY <1>d, <2>2, <2>3, SessionsKept DEF Driving
    <2>7. Rested'
        BY <2>5 DEF Rested
    <2> QED
        BY <2>2, <2>6, <2>7, NotHolding DEF SessInv, Guarded
<1>15. CASE CommitRecovery
    <2>1. PICK e \in Executions : e = pc.ex /\ Active(e) /\ exec[e].retired = "NO"
        BY <1>15, InHand DEF CommitRecovery, Driving
    <2>2. PICK row : row = Recovered(e, FailureMilestone)
        OBVIOUS
    <2>3. /\ Write(e, row) /\ UNCHANGED sessions /\ pc.at \in Driving
          /\ To("cleanup") \/ (Rest /\ ~Held(e))
        BY <1>15, <2>1, <2>2 DEF CommitRecovery, NeedsClose, Driving
    <2>4. row.phase = "RECOVERY_REQUIRED" /\ row.retired = "NO"
        <3>1. FailureMilestone \in Milestones
            BY <1>m, <2>3 DEF FailureMilestone, Milestones
        <3> QED
            BY <1>t, <2>1, <2>2, <3>1, RecoveredRow
    <2>5. exec'[e] = row /\ \A f \in Executions \ {e} : Active(f)' <=> Active(f)
        BY <1>t, <2>3, OneRow
    <2>6. Active(e)'
        BY <2>4, <2>5 DEF Active, Present
    <2>7. \/ pc'.at = "cleanup" /\ pc'.ex = e
          \/ pc'.at = "idle" /\ ~Held(e)'
        BY <1>t, <2>1, <2>3, TaskFields, TaskEnds DEF Held, sessions
    <2>8. Guarded'
        BY <1>d, <2>3, <2>5, <2>6, <2>7, SessionsKept
    <2>9. TaskHeld'
        BY <2>4, <2>5, <2>6, <2>7 DEF TaskHeld
    <2>10. Rested'
        BY <2>4, <2>5, <2>6, <2>7, OwnerRests, NotResting
    <2> QED
        BY <2>8, <2>9, <2>10 DEF SessInv, Guarded
<1>16. CASE RecoveryCommitFails
    <2>1. PICK e \in Executions : e = pc.ex
        BY <1>16, <1>e DEF RecoveryCommitFails, Driving
    <2>2. /\ UNCHANGED <<exec, opened>> /\ pc.at \in Working
          /\ CloseCertain(e) \/ CloseUncertain(e) \/ UNCHANGED <<sess, port>>
        BY <1>16, <1>d, <2>1 DEF RecoveryCommitFails, CloseOnFatal, durable, Driving
    <2>3. pc'.at \in {"failing", "halting"}
        BY <1>16, <1>t, TaskEnds DEF RecoveryCommitFails, TypeOK, Tasks
    <2>4. Guarded'
        BY <2>2, <2>3, SessionClosed
    <2> QED
        BY <2>3, <2>4, NotResting, NotHolding DEF SessInv, Guarded
<1>17. CASE CloseFailedSession
    <2>1. PICK e \in Executions : e = pc.ex
        BY <1>17, <1>e DEF CloseFailedSession, Driving
    <2>2. /\ UNCHANGED <<exec, opened>> /\ pc.at = "cleanup" /\ pc.at \in Working /\ pc'.at = "idle"
          /\ CloseCertain(e) \/ CloseUncertain(e)
        BY <1>17, <1>d, <2>1, TaskEnds DEF CloseFailedSession, durable, Driving
    <2>3. Active(e) /\ exec[e].phase = "RECOVERY_REQUIRED"
        BY <2>1, <2>2 DEF SessInv, TaskHeld
    <2>4. Guarded' /\ ~Held(e)'
        BY <2>2, SessionClosed
    <2>5. Active(e)' /\ exec'[e].phase = "RECOVERY_REQUIRED"
        BY <2>2, <2>3, SameRows
    <2> QED
        BY <2>2, <2>4, <2>5, OwnerRests, NotHolding DEF SessInv, Guarded
<1> QED
    BY <1>1, <1>2, <1>3, <1>4, <1>5, <1>6, <1>7, <1>8, <1>9, <1>10, <1>11, <1>12, <1>13, <1>14,
       <1>15, <1>16, <1>17 DEF Drive, CommitFirstWrite

LEMMA BesideSessions ==
    ASSUME IInv, SessInv, IInv',
           \/ \E j \in Jobs : CancelJob(j)
           \/ \E e \in Executions, a \in ApprovedActions : TimeUp(e, a)
           \/ UNCHANGED vars
    PROVE  SessInv'
<1>1. UNCHANGED <<exec, sess, port, opened, pc>>
    BY DEF CancelJob, TimeUp, vars, sessions
<1>2. \A e \in Executions : (Active(e)' <=> Active(e)) /\ (Held(e)' <=> Held(e)) /\ exec'[e] = exec[e]
    BY <1>1, SameRows DEF Held
<1> QED
    BY <1>1, <1>2 DEF SessInv, DownClean, TaskHeld, HeldOwner, PortGuarded, OnePort, Rested,
                      Held, Active, Present

LEMMA StepSessions == IInv /\ AdmInv /\ SessInv /\ [Next]_vars => SessInv'
BY StepSafe, LifecycleSessions, CommandSessions, DriveSessions, BesideSessions DEF Next

-----------------------------------------------------------------------------
(* The inductive invariant and what follows from it *)

SafeInv == IInv /\ AdmInv /\ SessInv

LEMMA InitSafely == Init => SafeInv
<1> SUFFICES ASSUME Init PROVE SafeInv
    OBVIOUS
<1>1. pc.at = "down"
    BY AshoreTasks DEF Init, Ashore
<1>2. AdmInv
    BY <1>1 DEF Init, AdmInv, AdmissionsExact, MovesAdmitted, ReservedInHand, TaskClaimed, Driving
<1>3. SessInv
    BY <1>1 DEF Init, SessInv, DownClean, TaskHeld, HeldOwner, PortGuarded, OnePort, Rested,
                Working, Driving
<1> QED
    BY <1>2, <1>3, InitSafe DEF SafeInv

LEMMA StepSafely == SafeInv /\ [Next]_vars => SafeInv'
BY StepSafe, StepAdmissions, StepSessions DEF SafeInv

LEMMA Safely == Spec => []SafeInv
BY InitSafely, StepSafely, PTL DEF Spec

\* One approval, one motion: no crash, replay or restart lets a motion action
\* reach the adapter twice in an execution, or without the consumption of a
\* challenge of its own, because a dispatch needs a claim, a claim an admission,
\* and the only admission of the action was inserted with the consumption.
THEOREM NeverMovedTwice == Spec => []MotionApproved
<1>1. SafeInv => MotionApproved
    <2> SUFFICES ASSUME SafeInv, NEW e \in Executions, NEW a \in MotionActions, moved[e][a] > 0
                 PROVE  moved[e][a] = 1 /\ chal[e][a].status = "CONSUMED"
        BY DEF MotionApproved
    <2>1. moved[e][a] = 1 /\ Claimed(e, a)
        BY DEF SafeInv, AdmInv, MovesAdmitted
    <2>2. chal[e][a].status = "CONSUMED"
        BY <2>1 DEF SafeInv, AdmInv, AdmissionsExact, Claimed
    <2> QED
        BY <2>1, <2>2
<1> QED
    BY <1>1, Safely, PTL

\* One serial session at a time, for both factories: an open that failed half
\* way or a close of unknown effect never lets a second session in.
THEOREM PortAlwaysSafe == Spec => []PortSafe
<1>1. SafeInv => PortSafe
    <2> SUFFICES ASSUME SafeInv PROVE PortSafe
        OBVIOUS
    <2>1. PortOwned
        BY DEF SafeInv, SessInv, PortGuarded, PortOwned, Idle, Working
    <2>2. CASE port = {}
        BY <2>1, <2>2, FS_EmptySet DEF PortSafe, ExclusivePort
    <2>3. CASE port # {}
        <3>1. PICK e \in port : TRUE
            BY <2>3
        <3>2. port = {e}
            BY <3>1 DEF SafeInv, SessInv, OnePort
        <3>3. Cardinality({e}) = 1
            BY FS_Singleton
        <3> QED
            BY <2>1, <3>2, <3>3 DEF PortSafe, ExclusivePort
    <2> QED
        BY <2>2, <2>3
<1> QED
    BY <1>1, Safely, PTL

\* The coordinator never rests in mid action: between two commands its owner is
\* in recovery without a session, or at an approval gate with one of this
\* service, and no admission is left that could still be claimed.
THEOREM RestsSafely == Spec => []RestingState
<1>1. SafeInv => RestingState
    BY DEF SafeInv, AdmInv, ReservedInHand, SessInv, Rested, RestingState, Idle
<1> QED
    BY <1>1, Safely, PTL

LEMMA OnlyDrivesMove ==
    ASSUME [Next]_vars
    PROVE  UNCHANGED moved \/ DriveMotion \/ DriveStream
<1>1. CASE StartUp \/ Stop \/ ShutDown \/ ProcessExit \/ Crash
    BY <1>1 DEF StartUp, Start, StartRefused, StartFault, Stop, ShutDown, ShutdownReconcile,
                ShutdownUnreconciled, ShutdownClose, ProcessExit, Crash, EndProcess
<1>2. CASE Command
    BY <1>2 DEF Command, CheckPrepare, CommitPrepare, AbandonPrepare, AdmissionFault,
                RequestMotion, ExecuteMotion, RequestRecovery, TransferRecovery,
                ReleaseRecovery, Replay
<1>3. CASE Drive
    BY <1>3 DEF Drive, ClaimRequest, ClaimFailed, OpenSession, OpenRefused, CommitPreflight,
                PreflightFailed, CommitFirstWrite, FirstWriteFault, CommitMotionSuccess,
                CommitStreamConfirmed, SuccessCommitFault, CloseBeforeCompletion,
                CommitCompleted, CommitRecovery, RecoveryCommitFails, RecoveryReadFault,
                CloseFailedSession, CloseRecordFault
<1>4. CASE (\E j \in Jobs : CancelJob(j)) \/ (\E e \in Executions, a \in ApprovedActions : TimeUp(e, a))
    BY <1>4 DEF CancelJob, TimeUp
<1>5. CASE UNCHANGED vars
    BY <1>5 DEF vars
<1> QED
    BY <1>1, <1>2, <1>3, <1>4, <1>5 DEF Next

LEMMA MoveIsDurable ==
    ASSUME SafeInv, [Next]_vars, NEW e \in Executions, NEW a \in MotionActions,
           moved'[e][a] # moved[e][a]
    PROVE  /\ Active(e) /\ exec[e].phase = AdmittedPhase(a)
           /\ exec[e].fresh /\ Held(e)
           /\ \E r \in adm : r.ex = e /\ r.act = a /\ r.st = "CLAIMED"
           /\ a = "STREAM" => exec[e].mile = "FIRST_WRITE_POSSIBLE"
<1> USE DEF SafeInv
<1>1. PICK x \in Executions : x = pc.ex /\ Active(x) /\ pc.at \in {"claimed", "writing"}
    BY OnlyDrivesMove, InHand DEF DriveMotion, DriveStream, Driving
<1>2. /\ moved' = [moved EXCEPT ![x][pc.act] = @ + 1] /\ pc.act \in MotionActions /\ Held(x)
      /\ pc.act = "STREAM" => pc.at = "writing"
    <2>1. CASE DriveMotion
        BY <1>1, <2>1 DEF DriveMotion
    <2>2. CASE DriveStream
        BY <1>1, <2>2 DEF DriveStream, IInv, TaskInv, DrivesOwner, SessInv, TaskHeld, MotionActions
    <2> QED
        BY <2>1, <2>2, OnlyDrivesMove
<1>3. e = x /\ a = pc.act
    BY <1>2 DEF IInv, TypeInv, TypeOK
<1>4. exec[x].fresh /\ Claimed(x, pc.act) /\ exec[x].phase = AdmittedPhase(pc.act)
    BY <1>1 DEF AdmInv, TaskClaimed, Driving
<1>5. pc.act = "STREAM" => exec[x].mile = "FIRST_WRITE_POSSIBLE"
    BY <1>1, <1>2 DEF IInv, TaskInv, DrivesOwner
<1> QED
    BY <1>1, <1>2, <1>3, <1>4, <1>5 DEF Claimed

\* Whatever moves the machine was made durable first: an adapter call happens
\* only for a claimed admission of the active owner, in the phase stored for the
\* action, on a session of this service, and a stream past its write boundary.
THEOREM DispatchesAreDurable == Spec => DispatchUnderDurablePhase
<1>1. SafeInv /\ [Next]_vars =>
        [\A e \in Executions, a \in MotionActions : moved'[e][a] # moved[e][a] =>
          /\ Active(e) /\ exec[e].phase = AdmittedPhase(a)
          /\ exec[e].fresh /\ Held(e)
          /\ \E r \in adm : r.ex = e /\ r.act = a /\ r.st = "CLAIMED"
          /\ a = "STREAM" => exec[e].mile = "FIRST_WRITE_POSSIBLE"]_vars
    BY MoveIsDurable
<1> QED
    BY <1>1, Safely, PTL DEF Spec, DispatchUnderDurablePhase

-----------------------------------------------------------------------------
(***************************************************************************)
(* Recovery, completion and the job row: what follows an execution to its  *)
(* successors and to its job, the evidence that stays frozen, and the      *)
(* refinement of MachineLatch.                                             *)
(***************************************************************************)
-----------------------------------------------------------------------------
(* The inductive invariant, on top of SafeInv *)

JobsFollow == \A e \in Executions : InFlight(e) => jobs[exec[e].job] = ExpectedJobState(e)

\* What JobAgreement says beyond ReadyUntouched, row by row and job by job.
JobRows ==
    /\ \A e \in Executions : Present(e) =>
          /\ jobs[exec[e].job] # "CANCELLED"
          /\ exec[e].phase = "COMPLETED" => jobs[exec[e].job] = "COMPLETED"
    /\ \A j \in Jobs :
          /\ jobs[j] = "COMPLETED" =>
                \E e \in Executions : exec[e].job = j /\ exec[e].phase = "COMPLETED"
          /\ jobs[j] = "RECOVERY_REQUIRED" =>
                \E e \in Executions : exec[e].job = j /\ exec[e].phase = "RECOVERY_REQUIRED"

IntentFrozen ==
    \A e \in Executions : exec[e].phase = "RECOVERY_REQUIRED" =>
        exec[e].intent = RecoveryIntentForMilestone(exec[e].mile)

SafeHomePhases == {"PREPARING_SESSION", "AWAITING_HOME_APPROVAL", "HOMING", "RECOVERY_REQUIRED", "COMPLETED"}

\* A successor has a predecessor in recovery of the same job and intent, never
\* an ambiguous one; after a confirmed stream it goes no further than HOME.
Lineage ==
    \A e \in Executions : IsSuccessor(e) =>
        /\ exec[exec[e].pred].phase = "RECOVERY_REQUIRED"
        /\ exec[exec[e].pred].job = exec[e].job
        /\ exec[exec[e].pred].intent = exec[e].intent
        /\ exec[e].intent \in {"PRE_STREAM_RESTART", "POST_STREAM_SAFE_HOME"}
        /\ exec[e].intent = "POST_STREAM_SAFE_HOME" =>
              exec[e].mile = "STREAM_CONFIRMED" /\ exec[e].phase \in SafeHomePhases

HomeZConfirmed ==
    \A e \in Executions : exec[e].phase \in {"AWAITING_HOME_Z_APPROVAL", "HOMING_Z"} =>
        exec[e].mile = "STREAM_CONFIRMED"

Drawn(j) == \E f \in Executions : exec[f].job = j /\ Streamed(f) = 1

ConfirmedDrawn ==
    \A e \in Executions : exec[e].mile = "STREAM_CONFIRMED" => Drawn(exec[e].job)

SafeHomeAdmits ==
    \A r \in adm : PostStreamHome(r.ex) => r.act \in SessionActions \cup {"HOME"}

TaskDrawn ==
    /\ pc.at = "admitted" => ~pc.confirmed
    /\ pc.at \in Driving /\ pc.confirmed => Streamed(pc.ex) = 1
    /\ pc.at \in {"succeeded", "closed"} /\ pc.act = "STREAM" => Streamed(pc.ex) = 1
    /\ pc.at = "closed" => pc.act \in {"STREAM", "HOME_Z"} \/ (pc.act = "HOME" /\ PostStreamHome(pc.ex))

\* What the rows, jobs and history say; what admissions and the task say.
HistoryInv == JobsFollow /\ JobRows /\ IntentFrozen /\ Lineage /\ HomeZConfirmed /\ ConfirmedDrawn
              /\ CompletedWasDrawn
LineInv == HistoryInv /\ SafeHomeAdmits /\ TaskDrawn

-----------------------------------------------------------------------------
(* Which row changes keep HistoryInv *)

LEMMA IntentFacts ==
    /\ RecoveryIntentForMilestone("NOT_STARTED") = "PRE_STREAM_RESTART"
    /\ RecoveryIntentForMilestone("FIRST_WRITE_POSSIBLE") = "STREAM_AMBIGUOUS_RELEASE_ONLY"
    /\ RecoveryIntentForMilestone("STREAM_CONFIRMED") = "POST_STREAM_SAFE_HOME"
    /\ \A m \in Milestones :
          /\ RecoveryIntentForMilestone(m) = "POST_STREAM_SAFE_HOME" => m = "STREAM_CONFIRMED"
          /\ RecoveryIntentForMilestone(m) = "PRE_STREAM_RESTART" => m = "NOT_STARTED"
BY DEF RecoveryIntentForMilestone, Milestones

LEMMA OwnerFacts ==
    ASSUME IInv, HistoryInv, NEW e \in Executions
    PROVE  /\ InFlight(e) => /\ Active(e) /\ Present(e) /\ exec[e].job \in Jobs
                             /\ exec[e].phase \notin {"COMPLETED", "RECOVERY_REQUIRED", "ABSENT"}
                             /\ jobs[exec[e].job] \in {"READY_TO_RUN", "RECOVERY_REQUIRED"}
                             /\ \A f \in Executions : InFlight(f) => f = e
           /\ IsSuccessor(e) => exec[e].pred \in Executions
           /\ ~Present(e) => Streamed(e) = 0 /\ ~IsSuccessor(e) /\ exec[e].phase = "ABSENT"
<1>1. InFlight(e) => /\ Active(e) /\ Present(e) /\ exec[e].job \in Jobs
                     /\ exec[e].phase \notin {"COMPLETED", "RECOVERY_REQUIRED", "ABSENT"}
    BY DEF InFlight, Active, Present, IInv, RowInv, RowsBound
<1>2. InFlight(e) => /\ jobs[exec[e].job] \in {"READY_TO_RUN", "RECOVERY_REQUIRED"}
                     /\ \A f \in Executions : InFlight(f) => f = e
    BY <1>1 DEF HistoryInv, JobsFollow, ExpectedJobState, InFlight, IInv, RowInv, OneOwner
<1>3. IsSuccessor(e) => exec[e].pred \in Executions
    BY RowInHand DEF IsSuccessor
<1>4. ~Present(e) => Streamed(e) = 0 /\ exec[e] = NoExecution
    BY DEF IInv, RowInv, RowsBound
<1>5. NoExecution.pred = None /\ NoExecution.phase = "ABSENT"
    BY DEF NoExecution
<1> QED
    BY <1>1, <1>2, <1>3, <1>4, <1>5 DEF IsSuccessor

\* Nothing that history speaks of changes, except that a program may be drawn.
LEMMA HistoryKept ==
    ASSUME IInv, HistoryInv, IInv',
           \A j \in Jobs : jobs'[j] = jobs[j] \/
               (jobs'[j] = "CANCELLED" /\ jobs[j] = "READY_TO_RUN" /\ ~OwnedByMachine(j)),
           \A e \in Executions :
               /\ exec'[e].phase = exec[e].phase /\ exec'[e].mile = exec[e].mile
               /\ exec'[e].intent = exec[e].intent /\ exec'[e].job = exec[e].job
               /\ exec'[e].pred = exec[e].pred
               /\ InFlight(e)' => InFlight(e)
               /\ Streamed(e) = 1 => Streamed(e)' = 1
    PROVE  HistoryInv'
<1>1. \A e \in Executions : /\ Present(e)' <=> Present(e)
                            /\ IsSuccessor(e)' <=> IsSuccessor(e)
                            /\ ExpectedJobState(e)' = ExpectedJobState(e)
                            /\ Present(e) => exec[e].job \in Jobs
                            /\ InFlight(e) => Present(e) /\ OwnedByMachine(exec[e].job)
                            /\ IsSuccessor(e) => exec[e].pred \in Executions
    BY OwnerFacts DEF Present, IsSuccessor, ExpectedJobState, OwnedByMachine, InFlight,
                      IInv, RowInv, RowsBound
<1>2. \A e \in Executions : Present(e) => jobs'[exec[e].job] = jobs[exec[e].job]
    <2>1. ASSUME NEW e \in Executions, Present(e), jobs[exec[e].job] = "READY_TO_RUN"
          PROVE  OwnedByMachine(exec[e].job)
        BY <1>1, <2>1 DEF IInv, RowInv, ReadyUntouched
    <2> QED
        BY <1>1, <2>1
<1>3. JobsFollow'
    BY <1>1, <1>2 DEF HistoryInv, JobsFollow
<1>4. JobRows'
    BY <1>1, <1>2 DEF HistoryInv, JobRows
<1>5. IntentFrozen' /\ HomeZConfirmed'
    BY DEF HistoryInv, IntentFrozen, HomeZConfirmed
<1>6. Lineage'
    BY <1>1 DEF HistoryInv, Lineage
<1>7. \A j : Drawn(j) => Drawn(j)'
    BY DEF Drawn
<1>8. ConfirmedDrawn'
    BY <1>7 DEF HistoryInv, ConfirmedDrawn
<1>9. CompletedWasDrawn'
    BY DEF HistoryInv, CompletedWasDrawn
<1> QED
    BY <1>3, <1>4, <1>5, <1>6, <1>8, <1>9 DEF HistoryInv

\* The owner in flight has a new row; what it must say in each of its ways on.
LEMMA OwnerHistory ==
    ASSUME IInv, HistoryInv, IInv', UNCHANGED moved,
           NEW e \in Executions, InFlight(e), NEW row, Write(e, row),
           row.phase # "ABSENT", row.job = exec[e].job, row.pred = exec[e].pred,
           IsSuccessor(e) => row.intent = exec[e].intent,
           PostStreamHome(e) => row.mile = "STREAM_CONFIRMED" /\ row.phase \in SafeHomePhases,
           row.phase \in {"AWAITING_HOME_Z_APPROVAL", "HOMING_Z"} => row.mile = "STREAM_CONFIRMED",
           row.mile = "STREAM_CONFIRMED" => Drawn(row.job),
           \/ InFlight(e)' /\ UNCHANGED jobs
           \/ /\ row.phase = "RECOVERY_REQUIRED"
              /\ row.intent = RecoveryIntentForMilestone(row.mile)
              /\ jobs' = [jobs EXCEPT ![row.job] = "RECOVERY_REQUIRED"]
           \/ /\ row.phase = "COMPLETED" /\ row.mile = "STREAM_CONFIRMED"
              /\ jobs' = [jobs EXCEPT ![row.job] = "COMPLETED"]
    PROVE  HistoryInv'
<1>1. /\ exec'[e] = row
      /\ \A f \in Executions \ {e} :
            /\ exec'[f] = exec[f]
            /\ Present(f)' <=> Present(f)
            /\ InFlight(f)' <=> InFlight(f)
            /\ IsSuccessor(f)' <=> IsSuccessor(f)
            /\ ExpectedJobState(f)' = ExpectedJobState(f)
    BY OneRow DEF IInv, TypeInv
<1>2. /\ Present(e) /\ exec[e].job \in Jobs
      /\ exec[e].phase \notin {"COMPLETED", "RECOVERY_REQUIRED", "ABSENT"}
      /\ jobs[exec[e].job] \in {"READY_TO_RUN", "RECOVERY_REQUIRED"}
      /\ \A f \in Executions : InFlight(f) => f = e
    BY OwnerFacts
<1>3. /\ IsSuccessor(e)' <=> IsSuccessor(e)
      /\ ExpectedJobState(e)' = ExpectedJobState(e)
      /\ \A f \in Executions : exec'[f].job = exec[f].job /\ Streamed(f)' = Streamed(f)
    BY <1>1 DEF IsSuccessor, ExpectedJobState, Streamed
<1>4. jobs \in [Jobs -> JobStates]
    BY DEF IInv, TypeInv, TypeOK
<1>5. JobsFollow'
    BY <1>1, <1>2, <1>3 DEF HistoryInv, JobsFollow, InFlight, Active
<1>6. JobRows'
    <2>1. CASE InFlight(e)' /\ UNCHANGED jobs
        <3>1. row.phase \notin {"COMPLETED", "RECOVERY_REQUIRED"}
            BY <1>1, <2>1 DEF InFlight, Active
        <3> QED
            BY <1>1, <1>2, <1>3, <2>1, <3>1 DEF HistoryInv, JobRows
    <2>2. CASE /\ row.phase = "RECOVERY_REQUIRED"
               /\ jobs' = [jobs EXCEPT ![row.job] = "RECOVERY_REQUIRED"]
        <3>1. \A f \in Executions : f # e /\ Present(f) /\ exec[f].phase = "COMPLETED" => exec[f].job # row.job
            BY <1>2 DEF HistoryInv, JobRows
        <3>2. \A f \in Executions : Present(f) => exec[f].job \in Jobs
            BY DEF IInv, RowInv, RowsBound
        <3> QED
            BY <1>1, <1>2, <1>3, <1>4, <2>2, <3>1, <3>2 DEF HistoryInv, JobRows
    <2>3. CASE /\ row.phase = "COMPLETED"
               /\ jobs' = [jobs EXCEPT ![row.job] = "COMPLETED"]
        <3>2. \A f \in Executions : Present(f) => exec[f].job \in Jobs
            BY DEF IInv, RowInv, RowsBound
        <3> QED
            BY <1>1, <1>2, <1>3, <1>4, <2>3, <3>2 DEF HistoryInv, JobRows
    <2> QED
        BY <2>1, <2>2, <2>3
<1>7. IntentFrozen'
    BY <1>1 DEF HistoryInv, IntentFrozen, InFlight, Active
<1>8. HomeZConfirmed'
    BY <1>1 DEF HistoryInv, HomeZConfirmed
<1>9. Lineage'
    <2>1. \A f \in Executions : IsSuccessor(f) => exec[f].pred \in Executions \ {e}
        BY <1>2, OwnerFacts DEF HistoryInv, Lineage
    <2>2. IsSuccessor(e) /\ row.intent = "POST_STREAM_SAFE_HOME" => PostStreamHome(e)
        BY DEF PostStreamHome
    <2> QED
        BY <1>1, <1>3, <2>1, <2>2 DEF HistoryInv, Lineage
<1>10. \A j : Drawn(j) => Drawn(j)'
    BY <1>3 DEF Drawn
<1>11. ConfirmedDrawn'
    BY <1>1, <1>10 DEF HistoryInv, ConfirmedDrawn
<1>12. CompletedWasDrawn'
    <2>1. ASSUME NEW j \in Jobs, jobs'[j] = "COMPLETED" PROVE Drawn(j)
        <3>1. CASE jobs[j] = "COMPLETED"
            BY <3>1 DEF HistoryInv, CompletedWasDrawn, Drawn
        <3>2. CASE jobs[j] # "COMPLETED"
            BY <1>2, <1>4, <2>1, <3>2
        <3> QED
            BY <3>1, <3>2
    <2> QED
        BY <1>10, <2>1 DEF CompletedWasDrawn, Drawn
<1> QED
    BY <1>5, <1>6, <1>7, <1>8, <1>9, <1>11, <1>12 DEF HistoryInv

\* A row is inserted, initial or a successor; the others keep what history says.
LEMMA InsertedHistory ==
    ASSUME IInv, HistoryInv, IInv', UNCHANGED <<jobs, moved>>,
           NEW n \in Executions, ~Present(n), NEW row, exec'[n] = row,
           row.phase = "PREPARING_SESSION", row.job \in Jobs,
           jobs[row.job] = ExpectedJobState(n)',
           IsSuccessor(n)' =>
               /\ row.pred \in Executions \ {n} /\ exec[row.pred].phase = "RECOVERY_REQUIRED"
               /\ exec[row.pred].job = row.job /\ exec[row.pred].intent = row.intent
               /\ row.intent \in {"PRE_STREAM_RESTART", "POST_STREAM_SAFE_HOME"}
               /\ row.intent = "POST_STREAM_SAFE_HOME" => row.mile = "STREAM_CONFIRMED",
           row.mile = "STREAM_CONFIRMED" => Drawn(row.job),
           \A f \in Executions \ {n} :
               /\ exec'[f].phase = exec[f].phase /\ exec'[f].mile = exec[f].mile
               /\ exec'[f].intent = exec[f].intent /\ exec'[f].job = exec[f].job
               /\ exec'[f].pred = exec[f].pred
               /\ ~InFlight(f)'
    PROVE  HistoryInv'
<1>1. \A f \in Executions \ {n} : /\ Present(f)' <=> Present(f)
                                  /\ IsSuccessor(f)' <=> IsSuccessor(f)
    BY DEF Present, IsSuccessor
<1>2. \A f \in Executions : IsSuccessor(f) => exec[f].pred \in Executions \ {n}
    BY OwnerFacts DEF HistoryInv, Lineage, Present
<1>3. Streamed(n) = 0 /\ exec[n].phase = "ABSENT"
    BY OwnerFacts
<1>4. \A f \in Executions : Streamed(f)' = Streamed(f)
    BY DEF Streamed
<1>5. JobsFollow'
    BY DEF JobsFollow
<1>6. JobRows'
    <2>1. jobs[row.job] \in {"READY_TO_RUN", "RECOVERY_REQUIRED"}
        BY DEF ExpectedJobState
    <2> QED
        BY <1>1, <1>3, <2>1 DEF HistoryInv, JobRows
<1>7. IntentFrozen' /\ HomeZConfirmed'
    BY DEF HistoryInv, IntentFrozen, HomeZConfirmed
<1>8. Lineage'
    BY <1>1, <1>2 DEF HistoryInv, Lineage, SafeHomePhases, IsSuccessor
<1>9. \A j : Drawn(j) => Drawn(j)'
    BY <1>3, <1>4 DEF Drawn
<1>10. ConfirmedDrawn'
    BY <1>9 DEF HistoryInv, ConfirmedDrawn
<1>11. CompletedWasDrawn'
    BY <1>3, <1>4 DEF HistoryInv, CompletedWasDrawn
<1> QED
    BY <1>5, <1>6, <1>7, <1>8, <1>10, <1>11 DEF HistoryInv

-----------------------------------------------------------------------------
(* Every step keeps LineInv *)

LEMMA SafeHomeKept ==
    ASSUME IInv, AdmInv, SafeHomeAdmits,
           \A r \in adm' : \E q \in adm : q.ex = r.ex /\ q.act = r.act,
           \A e \in Executions : Present(e) /\ PostStreamHome(e)' => PostStreamHome(e)
    PROVE  SafeHomeAdmits'
<1>1. \A q \in adm : q.ex \in Executions /\ Present(q.ex)
    BY DEF IInv, TypeInv, TypeOK, AdmissionRows, AdmInv, AdmissionsExact
<1> QED
    BY <1>1 DEF SafeHomeAdmits

LEMMA NothingDrawn ==
    ASSUME pc'.at \notin Driving \cup {"admitted"}
    PROVE  TaskDrawn'
BY DEF TaskDrawn, Driving

\* Restart reconciliation freezes the owner in flight, if there is one.
LEMMA ReconcileHistory ==
    ASSUME SafeInv, LineInv, IInv', ReconcileAccepted, ReconcileRestart, UNCHANGED moved
    PROVE  HistoryInv' /\ SafeHomeAdmits'
<1> USE DEF SafeInv
<1>t. TypeOK /\ HistoryInv
    BY DEF IInv, TypeInv, LineInv
<1>a. \A r \in adm' : \E q \in adm : q.ex = r.ex /\ q.act = r.act
    <2>1. \A q \in adm : LET i == [q EXCEPT !.st = "INVALIDATED"] IN i.ex = q.ex /\ i.act = q.act
        BY <1>t DEF TypeOK, AdmissionRows
    <2> QED
        BY <2>1 DEF ReconcileRestart, ReconciledAdmissions
<1>1. CASE \E e \in Executions : InFlight(e)
    <2>1. PICK e \in Executions : InFlight(e)
        BY <1>1
    <2>2. /\ exec[e].job \in Jobs /\ \A f \in Executions : InFlight(f) => f = e
          /\ exec[e].mile \in Milestones /\ jobs[exec[e].job] = ExpectedJobState(e)
          /\ RecoveryWriteAccepted(e, exec[e].mile)
        BY <1>t, <2>1, OwnerFacts, RowInHand DEF ReconcileAccepted
    <2>3. PICK row : row = Recovered(e, exec[e].mile)
        OBVIOUS
    <2>4. Write(e, row)
        <3>1. exec' = [f \in Executions |-> IF InFlight(f) THEN Recovered(f, exec[f].mile) ELSE exec[f]]
            BY DEF ReconcileRestart, ReconciledExecutions
        <3>2. [exec EXCEPT ![e] = row] = [f \in Executions |-> IF f = e THEN row ELSE exec[f]]
            BY <1>t DEF TypeOK
        <3> QED
            BY <2>1, <2>2, <2>3, <3>1, <3>2 DEF Write
    <2>5. /\ row.phase = "RECOVERY_REQUIRED" /\ row.mile = exec[e].mile /\ row.job = exec[e].job
          /\ row.pred = exec[e].pred /\ row.intent = RecoveryIntentForMilestone(exec[e].mile)
        BY <1>t, <2>2, <2>3, RecoveredRow
    <2>6. jobs' = [jobs EXCEPT ![row.job] = "RECOVERY_REQUIRED"]
        <3>1. jobs' = [j \in Jobs |-> IF ~IsSuccessor(e) /\ exec[e].job = j
                                      THEN "RECOVERY_REQUIRED" ELSE jobs[j]]
            BY <2>1, <2>2 DEF ReconcileRestart, ReconciledJobs
        <3>2. IsSuccessor(e) => jobs[exec[e].job] = "RECOVERY_REQUIRED"
            BY <2>2 DEF ExpectedJobState
        <3>3. jobs \in [Jobs -> JobStates]
            BY <1>t DEF TypeOK
        <3> QED
            BY <2>2, <2>5, <3>1, <3>2, <3>3
    <2>7. IsSuccessor(e) => row.intent = exec[e].intent
        BY <2>2, <2>5 DEF RecoveryWriteAccepted
    <2>8. PostStreamHome(e) => row.mile = "STREAM_CONFIRMED" /\ row.phase \in SafeHomePhases
        BY <1>t, <2>5 DEF HistoryInv, Lineage, PostStreamHome, SafeHomePhases
    <2>9. row.mile = "STREAM_CONFIRMED" => Drawn(row.job)
        BY <1>t, <2>5 DEF HistoryInv, ConfirmedDrawn
    <2>10. HistoryInv'
        BY <1>t, <2>1, <2>4, <2>5, <2>6, <2>7, <2>8, <2>9, OwnerHistory
    <2>11. \A f \in Executions : PostStreamHome(f)' => PostStreamHome(f)
        <3>1. exec'[e] = row /\ \A f \in Executions \ {e} : PostStreamHome(f)' <=> PostStreamHome(f)
            BY <1>t, <2>4, OneRow
        <3> QED
            BY <2>5, <2>7, <3>1 DEF PostStreamHome, IsSuccessor
    <2> QED
        BY <1>a, <2>10, <2>11, SafeHomeKept DEF LineInv
<1>2. CASE \A e \in Executions : ~InFlight(e)
    <2>1. exec' = exec
        <3>1. exec' = [e \in Executions |-> exec[e]]
            BY <1>2 DEF ReconcileRestart, ReconciledExecutions
        <3> QED
            BY <1>t, <3>1 DEF TypeOK
    <2>2. \A j \in Jobs : jobs'[j] = jobs[j]
        BY <1>2 DEF ReconcileRestart, ReconciledJobs
    <2>3. HistoryInv'
        BY <1>t, <2>1, <2>2, SameRows, HistoryKept DEF Streamed
    <2> QED
        BY <1>a, <2>1, <2>3, SameRows, SafeHomeKept DEF LineInv
<1> QED
    BY <1>1, <1>2

\* Rows, jobs, admissions and moves all stay.
LEMMA HistorySame ==
    ASSUME SafeInv, LineInv, IInv', UNCHANGED <<jobs, exec, adm, moved>>
    PROVE  HistoryInv' /\ SafeHomeAdmits'
<1>1. HistoryInv'
    BY SameRows, HistoryKept DEF SafeInv, LineInv, Streamed
<1>2. SafeHomeAdmits'
    BY SameRows, SafeHomeKept DEF SafeInv, LineInv
<1> QED
    BY <1>1, <1>2

LEMMA LifecycleLine ==
    ASSUME SafeInv, LineInv, IInv', StartUp \/ Stop \/ ShutDown \/ ProcessExit \/ Crash
    PROVE  LineInv'
<1>t. TypeOK
    BY DEF SafeInv, IInv, TypeInv
<1>p. \A at \in {"idle", "halting", "closing", "halted", "down"} : at \notin Driving \cup {"admitted"}
    BY DEF Driving
<1>1. CASE Start
    BY <1>1, <1>p, TaskEnds, ReconcileHistory, NothingDrawn DEF Start, LineInv
<1>2. CASE ShutdownReconcile
    BY <1>2, <1>p, <1>t, TaskFields, ReconcileHistory, NothingDrawn DEF ShutdownReconcile, LineInv
<1>3. CASE StartRefused \/ StartFault \/ Stop \/ ShutdownUnreconciled \/ ShutdownClose
    <2>1. UNCHANGED <<jobs, exec, adm, moved>> /\ \E at \in {"halting", "closing", "halted"} : To(at)
        BY <1>3 DEF StartRefused, StartFault, Stop, ShutdownUnreconciled, ShutdownClose, durable
    <2>2. pc'.at \in {"halting", "closing", "halted"}
        BY <1>t, <2>1, TaskFields
    <2> QED
        BY <1>p, <2>1, <2>2, HistorySame, NothingDrawn DEF LineInv
<1>4. CASE EndProcess
    <2>1. pc'.at = "down" /\ UNCHANGED <<jobs, adm, moved>>
        BY <1>4, TaskEnds DEF EndProcess
    <2>2. \A e \in Executions :
              /\ exec'[e].phase = exec[e].phase /\ exec'[e].mile = exec[e].mile
              /\ exec'[e].intent = exec[e].intent /\ exec'[e].job = exec[e].job
              /\ exec'[e].pred = exec[e].pred /\ exec'[e].retired = exec[e].retired
        BY <1>4, RowInHand, RowStale DEF EndProcess, SafeInv
    <2>3. \A e \in Executions : (InFlight(e)' <=> InFlight(e)) /\ (PostStreamHome(e)' <=> PostStreamHome(e))
        BY <2>2 DEF InFlight, Active, Present, PostStreamHome, IsSuccessor
    <2>4. HistoryInv'
        BY <2>1, <2>2, <2>3, HistoryKept DEF SafeInv, LineInv, Streamed
    <2>5. SafeHomeAdmits'
        BY <2>1, <2>3, SafeHomeKept DEF SafeInv, LineInv
    <2> QED
        BY <1>p, <2>1, <2>4, <2>5, NothingDrawn DEF LineInv
<1> QED
    BY <1>1, <1>2, <1>3, <1>4 DEF StartUp, ShutDown, ProcessExit, Crash

\* A new admission of e and a, allowed by e's lineage.
LEMMA AdmitLine ==
    ASSUME SafeInv, LineInv, HistoryInv', NEW e \in Executions, NEW a, NEW n, Admit(e, a, n),
           PostStreamHome(e)' => a \in SessionActions \cup {"HOME"},
           \A f \in Executions : Present(f) /\ PostStreamHome(f)' => PostStreamHome(f)
    PROVE  LineInv'
<1>1. PICK q : q = [ex |-> e, rev |-> n, act |-> a, st |-> "RESERVED"]
    OBVIOUS
<1>2. /\ q.ex = e /\ q.act = a /\ adm' = adm \cup {q} /\ pc'.at = "admitted"
      /\ ~pc'.confirmed
    BY <1>1, AdmitFields DEF Admit, NoTask
<1>3. \A r \in adm : r.ex \in Executions /\ Present(r.ex)
    BY DEF SafeInv, IInv, TypeInv, TypeOK, AdmissionRows, AdmInv, AdmissionsExact
<1>4. SafeHomeAdmits'
    BY <1>2, <1>3 DEF LineInv, SafeHomeAdmits
<1>5. TaskDrawn'
    BY <1>2 DEF TaskDrawn, Driving
<1> QED
    BY <1>4, <1>5 DEF LineInv

LEMMA CommandLine ==
    ASSUME SafeInv, LineInv, IInv', Command
    PROVE  LineInv'
<1> USE DEF SafeInv
<1>t. TypeOK /\ TypeInv /\ RowInv /\ HistoryInv /\ IInv
    BY DEF IInv, TypeInv, LineInv
<1>p. \A at \in {"idle", "halting", "checked"} : at \notin Driving \cup {"admitted"}
    BY DEF Driving
<1>1. CASE (\E j \in Jobs : CheckPrepare(j)) \/ AbandonPrepare \/ AdmissionFault
    <2>1. UNCHANGED <<jobs, exec, adm, moved>>
        BY <1>1 DEF CheckPrepare, AbandonPrepare, AdmissionFault, durable
    <2>2. pc'.at \in {"idle", "checked", "halting"}
        BY <1>1, TaskEnds DEF CheckPrepare, AbandonPrepare, AdmissionFault, NoTask
    <2> QED
        BY <1>p, <2>1, <2>2, HistorySame, NothingDrawn DEF LineInv
<1>2. CASE CommitPrepare
    <2>1. PICK n \in Executions : n = NewExecution /\ ~Present(n)
        BY <1>2, NewExecutionFresh DEF CommitPrepare
    <2>2. PICK j \in Jobs : j = pc.job
        BY <1>2, <1>t DEF CommitPrepare, TypeInv, TaskBound
    <2>3. PICK row : row = Initial(j)
        OBVIOUS
    <2>4. /\ Write(n, row) /\ Admit(n, "PREPARE_SESSION", 0) /\ jobs[j] = "READY_TO_RUN"
          /\ UNCHANGED <<jobs, moved>> /\ \A f \in Executions : ~Active(f)
        BY <1>2, <2>1, <2>2, <2>3 DEF CommitPrepare, Initial, NoOwner
    <2>5. /\ row.phase = "PREPARING_SESSION" /\ row.mile = "NOT_STARTED" /\ row.job = j
          /\ row.pred = None
        BY <2>3, InitialRow
    <2>6. /\ exec'[n] = row
          /\ \A f \in Executions \ {n} :
                exec'[f] = exec[f] /\ (Active(f)' <=> Active(f)) /\ (PostStreamHome(f)' <=> PostStreamHome(f))
        BY <1>t, <2>4, OneRow
    <2>7. ~IsSuccessor(n)' /\ ExpectedJobState(n)' = "READY_TO_RUN" /\ ~PostStreamHome(n)'
        BY <2>5, <2>6 DEF IsSuccessor, ExpectedJobState, PostStreamHome
    <2>8. \A f \in Executions \ {n} : ~InFlight(f)'
        BY <2>4, <2>6 DEF InFlight
    <2>9. HistoryInv'
        BY <1>t, <2>1, <2>4, <2>5, <2>6, <2>7, <2>8, InsertedHistory
    <2> QED
        BY <2>4, <2>6, <2>7, <2>9, AdmitLine
<1>3. ASSUME NEW e \in Executions, NEW a \in MotionActions, RequestMotion(e, a) PROVE LineInv'
    <2>1. UNCHANGED <<jobs, exec, adm, moved, pc>> /\ pc.at = "idle"
        BY <1>3 DEF RequestMotion, Idle
    <2> QED
        BY <1>p, <2>1, HistorySame, NothingDrawn DEF LineInv
<1>4. ASSUME NEW e \in Executions, NEW d \in Dispositions, RequestRecovery(e, d) PROVE LineInv'
    <2>1. UNCHANGED <<jobs, exec, adm, moved, pc>> /\ pc.at = "idle"
        BY <1>4 DEF RequestRecovery, Idle
    <2> QED
        BY <1>p, <2>1, HistorySame, NothingDrawn DEF LineInv
<1>5. ASSUME NEW e \in Executions, NEW a \in MotionActions, ExecuteMotion(e, a) PROVE LineInv'
    <2>1. PICK row : row = Revised(e, AdmittedPhase(a), exec[e].mile)
        OBVIOUS
    <2>2. /\ UNCHANGED <<jobs, moved>> /\ Active(e) /\ exec[e].phase = PriorPhase(a)
          /\ Write(e, row) /\ Admit(e, a, exec[e].rev + 1)
        BY <1>5, <2>1 DEF ExecuteMotion, MotionOwner
    <2>3. /\ row.phase = AdmittedPhase(a) /\ row.mile = exec[e].mile
          /\ row.retired = exec[e].retired /\ row.job = exec[e].job
          /\ row.pred = exec[e].pred /\ row.intent = exec[e].intent
        BY <1>t, <2>1, RowTypes, RowInHand, RevisedRow
    <2>4. /\ PriorPhase(a) \in AwaitingPhases /\ AdmittedPhase(a) \in InProgressPhases
          /\ PriorPhase(a) \in SafeHomePhases => a = "HOME"
          /\ AdmittedPhase(a) = "HOMING_Z" => PriorPhase(a) = "AWAITING_HOME_Z_APPROVAL"
          /\ AdmittedPhase("HOME") = "HOMING"
        BY DEF PriorPhase, AdmittedPhase, MotionActions, SessionActions, AwaitingPhases,
               InProgressPhases, SafeHomePhases
    <2>5. InFlight(e)
        BY <2>2, <2>4 DEF InFlight, AwaitingPhases
    <2>6. /\ exec'[e] = row
          /\ \A f \in Executions \ {e} : PostStreamHome(f)' <=> PostStreamHome(f)
        BY <1>t, <2>2, OneRow
    <2>7. InFlight(e)'
        BY <2>2, <2>3, <2>4, <2>6 DEF InFlight, Active, Present, InProgressPhases
    <2>8. PostStreamHome(e)' <=> PostStreamHome(e)
        BY <2>3, <2>6 DEF PostStreamHome, IsSuccessor
    <2>9. PostStreamHome(e) => /\ a = "HOME" /\ row.mile = "STREAM_CONFIRMED"
                               /\ row.phase \in SafeHomePhases
        BY <1>t, <2>2, <2>3, <2>4 DEF HistoryInv, Lineage, PostStreamHome, SafeHomePhases
    <2>10. row.phase \in {"AWAITING_HOME_Z_APPROVAL", "HOMING_Z"} => row.mile = "STREAM_CONFIRMED"
        BY <1>t, <2>2, <2>3, <2>4 DEF HistoryInv, HomeZConfirmed, InProgressPhases
    <2>11. row.mile = "STREAM_CONFIRMED" => Drawn(row.job)
        BY <1>t, <2>3 DEF HistoryInv, ConfirmedDrawn
    <2>12. row.phase # "ABSENT"
        BY <2>3, <2>4 DEF InProgressPhases
    <2>13. HistoryInv'
        BY <1>t, <2>2, <2>3, <2>5, <2>7, <2>9, <2>10, <2>11, <2>12, OwnerHistory
    <2> QED
        BY <2>2, <2>6, <2>8, <2>9, <2>13, AdmitLine
<1>6. ASSUME NEW e \in Executions, ReleaseRecovery(e) PROVE LineInv'
    <2>1. /\ UNCHANGED <<jobs, adm, moved, pc>> /\ pc.at = "idle"
          /\ Write(e, Retired(e, "RELEASED"))
        BY <1>6 DEF ReleaseRecovery, Idle
    <2>2. /\ exec'[e] = Retired(e, "RELEASED")
          /\ \A f \in Executions \ {e} :
                exec'[f] = exec[f] /\ (InFlight(f)' <=> InFlight(f)) /\ (PostStreamHome(f)' <=> PostStreamHome(f))
        BY <1>t, <2>1, OneRow
    <2>3. /\ exec'[e].phase = exec[e].phase /\ exec'[e].mile = exec[e].mile
          /\ exec'[e].retired = "RELEASED" /\ exec'[e].job = exec[e].job
          /\ exec'[e].pred = exec[e].pred /\ exec'[e].intent = exec[e].intent
        BY <1>t, <2>2, RetiredRow
    <2>4. ~InFlight(e)' /\ (PostStreamHome(e)' <=> PostStreamHome(e))
        BY <2>3 DEF InFlight, Active, PostStreamHome, IsSuccessor
    <2>5. HistoryInv'
        BY <1>t, <2>1, <2>2, <2>3, <2>4, HistoryKept DEF Streamed
    <2>6. SafeHomeAdmits'
        BY <2>1, <2>2, <2>4, SafeHomeKept DEF LineInv
    <2> QED
        BY <1>p, <2>1, <2>5, <2>6, NothingDrawn DEF LineInv
<1>7. ASSUME NEW e \in Executions, NEW d \in Dispositions, TransferRecovery(e, d) PROVE LineInv'
    <2>1. PICK n \in Executions : n = NewExecution /\ ~Present(n)
        BY <1>7, NewExecutionFresh DEF TransferRecovery
    <2>2. /\ UNCHANGED <<jobs, moved>> /\ Active(e) /\ Present(e) /\ n # e
          /\ exec' = [exec EXCEPT ![e] = Retired(e, "TRANSFERRED"), ![n] = Successor(e)]
          /\ Admit(n, "RECOVER", 0) /\ jobs[exec[e].job] = "RECOVERY_REQUIRED"
          /\ exec[e].phase = "RECOVERY_REQUIRED"
          /\ d # "RELEASE" /\ AllowedRecoveryDisposition(exec[e].intent, d)
        BY <1>7, <2>1 DEF TransferRecovery, RecoveryOwner, Active
    <2>3. /\ exec'[n] = Successor(e) /\ exec'[e] = Retired(e, "TRANSFERRED")
          /\ \A f \in Executions \ {n, e} : exec'[f] = exec[f]
        BY <1>t, <2>1, <2>2 DEF TypeOK
    <2>4. /\ exec'[e].phase = exec[e].phase /\ exec'[e].mile = exec[e].mile
          /\ exec'[e].retired = "TRANSFERRED" /\ exec'[e].job = exec[e].job
          /\ exec'[e].pred = exec[e].pred /\ exec'[e].intent = exec[e].intent
        BY <1>t, <2>3, RetiredRow
    <2>5. PICK row : row = Successor(e)
        OBVIOUS
    <2>6. /\ row.phase = "PREPARING_SESSION" /\ row.mile = exec[e].mile /\ row.job = exec[e].job
          /\ row.pred = e /\ row.intent = exec[e].intent
        BY <1>t, <2>5, SuccessorRow
    <2>7. /\ exec[e].mile \in Milestones /\ exec[e].job \in Jobs
          /\ exec[e].intent = RecoveryIntentForMilestone(exec[e].mile)
          /\ exec[e].intent \in {"PRE_STREAM_RESTART", "POST_STREAM_SAFE_HOME"}
        BY <1>t, <2>2, RowInHand DEF HistoryInv, IntentFrozen, AllowedRecoveryDisposition,
                                     RowInv, RowsBound
    <2>8. row.intent = "POST_STREAM_SAFE_HOME" => row.mile = "STREAM_CONFIRMED"
        BY <2>6, <2>7, IntentFacts
    <2>9. row.mile = "STREAM_CONFIRMED" => Drawn(row.job)
        BY <1>t, <2>6 DEF HistoryInv, ConfirmedDrawn
    <2>10. IsSuccessor(n)' /\ ExpectedJobState(n)' = "RECOVERY_REQUIRED"
        BY <2>3, <2>5, <2>6, NoneAssumption DEF IsSuccessor, ExpectedJobState
    <2>11. \A f \in Executions \ {n} : ~InFlight(f)'
        BY <1>t, <2>2, <2>3, <2>4, ZenonT(40) DEF InFlight, Active, Present, RowInv, OneOwner
    <2>12. \A f \in Executions \ {n} :
               /\ exec'[f].phase = exec[f].phase /\ exec'[f].mile = exec[f].mile
               /\ exec'[f].intent = exec[f].intent /\ exec'[f].job = exec[f].job
               /\ exec'[f].pred = exec[f].pred
        BY <2>3, <2>4
    <2>13. HistoryInv'
        <3>1. exec'[n] = row /\ row.job \in Jobs /\ jobs[row.job] = ExpectedJobState(n)'
            BY <2>2, <2>3, <2>5, <2>6, <2>7, <2>10
        <3>2. /\ row.pred \in Executions \ {n} /\ exec[row.pred].phase = "RECOVERY_REQUIRED"
              /\ exec[row.pred].job = row.job /\ exec[row.pred].intent = row.intent
              /\ row.intent \in {"PRE_STREAM_RESTART", "POST_STREAM_SAFE_HOME"}
            BY <2>2, <2>6, <2>7
        <3>3. UNCHANGED <<jobs, moved>> /\ row.phase = "PREPARING_SESSION"
            BY <2>2, <2>6
        <3> QED
            BY <1>t, <2>1, <2>8, <2>9, <2>11, <2>12, <3>1, <3>2, <3>3, InsertedHistory
    <2>14. \A f \in Executions \ {n} : PostStreamHome(f)' => PostStreamHome(f)
        BY <2>12 DEF PostStreamHome, IsSuccessor
    <2>15. "RECOVER" \in SessionActions
        BY DEF SessionActions
    <2> QED
        BY <2>1, <2>2, <2>13, <2>14, <2>15, AdmitLine
<1>8. ASSUME NEW r \in adm, Replay(r) PROVE LineInv'
    <2>1. UNCHANGED <<jobs, exec, adm, moved>>
        BY <1>8 DEF Replay, durable
    <2>2. pc'.at = "admitted" /\ ~pc'.confirmed
        BY <1>8 DEF Replay, NoTask
    <2>3. TaskDrawn'
        BY <2>2 DEF TaskDrawn, Driving
    <2> QED
        BY <2>1, <2>3, HistorySame DEF LineInv
<1> QED
    BY <1>1, <1>2, <1>3, <1>4, <1>5, <1>6, <1>7, <1>8 DEF Command

LEMMA DriveLine ==
    ASSUME SafeInv, LineInv, IInv', Drive
    PROVE  LineInv'
<1> USE DEF SafeInv
<1>t. TypeOK /\ TypeInv /\ RowInv /\ HistoryInv /\ IInv
    BY DEF IInv, TypeInv, LineInv
<1>e. pc.at \in Driving => pc.ex \in Executions
    BY InHand
<1>p. \A at \in {"idle", "halting"} : at \notin Driving \cup {"admitted"}
    BY DEF Driving
<1>c. pc.at \in Driving \ {"cleanup"} => exec[pc.ex].phase = AdmittedPhase(pc.act)
    BY DEF AdmInv, TaskClaimed
<1>f. pc.at \in Driving \ {"cleanup"} => InFlight(pc.ex) /\ exec[pc.ex].retired = "NO"
    BY InHand
<1>k. pc.at \in Driving => exec[pc.ex].mile \in Milestones
    BY <1>e, RowInHand
\* The task goes on, or ends, and history stays.
<1>s. ASSUME UNCHANGED <<jobs, exec, adm, moved>>, TaskDrawn' PROVE LineInv'
    BY <1>s, HistorySame DEF LineInv
\* The owner's row is written at the end of its action and its intent stays.
<1>w. ASSUME NEW row, NEW e \in Executions, InFlight(e), Write(e, row), UNCHANGED <<adm, moved>>, HistoryInv',
             row.pred = exec[e].pred, IsSuccessor(e) => row.intent = exec[e].intent, TaskDrawn'
      PROVE  LineInv'
    <2>1. exec'[e] = row /\ \A f \in Executions \ {e} : PostStreamHome(f)' <=> PostStreamHome(f)
        BY <1>t, <1>w, OneRow
    <2>2. PostStreamHome(e)' <=> PostStreamHome(e)
        BY <1>w, <2>1 DEF PostStreamHome, IsSuccessor
    <2>3. SafeHomeAdmits'
        BY <1>w, <2>1, <2>2, SafeHomeKept DEF LineInv
    <2> QED
        BY <1>w, <2>3 DEF LineInv
\* The outcome of an action that is not the last one.
<1>r. ASSUME NEW q \in AwaitingPhases \cup {"STREAMING"}, NEW m \in Milestones,
             pc.at \in Driving \ {"cleanup"},
             Write(pc.ex, Revised(pc.ex, q, m)), UNCHANGED <<jobs, adm, moved>>, TaskDrawn',
             PostStreamHome(pc.ex) => m = "STREAM_CONFIRMED" /\ q = "AWAITING_HOME_APPROVAL",
             q = "AWAITING_HOME_Z_APPROVAL" => m = "STREAM_CONFIRMED",
             m = "STREAM_CONFIRMED" => Drawn(exec[pc.ex].job)
      PROVE  LineInv'
    <2>1. PICK e \in Executions : e = pc.ex /\ InFlight(e) /\ exec[e].retired = "NO"
        BY <1>e, <1>f, <1>r
    <2>2. PICK row : row = Revised(e, q, m)
        OBVIOUS
    <2>3. /\ row.phase = q /\ row.mile = m /\ row.retired = "NO" /\ row.job = exec[e].job
          /\ row.pred = exec[e].pred /\ row.intent = exec[e].intent
        BY <1>t, <1>r, <2>1, <2>2, RevisedRow DEF Phases, InProgressPhases
    <2>4. Write(e, row) /\ exec'[e] = row
        BY <1>t, <1>r, <2>1, <2>2, OneRow
    <2>5. InFlight(e)' /\ row.phase # "ABSENT" /\ row.phase # "HOMING_Z"
        BY <1>r, <2>3, <2>4 DEF InFlight, Active, Present, AwaitingPhases
    <2>6. /\ PostStreamHome(e) => row.mile = "STREAM_CONFIRMED" /\ row.phase \in SafeHomePhases
          /\ row.phase \in {"AWAITING_HOME_Z_APPROVAL", "HOMING_Z"} => row.mile = "STREAM_CONFIRMED"
          /\ row.mile = "STREAM_CONFIRMED" => Drawn(row.job)
        BY <1>r, <2>1, <2>3, <2>5 DEF SafeHomePhases
    <2>7. HistoryInv'
        BY <1>r, <1>t, <2>1, <2>3, <2>4, <2>5, <2>6, OwnerHistory
    <2> QED
        BY <1>r, <1>w, <2>1, <2>3, <2>4, <2>7
\* Only HOME is ever driven for a SAFE_HOME successor.
<1>h. pc.at \in Driving \ {"cleanup"} /\ pc.act \in MotionActions /\ PostStreamHome(pc.ex) => pc.act = "HOME"
    BY <1>c, <1>e, <1>t DEF HistoryInv, Lineage, PostStreamHome, SafeHomePhases, AdmittedPhase,
       MotionActions, SessionActions
<1>d. pc.at \in Driving /\ exec[pc.ex].mile = "STREAM_CONFIRMED" => Drawn(exec[pc.ex].job)
    BY <1>e, <1>t DEF HistoryInv, ConfirmedDrawn
<1>1. CASE ClaimRequest
    <2>1. UNCHANGED <<jobs, exec, moved>> /\ pc.at = "admitted" /\ adm' = ClaimedAdmissions
          /\ Admission("RESERVED") \in adm
        BY <1>1 DEF ClaimRequest, ClaimAccepted
    <2>2. pc'.at = "claimed" /\ pc'.confirmed = pc.confirmed
        BY <1>1, <1>t, TaskFields DEF ClaimRequest
    <2>3. TaskDrawn'
        BY <2>1, <2>2 DEF LineInv, TaskDrawn
    <2>4. \A r \in adm' : \E q \in adm : q.ex = r.ex /\ q.act = r.act
        <3>1. /\ Admission("CLAIMED").ex = Admission("RESERVED").ex
              /\ Admission("CLAIMED").act = Admission("RESERVED").act
            BY DEF Admission
        <3> QED
            BY <2>1, <3>1 DEF ClaimedAdmissions
    <2>5. HistoryInv'
        BY <1>t, <2>1, SameRows, HistoryKept DEF Streamed
    <2>6. SafeHomeAdmits'
        BY <2>1, <2>4, SameRows, SafeHomeKept DEF LineInv
    <2> QED
        BY <2>3, <2>5, <2>6 DEF LineInv
<1>2. CASE ClaimFailed \/ FirstWriteFault \/ RecoveryReadFault \/ CloseRecordFault \/ CloseFailedSession
    <2>1. UNCHANGED <<jobs, exec, adm, moved>>
        BY <1>2 DEF ClaimFailed, FirstWriteFault, RecoveryReadFault, CloseRecordFault,
                    CloseFailedSession, durable
    <2>2. pc'.at \in {"halting", "idle"}
        BY <1>2, <1>t, TaskEnds, TaskFields DEF ClaimFailed, FirstWriteFault, RecoveryReadFault,
                                                CloseRecordFault, CloseFailedSession
    <2> QED
        BY <1>p, <1>s, <2>1, <2>2, NothingDrawn
<1>3. CASE \/ OpenSession \/ OpenRefused \/ PreflightFailed
           \/ (CommitFirstWrite /\ To("failing") /\ UNCHANGED exec)
    <2>1. /\ UNCHANGED <<jobs, exec, adm, moved>> /\ pc.at \in Driving
          /\ To("opened") \/ To("failing")
        BY <1>3 DEF OpenSession, OpenRefused, PreflightFailed, CommitFirstWrite, durable, Driving
    <2>2. pc'.at \in {"opened", "failing"} /\ pc'.ex = pc.ex /\ pc'.confirmed = pc.confirmed
        BY <1>t, <2>1, TaskFields
    <2>3. TaskDrawn'
        BY <2>1, <2>2 DEF LineInv, TaskDrawn, Streamed
    <2> QED
        BY <1>s, <2>1, <2>3
<1>4. CASE CommitPreflight
    <2>1. /\ pc.at \in Driving \ {"cleanup"} /\ UNCHANGED <<jobs, adm, moved>>
          /\ Write(pc.ex, Revised(pc.ex, "AWAITING_HOME_APPROVAL", exec[pc.ex].mile))
        BY <1>4 DEF CommitPreflight, Driving
    <2>2. TaskDrawn'
        BY <1>4, <1>p, TaskEnds, NothingDrawn DEF CommitPreflight
    <2>3. PostStreamHome(pc.ex) => exec[pc.ex].mile = "STREAM_CONFIRMED"
        BY <1>e, <1>t, <2>1 DEF HistoryInv, Lineage, PostStreamHome
    <2>4. "AWAITING_HOME_APPROVAL" \in AwaitingPhases
        BY DEF AwaitingPhases
    <2> QED
        BY <1>d, <1>k, <1>r, <2>1, <2>2, <2>3, <2>4
<1>5. CASE DriveMotion
    <2>1. /\ pc.at = "claimed" /\ pc.act # "STREAM" /\ UNCHANGED <<jobs, exec, adm>>
          /\ \E at \in {"succeeded", "failing", "rejected"} : To(at)
        BY <1>5 DEF DriveMotion, durable
    <2>2. \A f \in Executions : Streamed(f)' = Streamed(f)
        BY <1>5, <1>e, <1>t, <2>1 DEF DriveMotion, Streamed, TypeOK, MotionActions, Driving
    <2>3. /\ pc'.at \in {"succeeded", "failing", "rejected"} /\ pc'.ex = pc.ex
          /\ pc'.act = pc.act /\ pc'.confirmed = pc.confirmed
        BY <1>t, <2>1, TaskFields
    <2>4. TaskDrawn'
        BY <1>e, <2>1, <2>2, <2>3 DEF LineInv, TaskDrawn, Driving
    <2>5. HistoryInv'
        BY <1>t, <2>1, <2>2, SameRows, HistoryKept
    <2>6. SafeHomeAdmits'
        BY <2>1, SameRows, SafeHomeKept DEF LineInv
    <2> QED
        BY <2>4, <2>5, <2>6 DEF LineInv
<1>6. CASE CommitFirstWrite /\ Write(pc.ex, WriteBoundary)
           /\ pc' = [pc EXCEPT !.at = "writing", !.rev = @ + 1]
    <2>1. /\ pc.at = "claimed" /\ pc.at \in Driving \ {"cleanup"} /\ pc.act = "STREAM"
          /\ UNCHANGED <<jobs, adm, moved>>
          /\ Write(pc.ex, Revised(pc.ex, "STREAMING", "FIRST_WRITE_POSSIBLE"))
        BY <1>6 DEF CommitFirstWrite, WriteBoundary, Driving
    <2>2. pc'.at = "writing" /\ pc'.ex = pc.ex /\ pc'.confirmed = pc.confirmed
        BY <1>6, <1>t DEF TypeOK, Tasks
    <2>3. TaskDrawn'
        BY <2>1, <2>2 DEF LineInv, TaskDrawn, Streamed
    <2>4. ~PostStreamHome(pc.ex) /\ "FIRST_WRITE_POSSIBLE" \in Milestones
        BY <1>h, <2>1 DEF Milestones, MotionActions
    <2> QED
        BY <1>r, <2>1, <2>3, <2>4
<1>7. CASE DriveStream
    <2>1. PICK e \in Executions : e = pc.ex
        BY <1>7, <1>e DEF DriveStream, Driving
    <2>2. /\ pc.at = "writing" /\ UNCHANGED <<jobs, exec, adm>>
          /\ moved' = [moved EXCEPT ![e]["STREAM"] = @ + 1]
        BY <1>7, <2>1 DEF DriveStream, durable
    <2>3. Streamed(e) = 0
        BY <2>1, <2>2 DEF IInv, TaskInv, WritingIsFirst
    <2>4. Streamed(e)' = 1 /\ \A f \in Executions : f # e => Streamed(f)' = Streamed(f)
        BY <1>t, <2>2, <2>3 DEF Streamed, TypeOK, MotionActions
    <2>5. pc'.at \in {"succeeded", "failing"} /\ pc'.ex = e
        BY <1>7, <1>t, <2>1 DEF DriveStream, To, TypeOK, Tasks
    <2>6. TaskDrawn'
        BY <2>4, <2>5 DEF TaskDrawn, Streamed
    <2>7. HistoryInv'
        BY <1>t, <2>2, <2>3, <2>4, SameRows, HistoryKept
    <2>8. SafeHomeAdmits'
        BY <2>2, SameRows, SafeHomeKept DEF LineInv
    <2> QED
        BY <2>6, <2>7, <2>8 DEF LineInv
<1>8. CASE CommitMotionSuccess
    <2>1. /\ pc.at = "succeeded" /\ pc.at \in Driving \ {"cleanup"} /\ UNCHANGED <<jobs, adm, moved>>
          /\ Write(pc.ex, Revised(pc.ex, NextPhase(pc.act), exec[pc.ex].mile)) /\ ~Completes
        BY <1>8 DEF CommitMotionSuccess, Driving
    <2>2. TaskDrawn'
        BY <1>8, <1>p, TaskEnds, NothingDrawn DEF CommitMotionSuccess
    <2>3. pc.act \in MotionActions
        BY <2>1 DEF AdmInv, TaskClaimed
    <2>4. ~PostStreamHome(pc.ex)
        BY <1>h, <2>1, <2>3 DEF Completes
    <2>5. NextPhase(pc.act) \in AwaitingPhases /\ NextPhase(pc.act) # "AWAITING_HOME_Z_APPROVAL"
        BY DEF NextPhase, AwaitingPhases
    <2> QED
        BY <1>d, <1>k, <1>r, <2>1, <2>2, <2>4, <2>5
<1>9. CASE CommitStreamConfirmed
    <2>1. /\ pc.at = "succeeded" /\ pc.at \in Driving \ {"cleanup"} /\ UNCHANGED <<jobs, adm, moved>>
          /\ Write(pc.ex, Revised(pc.ex, "AWAITING_HOME_Z_APPROVAL", "STREAM_CONFIRMED"))
          /\ pc.act = "STREAM"
        BY <1>9 DEF CommitStreamConfirmed, Driving
    <2>2. TaskDrawn'
        BY <1>9, <1>p, TaskEnds, NothingDrawn DEF CommitStreamConfirmed
    <2>3. ~PostStreamHome(pc.ex)
        BY <1>h, <2>1 DEF MotionActions
    <2>4. Drawn(exec[pc.ex].job)
        BY <1>e, <2>1 DEF LineInv, TaskDrawn, Drawn
    <2>5. "AWAITING_HOME_Z_APPROVAL" \in AwaitingPhases /\ "STREAM_CONFIRMED" \in Milestones
        BY DEF AwaitingPhases, Milestones
    <2> QED
        BY <1>r, <2>1, <2>2, <2>3, <2>4, <2>5
<1>10. CASE SuccessCommitFault \/ CloseBeforeCompletion
    <2>1. UNCHANGED <<jobs, exec, adm, moved>> /\ pc.at \in {"succeeded", "closed"}
        BY <1>10 DEF SuccessCommitFault, CloseBeforeCompletion, durable
    <2>2. pc.act = "STREAM" => Streamed(pc.ex) = 1
        BY <2>1 DEF LineInv, TaskDrawn
    <2>3. CASE FailConfirmed
        <3>1. pc'.at = "failing" /\ pc'.ex = pc.ex /\ (pc'.confirmed => pc.act = "STREAM")
            BY <1>t, <2>3 DEF FailConfirmed, TypeOK, Tasks
        <3>2. TaskDrawn'
            BY <2>1, <2>2, <3>1 DEF TaskDrawn, Streamed
        <3> QED
            BY <1>s, <2>1, <3>2
    <2>4. CASE Completes /\ pc.at = "succeeded" /\ pc' = [pc EXCEPT !.at = "closed", !.close = "done"]
        <3>1. /\ pc'.at = "closed" /\ pc'.ex = pc.ex /\ pc'.act = pc.act
              /\ pc'.confirmed = pc.confirmed
            BY <1>t, <2>4 DEF TypeOK, Tasks
        <3>2. PostStreamHome(pc.ex) => PostStreamHome(pc.ex)'
            BY <2>1, <3>1 DEF PostStreamHome, IsSuccessor
        <3>3. pc.at \in Driving
            BY <2>1 DEF Driving
        <3>4. TaskDrawn'
            BY <2>1, <2>2, <2>4, <3>1, <3>2, <3>3 DEF LineInv, TaskDrawn, Completes, Streamed
        <3> QED
            BY <1>s, <2>1, <3>4
    <2> QED
        BY <1>10, <2>3, <2>4 DEF SuccessCommitFault, CloseBeforeCompletion
<1>11. CASE CommitCompleted
    <2>1. PICK e \in Executions : e = pc.ex /\ InFlight(e)
        BY <1>11, <1>e, <1>f DEF CommitCompleted, Driving
    <2>2. PICK row : row = Completed(e)
        OBVIOUS
    <2>3. /\ row.phase = "COMPLETED" /\ row.mile = "STREAM_CONFIRMED" /\ row.job = exec[e].job
          /\ row.pred = exec[e].pred /\ row.intent = exec[e].intent
        BY <1>t, <2>2, CompletedRow
    <2>4. /\ Write(e, row) /\ jobs' = [jobs EXCEPT ![row.job] = "COMPLETED"]
          /\ UNCHANGED <<adm, moved>> /\ pc.at = "closed"
        BY <1>11, <2>1, <2>2, <2>3 DEF CommitCompleted
    <2>5. TaskDrawn'
        BY <1>11, <1>p, TaskEnds, NothingDrawn DEF CommitCompleted
    <2>6. Drawn(row.job)
        <3>1. CASE pc.act = "STREAM"
            BY <2>1, <2>3, <2>4, <3>1 DEF LineInv, TaskDrawn, Drawn
        <3>2. CASE pc.act = "HOME_Z"
            <4>1. exec[e].phase = "HOMING_Z"
                BY <1>c, <2>1, <2>4, <3>2 DEF AdmittedPhase, SessionActions, Driving
            <4> QED
                BY <1>t, <2>3, <4>1 DEF HistoryInv, HomeZConfirmed, ConfirmedDrawn
        <3>3. CASE PostStreamHome(e)
            BY <1>t, <2>3, <3>3 DEF HistoryInv, Lineage, PostStreamHome, ConfirmedDrawn
        <3> QED
            BY <2>1, <2>4, <3>1, <3>2, <3>3 DEF LineInv, TaskDrawn
    <2>7. HistoryInv'
        BY <1>t, <2>1, <2>3, <2>4, <2>6, OwnerHistory DEF SafeHomePhases
    <2> QED
        BY <1>w, <2>1, <2>3, <2>4, <2>5, <2>7
<1>12. CASE CommitRecovery
    <2>1. PICK e \in Executions : e = pc.ex /\ InFlight(e)
        BY <1>12, <1>e, <1>f DEF CommitRecovery, Driving
    <2>2. PICK m : m = FailureMilestone
        OBVIOUS
    <2>3. PICK row : row = Recovered(e, m)
        OBVIOUS
    <2>4. m \in Milestones /\ (m = "STREAM_CONFIRMED" => Drawn(exec[e].job))
        <3>1. pc.at \in Driving
            BY <1>12 DEF CommitRecovery, Driving
        <3>2. pc.confirmed => Drawn(exec[e].job)
            BY <2>1, <3>1 DEF LineInv, TaskDrawn, Drawn
        <3> QED
            BY <1>d, <1>k, <2>1, <2>2, <3>1, <3>2 DEF FailureMilestone, Milestones
    <2>5. /\ row.phase = "RECOVERY_REQUIRED" /\ row.mile = m /\ row.job = exec[e].job
          /\ row.pred = exec[e].pred /\ row.intent = RecoveryIntentForMilestone(m)
        BY <1>t, <2>3, <2>4, RecoveredRow
    <2>6. /\ Write(e, row) /\ jobs' = [jobs EXCEPT ![row.job] = "RECOVERY_REQUIRED"]
          /\ UNCHANGED <<adm, moved>> /\ RecoveryWriteAccepted(e, m)
        BY <1>12, <2>1, <2>2, <2>3, <2>5 DEF CommitRecovery
    <2>7. IsSuccessor(e) => row.intent = exec[e].intent
        BY <2>5, <2>6 DEF RecoveryWriteAccepted
    <2>8. PostStreamHome(e) => row.mile = "STREAM_CONFIRMED" /\ row.phase \in SafeHomePhases
        BY <2>4, <2>5, <2>7, IntentFacts DEF PostStreamHome, SafeHomePhases
    <2>9. HistoryInv'
        BY <1>t, <2>1, <2>4, <2>5, <2>6, <2>7, <2>8, OwnerHistory
    <2>10. TaskDrawn'
        <3>1. \/ pc'.at = "cleanup" /\ pc'.ex = pc.ex /\ pc'.confirmed = pc.confirmed
              \/ pc'.at = "idle"
            BY <1>12, <1>t, TaskFields, TaskEnds DEF CommitRecovery
        <3>2. pc.at \in Driving
            BY <1>12 DEF CommitRecovery, Driving
        <3> QED
            BY <2>6, <3>1, <3>2 DEF LineInv, TaskDrawn, Streamed, Driving
    <2> QED
        BY <1>w, <2>1, <2>5, <2>6, <2>7, <2>9, <2>10
<1>13. CASE RecoveryCommitFails
    <2>1. UNCHANGED <<jobs, exec, adm, moved>> /\ pc.at \in Driving
        BY <1>13 DEF RecoveryCommitFails, durable, Driving
    <2>2. \/ pc'.at = "halting"
          \/ pc'.at = "failing" /\ pc'.ex = pc.ex /\ pc'.confirmed = pc.confirmed
        BY <1>13, <1>t, TaskEnds DEF RecoveryCommitFails, TypeOK, Tasks
    <2>3. TaskDrawn'
        BY <2>1, <2>2 DEF LineInv, TaskDrawn, Streamed, Driving
    <2> QED
        BY <1>s, <2>1, <2>3
<1> QED
    BY <1>1, <1>2, <1>3, <1>4, <1>5, <1>6, <1>7, <1>8, <1>9, <1>10, <1>11, <1>12, <1>13
       DEF Drive, CommitFirstWrite

LEMMA BesideLine ==
    ASSUME SafeInv, LineInv, IInv',
           \/ \E j \in Jobs : CancelJob(j)
           \/ \E e \in Executions, a \in ApprovedActions : TimeUp(e, a)
           \/ UNCHANGED vars
    PROVE  LineInv'
<1>1. UNCHANGED <<exec, adm, moved, pc>>
    BY DEF CancelJob, TimeUp, vars
<1>2. \A j \in Jobs : jobs'[j] = jobs[j] \/
          (jobs'[j] = "CANCELLED" /\ jobs[j] = "READY_TO_RUN" /\ ~OwnedByMachine(j))
    BY DEF CancelJob, TimeUp, vars, SafeInv, IInv, TypeInv, TypeOK
<1>3. HistoryInv'
    BY <1>1, <1>2, SameRows, HistoryKept DEF SafeInv, LineInv, Streamed
<1>4. SafeHomeAdmits'
    BY <1>1, SameRows, SafeHomeKept DEF SafeInv, LineInv
<1>5. TaskDrawn'
    BY <1>1 DEF LineInv, TaskDrawn, Streamed, PostStreamHome, IsSuccessor
<1> QED
    BY <1>3, <1>4, <1>5 DEF LineInv

FullInv == SafeInv /\ LineInv

LEMMA InitFully == Init => FullInv
<1> SUFFICES ASSUME Init PROVE FullInv
    OBVIOUS
<1>1. SafeInv
    BY InitSafely
<1>2. \A e \in Executions : /\ exec[e].phase = "ABSENT" /\ exec[e].pred = None
                            /\ exec[e].mile = "NOT_STARTED"
    BY DEF Init, NoExecution
<1>3. \A e \in Executions : ~Present(e) /\ ~InFlight(e) /\ ~IsSuccessor(e)
    BY <1>2 DEF Present, Active, InFlight, IsSuccessor
<1>4. HistoryInv
    BY <1>2, <1>3 DEF Init, HistoryInv, JobsFollow, JobRows, IntentFrozen, Lineage,
                      HomeZConfirmed, ConfirmedDrawn, CompletedWasDrawn
<1>5. pc.at = "down"
    BY AshoreTasks DEF Init, Ashore
<1>6. SafeHomeAdmits /\ TaskDrawn
    BY <1>5 DEF Init, SafeHomeAdmits, TaskDrawn, Driving
<1> QED
    BY <1>1, <1>4, <1>6 DEF FullInv, LineInv

LEMMA StepFully == FullInv /\ [Next]_vars => FullInv'
BY StepSafely, LifecycleLine, CommandLine, DriveLine, BesideLine DEF FullInv, SafeInv, Next

LEMMA Fully == Spec => []FullInv
BY InitFully, StepFully, PTL DEF Spec

-----------------------------------------------------------------------------
(* What follows *)

\* The job row never disagrees with the executions of the job, although they are
\* written by two threads in separate transactions: the cancellation trigger and
\* the owner index keep them together.
THEOREM JobAlwaysAgrees == Spec => []JobAgreement
<1>1. FullInv => JobAgreement
    <2> SUFFICES ASSUME FullInv PROVE JobAgreement
        OBVIOUS
    <2>1. HistoryInv /\ RowInv
        BY DEF FullInv, SafeInv, IInv, LineInv
    <2>2. ASSUME NEW j \in Jobs
          PROVE  LET mine == {e \in Executions : Present(e) /\ exec[e].job = j} IN
                 /\ jobs[j] = "READY_TO_RUN" => \A e \in mine : InFlight(e) /\ ~IsSuccessor(e)
                 /\ jobs[j] = "CANCELLED" => mine = {}
                 /\ jobs[j] = "COMPLETED" <=> \E e \in mine : exec[e].phase = "COMPLETED"
                 /\ jobs[j] = "RECOVERY_REQUIRED" =>
                       \E e \in mine : exec[e].phase = "RECOVERY_REQUIRED"
        <3> DEFINE mine == {e \in Executions : Present(e) /\ exec[e].job = j}
        <3>1. jobs[j] = "READY_TO_RUN" => \A e \in mine : InFlight(e) /\ ~IsSuccessor(e)
            BY <2>1 DEF RowInv, ReadyUntouched
        <3>2. jobs[j] = "CANCELLED" => mine = {}
            BY <2>1 DEF HistoryInv, JobRows
        <3>3. jobs[j] = "COMPLETED" <=> \E e \in mine : exec[e].phase = "COMPLETED"
            BY <2>1 DEF HistoryInv, JobRows, Present
        <3>4. jobs[j] = "RECOVERY_REQUIRED" => \E e \in mine : exec[e].phase = "RECOVERY_REQUIRED"
            BY <2>1 DEF HistoryInv, JobRows, Present
        <3> QED
            BY <3>1, <3>2, <3>3, <3>4
    <2> QED
        BY <2>2 DEF JobAgreement
<1> QED
    BY <1>1, Fully, PTL

\* Recovery is sound through every chain of failures and successors: nobody
\* restarts after a possible first write, a SAFE_HOME successor only homes, and a
\* COMPLETED job was drawn.
THEOREM RecoveryAlwaysSound == Spec => []RecoverySound
<1>1. FullInv => RecoverySound
    <2> SUFFICES ASSUME FullInv PROVE SuccessorSafety
        BY DEF RecoverySound, FullInv, LineInv, HistoryInv
    <2>t. HistoryInv /\ RowInv /\ IInv /\ AdmInv
        BY DEF FullInv, SafeInv, IInv, LineInv
    <2>1. ASSUME NEW e \in Executions, IsSuccessor(e)
          PROVE  /\ exec[exec[e].pred].mile # "FIRST_WRITE_POSSIBLE"
                 /\ PostStreamHome(e) => \A a \in MotionActions \ {"HOME"} : moved[e][a] = 0
                 /\ ~PostStreamHome(e) => Streamed(exec[e].pred) = 0
        <3>1. PICK p \in Executions : p = exec[e].pred
            BY <2>t, <2>1, OwnerFacts
        <3>2. /\ exec[p].intent = RecoveryIntentForMilestone(exec[p].mile)
              /\ exec[p].intent = exec[e].intent /\ exec[p].mile \in Milestones
              /\ exec[e].intent \in {"PRE_STREAM_RESTART", "POST_STREAM_SAFE_HOME"}
            BY <2>t, <2>1, <3>1, RowInHand DEF HistoryInv, Lineage, IntentFrozen
        <3>3. exec[p].mile # "FIRST_WRITE_POSSIBLE"
            BY <3>2, IntentFacts
        <3>4. ASSUME PostStreamHome(e), NEW a \in MotionActions \ {"HOME"} PROVE moved[e][a] = 0
            <4>1. ~Claimed(e, a)
                BY <3>4 DEF Claimed, FullInv, LineInv, SafeHomeAdmits, MotionActions, SessionActions
            <4>2. moved[e][a] \in Nat
                BY <2>t DEF IInv, TypeInv, TypeOK
            <4> QED
                BY <2>t, <4>1, <4>2 DEF AdmInv, MovesAdmitted
        <3>5. ASSUME ~PostStreamHome(e) PROVE Streamed(p) = 0
            <4>1. exec[p].mile = "NOT_STARTED"
                BY <2>1, <3>2, <3>5, IntentFacts DEF PostStreamHome
            <4>2. Streamed(p) \in Nat
                BY <2>t DEF IInv, TypeInv, TypeOK, Streamed, MotionActions
            <4> QED
                BY <2>t, <4>1, <4>2 DEF RowInv, StreamLeavesMark
        <3> QED
            BY <3>1, <3>3, <3>4, <3>5
    <2> QED
        BY <2>1 DEF SuccessorSafety
<1> QED
    BY <1>1, Fully, PTL

-----------------------------------------------------------------------------
(* Frozen evidence *)

\* What one step may do to a row that is there.
Frozen(e) ==
    /\ MilestoneOrder(exec[e].mile) <= MilestoneOrder(exec'[e].mile)
    /\ exec[e].phase = "RECOVERY_REQUIRED" =>
          /\ exec'[e].phase = "RECOVERY_REQUIRED"
          /\ exec'[e].mile = exec[e].mile /\ exec'[e].intent = exec[e].intent
    /\ exec[e].retired # "NO" => exec'[e].retired = exec[e].retired
    /\ exec'[e].job = exec[e].job /\ exec'[e].pred = exec[e].pred

LEMMA MilestoneFacts ==
    /\ \A m : MilestoneOrder(m) \in 0 .. 2
    /\ \A m : MilestoneOrder("NOT_STARTED") <= MilestoneOrder(m)
    /\ \A m : MilestoneOrder(m) <= MilestoneOrder("STREAM_CONFIRMED")
BY DEF MilestoneOrder

\* A row whose evidence stays: unchanged, or retired for the first time.
LEMMA FrozenKept ==
    ASSUME NEW e, exec'[e].phase = exec[e].phase, exec'[e].mile = exec[e].mile,
           exec'[e].intent = exec[e].intent, exec'[e].job = exec[e].job,
           exec'[e].pred = exec[e].pred,
           exec[e].retired # "NO" => exec'[e].retired = exec[e].retired
    PROVE  Frozen(e)
BY MilestoneFacts DEF Frozen

\* The owner in flight is the only row whose evidence grows.
LEMMA FrozenOwner ==
    ASSUME IInv, NEW e \in Executions, InFlight(e), NEW row, Write(e, row),
           row.job = exec[e].job, row.pred = exec[e].pred,
           row.mile = exec[e].mile \/ row.mile = "STREAM_CONFIRMED" \/ exec[e].mile = "NOT_STARTED"
    PROVE  \A f \in Executions : Frozen(f)
<1>1. exec'[e] = row /\ \A f \in Executions \ {e} : exec'[f] = exec[f]
    BY OneRow DEF IInv, TypeInv
<1>2. MilestoneOrder(exec[e].mile) <= MilestoneOrder(row.mile)
    BY MilestoneFacts
<1>3. exec[e].phase # "RECOVERY_REQUIRED" /\ exec[e].retired = "NO"
    BY DEF InFlight, Active
<1>4. Frozen(e)
    BY <1>1, <1>2, <1>3 DEF Frozen
<1>5. \A f \in Executions \ {e} : Frozen(f)
    BY <1>1, FrozenKept
<1> QED
    BY <1>4, <1>5

LEMMA StepFreezes ==
    ASSUME FullInv, [Next]_vars
    PROVE  \A e \in Executions : Present(e) => Frozen(e)
<1>t. IInv /\ TypeOK /\ RowInv
    BY DEF FullInv, SafeInv, IInv, TypeInv
<1>s. ASSUME UNCHANGED exec PROVE \A e \in Executions : Frozen(e)
    BY <1>s, FrozenKept
<1>e. pc.at \in Driving \ {"cleanup"} => /\ pc.ex \in Executions /\ InFlight(pc.ex)
                                         /\ exec[pc.ex].mile \in Milestones
    BY <1>t, InHand, RowInHand
<1>w. ASSUME NEW q \in Phases, NEW m \in Milestones, pc.at \in Driving \ {"cleanup"},
             Write(pc.ex, Revised(pc.ex, q, m)),
             m = exec[pc.ex].mile \/ m = "STREAM_CONFIRMED" \/ exec[pc.ex].mile = "NOT_STARTED"
      PROVE  \A f \in Executions : Frozen(f)
    <2>1. PICK e \in Executions : e = pc.ex /\ InFlight(e)
        BY <1>e, <1>w
    <2>2. PICK row : row = Revised(e, q, m)
        OBVIOUS
    <2>3. row.mile = m /\ row.job = exec[e].job /\ row.pred = exec[e].pred
        BY <1>t, <1>w, <2>1, <2>2, RevisedRow
    <2>4. Write(e, row)
        BY <1>w, <2>1, <2>2
    <2> QED
        BY <1>t, <1>w, <2>1, <2>3, <2>4, FrozenOwner
<1>p. /\ AwaitingPhases \cup InProgressPhases \subseteq Phases
      /\ {"AWAITING_HOME_APPROVAL", "AWAITING_HOME_Z_APPROVAL"} \subseteq AwaitingPhases
      /\ "STREAMING" \in InProgressPhases
      /\ {"FIRST_WRITE_POSSIBLE", "STREAM_CONFIRMED"} \subseteq Milestones
      /\ NextPhase(pc.act) \in AwaitingPhases
    BY DEF Phases, AwaitingPhases, InProgressPhases, Milestones, NextPhase
<1>1. CASE ReconcileRestart
    <2>1. ASSUME NEW e \in Executions PROVE Frozen(e)
        <3>1. CASE InFlight(e)
            <4>1. exec'[e] = Recovered(e, exec[e].mile)
                BY <1>1, <3>1 DEF ReconcileRestart, ReconciledExecutions
            <4>2. /\ exec'[e].mile = exec[e].mile /\ exec'[e].job = exec[e].job
                  /\ exec'[e].pred = exec[e].pred
                BY <1>t, <4>1, RowInHand, RecoveredRow
            <4> QED
                BY <3>1, <4>2, MilestoneFacts DEF Frozen, InFlight, Active
        <3>2. CASE ~InFlight(e)
            <4>1. exec'[e] = exec[e]
                BY <1>1, <3>2 DEF ReconcileRestart, ReconciledExecutions
            <4> QED
                BY <4>1, FrozenKept
        <3> QED
            BY <3>1, <3>2
    <2> QED
        BY <2>1
<1>2. CASE EndProcess
    <2>1. \A e \in Executions :
              /\ exec'[e].phase = exec[e].phase /\ exec'[e].mile = exec[e].mile
              /\ exec'[e].intent = exec[e].intent /\ exec'[e].job = exec[e].job
              /\ exec'[e].pred = exec[e].pred /\ exec'[e].retired = exec[e].retired
        BY <1>2, <1>t, RowInHand, RowStale DEF EndProcess
    <2> QED
        BY <2>1, FrozenKept
<1>3. CASE CommitPrepare
    <2>1. PICK n \in Executions : n = NewExecution /\ ~Present(n)
        BY <1>3, NewExecutionFresh DEF CommitPrepare
    <2>2. \A f \in Executions \ {n} : exec'[f] = exec[f]
        BY <1>3, <1>t, <2>1, OneRow DEF CommitPrepare
    <2> QED
        BY <2>1, <2>2, FrozenKept
<1>4. ASSUME NEW e \in Executions, NEW a \in MotionActions, ExecuteMotion(e, a)
      PROVE  \A f \in Executions : Frozen(f)
    <2>1. PICK row : row = Revised(e, AdmittedPhase(a), exec[e].mile)
        OBVIOUS
    <2>2. Active(e) /\ exec[e].phase = PriorPhase(a) /\ Write(e, row)
        BY <1>4, <2>1 DEF ExecuteMotion, MotionOwner
    <2>3. PriorPhase(a) # "RECOVERY_REQUIRED"
        BY DEF PriorPhase, MotionActions
    <2>4. row.mile = exec[e].mile /\ row.job = exec[e].job /\ row.pred = exec[e].pred
        BY <1>t, <2>1, RowTypes, RowInHand, RevisedRow
    <2> QED
        BY <1>t, <2>2, <2>3, <2>4, FrozenOwner DEF InFlight
<1>5. ASSUME NEW e \in Executions, ReleaseRecovery(e) PROVE \A f \in Executions : Frozen(f)
    <2>1. Write(e, Retired(e, "RELEASED")) /\ exec[e].retired = "NO"
        BY <1>5 DEF ReleaseRecovery, RecoveryOwner, Active
    <2>2. exec'[e] = Retired(e, "RELEASED") /\ \A f \in Executions \ {e} : exec'[f] = exec[f]
        BY <1>t, <2>1, OneRow
    <2>3. /\ exec'[e].phase = exec[e].phase /\ exec'[e].mile = exec[e].mile
          /\ exec'[e].job = exec[e].job
          /\ exec'[e].pred = exec[e].pred /\ exec'[e].intent = exec[e].intent
        BY <1>t, <2>2, RetiredRow
    <2> QED
        BY <2>1, <2>2, <2>3, FrozenKept
<1>6. ASSUME NEW e \in Executions, NEW d \in Dispositions, TransferRecovery(e, d)
      PROVE  \A f \in Executions : Present(f) => Frozen(f)
    <2>1. PICK n \in Executions : n = NewExecution /\ ~Present(n)
        BY <1>6, NewExecutionFresh DEF TransferRecovery
    <2>2. /\ exec' = [exec EXCEPT ![e] = Retired(e, "TRANSFERRED"), ![n] = Successor(e)]
          /\ exec[e].retired = "NO" /\ n # e
        BY <1>6, <2>1 DEF TransferRecovery, RecoveryOwner, Active
    <2>3. exec'[e] = Retired(e, "TRANSFERRED") /\ \A f \in Executions \ {n, e} : exec'[f] = exec[f]
        BY <1>t, <2>1, <2>2 DEF TypeOK
    <2>4. /\ exec'[e].phase = exec[e].phase /\ exec'[e].mile = exec[e].mile
          /\ exec'[e].job = exec[e].job
          /\ exec'[e].pred = exec[e].pred /\ exec'[e].intent = exec[e].intent
        BY <1>t, <2>3, RetiredRow
    <2> QED
        BY <2>1, <2>2, <2>3, <2>4, FrozenKept
<1>7. CASE CommitPreflight
    BY <1>7, <1>e, <1>p, <1>w DEF CommitPreflight, Driving
<1>8. CASE CommitFirstWrite
    <2>1. CASE Write(pc.ex, WriteBoundary)
        BY <1>8, <1>p, <1>w, <2>1 DEF CommitFirstWrite, WriteBoundary, Driving
    <2> QED
        BY <1>8, <1>s, <2>1 DEF CommitFirstWrite
<1>9. CASE CommitMotionSuccess
    BY <1>9, <1>e, <1>p, <1>w DEF CommitMotionSuccess, Driving
<1>10. CASE CommitStreamConfirmed
    BY <1>10, <1>p, <1>w DEF CommitStreamConfirmed, Driving
<1>11. CASE CommitCompleted
    <2>1. PICK e \in Executions : e = pc.ex /\ InFlight(e) /\ Write(e, Completed(e))
        BY <1>11, <1>e DEF CommitCompleted, Driving
    <2> QED
        BY <1>t, <2>1, CompletedRow, FrozenOwner
<1>12. CASE CommitRecovery
    <2>1. PICK e \in Executions : e = pc.ex /\ InFlight(e)
        BY <1>12, <1>e DEF CommitRecovery, Driving
    <2>2. PICK m \in Milestones : m = FailureMilestone /\ (m = exec[e].mile \/ m = "STREAM_CONFIRMED")
        BY <1>12, <1>e, <1>p, <2>1 DEF CommitRecovery, FailureMilestone, Driving
    <2>3. Write(e, Recovered(e, m))
        BY <1>12, <2>1, <2>2 DEF CommitRecovery
    <2> QED
        BY <1>t, <2>1, <2>2, <2>3, RecoveredRow, FrozenOwner
<1>13. CASE StartUp \/ Stop \/ ShutDown \/ ProcessExit \/ Crash
    BY <1>1, <1>2, <1>13, <1>s DEF StartUp, Start, StartRefused, StartFault, Stop, ShutDown,
       ShutdownReconcile, ShutdownUnreconciled, ShutdownClose, ProcessExit, Crash, durable
<1>14. CASE Command
    <2>1. CASE \/ \E j \in Jobs : CheckPrepare(j)
               \/ AbandonPrepare \/ AdmissionFault
               \/ \E e \in Executions, a \in MotionActions : RequestMotion(e, a)
               \/ \E e \in Executions, d \in Dispositions : RequestRecovery(e, d)
               \/ \E r \in adm : Replay(r)
        BY <1>s, <2>1 DEF CheckPrepare, AbandonPrepare, AdmissionFault, RequestMotion,
                          RequestRecovery, Replay, durable
    <2> QED
        BY <1>3, <1>4, <1>5, <1>6, <1>14, <2>1 DEF Command
<1>15. CASE Drive
    <2>1. CASE \/ ClaimRequest \/ ClaimFailed \/ OpenSession \/ OpenRefused \/ PreflightFailed
               \/ DriveMotion \/ FirstWriteFault \/ DriveStream \/ SuccessCommitFault
               \/ CloseBeforeCompletion \/ RecoveryCommitFails \/ RecoveryReadFault
               \/ CloseFailedSession \/ CloseRecordFault
        BY <1>s, <2>1 DEF ClaimRequest, ClaimFailed, OpenSession, OpenRefused, PreflightFailed,
           DriveMotion, FirstWriteFault, DriveStream, SuccessCommitFault, CloseBeforeCompletion,
           RecoveryCommitFails, RecoveryReadFault, CloseFailedSession, CloseRecordFault, durable
    <2> QED
        BY <1>7, <1>8, <1>9, <1>10, <1>11, <1>12, <1>15, <2>1 DEF Drive
<1>16. CASE \/ \E j \in Jobs : CancelJob(j)
            \/ \E e \in Executions, a \in ApprovedActions : TimeUp(e, a)
            \/ UNCHANGED vars
    BY <1>16, <1>s DEF CancelJob, TimeUp, vars
<1> QED
    BY <1>13, <1>14, <1>15, <1>16 DEF Next

\* Evidence is frozen: no transaction, restart or crash takes a milestone back,
\* changes the milestone or intent of an execution in recovery, or withdraws a
\* retirement; an operator who reads the row later reads what happened.
THEOREM EvidenceStaysFrozen == Spec => EvidenceFrozen
<1>1. FullInv /\ [Next]_vars =>
        [\A e \in Executions : Present(e) =>
          /\ MilestoneOrder(exec[e].mile) <= MilestoneOrder(exec'[e].mile)
          /\ exec[e].phase = "RECOVERY_REQUIRED" =>
                /\ exec'[e].phase = "RECOVERY_REQUIRED"
                /\ exec'[e].mile = exec[e].mile /\ exec'[e].intent = exec[e].intent
          /\ exec[e].retired # "NO" => exec'[e].retired = exec[e].retired
          /\ exec'[e].job = exec[e].job /\ exec'[e].pred = exec[e].pred]_vars
    BY StepFreezes DEF Frozen
<1> QED
    BY <1>1, Fully, PTL DEF Spec, EvidenceFrozen

-----------------------------------------------------------------------------
(* The refinement of MachineLatch *)

LatchNow == IF \E e \in Executions : Active(e)
            THEN exec[CHOOSE e \in Executions : Active(e)].job ELSE None

DrawnNow == {j \in Jobs : \E e \in Executions : exec[e].job = j /\ Streamed(e) > 0}

\* The mapped state as this module names it, and the abstract steps in its terms.
LEMMA LatchVars ==
    ASSUME LatchNow' = LatchNow, DrawnNow' = DrawnNow, jobs' = jobs
    PROVE  UNCHANGED Latch!vars
BY DEF Latch!vars, LatchNow, DrawnNow

LEMMA LatchAcquire ==
    ASSUME NEW j \in Jobs, LatchNow = None, jobs[j] = "READY_TO_RUN", LatchNow' = j,
           DrawnNow' = DrawnNow, jobs' = jobs
    PROVE  Latch!Next
<1>1. Latch!Acquire(j)
    BY DEF Latch!Acquire, LatchNow, DrawnNow
<1> QED
    BY <1>1 DEF Latch!Next

LEMMA LatchDraw ==
    ASSUME NEW j \in Jobs, LatchNow = j, j \notin DrawnNow, DrawnNow' = DrawnNow \cup {j},
           LatchNow' = LatchNow, jobs' = jobs
    PROVE  Latch!Next
<1>1. Latch!Draw(j)
    BY DEF Latch!Draw, LatchNow, DrawnNow
<1> QED
    BY <1>1 DEF Latch!Next

LEMMA LatchFail ==
    ASSUME NEW j \in Jobs, LatchNow = j, jobs[j] = "READY_TO_RUN",
           jobs' = [jobs EXCEPT ![j] = "RECOVERY_REQUIRED"],
           LatchNow' = LatchNow, DrawnNow' = DrawnNow
    PROVE  Latch!Next
<1>1. Latch!Fail(j)
    BY DEF Latch!Fail, LatchNow, DrawnNow
<1> QED
    BY <1>1 DEF Latch!Next

LEMMA LatchFinish ==
    ASSUME NEW j \in Jobs, LatchNow = j, j \in DrawnNow, jobs' = [jobs EXCEPT ![j] = "COMPLETED"],
           LatchNow' = None, DrawnNow' = DrawnNow
    PROVE  Latch!Next
<1>1. Latch!Finish(j)
    BY DEF Latch!Finish, LatchNow, DrawnNow
<1> QED
    BY <1>1 DEF Latch!Next

LEMMA LatchRelease ==
    ASSUME NEW j \in Jobs, LatchNow = j, jobs[j] = "RECOVERY_REQUIRED", LatchNow' = None,
           DrawnNow' = DrawnNow, jobs' = jobs
    PROVE  Latch!Next
<1>1. Latch!Release(j)
    BY DEF Latch!Release, LatchNow, DrawnNow
<1> QED
    BY <1>1 DEF Latch!Next

LEMMA LatchCancel ==
    ASSUME NEW j \in Jobs, LatchNow # j, jobs[j] = "READY_TO_RUN",
           jobs' = [jobs EXCEPT ![j] = "CANCELLED"],
           LatchNow' = LatchNow, DrawnNow' = DrawnNow
    PROVE  Latch!Next
<1>1. Latch!Cancel(j)
    BY DEF Latch!Cancel, LatchNow, DrawnNow
<1> QED
    BY <1>1 DEF Latch!Next

LEMMA LatchOwner ==
    ASSUME IInv, NEW e \in Executions, Active(e)
    PROVE  LatchNow = exec[e].job
<1>1. PICK c : c = CHOOSE f \in Executions : Active(f)
    OBVIOUS
<1>2. c \in Executions /\ Active(c)
    BY <1>1
<1>3. c = e
    BY <1>2 DEF IInv, RowInv, OneOwner
<1> QED
    BY <1>1, <1>3 DEF LatchNow

LEMMA NextLatchOwner ==
    ASSUME IInv', NEW e \in Executions, Active(e)'
    PROVE  LatchNow' = exec'[e].job
<1>1. PICK c : c = CHOOSE f \in Executions : Active(f)'
    OBVIOUS
<1>2. c \in Executions /\ Active(c)'
    BY <1>1
<1>3. c = e
    BY <1>2 DEF IInv, RowInv, OneOwner
<1> QED
    BY <1>1, <1>3 DEF LatchNow

LEMMA LatchFree ==
    /\ (\A e \in Executions : ~Active(e)) => LatchNow = None
    /\ (\A e \in Executions : ~Active(e)') => LatchNow' = None
BY DEF LatchNow

LEMMA LatchKept ==
    ASSUME IInv, IInv', \A e \in Executions : (Active(e)' <=> Active(e)) /\ exec'[e].job = exec[e].job
    PROVE  LatchNow' = LatchNow
<1>1. CASE \E e \in Executions : Active(e)
    BY <1>1, LatchOwner, NextLatchOwner
<1>2. CASE \A e \in Executions : ~Active(e)
    BY <1>2, LatchFree
<1> QED
    BY <1>1, <1>2

LEMMA DrawnKept ==
    ASSUME \A e \in Executions : /\ Streamed(e)' = Streamed(e)
                                 /\ exec'[e].job = exec[e].job \/ Streamed(e) = 0
    PROVE  DrawnNow' = DrawnNow
BY DEF DrawnNow

LEMMA Stutters ==
    ASSUME IInv, IInv', UNCHANGED jobs,
           \A e \in Executions : /\ Active(e)' <=> Active(e)
                                 /\ exec'[e].job = exec[e].job
                                 /\ Streamed(e)' = Streamed(e)
    PROVE  UNCHANGED Latch!vars
BY LatchKept, DrawnKept, LatchVars

\* The owner's row is rewritten and stays the owner's; its job may have to follow.
LEMMA OwnerLatch ==
    ASSUME IInv, HistoryInv, IInv', UNCHANGED moved, NEW e \in Executions, InFlight(e),
           NEW row, Write(e, row), row.job = exec[e].job, Active(e)',
           jobs' \in {jobs, [jobs EXCEPT ![row.job] = "RECOVERY_REQUIRED"]}
    PROVE  Latch!Next \/ UNCHANGED Latch!vars
<1>1. exec'[e] = row /\ \A f \in Executions \ {e} : exec'[f] = exec[f] /\ (Active(f)' <=> Active(f))
    BY OneRow DEF IInv, TypeInv
<1>2. Active(e) /\ exec[e].job \in Jobs /\ jobs[exec[e].job] \in {"READY_TO_RUN", "RECOVERY_REQUIRED"}
    BY OwnerFacts
<1>3. LatchNow = exec[e].job /\ LatchNow' = LatchNow
    BY <1>1, <1>2, LatchOwner, NextLatchOwner
<1>4. DrawnNow' = DrawnNow
    BY <1>1, DrawnKept DEF Streamed
<1>5. CASE jobs' = jobs
    BY <1>3, <1>4, <1>5, LatchVars
<1>6. CASE jobs' = [jobs EXCEPT ![row.job] = "RECOVERY_REQUIRED"]
    <2>1. CASE jobs[exec[e].job] = "READY_TO_RUN"
        BY <1>2, <1>3, <1>4, <1>6, <2>1, LatchFail
    <2>2. CASE jobs[exec[e].job] = "RECOVERY_REQUIRED"
        <3>1. jobs' = jobs
            BY <1>2, <1>6, <2>2 DEF IInv, TypeInv, TypeOK
        <3> QED
            BY <1>3, <1>4, <3>1, LatchVars
    <2> QED
        BY <1>2, <2>1, <2>2
<1> QED
    BY <1>5, <1>6

LEMMA ReconcileLatch ==
    ASSUME FullInv, IInv', ReconcileAccepted, ReconcileRestart, UNCHANGED moved
    PROVE  Latch!Next \/ UNCHANGED Latch!vars
<1>t. TypeOK /\ HistoryInv /\ IInv
    BY DEF FullInv, SafeInv, IInv, TypeInv, LineInv
<1>1. CASE \E e \in Executions : InFlight(e)
    <2>1. PICK e \in Executions : InFlight(e)
        BY <1>1
    <2>2. /\ exec[e].job \in Jobs /\ \A f \in Executions : InFlight(f) => f = e
          /\ exec[e].mile \in Milestones /\ exec[e].retired = "NO"
        BY <1>t, <2>1, OwnerFacts, RowInHand DEF InFlight, Active
    <2>3. PICK row : row = Recovered(e, exec[e].mile)
        OBVIOUS
    <2>4. Write(e, row)
        <3>1. exec' = [f \in Executions |-> IF InFlight(f) THEN Recovered(f, exec[f].mile) ELSE exec[f]]
            BY DEF ReconcileRestart, ReconciledExecutions
        <3>2. [exec EXCEPT ![e] = row] = [f \in Executions |-> IF f = e THEN row ELSE exec[f]]
            BY <1>t DEF TypeOK
        <3> QED
            BY <2>1, <2>2, <2>3, <3>1, <3>2 DEF Write
    <2>5. row.phase = "RECOVERY_REQUIRED" /\ row.job = exec[e].job /\ row.retired = "NO"
        BY <1>t, <2>2, <2>3, RecoveredRow
    <2>6. jobs' \in {jobs, [jobs EXCEPT ![row.job] = "RECOVERY_REQUIRED"]}
        <3>1. jobs' = [j \in Jobs |-> IF ~IsSuccessor(e) /\ exec[e].job = j
                                      THEN "RECOVERY_REQUIRED" ELSE jobs[j]]
            BY <2>1, <2>2 DEF ReconcileRestart, ReconciledJobs
        <3>2. jobs \in [Jobs -> JobStates]
            BY <1>t DEF TypeOK
        <3> QED
            BY <2>5, <3>1, <3>2
    <2>7. Active(e)'
        <3>1. exec'[e] = row
            BY <1>t, <2>4, OneRow
        <3> QED
            BY <2>5, <3>1 DEF Active, Present
    <2> QED
        BY <1>t, <2>1, <2>4, <2>5, <2>6, <2>7, OwnerLatch
<1>2. CASE \A e \in Executions : ~InFlight(e)
    <2>1. exec' = exec
        <3>1. exec' = [e \in Executions |-> exec[e]]
            BY <1>2 DEF ReconcileRestart, ReconciledExecutions
        <3> QED
            BY <1>t, <3>1 DEF TypeOK
    <2>2. jobs' = jobs
        <3>1. jobs' = [j \in Jobs |-> jobs[j]]
            BY <1>2 DEF ReconcileRestart, ReconciledJobs
        <3> QED
            BY <1>t, <3>1 DEF TypeOK
    <2> QED
        BY <1>t, <2>1, <2>2, SameRows, Stutters DEF Streamed
<1> QED
    BY <1>1, <1>2

LEMMA LifecycleLatch ==
    ASSUME FullInv, IInv', StartUp \/ Stop \/ ShutDown \/ ProcessExit \/ Crash
    PROVE  Latch!Next \/ UNCHANGED Latch!vars
<1>t. IInv
    BY DEF FullInv, SafeInv
<1>1. CASE Start \/ ShutdownReconcile
    BY <1>1, ReconcileLatch DEF Start, ShutdownReconcile
<1>2. CASE StartRefused \/ StartFault \/ Stop \/ ShutdownUnreconciled \/ ShutdownClose
    <2>1. UNCHANGED <<jobs, exec, moved>>
        BY <1>2 DEF StartRefused, StartFault, Stop, ShutdownUnreconciled, ShutdownClose, durable
    <2> QED
        BY <1>t, <2>1, SameRows, Stutters DEF Streamed
<1>3. CASE EndProcess
    <2>1. UNCHANGED <<jobs, moved>> /\ \A e \in Executions :
              /\ exec'[e].phase = exec[e].phase /\ exec'[e].job = exec[e].job
              /\ exec'[e].retired = exec[e].retired
        BY <1>3, <1>t, RowInHand, RowStale DEF EndProcess
    <2>2. \A e \in Executions : Active(e)' <=> Active(e)
        BY <2>1 DEF Active, Present
    <2> QED
        BY <1>t, <2>1, <2>2, Stutters DEF Streamed
<1> QED
    BY <1>1, <1>2, <1>3 DEF StartUp, ShutDown, ProcessExit, Crash

LEMMA CommandLatch ==
    ASSUME FullInv, IInv', Command
    PROVE  Latch!Next \/ UNCHANGED Latch!vars
<1>t. TypeOK /\ TypeInv /\ RowInv /\ HistoryInv /\ IInv
    BY DEF FullInv, SafeInv, IInv, TypeInv, LineInv
<1>j. \A e \in Executions : Active(e) => exec[e].job \in Jobs
    BY <1>t DEF RowInv, RowsBound, Active
<1>1. CASE \/ \E j \in Jobs : CheckPrepare(j)
           \/ AbandonPrepare \/ AdmissionFault
           \/ \E e \in Executions, a \in MotionActions : RequestMotion(e, a)
           \/ \E e \in Executions, d \in Dispositions : RequestRecovery(e, d)
           \/ \E r \in adm : Replay(r)
    <2>1. UNCHANGED <<jobs, exec, moved>>
        BY <1>1 DEF CheckPrepare, AbandonPrepare, AdmissionFault, RequestMotion, RequestRecovery,
                    Replay, durable
    <2> QED
        BY <1>t, <2>1, SameRows, Stutters DEF Streamed
<1>2. CASE CommitPrepare
    <2>1. PICK n \in Executions : n = NewExecution /\ ~Present(n)
        BY <1>2, NewExecutionFresh DEF CommitPrepare
    <2>2. PICK j \in Jobs : j = pc.job
        BY <1>2, <1>t DEF CommitPrepare, TypeInv, TaskBound
    <2>3. PICK row : row = Initial(j)
        OBVIOUS
    <2>4. /\ Write(n, row) /\ jobs[j] = "READY_TO_RUN"
          /\ UNCHANGED <<jobs, moved>> /\ \A f \in Executions : ~Active(f)
        BY <1>2, <2>1, <2>2, <2>3 DEF CommitPrepare, Initial, NoOwner
    <2>5. row.phase = "PREPARING_SESSION" /\ row.job = j /\ row.retired = "NO"
        BY <2>3, InitialRow
    <2>6. exec'[n] = row /\ \A f \in Executions \ {n} : exec'[f] = exec[f]
        BY <1>t, <2>4, OneRow
    <2>7. LatchNow = None /\ LatchNow' = j
        <3>1. Active(n)'
            BY <2>5, <2>6 DEF Active, Present
        <3> QED
            BY <2>4, <2>5, <2>6, <3>1, LatchFree, NextLatchOwner
    <2>8. DrawnNow' = DrawnNow
        BY <1>t, <2>1, <2>4, <2>6, OwnerFacts, DrawnKept DEF Streamed
    <2> QED
        BY <2>4, <2>7, <2>8, LatchAcquire
<1>3. ASSUME NEW e \in Executions, NEW a \in MotionActions, ExecuteMotion(e, a)
      PROVE  UNCHANGED Latch!vars
    <2>1. PICK row : row = Revised(e, AdmittedPhase(a), exec[e].mile)
        OBVIOUS
    <2>2. UNCHANGED <<jobs, moved>> /\ Active(e) /\ Write(e, row)
        BY <1>3, <2>1 DEF ExecuteMotion, MotionOwner
    <2>3. row.phase = AdmittedPhase(a) /\ row.retired = exec[e].retired /\ row.job = exec[e].job
        BY <1>t, <2>1, RowTypes, RowInHand, RevisedRow
    <2>4. AdmittedPhase(a) \notin {"ABSENT", "COMPLETED"}
        BY DEF AdmittedPhase, MotionActions, SessionActions
    <2>5. exec'[e] = row /\ \A f \in Executions \ {e} : exec'[f] = exec[f] /\ (Active(f)' <=> Active(f))
        BY <1>t, <2>2, OneRow
    <2>6. Active(e)'
        BY <2>2, <2>3, <2>4, <2>5 DEF Active, Present
    <2> QED
        BY <1>t, <2>2, <2>3, <2>5, <2>6, Stutters DEF Streamed
<1>4. ASSUME NEW e \in Executions, ReleaseRecovery(e) PROVE Latch!Next
    <2>1. /\ UNCHANGED <<jobs, moved>> /\ Write(e, Retired(e, "RELEASED")) /\ Active(e)
          /\ jobs[exec[e].job] = "RECOVERY_REQUIRED"
        BY <1>4 DEF ReleaseRecovery, RecoveryOwner
    <2>2. /\ exec'[e] = Retired(e, "RELEASED")
          /\ \A f \in Executions \ {e} : exec'[f] = exec[f] /\ (Active(f)' <=> Active(f))
        BY <1>t, <2>1, OneRow
    <2>3. exec'[e].retired = "RELEASED" /\ exec'[e].job = exec[e].job
        BY <1>t, <2>2, RetiredRow
    <2>4. \A f \in Executions : ~Active(f)'
        BY <1>t, <2>1, <2>2, <2>3 DEF RowInv, OneOwner, Active
    <2>5. LatchNow = exec[e].job /\ LatchNow' = None
        BY <1>t, <2>1, <2>4, LatchOwner, LatchFree
    <2>6. DrawnNow' = DrawnNow
        BY <2>1, <2>2, <2>3, DrawnKept DEF Streamed
    <2> QED
        BY <1>j, <2>1, <2>5, <2>6, LatchRelease
<1>5. ASSUME NEW e \in Executions, NEW d \in Dispositions, TransferRecovery(e, d)
      PROVE  UNCHANGED Latch!vars
    <2>1. PICK n \in Executions : n = NewExecution /\ ~Present(n)
        BY <1>5, NewExecutionFresh DEF TransferRecovery
    <2>2. /\ UNCHANGED <<jobs, moved>> /\ Active(e) /\ n # e
          /\ exec' = [exec EXCEPT ![e] = Retired(e, "TRANSFERRED"), ![n] = Successor(e)]
        BY <1>5, <2>1 DEF TransferRecovery, RecoveryOwner, Active
    <2>3. /\ exec'[n] = Successor(e) /\ exec'[e] = Retired(e, "TRANSFERRED")
          /\ \A f \in Executions \ {n, e} : exec'[f] = exec[f]
        BY <1>t, <2>1, <2>2 DEF TypeOK
    <2>4. /\ exec'[e].job = exec[e].job /\ exec'[n].job = exec[e].job
          /\ exec'[n].phase = "PREPARING_SESSION" /\ exec'[n].retired = "NO"
        BY <1>t, <2>3, RetiredRow, SuccessorRow
    <2>5. Active(n)'
        BY <2>4 DEF Active, Present
    <2>6. LatchNow' = LatchNow
        BY <1>t, <2>2, <2>4, <2>5, LatchOwner, NextLatchOwner
    <2>7. DrawnNow' = DrawnNow
        BY <1>t, <2>1, <2>2, <2>3, <2>4, OwnerFacts, DrawnKept DEF Streamed
    <2> QED
        BY <2>2, <2>6, <2>7, LatchVars
<1> QED
    BY <1>1, <1>2, <1>3, <1>4, <1>5 DEF Command

LEMMA DriveLatch ==
    ASSUME FullInv, FullInv', Drive
    PROVE  Latch!Next \/ UNCHANGED Latch!vars
<1>t. TypeOK /\ RowInv /\ HistoryInv /\ IInv /\ IInv' /\ HistoryInv'
    BY DEF FullInv, SafeInv, IInv, TypeInv, LineInv
<1>e. pc.at \in Driving \ {"cleanup"} =>
          /\ pc.ex \in Executions /\ InFlight(pc.ex) /\ exec[pc.ex].retired = "NO"
          /\ exec[pc.ex].mile \in Milestones
    BY <1>t, InHand, RowInHand
<1>w. ASSUME NEW q \in AwaitingPhases \cup {"STREAMING"}, NEW m \in Milestones,
             pc.at \in Driving \ {"cleanup"},
             Write(pc.ex, Revised(pc.ex, q, m)), UNCHANGED <<jobs, moved>>
      PROVE  Latch!Next \/ UNCHANGED Latch!vars
    <2>1. PICK e \in Executions : e = pc.ex /\ InFlight(e) /\ exec[e].retired = "NO"
        BY <1>e, <1>w
    <2>2. PICK row : row = Revised(e, q, m)
        OBVIOUS
    <2>3. row.phase = q /\ row.retired = "NO" /\ row.job = exec[e].job
        BY <1>t, <1>w, <2>1, <2>2, RevisedRow DEF Phases, InProgressPhases
    <2>4. Write(e, row) /\ exec'[e] = row
        BY <1>t, <1>w, <2>1, <2>2, OneRow
    <2>5. Active(e)'
        BY <1>w, <2>3, <2>4 DEF Active, Present, AwaitingPhases
    <2> QED
        BY <1>t, <1>w, <2>1, <2>3, <2>4, <2>5, OwnerLatch
<1>p. /\ {"AWAITING_HOME_APPROVAL", "AWAITING_HOME_Z_APPROVAL"} \subseteq AwaitingPhases
      /\ {"FIRST_WRITE_POSSIBLE", "STREAM_CONFIRMED"} \subseteq Milestones
      /\ NextPhase(pc.act) \in AwaitingPhases
    BY DEF AwaitingPhases, Milestones, NextPhase
<1>s. ASSUME UNCHANGED <<jobs, exec, moved>> PROVE UNCHANGED Latch!vars
    BY <1>s, <1>t, SameRows, Stutters DEF Streamed
<1>1. CASE CommitPreflight
    BY <1>1, <1>e, <1>p, <1>w DEF CommitPreflight, Driving
<1>2. CASE CommitFirstWrite
    <2>1. CASE Write(pc.ex, WriteBoundary)
        BY <1>2, <1>p, <1>w, <2>1 DEF CommitFirstWrite, WriteBoundary, Driving
    <2> QED
        BY <1>2, <1>s, <2>1 DEF CommitFirstWrite
<1>3. CASE CommitMotionSuccess
    BY <1>3, <1>e, <1>p, <1>w DEF CommitMotionSuccess, Driving
<1>4. CASE CommitStreamConfirmed
    BY <1>4, <1>p, <1>w DEF CommitStreamConfirmed, Driving
<1>5. CASE DriveMotion
    <2>1. UNCHANGED <<jobs, exec>> /\ pc.act # "STREAM" /\ pc.ex \in Executions
        BY <1>5, <1>e DEF DriveMotion, durable, Driving
    <2>2. \A f \in Executions : Streamed(f)' = Streamed(f)
        BY <1>5, <1>t, <2>1 DEF DriveMotion, Streamed, TypeOK, MotionActions
    <2> QED
        BY <1>t, <2>1, <2>2, SameRows, Stutters
<1>6. CASE DriveStream
    <2>1. PICK e \in Executions : e = pc.ex /\ InFlight(e)
        BY <1>6, <1>e DEF DriveStream, Driving
    <2>2. PICK j \in Jobs : j = exec[e].job
        BY <1>t, <2>1, OwnerFacts
    <2>3. /\ UNCHANGED <<jobs, exec>> /\ moved' = [moved EXCEPT ![e]["STREAM"] = @ + 1]
          /\ pc.at = "writing"
        BY <1>6, <2>1 DEF DriveStream, durable
    <2>4. \A f \in Executions : exec[f].job = j => Streamed(f) = 0
        BY <1>t, <2>1, <2>2, <2>3 DEF IInv, TaskInv, WritingIsFirst
    <2>5. Streamed(e)' = 1 /\ \A f \in Executions : f # e => Streamed(f)' = Streamed(f)
        BY <1>t, <2>2, <2>3, <2>4 DEF Streamed, TypeOK, MotionActions
    <2>6. LatchNow = j /\ LatchNow' = LatchNow
        BY <1>t, <2>1, <2>2, <2>3, SameRows, LatchOwner, LatchKept DEF InFlight
    <2>7. j \notin DrawnNow /\ DrawnNow' = DrawnNow \cup {j}
        BY <2>2, <2>3, <2>4, <2>5 DEF DrawnNow
    <2> QED
        BY <2>3, <2>6, <2>7, LatchDraw
<1>7. CASE CommitCompleted
    <2>1. PICK e \in Executions : e = pc.ex /\ InFlight(e) /\ Active(e)
        BY <1>7, <1>e DEF CommitCompleted, Driving, InFlight
    <2>2. PICK j \in Jobs : j = exec[e].job
        BY <1>t, <2>1, OwnerFacts
    <2>3. /\ Write(e, Completed(e)) /\ jobs' = [jobs EXCEPT ![j] = "COMPLETED"] /\ UNCHANGED moved
        BY <1>7, <2>1, <2>2 DEF CommitCompleted
    <2>4. /\ exec'[e].phase = "COMPLETED" /\ exec'[e].job = exec[e].job
          /\ \A f \in Executions \ {e} : exec'[f] = exec[f] /\ (Active(f)' <=> Active(f))
        BY <1>t, <2>3, OneRow, CompletedRow
    <2>5. \A f \in Executions : ~Active(f)'
        BY <1>t, <2>1, <2>4 DEF RowInv, OneOwner, Active
    <2>6. LatchNow = j /\ LatchNow' = None
        BY <1>t, <2>1, <2>2, <2>5, LatchOwner, LatchFree
    <2>7. DrawnNow' = DrawnNow
        BY <2>3, <2>4, DrawnKept DEF Streamed
    <2>8. j \in DrawnNow
        <3>1. jobs'[j] = "COMPLETED"
            BY <1>t, <2>3 DEF TypeOK
        <3>2. \E f \in Executions : exec'[f].job = j /\ Streamed(f)' = 1
            BY <1>t, <3>1 DEF HistoryInv, CompletedWasDrawn
        <3> QED
            BY <2>3, <2>4, <3>2 DEF DrawnNow, Streamed
    <2> QED
        BY <2>3, <2>6, <2>7, <2>8, LatchFinish
<1>8. CASE CommitRecovery
    <2>1. PICK e \in Executions : e = pc.ex /\ InFlight(e) /\ exec[e].retired = "NO"
        BY <1>8, <1>e DEF CommitRecovery, Driving
    <2>2. PICK m \in Milestones : m = FailureMilestone
        BY <1>8, <1>e, <1>p DEF CommitRecovery, FailureMilestone, Driving
    <2>3. PICK row : row = Recovered(e, m)
        OBVIOUS
    <2>4. row.phase = "RECOVERY_REQUIRED" /\ row.job = exec[e].job /\ row.retired = "NO"
        BY <1>t, <2>1, <2>3, RecoveredRow
    <2>5. /\ Write(e, row) /\ jobs' = [jobs EXCEPT ![row.job] = "RECOVERY_REQUIRED"]
          /\ UNCHANGED moved
        BY <1>8, <2>1, <2>2, <2>3, <2>4 DEF CommitRecovery
    <2>6. exec'[e] = row
        BY <1>t, <2>5, OneRow
    <2>7. Active(e)'
        BY <2>4, <2>6 DEF Active, Present
    <2> QED
        BY <1>t, <2>1, <2>4, <2>5, <2>7, OwnerLatch
<1>9. CASE \/ ClaimRequest \/ ClaimFailed \/ OpenSession \/ OpenRefused \/ PreflightFailed
           \/ FirstWriteFault \/ SuccessCommitFault \/ CloseBeforeCompletion
           \/ RecoveryCommitFails \/ RecoveryReadFault \/ CloseFailedSession \/ CloseRecordFault
    <2>1. UNCHANGED <<jobs, exec, moved>>
        BY <1>9 DEF ClaimRequest, ClaimFailed, OpenSession, OpenRefused, PreflightFailed,
           FirstWriteFault, SuccessCommitFault, CloseBeforeCompletion, RecoveryCommitFails,
           RecoveryReadFault, CloseFailedSession, CloseRecordFault, durable
    <2> QED
        BY <1>s, <2>1
<1> QED
    BY <1>1, <1>2, <1>3, <1>4, <1>5, <1>6, <1>7, <1>8, <1>9 DEF Drive

LEMMA BesideLatch ==
    ASSUME FullInv, IInv',
           \/ \E j \in Jobs : CancelJob(j)
           \/ \E e \in Executions, a \in ApprovedActions : TimeUp(e, a)
           \/ UNCHANGED vars
    PROVE  Latch!Next \/ UNCHANGED Latch!vars
<1>t. IInv
    BY DEF FullInv, SafeInv
<1>1. ASSUME NEW j \in Jobs, CancelJob(j) PROVE Latch!Next
    <2>1. /\ jobs[j] = "READY_TO_RUN" /\ jobs' = [jobs EXCEPT ![j] = "CANCELLED"]
          /\ UNCHANGED <<exec, moved>> /\ ~OwnedByMachine(j)
        BY <1>1 DEF CancelJob
    <2>2. LatchNow' = LatchNow /\ DrawnNow' = DrawnNow
        BY <1>t, <2>1, SameRows, LatchKept, DrawnKept DEF Streamed
    <2>3. LatchNow # j
        <3>1. CASE \E e \in Executions : Active(e)
            BY <1>t, <2>1, <3>1, LatchOwner DEF OwnedByMachine
        <3>2. CASE \A e \in Executions : ~Active(e)
            BY <3>2, LatchFree, NoneAssumption
        <3> QED
            BY <3>1, <3>2
    <2> QED
        BY <2>1, <2>2, <2>3, LatchCancel
<1>2. CASE (\E e \in Executions, a \in ApprovedActions : TimeUp(e, a)) \/ UNCHANGED vars
    <2>1. UNCHANGED <<jobs, exec, moved>>
        BY <1>2 DEF TimeUp, vars
    <2> QED
        BY <1>t, <2>1, SameRows, Stutters DEF Streamed
<1> QED
    BY <1>1, <1>2

LEMMA LatchInit == Init => Latch!Init
<1> SUFFICES ASSUME Init PROVE Latch!Init
    OBVIOUS
<1>1. \A e \in Executions : ~Active(e) /\ Streamed(e) = 0
    BY DEF Init, NoExecution, Active, Present, Streamed, MotionActions
<1>2. LatchNow = None /\ DrawnNow = {}
    BY <1>1, LatchFree DEF DrawnNow
<1>3. jobs = [j \in Jobs |-> "READY_TO_RUN"]
    BY DEF Init
<1> QED
    BY <1>2, <1>3 DEF Latch!Init, LatchNow, DrawnNow

\* The execution chain, with its approvals, admissions, sessions, successors and
\* crashes, implements the latch: one job owns the machine, only its holder draws,
\* once, and only an approved release, a completion or nothing at all ends it.
THEOREM ChainImplementsLatch == Spec => ImplementsLatch
<1>1. FullInv /\ FullInv' /\ [Next]_vars => [Latch!Next]_(Latch!vars)
    <2> SUFFICES ASSUME FullInv, FullInv', [Next]_vars
                 PROVE  Latch!Next \/ UNCHANGED Latch!vars
        OBVIOUS
    <2>1. IInv'
        BY DEF FullInv, SafeInv
    <2> QED
        BY <2>1, LifecycleLatch, CommandLatch, DriveLatch, BesideLatch DEF Next
<1> QED
    BY <1>1, LatchInit, Fully, PTL DEF Spec, ImplementsLatch, Latch!Spec
=============================================================================
