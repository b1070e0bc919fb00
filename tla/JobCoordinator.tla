--------------------------- MODULE JobCoordinator ---------------------------
(***************************************************************************)
(* Drawing jobs: the durable job rows, the offline chain that takes a job  *)
(* from its submission through workers and a review to READY_TO_RUN, and   *)
(* the coordinator thread that admits commands, drives the chain, cancels  *)
(* and publishes projections while requests, the machine thread, a stop    *)
(* and a crash of the process interleave with it.                          *)
(*                                                                         *)
(* Source: service/job_coordinator.py, application/offline_job_chain.py,   *)
(* domain/jobs/states.py.  The machine thread and the worker processes are *)
(* external here: what they may do to a job row is all that is kept.       *)
(***************************************************************************)
EXTENDS Naturals, Sequences

CONSTANTS
    Jobs,           \* job identities
    Mode,           \* Mode[j]: "direct", "auto" or "image_edit" (workflow), or "check"
    Requests,       \* commands: records [kind, job, id], plus approved for a review
    MaxCancels,     \* cancellation requests
    MaxClaims,      \* executions the machine begins
    MaxRestarts,    \* crashes and restarts
    MaxFaults,      \* calls of a repository or of the artifact store that raise
    MaxHandlerFaults \* such calls that raise inside a failure handler

Kinds == {"SUBMIT", "CONTINUE_REVIEW"}

ASSUME ModeAssumption == Mode \in [Jobs -> {"direct", "auto", "image_edit", "check"}]
ASSUME RequestAssumption ==
    Requests \subseteq [kind : Kinds, job : Jobs, id : Nat, approved : BOOLEAN]
ASSUME BoundAssumption ==
    /\ MaxCancels \in Nat /\ MaxClaims \in Nat /\ MaxRestarts \in Nat /\ MaxFaults \in Nat
    /\ MaxHandlerFaults \in Nat

VARIABLES
    rows,      \* rows[j]: the durable job row and the roles of its artifact rows
    known,     \* known[j]: roles whose path the chain holds in memory
    proj,      \* proj[j]: the published projection
    token,     \* token[j]: the cancellation event is set
    box,       \* the mailbox
    env,       \* env[r]: the envelope of r
    late,      \* requests whose acknowledgement deadline has passed
    caller,    \* caller[r]: the thread that called submit
    pc,        \* where the coordinator thread is
    item,      \* the mailbox item it holds
    snap,      \* the job record it read last
    work,      \* the worker that runs, and whether it is the second attempt
    stopper,   \* the thread that calls stop()
    stopping,  \* _stopping
    owned,     \* owned[j]: an execution of j holds the machine
    unsent,    \* outcomes the machine thread committed and has not announced
    committed, \* history: requests whose commit happened
    driven,    \* history: requests on whose behalf the chain was driven
    paid,      \* history: paid[j] counts the calls of the image provider
    used       \* how much of each bound is used

store == <<rows, committed, paid>>
memory == <<known, proj, token>>
thread == <<pc, item, snap, work>>
requests == <<env, late, caller>>
machine == <<owned, unsent>>
stopVars == <<stopper, stopping>>
vars == <<store, memory, box, requests, thread, stopVars, machine, driven, used>>

-----------------------------------------------------------------------------
(* Job states *)

InFlight == {"QUEUED", "PREPARING_IMAGE", "IMAGE_READY", "PLANNING_PATHS",
             "PATH_PLAN_READY", "BUILDING_GCODE", "VALIDATING_GCODE"}
Rest == {"READY_TO_RUN", "BLOCKED", "FAILED", "CANCELLED", "COMPLETED"}
States == InFlight \cup Rest \cup {"NONE", "RECOVERY_REQUIRED"}
Roles == {"input", "route", "raw", "processed", "path_plan", "gcode", "readiness"}
Blockers == {"none", "REVIEW_REQUIRED", "worker"}
Rows == [state : States, rev : Nat, blocker : Blockers, roles : SUBSET Roles]
NoRow == [state |-> "NONE", rev |-> 0, blocker |-> "none", roles |-> {}]
Queued == [NoRow EXCEPT !.state = "QUEUED"]

Progression ==
    {<<"QUEUED", "PREPARING_IMAGE">>, <<"PREPARING_IMAGE", "IMAGE_READY">>,
     <<"IMAGE_READY", "PLANNING_PATHS">>, <<"PLANNING_PATHS", "PATH_PLAN_READY">>,
     <<"PATH_PLAN_READY", "BUILDING_GCODE">>, <<"BUILDING_GCODE", "VALIDATING_GCODE">>,
     <<"VALIDATING_GCODE", "READY_TO_RUN">>}
CheckProgression ==
    {<<"QUEUED", "VALIDATING_GCODE">>, <<"QUEUED", "FAILED">>} \cup
    {<<"VALIDATING_GCODE", s>> : s \in {"COMPLETED", "BLOCKED", "FAILED"}}

Cancellable(s) == s \notin {"NONE", "FAILED", "CANCELLED", "RECOVERY_REQUIRED", "COMPLETED"}
AwaitsReview(row) == row.state = "BLOCKED" /\ row.blocker = "REVIEW_REQUIRED"

\* allowed_transition
Allowed(j, row, to) ==
    \/ to = "CANCELLED" /\ Cancellable(row.state)
    \/ Mode[j] = "check" /\ <<row.state, to>> \in CheckProgression
    \/ Mode[j] # "check" /\ AwaitsReview(row) /\ to \in {"IMAGE_READY", "FAILED"}
    \/ /\ Mode[j] # "check" /\ row.state \in InFlight
       /\ to \in {"BLOCKED", "FAILED"} \/ <<row.state, to>> \in Progression

Moved(row, to, blocker, roles) ==
    [state |-> to, rev |-> row.rev + 1, blocker |-> blocker, roles |-> row.roles \cup roles]
Put(j, row) == rows' = [rows EXCEPT ![j] = row]

-----------------------------------------------------------------------------
(* Workers: which one a state runs, what it reads, what it leaves, what follows *)

Workers == {"none", "route", "prepare", "provider", "normalize", "plan", "build", "check"}
Idle == [kind |-> "none", again |-> FALSE, roles |-> {}]

\* A first attempt of w, after workers of the same state that left these roles.
Attempt(w, roles) == [kind |-> w, again |-> FALSE, roles |-> roles]

WorkerOf(j, s) ==
    CASE s = "PREPARING_IMAGE" -> CASE Mode[j] = "auto" -> "route"
                                    [] Mode[j] = "image_edit" -> "provider"
                                    [] OTHER -> "prepare"
      [] s = "PLANNING_PATHS" -> "plan"
      [] s = "BUILDING_GCODE" -> "build"
      [] s = "VALIDATING_GCODE" -> "check"
      [] OTHER -> "none"

\* The worker that may follow another one before the job's state changes.
Follows(w) == CASE w = "route" -> {"prepare", "provider"}
                [] w = "provider" -> {"normalize"}
                [] OTHER -> {}

Reads(w) == CASE w \in {"route", "prepare", "provider"} -> {"input"}
              [] w = "normalize" -> {"raw"}
              [] w = "plan" -> {"processed"}
              [] w = "build" -> {"path_plan"}
              [] w = "check" -> {"gcode"}
              [] OTHER -> {}

Leaves(w) == CASE w = "route" -> {"route"}
               [] w = "prepare" -> {"raw", "processed"}
               [] w = "provider" -> {"raw"}
               [] w = "normalize" -> {"processed"}
               [] w = "plan" -> {"path_plan"}
               [] w = "build" -> {"gcode"}
               [] w = "check" -> {"readiness"}
               [] OTHER -> {}

\* A blocked check leaves its verdict; other blocked workers leave nothing kept here.
LeavesBlocked(w) == IF w = "check" THEN {"readiness"} ELSE {}

\* Mutated form of the next definition: a prepared image needs no review.
FinishedUnreviewed(j, row, roles) ==
    CASE row.state = "PREPARING_IMAGE" -> Moved(row, "IMAGE_READY", "none", roles)
      [] row.state = "PLANNING_PATHS" -> Moved(row, "PATH_PLAN_READY", "none", roles)
      [] row.state = "BUILDING_GCODE" -> Moved(row, "VALIDATING_GCODE", "none", roles)
      [] OTHER -> Moved(row, IF Mode[j] = "check" THEN "COMPLETED" ELSE "READY_TO_RUN",
                        "none", roles)

\* The row after the last worker of a state has succeeded.
Finished(j, row, roles) ==
    CASE row.state = "PREPARING_IMAGE" -> Moved(row, "BLOCKED", "REVIEW_REQUIRED", roles)
      [] row.state = "PLANNING_PATHS" -> Moved(row, "PATH_PLAN_READY", "none", roles)
      [] row.state = "BUILDING_GCODE" -> Moved(row, "VALIDATING_GCODE", "none", roles)
      [] OTHER -> Moved(row, IF Mode[j] = "check" THEN "COMPLETED" ELSE "READY_TO_RUN",
                        "none", roles)

\* The row after a step of advance that runs no worker; QUEUED imports the input.
Stepped(j, row) ==
    CASE row.state = "QUEUED" -> IF Mode[j] = "check"
                                 THEN Moved(row, "VALIDATING_GCODE", "none", {"gcode"})
                                 ELSE Moved(row, "PREPARING_IMAGE", "none", {"input"})
      [] row.state = "IMAGE_READY" -> Moved(row, "PLANNING_PATHS", "none", {})
      [] OTHER -> Moved(row, "BUILDING_GCODE", "none", {})

\* A crashed worker is run once more, never the image provider.
Retries(w) == ~w.again /\ w.kind # "provider"

-----------------------------------------------------------------------------
(* Envelopes *)

NoEnvelope == [st |-> "NONE", error |-> FALSE]
Fresh == [st |-> "QUEUED", error |-> FALSE]

\* Mutated form of the next definition: an abandoned envelope is acknowledged.
AckedAnyway(r, v) == [v EXCEPT !.st = "ACKNOWLEDGED"]

\* acknowledge
Acked(r, v) ==
    IF v.st = "ABANDONED" THEN v
    ELSE [v EXCEPT !.st = IF r \in late THEN "ABANDONED" ELSE "ACKNOWLEDGED"]

\* commit_allowed, and the envelope it leaves behind
CommitAllowed(r) == env[r].st = "QUEUED" /\ r \notin late
Checked(r) == [env EXCEPT ![r].st = IF @ = "QUEUED" /\ r \in late THEN "ABANDONED" ELSE @]

\* Mutated form of the next definition: the other coordinator's name for the state.
WithdrawnInstead(v) == IF v.st = "ACKNOWLEDGED" THEN v ELSE [v EXCEPT !.st = "WITHDRAWN"]

\* abandon_unacknowledged
Abandoned(v) == IF v.st = "ACKNOWLEDGED" THEN v ELSE [v EXCEPT !.st = "ABANDONED"]

-----------------------------------------------------------------------------
(* Projections, the mailbox, the thread *)

NoProj == [row |-> NoRow, asked |-> FALSE]
Nothing == [tag |-> "nothing"]
StopItem == [tag |-> "stop"]
Wake(j) == [tag |-> "cancel", job |-> j]
External(j) == [tag |-> "external", job |-> j]
Command(r) == [tag |-> "command", req |-> r]

Alive == pc \notin {"ended", "absent"}
Accepting == Alive /\ ~stopping
Serving == Accepting /\ pc # "starting"
Job == item.req.job
Cancelled(row) == row.state = "CANCELLED"

\* _publish: a cancelled job shows no pending request, others keep theirs.
Published(j, row) ==
    [proj EXCEPT ![j] = [row |-> row, asked |-> @.asked /\ ~Cancelled(row)]]
Shown(j, row) == [proj EXCEPT ![j] = [row |-> row, asked |-> FALSE]]

Count(what) == used' = [used EXCEPT ![what] = @ + 1]
Fault == used.faults < MaxFaults /\ Count("faults")
SecondFault == used.handlers < MaxHandlerFaults /\ Count("handlers")
HandlerFailed == used.handlers > 0
At(where) == pc = where
Rests == /\ pc' = "idle" /\ item' = Nothing /\ work' = Idle /\ snap' = NoRow
Goes(where) == pc' = where /\ UNCHANGED <<item, work, snap>>
Took(tag) == pc = "idle" /\ box # <<>> /\ Head(box).tag = tag /\ box' = Tail(box)

-----------------------------------------------------------------------------
(* Request threads: submit and request_cancel *)

Submit(r) ==
    /\ caller[r] = "new" /\ pc # "starting"
    /\ IF Serving
       THEN /\ env' = [env EXCEPT ![r] = Fresh] /\ box' = Append(box, Command(r))
            /\ caller' = [caller EXCEPT ![r] = "waiting"]
       ELSE caller' = [caller EXCEPT ![r] = "DENIED"] /\ UNCHANGED <<env, box>>
    /\ UNCHANGED <<store, memory, late, thread, stopVars, machine, driven, used>>

Deadline(r) ==
    /\ env[r].st # "NONE" /\ r \notin late /\ late' = late \cup {r}
    /\ UNCHANGED <<store, memory, box, env, caller, thread, stopVars, machine, driven, used>>

Answer(r) == IF env[r].error THEN "ERROR" ELSE "RESULT"

WaitEnds(r) ==
    /\ caller[r] = "waiting" /\ env[r].st = "ACKNOWLEDGED"
    /\ caller' = [caller EXCEPT ![r] = Answer(r)]
    /\ UNCHANGED <<store, memory, box, env, late, thread, stopVars, machine, driven, used>>

\* The wait times out; an acknowledgement that came first still decides.
WaitExpires(r) ==
    /\ caller[r] = "waiting" /\ r \in late
    /\ env' = [env EXCEPT ![r] = Abandoned(@)]
    /\ caller' = [caller EXCEPT ![r] =
                     IF env'[r].st = "ABANDONED" THEN "TIMEOUT" ELSE Answer(r)]
    /\ UNCHANGED <<store, memory, box, late, thread, stopVars, machine, driven, used>>

RequestCancel(j) ==
    /\ Serving /\ used.cancels < MaxCancels /\ Cancellable(proj[j].row.state)
    /\ Count("cancels")
    /\ token' = [token EXCEPT ![j] = TRUE]
    /\ proj' = [proj EXCEPT ![j].asked = TRUE]
    /\ box' = Append(box, Wake(j))
    /\ UNCHANGED <<store, known, requests, thread, stopVars, machine, driven>>

-----------------------------------------------------------------------------
(* The coordinator thread: commands *)

\* A command already given up is skipped; before is the authoritative record.
TakeCommand ==
    /\ Took("command")
    /\ LET r == Head(box).req IN
       IF env[r].st = "ABANDONED" THEN Rests
       ELSE /\ pc' = "admit" /\ item' = Head(box) /\ snap' = rows[r.job] /\ UNCHANGED work
    /\ UNCHANGED <<store, memory, requests, stopVars, machine, driven, used>>

Admissible(r) ==
    IF r.kind = "SUBMIT" THEN snap.state = "NONE" ELSE AwaitsReview(snap) /\ r.approved

\* An error before anything was committed is the answer, and changes no row.
RefuseCommand ==
    /\ At("admit") \/ At("commit")
    /\ \/ At("admit") /\ ~Admissible(item.req) /\ UNCHANGED used
       \/ Fault
    /\ LET r == item.req IN
       env' = [env EXCEPT ![r] = Acked(r, [@ EXCEPT !.error = TRUE])]
    /\ Rests
    /\ UNCHANGED <<store, memory, box, late, caller, stopVars, machine, driven>>

\* commit_allowed is asked before the transaction and again inside it.
CheckCommand ==
    /\ At("admit") \/ At("checked")
    /\ At("admit") => Admissible(item.req)
    /\ env' = Checked(item.req)
    /\ IF CommitAllowed(item.req) THEN Goes(IF At("admit") THEN "checked" ELSE "commit")
       ELSE Rests
    /\ UNCHANGED <<store, memory, box, late, caller, stopVars, machine, driven, used>>

\* The row a command commits.
Admitted(r) ==
    IF r.kind = "SUBMIT" THEN Queued ELSE Moved(snap, "IMAGE_READY", "none", {})

\* The commit; it may be durable although the call raises.
CommitCommand ==
    /\ At("commit")
    /\ LET r == item.req IN
       /\ Put(r.job, Admitted(r)) /\ snap' = Admitted(r)
       /\ committed' = committed \cup {r}
    /\ \/ pc' = "acknowledge" /\ UNCHANGED used
       \/ pc' = "failBefore" /\ Fault
    /\ UNCHANGED <<memory, box, requests, item, work, stopVars, machine, driven, paid>>

\* _acknowledge_durable: the projection appears with the acknowledgement.
Acknowledge ==
    /\ At("acknowledge")
    /\ LET r == item.req IN
       /\ env' = [env EXCEPT ![r] = Acked(r, @)]
       /\ IF env'[r].st = "ACKNOWLEDGED"
          THEN proj' = Published(r.job, snap) /\ Goes("write")
          ELSE Goes("failAfter") /\ UNCHANGED proj
    /\ UNCHANGED <<store, known, token, box, late, caller, stopVars, machine, driven, used>>

\* The projection file is written and the drive begins, or the write raises.
WriteProjection ==
    /\ At("write")
    /\ \/ /\ Goes("drive") /\ proj' = Published(Job, snap)
          /\ driven' = driven \cup {item.req} /\ UNCHANGED used
       \/ Goes("failAfter") /\ Fault /\ UNCHANGED <<proj, driven>>
    /\ UNCHANGED <<store, known, token, box, requests, stopVars, machine>>

\* The revisions before and after differ, so that the answer is the failed job.
AnswerWithJob(r) == [env EXCEPT ![r] = Acked(r, @)]

\* _complete_pre_ack_failure after a commit that raised.
FailBefore ==
    /\ At("failBefore")
    /\ LET r == item.req
           row == Moved(rows[Job], "FAILED", "none", {})
       IN \/ /\ Put(Job, row) /\ proj' = Published(Job, row)
             /\ env' = AnswerWithJob(r) /\ UNCHANGED used
          \/ /\ SecondFault /\ (Put(Job, row) \/ UNCHANGED rows)
             /\ \/ /\ env' = AnswerWithJob(r) /\ proj' = Shown(Job, rows'[Job])
                \/ /\ env' = [env EXCEPT ![r] = Acked(r, [@ EXCEPT !.error = TRUE])]
                   /\ UNCHANGED proj
    /\ Rests
    /\ UNCHANGED <<committed, paid, known, token, box, late, caller, stopVars, machine, driven>>

\* _complete_post_ack_failure; a job that cannot fail any more is published as it is.
FailAfter ==
    /\ At("failAfter")
    /\ LET row == rows[Job]
           failed == IF Allowed(Job, row, "FAILED")
                     THEN Moved(row, "FAILED", "none", {}) ELSE row
       IN \/ Put(Job, failed) /\ proj' = Published(Job, failed) /\ UNCHANGED used
          \/ /\ SecondFault /\ (Put(Job, failed) \/ UNCHANGED rows)
             /\ proj' = [proj EXCEPT ![Job].row = rows'[Job]] \/ UNCHANGED proj
    /\ Rests
    /\ UNCHANGED <<committed, paid, known, token, box, requests, stopVars, machine, driven>>

-----------------------------------------------------------------------------
(* The coordinator thread: the drive *)

\* A committed step of the chain: its file and its projection are written, or raise.
Commits(row) ==
    /\ Put(Job, row) /\ snap' = row /\ work' = Idle /\ UNCHANGED item
    /\ \/ pc' = "drive" /\ proj' = Published(Job, row) /\ UNCHANGED used
       \/ pc' = "failAfter" /\ Fault /\ UNCHANGED proj

\* Anything that raises before the commit.
DriveRaises ==
    /\ At("work") \/ (At("drive") /\ snap.state \notin Rest)
    /\ Fault
    /\ pc' = "failAfter" /\ work' = Idle /\ UNCHANGED <<item, snap>>
    /\ UNCHANGED <<store, memory, box, requests, stopVars, machine, driven>>

DriveEnds ==
    /\ At("drive") /\ snap.state \in Rest /\ Rests
    /\ UNCHANGED <<store, memory, box, requests, stopVars, machine, driven, used>>

\* advance looks at the cancellation event first.
AdvanceCancels ==
    /\ At("drive") /\ snap.state \notin Rest /\ token[Job]
    /\ Commits(Moved(snap, "CANCELLED", "none", {}))
    /\ UNCHANGED <<committed, paid, known, token, box, requests, stopVars, machine, driven>>

AdvanceSteps ==
    /\ At("drive") /\ snap.state \notin Rest /\ ~token[Job]
    /\ WorkerOf(Job, snap.state) = "none"
    /\ LET row == Stepped(Job, snap) IN
       /\ Commits(row)
       /\ known' = [known EXCEPT ![Job] = @ \cup IF snap.state = "QUEUED" THEN row.roles ELSE {}]
    /\ UNCHANGED <<committed, paid, token, box, requests, stopVars, machine, driven>>

\* A worker is handed its inputs by path; a role without a known path raises.
Launch(w, roles) ==
    /\ IF Reads(w) \subseteq known'[Job]
       THEN pc' = "work" /\ work' = Attempt(w, roles)
       ELSE pc' = "failAfter" /\ work' = Idle
    /\ paid' = [paid EXCEPT ![Job] = @ + IF pc' = "work" /\ w = "provider" THEN 1 ELSE 0]
    /\ UNCHANGED <<item, snap>>

AdvanceWorks ==
    /\ At("drive") /\ snap.state \notin Rest /\ ~token[Job]
    /\ WorkerOf(Job, snap.state) # "none"
    /\ UNCHANGED known /\ Launch(WorkerOf(Job, snap.state), {})
    /\ UNCHANGED <<rows, committed, proj, token, box, requests, stopVars, machine, driven, used>>

\* The artifacts are promoted and remembered; another worker follows, or the state ends.
WorkerSucceeds ==
    /\ At("work")
    /\ known' = [known EXCEPT ![Job] = @ \cup Leaves(work.kind)]
    /\ LET roles == work.roles \cup Leaves(work.kind) IN
       IF Follows(work.kind) = {}
       THEN Commits(Finished(Job, snap, roles)) /\ UNCHANGED paid
       ELSE /\ \E w \in Follows(work.kind) : Launch(w, roles)
            /\ UNCHANGED <<rows, proj, used>>
    /\ UNCHANGED <<committed, token, box, requests, stopVars, machine, driven>>

WorkerBlocks ==
    /\ At("work")
    /\ known' = [known EXCEPT ![Job] = @ \cup LeavesBlocked(work.kind)]
    /\ Commits(Moved(snap, "BLOCKED", "worker", work.roles \cup LeavesBlocked(work.kind)))
    /\ UNCHANGED <<committed, paid, token, box, requests, stopVars, machine, driven>>

\* A failure, a timeout, an outcome that does not match its task or its contract.
WorkerFails ==
    /\ At("work") /\ Commits(Moved(snap, "FAILED", "none", {}))
    /\ UNCHANGED <<committed, paid, known, token, box, requests, stopVars, machine, driven>>

WorkerCrashes ==
    /\ At("work") /\ Retries(work)
    /\ work' = [work EXCEPT !.again = TRUE] /\ UNCHANGED <<pc, item, snap>>
    /\ paid' = [paid EXCEPT ![Job] = @ + IF work.kind = "provider" THEN 1 ELSE 0]
    /\ UNCHANGED <<rows, committed, memory, box, requests, stopVars, machine, driven, used>>

WorkerCancelled ==
    /\ At("work") /\ token[Job] /\ Commits(Moved(snap, "CANCELLED", "none", {}))
    /\ UNCHANGED <<committed, paid, known, token, box, requests, stopVars, machine, driven>>

-----------------------------------------------------------------------------
(* The coordinator thread: cancellations and publications *)

\* _process_cancel up to the read in chain.cancel
TakeCancel ==
    /\ Took("cancel")
    /\ LET j == Head(box).job
           p == proj[j]
       IN IF p.row.state \in {"NONE", "CANCELLED"}
          THEN Rests /\ proj' = [proj EXCEPT ![j].asked = FALSE]
          ELSE /\ pc' = "cancel" /\ item' = Head(box) /\ snap' = rows[j]
               /\ UNCHANGED <<work, proj>>
    /\ UNCHANGED <<store, known, token, requests, stopVars, machine, driven, used>>

\* The compare-and-set of transition_job, and the trigger on machine ownership.
CancelCommits(j) == Allowed(j, snap, "CANCELLED") /\ rows[j].rev = snap.rev /\ ~owned[j]

\* The rest of chain.cancel: an ended job is returned, others are moved or the call raises.
Cancel ==
    /\ At("cancel")
    /\ LET j == item.job
           row == Moved(snap, "CANCELLED", "none", {})
       IN \/ /\ snap.state \in {"CANCELLED", "FAILED", "COMPLETED"}
             /\ proj' = Shown(j, snap) /\ Rests /\ UNCHANGED <<rows, used>>
          \/ /\ snap.state \notin {"CANCELLED", "FAILED", "COMPLETED"}
             /\ CancelCommits(j) /\ Put(j, row)
             /\ \/ proj' = Shown(j, row) /\ Rests /\ UNCHANGED used
                \/ Goes("recover") /\ Fault /\ UNCHANGED proj
          \/ /\ Goes("recover") /\ UNCHANGED <<rows, proj>>
             /\ \/ /\ snap.state \notin {"CANCELLED", "FAILED", "COMPLETED"}
                   /\ ~CancelCommits(j) /\ UNCHANGED used
                \/ Fault
    /\ UNCHANGED <<committed, paid, known, token, box, requests, stopVars, machine, driven>>

\* Mutated form of the next definition: a shutdown's event is cleared too.
ClearedAlways(j) == [token EXCEPT ![j] = FALSE]

\* A failed cancellation takes its event back, unless stop() has set them all.
Cleared(j) == [token EXCEPT ![j] = @ /\ stopping]

\* Mutated form of the next definition: the pending request stays in the projection.
RecoveredKeeping(j) == Published(j, rows[j])

Recovered(j) == Shown(j, rows[j])

\* _recover_cancel_failure, and the fallback in _run when that raises as well
RecoverCancel ==
    /\ At("recover")
    /\ LET j == item.job IN
       \/ /\ token' = IF Cancelled(rows[j]) THEN token ELSE Cleared(j)
          /\ proj' = Recovered(j) /\ UNCHANGED used
       \/ /\ SecondFault /\ token' = Cleared(j)
          /\ proj' = [proj EXCEPT ![j].asked = FALSE]
    /\ Rests
    /\ UNCHANGED <<store, known, box, requests, stopVars, machine, driven>>

\* _publish_external reads; a read that raises drops the publication.
TakeExternal ==
    /\ Took("external")
    /\ \/ /\ pc' = "external" /\ item' = Head(box) /\ snap' = rows[Head(box).job]
          /\ UNCHANGED <<work, used>>
       \/ Rests /\ Fault
    /\ UNCHANGED <<store, memory, requests, stopVars, machine, driven>>

\* Mutated form of the next definition: one revision too far.
NewerByTwo(row, p) == row.rev > p.row.rev + 1

\* Mutated form of the next definition: the same revision is shown again.
NewerOrSame(row, p) == p.row.state = "NONE" \/ row.rev >= p.row.rev

Newer(row, p) == p.row.state = "NONE" \/ row.rev > p.row.rev

PublishExternal ==
    /\ At("external")
    /\ LET j == item.job IN
       proj' = IF Newer(snap, proj[j]) THEN Shown(j, snap) ELSE proj
    /\ Rests
    /\ UNCHANGED <<store, known, token, box, requests, stopVars, machine, driven, used>>

-----------------------------------------------------------------------------
(* Start, stop and crash *)

\* _rehydrate_artifacts, for the jobs that wait for a review
Rehydrated(row) == IF AwaitsReview(row) THEN row.roles ELSE {}

\* Mutated form of the next definition: IMAGE_READY is taken for a resting state.
ReconciledSome(row) ==
    IF row.state \in InFlight \ {"IMAGE_READY"} THEN Moved(row, "FAILED", "none", {}) ELSE row

Reconciled(row) == IF row.state \in InFlight THEN Moved(row, "FAILED", "none", {}) ELSE row

\* initialize, reconcile_inflight_jobs and the first publication; a review whose
\* artifacts are damaged fails its job.
StartReady ==
    /\ At("starting")
    /\ \E damaged \in SUBSET {j \in Jobs : AwaitsReview(rows[j])} :
       /\ IF damaged = {} THEN UNCHANGED used ELSE Fault
       /\ rows' = [j \in Jobs |-> IF j \in damaged THEN Moved(rows[j], "FAILED", "none", {})
                                  ELSE Reconciled(rows[j])]
    /\ known' = [j \in Jobs |-> Rehydrated(rows'[j])]
    /\ proj' = [j \in Jobs |-> [row |-> rows'[j], asked |-> FALSE]]
    /\ pc' = "idle"
    /\ UNCHANGED <<committed, paid, token, box, requests, item, snap, work, stopVars, machine, driven>>

\* Startup raises after it has reconciled some of the jobs; the thread ends.
StartFails ==
    /\ At("starting") /\ Fault
    /\ \E some \in SUBSET Jobs :
       rows' = [j \in Jobs |-> IF j \in some THEN Reconciled(rows[j]) ELSE rows[j]]
    /\ pc' = "absent"
    /\ UNCHANGED <<committed, paid, memory, box, requests, item, snap, work, stopVars, machine, driven>>

StopBegins ==
    /\ stopper = "none" /\ pc \notin {"starting", "absent"}
    /\ stopper' = "joining" /\ stopping' = TRUE
    /\ token' = [j \in Jobs |-> TRUE]
    /\ box' = Append(box, StopItem)
    /\ UNCHANGED <<store, known, proj, requests, thread, machine, driven, used>>

TakeStop ==
    /\ Took("stop") /\ pc' = "ended" /\ UNCHANGED <<item, snap, work>>
    /\ UNCHANGED <<store, memory, requests, stopVars, machine, driven, used>>

StopReturns ==
    /\ stopper = "joining" /\ pc = "ended"
    /\ stopper' = "done" /\ stopping' = FALSE
    /\ UNCHANGED <<store, memory, box, requests, thread, machine, driven, used>>

\* The join gives up after ten seconds; the coordinator stays as it is.
StopTimesOut ==
    /\ stopper = "joining" /\ pc # "ended" /\ stopper' = "gave up"
    /\ UNCHANGED <<store, memory, box, requests, thread, stopping, machine, driven, used>>

\* The process dies, or start() is called again after stop(): memory is lost, rows are not.
Restart ==
    /\ used.restarts < MaxRestarts /\ Count("restarts")
    /\ pc' = "starting" /\ item' = Nothing /\ snap' = NoRow /\ work' = Idle
    /\ known' = [j \in Jobs |-> {}] /\ proj' = [j \in Jobs |-> NoProj]
    /\ token' = [j \in Jobs |-> FALSE] /\ box' = <<>>
    /\ env' = [r \in Requests |-> NoEnvelope] /\ late' = {}
    /\ caller' = [r \in Requests |-> IF caller[r] = "waiting" THEN "LOST" ELSE caller[r]]
    /\ stopper' = "none" /\ stopping' = FALSE /\ unsent' = {}
    /\ UNCHANGED <<store, owned, driven>>

-----------------------------------------------------------------------------
(* The machine thread, as far as it touches job rows *)

MachineClaims(j) ==
    /\ used.claims < MaxClaims /\ Count("claims")
    /\ rows[j].state \in {"READY_TO_RUN", "RECOVERY_REQUIRED"} /\ ~owned[j]
    /\ owned' = [owned EXCEPT ![j] = TRUE]
    /\ UNCHANGED <<store, memory, box, requests, thread, stopVars, unsent, driven>>

\* An execution that ends before it moves the machine leaves the row alone.
MachineReleases(j) ==
    /\ owned[j] /\ owned' = [owned EXCEPT ![j] = FALSE]
    /\ UNCHANGED <<store, memory, box, requests, thread, stopVars, unsent, driven, used>>

MachineOutcome(j) ==
    /\ owned[j] /\ owned' = [owned EXCEPT ![j] = FALSE]
    /\ \E to \in {"COMPLETED", "RECOVERY_REQUIRED"} : Put(j, Moved(rows[j], to, "none", {}))
    /\ unsent' = unsent \cup {j}
    /\ UNCHANGED <<committed, paid, memory, box, requests, thread, stopVars, driven, used>>

\* publish_external: refused while the coordinator does not accept.
MachinePublishes(j) ==
    /\ j \in unsent /\ unsent' = unsent \ {j}
    /\ box' = IF Accepting THEN Append(box, External(j)) ELSE box
    /\ UNCHANGED <<store, memory, requests, thread, stopVars, owned, driven, used>>

-----------------------------------------------------------------------------
(* The specification *)

Init ==
    /\ rows = [j \in Jobs |-> NoRow] /\ known = [j \in Jobs |-> {}]
    /\ proj = [j \in Jobs |-> NoProj] /\ token = [j \in Jobs |-> FALSE]
    /\ box = <<>> /\ env = [r \in Requests |-> NoEnvelope] /\ late = {}
    /\ caller = [r \in Requests |-> "new"]
    /\ pc = "starting" /\ item = Nothing /\ snap = NoRow /\ work = Idle
    /\ stopper = "none" /\ stopping = FALSE
    /\ owned = [j \in Jobs |-> FALSE] /\ unsent = {}
    /\ committed = {} /\ driven = {} /\ paid = [j \in Jobs |-> 0]
    /\ used = [cancels |-> 0, claims |-> 0, restarts |-> 0, faults |-> 0, handlers |-> 0]

Commanding ==
    \/ TakeCommand \/ RefuseCommand \/ CheckCommand \/ CommitCommand
    \/ Acknowledge \/ WriteProjection \/ FailBefore \/ FailAfter
Driving ==
    \/ DriveRaises \/ DriveEnds \/ AdvanceCancels \/ AdvanceSteps \/ AdvanceWorks
    \/ WorkerSucceeds \/ WorkerBlocks \/ WorkerFails \/ WorkerCrashes \/ WorkerCancelled
Cancelling == TakeCancel \/ Cancel \/ RecoverCancel
Coordinator ==
    \/ Commanding \/ Driving \/ Cancelling \/ TakeExternal \/ PublishExternal
    \/ StartReady \/ StartFails \/ TakeStop
Caller(r) == Submit(r) \/ Deadline(r) \/ WaitEnds(r) \/ WaitExpires(r)
Machine(j) ==
    MachineClaims(j) \/ MachineReleases(j) \/ MachineOutcome(j) \/ MachinePublishes(j)

Next ==
    \/ Coordinator
    \/ \E r \in Requests : Caller(r)
    \/ \E j \in Jobs : RequestCancel(j) \/ Machine(j)
    \/ StopBegins \/ StopReturns \/ StopTimesOut \/ Restart

Spec == Init /\ [][Next]_vars

\* Threads that are not blocked run, deadlines pass, and a worker ends (wait kills it
\* after its own timeout).  Nothing obliges a client, a stop, a fault or a crash to come.
FairSpec ==
    /\ Spec /\ WF_vars(Coordinator) /\ WF_vars(StopReturns)
    /\ \A r \in Requests : WF_vars(Deadline(r)) /\ WF_vars(WaitEnds(r)) /\ WF_vars(WaitExpires(r))

-----------------------------------------------------------------------------
(* Properties *)

Items ==
    {StopItem} \cup {Command(r) : r \in Requests}
    \cup {Wake(j) : j \in Jobs} \cup {External(j) : j \in Jobs}

Envelopes == [st : {"NONE", "QUEUED", "ACKNOWLEDGED", "ABANDONED"}, error : BOOLEAN]
Projections == [row : Rows, asked : BOOLEAN]
Tasks == [kind : Workers, again : BOOLEAN, roles : SUBSET Roles]
Counters == [cancels : 0 .. MaxCancels, claims : 0 .. MaxClaims,
             restarts : 0 .. MaxRestarts, faults : 0 .. MaxFaults, handlers : 0 .. MaxHandlerFaults]

\* Type invariant: the state stays in the types the code gives it.
TypeOK ==
    /\ rows \in [Jobs -> Rows] /\ known \in [Jobs -> SUBSET Roles]
    /\ proj \in [Jobs -> Projections]
    /\ token \in [Jobs -> BOOLEAN]
    /\ env \in [Requests -> Envelopes]
    /\ late \subseteq Requests
    /\ caller \in [Requests -> {"new", "waiting", "RESULT", "ERROR", "TIMEOUT", "DENIED", "LOST"}]
    /\ box \in Seq(Items) /\ item \in Items \cup {Nothing}
    /\ pc \in {"starting", "idle", "admit", "checked", "commit", "acknowledge", "write",
               "failBefore", "failAfter", "drive", "work", "cancel", "recover", "external",
               "ended", "absent"}
    /\ snap \in Rows
    /\ work \in Tasks
    /\ stopper \in {"none", "joining", "done", "gave up"} /\ stopping \in BOOLEAN
    /\ owned \in [Jobs -> BOOLEAN] /\ unsent \subseteq Jobs
    /\ committed \subseteq Requests /\ driven \subseteq Requests /\ paid \in [Jobs -> Nat]
    /\ used \in Counters

\* A client that is told of a timeout owes nothing: its command was never driven; one
\* that is told a result has a durable commit behind it, and an error answer means that
\* nothing was committed for the command, unless the handler of a failure has itself
\* failed.
AnswersHonest ==
    \A r \in Requests :
       /\ caller[r] = "TIMEOUT" => r \notin driven
       /\ caller[r] = "RESULT" => r \in committed
       /\ caller[r] = "ERROR" => r \notin committed \/ HandlerFailed

\* The job the thread works on for a command.
Busy(j) == item.tag = "command" /\ Job = j /\ pc # "idle"

\* No job is left in flight: the thread is driving it, or has yet to reconcile it, or
\* could not start at all, or the handler of its failure has itself failed.  In
\* particular a stop leaves none behind.
NoOrphan ==
    \A j \in Jobs : rows[j].state \in InFlight =>
       At("starting") \/ At("absent") \/ Busy(j) \/ HandlerFailed

\* A job becomes ready to run only with an approved review committed for it and with the
\* artifacts of every stage in its rows.
ReadyIsEarned ==
    \A j \in Jobs : rows[j].state \in {"READY_TO_RUN", "RECOVERY_REQUIRED"} =>
       /\ \E r \in committed : r.job = j /\ r.kind = "CONTINUE_REVIEW" /\ r.approved
       /\ {"input", "processed", "path_plan", "gcode", "readiness"} \subseteq rows[j].roles

\* The paid image provider is called at most once for a job, across crashes and retries.
ProviderOnce == \A j \in Jobs : paid[j] <= 1

\* A drive never misses a path: the inputs of the next worker are known, after a restart too.
InputsKnown ==
    At("drive") /\ snap.state \in InFlight =>
       Reads(WorkerOf(Job, snap.state)) \subseteq known[Job]

\* The stages of a job are earned, paid for once and fed: ReadyIsEarned, ProviderOnce
\* and InputsKnown.
StagesEarned == ReadyIsEarned /\ ProviderOnce /\ InputsKnown

\* No worker begins once stop() has been called, whatever was queued before it.
NoWorkWhileStopping == [][stopping /\ pc = "drive" => pc' # "work"]_vars

Untroubled == used.faults = 0 /\ used.handlers = 0

\* At rest, and if no call has raised, a job whose row is newer than its projection has
\* a publication on its way.
ProjectionCurrent ==
    \A j \in Jobs : At("idle") /\ Untroubled /\ rows[j] # proj[j].row =>
       \/ j \in unsent \/ stopping
       \/ \E i \in DOMAIN box : box[i] = External(j)

\* A job the machine is executing is not taken away from it by a cancellation.
MachineKeepsJob == \A j \in Jobs : owned[j] => rows[j].state \in {"READY_TO_RUN", "RECOVERY_REQUIRED"}

\* The job row, its projection and the machine agree: ProjectionCurrent and
\* MachineKeepsJob.
MachineAgreement == ProjectionCurrent /\ MachineKeepsJob

\* The thread is on a cancellation of j.
Resolving(j) == item = Wake(j) \/ (At("idle") /\ box # <<>> /\ Head(box) = Wake(j))

\* A status never goes back in the life of the process: not to an older revision, and at
\* the same revision not from a requested cancellation to none, unless the thread has
\* taken the request up, the job is cancelled or the handler of a failure has itself
\* failed.  A publication for the machine was read before, and may be shown after, a
\* cancellation is asked for.
StatusMonotone ==
    [][pc' # "starting" =>
         \A j \in Jobs :
            /\ proj'[j].row.rev >= proj[j].row.rev
            /\ proj[j].asked /\ ~proj'[j].asked =>
                 \/ proj'[j].row.rev > proj[j].row.rev \/ Cancelled(proj'[j].row)
                 \/ Resolving(j) \/ HandlerFailed']_vars

\* Every job in flight comes to rest, unless the service cannot start or the handler of a
\* failure has itself failed, and every accepted cancellation is resolved: the projection
\* does not show it for ever.  The commands are finitely many, so that a time comes when
\* this is so of all jobs.
JobsSettle ==
    []<>(\A j \in Jobs : /\ rows[j].state \in InFlight => At("absent") \/ HandlerFailed
                         /\ ~proj[j].asked)
=============================================================================
