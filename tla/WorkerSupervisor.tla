-------------------------- MODULE WorkerSupervisor --------------------------
(***************************************************************************)
(* The worker processes of the offline chain: SpawnProcessSupervisor       *)
(* (submit, wait, cancel, close), the child's main function, the thread    *)
(* that reads the outcome pipe, and OfflineJobChain._execute, which runs   *)
(* one step of a job in a child, once more after a crash, and promotes     *)
(* what the child wrote.                                                   *)
(*                                                                         *)
(* One thread, the job coordinator's, calls the supervisor; the child, the *)
(* reader and the passing of time are processes of their own.              *)
(***************************************************************************)
EXTENDS Naturals, FiniteSets

CONSTANTS
  Attempts,      \* the attempt numbers 1..n; the bound on submitted tasks
  MaxFaults      \* the bound on failing calls (start, join, reap, storage)

ASSUME WorkerAssumption == Attempts \subseteq Nat \ {0} /\ MaxFaults \in Nat

VARIABLES
  proc,          \* each attempt's child process
  exitcode,      \* "none" while it lives
  signal,        \* the strongest signal sent to it
  staging,       \* the child's staging directory and what is in it
  payload,       \* what the child has decided to send
  pipe,          \* how much of the frame is in the outcome pipe
  receiver,      \* the parent's end of the pipe is open
  reader,        \* the outcome reader thread and what it has read
  joined,        \* SpawnProcessHandle._joined
  outcome,       \* _WorkerRecord.outcome
  promoted,      \* the attempts whose artifacts were promoted
  wpc,           \* where the calling thread is
  cur,           \* the attempt it handles
  call,          \* the _execute call: the task's kind, the retry, the answer
  cause,         \* why the supervisor is reaping the child
  late,          \* the deadline of wait, or the grace of cancel, has passed
  cancelled,     \* the job's cancellation token is set
  closed,        \* SpawnProcessSupervisor._closed
  faults         \* failing calls so far

child == <<proc, exitcode, staging, payload, pipe>>
record == <<receiver, reader, joined, outcome>>
caller == <<wpc, cur, call, cause>>
clock == <<late, cancelled>>
workerVars == <<child, record, caller, clock, signal, promoted, closed, faults>>

-----------------------------------------------------------------------------
Kinds == {"provider", "other"}

\* What a child may send: a succeeded or blocked outcome with the artifacts of
\* its kind (a big frame does not fit the pipe's buffer); a failed one, or one
\* whose artifacts break the contract of its kind; a frame that does not parse,
\* has another task's identity or declares more than the limits allow; a frame
\* longer than MAX_OUTCOME_BYTES.
Payloads == {"good", "big", "failed", "bad", "huge"}

\* The outcomes of the supervisor's own making, by their error codes; INVALID
\* stands for the three codes of _decode_outcome.
Failures == {"CRASHED", "TIMEOUT", "DID_NOT_EXIT", "CANCELLED", "TOO_LARGE",
             "INVALID", "CHECK_FAILED"}

\* The child's outcomes that the supervisor passes on.
Accepted == {"good", "big", "failed"}

Alive(t) == proc[t] \notin {"none", "dead"}
Started(t) == proc[t] # "none"

\* Connection.poll: a frame has begun, or every writing end is closed.
Readable(t) ==
  receiver[t] /\ (pipe[t] # "empty" \/ proc[t] \in {"sent", "dead"})

Fault == faults < MaxFaults /\ faults' = faults + 1

Init ==
  /\ proc = [t \in Attempts |-> "none"]
  /\ exitcode = [t \in Attempts |-> "none"]
  /\ signal = [t \in Attempts |-> "none"]
  /\ staging = [t \in Attempts |-> "none"]
  /\ payload = [t \in Attempts |-> "none"]
  /\ pipe = [t \in Attempts |-> "empty"]
  /\ receiver = [t \in Attempts |-> FALSE]
  /\ reader = [t \in Attempts |-> "none"]
  /\ joined = [t \in Attempts |-> FALSE]
  /\ outcome = [t \in Attempts |-> "none"]
  /\ promoted = {}
  /\ wpc = "idle"
  /\ cur = 0
  /\ call = [kind |-> "other", retry |-> 0, answer |-> "none"]
  /\ cause = "none"
  /\ late = FALSE
  /\ cancelled = FALSE
  /\ closed = FALSE
  /\ faults = 0

-----------------------------------------------------------------------------
(***************************************************************************)
(* The child: _worker_process_main.                                        *)
(***************************************************************************)
\* The interpreter is up, the limits are installed and the inputs verified; a
\* limit or an input that fails becomes a failed outcome.
ChildBoots(t) ==
  /\ proc[t] = "boot"
  /\ \/ proc' = [proc EXCEPT ![t] = "work"] /\ UNCHANGED payload
     \/ proc' = [proc EXCEPT ![t] = "send"] /\ payload' = [payload EXCEPT ![t] = "failed"]
  /\ UNCHANGED <<exitcode, staging, pipe, record, caller, clock, signal, promoted, closed, faults>>

\* write_bundle: the task's outputs, one file after the other.
ChildWrites(t) ==
  /\ proc[t] = "work"
  /\ staging[t] \in {"empty", "part"}
  /\ staging' = [staging EXCEPT ![t] = IF @ = "empty" THEN "part" ELSE "whole"]
  /\ UNCHANGED <<proc, exitcode, payload, pipe, record, caller, clock, signal, promoted, closed, faults>>

\* The handler refuses its payload, its input or its own output, or raises for
\* another reason: execute_task answers with a failed outcome.
ChildRefuses(t) ==
  /\ proc[t] = "work"
  /\ payload' = [payload EXCEPT ![t] = "failed"]
  /\ proc' = [proc EXCEPT ![t] = "send"]
  /\ UNCHANGED <<exitcode, staging, pipe, record, caller, clock, signal, promoted, closed, faults>>

\* The handler returned: artifacts are declared only after write_bundle.
ChildConcludes(t) ==
  /\ proc[t] = "work" /\ staging[t] = "whole"
  /\ \E p \in Payloads : payload' = [payload EXCEPT ![t] = p]
  /\ proc' = [proc EXCEPT ![t] = "send"]
  /\ UNCHANGED <<exitcode, staging, pipe, record, caller, clock, signal, promoted, closed, faults>>

\* send_bytes: a frame larger than the pipe's buffer is complete only while
\* the parent reads it. The sender is closed, and a pipe whose receiver is
\* gone only ends the send.
ChildSends(t) ==
  /\ proc[t] = "send"
  /\ \/ /\ receiver[t] /\ pipe[t] = "empty"
        /\ pipe' = [pipe EXCEPT ![t] = "part"]
        /\ UNCHANGED proc
     \/ /\ receiver[t] /\ pipe[t] = "part"
        /\ payload[t] # "huge"
        /\ payload[t] = "big" => reader[t] = "reading"
        /\ pipe' = [pipe EXCEPT ![t] = "whole"]
        /\ proc' = [proc EXCEPT ![t] = "sent"]
     \/ /\ ~receiver[t]
        /\ proc' = [proc EXCEPT ![t] = "sent"]
        /\ UNCHANGED pipe
  /\ UNCHANGED <<exitcode, staging, payload, record, caller, clock, signal, promoted, closed, faults>>

\* The child ends: by itself after it closed its end of the pipe, or at any
\* moment by a crash, a resource limit or a signal of the supervisor.
ChildExits(t) ==
  /\ Alive(t)
  /\ proc' = [proc EXCEPT ![t] = "dead"]
  /\ \/ proc[t] = "sent" /\ exitcode' = [exitcode EXCEPT ![t] = "zero"]
     \/ exitcode' = [exitcode EXCEPT ![t] = "bad"]
  /\ UNCHANGED <<staging, payload, pipe, record, caller, clock, signal, promoted, closed, faults>>

\* The kernel delivers a signal of the supervisor.
SignalKills(t) ==
  /\ Alive(t) /\ signal[t] # "none"
  /\ proc' = [proc EXCEPT ![t] = "dead"]
  /\ exitcode' = [exitcode EXCEPT ![t] = "bad"]
  /\ UNCHANGED <<staging, payload, pipe, record, caller, clock, signal, promoted, closed, faults>>

Child(t) == ChildBoots(t) \/ ChildWrites(t) \/ ChildRefuses(t) \/ ChildConcludes(t)
            \/ ChildSends(t) \/ ChildExits(t)

-----------------------------------------------------------------------------
(***************************************************************************)
(* The outcome reader thread: _read_outcome.                               *)
(***************************************************************************)
\* recv_bytes: a frame over the limit closes the receiver, an end of file in
\* the middle of a frame is a crash, and a receiver closed under the thread
\* may cost it a frame it could have read.
ReadOutcome(t) ==
  /\ reader[t] = "reading"
  /\ \/ /\ pipe[t] = "whole"
        /\ reader' = [reader EXCEPT ![t] = "payload"]
        /\ UNCHANGED receiver
     \/ /\ pipe[t] = "part" /\ payload[t] = "huge"
        /\ reader' = [reader EXCEPT ![t] = "toolarge"]
        /\ receiver' = [receiver EXCEPT ![t] = FALSE]
     \/ /\ pipe[t] # "whole" /\ proc[t] \in {"sent", "dead"}
        /\ reader' = [reader EXCEPT ![t] = "crashed"]
        /\ UNCHANGED receiver
     \/ /\ ~receiver[t]
        /\ reader' = [reader EXCEPT ![t] = "crashed"]
        /\ UNCHANGED receiver
  /\ UNCHANGED <<child, joined, outcome, caller, clock, signal, promoted, closed, faults>>

ReadComplete(t) == reader[t] \in {"payload", "toolarge", "crashed"}

\* _receive_pending's first half: the thread is started once the pipe has
\* something to read.
StartReader(t) ==
  reader' = IF reader[t] = "none" /\ Readable(t)
            THEN [reader EXCEPT ![t] = "reading"] ELSE reader

-----------------------------------------------------------------------------
(***************************************************************************)
(* _execute up to the wait.                                                *)
(***************************************************************************)
others == <<child, record, clock, signal, promoted, closed>>

Goto(l) == wpc' = l

\* wait and cancel keep their deadline in a local variable, which ends with
\* their loop.
Leave(l) == Goto(l) /\ late' = FALSE

\* A call of the chain ends with an exception.
Raise(code) == call' = [call EXCEPT !.answer = code]

\* _execute is entered for one step of a job; the job's cancellation token is
\* the one of this call. The bound leaves room for the retry.
Execute(kind) ==
  /\ wpc = "idle" /\ cur + (IF kind = "provider" THEN 1 ELSE 2) \in Attempts
  /\ Goto("stage")
  /\ call' = [kind |-> kind, retry |-> 0, answer |-> "none"]
  /\ cancelled' = FALSE
  /\ UNCHANGED <<child, record, cur, cause, late, signal, promoted, closed, faults>>

CreateStaging ==
  /\ wpc = "stage" /\ cur + 1 \in Attempts
  /\ cur' = cur + 1
  /\ staging' = [staging EXCEPT ![cur + 1] = "empty"]
  /\ Goto("submit")
  /\ UNCHANGED <<proc, exitcode, payload, pipe, record, call, cause, clock, signal, promoted, closed, faults>>

CreateStagingFails ==
  /\ wpc = "stage" /\ Fault
  /\ Raise("raised") /\ Goto("idle")
  /\ UNCHANGED <<others, cur, cause>>

\* submit: the process is started, the parent's copy of the sender is closed
\* and the record is kept; wait's deadline starts.
Submit ==
  /\ wpc = "submit"
  /\ proc' = [proc EXCEPT ![cur] = "boot"]
  /\ receiver' = [receiver EXCEPT ![cur] = TRUE]
  /\ late' = FALSE
  /\ Goto("loop")
  /\ UNCHANGED <<exitcode, staging, payload, pipe, reader, joined, outcome, cur, call, cause,
                 cancelled, signal, promoted, closed, faults>>

\* An input artifact is missing, or the task does not pass its own contract.
TaskRefused ==
  /\ wpc = "submit" /\ Fault
  /\ Raise("raised") /\ Goto("discard")
  /\ UNCHANGED <<others, cur, cause>>

\* The process does not start; both ends of the pipe are closed.
SubmitFails ==
  /\ wpc = "submit" /\ Fault
  /\ Raise("raised") /\ Goto("discard")
  /\ UNCHANGED <<others, cur, cause>>

-----------------------------------------------------------------------------
(***************************************************************************)
(* wait: one round of its loop is a look at the cancellation token, one at *)
(* the clock, one at the pipe and one at the process.                      *)
(***************************************************************************)
WaitCancels ==
  /\ wpc = "loop" /\ cancelled
  /\ Goto("cancel")
  /\ late' = FALSE
  /\ UNCHANGED <<child, record, cur, call, cause, cancelled, signal, promoted, closed, faults>>

WaitCheckFails ==
  /\ wpc = "loop" /\ Fault
  /\ Leave("terminate") /\ cause' = "CHECK_FAILED"
  /\ UNCHANGED <<child, record, cancelled, signal, promoted, closed, cur, call>>

\* Mutated form of the next definition: the deadline is not looked at.
WaitLooksForever ==
  /\ wpc = "loop" /\ ~cancelled
  /\ Goto("poll") /\ UNCHANGED cause
  /\ UNCHANGED <<others, cur, call, faults>>

WaitLooksAtClock ==
  /\ wpc = "loop" /\ ~cancelled
  /\ IF late THEN Leave("terminate") /\ cause' = "TIMEOUT"
             ELSE Goto("poll") /\ UNCHANGED <<late, cause>>
  /\ UNCHANGED <<child, record, cancelled, signal, promoted, closed, cur, call, faults>>

\* _receive_pending with the poll interval: it may return before the reader
\* is done.
WaitPolls ==
  /\ wpc = "poll"
  /\ StartReader(cur)
  /\ Goto(IF reader'[cur] = "none" THEN "alive" ELSE "await")
  /\ UNCHANGED <<child, receiver, joined, outcome, cur, call, cause, clock, signal, promoted, closed, faults>>

WaitReceives ==
  /\ wpc = "await"
  /\ Goto(IF ReadComplete(cur) THEN "join" ELSE "alive")
  /\ UNCHANGED <<others, cur, call, cause, faults>>

WaitLooksAtProcess ==
  /\ wpc = "alive"
  /\ IF Alive(cur) THEN Goto("loop") /\ UNCHANGED <<late, cause>>
                   ELSE Leave("mark") /\ cause' = "exited"
  /\ UNCHANGED <<child, record, cancelled, signal, promoted, closed, cur, call, faults>>

\* Mutated form of the next definition: the child is not joined once its
\* outcome has been read.
TakesOutcomeAtOnce ==
  /\ wpc = "join"
  /\ Goto("reap") /\ cause' = "received"
  /\ UNCHANGED <<others, cur, call, faults>>

\* _join_before_deadline: the child that has answered, or closed its pipe, has
\* until the deadline to exit.
JoinBeforeDeadline ==
  /\ wpc = "join"
  /\ \/ ~Alive(cur) /\ Leave("mark") /\ cause' = "received"
     \/ Alive(cur) /\ late /\ Leave("terminate") /\ cause' = "DID_NOT_EXIT"
  /\ UNCHANGED <<child, record, cancelled, signal, promoted, closed, cur, call, faults>>

\* The time of wait, or the grace of cancel, is over.
DeadlinePasses ==
  /\ wpc \in {"loop", "poll", "await", "alive", "join", "cancel"} /\ ~late
  /\ late' = TRUE
  /\ UNCHANGED <<child, record, caller, cancelled, signal, promoted, closed, faults>>

\* The coordinator thread's caller sets the token of the running job. Only the
\* loop of wait reads it: a later request is the same as one that comes while
\* the retry is staged.
CancelRequested ==
  /\ wpc \in {"stage", "submit", "loop", "poll", "await", "alive", "join"} /\ ~cancelled
  /\ cancelled' = TRUE
  /\ UNCHANGED <<child, record, caller, late, signal, promoted, closed, faults>>

-----------------------------------------------------------------------------
(***************************************************************************)
(* cancel, and the reaping that every way out of wait and cancel shares.   *)
(***************************************************************************)
\* During the grace the pipe is drained, so that a child blocked on a big
\* frame can finish.
CancelPolls ==
  /\ wpc = "cancel" /\ Alive(cur) /\ ~late
  /\ reader[cur] = "none" /\ Readable(cur)
  /\ StartReader(cur)
  /\ UNCHANGED <<child, receiver, joined, outcome, caller, clock, signal, promoted, closed, faults>>

CancelEnds ==
  /\ wpc = "cancel"
  /\ \/ Alive(cur) /\ late /\ Leave("terminate") /\ cause' = "CANCELLED"
     \/ ~Alive(cur) /\ Leave("mark") /\ cause' = "exited"
  /\ UNCHANGED <<child, record, cancelled, signal, promoted, closed, cur, call, faults>>

\* _terminate_and_reap: SIGTERM and a second, SIGKILL and a second.
Terminate ==
  /\ wpc = "terminate"
  /\ IF Alive(cur)
     THEN Goto("terminated") /\ signal' = [signal EXCEPT ![cur] = IF @ = "kill" THEN @ ELSE "term"]
     ELSE Goto("mark") /\ UNCHANGED signal
  /\ UNCHANGED <<child, record, cur, call, cause, clock, promoted, closed, faults>>

Kill ==
  /\ wpc = "terminated"
  /\ \/ ~Alive(cur) /\ Goto("mark") /\ UNCHANGED signal
     \/ Alive(cur) /\ Goto("killed") /\ signal' = [signal EXCEPT ![cur] = "kill"]
  /\ UNCHANGED <<child, record, cur, call, cause, clock, promoted, closed, faults>>

Reaped ==
  /\ wpc = "killed" /\ ~Alive(cur)
  /\ Goto("mark")
  /\ UNCHANGED <<others, cur, call, cause, faults>>

\* Where an exception of wait, cancel or close leaves the thread: _execute
\* discards the staging directory, close ends without closing.
Unwind ==
  /\ cause' = "none"
  /\ IF call.answer = "closing" THEN UNCHANGED call /\ Goto("over")
                                ELSE Raise("raised") /\ Goto("discard")

\* WORKER_REAP_FAILED: the child is still there a second after SIGKILL.
ReapFails ==
  /\ wpc = "killed" /\ Alive(cur) /\ Fault
  /\ Unwind
  /\ UNCHANGED <<others, cur>>

\* _mark_joined: what is left in the pipe of the dead child is read first; the
\* reader is then joined.
MarkJoined ==
  /\ wpc = "mark"
  /\ StartReader(cur)
  /\ Goto("reap")
  /\ UNCHANGED <<child, receiver, joined, outcome, cur, call, cause, clock, signal, promoted, closed, faults>>

\* The reader outlives a second's join and the receiver is closed under it.
ReaderStarves ==
  /\ wpc = "reap" /\ reader[cur] = "reading" /\ receiver[cur] /\ Fault
  /\ receiver' = [receiver EXCEPT ![cur] = FALSE]
  /\ UNCHANGED <<child, reader, joined, outcome, caller, clock, signal, promoted, closed>>

\* WORKER_READER_REAP_FAILED: the same starvation outlives the second join.
ReaderReapFails ==
  /\ wpc = "reap" /\ reader[cur] = "reading" /\ ~receiver[cur]
  /\ Unwind
  /\ UNCHANGED <<others, cur, faults>>

\* _decode_outcome: strict JSON, the task's identity, the artifact limits.
Decoded(p) == IF p \in Accepted THEN p ELSE "INVALID"

\* Mutated form of the next definition: the exit code is not looked at.
ConclusionByFrame(t) ==
  CASE cause \notin {"exited", "received"} -> cause
    [] reader[t] = "payload" -> Decoded(payload[t])
    [] reader[t] = "toolarge" -> "TOO_LARGE"
    [] OTHER -> "CRASHED"

\* The outcome of the reaped child. A child found dead is judged by its exit
\* code before its frame; one that was received by its frame first.
Conclusion(t) ==
  CASE cause \notin {"exited", "received"} -> cause
    [] reader[t] = "payload" /\ exitcode[t] = "zero" -> Decoded(payload[t])
    [] reader[t] = "toolarge" /\ (exitcode[t] = "zero" \/ cause = "received") -> "TOO_LARGE"
    [] OTHER -> "CRASHED"

\* The process and its reader are joined and the receiver is closed, which is
\* the end of the pipe; the outcome is kept and returned, to close if it is close that cancels.
\* A failed look at the token is raised again after its outcome was kept.
Finish ==
  /\ wpc = "reap" /\ reader[cur] # "reading"
  /\ joined' = [joined EXCEPT ![cur] = TRUE]
  /\ receiver' = [receiver EXCEPT ![cur] = FALSE]
  /\ outcome' = [outcome EXCEPT ![cur] = Conclusion(cur)]
  /\ IF call.answer = "closing" THEN Goto("close") /\ UNCHANGED call
     ELSE IF cause = "CHECK_FAILED" THEN Goto("discard") /\ Raise("raised")
     ELSE Goto("judge") /\ UNCHANGED call
  /\ cause' = "none"
  /\ pipe' = [pipe EXCEPT ![cur] = "empty"]
  /\ payload' = [payload EXCEPT ![cur] = "none"]
  /\ reader' = [reader EXCEPT ![cur] = "none"]
  /\ signal' = [signal EXCEPT ![cur] = "none"]
  /\ UNCHANGED <<proc, exitcode, staging, cur, clock, promoted, closed, faults>>

-----------------------------------------------------------------------------
(***************************************************************************)
(* _execute after the wait.                                                *)
(***************************************************************************)
\* Mutated form of the next definition: a crash is retried without a limit.
RetriesAlways(o) == o = "CRASHED" /\ call.kind # "provider"

\* A crash of any worker but the provider's is retried once, in a new staging
\* directory with a new task.
Retries(o) == o = "CRASHED" /\ call.kind # "provider" /\ call.retry = 0

\* Its artifacts have the roles of its kind and status, and contents that pass
\* the production contract.
Promotable(o) == o \in {"good", "big"}

Retry ==
  /\ wpc = "judge" /\ Retries(outcome[cur])
  /\ call' = [call EXCEPT !.retry = @ + 1]
  /\ staging' = [staging EXCEPT ![cur] = "gone"]
  /\ Goto("stage")
  /\ UNCHANGED <<proc, exitcode, payload, pipe, record, cur, cause, clock, signal, promoted, closed, faults>>

\* validate_and_promote reads the declared files back from the directory.
Promote ==
  /\ wpc = "judge" /\ ~Retries(outcome[cur]) /\ Promotable(outcome[cur])
  /\ staging[cur] = "whole"
  /\ promoted' = promoted \cup {cur}
  /\ Raise(outcome[cur]) /\ Goto("discard")
  /\ UNCHANGED <<child, record, cur, cause, clock, signal, closed, faults>>

PromoteFails ==
  /\ wpc = "judge" /\ Promotable(outcome[cur]) /\ Fault
  /\ Raise("raised") /\ Goto("discard")
  /\ UNCHANGED <<others, cur, cause>>

\* A failed or cancelled outcome has no artifacts; an artifact that breaks its
\* contract becomes a failed outcome. Nothing is promoted.
Refuse ==
  /\ wpc = "judge" /\ ~Retries(outcome[cur]) /\ ~Promotable(outcome[cur])
  /\ Raise("failed") /\ Goto("discard")
  /\ UNCHANGED <<others, cur, cause, faults>>

\* The finally of _execute: discard_staging, which may itself raise.
Discard ==
  /\ wpc = "discard"
  /\ \/ staging' = [staging EXCEPT ![cur] = "gone"] /\ UNCHANGED <<call, faults>>
     \/ Fault /\ Raise("raised") /\ UNCHANGED staging
  /\ Goto("idle")
  /\ UNCHANGED <<proc, exitcode, payload, pipe, record, cur, cause, clock, signal, promoted, closed>>

-----------------------------------------------------------------------------
(***************************************************************************)
(* close, at the end of the coordinator thread.                            *)
(***************************************************************************)
\* The records close has to cancel.
Unsettled == {t \in Attempts : Started(t) /\ outcome[t] = "none"}

Close ==
  /\ wpc = "idle"
  /\ call' = [call EXCEPT !.answer = "closing"]
  /\ Goto("close")
  /\ UNCHANGED <<others, cur, cause, faults>>

\* cancel with no grace for one of them.
CloseCancels(t) ==
  /\ wpc = "close" /\ t \in Unsettled
  /\ cur' = t /\ late' = TRUE
  /\ Goto("cancel")
  /\ UNCHANGED <<child, record, call, cause, cancelled, signal, promoted, closed, faults>>

CloseEnds ==
  /\ wpc = "close" /\ Unsettled = {}
  /\ receiver' = [t \in Attempts |-> FALSE]
  /\ closed' = TRUE
  /\ Goto("over")
  /\ UNCHANGED <<child, reader, joined, outcome, cur, call, cause, clock, signal, promoted, faults>>

-----------------------------------------------------------------------------
Waiting == WaitCancels \/ WaitCheckFails \/ WaitLooksAtClock \/ WaitPolls \/ WaitReceives
           \/ WaitLooksAtProcess \/ JoinBeforeDeadline
Reaping == CancelPolls \/ CancelEnds \/ Terminate \/ Kill \/ Reaped \/ ReapFails \/ MarkJoined
           \/ ReaderStarves \/ ReaderReapFails \/ Finish
Judging == Retry \/ Promote \/ PromoteFails \/ Refuse \/ Discard
Starting == CreateStaging \/ CreateStagingFails \/ TaskRefused \/ Submit \/ SubmitFails
Closing == (\E t \in Attempts : CloseCancels(t)) \/ CloseEnds

\* The steps the calling thread takes by itself once it is in a call.
Caller == Starting \/ Waiting \/ Reaping \/ Judging \/ Closing

Next ==
  \/ Caller
  \/ \E kind \in Kinds : Execute(kind)
  \/ Close
  \/ DeadlinePasses
  \/ CancelRequested
  \/ \E t \in Attempts : Child(t) \/ SignalKills(t) \/ ReadOutcome(t)

Spec == Init /\ [][Next]_workerVars

\* The calling thread and the reader threads run, time passes and SIGKILL
\* kills. Nothing is assumed of a child: it may hang anywhere.
Fairness ==
  /\ WF_workerVars(Caller)
  /\ WF_workerVars(DeadlinePasses)
  /\ \A t \in Attempts :
       /\ WF_workerVars(ReadOutcome(t))
       /\ WF_workerVars(SignalKills(t) /\ signal[t] = "kill")

FairSpec == Spec /\ Fairness

-----------------------------------------------------------------------------
\* The type invariant: what the records of the supervisor may hold.
TypeOK ==
  /\ proc \in [Attempts -> {"none", "boot", "work", "send", "sent", "dead"}]
  /\ exitcode \in [Attempts -> {"none", "zero", "bad"}]
  /\ signal \in [Attempts -> {"none", "term", "kill"}]
  /\ staging \in [Attempts -> {"none", "empty", "part", "whole", "gone"}]
  /\ payload \in [Attempts -> Payloads \cup {"none"}]
  /\ pipe \in [Attempts -> {"empty", "part", "whole"}]
  /\ receiver \in [Attempts -> BOOLEAN]
  /\ reader \in [Attempts -> {"none", "reading", "payload", "toolarge", "crashed"}]
  /\ joined \in [Attempts -> BOOLEAN]
  /\ outcome \in [Attempts -> Accepted \cup Failures \cup {"none"}]
  /\ promoted \subseteq Attempts
  /\ wpc \in {"idle", "stage", "submit", "loop", "poll", "await", "alive", "join", "cancel",
              "terminate", "terminated", "killed", "mark", "reap", "judge", "discard", "close", "over"}
  /\ cur \in Attempts \cup {0}
  /\ call \in [kind : Kinds, retry : {0, 1},
               answer : Accepted \cup {"none", "raised", "closing"}]
  /\ cause \in Failures \cup {"none", "exited", "received"}
  /\ late \in BOOLEAN /\ cancelled \in BOOLEAN /\ closed \in BOOLEAN
  /\ faults \in 0 .. MaxFaults

\* An outcome exists only for a child that is dead and whose reader thread has
\* ended, however it was obtained: _assert_reaped never fires.
OutcomeReaped ==
  \A t \in Attempts : outcome[t] # "none" => joined[t] /\ proc[t] = "dead" /\ reader[t] # "reading"

\* A staging directory is discarded only when the child that writes into it is
\* dead or has SIGKILL pending: after a reap that failed the directory is gone
\* while the child is still there, but SIGTERM alone is never trusted.
StagingQuiet ==
  \A t \in Attempts : staging[t] = "gone" /\ Alive(t) => signal[t] = "kill"

\* An outcome is what happened, once and for all. The child's own is passed on
\* only from a whole frame under its task's identity; a child that ended with
\* exit code zero after its whole frame was in the pipe is taken for crashed (and
\* run again) only when its reader thread was starved and lost the frame; wait,
\* cancel and close never replace an outcome; and what is promoted was written by
\* a child that ended by itself with exit code zero.
OutcomeHonest ==
  [][/\ \A t \in Attempts :
          /\ outcome[t] # "none" => outcome'[t] = outcome[t]
          /\ outcome[t] = "none" /\ outcome'[t] # "none" =>
               /\ outcome'[t] \in Accepted => outcome'[t] = payload[t] /\ pipe[t] = "whole"
               /\ outcome'[t] = "CRASHED" /\ exitcode[t] = "zero" /\ pipe[t] = "whole"
                    => reader[t] = "crashed"
     /\ \A t \in promoted' : exitcode[t] = "zero" /\ outcome[t] \in {"good", "big"}]_workerVars

\* Two children of one chain never run at the same time unless the earlier one
\* survives its SIGKILL; a provider's task is never submitted a second time.
OneWorker ==
  /\ \A t, u \in Attempts : t < u /\ Started(u) /\ Alive(t) => signal[t] = "kill"
  /\ call.kind = "provider" => call.retry = 0

\* A supervisor that closed without an exception leaves no child and no reader
\* behind, not even one whose reaping had failed before.
ClosedQuiet == closed => \A t \in Attempts : ~Alive(t) /\ reader[t] # "reading"

\* The supervisor never loses hold of its children: OutcomeReaped, StagingQuiet,
\* OneWorker and ClosedQuiet together.
ChildrenHeld == OutcomeReaped /\ StagingQuiet /\ OneWorker /\ ClosedQuiet

\* Every call of _execute and close returns, whatever the child does: a child
\* that hangs before, in the middle of or after its frame is ended.
CallsReturn == (wpc \notin {"idle", "over"}) ~> (wpc \in {"idle", "over"})

=============================================================================
