------------------------- MODULE MachineCoordinator -------------------------
(***************************************************************************)
(* The machine coordinator: request threads put command envelopes into a   *)
(* mailbox and wait, with a deadline, for a durable acknowledgement; one   *)
(* owner thread takes the envelopes, has the execution chain admit and     *)
(* drive them, and publishes what the chain's rows show; a stop, or a      *)
(* fatal error, ends the owner thread while requests keep arriving.        *)
(*                                                                         *)
(* Source: service/machine_coordinator.py.  A step is one critical section *)
(* of the state lock or of an envelope's lock, one mailbox operation, or   *)
(* one call into the chain.  The chain itself is MachineExecution; here a  *)
(* call may commit, be refused, or raise.                                  *)
(***************************************************************************)
EXTENDS Naturals, Sequences

CONSTANTS
    Commands,   \* the commands requests submit, each in an envelope of its own
    StopItem    \* the _Stop message

ASSUME StopAssumption == StopItem \notin Commands

VARIABLES
    env,      \* env[c]: the _Envelope of c
    box,      \* the mailbox
    caller,   \* caller[c]: the request thread of c
    late,     \* commands whose absolute deadline has passed
    thread,   \* the owner thread
    stopper,  \* the thread that calls stop(); while "draining" it holds the state lock
    stopping, \* _stopping
    fatal,    \* _fatal_error is set
    arrived,  \* history: commands in the order they were put
    admitted, \* history: commands in the order the chain committed them
    shown     \* the commands whose commit the published projection reflects

vars == <<env, box, caller, late, thread, stopper, stopping, fatal, arrived, admitted, shown>>

-----------------------------------------------------------------------------
(* Envelopes *)

Range(s) == {s[i] : i \in DOMAIN s}
NoEnvelope == [st |-> "NONE", ack |-> FALSE, error |-> "NONE", ready |-> FALSE]
Fresh == [NoEnvelope EXCEPT !.st = "QUEUED"]

\* Mutated form of the next definition: a timeout withdraws in any state.
WithdrawnAnyway(v) == [v EXCEPT !.st = "WITHDRAWN"]

Withdrawn(v) == IF v.st = "QUEUED" THEN [v EXCEPT !.st = "WITHDRAWN"] ELSE v

Rejected(v) ==
    IF v.st = "QUEUED"
    THEN [st |-> "WITHDRAWN", ack |-> TRUE, error |-> "STOPPED", ready |-> TRUE] ELSE v

Failed(v, why) ==
    IF v.st \in {"WITHDRAWN", "COMMITTED"} THEN v
    ELSE [v EXCEPT !.ack = TRUE, !.error = why, !.ready = TRUE]

Committed(v) ==
    IF v.st = "WITHDRAWN" THEN v ELSE [v EXCEPT !.st = "COMMITTED", !.ack = TRUE]

\* still_requested reads the state and the clock under the envelope's lock.
StillRequested(c) == env[c].st = "ADMITTING" /\ c \notin late

LockFree == stopper # "draining"
Alive == thread.at \notin {"absent", "ended"}
Accepting == Alive /\ ~stopping /\ ~fatal
At(where) == thread.at = where
To(where) == thread' = [thread EXCEPT !.at = where]
Cmd == thread.cmd
Update(c, v) == env' = [env EXCEPT ![c] = v]

-----------------------------------------------------------------------------
(* A request thread: _submit and submit_observed *)

\* Mutated form of the next definition: a stack instead of a queue.
PutFirst(b, x) == <<x>> \o b

Put(b, x) == Append(b, x)

\* The put is under the state lock, so that none follows a stop or a fatal error.
Submit(c) ==
    /\ caller[c] = "new" /\ ~At("starting") /\ LockFree
    /\ IF Accepting
       THEN /\ Update(c, Fresh) /\ box' = Put(box, c) /\ arrived' = Append(arrived, c)
            /\ caller' = [caller EXCEPT ![c] = "waiting"]
       ELSE /\ caller' = [caller EXCEPT ![c] = "denied"]
            /\ UNCHANGED <<env, box, arrived>>
    /\ UNCHANGED <<late, thread, stopper, stopping, fatal, admitted, shown>>

Deadline(c) ==
    /\ env[c].st # "NONE" /\ c \notin late
    /\ late' = late \cup {c}
    /\ UNCHANGED <<env, box, caller, thread, stopper, stopping, fatal, arrived, admitted, shown>>

\* The wait ends with an acknowledgement: an error is raised, a result kept.
WaitEnds(c) ==
    /\ caller[c] = "waiting" /\ env[c].ack
    /\ caller' = [caller EXCEPT ![c] =
                     IF env[c].error = "NONE" THEN "observing" ELSE env[c].error]
    /\ UNCHANGED <<env, box, late, thread, stopper, stopping, fatal, arrived, admitted, shown>>

WaitExpires(c) ==
    /\ caller[c] = "waiting" /\ ~env[c].ack /\ c \in late
    /\ caller' = [caller EXCEPT ![c] = "expired"]
    /\ UNCHANGED <<env, box, late, thread, stopper, stopping, fatal, arrived, admitted, shown>>

\* Whatever came in the meantime, the request reports its timeout.
Withdraw(c) ==
    /\ caller[c] = "expired"
    /\ Update(c, Withdrawn(env[c]))
    /\ caller' = [caller EXCEPT ![c] = "TIMEOUT"]
    /\ UNCHANGED <<box, late, thread, stopper, stopping, fatal, arrived, admitted, shown>>

\* projection_ready has no deadline of its own.
Observe(c) ==
    /\ caller[c] = "observing" /\ env[c].ready
    /\ caller' = [caller EXCEPT ![c] = IF c \in shown THEN "RESULT" ELSE "UNSHOWN"]
    /\ UNCHANGED <<env, box, late, thread, stopper, stopping, fatal, arrived, admitted, shown>>

-----------------------------------------------------------------------------
(* The owner thread: _run, _process *)

StartReady ==
    /\ At("starting") /\ To("loop")
    /\ UNCHANGED <<env, box, caller, late, stopper, stopping, fatal, arrived, admitted, shown>>

\* A failing start shuts the chain down; start() joins the thread and drops it.
StartFails ==
    /\ At("starting") /\ To("absent")
    /\ UNCHANGED <<env, box, caller, late, stopper, stopping, fatal, arrived, admitted, shown>>

Take ==
    /\ At("loop") /\ box # <<>>
    /\ box' = Tail(box)
    /\ IF Head(box) = StopItem THEN To("leaving")
       ELSE thread' = [thread EXCEPT !.at = "taken", !.cmd = Head(box)]
    /\ UNCHANGED <<env, caller, late, stopper, stopping, fatal, arrived, admitted, shown>>

\* _claim_admission: one critical section decides between stop, withdrawal and
\* admission.
ClaimAdmission ==
    /\ At("taken") /\ LockFree
    /\ IF stopping THEN Update(Cmd, Rejected(env[Cmd])) /\ To("next")
       ELSE IF env[Cmd].st = "QUEUED"
            THEN Update(Cmd, [env[Cmd] EXCEPT !.st = "ADMITTING"]) /\ To("admitting")
            ELSE UNCHANGED env /\ To("next")
    /\ UNCHANGED <<box, caller, late, stopper, stopping, fatal, arrived, admitted, shown>>

\* The chain asks still_requested before its transaction.
CheckRequested ==
    /\ At("admitting") /\ StillRequested(Cmd) /\ To("checked")
    /\ UNCHANGED <<env, box, caller, late, stopper, stopping, fatal, arrived, admitted, shown>>

\* The command is refused, or no longer requested: nothing was committed.
AdmissionRefused ==
    /\ At("admitting") \/ At("checked")
    /\ Update(Cmd, Failed(env[Cmd], "REFUSED")) /\ To("next")
    /\ UNCHANGED <<box, caller, late, stopper, stopping, fatal, arrived, admitted, shown>>

\* The admission raises: a failing transaction, or a fatal persistence error.
AdmissionRaises ==
    /\ At("admitting") \/ At("checked")
    /\ Update(Cmd, Failed(env[Cmd], "FAILED")) /\ To("raised")
    /\ UNCHANGED <<box, caller, late, stopper, stopping, fatal, arrived, admitted, shown>>

\* The chain commits a result, or an admission that is to be driven.
AdmissionCommits ==
    /\ At("checked")
    /\ admitted' = Append(admitted, Cmd)
    /\ \E drives \in BOOLEAN : thread' = [thread EXCEPT !.at = "admitted", !.drives = drives]
    /\ UNCHANGED <<env, box, caller, late, stopper, stopping, fatal, arrived, shown>>

Acknowledge ==
    /\ At("admitted") /\ Update(Cmd, Committed(env[Cmd])) /\ To("acknowledged")
    /\ UNCHANGED <<box, caller, late, stopper, stopping, fatal, arrived, admitted, shown>>

ReadyAnyway(v, published) == [v EXCEPT !.ready = TRUE]

\* The finally block releases the observer whether or not the projection could
\* be refreshed; a failure ends the thread.
Publish ==
    /\ At("acknowledged") /\ LockFree
    /\ \E published \in BOOLEAN :
          /\ shown' = IF published THEN shown \cup {Cmd} ELSE shown
          /\ Update(Cmd, ReadyAnyway(env[Cmd], published))
          /\ To(IF ~published THEN "raised" ELSE IF thread.drives THEN "driving" ELSE "next")
    /\ UNCHANGED <<box, caller, late, stopper, stopping, fatal, arrived, admitted>>

\* drive_admitted_action, with the refresh that follows it.
Drive ==
    /\ At("driving") /\ LockFree
    /\ To("next") \/ To("raised")
    /\ UNCHANGED <<env, box, caller, late, stopper, stopping, fatal, arrived, admitted, shown>>

\* The loop goes on unless a stop was requested.
NextRound ==
    /\ At("next") /\ LockFree
    /\ To(IF stopping THEN "leaving" ELSE "loop")
    /\ UNCHANGED <<env, box, caller, late, stopper, stopping, fatal, arrived, admitted, shown>>

\* Mutated form of the next definition: the loop ends without a fatal mark.
NoFatalMark == fatal

FatalMark == TRUE

\* Whatever escapes _process fails the envelope and marks the coordinator.
SetFatal ==
    /\ At("raised") /\ LockFree
    /\ Update(Cmd, Failed(env[Cmd], "FAILED"))
    /\ fatal' = FatalMark /\ To("leaving")
    /\ UNCHANGED <<box, caller, late, stopper, stopping, arrived, admitted, shown>>

\* _reject_queued_commands takes one item at a time.
RejectOne ==
    /\ box # <<>> /\ box' = Tail(box)
    /\ env' = IF Head(box) = StopItem THEN env
              ELSE [env EXCEPT ![Head(box)] = Rejected(@)]

Drain ==
    /\ At("leaving") /\ RejectOne
    /\ UNCHANGED <<caller, late, thread, stopper, stopping, fatal, arrived, admitted, shown>>

Drained ==
    /\ At("leaving") /\ box = <<>> /\ To("closing")
    /\ UNCHANGED <<env, box, caller, late, stopper, stopping, fatal, arrived, admitted, shown>>

\* _shutdown_and_close reconciles and closes the chain; a failure is fatal.
ShutDown ==
    /\ At("closing") /\ LockFree
    /\ fatal' \in {fatal, TRUE} /\ To("ended")
    /\ UNCHANGED <<env, box, caller, late, stopper, stopping, arrived, admitted, shown>>

-----------------------------------------------------------------------------
(* stop() *)

\* Without a thread there is nothing to stop.
StopIdle ==
    /\ stopper = "idle" /\ At("absent")
    /\ stopper' = "done"
    /\ UNCHANGED <<env, box, caller, late, thread, stopping, fatal, arrived, admitted, shown>>

StopBegins ==
    /\ stopper = "idle" /\ ~At("starting") /\ ~At("absent")
    /\ stopping' = TRUE /\ stopper' = "draining"
    /\ UNCHANGED <<env, box, caller, late, thread, fatal, arrived, admitted, shown>>

StopDrains ==
    /\ stopper = "draining" /\ RejectOne
    /\ UNCHANGED <<caller, late, thread, stopper, stopping, fatal, arrived, admitted, shown>>

WakeUp(b) == IF Alive THEN Put(b, StopItem) ELSE b

StopWakes ==
    /\ stopper = "draining" /\ box = <<>>
    /\ box' = WakeUp(box) /\ stopper' = "joining"
    /\ UNCHANGED <<env, caller, late, thread, stopping, fatal, arrived, admitted, shown>>

\* Mutated form of the next definition: the join gives up at once.
JoinAtOnce == TRUE

JoinReturns == ~Alive

StopJoins ==
    /\ stopper = "joining" /\ JoinReturns
    /\ stopper' = "done" /\ stopping' = FALSE
    /\ UNCHANGED <<env, box, caller, late, thread, fatal, arrived, admitted, shown>>

-----------------------------------------------------------------------------
(* Specification *)

Init ==
    /\ env = [c \in Commands |-> NoEnvelope]
    /\ box = <<>>
    /\ caller = [c \in Commands |-> "new"]
    /\ late = {}
    /\ thread = [at |-> "starting", cmd |-> StopItem, drives |-> FALSE]
    /\ stopper = "idle" /\ stopping = FALSE /\ fatal = FALSE
    /\ arrived = <<>> /\ admitted = <<>> /\ shown = {}

Wait(c) == WaitEnds(c) \/ WaitExpires(c) \/ Withdraw(c) \/ Observe(c)

Process ==
    \/ CheckRequested \/ AdmissionRefused \/ AdmissionRaises \/ AdmissionCommits
    \/ Acknowledge \/ Publish \/ Drive

Run ==
    \/ StartReady \/ StartFails \/ Take \/ ClaimAdmission \/ Process \/ NextRound
    \/ SetFatal \/ Drain \/ Drained \/ ShutDown

StopRest == StopDrains \/ StopWakes \/ StopJoins

Next ==
    \/ \E c \in Commands : Submit(c) \/ Deadline(c) \/ Wait(c)
    \/ Run \/ StopIdle \/ StopBegins \/ StopRest

Spec == Init /\ [][Next]_vars

\* The threads that have begun run on: every chain call returns, and the state
\* lock is held only across mailbox operations.  Nobody has to submit, to stop
\* or to be late.
Fairness ==
    /\ WF_vars(Run) /\ WF_vars(StopRest)
    /\ \A c \in Commands : WF_vars(Wait(c))

FairSpec == Spec /\ Fairness

-----------------------------------------------------------------------------
(* Properties *)

Answers == {"denied", "STOPPED", "REFUSED", "FAILED", "TIMEOUT", "RESULT", "UNSHOWN"}
ThreadStates ==
    {"starting", "loop", "taken", "admitting", "checked", "admitted", "acknowledged",
     "driving", "next", "raised", "leaving", "closing", "ended", "absent"}

Envelopes ==
    [st : {"NONE", "QUEUED", "ADMITTING", "COMMITTED", "WITHDRAWN"},
     ack : BOOLEAN, ready : BOOLEAN, error : {"NONE", "STOPPED", "REFUSED", "FAILED"}]

\* Envelopes, mailbox, threads and flags hold the values their classes allow.
TypeOK ==
    /\ env \in [Commands -> Envelopes]
    /\ box \in Seq(Commands \cup {StopItem})
    /\ caller \in [Commands -> {"new", "waiting", "expired", "observing"} \cup Answers]
    /\ late \in SUBSET Commands /\ shown \in SUBSET Commands
    /\ thread \in [at : ThreadStates, cmd : Commands \cup {StopItem}, drives : BOOLEAN]
    /\ stopper \in {"idle", "draining", "joining", "done"}
    /\ stopping \in BOOLEAN /\ fatal \in BOOLEAN
    /\ arrived \in Seq(Commands) /\ admitted \in Seq(Commands)

\* An answer is honest: a result stands for a committed command that the status
\* shows; a denial, a stop, a refusal and a withdrawal stand for none.  Only a
\* timeout or a failure leaves the outcome open.
AnswersHonest ==
    \A c \in Commands :
        /\ caller[c] \in {"observing", "RESULT", "UNSHOWN"} => c \in Range(admitted)
        /\ caller[c] \in {"denied", "STOPPED", "REFUSED"} => c \notin Range(admitted)
        /\ env[c].st = "WITHDRAWN" => c \notin Range(admitted)
        /\ caller[c] = "UNSHOWN" => fatal \/ At("raised")

\* Commands reach the machine one at a time in the order they were submitted,
\* and none twice, though some are withdrawn or refused in between.
Serialized ==
    \A i, j \in DOMAIN admitted : i < j =>
        \E k, l \in DOMAIN arrived :
            k < l /\ arrived[k] = admitted[i] /\ arrived[l] = admitted[j]

\* Once the owner thread has drained the mailbox nobody is left in it: no put
\* can follow, because a stop or a fatal mark precedes every drain.
NothingStranded ==
    thread.at \in {"closing", "ended", "absent"} =>
        \A c \in Commands : c \notin Range(box) /\ env[c].st # "QUEUED"

\* After stop() returns the machine is quiet: nothing is admitted any more.
QuietAfterStop ==
    [][stopper = "done" => UNCHANGED <<admitted, env, shown>>]_vars

\* Nobody is held up by the owner thread: every caller has its answer, whether
\* its command is served, refused, late, overtaken by a stop or by a fatal error,
\* and no stop() is waiting for the thread. It must come true again and again.
NobodyWaits ==
    (\A c \in Commands : caller[c] \in {"new"} \cup Answers) /\ stopper \in {"idle", "done"}
=============================================================================
