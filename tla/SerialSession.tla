---------------------------- MODULE SerialSession ----------------------------
(***************************************************************************)
(* One FluidNC session on the serial line, below the execution chain: the  *)
(* adapter's operations (preflight, HOME, ZCAL, ZCONFIRM, STREAM, HOME_Z,  *)
(* close), each a number of commands sent one at a time, each followed by  *)
(* its answer and by a drain of what else has arrived, and closed by an    *)
(* Idle proof; the progress of the stream as the chain records it; and the *)
(* controller at the other end, which accepts lines into its planner, and  *)
(* may refuse, alarm, reset, fall silent or be unplugged.                  *)
(***************************************************************************)
EXTENDS Naturals, Sequences

CONSTANTS
  Lines,          \* the commands of the stream program
  CalSteps,       \* the commands of ZCAL, six in the code
  MaxEvidence,    \* _MAX_LINES: the lines an outcome keeps as evidence
  MaxLineFaults   \* the bound on faults of the line, the controller and storage

VARIABLES
  spc,            \* where the session's caller is
  op,             \* the operation in hand
  step,           \* its commands acknowledged so far, in this operation
  cmd,            \* the command being sent: a program "line" or a query
  status,         \* the last status line seen in this operation
  evidence,       \* the number of lines read in this operation
  settled,        \* preflight has seen a homed, idle controller (stabilized)
  failure,        \* the failure the operation ended with
  results,        \* how each operation ended
  rx, tx,         \* what is under way to the controller and to the host
  link,           \* the line is plugged in
  planner,        \* accepted lines whose motion is not finished
  homed,          \* the controller knows its position since its last boot
  taken,          \* program lines the controller accepted
  alarm,          \* the controller is in the Alarm state
  lost,           \* accepted lines whose motion a reset or an alarm threw away
  stray,          \* lines accepted without a known position
  trouble,        \* word of trouble was sent to the host, and not lost
  crossed,        \* lines accepted since then
  unasked,        \* a status line was sent that no query asked for
  pending,        \* the chain's _pending_progress: acknowledged lines
  durable,        \* the last progress row: acknowledged lines and failure
  lifetime,       \* _StreamProgressLifetime._active
  sfaults

host == <<spc, op, step, cmd, status, evidence, settled, failure, results>>
wire == <<rx, tx, link>>
controller == <<planner, homed, taken, alarm, lost, stray, trouble, crossed, unasked>>
progress == <<pending, durable, lifetime>>
serialVars == <<host, wire, controller, progress, sfaults>>

-----------------------------------------------------------------------------
Operations == <<"preflight", "home", "zcal", "zconfirm", "stream", "homez">>
OpNames == {Operations[i] : i \in 1 .. Len(Operations)}

\* The motion commands of an operation.
OpCommands(o) ==
  CASE o = "preflight" -> 0
    [] o = "zcal" -> CalSteps
    [] o = "stream" -> Lines
    [] OTHER -> 1

Queries == {"?", "$G", "$#"}

\* What the controller sends: acknowledgements, refusals, alarms, its banner,
\* bytes that are not a line, and status lines that say it is idle, busy (Run,
\* Hold or Home), idle at the zero position of a controller not homed since boot,
\* in alarm, or in a state that no waiting ends (Door, Check, Jog, Sleep).
StatusLines == {"Idle", "Run", "Zero", "Alarm", "Door"}
IdleStates == {"Idle", "Zero"}
Troubles == {"error", "alarm", "banner"}
Answers == StatusLines \cup Troubles \cup {"ok", "garbage"}

Failures == {"ERROR", "ALARM", "RESET", "DECODE", "LOST_ACK", "TRANSPORT_LOSS", "SHORT_WRITE",
             "TIMEOUT", "PROOF", "NOT_READY", "CALLBACK", "raised"}

LineFault == sfaults < MaxLineFaults /\ sfaults' = sfaults + 1

Init ==
  /\ spc = "unopened" /\ op = "none" /\ step = 0 /\ cmd = "?" /\ status = "none"
  /\ evidence = 0 /\ settled = FALSE /\ failure = "none"
  /\ results = [o \in OpNames |-> "none"]
  /\ homed \in BOOLEAN
  /\ rx = <<>> /\ tx = (IF homed THEN <<>> ELSE <<"banner">>) /\ link = TRUE
  /\ planner = 0 /\ taken = 0 /\ alarm = FALSE
  /\ lost = 0 /\ stray = 0 /\ trouble = FALSE /\ crossed = 0 /\ unasked = FALSE
  /\ pending = 0 /\ durable = [acks |-> 0, failed |-> FALSE] /\ lifetime = FALSE
  /\ sfaults = 0

-----------------------------------------------------------------------------
(***************************************************************************)
(* The controller and the line.                                            *)
(***************************************************************************)
Say(line) == tx' = Append(tx, line)
Tells(line) == Say(line) /\ trouble' = TRUE
Trouble(lines) == \E i \in 1 .. Len(lines) : lines[i] \in Troubles
CommandTaken == rx' = Tail(rx)
Count(counter, when) == IF when THEN counter + 1 ELSE counter

\* A command is accepted: a motion enters the planner, HOME finds the position
\* and ends an alarm, and every line has its ok.
ControllerAccepts ==
  /\ link /\ rx # <<>> /\ Head(rx).cmd # "?"
  /\ LET line == Head(rx).cmd = "line"
         homing == line /\ Head(rx).op = "home" IN
     /\ alarm => (homing \/ ~line)
     /\ planner' = Count(planner, line)
     /\ homed' = (homed \/ homing)
     /\ alarm' = (alarm /\ ~homing)
     /\ taken' = Count(taken, line /\ Head(rx).op = "stream")
     /\ stray' = Count(stray, line /\ ~homed /\ ~homing)
     /\ crossed' = Count(crossed, line /\ trouble)
  /\ CommandTaken /\ Say("ok")
  /\ UNCHANGED <<host, link, lost, trouble, unasked, progress, sfaults>>

ControllerRefuses ==
  /\ link /\ rx # <<>> /\ Head(rx).cmd # "?"
  /\ \/ alarm /\ Head(rx).cmd = "line" /\ UNCHANGED sfaults
     \/ ~alarm /\ LineFault
  /\ CommandTaken /\ Tells("error")
  /\ UNCHANGED <<host, link, planner, homed, taken, alarm, lost, stray, crossed, unasked, progress>>

StatusNow == CASE alarm -> "Alarm" [] ~homed -> "Zero" [] planner > 0 -> "Run" [] OTHER -> "Idle"

ControllerReports ==
  /\ link /\ rx # <<>> /\ Head(rx).cmd = "?"
  /\ CommandTaken
  /\ \/ Say(StatusNow) /\ UNCHANGED sfaults
     \/ Say("Door") /\ LineFault
  /\ UNCHANGED <<host, link, controller, progress>>

ControllerMoves ==
  /\ planner > 0
  /\ planner' = planner - 1
  /\ UNCHANGED <<host, wire, homed, taken, alarm, lost, stray, trouble, crossed, unasked, progress, sfaults>>

\* A status line nobody asked for (a report interval set on the controller).
ControllerAutoReports ==
  /\ link /\ LineFault
  /\ Say(StatusNow) /\ unasked' = TRUE
  /\ UNCHANGED <<host, rx, link, planner, homed, taken, alarm, lost, stray, trouble, crossed, progress>>

ControllerAlarms ==
  /\ link /\ LineFault
  /\ planner' = 0 /\ lost' = lost + planner /\ alarm' = TRUE /\ Tells("alarm")
  /\ UNCHANGED <<host, rx, link, homed, taken, stray, crossed, unasked, progress>>

\* A reset forgets the position, the planner and the unread input.
ControllerResets ==
  /\ link /\ LineFault
  /\ planner' = 0 /\ lost' = lost + planner /\ homed' = FALSE /\ alarm' = FALSE
  /\ rx' = <<>> /\ Tells("banner")
  /\ UNCHANGED <<host, link, taken, stray, crossed, unasked, progress>>

LineGarbled ==
  /\ tx # <<>> /\ LineFault
  /\ tx' = [tx EXCEPT ![1] = "garbage"]
  /\ UNCHANGED <<host, rx, link, controller, progress>>

LineLost ==
  /\ LineFault
  /\ \/ /\ tx # <<>> /\ Head(tx) # "garbage" /\ tx' = Tail(tx)
        /\ trouble' = IF Head(tx) \in Troubles THEN Trouble(tx') ELSE trouble
        /\ crossed' = IF trouble' THEN crossed ELSE 0
        /\ UNCHANGED rx
     \/ rx # <<>> /\ CommandTaken /\ UNCHANGED <<tx, trouble, crossed>>
  /\ UNCHANGED <<host, link, planner, homed, taken, alarm, lost, stray, unasked, progress>>

Unplugged ==
  /\ link /\ LineFault
  /\ link' = FALSE /\ rx' = <<>> /\ tx' = <<>>
  /\ UNCHANGED <<host, controller, progress>>

Controller == ControllerAccepts \/ ControllerRefuses \/ ControllerReports \/ ControllerMoves
LineFaults == ControllerAutoReports \/ ControllerAlarms \/ ControllerResets
              \/ LineGarbled \/ LineLost \/ Unplugged

-----------------------------------------------------------------------------
(***************************************************************************)
(* Opening the port, and the boot output.                                  *)
(***************************************************************************)
Busy == spc \in {"write", "reply", "drain"}

\* The operation ends with a failure. A stream's failure goes to the chain. (A
\* ZCAL also counts the line whose drain failed; a STREAM does not.)
FailsWith(kind) ==
  /\ failure' = kind
  /\ results' = [results EXCEPT ![op] = kind]
  /\ spc' = IF op = "stream" THEN "returned" ELSE "failed"
  /\ UNCHANGED <<op, step, cmd, status, evidence, settled>>

\* The silence of a controller, before and after the first side effect.
Silence == IF op = "preflight" THEN "TIMEOUT" ELSE "LOST_ACK"

\* SerialFluidNCFactory.open_session: one attempt, closed again if it fails.
OpenSession ==
  /\ spc = "unopened" /\ link
  /\ spc' = "startup" /\ op' = "preflight"
  /\ UNCHANGED <<step, cmd, status, evidence, settled, failure, results, wire, controller, progress,
                 sfaults>>

OpenFails ==
  /\ spc = "unopened" /\ (~link \/ sfaults < MaxLineFaults)
  /\ spc' = "closed"
  /\ sfaults' = IF link THEN sfaults + 1 ELSE sfaults
  /\ UNCHANGED <<op, step, cmd, status, evidence, settled, failure, results, wire, controller, progress>>

\* _read_startup: lines of the boot are read as they are until the line falls
\* quiet, which counts when there was no output or the banner has been seen.
StartupReads ==
  /\ spc = "startup" /\ tx # <<>>
  /\ tx' = Tail(tx)
  /\ IF Head(tx) = "garbage" THEN FailsWith("DECODE")
     ELSE /\ evidence' = 1
          /\ status' = IF Head(tx) = "banner" THEN "banner" ELSE status
          /\ UNCHANGED <<spc, op, step, cmd, settled, failure, results>>
  /\ UNCHANGED <<rx, link, controller, progress, sfaults>>

StartupSettles ==
  /\ spc = "startup" /\ link /\ tx = <<>> /\ (evidence = 0 \/ status = "banner")
  /\ spc' = "write" /\ status' = "none" /\ evidence' = 0
  /\ UNCHANGED <<op, step, cmd, settled, failure, results, wire, controller, progress, sfaults>>

StartupFails ==
  /\ spc = "startup"
  /\ \/ ~link /\ FailsWith("TRANSPORT_LOSS")
     \/ evidence > 0 /\ status # "banner" /\ FailsWith("TIMEOUT")
  /\ UNCHANGED <<wire, controller, progress, sfaults>>

-----------------------------------------------------------------------------
(***************************************************************************)
(* One command: write, answer, drain.                                      *)
(***************************************************************************)
\* The chain calls the next operation of a session that has not failed.
BeginOperation ==
  /\ spc = "ready" /\ op # "homez"
  /\ LET i == CHOOSE n \in 1 .. Len(Operations) : Operations[n] = op IN
     op' = Operations[i + 1]
  /\ spc' = "write" /\ step' = 0 /\ cmd' = "line" /\ status' = "none" /\ evidence' = 0
  /\ lifetime' = (op' = "stream")
  /\ trouble' = IF op = "preflight" THEN Trouble(tx) ELSE trouble
  /\ UNCHANGED <<settled, failure, results, wire, planner, homed, taken, alarm, lost, stray, crossed, unasked,
                 pending, durable, sfaults>>

\* _wait_for_idle_snapshot: the last status is neither idle nor one of motion
\* (CONTROLLER_NOT_IDLE).
NeverIdle == cmd = "?" /\ op # "preflight" /\ status = "Door"

WaitGivesUp ==
  /\ spc = "write" /\ NeverIdle
  /\ FailsWith("PROOF")
  /\ UNCHANGED <<wire, controller, progress, sfaults>>

Write ==
  /\ spc = "write" /\ link /\ ~NeverIdle
  /\ rx' = Append(rx, [cmd |-> cmd, op |-> op])
  /\ spc' = "reply"
  /\ UNCHANGED <<op, step, cmd, status, evidence, settled, failure, results, tx, link, controller,
                 progress, sfaults>>

\* The write raises, or is cut short; the controller discards half a line. (One
\* that raises when the line is out is a Write whose DeadlineExpires.)
WriteFails ==
  /\ spc = "write" /\ ~NeverIdle
  /\ \/ ~link /\ FailsWith("TRANSPORT_LOSS") /\ UNCHANGED sfaults
     \/ link /\ LineFault /\ \E kind \in {"TRANSPORT_LOSS", "SHORT_WRITE"} : FailsWith(kind)
  /\ UNCHANGED <<wire, controller, progress>>

Undecodable(line) == line = "garbage"

\* classify_session_observation: the banner or the zero position is word of a
\* reset, and no failure while preflight has not yet seen a homed, idle
\* controller.
\* Mutated form of the next definition: only the banner is word of a reset.
BannerOnly(line) == line = "banner" /\ (op # "preflight" \/ settled)

ResetWord(line) == line \in {"banner", "Zero"} /\ (op # "preflight" \/ settled)

\* _line_failure: what a line means, whatever was expected.
LineFailure(line) ==
  CASE line \in {"alarm", "Alarm"} -> "ALARM"
    [] line = "error" -> "ERROR"
    [] Undecodable(line) -> "DECODE"
    [] ResetWord(line) -> "RESET"
    [] OTHER -> "none"

\* _late_observation: the outcome of a reset must carry the line that told of
\* it, and its evidence is cut at MaxEvidence lines; a banner beyond them makes
\* the outcome's own validation raise.
ResetUnbound(line) == op # "preflight" /\ line = "banner" /\ evidence >= MaxEvidence

Outcome(line) == IF ResetUnbound(line) THEN "raised" ELSE LineFailure(line)

Expected(line) == IF cmd = "?" THEN line \in StatusLines ELSE line = "ok"

\* Mutated form of the next definition: all lines are kept.
Unbounded(n) == n

\* _bounded_evidence
Bounded(n) == IF n > MaxEvidence THEN MaxEvidence ELSE n

\* _response: lines are read until the expected one or a failure.
ReadsReply ==
  /\ spc = "reply" /\ tx # <<>>
  /\ tx' = Tail(tx)
  /\ LET line == Head(tx) IN
     IF LineFailure(line) # "none" THEN FailsWith(Outcome(line))
     ELSE /\ evidence' = Bounded(evidence + 1)
          /\ status' = IF line \in StatusLines /\ (op = "preflight" => cmd = "?") THEN line ELSE status
          /\ settled' = (settled \/ (op = "preflight" /\ cmd = "?" /\ line = "Idle"))
          /\ spc' = IF Expected(line) THEN "drain" ELSE "reply"
          /\ UNCHANGED <<op, step, cmd, failure, results>>
  /\ UNCHANGED <<rx, link, controller, progress, sfaults>>

\* _drain_post_ack: everything that has arrived is inspected before the next
\* write.
Drains ==
  /\ spc = "drain" /\ tx # <<>>
  /\ tx' = Tail(tx)
  /\ LET line == Head(tx) IN
     IF LineFailure(line) # "none" THEN FailsWith(Outcome(line))
     ELSE /\ evidence' = Bounded(evidence + 1)
          /\ status' = IF line \in StatusLines /\ op # "preflight" THEN line ELSE status
          /\ UNCHANGED <<spc, op, step, cmd, settled, failure, results>>
  /\ UNCHANGED <<rx, link, controller, progress, sfaults>>

\* The port is gone under a read.
ReadFails ==
  /\ spc \in {"reply", "drain"} /\ ~link
  /\ FailsWith("TRANSPORT_LOSS")
  /\ UNCHANGED <<wire, controller, progress, sfaults>>

\* Mutated form of the next definition: a controller that answers is waited for.
DeadlineForSilence ==
  /\ Busy /\ link /\ status # "Run"
  /\ FailsWith(Silence)
  /\ UNCHANGED <<wire, controller, progress, sfaults>>

\* Every write, read and drain checks the deadline of its operation.
DeadlineExpires ==
  /\ Busy /\ link
  /\ FailsWith(Silence)
  /\ UNCHANGED <<wire, controller, progress, sfaults>>

-----------------------------------------------------------------------------
(***************************************************************************)
(* What follows an answer: the next line, the Idle proof, the end.         *)
(***************************************************************************)
\* After line n of the operation: the next one, or _wait_for_idle_snapshot,
\* which starts from the last status seen in the operation and whose evidence
\* repeats the lines of the commands.
AfterLine(n) ==
  /\ spc' = "write" /\ step' = n
  /\ IF n < OpCommands(op) THEN cmd' = "line" /\ UNCHANGED evidence
     ELSE /\ cmd' = IF status \in IdleStates THEN "$G" ELSE "?"
          /\ evidence' = Bounded(2 * evidence)
  /\ UNCHANGED <<op, status, settled, failure, results>>

Drained(command) == spc = "drain" /\ link /\ tx = <<>> /\ cmd = command

\* An acknowledged line; in a stream the progress callback comes first.
LineAcknowledged ==
  /\ Drained("line")
  /\ IF op = "stream"
     THEN spc' = "progress" /\ step' = step + 1
          /\ UNCHANGED <<op, cmd, status, evidence, settled, failure, results>>
     ELSE AfterLine(step + 1)
  /\ UNCHANGED <<wire, controller, progress, sfaults>>

\* Preflight asks once; after motion the query is repeated until Idle.
StatusSeen ==
  /\ Drained("?")
  /\ spc' = "write" /\ cmd' = IF op = "preflight" \/ status \in IdleStates THEN "$G" ELSE "?"
  /\ UNCHANGED <<op, step, status, evidence, settled, failure, results, wire, controller, progress, sfaults>>

ParserSeen ==
  /\ Drained("$G")
  /\ spc' = "write" /\ cmd' = "$#"
  /\ UNCHANGED <<op, step, status, evidence, settled, failure, results, wire, controller, progress, sfaults>>

PreflightReady == op = "preflight" => status \in IdleStates

\* The validation of an outcome without a failure.
SuccessProven == op # "preflight" => status \in IdleStates /\ step = OpCommands(op)

\* The snapshot is complete. Preflight admits an idle controller or a fresh one
\* that has to be homed.
Concludes ==
  /\ Drained("$#")
  /\ IF ~PreflightReady THEN FailsWith("NOT_READY")
     ELSE IF ~SuccessProven THEN FailsWith("raised")
     ELSE /\ results' = [results EXCEPT ![op] = "ok"]
          /\ spc' = IF op = "stream" THEN "returned" ELSE "ready"
          /\ UNCHANGED <<op, step, cmd, status, evidence, settled, failure>>
  /\ UNCHANGED <<wire, controller, progress, sfaults>>

\* evaluate_post_home, evaluate_calibrated_pose and _safe_snapshot: the
\* positions or the parser state read are not the ones to be proved.
ProofFails ==
  /\ Drained("$#") /\ LineFault
  /\ FailsWith("PROOF")
  /\ UNCHANGED <<wire, controller, progress>>

-----------------------------------------------------------------------------
(***************************************************************************)
(* The progress of a stream, in the execution chain.                       *)
(***************************************************************************)
\* record_progress: the pending row is replaced on every line and written to
\* the database on the last one and now and then (100 lines or 2 seconds).
ProgressRecorded ==
  /\ spc = "progress" /\ lifetime
  /\ pending' = pending + 1
  /\ \/ durable' = [acks |-> pending', failed |-> FALSE]
     \/ step < Lines /\ UNCHANGED durable
  /\ AfterLine(step)
  /\ UNCHANGED <<wire, controller, lifetime, sfaults>>

\* The checkpoint fails: a repository error passes through the adapter, any
\* other becomes the outcome's failure.
ProgressFails ==
  /\ spc = "progress" /\ lifetime /\ LineFault
  /\ pending' = pending + 1
  /\ \E kind \in {"raised", "CALLBACK"} : FailsWith(kind)
  /\ UNCHANGED <<wire, controller, durable, lifetime>>

\* Mutated form of the next definition: the callback outlives the call.
StreamReturnsOpen ==
  /\ spc = "returned"
  /\ spc' = IF failure = "none" THEN "ready" ELSE "recording"
  /\ pending' = IF failure = "none" THEN 0 ELSE pending
  /\ UNCHANGED <<op, step, cmd, status, evidence, settled, failure, results, wire, controller, durable,
                 lifetime, sfaults>>

\* stream_program has returned or raised: its callback expires, and an outcome
\* whose acknowledged lines are not the recorded ones is refused.
StreamReturns ==
  /\ spc = "returned"
  /\ lifetime' = FALSE
  /\ LET agreed == failure = "none" /\ step = pending IN
     /\ spc' = IF agreed THEN "ready" ELSE "recording"
     /\ pending' = IF agreed THEN 0 ELSE pending
     /\ failure' = IF failure = "none" /\ ~agreed THEN "raised" ELSE failure
  /\ UNCHANGED <<op, step, cmd, status, evidence, settled, results, wire, controller, durable, sfaults>>

\* Mutated form of the next definition: the row of the failure keeps the last
\* checkpoint's count.
FailureRecordedStale ==
  /\ spc = "recording"
  /\ durable' = [durable EXCEPT !.failed = TRUE]
  /\ pending' = 0 /\ spc' = "failed"
  /\ UNCHANGED <<op, step, cmd, status, evidence, settled, failure, results, wire, controller, lifetime,
                 sfaults>>

\* _persist_stream_failure_progress: the outcome's count, or the pending row's
\* when the call raised.
FailureRecorded ==
  /\ spc = "recording"
  /\ durable' = [acks |-> IF failure = "raised" THEN pending ELSE step, failed |-> TRUE]
  /\ pending' = 0 /\ spc' = "failed"
  /\ UNCHANGED <<op, step, cmd, status, evidence, settled, failure, results, wire, controller, lifetime,
                 sfaults>>

\* Storage fails there too: the coordinator stops for good.
RecordingFails ==
  /\ spc = "recording" /\ LineFault
  /\ spc' = "dead"
  /\ UNCHANGED <<op, step, cmd, status, evidence, settled, failure, results, wire, controller, progress>>

StreamOver == results["stream"] # "none" /\ spc \notin {"returned", "recording"}

\* An adapter that kept the callback calls it after the stream call is over.
LateProgress ==
  /\ StreamOver /\ spc # "dead" /\ taken > 0 /\ LineFault
  /\ IF lifetime THEN durable' = [acks |-> pending + 1, failed |-> FALSE] ELSE UNCHANGED durable
  /\ UNCHANGED <<host, wire, controller, pending, lifetime>>

\* The session is closed once, after a failure or when the chain is through or
\* has been stopped.
CloseSession ==
  /\ spc \in {"ready", "failed"}
  /\ spc' = "closed"
  /\ UNCHANGED <<op, step, cmd, status, evidence, settled, failure, results, wire, controller, progress,
                 sfaults>>

ServiceCrash ==
  /\ spc \notin {"closed", "dead"} /\ LineFault
  /\ spc' = "dead" /\ pending' = 0
  /\ UNCHANGED <<op, step, cmd, status, evidence, settled, failure, results, wire, controller, durable,
                 lifetime>>

-----------------------------------------------------------------------------
SessionStep ==
  OpenSession \/ OpenFails \/ StartupReads \/ StartupSettles \/ StartupFails \/ BeginOperation
  \/ WaitGivesUp \/ Write \/ WriteFails \/ ReadsReply \/ Drains \/ ReadFails \/ LineAcknowledged \/ StatusSeen
  \/ ParserSeen \/ Concludes \/ ProofFails \/ ProgressRecorded \/ ProgressFails \/ StreamReturns
  \/ FailureRecorded \/ RecordingFails \/ CloseSession

Next == SessionStep \/ DeadlineExpires \/ LateProgress \/ ServiceCrash \/ Controller \/ LineFaults

Spec == Init /\ [][Next]_serialVars

Fairness == WF_serialVars(SessionStep) /\ WF_serialVars(DeadlineExpires)

-----------------------------------------------------------------------------
TypeOK ==
  /\ spc \in {"unopened", "startup", "ready", "write", "reply", "drain", "progress", "returned",
              "recording", "failed", "closed", "dead"}
  /\ op \in OpNames \cup {"none"} /\ step \in 0 .. Lines + CalSteps + 1
  /\ cmd \in Queries \cup {"line"} /\ status \in StatusLines \cup {"none", "banner"}
  /\ evidence \in 0 .. MaxEvidence /\ settled \in BOOLEAN
  /\ failure \in Failures \cup {"none"}
  /\ results \in [OpNames -> Failures \cup {"none", "ok"}]
  /\ rx \in Seq([cmd : Queries \cup {"line"}, op : OpNames]) /\ tx \in Seq(Answers)
  /\ link \in BOOLEAN /\ trouble \in BOOLEAN /\ homed \in BOOLEAN /\ alarm \in BOOLEAN /\ unasked \in BOOLEAN
  /\ {planner, taken, lost, stray, crossed, pending, sfaults} \subseteq Nat
  /\ durable \in [acks : Nat, failed : BOOLEAN] /\ lifetime \in BOOLEAN

\* One line, one acknowledgement (stream_program and record_progress): the
\* controller has accepted the acknowledged lines of the program and at most one
\* more, the database never claims a line the controller did not accept, and
\* the row of a failed stream is short by at most the line in doubt, whatever
\* was lost, reset or crashed.
AckedPrefix ==
  /\ op = "stream" => step <= taken /\ taken <= step + 1
  /\ durable.acks <= taken
  /\ durable.failed => taken <= durable.acks + 1

\* A stream reported as successful has been drawn: every line was accepted, at a
\* known position, none was thrown away by a reset or an alarm, and the planner
\* is empty; unless a status line nobody asked for was taken for the Idle proof.
StreamDrawn ==
  (op = "stream" /\ spc = "ready" /\ results["stream"] = "ok" /\ ~unasked)
    => taken = Lines /\ planner = 0 /\ lost = 0 /\ stray = 0

\* _line_failure and _drain_post_ack: after the controller has sent word of an
\* error, an alarm or a reset, it is given at most the one line that crossed it
\* on the wire.
StopsAtTrouble == crossed <= 1

\* What a stream's success and a controller's trouble promise: StreamDrawn and
\* StopsAtTrouble.
StreamSafe == StreamDrawn /\ StopsAtTrouble

\* _StreamProgressLifetime: once the stream call is over and its end recorded,
\* its progress row stays as it is, also when the callback is called again.
ProgressFinal == [][StreamOver => UNCHANGED durable]_serialVars

\* The session is at rest: its operation has succeeded or failed, or the service
\* is gone. It comes to rest whatever the controller does or fails to do.
AtRest == spc \in {"ready", "failed", "closed", "dead"}

\* docs/current/recovery.md: a stream is ambiguous "until final acknowledgement
\* and Idle are proven"; so once stream_program reports success the controller
\* has finished moving.
IdleProven ==
  (op = "stream" /\ spc = "ready" /\ results["stream"] = "ok") => planner = 0

=============================================================================
