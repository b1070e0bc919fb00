----------------------- MODULE WorkerSupervisorProofs -----------------------
(***************************************************************************)
(* Theorems about WorkerSupervisor for any number of attempts and faults:  *)
(* no child, reader thread or staging directory slips out of the           *)
(* supervisor's hands, and an outcome is what the child did.               *)
(***************************************************************************)
EXTENDS WorkerSupervisor, TLAPS

-----------------------------------------------------------------------------
(* The inductive invariant *)

InWait == {"loop", "poll", "await", "alive", "join"}
InReap == {"cancel", "terminate", "terminated", "killed", "mark", "reap"}
ClosingCall == call.answer = "closing"

\* The attempt in the calling thread's hand: a started child without an outcome
\* while it is awaited and reaped, a dead one once it is judged.
CurHeld ==
  /\ wpc \in InWait \cup InReap \cup {"submit", "judge", "discard"} => cur \in Attempts
  /\ wpc \in InWait \cup InReap => Started(cur) /\ outcome[cur] = "none"
  /\ wpc = "submit" => ~Started(cur) /\ staging[cur] = "empty"
  /\ wpc = "killed" => signal[cur] = "kill"
  /\ wpc \in {"mark", "reap", "judge"} => proc[cur] = "dead"
  /\ wpc = "reap" => reader[cur] # "none"
  /\ wpc \in InReap \ {"cancel"} => cause # "none"

\* close comes last, and once it has begun nothing is started any more.
CloseLast ==
  /\ ClosingCall => wpc \in InReap \cup {"close", "over"}
  /\ wpc \in {"close", "over"} => ClosingCall
  /\ closed => wpc = "over"

\* Attempts are started in order, and an attempt without a child has no trace.
InOrder ==
  /\ ~ClosingCall => \A t \in Attempts : t > cur => ~Started(t)
  /\ \A t \in Attempts : ~Started(t) => outcome[t] = "none" /\ reader[t] = "none"

\* A child that is not dead or dying is the one in hand.
OthersDying ==
  \A t \in Attempts : Alive(t) /\ signal[t] # "kill" =>
    t = cur /\ ~ClosingCall
      /\ wpc \in InWait \cup {"cancel", "terminate", "terminated"}

\* What the pipe, the reader and the exit code say of an outcome: the receiver
\* of an unread pipe is open, a frame was read whole, and the child's own
\* outcome is accepted with exit code zero only.
Traced ==
  /\ \A t \in Attempts :
       /\ Started(t) /\ outcome[t] = "none" /\ reader[t] = "none" => receiver[t]
       /\ reader[t] = "payload" => pipe[t] = "whole"
       /\ outcome[t] \in Accepted => exitcode[t] = "zero"
       /\ t \in promoted => outcome[t] \in {"good", "big"}
  /\ cause \notin {"CRASHED", "TOO_LARGE", "INVALID"}

IInv ==
  /\ TypeOK /\ CurHeld /\ CloseLast /\ InOrder /\ OthersDying /\ Traced
  /\ ChildrenHeld

-----------------------------------------------------------------------------
(* The invariant is inductive *)

\* Setting one flag of a function of flags leaves the others alone.
LEMMA SetFlag ==
  ASSUME NEW f \in [Attempts -> BOOLEAN], NEW t \in Attempts, NEW b \in BOOLEAN
  PROVE  /\ [f EXCEPT ![t] = b] \in [Attempts -> BOOLEAN]
         /\ \A u \in Attempts : u # t => [f EXCEPT ![t] = b][u] = f[u]
OBVIOUS

LEMMA InitInv == Init => IInv
<1> SUFFICES ASSUME Init PROVE IInv
  OBVIOUS
<1> USE WorkerAssumption DEF Init
<1>1. TypeOK
  <2>1. call \in [kind : Kinds, retry : {0, 1}, answer : Accepted \cup {"none", "raised", "closing"}]
    BY DEF Kinds
  <2>2. faults \in 0 .. MaxFaults
    OBVIOUS
  <2> QED
    BY <2>1, <2>2 DEF TypeOK
<1> QED
  BY <1>1
  DEF IInv, CurHeld, CloseLast, InOrder, OthersDying, Traced, ChildrenHeld, OutcomeReaped,
      StagingQuiet, OneWorker, ClosedQuiet, ClosingCall, Started, Alive, Accepted, InWait, InReap

LEMMA ReaderTypes ==
  ASSUME TypeOK, NEW t \in Attempts, ReadOutcome(t)
  PROVE  TypeOK'
<1>1. reader' \in [Attempts -> {"none", "reading", "payload", "toolarge", "crashed"}]
  BY DEF ReadOutcome, TypeOK
<1>2. receiver' = receiver \/ receiver' = [receiver EXCEPT ![t] = FALSE]
  BY DEF ReadOutcome
<1>3. receiver \in [Attempts -> BOOLEAN]
  BY DEF TypeOK
<1>4. receiver' \in [Attempts -> BOOLEAN]
  BY <1>2, <1>3, SetFlag
<1> QED
  BY <1>1, <1>4 DEF ReadOutcome, TypeOK, child, caller, clock

LEMMA LookTypes ==
  ASSUME TypeOK, WaitLooksAtProcess
  PROVE  TypeOK'
<1>1. CASE UNCHANGED <<late, cause>> /\ wpc' = "loop"
  BY <1>1 DEF WaitLooksAtProcess, TypeOK, child, record
<1>2. CASE late' = FALSE /\ cause' = "exited" /\ wpc' = "mark"
  BY <1>2 DEF WaitLooksAtProcess, TypeOK, child, record
<1> QED
  BY <1>1, <1>2 DEF WaitLooksAtProcess, Goto, Leave

\* The child, the kernel and the reader thread.
LEMMA ChildInv ==
  ASSUME IInv, NEW t \in Attempts, Child(t) \/ SignalKills(t) \/ ReadOutcome(t)
  PROVE  IInv'
<1> USE WorkerAssumption
    DEF ClosingCall, Started, Alive, InWait, InReap, child, record, caller, clock, IInv,
        CurHeld, CloseLast, InOrder, OthersDying, Traced, ChildrenHeld, OutcomeReaped,
        StagingQuiet, OneWorker, ClosedQuiet, Fault, Goto, Leave, Raise, others
<1>1. CASE ChildBoots(t)
  <2>1. TypeOK'
    BY <1>1 DEF ChildBoots, TypeOK, Payloads
  <2> QED
    BY <1>1, <2>1 DEF ChildBoots, TypeOK
<1>2. CASE ChildWrites(t)
  <2>1. TypeOK'
    BY <1>2 DEF ChildWrites, TypeOK
  <2> QED
    BY <1>2, <2>1 DEF ChildWrites, TypeOK
<1>3. CASE ChildRefuses(t)
  <2>1. TypeOK'
    BY <1>3 DEF ChildRefuses, TypeOK, Payloads
  <2> QED
    BY <1>3, <2>1 DEF ChildRefuses, TypeOK
<1>4. CASE ChildConcludes(t)
  <2>1. TypeOK'
    BY <1>4 DEF ChildConcludes, TypeOK, Payloads
  <2> QED
    BY <1>4, <2>1 DEF ChildConcludes, TypeOK
<1>5. CASE ChildSends(t)
  <2>1. TypeOK'
    BY <1>5 DEF ChildSends, TypeOK
  <2> QED
    BY <1>5, <2>1 DEF ChildSends, TypeOK
<1>6. CASE ChildExits(t)
  <2>1. TypeOK'
    BY <1>6 DEF ChildExits, TypeOK
  <2> QED
    <3>1. /\ proc' = [proc EXCEPT ![t] = "dead"] /\ Alive(t) /\ outcome[t] = "none"
          /\ \A u \in Attempts : u # t => exitcode'[u] = exitcode[u]
          /\ UNCHANGED <<staging, payload, pipe, record, caller, clock, signal, promoted, closed, faults>>
      BY <1>6 DEF ChildExits, TypeOK
    <3>2. Traced'
      BY <3>1 DEF TypeOK, Accepted
    <3>3. CurHeld' /\ CloseLast' /\ InOrder' /\ OthersDying'
      BY <3>1 DEF TypeOK
    <3>4. ChildrenHeld'
      BY <3>1 DEF TypeOK
    <3> QED
      BY <2>1, <3>2, <3>3, <3>4
<1>7. CASE SignalKills(t)
  <2>1. TypeOK'
    BY <1>7 DEF SignalKills, TypeOK
  <2> QED
    <3>1. /\ proc' = [proc EXCEPT ![t] = "dead"] /\ Alive(t) /\ outcome[t] = "none"
          /\ \A u \in Attempts : u # t => exitcode'[u] = exitcode[u]
          /\ UNCHANGED <<staging, payload, pipe, record, caller, clock, signal, promoted, closed, faults>>
      BY <1>7 DEF SignalKills, TypeOK
    <3>2. Traced'
      BY <3>1 DEF TypeOK, Accepted
    <3>3. CurHeld' /\ CloseLast' /\ InOrder' /\ OthersDying'
      BY <3>1 DEF TypeOK
    <3>4. ChildrenHeld'
      BY <3>1 DEF TypeOK
    <3> QED
      BY <2>1, <3>2, <3>3, <3>4
<1>8. CASE ReadOutcome(t)
  <2>1. TypeOK'
    BY <1>8, ReaderTypes
  <2> QED
    BY <1>8, <2>1 DEF ReadOutcome, TypeOK
<1> QED
  BY <1>1, <1>2, <1>3, <1>4, <1>5, <1>6, <1>7, <1>8 DEF Child

\* _execute up to the wait.
LEMMA StartingInv ==
  ASSUME IInv, Starting \/ \E kind \in Kinds : Execute(kind)
  PROVE  IInv'
<1> USE WorkerAssumption
    DEF ClosingCall, Started, Alive, InWait, InReap, child, record, caller, clock, IInv,
        CurHeld, CloseLast, InOrder, OthersDying, Traced, ChildrenHeld, OutcomeReaped,
        StagingQuiet, OneWorker, ClosedQuiet, Fault, Goto, Leave, Raise, others
<1>1. CASE CreateStaging
  <2>1. TypeOK'
    BY <1>1 DEF CreateStaging, TypeOK
  <2> QED
    <3>1. /\ cur + 1 \in Attempts /\ cur' = cur + 1 /\ cur \in Nat /\ wpc' = "submit"
          /\ staging' = [staging EXCEPT ![cur + 1] = "empty"]
          /\ ~ClosingCall /\ proc[cur + 1] = "none"
      BY <1>1 DEF CreateStaging, TypeOK
    <3>2. CurHeld' /\ CloseLast' /\ OthersDying'
      BY <1>1, <3>1 DEF CreateStaging, TypeOK
    <3>3. InOrder' /\ Traced'
      BY <1>1, <3>1 DEF CreateStaging, TypeOK
    <3>4. ChildrenHeld'
      BY <1>1, <3>1 DEF CreateStaging, TypeOK
    <3> QED
      BY <2>1, <3>2, <3>3, <3>4
<1>2. CASE CreateStagingFails
  <2>1. TypeOK'
    BY <1>2 DEF CreateStagingFails, TypeOK
  <2> QED
    BY <1>2, <2>1 DEF CreateStagingFails, TypeOK
<1>3. CASE TaskRefused
  <2>1. TypeOK'
    BY <1>3 DEF TaskRefused, TypeOK
  <2> QED
    BY <1>3, <2>1 DEF TaskRefused, TypeOK
<1>4. CASE Submit
  <2>1. TypeOK'
    BY <1>4 DEF Submit, TypeOK
  <2> QED
    BY <1>4, <2>1 DEF Submit, TypeOK
<1>5. CASE SubmitFails
  <2>1. TypeOK'
    BY <1>5 DEF SubmitFails, TypeOK
  <2> QED
    BY <1>5, <2>1 DEF SubmitFails, TypeOK
<1>6. CASE \E kind \in Kinds : Execute(kind)
  <2>1. TypeOK'
    <3>1. PICK kind \in Kinds : Execute(kind)
      BY <1>6
    <3>2. call' \in [kind : Kinds, retry : {0, 1}, answer : Accepted \cup {"none", "raised", "closing"}]
      BY <3>1 DEF Execute
    <3> QED
      BY <3>1, <3>2 DEF Execute, TypeOK
  <2> QED
    BY <1>6, <2>1 DEF Execute, TypeOK
<1> QED
  BY <1>1, <1>2, <1>3, <1>4, <1>5, <1>6 DEF Starting

\* wait, and the clock and the token it looks at.
LEMMA WaitingInv ==
  ASSUME IInv, Waiting \/ DeadlinePasses \/ CancelRequested
  PROVE  IInv'
<1> USE WorkerAssumption
    DEF ClosingCall, Started, Alive, InWait, InReap, child, record, caller, clock, IInv,
        CurHeld, CloseLast, InOrder, OthersDying, Traced, ChildrenHeld, OutcomeReaped,
        StagingQuiet, OneWorker, ClosedQuiet, Fault, Goto, Leave, Raise, others
<1>1. CASE WaitCancels
  <2>1. TypeOK'
    BY <1>1 DEF WaitCancels, TypeOK
  <2> QED
    BY <1>1, <2>1 DEF WaitCancels, TypeOK
<1>2. CASE WaitCheckFails
  <2>1. TypeOK'
    <3>1. late' \in BOOLEAN /\ cause' \in Failures \cup {"none", "exited", "received"}
      BY <1>2 DEF WaitCheckFails, Failures, TypeOK
    <3>2. wpc' \in {"loop", "mark", "terminate", "poll"}
      BY <1>2 DEF WaitCheckFails
    <3> QED
      BY <1>2, <3>1, <3>2 DEF WaitCheckFails, TypeOK
  <2> QED
    BY <1>2, <2>1 DEF WaitCheckFails, Failures, TypeOK
<1>3. CASE WaitLooksAtClock
  <2>1. TypeOK'
    <3>1. late' \in BOOLEAN /\ cause' \in Failures \cup {"none", "exited", "received"}
      BY <1>3 DEF WaitLooksAtClock, Failures, TypeOK
    <3>2. wpc' \in {"loop", "mark", "terminate", "poll"}
      BY <1>3 DEF WaitLooksAtClock
    <3> QED
      BY <1>3, <3>1, <3>2 DEF WaitLooksAtClock, TypeOK
  <2> QED
    BY <1>3, <2>1 DEF WaitLooksAtClock, Failures, TypeOK
<1>4. CASE WaitPolls
  <2>1. TypeOK'
    BY <1>4 DEF WaitPolls, StartReader, TypeOK
  <2> QED
    BY <1>4, <2>1 DEF WaitPolls, StartReader, TypeOK
<1>5. CASE WaitReceives
  <2>1. TypeOK'
    BY <1>5 DEF WaitReceives, TypeOK
  <2> QED
    BY <1>5, <2>1 DEF WaitReceives, TypeOK
<1>6. CASE WaitLooksAtProcess
  <2>1. TypeOK'
    BY <1>6, LookTypes
  <2> QED
    BY <1>6, <2>1 DEF WaitLooksAtProcess, TypeOK
<1>7. CASE JoinBeforeDeadline
  <2>1. TypeOK'
    BY <1>7 DEF JoinBeforeDeadline, Failures, TypeOK
  <2> QED
    BY <1>7, <2>1 DEF JoinBeforeDeadline, Failures, TypeOK
<1>8. CASE DeadlinePasses
  <2>1. TypeOK'
    BY <1>8 DEF DeadlinePasses, TypeOK
  <2> QED
    BY <1>8, <2>1 DEF DeadlinePasses, TypeOK
<1>9. CASE CancelRequested
  <2>1. TypeOK'
    BY <1>9 DEF CancelRequested, TypeOK
  <2> QED
    BY <1>9, <2>1 DEF CancelRequested, TypeOK
<1> QED
  BY <1>1, <1>2, <1>3, <1>4, <1>5, <1>6, <1>7, <1>8, <1>9 DEF Waiting

\* cancel, and the reaping of a child.
LEMMA ReapingInv ==
  ASSUME IInv, Reaping
  PROVE  IInv'
<1> USE WorkerAssumption
    DEF ClosingCall, Started, Alive, InWait, InReap, child, record, caller, clock, IInv,
        CurHeld, CloseLast, InOrder, OthersDying, Traced, ChildrenHeld, OutcomeReaped,
        StagingQuiet, OneWorker, ClosedQuiet, Fault, Goto, Leave, Raise, others
<1>1. CASE CancelPolls
  <2>1. TypeOK'
    BY <1>1 DEF CancelPolls, StartReader, TypeOK
  <2> QED
    BY <1>1, <2>1 DEF CancelPolls, StartReader, TypeOK
<1>2. CASE CancelEnds
  <2>1. TypeOK'
    BY <1>2 DEF CancelEnds, Failures, TypeOK
  <2> QED
    BY <1>2, <2>1 DEF CancelEnds, Failures, TypeOK
<1>3. CASE Terminate
  <2>1. TypeOK'
    BY <1>3 DEF Terminate, TypeOK
  <2> QED
    BY <1>3, <2>1 DEF Terminate, TypeOK
<1>4. CASE Kill
  <2>1. TypeOK'
    BY <1>4 DEF Kill, TypeOK
  <2> QED
    BY <1>4, <2>1 DEF Kill, TypeOK
<1>5. CASE Reaped
  <2>1. TypeOK'
    BY <1>5 DEF Reaped, TypeOK
  <2> QED
    BY <1>5, <2>1 DEF Reaped, TypeOK
<1>6. CASE ReapFails
  <2>1. TypeOK'
    BY <1>6 DEF ReapFails, Unwind, TypeOK
  <2> QED
    BY <1>6, <2>1 DEF ReapFails, Unwind, TypeOK
<1>7. CASE MarkJoined
  <2>1. TypeOK'
    BY <1>7 DEF MarkJoined, StartReader, Readable, TypeOK
  <2> QED
    BY <1>7, <2>1 DEF MarkJoined, StartReader, Readable, TypeOK
<1>8. CASE ReaderStarves
  <2>1. TypeOK'
    BY <1>8 DEF ReaderStarves, TypeOK
  <2> QED
    BY <1>8, <2>1 DEF ReaderStarves, TypeOK
<1>9. CASE ReaderReapFails
  <2>1. TypeOK'
    BY <1>9 DEF ReaderReapFails, Unwind, TypeOK
  <2> QED
    BY <1>9, <2>1 DEF ReaderReapFails, Unwind, TypeOK
<1>10. CASE Finish
  <2>1. TypeOK'
    BY <1>10 DEF Finish, Conclusion, Decoded, Accepted, Failures, TypeOK
  <2> QED
    <3>1. /\ cur \in Attempts /\ outcome[cur] = "none" /\ proc[cur] = "dead"
          /\ reader[cur] \in {"payload", "toolarge", "crashed"}
      BY <1>10 DEF Finish, TypeOK
    <3>2. Conclusion(cur) \in Accepted => exitcode[cur] = "zero"
      BY <3>1 DEF Conclusion, Decoded, Accepted, Failures, TypeOK
    <3>3. /\ outcome' = [outcome EXCEPT ![cur] = Conclusion(cur)]
          /\ joined' = [joined EXCEPT ![cur] = TRUE]
          /\ reader' = [reader EXCEPT ![cur] = "none"]
          /\ receiver' = [receiver EXCEPT ![cur] = FALSE]
          /\ signal' = [signal EXCEPT ![cur] = "none"]
          /\ wpc' \in {"close", "discard", "judge"}
          /\ UNCHANGED <<proc, exitcode, staging, cur, promoted, closed>>
      BY <1>10 DEF Finish
    <3>4. /\ ClosingCall' <=> ClosingCall
          /\ wpc' = "close" <=> ClosingCall
          /\ UNCHANGED <<call.kind, call.retry>>
      BY <1>10 DEF Finish, TypeOK
    <3>5. Traced'
      <4>1. cause' = "none" /\ pipe' = [pipe EXCEPT ![cur] = "empty"]
        BY <1>10 DEF Finish
      <4>2. \A t \in Attempts :
               /\ t # cur => /\ outcome'[t] = outcome[t] /\ reader'[t] = reader[t]
                             /\ pipe'[t] = pipe[t]
               /\ t = cur => outcome'[t] = Conclusion(cur) /\ reader'[t] = "none" /\ outcome[t] = "none"
        BY <3>1, <3>3, <4>1 DEF TypeOK
      <4>3. \A t \in Attempts : t # cur => receiver'[t] = receiver[t]
        <5>1. receiver \in [Attempts -> BOOLEAN]
          BY DEF TypeOK
        <5> QED
          BY <3>1, <3>3, <5>1, SetFlag
      <4>4. Conclusion(cur) # "none"
        BY <3>1, <1>10 DEF Conclusion, Decoded, Accepted, Failures, TypeOK, Finish
      <4> QED
        BY <3>2, <3>3, <4>1, <4>2, <4>3, <4>4 DEF TypeOK, Accepted
    <3>6. CurHeld' /\ CloseLast' /\ InOrder' /\ OthersDying'
      BY <1>10, <3>1, <3>3, <3>4 DEF Finish, TypeOK
    <3>7. ChildrenHeld'
      BY <1>10, <3>1, <3>3, <3>4 DEF Finish, TypeOK
    <3> QED
      BY <2>1, <3>5, <3>6, <3>7
<1> QED
  BY <1>1, <1>2, <1>3, <1>4, <1>5, <1>6, <1>7, <1>8, <1>9, <1>10 DEF Reaping

\* _execute after the wait.
LEMMA JudgingInv ==
  ASSUME IInv, Judging
  PROVE  IInv'
<1> USE WorkerAssumption
    DEF ClosingCall, Started, Alive, InWait, InReap, child, record, caller, clock, IInv,
        CurHeld, CloseLast, InOrder, OthersDying, Traced, ChildrenHeld, OutcomeReaped,
        StagingQuiet, OneWorker, ClosedQuiet, Fault, Goto, Leave, Raise, others
<1>1. CASE Retry
  <2>1. TypeOK'
    BY <1>1 DEF Retry, Retries, TypeOK
  <2> QED
    BY <1>1, <2>1 DEF Retry, Retries, TypeOK
<1>2. CASE Promote
  <2>1. TypeOK'
    BY <1>2 DEF Promote, Promotable, Accepted, TypeOK
  <2> QED
    BY <1>2, <2>1 DEF Promote, Promotable, Accepted, TypeOK
<1>3. CASE PromoteFails
  <2>1. TypeOK'
    BY <1>3 DEF PromoteFails, TypeOK
  <2> QED
    BY <1>3, <2>1 DEF PromoteFails, TypeOK
<1>4. CASE Refuse
  <2>1. TypeOK'
    BY <1>4 DEF Refuse, Accepted, TypeOK
  <2> QED
    BY <1>4, <2>1 DEF Refuse, Accepted, TypeOK
<1>5. CASE Discard
  <2>1. TypeOK'
    BY <1>5 DEF Discard, TypeOK
  <2> QED
    BY <1>5, <2>1 DEF Discard, TypeOK
<1> QED
  BY <1>1, <1>2, <1>3, <1>4, <1>5 DEF Judging

\* close.
LEMMA ClosingInv ==
  ASSUME IInv, Closing \/ Close
  PROVE  IInv'
<1> USE WorkerAssumption
    DEF ClosingCall, Started, Alive, InWait, InReap, child, record, caller, clock, IInv,
        CurHeld, CloseLast, InOrder, OthersDying, Traced, ChildrenHeld, OutcomeReaped,
        StagingQuiet, OneWorker, ClosedQuiet, Fault, Goto, Leave, Raise, others
<1>1. CASE \E t \in Attempts : CloseCancels(t)
  <2>1. TypeOK'
    BY <1>1 DEF CloseCancels, Unsettled, TypeOK
  <2> QED
    BY <1>1, <2>1 DEF CloseCancels, Unsettled, TypeOK
<1>2. CASE CloseEnds
  <2>1. TypeOK'
    BY <1>2 DEF CloseEnds, Unsettled, TypeOK
  <2> QED
    BY <1>2, <2>1 DEF CloseEnds, Unsettled, TypeOK
<1>3. CASE Close
  <2>1. TypeOK'
    BY <1>3 DEF Close, TypeOK
  <2> QED
    BY <1>3, <2>1 DEF Close, TypeOK
<1> QED
  BY <1>1, <1>2, <1>3 DEF Closing

LEMMA StepInv == IInv /\ [Next]_workerVars => IInv'
<1> SUFFICES ASSUME IInv, [Next]_workerVars PROVE IInv'
  OBVIOUS
<1>1. CASE UNCHANGED workerVars
  BY <1>1
  DEF workerVars, child, record, caller, clock, IInv, TypeOK, CurHeld, CloseLast, InOrder,
      OthersDying, Traced, ChildrenHeld, OutcomeReaped, StagingQuiet, OneWorker, ClosedQuiet,
      ClosingCall, Started, Alive
<1> QED
  BY <1>1, ChildInv, StartingInv, WaitingInv, ReapingInv, JudgingInv, ClosingInv DEF Next, Caller

-----------------------------------------------------------------------------
(* Theorems *)

LEMMA AlwaysInv == Spec => []IInv
<1>1. Init => IInv
  BY InitInv
<1>2. IInv /\ [Next]_workerVars => IInv'
  BY StepInv
<1> QED
  BY <1>1, <1>2, PTL DEF Spec

\* The records of SpawnProcessSupervisor and the calling thread keep their types.
THEOREM TypeCorrect == Spec => []TypeOK
<1>1. IInv => TypeOK
  BY DEF IInv
<1> QED
  BY <1>1, AlwaysInv, PTL

\* For any number of attempts and of failing calls the supervisor never loses
\* hold of a child: an outcome means that the child is dead and its reader has
\* ended (_assert_reaped never fires), a directory is discarded and a next child
\* started only when the last one is dead or has SIGKILL pending, and a closed
\* supervisor leaves nothing behind.
THEOREM AlwaysHeld == Spec => []ChildrenHeld
<1>1. IInv => ChildrenHeld
  BY DEF IInv
<1> QED
  BY <1>1, AlwaysInv, PTL

\* What wait, cancel and close keep as an outcome is what the child did, once
\* and for all, and only the work of a child that ended by itself is promoted.
THEOREM OutcomesHonest == Spec => OutcomeHonest
<1> DEFINE Honest ==
      /\ \A t \in Attempts :
           /\ outcome[t] # "none" => outcome'[t] = outcome[t]
           /\ outcome[t] = "none" /\ outcome'[t] # "none" =>
                /\ outcome'[t] \in Accepted => outcome'[t] = payload[t] /\ pipe[t] = "whole"
                /\ outcome'[t] = "CRASHED" /\ exitcode[t] = "zero" /\ pipe[t] = "whole"
                     => reader[t] = "crashed"
      /\ \A t \in promoted' : exitcode[t] = "zero" /\ outcome[t] \in {"good", "big"}
<1>1. IInv /\ [Next]_workerVars => [Honest]_workerVars
  <2> SUFFICES ASSUME IInv, Next PROVE Honest
    OBVIOUS
  <2> USE DEF child, record, caller, clock, others
  <2>1. CASE Finish
    <3>1. /\ cur \in Attempts /\ outcome[cur] = "none" /\ reader[cur] \in {"payload", "toolarge", "crashed"}
          /\ outcome' = [outcome EXCEPT ![cur] = Conclusion(cur)] /\ promoted' = promoted
      BY <2>1 DEF Finish, IInv, TypeOK, CurHeld, InReap
    <3>2. /\ Conclusion(cur) \in Accepted => Conclusion(cur) = payload[cur] /\ pipe[cur] = "whole"
          /\ Conclusion(cur) = "CRASHED" /\ exitcode[cur] = "zero" => reader[cur] = "crashed"
      BY <3>1 DEF Conclusion, Decoded, Accepted, Failures, IInv, TypeOK, Traced
    <3> QED
      BY <3>1, <3>2 DEF IInv, TypeOK, Traced, Accepted
  <2>2. CASE Promote
    BY <2>2 DEF Promote, Promotable, IInv, TypeOK, CurHeld, Traced, Accepted
  <2>3. CASE UNCHANGED <<outcome, promoted>>
    BY <2>3 DEF IInv, TypeOK, Traced, Accepted
  <2>4. \/ Finish \/ Promote \/ UNCHANGED <<outcome, promoted>>
    BY DEF Next, Caller, Starting, Waiting, Reaping, Judging, Closing, CreateStaging,
        CreateStagingFails, TaskRefused, Submit, SubmitFails, Execute, WaitCancels,
        WaitCheckFails, WaitLooksAtClock, WaitPolls, WaitReceives, WaitLooksAtProcess,
        JoinBeforeDeadline, DeadlinePasses, CancelRequested, CancelPolls, CancelEnds, Terminate,
        Kill, Reaped, ReapFails, MarkJoined, ReaderStarves, ReaderReapFails, Retry, PromoteFails,
        Refuse, Discard, CloseCancels, CloseEnds, Close, Child, ChildBoots, ChildWrites,
        ChildRefuses, ChildConcludes, ChildSends, ChildExits, SignalKills, ReadOutcome
  <2> QED
    BY <2>1, <2>2, <2>3, <2>4
<1> QED
  BY <1>1, AlwaysInv, PTL DEF Spec, OutcomeHonest
=============================================================================
