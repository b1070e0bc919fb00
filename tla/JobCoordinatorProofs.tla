------------------------ MODULE JobCoordinatorProofs ------------------------
(***************************************************************************)
(* Theorems about JobCoordinator for any jobs, modes, requests and bounds. *)
(* The invariant is kept in layers, each proved from the ones before: what *)
(* the thread holds, requests and their answers, stop, rows, stages,       *)
(* projections, and jobs in flight.                                        *)
(***************************************************************************)
EXTENDS JobCoordinator, TLAPS

-----------------------------------------------------------------------------
(* What the thread holds *)

Commanded == {"admit", "checked", "commit", "acknowledge", "write", "failBefore", "failAfter", "drive", "work"}

\* The item in the thread's hand is of the kind its place in the code says.
Held ==
    /\ pc \in Commanded => \E r \in Requests : item = Command(r)
    /\ pc \in {"cancel", "recover"} => \E j \in Jobs : item = Wake(j)
    /\ pc = "external" => \E j \in Jobs : item = External(j)
    /\ pc \in {"starting", "idle", "ended", "absent"} => item = Nothing

-----------------------------------------------------------------------------
(* Rows and items *)

LEMMA MovedRow ==
    ASSUME NEW row \in Rows, NEW to \in States, NEW b \in Blockers, NEW new \in SUBSET Roles
    PROVE  /\ Moved(row, to, b, new) \in Rows
           /\ Moved(row, to, b, new).state = to
           /\ Moved(row, to, b, new).rev = row.rev + 1
           /\ Moved(row, to, b, new).blocker = b
           /\ Moved(row, to, b, new).roles = row.roles \cup new
BY DEF Moved, Rows

LEMMA FixedRows ==
    /\ NoRow \in Rows /\ NoRow.state = "NONE" /\ NoRow.rev = 0 /\ NoRow.roles = {} /\ NoRow.blocker = "none"
    /\ Queued \in Rows /\ Queued.state = "QUEUED" /\ Queued.rev = 0 /\ Queued.roles = {} /\ Queued.blocker = "none"
BY DEF NoRow, Queued, Rows, States, InFlight, Rest, Blockers

LEMMA WorkerRoles ==
    ASSUME NEW w
    PROVE  Leaves(w) \in SUBSET Roles /\ LeavesBlocked(w) \in SUBSET Roles /\ Reads(w) \in SUBSET Roles
BY DEF Leaves, LeavesBlocked, Reads, Roles

LEMMA SteppedRow ==
    ASSUME NEW j \in Jobs, NEW row \in Rows
    PROVE  /\ Stepped(j, row) \in Rows /\ Stepped(j, row).rev = row.rev + 1
           /\ row.state = "QUEUED" /\ Mode[j] = "check" =>
                 Stepped(j, row).state = "VALIDATING_GCODE" /\ Stepped(j, row).roles = row.roles \cup {"gcode"}
           /\ row.state = "QUEUED" /\ Mode[j] # "check" =>
                 Stepped(j, row).state = "PREPARING_IMAGE" /\ Stepped(j, row).roles = row.roles \cup {"input"}
           /\ row.state = "IMAGE_READY" =>
                 Stepped(j, row).state = "PLANNING_PATHS" /\ Stepped(j, row).roles = row.roles
           /\ row.state \notin {"QUEUED", "IMAGE_READY"} =>
                 Stepped(j, row).state = "BUILDING_GCODE" /\ Stepped(j, row).roles = row.roles
<1> DEFINE moved(to, new) == Moved(row, to, "none", new)
<1>1. ASSUME NEW to \in States, NEW new \in SUBSET Roles
      PROVE  /\ moved(to, new) \in Rows /\ moved(to, new).rev = row.rev + 1
             /\ moved(to, new).state = to /\ moved(to, new).roles = row.roles \cup new
    BY MovedRow DEF Blockers
<1>2. {"VALIDATING_GCODE", "PREPARING_IMAGE", "PLANNING_PATHS", "BUILDING_GCODE"} \subseteq States
    BY DEF States, InFlight
<1>3. {"gcode"} \in SUBSET Roles /\ {"input"} \in SUBSET Roles /\ {} \in SUBSET Roles
    BY DEF Roles
<1>7. row.roles \cup {} = row.roles
    OBVIOUS
<1>4. CASE row.state = "QUEUED"
    BY <1>1, <1>2, <1>3, <1>4 DEF Stepped
<1>5. CASE row.state = "IMAGE_READY"
    BY <1>1, <1>2, <1>3, <1>5, <1>7, ZenonT(40) DEF Stepped
<1>6. CASE row.state \notin {"QUEUED", "IMAGE_READY"}
    BY <1>1, <1>2, <1>3, <1>6, <1>7 DEF Stepped
<1> QED
    BY <1>4, <1>5, <1>6

LEMMA FinishedRow ==
    ASSUME NEW j \in Jobs, NEW row \in Rows, NEW new \in SUBSET Roles
    PROVE  /\ Finished(j, row, new) \in Rows /\ Finished(j, row, new).rev = row.rev + 1
           /\ Finished(j, row, new).roles = row.roles \cup new
           /\ row.state = "PREPARING_IMAGE" => AwaitsReview(Finished(j, row, new))
           /\ row.state = "PLANNING_PATHS" => Finished(j, row, new).state = "PATH_PLAN_READY"
           /\ row.state = "BUILDING_GCODE" => Finished(j, row, new).state = "VALIDATING_GCODE"
           /\ row.state \notin {"PREPARING_IMAGE", "PLANNING_PATHS", "BUILDING_GCODE"} =>
                 Finished(j, row, new).state = IF Mode[j] = "check" THEN "COMPLETED" ELSE "READY_TO_RUN"
BY MovedRow DEF Finished, AwaitsReview, States, InFlight, Rest, Blockers, Roles

LEMMA HeldRequest ==
    ASSUME Held, pc \in Commanded
    PROVE  item.req \in Requests /\ item.req.job \in Jobs /\ item = Command(item.req)
BY RequestAssumption DEF Held, Command

LEMMA HeldJob ==
    ASSUME Held, pc \in {"cancel", "recover", "external"}
    PROVE  item.job \in Jobs
BY DEF Held, Wake, External

LEMMA ItemKinds ==
    ASSUME NEW i \in Items
    PROVE  /\ i.tag = "command" => i.req \in Requests /\ i.req.job \in Jobs /\ i = Command(i.req)
           /\ i.tag = "cancel" => i.job \in Jobs /\ i = Wake(i.job)
           /\ i.tag = "external" => i.job \in Jobs /\ i = External(i.job)
BY RequestAssumption DEF Items, Command, Wake, External, StopItem

LEMMA TakenItem ==
    ASSUME TypeOK, NEW tag, Took(tag)
    PROVE  /\ Head(box) \in Items /\ Head(box).tag = tag /\ box' = Tail(box) /\ box' \in Seq(Items)
           /\ pc = "idle" /\ box # <<>>
<1>1. box \in Seq(Items) /\ box # <<>>
    BY DEF TypeOK, Took
<1>2. Head(box) \in Items /\ Tail(box) \in Seq(Items)
    BY <1>1
<1> QED
    BY <1>1, <1>2 DEF Took

LEMMA ItemTypes ==
    /\ StopItem \in Items
    /\ \A r \in Requests : Command(r) \in Items
    /\ \A j \in Jobs : Wake(j) \in Items /\ External(j) \in Items
BY DEF Items

LEMMA AddedItem ==
    ASSUME TypeOK, NEW i \in Items
    PROVE  Append(box, i) \in Seq(Items)
<1>1. box \in Seq(Items)
    BY DEF TypeOK
<1> QED
    BY <1>1
-----------------------------------------------------------------------------
(* Types *)

LEMMA PutRow ==
    ASSUME TypeOK, NEW j \in Jobs, NEW row \in Rows
    PROVE  [rows EXCEPT ![j] = row] \in [Jobs -> Rows]
BY DEF TypeOK

LEMMA PublishedType ==
    ASSUME TypeOK, NEW j \in Jobs, NEW row \in Rows
    PROVE  Published(j, row) \in [Jobs -> Projections]
<1>1. proj \in [Jobs -> Projections] /\ proj[j] \in Projections /\ proj[j].asked \in BOOLEAN
    BY DEF TypeOK, Projections
<1>2. [row |-> row, asked |-> proj[j].asked /\ ~Cancelled(row)] \in Projections
    BY <1>1 DEF Projections, Cancelled
<1> QED
    BY <1>1, <1>2 DEF Published

LEMMA ShownType ==
    ASSUME TypeOK, NEW j \in Jobs, NEW row \in Rows
    PROVE  Shown(j, row) \in [Jobs -> Projections]
BY DEF TypeOK, Projections, Shown

LEMMA AskedType ==
    ASSUME TypeOK, NEW j \in Jobs
    PROVE  /\ [proj EXCEPT ![j].asked = TRUE] \in [Jobs -> Projections]
           /\ [proj EXCEPT ![j].asked = FALSE] \in [Jobs -> Projections]
BY DEF TypeOK, Projections

LEMMA RowType ==
    ASSUME TypeOK, NEW j \in Jobs, NEW row \in Rows
    PROVE  [proj EXCEPT ![j].row = row] \in [Jobs -> Projections]
BY DEF TypeOK, Projections

LEMMA EnvelopeTypes ==
    ASSUME NEW r, NEW v \in Envelopes
    PROVE  /\ Acked(r, v) \in Envelopes /\ Abandoned(v) \in Envelopes
           /\ [v EXCEPT !.error = TRUE] \in Envelopes
           /\ Acked(r, [v EXCEPT !.error = TRUE]) \in Envelopes
           /\ NoEnvelope \in Envelopes /\ Fresh \in Envelopes
BY DEF Acked, Abandoned, Envelopes, NoEnvelope, Fresh

LEMMA ClearedTypes ==
    ASSUME TypeOK
    PROVE  \A j \in Jobs : Cleared(j) \in [Jobs -> BOOLEAN]
BY DEF TypeOK, Cleared

LEMMA AnswerTypes ==
    ASSUME TypeOK
    PROVE  \A r \in Requests :
             /\ AnswerWithJob(r) \in [Requests -> Envelopes]
             /\ [env EXCEPT ![r] = Acked(r, [env[r] EXCEPT !.error = TRUE])] \in [Requests -> Envelopes]
BY EnvelopeTypes DEF TypeOK, AnswerWithJob

LEMMA TaskTypes ==
    /\ Idle \in Tasks
    /\ \A w \in Workers, new \in SUBSET Roles : Attempt(w, new) \in Tasks
    /\ \A t \in Tasks : [t EXCEPT !.again = TRUE] \in Tasks /\ t.kind \in Workers /\ t.roles \in SUBSET Roles
BY DEF Idle, Tasks, Attempt, Workers

LEMMA Counted ==
    ASSUME TypeOK
    PROVE  /\ Fault \/ SecondFault => used' \in Counters
           /\ used.cancels < MaxCancels /\ Count("cancels") => used' \in Counters
           /\ used.claims < MaxClaims /\ Count("claims") => used' \in Counters
           /\ used.restarts < MaxRestarts /\ Count("restarts") => used' \in Counters
<1> USE BoundAssumption
<1>1. used \in Counters
    BY DEF TypeOK
<1>2. ASSUME Fault \/ SecondFault PROVE used' \in Counters
    BY <1>1, <1>2 DEF Fault, SecondFault, Count, Counters
<1>3. ASSUME used.cancels < MaxCancels, Count("cancels") PROVE used' \in Counters
    BY <1>1, <1>3 DEF Count, Counters
<1>4. ASSUME used.claims < MaxClaims, Count("claims") PROVE used' \in Counters
    BY <1>1, <1>4 DEF Count, Counters
<1>5. ASSUME used.restarts < MaxRestarts, Count("restarts") PROVE used' \in Counters
    BY <1>1, <1>5 DEF Count, Counters
<1> QED
    BY <1>2, <1>3, <1>4, <1>5

LEMMA CommandTypes ==
    ASSUME TypeOK, Held, Commanding
    PROVE  TypeOK' /\ Held'
<1> USE DEF store, memory, thread, requests, machine, stopVars, Put, Rests, Goes, Job, At
<1>r. pc \in Commanded => item.req \in Requests /\ Job \in Jobs /\ item = Command(item.req)
    BY HeldRequest
<1>e. /\ env \in [Requests -> Envelopes] /\ rows \in [Jobs -> Rows] /\ snap \in Rows
      /\ proj \in [Jobs -> Projections] /\ work \in Tasks /\ used \in Counters
      /\ known \in [Jobs -> SUBSET Roles] /\ paid \in [Jobs -> Nat] /\ token \in [Jobs -> BOOLEAN]
    BY DEF TypeOK
<1>1. CASE TakeCommand
    <2>1. Head(box) \in Items /\ box' \in Seq(Items) /\ Head(box).req \in Requests /\ Head(box).req.job \in Jobs /\ Head(box) = Command(Head(box).req)
        BY <1>1, TakenItem, ItemKinds DEF TakeCommand
    <2>2. work' \in Tasks /\ snap' \in Rows
        BY <1>1, <2>1, <1>e, FixedRows, TaskTypes DEF TakeCommand
    <2>3. TypeOK'
        BY <1>1, <1>r, <2>1, <2>2 DEF TakeCommand, TypeOK, Commanded
    <2>4. Held'
        BY <1>1, <1>r, <2>1, <2>2 DEF TakeCommand, Held, Commanded
    <2> QED
        BY <2>3, <2>4
<1>2. CASE RefuseCommand
    <2>1. env' \in [Requests -> Envelopes]
        BY <1>2, <1>r, <1>e, EnvelopeTypes DEF RefuseCommand, Commanded
    <2>2. used' \in Counters
        BY <1>2, <1>e, Counted DEF RefuseCommand
    <2>3. work' \in Tasks /\ snap' \in Rows
        BY <1>2, <1>e, FixedRows, TaskTypes DEF RefuseCommand
    <2>4. TypeOK'
        BY <1>2, <1>r, <2>1, <2>2, <2>3 DEF RefuseCommand, TypeOK, Commanded
    <2>5. Held'
        BY <1>2, <1>r, <2>1, <2>2, <2>3 DEF RefuseCommand, Held, Commanded
    <2> QED
        BY <2>4, <2>5
<1>3. CASE CheckCommand
    <2>1. env' \in [Requests -> Envelopes]
        BY <1>3, <1>r, <1>e DEF CheckCommand, Checked, Envelopes, Commanded
    <2>2. work' \in Tasks /\ snap' \in Rows
        BY <1>3, <1>e, FixedRows, TaskTypes DEF CheckCommand
    <2>3. TypeOK'
        BY <1>3, <1>r, <2>1, <2>2 DEF CheckCommand, TypeOK, Commanded
    <2>4. Held'
        BY <1>3, <1>r, <2>1, <2>2 DEF CheckCommand, Held, Commanded
    <2> QED
        BY <2>3, <2>4
<1>4. CASE CommitCommand
    <2>1. item.req \in Requests /\ Job \in Jobs
        BY <1>4, <1>r DEF CommitCommand, Commanded
    <2>2. Admitted(item.req) \in Rows
        BY <1>e, FixedRows, MovedRow DEF Admitted, States, InFlight, Blockers, Roles
    <2>3. rows' \in [Jobs -> Rows] /\ snap' \in Rows
        BY <1>4, <2>1, <2>2, PutRow DEF CommitCommand
    <2>4. used' \in Counters
        BY <1>4, <1>e, Counted DEF CommitCommand
    <2>5. TypeOK'
        BY <1>4, <1>r, <2>1, <2>2, <2>3, <2>4 DEF CommitCommand, TypeOK, Commanded
    <2>6. Held'
        BY <1>4, <1>r, <2>1, <2>2, <2>3, <2>4 DEF CommitCommand, Held, Commanded
    <2> QED
        BY <2>5, <2>6
<1>5. CASE Acknowledge
    <2>1. env' \in [Requests -> Envelopes]
        BY <1>5, <1>r, <1>e, EnvelopeTypes DEF Acknowledge, Commanded
    <2>2. proj' \in [Jobs -> Projections]
        BY <1>5, <1>r, <1>e, PublishedType, ShownType DEF Acknowledge, Commanded
    <2>3. TypeOK'
        BY <1>5, <1>r, <2>1, <2>2 DEF Acknowledge, TypeOK, Commanded
    <2>4. Held'
        BY <1>5, <1>r, <2>1, <2>2 DEF Acknowledge, Held, Commanded
    <2> QED
        BY <2>3, <2>4
<1>6. CASE WriteProjection
    <2>1. used' \in Counters
        BY <1>6, <1>e, Counted DEF WriteProjection
    <2>2. proj' \in [Jobs -> Projections]
        BY <1>6, <1>r, <1>e, PublishedType, ShownType DEF WriteProjection, Commanded
    <2>3. TypeOK'
        BY <1>6, <1>r, <2>1, <2>2 DEF WriteProjection, TypeOK, Commanded
    <2>4. Held'
        BY <1>6, <1>r, <2>1, <2>2 DEF WriteProjection, Held, Commanded
    <2> QED
        BY <2>3, <2>4
<1>7. CASE FailBefore
    <2>1. item.req \in Requests /\ Job \in Jobs
        BY <1>7, <1>r DEF FailBefore, Commanded
    <2>2. Moved(rows[Job], "FAILED", "none", {}) \in Rows
        BY <2>1, <1>e, MovedRow, ZenonT(40) DEF States, Rest, Blockers, Roles
    <2>3. rows' \in [Jobs -> Rows]
        BY <1>7, <1>e, <2>1, <2>2, PutRow DEF FailBefore
    <2>4. proj' \in [Jobs -> Projections]
        BY <1>7, <1>e, <2>1, <2>2, <2>3, PublishedType, ShownType DEF FailBefore
    <2>5. env' \in [Requests -> Envelopes]
        BY <1>7, <2>1, <1>e, AnswerTypes DEF FailBefore
    <2>6. used' \in Counters
        BY <1>7, <1>e, Counted DEF FailBefore
    <2>7. work' \in Tasks /\ snap' \in Rows
        BY <1>7, <1>e, FixedRows, TaskTypes DEF FailBefore
    <2>8. TypeOK'
        BY <1>7, <1>r, <2>1, <2>2, <2>3, <2>4, <2>5, <2>6, <2>7 DEF FailBefore, TypeOK, Commanded
    <2>9. Held'
        BY <1>7, <1>r, <2>1, <2>2, <2>3, <2>4, <2>5, <2>6, <2>7 DEF FailBefore, Held, Commanded
    <2> QED
        BY <2>8, <2>9
<1>8. CASE FailAfter
    <2>1. item.req \in Requests /\ Job \in Jobs
        BY <1>8, <1>r DEF FailAfter, Commanded
    <2>2. Moved(rows[Job], "FAILED", "none", {}) \in Rows
        BY <2>1, <1>e, MovedRow, ZenonT(40) DEF States, Rest, Blockers, Roles
    <2>3. rows' \in [Jobs -> Rows]
        BY <1>8, <1>e, <2>1, <2>2, PutRow DEF FailAfter
    <2>4. rows'[Job] \in Rows /\ rows[Job] \in Rows
        BY <1>e, <2>1, <2>3
    <2>5. \/ \E row \in Rows : proj' = Published(Job, row)
          \/ proj' = [proj EXCEPT ![Job].row = rows'[Job]]
          \/ proj' = proj
        BY <1>8, <2>2, <2>4 DEF FailAfter
    <2>6. proj' \in [Jobs -> Projections]
        BY <2>1, <2>4, <2>5, <1>e, PublishedType, RowType
    <2>7. used' \in Counters
        BY <1>8, <1>e, Counted DEF FailAfter
    <2>8. work' \in Tasks /\ snap' \in Rows
        BY <1>8, <1>e, FixedRows, TaskTypes DEF FailAfter
    <2>9. TypeOK'
        BY <1>8, <1>r, <2>1, <2>2, <2>3, <2>4, <2>5, <2>6, <2>7, <2>8 DEF FailAfter, TypeOK, Commanded
    <2>10. Held'
        BY <1>8, <1>r, <2>1, <2>2, <2>3, <2>4, <2>5, <2>6, <2>7, <2>8 DEF FailAfter, Held, Commanded
    <2> QED
        BY <2>9, <2>10
<1> QED
    BY <1>1, <1>2, <1>3, <1>4, <1>5, <1>6, <1>7, <1>8 DEF Commanding

LEMMA CommitsTypes ==
    ASSUME TypeOK, Job \in Jobs, NEW row \in Rows, Commits(row)
    PROVE  /\ rows' \in [Jobs -> Rows] /\ proj' \in [Jobs -> Projections] /\ used' \in Counters
           /\ snap' \in Rows /\ work' \in Tasks /\ item' = item /\ pc' \in {"drive", "failAfter"}
<1>1. used \in Counters /\ proj \in [Jobs -> Projections]
    BY DEF TypeOK
<1> QED
    BY <1>1, PutRow, PublishedType, ShownType, TaskTypes, Counted DEF Commits, Put

LEMMA LaunchTypes ==
    ASSUME TypeOK, Job \in Jobs, NEW w \in Workers, NEW new \in SUBSET Roles, Launch(w, new)
    PROVE  /\ paid' \in [Jobs -> Nat] /\ work' \in Tasks /\ item' = item /\ snap' = snap
           /\ pc' \in {"work", "failAfter"}
<1>1. paid \in [Jobs -> Nat]
    BY DEF TypeOK
<1> QED
    BY <1>1, TaskTypes DEF Launch

LEMMA DriveTypes ==
    ASSUME TypeOK, Held, Driving
    PROVE  TypeOK' /\ Held'
<1> USE DEF store, memory, thread, requests, machine, stopVars, Put, Rests, Goes, Job, At
<1>r. pc \in Commanded => item.req \in Requests /\ Job \in Jobs /\ item = Command(item.req)
    BY HeldRequest
<1>e. /\ env \in [Requests -> Envelopes] /\ rows \in [Jobs -> Rows] /\ snap \in Rows
      /\ proj \in [Jobs -> Projections] /\ work \in Tasks /\ used \in Counters
      /\ known \in [Jobs -> SUBSET Roles] /\ paid \in [Jobs -> Nat] /\ token \in [Jobs -> BOOLEAN]
    BY DEF TypeOK
<1>1. CASE DriveRaises
    <2>1. used' \in Counters
        BY <1>1, <1>e, Counted DEF DriveRaises
    <2>2. work' \in Tasks /\ snap' \in Rows
        BY <1>1, <1>e, FixedRows, TaskTypes DEF DriveRaises
    <2>3. TypeOK'
        BY <1>1, <1>r, <2>1, <2>2 DEF DriveRaises, TypeOK, Commanded
    <2>4. Held'
        BY <1>1, <1>r, <2>1, <2>2 DEF DriveRaises, Held, Commanded
    <2> QED
        BY <2>3, <2>4
<1>2. CASE DriveEnds
    <2>1. work' \in Tasks /\ snap' \in Rows
        BY <1>2, <1>e, FixedRows, TaskTypes DEF DriveEnds
    <2>2. TypeOK'
        BY <1>2, <1>r, <2>1 DEF DriveEnds, TypeOK, Commanded
    <2>3. Held'
        BY <1>2, <1>r, <2>1 DEF DriveEnds, Held, Commanded
    <2> QED
        BY <2>2, <2>3
<1>3. CASE AdvanceCancels
    <2>1. item.req \in Requests /\ Job \in Jobs
        BY <1>3, <1>r DEF AdvanceCancels, Commanded
    <2>2. Moved(snap, "CANCELLED", "none", {}) \in Rows
        BY <1>e, MovedRow DEF States, Rest, Blockers, Roles
    <2>3. rows' \in [Jobs -> Rows] /\ proj' \in [Jobs -> Projections] /\ used' \in Counters /\ snap' \in Rows /\ work' \in Tasks /\ item' = item /\ pc' \in {"drive", "failAfter"}
        BY <1>3, <2>1, <2>2, CommitsTypes DEF AdvanceCancels
    <2>4. TypeOK'
        BY <1>3, <1>r, <2>1, <2>2, <2>3 DEF AdvanceCancels, TypeOK, Commanded
    <2>5. Held'
        BY <1>3, <1>r, <2>1, <2>2, <2>3 DEF AdvanceCancels, Held, Commanded
    <2> QED
        BY <2>4, <2>5
<1>4. CASE AdvanceSteps
    <2>1. item.req \in Requests /\ Job \in Jobs
        BY <1>4, <1>r DEF AdvanceSteps, Commanded
    <2>2. Stepped(Job, snap) \in Rows
        BY <1>e, <2>1, SteppedRow
    <2>3. rows' \in [Jobs -> Rows] /\ proj' \in [Jobs -> Projections] /\ used' \in Counters /\ snap' \in Rows /\ work' \in Tasks /\ item' = item /\ pc' \in {"drive", "failAfter"}
        BY <1>4, <2>1, <2>2, CommitsTypes DEF AdvanceSteps
    <2>4. known' \in [Jobs -> SUBSET Roles]
        BY <1>4, <1>e, <2>1, <2>2 DEF AdvanceSteps, Rows
    <2>5. TypeOK'
        BY <1>4, <1>r, <2>1, <2>2, <2>3, <2>4 DEF AdvanceSteps, TypeOK, Commanded
    <2>6. Held'
        BY <1>4, <1>r, <2>1, <2>2, <2>3, <2>4 DEF AdvanceSteps, Held, Commanded
    <2> QED
        BY <2>5, <2>6
<1>5. CASE AdvanceWorks
    <2>1. item.req \in Requests /\ Job \in Jobs
        BY <1>5, <1>r DEF AdvanceWorks, Commanded
    <2>2. WorkerOf(Job, snap.state) \in Workers
        BY DEF WorkerOf, Workers
    <2>3. paid' \in [Jobs -> Nat] /\ work' \in Tasks /\ item' = item /\ snap' = snap /\ pc' \in {"work", "failAfter"}
        BY <1>5, <2>1, <2>2, LaunchTypes DEF AdvanceWorks
    <2>4. TypeOK'
        BY <1>5, <1>r, <2>1, <2>2, <2>3 DEF AdvanceWorks, TypeOK, Commanded
    <2>5. Held'
        BY <1>5, <1>r, <2>1, <2>2, <2>3 DEF AdvanceWorks, Held, Commanded
    <2> QED
        BY <2>4, <2>5
<1>6. CASE WorkerSucceeds
    <2>1. item.req \in Requests /\ Job \in Jobs
        BY <1>6, <1>r DEF WorkerSucceeds, Commanded
    <2>2. work.roles \cup Leaves(work.kind) \in SUBSET Roles /\ Follows(work.kind) \subseteq Workers
        BY <1>e, TaskTypes, WorkerRoles DEF Follows, Workers
    <2>3. known' \in [Jobs -> SUBSET Roles]
        BY <1>6, <1>e, <2>1, WorkerRoles DEF WorkerSucceeds
    <2>4. CASE Follows(work.kind) = {}
        <3>1. Finished(Job, snap, work.roles \cup Leaves(work.kind)) \in Rows
            BY <1>e, <2>1, <2>2, FinishedRow
        <3>2. Commits(Finished(Job, snap, work.roles \cup Leaves(work.kind))) /\ UNCHANGED paid
            BY <1>6, <2>4 DEF WorkerSucceeds
        <3>3. /\ rows' \in [Jobs -> Rows] /\ proj' \in [Jobs -> Projections] /\ used' \in Counters
              /\ snap' \in Rows /\ work' \in Tasks /\ item' = item /\ pc' \in {"drive", "failAfter"}
            BY <2>1, <3>1, <3>2, CommitsTypes
        <3> QED
            BY <1>6, <1>r, <2>3, <3>2, <3>3 DEF WorkerSucceeds, TypeOK, Held, Commanded
    <2>5. CASE Follows(work.kind) # {}
        <3>1. PICK w \in Follows(work.kind) : Launch(w, work.roles \cup Leaves(work.kind))
            BY <1>6, <2>5 DEF WorkerSucceeds
        <3>2. /\ paid' \in [Jobs -> Nat] /\ work' \in Tasks /\ item' = item /\ snap' = snap
              /\ pc' \in {"work", "failAfter"}
            BY <2>1, <2>2, <3>1, LaunchTypes
        <3>3. UNCHANGED <<rows, proj, used>>
            BY <1>6, <2>5 DEF WorkerSucceeds
        <3> QED
            BY <1>6, <1>r, <2>3, <3>2, <3>3 DEF WorkerSucceeds, TypeOK, Held, Commanded
    <2> QED
        BY <2>4, <2>5
<1>7. CASE WorkerBlocks
    <2>1. item.req \in Requests /\ Job \in Jobs
        BY <1>7, <1>r DEF WorkerBlocks, Commanded
    <2>2. Moved(snap, "BLOCKED", "worker", work.roles \cup LeavesBlocked(work.kind)) \in Rows
        BY <1>e, MovedRow, TaskTypes, WorkerRoles DEF States, Rest, Blockers
    <2>3. rows' \in [Jobs -> Rows] /\ proj' \in [Jobs -> Projections] /\ used' \in Counters /\ snap' \in Rows /\ work' \in Tasks /\ item' = item /\ pc' \in {"drive", "failAfter"}
        BY <1>7, <2>1, <2>2, CommitsTypes DEF WorkerBlocks
    <2>4. known' \in [Jobs -> SUBSET Roles]
        BY <1>7, <1>e, <2>1, WorkerRoles DEF WorkerBlocks
    <2>5. TypeOK'
        BY <1>7, <1>r, <2>1, <2>2, <2>3, <2>4 DEF WorkerBlocks, TypeOK, Commanded
    <2>6. Held'
        BY <1>7, <1>r, <2>1, <2>2, <2>3, <2>4 DEF WorkerBlocks, Held, Commanded
    <2> QED
        BY <2>5, <2>6
<1>8. CASE WorkerFails
    <2>1. item.req \in Requests /\ Job \in Jobs
        BY <1>8, <1>r DEF WorkerFails, Commanded
    <2>2. Moved(snap, "FAILED", "none", {}) \in Rows
        BY <1>e, MovedRow DEF States, Rest, Blockers, Roles
    <2>3. rows' \in [Jobs -> Rows] /\ proj' \in [Jobs -> Projections] /\ used' \in Counters /\ snap' \in Rows /\ work' \in Tasks /\ item' = item /\ pc' \in {"drive", "failAfter"}
        BY <1>8, <2>1, <2>2, CommitsTypes DEF WorkerFails
    <2>4. TypeOK'
        BY <1>8, <1>r, <2>1, <2>2, <2>3 DEF WorkerFails, TypeOK, Commanded
    <2>5. Held'
        BY <1>8, <1>r, <2>1, <2>2, <2>3 DEF WorkerFails, Held, Commanded
    <2> QED
        BY <2>4, <2>5
<1>9. CASE WorkerCrashes
    <2>1. item.req \in Requests /\ Job \in Jobs
        BY <1>9, <1>r DEF WorkerCrashes, Commanded
    <2>2. work' \in Tasks /\ paid' \in [Jobs -> Nat]
        BY <1>9, <1>e, <2>1, TaskTypes DEF WorkerCrashes
    <2>3. TypeOK'
        BY <1>9, <1>r, <2>1, <2>2 DEF WorkerCrashes, TypeOK, Commanded
    <2>4. Held'
        BY <1>9, <1>r, <2>1, <2>2 DEF WorkerCrashes, Held, Commanded
    <2> QED
        BY <2>3, <2>4
<1>10. CASE WorkerCancelled
    <2>1. item.req \in Requests /\ Job \in Jobs
        BY <1>10, <1>r DEF WorkerCancelled, Commanded
    <2>2. Moved(snap, "CANCELLED", "none", {}) \in Rows
        BY <1>e, MovedRow DEF States, Rest, Blockers, Roles
    <2>3. rows' \in [Jobs -> Rows] /\ proj' \in [Jobs -> Projections] /\ used' \in Counters /\ snap' \in Rows /\ work' \in Tasks /\ item' = item /\ pc' \in {"drive", "failAfter"}
        BY <1>10, <2>1, <2>2, CommitsTypes DEF WorkerCancelled
    <2>4. TypeOK'
        BY <1>10, <1>r, <2>1, <2>2, <2>3 DEF WorkerCancelled, TypeOK, Commanded
    <2>5. Held'
        BY <1>10, <1>r, <2>1, <2>2, <2>3 DEF WorkerCancelled, Held, Commanded
    <2> QED
        BY <2>4, <2>5
<1> QED
    BY <1>1, <1>2, <1>3, <1>4, <1>5, <1>6, <1>7, <1>8, <1>9, <1>10 DEF Driving

LEMMA CancelTypes ==
    ASSUME TypeOK, Held, Cancelling
    PROVE  TypeOK' /\ Held'
<1> USE DEF store, memory, thread, requests, machine, stopVars, Put, Rests, Goes, Job, At
<1>r. pc \in Commanded => item.req \in Requests /\ Job \in Jobs /\ item = Command(item.req)
    BY HeldRequest
<1>e. /\ env \in [Requests -> Envelopes] /\ rows \in [Jobs -> Rows] /\ snap \in Rows
      /\ proj \in [Jobs -> Projections] /\ work \in Tasks /\ used \in Counters
      /\ known \in [Jobs -> SUBSET Roles] /\ paid \in [Jobs -> Nat] /\ token \in [Jobs -> BOOLEAN]
    BY DEF TypeOK
<1>1. CASE TakeCancel
    <2>1. Head(box) \in Items /\ box' \in Seq(Items) /\ Head(box).job \in Jobs /\ Head(box) = Wake(Head(box).job)
        BY <1>1, TakenItem, ItemKinds DEF TakeCancel
    <2>2. work' \in Tasks /\ snap' \in Rows
        BY <1>1, <2>1, <1>e, FixedRows, TaskTypes DEF TakeCancel
    <2>3. proj' \in [Jobs -> Projections]
        BY <1>1, <2>1, <1>e, AskedType DEF TakeCancel
    <2>4. TypeOK'
        BY <1>1, <1>r, <2>1, <2>2, <2>3 DEF TakeCancel, TypeOK, Commanded
    <2>5. Held'
        BY <1>1, <1>r, <2>1, <2>2, <2>3 DEF TakeCancel, Held, Commanded
    <2> QED
        BY <2>4, <2>5
<1>2. CASE Cancel
    <2>1. item.job \in Jobs
        BY <1>2, HeldJob DEF Cancel
    <2>2. Moved(snap, "CANCELLED", "none", {}) \in Rows
        BY <1>e, MovedRow DEF States, Rest, Blockers, Roles
    <2>3. rows' \in [Jobs -> Rows]
        BY <1>2, <1>e, <2>1, <2>2, PutRow DEF Cancel
    <2>4. proj' \in [Jobs -> Projections]
        BY <1>2, <1>e, <2>1, <2>2, PublishedType, ShownType DEF Cancel
    <2>5. used' \in Counters
        BY <1>2, <1>e, Counted DEF Cancel
    <2>6. work' \in Tasks /\ snap' \in Rows
        BY <1>2, <1>e, FixedRows, TaskTypes DEF Cancel
    <2>7. TypeOK'
        BY <1>2, <1>r, <2>1, <2>2, <2>3, <2>4, <2>5, <2>6 DEF Cancel, TypeOK, Commanded
    <2>8. Held'
        BY <1>2, <1>r, <2>1, <2>2, <2>3, <2>4, <2>5, <2>6 DEF Cancel, Held, Commanded
    <2> QED
        BY <2>7, <2>8
<1>3. CASE RecoverCancel
    <2>1. item.job \in Jobs
        BY <1>3, HeldJob DEF RecoverCancel
    <2>2. rows[item.job] \in Rows
        BY <1>e, <2>1
    <2>3. proj' = Shown(item.job, rows[item.job]) \/ proj' = [proj EXCEPT ![item.job].asked = FALSE]
        BY <1>3 DEF RecoverCancel, Recovered
    <2>4. Shown(item.job, rows[item.job]) \in [Jobs -> Projections]
        BY <2>1, <2>2, ShownType
    <2>5. [proj EXCEPT ![item.job].asked = FALSE] \in [Jobs -> Projections]
        BY <2>1, AskedType
    <2>6. proj' \in [Jobs -> Projections]
        BY <2>3, <2>4, <2>5
    <2>7. token' \in [Jobs -> BOOLEAN]
        BY <1>3, <1>e, <2>1, ClearedTypes DEF RecoverCancel
    <2>8. used' \in Counters
        BY <1>3, <1>e, Counted DEF RecoverCancel
    <2>9. work' \in Tasks /\ snap' \in Rows
        BY <1>3, <1>e, FixedRows, TaskTypes DEF RecoverCancel
    <2>10. TypeOK'
        BY <1>3, <1>r, <2>1, <2>2, <2>3, <2>4, <2>5, <2>6, <2>7, <2>8, <2>9 DEF RecoverCancel, TypeOK, Commanded
    <2>11. Held'
        BY <1>3, <1>r, <2>1, <2>2, <2>3, <2>4, <2>5, <2>6, <2>7, <2>8, <2>9 DEF RecoverCancel, Held, Commanded
    <2> QED
        BY <2>10, <2>11
<1> QED
    BY <1>1, <1>2, <1>3 DEF Cancelling

LEMMA RestTypes ==
    ASSUME TypeOK, Held, TakeExternal \/ PublishExternal \/ StartReady \/ StartFails \/ TakeStop
    PROVE  TypeOK' /\ Held'
<1> USE DEF store, memory, thread, requests, machine, stopVars, Put, Rests, Goes, Job, At
<1>r. pc \in Commanded => item.req \in Requests /\ Job \in Jobs /\ item = Command(item.req)
    BY HeldRequest
<1>e. /\ env \in [Requests -> Envelopes] /\ rows \in [Jobs -> Rows] /\ snap \in Rows
      /\ proj \in [Jobs -> Projections] /\ work \in Tasks /\ used \in Counters
      /\ known \in [Jobs -> SUBSET Roles] /\ paid \in [Jobs -> Nat] /\ token \in [Jobs -> BOOLEAN]
    BY DEF TypeOK
<1>1. CASE TakeExternal
    <2>1. Head(box) \in Items /\ box' \in Seq(Items) /\ Head(box).job \in Jobs /\ Head(box) = External(Head(box).job)
        BY <1>1, TakenItem, ItemKinds DEF TakeExternal
    <2>2. work' \in Tasks /\ snap' \in Rows
        BY <1>1, <2>1, <1>e, FixedRows, TaskTypes DEF TakeExternal
    <2>3. used' \in Counters
        BY <1>1, <1>e, Counted DEF TakeExternal
    <2>4. TypeOK'
        BY <1>1, <1>r, <2>1, <2>2, <2>3 DEF TakeExternal, TypeOK, Commanded
    <2>5. Held'
        BY <1>1, <1>r, <2>1, <2>2, <2>3 DEF TakeExternal, Held, Commanded
    <2> QED
        BY <2>4, <2>5
<1>2. CASE PublishExternal
    <2>1. item.job \in Jobs
        BY <1>2, HeldJob DEF PublishExternal
    <2>2. proj' \in [Jobs -> Projections]
        BY <1>2, <1>e, <2>1, PublishedType, ShownType DEF PublishExternal
    <2>3. work' \in Tasks /\ snap' \in Rows
        BY <1>2, <1>e, FixedRows, TaskTypes DEF PublishExternal
    <2>4. TypeOK'
        BY <1>2, <1>r, <2>1, <2>2, <2>3 DEF PublishExternal, TypeOK, Commanded
    <2>5. Held'
        BY <1>2, <1>r, <2>1, <2>2, <2>3 DEF PublishExternal, Held, Commanded
    <2> QED
        BY <2>4, <2>5
<1>3. CASE StartReady
    <2>1. \A j \in Jobs : Moved(rows[j], "FAILED", "none", {}) \in Rows /\ Reconciled(rows[j]) \in Rows
        BY <1>e, MovedRow DEF States, Rest, Blockers, Roles, Reconciled
    <2>2. rows' \in [Jobs -> Rows]
        BY <1>3, <2>1 DEF StartReady
    <2>3. known' \in [Jobs -> SUBSET Roles]
        BY <1>3, <2>2 DEF StartReady, Rehydrated, Rows
    <2>4. proj' \in [Jobs -> Projections]
        BY <1>3, <2>2 DEF StartReady, Projections
    <2>5. used' \in Counters
        BY <1>3, <1>e, Counted DEF StartReady
    <2>6. TypeOK'
        BY <1>3, <1>r, <2>1, <2>2, <2>3, <2>4, <2>5 DEF StartReady, TypeOK, Commanded
    <2>7. Held'
        BY <1>3, <1>r, <2>1, <2>2, <2>3, <2>4, <2>5 DEF StartReady, Held, Commanded
    <2> QED
        BY <2>6, <2>7
<1>4. CASE StartFails
    <2>1. \A j \in Jobs : Moved(rows[j], "FAILED", "none", {}) \in Rows /\ Reconciled(rows[j]) \in Rows
        BY <1>e, MovedRow DEF States, Rest, Blockers, Roles, Reconciled
    <2>2. rows' \in [Jobs -> Rows]
        BY <1>4, <1>e, <2>1 DEF StartFails
    <2>3. used' \in Counters
        BY <1>4, <1>e, Counted DEF StartFails
    <2>4. TypeOK'
        BY <1>4, <1>r, <2>1, <2>2, <2>3 DEF StartFails, TypeOK, Commanded
    <2>5. Held'
        BY <1>4, <1>r, <2>1, <2>2, <2>3 DEF StartFails, Held, Commanded
    <2> QED
        BY <2>4, <2>5
<1>5. CASE TakeStop
    <2>1. box' \in Seq(Items)
        BY <1>5, TakenItem DEF TakeStop
    <2>2. pc = "idle"
        BY <1>5 DEF TakeStop, Took
    <2>3. TypeOK'
        BY <1>5, <1>r, <2>1, <2>2 DEF TakeStop, TypeOK, Commanded
    <2>4. Held'
        BY <1>5, <1>r, <2>1, <2>2 DEF TakeStop, Held, Commanded
    <2> QED
        BY <2>3, <2>4
<1> QED
    BY <1>1, <1>2, <1>3, <1>4, <1>5

LEMMA CallerTypes ==
    ASSUME TypeOK, Held, NEW q \in Requests, Caller(q)
    PROVE  TypeOK' /\ Held'
<1> USE DEF store, memory, thread, requests, machine, stopVars, Put, Rests, Goes, Job, At
<1>r. pc \in Commanded => item.req \in Requests /\ Job \in Jobs /\ item = Command(item.req)
    BY HeldRequest
<1>e. /\ env \in [Requests -> Envelopes] /\ rows \in [Jobs -> Rows] /\ snap \in Rows
      /\ proj \in [Jobs -> Projections] /\ work \in Tasks /\ used \in Counters
      /\ known \in [Jobs -> SUBSET Roles] /\ paid \in [Jobs -> Nat] /\ token \in [Jobs -> BOOLEAN]
    BY DEF TypeOK
<1>1. CASE Submit(q)
    <2>1. Append(box, Command(q)) \in Seq(Items)
        BY AddedItem, ItemTypes
    <2>2. env' \in [Requests -> Envelopes] /\ box' \in Seq(Items)
        BY <1>1, <2>1, <1>e, EnvelopeTypes DEF Submit, TypeOK
    <2>3. TypeOK'
        BY <1>1, <1>r, <2>1, <2>2 DEF Submit, TypeOK, Commanded
    <2>4. Held'
        BY <1>1, <1>r, <2>1, <2>2 DEF Submit, Held, Commanded
    <2> QED
        BY <2>3, <2>4
<1>2. CASE Deadline(q)
    <2>1. TypeOK'
        BY <1>2, <1>r DEF Deadline, TypeOK, Commanded
    <2>2. Held'
        BY <1>2, <1>r DEF Deadline, Held, Commanded
    <2> QED
        BY <2>1, <2>2
<1>3. CASE WaitEnds(q)
    <2>1. TypeOK'
        BY <1>3, <1>r DEF WaitEnds, Answer, TypeOK, Commanded
    <2>2. Held'
        BY <1>3, <1>r DEF WaitEnds, Answer, Held, Commanded
    <2> QED
        BY <2>1, <2>2
<1>4. CASE WaitExpires(q)
    <2>1. env' \in [Requests -> Envelopes]
        BY <1>4, <1>e, EnvelopeTypes DEF WaitExpires
    <2>2. caller' \in [Requests -> {"new", "waiting", "RESULT", "ERROR", "TIMEOUT", "DENIED", "LOST"}]
        BY <1>4 DEF WaitExpires, Answer, TypeOK
    <2>3. TypeOK'
        BY <1>4, <1>r, <2>1, <2>2 DEF WaitExpires, TypeOK, Commanded
    <2>4. Held'
        BY <1>4, <1>r, <2>1, <2>2 DEF WaitExpires, Held, Commanded
    <2> QED
        BY <2>3, <2>4
<1> QED
    BY <1>1, <1>2, <1>3, <1>4 DEF Caller

LEMMA OutsideTypes ==
    ASSUME TypeOK, Held, (\E j \in Jobs : RequestCancel(j) \/ Machine(j)) \/ StopBegins \/ StopReturns \/ StopTimesOut \/ Restart
    PROVE  TypeOK' /\ Held'
<1> USE DEF store, memory, thread, requests, machine, stopVars, Put, Rests, Goes, Job, At
<1>r. pc \in Commanded => item.req \in Requests /\ Job \in Jobs /\ item = Command(item.req)
    BY HeldRequest
<1>e. /\ env \in [Requests -> Envelopes] /\ rows \in [Jobs -> Rows] /\ snap \in Rows
      /\ proj \in [Jobs -> Projections] /\ work \in Tasks /\ used \in Counters
      /\ known \in [Jobs -> SUBSET Roles] /\ paid \in [Jobs -> Nat] /\ token \in [Jobs -> BOOLEAN]
    BY DEF TypeOK
<1>1. CASE \E j \in Jobs : RequestCancel(j)
    <2>1. PICK j \in Jobs : RequestCancel(j)
        BY <1>1
    <2>2. Append(box, Wake(j)) \in Seq(Items) /\ proj' \in [Jobs -> Projections] /\ used' \in Counters
        BY <2>1, <1>e, AddedItem, ItemTypes, AskedType, Counted DEF RequestCancel
    <2> QED
        BY <2>1, <2>2, <1>e, ZenonT(40) DEF RequestCancel, TypeOK, Held, Commanded
<1>2. CASE \E j \in Jobs : MachineClaims(j) \/ MachineReleases(j)
    <2>1. PICK j \in Jobs : MachineClaims(j) \/ MachineReleases(j)
        BY <1>2
    <2>2. used' \in Counters
        BY <2>1, <1>e, Counted DEF MachineClaims, MachineReleases
    <2>3. owned' \in [Jobs -> BOOLEAN]
        BY <2>1 DEF MachineClaims, MachineReleases, TypeOK
    <2>4. UNCHANGED <<store, memory, box, requests, thread, stopVars, unsent, driven>>
        BY <2>1 DEF MachineClaims, MachineReleases
    <2> QED
        BY <2>2, <2>3, <2>4, ZenonT(40) DEF TypeOK, Held
<1>3. CASE \E j \in Jobs : MachineOutcome(j)
    <2>1. PICK j \in Jobs : MachineOutcome(j)
        BY <1>3
    <2>2. rows' \in [Jobs -> Rows]
        <3>1. PICK to \in {"COMPLETED", "RECOVERY_REQUIRED"} : rows' = [rows EXCEPT ![j] = Moved(rows[j], to, "none", {})]
            BY <2>1 DEF MachineOutcome
        <3>2. Moved(rows[j], to, "none", {}) \in Rows
            BY <1>e, MovedRow, ZenonT(40) DEF States, Rest, Blockers, Roles
        <3> QED
            BY <3>1, <3>2, PutRow
    <2> QED
        BY <2>1, <2>2, <1>e, ZenonT(40) DEF MachineOutcome, TypeOK, Held, Commanded
<1>4. CASE \E j \in Jobs : MachinePublishes(j)
    <2>1. PICK j \in Jobs : MachinePublishes(j)
        BY <1>4
    <2>2. box' \in Seq(Items)
        BY <2>1, AddedItem, ItemTypes DEF MachinePublishes, TypeOK
    <2> QED
        BY <2>1, <2>2, ZenonT(40) DEF MachinePublishes, TypeOK, Held, Commanded
<1>5. CASE StopBegins
    <2>1. Append(box, StopItem) \in Seq(Items)
        BY AddedItem, ItemTypes
    <2> QED
        BY <1>5, <2>1 DEF StopBegins, TypeOK, Held, Commanded
<1>6. CASE StopReturns \/ StopTimesOut
    BY <1>6 DEF StopReturns, StopTimesOut, TypeOK, Held, Commanded
<1>7. CASE Restart
    <2>1. /\ used' \in Counters /\ NoRow \in Rows /\ Idle \in Tasks /\ NoProj \in Projections
          /\ NoEnvelope \in Envelopes /\ <<>> \in Seq(Items)
        BY <1>7, Counted, FixedRows, TaskTypes DEF Restart, NoProj, Projections, NoEnvelope, Envelopes
    <2> QED
        BY <1>7, <2>1 DEF Restart, TypeOK, Held, Commanded
<1> QED
    BY <1>1, <1>2, <1>3, <1>4, <1>5, <1>6, <1>7 DEF Machine

LEMMA StepTypes == ASSUME TypeOK, Held, [Next]_vars PROVE TypeOK' /\ Held'
<1>1. CASE UNCHANGED vars
    BY <1>1, ZenonT(40) DEF vars, store, memory, thread, requests, machine, stopVars, TypeOK, Held
<1> QED
    BY <1>1, CommandTypes, DriveTypes, CancelTypes, RestTypes, CallerTypes, OutsideTypes DEF Next, Coordinator

LEMMA InitTypes == ASSUME Init PROVE TypeOK /\ Held
<1>1. /\ NoRow \in Rows /\ Idle \in Tasks /\ NoProj \in Projections
      /\ NoEnvelope \in Envelopes /\ <<>> \in Seq(Items)
    BY FixedRows, TaskTypes DEF NoProj, Projections, NoEnvelope, Envelopes
<1>2. used \in Counters
    BY BoundAssumption DEF Init, Counters
<1> QED
    BY <1>1, <1>2 DEF Init, TypeOK, Held, Commanded
-----------------------------------------------------------------------------
(* The inductive invariant *)

Early == {"admit", "checked", "commit"}
Open == {"QUEUED", "ABANDONED"}

\* Nothing has been answered for r, and nothing is committed on its behalf.
Pending(r) == env[r].st \in Open /\ ~env[r].error /\ r \notin committed

\* What an envelope, its caller and the histories say of one request fits together.
RequestFits(r) ==
    /\ caller[r] = "new" => env[r].st = "NONE" /\ r \notin committed /\ r \notin driven
    /\ caller[r] = "waiting" => env[r].st # "NONE"
    /\ caller[r] = "TIMEOUT" => env[r].st \in {"ABANDONED", "NONE"} /\ r \notin driven
    /\ caller[r] = "RESULT" => r \in committed
    /\ caller[r] = "ERROR" => env[r].st = "NONE" \/ env[r].error
    /\ r \in driven => env[r].st \in {"ACKNOWLEDGED", "NONE"}
    /\ env[r].st = "ACKNOWLEDGED" /\ ~env[r].error => r \in committed

\* A command is in the mailbox or in the thread's hand, and there once.
BoxFits ==
    /\ \A i \in DOMAIN box : box[i].tag = "command" => Pending(box[i].req)
    /\ \A i, k \in DOMAIN box : box[i].tag = "command" /\ box[i] = box[k] => i = k
    /\ pc \in Commanded => \A i \in DOMAIN box : box[i] # item

HandFits ==
    /\ pc \in Commanded => env[item.req].st # "NONE"
    /\ pc \in Early => Pending(item.req)
    /\ pc \in {"acknowledge", "failBefore"} =>
          env[item.req].st \in Open /\ ~env[item.req].error /\ item.req \in committed
    /\ pc = "write" => env[item.req].st = "ACKNOWLEDGED"

RequestInv == (\A r \in Requests : RequestFits(r)) /\ BoxFits /\ HandFits

\* Only an error raised inside a failure handler can follow a commit.
ErrorInv ==
    \A r \in Requests : caller[r] = "ERROR" \/ env[r].error => r \notin committed

\* A stop has set every cancellation event.
StopInv == stopping => \A j \in Jobs : token[j]

CheckStates == {"NONE", "QUEUED", "VALIDATING_GCODE", "COMPLETED", "BLOCKED", "FAILED", "CANCELLED"}
OwnedStates == {"READY_TO_RUN", "RECOVERY_REQUIRED"}

\* The row of a job is one its mode allows, and only the machine keeps it from the thread.
RowFits(j) ==
    /\ rows[j].state = "NONE" => rows[j] = NoRow
    /\ Mode[j] = "check" => rows[j].state \in CheckStates /\ ~AwaitsReview(rows[j])
    /\ owned[j] => rows[j].state \in OwnedStates

\* The record the thread read last is the row, or a row the machine may have moved on.
SnapFits ==
    /\ pc \in Early => rows[Job] = snap \/ snap.state \in OwnedStates
    /\ pc \in {"checked", "commit"} => Admissible(item.req)
    /\ pc \in {"acknowledge", "failBefore", "write", "work"} => rows[Job] = snap
    /\ pc \in {"acknowledge", "failBefore", "write"} => snap.state \in {"QUEUED", "IMAGE_READY"}
    /\ pc = "work" => snap.state \in InFlight
    /\ pc = "drive" => /\ rows[Job] = snap \/ (snap.state = "READY_TO_RUN" /\ rows[Job].state \notin InFlight)
                       /\ snap.state \in InFlight \cup Rest
    /\ pc = "cancel" => rows[item.job] = snap \/ snap.state \in OwnedStates

RowInv == (\A j \in Jobs : RowFits(j)) /\ SnapFits

\* The worker that runs is one of those of the job's state.
Stage(s) ==
    CASE s = "PREPARING_IMAGE" -> {"route", "prepare", "provider", "normalize"}
      [] s = "PLANNING_PATHS" -> {"plan"}
      [] s = "BUILDING_GCODE" -> {"build"}
      [] s = "VALIDATING_GCODE" -> {"check"}
      [] OTHER -> {}

Reviewed(j) == \E r \in committed : r.job = j /\ r.kind = "CONTINUE_REVIEW" /\ r.approved

\* The roles a row has, by its state.
Has(row) ==
    CASE row.state = "PREPARING_IMAGE" -> {"input"}
      [] row.state = "BLOCKED" -> IF AwaitsReview(row) THEN {"input", "processed"} ELSE {}
      [] row.state \in {"IMAGE_READY", "PLANNING_PATHS"} -> {"input", "processed"}
      [] row.state \in {"PATH_PLAN_READY", "BUILDING_GCODE"} -> {"input", "processed", "path_plan"}
      [] row.state = "VALIDATING_GCODE" -> {"input", "processed", "path_plan", "gcode"}
      [] row.state \in OwnedStates -> {"input", "processed", "path_plan", "gcode", "readiness"}
      [] OTHER -> {}

\* The role whose path the next worker needs, by the job's state.
Needs(row) ==
    CASE row.state = "PREPARING_IMAGE" -> {"input"}
      [] row.state = "BLOCKED" -> IF AwaitsReview(row) THEN {"processed"} ELSE {}
      [] row.state \in {"IMAGE_READY", "PLANNING_PATHS"} -> {"processed"}
      [] row.state \in {"PATH_PLAN_READY", "BUILDING_GCODE"} -> {"path_plan"}
      [] row.state = "VALIDATING_GCODE" -> {"gcode"}
      [] OTHER -> {}

LateStates == {"IMAGE_READY", "PLANNING_PATHS", "PATH_PLAN_READY", "BUILDING_GCODE",
               "VALIDATING_GCODE", "READY_TO_RUN", "RECOVERY_REQUIRED"}

StageFits(j) ==
    /\ Mode[j] # "check" => Has(rows[j]) \subseteq rows[j].roles
    /\ Mode[j] # "check" /\ rows[j].state \in LateStates => Reviewed(j)
    /\ pc \notin {"starting", "absent"} => Needs(rows[j]) \subseteq known[j]
    /\ paid[j] <= 1
    /\ rows[j].state \in {"NONE", "QUEUED"} => paid[j] = 0

WorkFits ==
    /\ pc = "work" => work.kind \in Stage(snap.state)
    /\ pc = "work" /\ work.kind = "route" => paid[Job] = 0
    /\ pc = "drive" /\ snap.state = "PREPARING_IMAGE" => paid[Job] = 0

StageInv == (\A j \in Jobs : StageFits(j)) /\ WorkFits

\* A projection is the row, or an older one.
Behind(j) ==
    /\ proj[j].row.state = "NONE" => proj[j].row.rev = 0
    /\ proj[j].row.state # "NONE" =>
          /\ proj[j].row.rev <= rows[j].rev
          /\ proj[j].row.rev = rows[j].rev => proj[j].row = rows[j]

\* So is the record the thread is about to publish for the machine.
ReadFits ==
    pc = "external" => /\ snap.state = "NONE" => snap.rev = 0
                       /\ snap.rev <= rows[item.job].rev
                       /\ snap.rev = rows[item.job].rev => snap = rows[item.job]

Announced(j) == \E i \in DOMAIN box : box[i] = External(j)

\* The projection shows the row, or the machine thread or the mailbox has a publication.
Due(j) == rows[j] = proj[j].row \/ j \in unsent \/ stopping \/ Announced(j)

\* The same, or the thread is about to publish the row.
Told(j) ==
    \/ Due(j)
    \/ pc \in {"acknowledge", "failAfter"} /\ Job = j
    \/ pc = "external" /\ item.job = j /\ rows[j] = snap

AllTold ==
    Untroubled /\ pc \notin {"starting", "absent", "ended"} =>
       (\A j \in Jobs : Told(j)) /\ pc # "failBefore"

ProjInv ==
    /\ \A j \in Jobs : Behind(j)
    /\ pc = "starting" => \A j \in Jobs : proj[j] = NoProj
    /\ ReadFits /\ AllTold

\* No job is in flight that the thread does not hold.
AllDriven ==
    \A j \in Jobs : rows[j].state \in InFlight => At("starting") \/ At("absent") \/ Busy(j)

OrphanInv == AllDriven /\ (pc \in Early => rows[Job].state \notin InFlight)

FullInv ==
    /\ TypeOK /\ Held /\ RequestInv /\ StopInv /\ RowInv /\ StageInv /\ ProjInv
    /\ ~HandlerFailed => ErrorInv /\ OrphanInv

-----------------------------------------------------------------------------
(* What the steps leave alone *)

Resting == TakeExternal \/ PublishExternal \/ StartReady \/ StartFails \/ TakeStop

LEMMA CommandFrame ==
    ASSUME Commanding
    PROVE  UNCHANGED <<late, caller, stopper, stopping, owned, unsent, known, token, paid>>
BY DEF Commanding, TakeCommand, RefuseCommand, CheckCommand, CommitCommand, Acknowledge,
       WriteProjection, FailBefore, FailAfter, store, memory, requests, stopVars, machine

LEMMA DriveFrame ==
    ASSUME Driving
    PROVE  UNCHANGED <<committed, token, box, env, late, caller, stopper, stopping, owned, unsent, driven>>
BY DEF Driving, DriveRaises, DriveEnds, AdvanceCancels, AdvanceSteps, AdvanceWorks, WorkerSucceeds,
       WorkerBlocks, WorkerFails, WorkerCrashes, WorkerCancelled, store, memory, requests, stopVars, machine

LEMMA CancelFrame ==
    ASSUME Cancelling
    PROVE  UNCHANGED <<committed, paid, known, env, late, caller, stopper, stopping, owned, unsent, driven>>
BY DEF Cancelling, TakeCancel, Cancel, RecoverCancel, store, requests, stopVars, machine

LEMMA RestFrame ==
    ASSUME Resting
    PROVE  UNCHANGED <<committed, paid, token, env, late, caller, stopper, stopping, owned, unsent, driven>>
BY DEF Resting, TakeExternal, PublishExternal, StartReady, StartFails, TakeStop,
       store, memory, requests, stopVars, machine

LEMMA CallerFrame ==
    ASSUME NEW r, Caller(r)
    PROVE  UNCHANGED <<rows, committed, paid, known, proj, token, pc, item, snap, work,
                       stopper, stopping, owned, unsent, driven, used>>
BY DEF Caller, Submit, Deadline, WaitEnds, WaitExpires, store, memory, thread, stopVars, machine

LEMMA MachineFrame ==
    ASSUME NEW j, Machine(j)
    PROVE  UNCHANGED <<committed, paid, known, proj, token, env, late, caller, pc, item, snap, work,
                       stopper, stopping, driven>>
BY DEF Machine, MachineClaims, MachineReleases, MachineOutcome, MachinePublishes,
       store, memory, thread, requests, stopVars

LEMMA RequestCancelFrame ==
    ASSUME NEW j, RequestCancel(j)
    PROVE  UNCHANGED <<rows, committed, paid, known, env, late, caller, pc, item, snap, work,
                       stopper, stopping, owned, unsent, driven>>
BY DEF RequestCancel, store, thread, requests, stopVars, machine

LEMMA StopFrame ==
    ASSUME StopBegins \/ StopReturns \/ StopTimesOut
    PROVE  UNCHANGED <<rows, committed, paid, known, proj, env, late, caller, pc, item, snap, work,
                       owned, unsent, driven, used>>
BY DEF StopBegins, StopReturns, StopTimesOut, store, memory, thread, requests, machine

\* Where a drive may go from a place of the drive.
LEMMA DriveMoves ==
    ASSUME Driving
    PROVE  /\ pc \in {"drive", "work"}
           /\ \/ pc' \in {"drive", "work", "failAfter"} /\ item' = item
              \/ pc' = "idle" /\ item' = Nothing
<1> USE DEF At, Rests
<1>1. ASSUME NEW row, Commits(row) PROVE pc' \in {"drive", "failAfter"} /\ item' = item
    BY <1>1 DEF Commits
<1>2. ASSUME NEW w, NEW new, Launch(w, new) PROVE pc' \in {"work", "failAfter"} /\ item' = item
    BY <1>2 DEF Launch
<1>3. CASE DriveRaises \/ DriveEnds \/ WorkerCrashes
    BY <1>3 DEF DriveRaises, DriveEnds, WorkerCrashes
<1>4. CASE AdvanceCancels \/ AdvanceSteps \/ WorkerBlocks \/ WorkerFails \/ WorkerCancelled
    BY <1>1, <1>4 DEF AdvanceCancels, AdvanceSteps, WorkerBlocks, WorkerFails, WorkerCancelled
<1>5. CASE AdvanceWorks
    BY <1>2, <1>5 DEF AdvanceWorks
<1>6. CASE WorkerSucceeds
    BY <1>1, <1>2, <1>6 DEF WorkerSucceeds
<1> QED
    BY <1>3, <1>4, <1>5, <1>6 DEF Driving

LEMMA CancelMoves ==
    ASSUME Cancelling
    PROVE  /\ pc \in {"idle", "cancel", "recover"} /\ pc' \in {"idle", "cancel", "recover"}
           /\ box' = box \/ (box # <<>> /\ box' = Tail(box))
BY DEF Cancelling, TakeCancel, Cancel, RecoverCancel, At, Rests, Goes, Took

LEMMA RestMoves ==
    ASSUME Resting
    PROVE  /\ pc \notin Commanded /\ pc' \in {"idle", "external", "absent", "ended"}
           /\ box' = box \/ (box # <<>> /\ box' = Tail(box))
BY DEF Resting, TakeExternal, PublishExternal, StartReady, StartFails, TakeStop, At, Rests, Took, Commanded

LEMMA RemovedFirst ==
    ASSUME TypeOK, box # <<>>, box' = Tail(box)
    PROVE  /\ \A i \in DOMAIN box' : i \in Nat /\ i # 0 /\ i + 1 \in DOMAIN box /\ box'[i] = box[i + 1]
           /\ \A i \in DOMAIN box : i # 1 => i - 1 \in DOMAIN box' /\ box'[i - 1] = box[i]
           /\ 1 \in DOMAIN box /\ box[1] = Head(box) /\ DOMAIN box \subseteq Nat
<1>1. box \in Seq(Items)
    BY DEF TypeOK
<1> QED
    BY <1>1

LEMMA AddedLast ==
    ASSUME TypeOK, NEW x, box' = Append(box, x)
    PROVE  /\ \A i \in DOMAIN box' : (i \in DOMAIN box /\ box'[i] = box[i]) \/ (i \notin DOMAIN box /\ i = Len(box) + 1 /\ box'[i] = x)
           /\ \A i \in DOMAIN box : i \in DOMAIN box' /\ box'[i] = box[i]
           /\ Len(box) + 1 \in DOMAIN box' /\ box'[Len(box) + 1] = x
<1>1. box \in Seq(Items)
    BY DEF TypeOK
<1> QED
    BY <1>1

-----------------------------------------------------------------------------
(* A stop *)

LEMMA StopStep ==
    ASSUME TypeOK, Held, StopInv, Next
    PROVE  StopInv'
<1>1. CASE UNCHANGED <<token, stopping>>
    BY <1>1 DEF StopInv
<1>2. CASE RecoverCancel
    <2>1. stopping' = stopping
        BY <1>2 DEF RecoverCancel, stopVars
    <2>2. item.job \in Jobs
        BY <1>2, HeldJob DEF RecoverCancel, At
    <2>3. token' = token \/ token' = Cleared(item.job)
        BY <1>2 DEF RecoverCancel
    <2>4. ASSUME stopping, NEW j \in Jobs PROVE token'[j]
        <3>1. token \in [Jobs -> BOOLEAN] /\ token[j] /\ token[item.job]
            BY <2>2, <2>4 DEF TypeOK, StopInv
        <3> QED
            BY <2>2, <2>3, <2>4, <3>1 DEF Cleared
    <2> QED
        BY <2>1, <2>4 DEF StopInv
<1>3. CASE \E j \in Jobs : RequestCancel(j)
    <2>1. PICK j \in Jobs : RequestCancel(j)
        BY <1>3
    <2>2. token' = [token EXCEPT ![j] = TRUE] /\ stopping' = stopping /\ token \in [Jobs -> BOOLEAN]
        BY <2>1 DEF RequestCancel, stopVars, TypeOK
    <2> QED
        BY <2>2 DEF StopInv
<1>4. CASE StopBegins
    BY <1>4 DEF StopBegins, StopInv
<1>5. CASE StopReturns \/ Restart
    BY <1>5 DEF StopReturns, Restart, StopInv
<1>6. CASE Commanding \/ Driving \/ Resting \/ StopTimesOut
    BY <1>1, <1>6, CommandFrame, DriveFrame, RestFrame DEF StopTimesOut, memory
<1>7. CASE TakeCancel \/ Cancel
    BY <1>1, <1>7 DEF TakeCancel, Cancel, stopVars
<1>8. CASE \E r \in Requests : Caller(r)
    BY <1>1, <1>8, CallerFrame
<1>9. CASE \E j \in Jobs : Machine(j)
    BY <1>1, <1>9, MachineFrame
<1> QED
    BY <1>2, <1>3, <1>4, <1>5, <1>6, <1>7, <1>8, <1>9 DEF Next, Coordinator, Cancelling, Resting

LEMMA QuietStep ==
    ASSUME TypeOK, Held, StopInv, Next, stopping, pc = "drive"
    PROVE  pc' # "work"
<1>1. token[item.req.job] /\ item.req.job \in Jobs
    BY HeldRequest DEF StopInv, Commanded
<1>2. CASE Driving
    <2>1. DriveRaises \/ DriveEnds \/ AdvanceCancels \/ AdvanceSteps
        BY <1>1, <1>2 DEF Driving, AdvanceWorks, WorkerSucceeds, WorkerBlocks, WorkerFails, WorkerCrashes,
                          WorkerCancelled, At, Job
    <2> QED
        BY <2>1 DEF DriveRaises, DriveEnds, AdvanceCancels, AdvanceSteps, Commits, Rests
<1>3. CASE UNCHANGED pc
    BY <1>3
<1>4. CASE pc' = "starting"
    BY <1>4
<1>5. ~Commanding /\ ~Cancelling /\ ~Resting
    BY CancelMoves, RestMoves DEF Commanding, TakeCommand, RefuseCommand, CheckCommand, CommitCommand, Acknowledge,
       WriteProjection, FailBefore, FailAfter, At, Took, Commanded
<1> QED
    BY <1>2, <1>3, <1>4, <1>5, CallerFrame, MachineFrame, RequestCancelFrame, StopFrame
       DEF Next, Coordinator, Resting, Restart

-----------------------------------------------------------------------------
(* Requests *)

StillPending(r) == env'[r].st \in Open /\ ~env'[r].error /\ r \notin committed'

LEMMA AckedFields ==
    ASSUME NEW r, NEW v \in Envelopes, v.st \in Open
    PROVE  /\ Acked(r, v).st \in {"ABANDONED", "ACKNOWLEDGED"} /\ (Acked(r, v).error => v.error)
           /\ Acked(r, [v EXCEPT !.error = TRUE]).st \in {"ABANDONED", "ACKNOWLEDGED"}
           /\ Acked(r, [v EXCEPT !.error = TRUE]).error
           /\ v.st = "ABANDONED" => /\ Acked(r, v).st = "ABANDONED"
                                    /\ Acked(r, [v EXCEPT !.error = TRUE]).st = "ABANDONED"
BY DEF Acked, Envelopes, Open

LEMMA CheckedFields ==
    ASSUME TypeOK, NEW r \in Requests, env' = Checked(r)
    PROVE  /\ \A q \in Requests : q # r => env'[q] = env[q]
           /\ env'[r].error => env[r].error
           /\ env[r].st \in Open => env'[r].st \in Open
           /\ env[r].st = "ABANDONED" => env'[r].st = "ABANDONED"
<1>1. env \in [Requests -> Envelopes] /\ env[r] \in Envelopes
    BY DEF TypeOK
<1>2. PICK st : env' = [env EXCEPT ![r] = [env[r] EXCEPT !.st = st]] /\ st \in {env[r].st, "ABANDONED"}
    BY DEF Checked
<1>3. env'[r] = [env[r] EXCEPT !.st = st] /\ \A q \in Requests : q # r => env'[q] = env[q]
    BY <1>1, <1>2
<1>4. env'[r].st = st /\ env'[r].error = env[r].error
    BY <1>1, <1>3 DEF Envelopes
<1> QED
    BY <1>2, <1>3, <1>4 DEF Open

LEMMA AbandonedFields ==
    ASSUME NEW v \in Envelopes
    PROVE  /\ v.st = "ACKNOWLEDGED" => Abandoned(v) = v
           /\ v.st # "ACKNOWLEDGED" => Abandoned(v).st = "ABANDONED" /\ Abandoned(v).error = v.error
BY DEF Abandoned, Envelopes

LEMMA InBox ==
    ASSUME TypeOK, NEW i \in DOMAIN box
    PROVE  box[i] \in Items /\ i \in Nat
<1>1. box \in Seq(Items)
    BY DEF TypeOK
<1> QED
    BY <1>1

\* The command in the thread's hand is not in the mailbox.
LEMMA NotInBox ==
    ASSUME TypeOK, Held, BoxFits, pc \in Commanded, NEW i \in DOMAIN box, box[i].tag = "command"
    PROVE  box[i].req # item.req /\ box[i].req \in Requests
<1>1. box[i] \in Items
    BY InBox
<1> QED
    BY <1>1, ItemKinds, HeldRequest DEF BoxFits

\* What is asked of the mailbox survives the removal of its first item.
LEMMA BoxShrinks ==
    ASSUME TypeOK, BoxFits, box' = box \/ (box # <<>> /\ box' = Tail(box)), UNCHANGED <<env, committed>>
    PROVE  /\ \A i \in DOMAIN box' : box'[i].tag = "command" => StillPending(box'[i].req)
           /\ \A i, k \in DOMAIN box' : box'[i].tag = "command" /\ box'[i] = box'[k] => i = k
<1>1. CASE box' = box
    BY <1>1 DEF BoxFits, Pending, StillPending
<1>2. CASE box # <<>> /\ box' = Tail(box)
    <2>1. \A i \in DOMAIN box' : i \in Nat /\ i + 1 \in DOMAIN box /\ box'[i] = box[i + 1]
        BY <1>2, RemovedFirst
    <2>2. ASSUME NEW i \in DOMAIN box', box'[i].tag = "command" PROVE StillPending(box'[i].req)
        BY <2>1, <2>2 DEF BoxFits, Pending, StillPending
    <2>3. ASSUME NEW i \in DOMAIN box', NEW k \in DOMAIN box', box'[i].tag = "command", box'[i] = box'[k] PROVE i = k
        <3>1. i + 1 = k + 1
            BY <2>1, <2>3 DEF BoxFits
        <3> QED
            BY <2>1, <3>1
    <2> QED
        BY <2>2, <2>3
<1> QED
    BY <1>1, <1>2

\* A step of the thread that answers the command in its hand disturbs no other request.
LEMMA OneAnswer ==
    ASSUME TypeOK, Held, RequestInv, pc \in Commanded, NEW r, r = item.req, UNCHANGED <<caller, box>>,
           driven \subseteq driven', driven' \subseteq driven \cup {r},
           committed \subseteq committed', committed' \subseteq committed \cup {r},
           \A q \in Requests : q # r => env'[q] = env[q]
    PROVE  /\ \A q \in Requests : q # r => RequestFits(q)'
           /\ item' = item \/ pc' \notin Commanded => BoxFits'
<1>1. ASSUME NEW q \in Requests, q # r PROVE RequestFits(q)'
    BY <1>1 DEF RequestInv, RequestFits
<1>2. ASSUME NEW i \in DOMAIN box, box[i].tag = "command" PROVE StillPending(box[i].req)
    <2>1. box[i].req # r /\ box[i].req \in Requests /\ Pending(box[i].req)
        BY <1>2, NotInBox DEF RequestInv, BoxFits
    <2> QED
        BY <2>1 DEF Pending, StillPending
<1>3. ASSUME item' = item \/ pc' \notin Commanded PROVE BoxFits'
    BY <1>2, <1>3 DEF RequestInv, BoxFits, Pending, StillPending
<1> QED
    BY <1>1, <1>3

LEMMA CommandRequests ==
    ASSUME TypeOK, Held, RequestInv, Commanding
    PROVE  RequestInv'
<1> USE DEF Commanded, At
<1>c. caller' = caller
    BY CommandFrame
<1>r. pc \in Commanded => item.req \in Requests
    BY HeldRequest
<1>e. env \in [Requests -> Envelopes]
    BY DEF TypeOK
<1>1. CASE TakeCommand
    <2>1. UNCHANGED <<env, committed, driven>> /\ box # <<>> /\ box' = Tail(box)
        BY <1>1 DEF TakeCommand, Took, requests, store
    <2>2. \A q \in Requests : RequestFits(q)'
        BY <2>1, <1>c DEF RequestInv, RequestFits
    <2>3. CASE env[Head(box).req].st = "ABANDONED"
        <3>1. pc' = "idle"
            BY <1>1, <2>3 DEF TakeCommand, Rests
        <3> QED
            BY <2>1, <2>2, <3>1, BoxShrinks DEF RequestInv, BoxFits, HandFits, Early, Pending, StillPending
    <2>4. CASE env[Head(box).req].st # "ABANDONED"
        <3>1. pc' = "admit" /\ item' = Head(box) /\ Head(box).tag = "command"
            BY <1>1, <2>4 DEF TakeCommand, Took
        <3>2. StillPending(item'.req) /\ \A i \in DOMAIN box' : box'[i] # item'
            <4>1. 1 \in DOMAIN box /\ box[1] = item' /\ \A i \in DOMAIN box' : i \in Nat /\ i # 0 /\ i + 1 \in DOMAIN box /\ box'[i] = box[i + 1]
                BY <2>1, <3>1, RemovedFirst
            <4>2. ASSUME NEW i \in DOMAIN box' PROVE box'[i] # item'
                <5>1. i + 1 # 1
                    BY <4>1
                <5> QED
                    BY <4>1, <5>1, <3>1 DEF RequestInv, BoxFits
            <4>3. Pending(box[1].req)
                BY <4>1, <3>1 DEF RequestInv, BoxFits
            <4> QED
                BY <2>1, <4>1, <4>2, <4>3 DEF Pending, StillPending
        <3> QED
            BY <2>1, <2>2, <3>1, <3>2, BoxShrinks DEF RequestInv, BoxFits, HandFits, Early, Pending, StillPending, Open
    <2> QED
        BY <2>3, <2>4
<1>2. CASE RefuseCommand
    <2>r. PICK r \in Requests : r = item.req
        BY <1>2, <1>r DEF RefuseCommand
    <2>1. /\ pc \in Early /\ r = item.req /\ pc' = "idle" /\ UNCHANGED <<committed, driven, box>>
          /\ env' = [env EXCEPT ![r] = Acked(r, [env[r] EXCEPT !.error = TRUE])]
        BY <1>2, <1>r, <2>r DEF RefuseCommand, Rests, store, Early
    <2>2. Pending(r) /\ RequestFits(r)
        BY <2>1 DEF RequestInv, HandFits
    <2>3. env'[r].error /\ env'[r].st \in {"ABANDONED", "ACKNOWLEDGED"} /\ (env[r].st = "ABANDONED" => env'[r].st = "ABANDONED")
        BY <2>1, <2>2, <1>e, AckedFields DEF Pending, StillPending
    <2>4. (\A q \in Requests : q # r => RequestFits(q)') /\ BoxFits'
        BY <2>1, <1>c, <1>e, OneAnswer DEF Early
    <2>5. RequestFits(r)'
        BY <2>1, <2>2, <2>3, <1>c DEF RequestFits, Pending, StillPending, Open
    <2> QED
        BY <2>1, <2>4, <2>5 DEF RequestInv, HandFits, Early
<1>3. CASE CheckCommand
    <2>r. PICK r \in Requests : r = item.req
        BY <1>3, <1>r DEF CheckCommand
    <2>1. /\ pc \in Early /\ r = item.req /\ UNCHANGED <<committed, driven, box>>
          /\ env' = Checked(r)
          /\ (pc' \in Early /\ item' = item) \/ pc' = "idle"
        BY <1>3, <1>r, <2>r DEF CheckCommand, Rests, Goes, store, Early
    <2>2. Pending(r) /\ RequestFits(r)
        BY <2>1 DEF RequestInv, HandFits
    <2>3. /\ env'[r].st \in Open /\ ~env'[r].error /\ \A q \in Requests : q # r => env'[q] = env[q]
          /\ env[r].st = "ABANDONED" => env'[r].st = "ABANDONED"
        BY <2>1, <2>2, CheckedFields DEF Pending
    <2>4. (\A q \in Requests : q # r => RequestFits(q)') /\ BoxFits'
        BY <2>1, <2>3, <1>c, <1>e, OneAnswer DEF Early
    <2>5. RequestFits(r)'
        BY <2>1, <2>2, <2>3, <1>c DEF RequestFits, Pending, StillPending, Open
    <2> QED
        BY <2>1, <2>2, <2>3, <2>4, <2>5 DEF RequestInv, HandFits, Early, Pending, StillPending, Open
<1>4. CASE CommitCommand
    <2>r. PICK r \in Requests : r = item.req
        BY <1>4, <1>r DEF CommitCommand
    <2>1. /\ pc = "commit" /\ r = item.req /\ UNCHANGED <<env, driven, box, item>>
          /\ committed' = committed \cup {r} /\ pc' \in {"acknowledge", "failBefore"}
        BY <1>4, <1>r, <2>r DEF CommitCommand, requests
    <2>2. Pending(r) /\ RequestFits(r)
        BY <2>1 DEF RequestInv, HandFits, Early
    <2>3. (\A q \in Requests : q # r => RequestFits(q)') /\ BoxFits'
        BY <2>1, <1>c, OneAnswer
    <2>4. RequestFits(r)'
        BY <2>1, <2>2, <1>c DEF RequestFits, Pending, StillPending, Open
    <2> QED
        BY <2>1, <2>2, <2>3, <2>4 DEF RequestInv, HandFits, Early, Pending, StillPending, Open
<1>5. CASE Acknowledge
    <2>r. PICK r \in Requests : r = item.req
        BY <1>5, <1>r DEF Acknowledge
    <2>1. /\ pc = "acknowledge" /\ r = item.req /\ UNCHANGED <<committed, driven, box, item>>
          /\ env' = [env EXCEPT ![r] = Acked(r, env[r])]
          /\ pc' = IF env'[r].st = "ACKNOWLEDGED" THEN "write" ELSE "failAfter"
        BY <1>5, <1>r, <2>r DEF Acknowledge, Goes, store
    <2>2. env[r].st \in Open /\ ~env[r].error /\ r \in committed /\ RequestFits(r)
        BY <2>1 DEF RequestInv, HandFits
    <2>3. ~env'[r].error /\ env'[r].st \in {"ABANDONED", "ACKNOWLEDGED"} /\ (env[r].st = "ABANDONED" => env'[r].st = "ABANDONED")
        BY <2>1, <2>2, <1>e, AckedFields
    <2>4. (\A q \in Requests : q # r => RequestFits(q)') /\ BoxFits'
        BY <2>1, <1>c, <1>e, OneAnswer
    <2>5. RequestFits(r)'
        BY <2>1, <2>2, <2>3, <1>c DEF RequestFits, Open
    <2> QED
        BY <2>1, <2>3, <2>4, <2>5 DEF RequestInv, HandFits, Early
<1>6. CASE WriteProjection
    <2>r. PICK r \in Requests : r = item.req
        BY <1>6, <1>r DEF WriteProjection
    <2>1. /\ pc = "write" /\ r = item.req /\ UNCHANGED <<committed, box, item, env>>
          /\ driven' = driven \/ driven' = driven \cup {r}
          /\ pc' \in {"drive", "failAfter"}
        BY <1>6, <1>r, <2>r DEF WriteProjection, Goes, store, requests
    <2>2. env[r].st = "ACKNOWLEDGED" /\ RequestFits(r)
        BY <2>1 DEF RequestInv, HandFits
    <2>3. (\A q \in Requests : q # r => RequestFits(q)') /\ BoxFits'
        BY <2>1, <1>c, OneAnswer
    <2>4. RequestFits(r)'
        BY <2>1, <2>2, <1>c DEF RequestFits
    <2> QED
        BY <2>1, <2>2, <2>3, <2>4 DEF RequestInv, HandFits, Early
<1>7. CASE FailBefore
    <2>r. PICK r \in Requests : r = item.req
        BY <1>7, <1>r DEF FailBefore
    <2>1. /\ pc = "failBefore" /\ r = item.req /\ UNCHANGED <<committed, driven, box>> /\ pc' = "idle"
          /\ \/ env' = [env EXCEPT ![r] = Acked(r, env[r])]
             \/ env' = [env EXCEPT ![r] = Acked(r, [env[r] EXCEPT !.error = TRUE])]
        BY <1>7, <1>r, <2>r DEF FailBefore, Rests, AnswerWithJob
    <2>2. env[r].st \in Open /\ ~env[r].error /\ r \in committed /\ RequestFits(r)
        BY <2>1 DEF RequestInv, HandFits
    <2>3. env'[r].st \in {"ABANDONED", "ACKNOWLEDGED"} /\ (env[r].st = "ABANDONED" => env'[r].st = "ABANDONED")
        BY <2>1, <2>2, <1>e, AckedFields
    <2>4. (\A q \in Requests : q # r => RequestFits(q)') /\ BoxFits'
        BY <2>1, <1>c, <1>e, OneAnswer
    <2>5. RequestFits(r)'
        BY <2>1, <2>2, <2>3, <1>c DEF RequestFits, Open
    <2> QED
        BY <2>1, <2>3, <2>4, <2>5 DEF RequestInv, HandFits, Early
<1>8. CASE FailAfter
    <2>1. UNCHANGED <<env, committed, driven, box>> /\ pc' = "idle"
        BY <1>8 DEF FailAfter, Rests, requests
    <2> QED
        BY <2>1, <1>c DEF RequestInv, RequestFits, BoxFits, HandFits, Early, Pending, StillPending
<1> QED
    BY <1>1, <1>2, <1>3, <1>4, <1>5, <1>6, <1>7, <1>8 DEF Commanding

LEMMA CallerRequests ==
    ASSUME TypeOK, Held, RequestInv, NEW r \in Requests, Caller(r)
    PROVE  RequestInv'
<1> USE DEF Commanded
<1>f. UNCHANGED <<committed, driven, pc, item>>
    BY CallerFrame
<1>e. env \in [Requests -> Envelopes] /\ caller \in [Requests -> {"new", "waiting", "RESULT", "ERROR", "TIMEOUT", "DENIED", "LOST"}]
    BY DEF TypeOK
<1>q. RequestFits(r) /\ \A q \in Requests : RequestFits(q)
    BY DEF RequestInv
<1>h. pc \in Commanded => item.req \in Requests /\ item = Command(item.req)
    BY HeldRequest
<1>1. CASE Submit(r)
    <2>1. CASE Serving
        <3>1. /\ env' = [env EXCEPT ![r] = Fresh] /\ box' = Append(box, Command(r))
              /\ caller' = [caller EXCEPT ![r] = "waiting"] /\ caller[r] = "new"
            BY <1>1, <2>1 DEF Submit
        <3>2. env'[r].st = "QUEUED" /\ ~env'[r].error /\ \A q \in Requests : q # r => env'[q] = env[q] /\ caller'[q] = caller[q]
            BY <3>1, <1>e DEF Fresh
        <3>3. env[r].st = "NONE" /\ r \notin committed /\ r \notin driven
            BY <3>1, <1>q DEF RequestFits
        <3>4. ASSUME NEW q \in Requests PROVE RequestFits(q)'
            BY <3>1, <3>2, <3>3, <1>e, <1>f, <1>q DEF RequestFits
        <3>5. ASSUME NEW i \in DOMAIN box PROVE box[i] # Command(r) /\ (box[i].tag = "command" => StillPending(box[i].req))
            <4>1. box[i] \in Items
                BY InBox
            <4>2. box[i].tag = "command" => Pending(box[i].req) /\ box[i].req \in Requests /\ box[i] = Command(box[i].req)
                BY <4>1, ItemKinds DEF RequestInv, BoxFits
            <4>3. box[i].tag = "command" => box[i].req # r
                BY <3>3, <4>2 DEF Pending, StillPending, Open
            <4>4. box[i] # Command(r)
                BY <4>3 DEF Command
            <4> QED
                BY <3>2, <4>2, <4>3, <4>4, <1>f DEF Pending, StillPending
        <3>6. StillPending(r) /\ Command(r).tag = "command" /\ Command(r).req = r
            BY <3>2, <3>3, <1>f DEF Pending, StillPending, Open, Command
        <3>7. /\ \A i \in DOMAIN box' : (i \in DOMAIN box /\ box'[i] = box[i]) \/ (i \notin DOMAIN box /\ i = Len(box) + 1 /\ box'[i] = Command(r))
            BY <3>1, AddedLast
        <3>8. \A i \in DOMAIN box' : box'[i].tag = "command" => StillPending(box'[i].req)
            BY <3>5, <3>6, <3>7 DEF Pending, StillPending
        <3>9. ASSUME NEW i \in DOMAIN box', NEW k \in DOMAIN box', box'[i].tag = "command", box'[i] = box'[k] PROVE i = k
            BY <3>5, <3>7, <3>9 DEF RequestInv, BoxFits
        <3>10. ASSUME pc \in Commanded, NEW i \in DOMAIN box' PROVE box'[i] # item
            <4>1. item.req # r
                BY <3>3, <3>10 DEF RequestInv, HandFits
            <4>2. item # Command(r)
                BY <4>1, <1>h, <3>10 DEF Command
            <4> QED
                BY <3>7, <3>10, <4>2 DEF RequestInv, BoxFits
        <3>11. HandFits'
            <4>1. ASSUME pc \in Commanded PROVE item.req # r /\ env'[item.req] = env[item.req]
                BY <3>2, <3>3, <1>h, <4>1 DEF RequestInv, HandFits
            <4> QED
                BY <4>1, <1>f DEF RequestInv, HandFits, Pending, StillPending, Early
        <3> QED
            BY <3>4, <3>8, <3>9, <3>10, <3>11, <1>f DEF RequestInv, BoxFits, Pending, StillPending
    <2>2. CASE ~Serving
        <3>1. UNCHANGED <<env, box>> /\ caller' = [caller EXCEPT ![r] = "DENIED"]
            BY <1>1, <2>2 DEF Submit
        <3>2. ASSUME NEW q \in Requests PROVE RequestFits(q)'
            BY <3>1, <1>e, <1>f, <1>q DEF RequestFits
        <3> QED
            BY <3>1, <3>2, <1>f DEF RequestInv, BoxFits, HandFits, Pending, StillPending
    <2> QED
        BY <2>1, <2>2
<1>2. CASE Deadline(r)
    <2>1. UNCHANGED <<env, box, caller>>
        BY <1>2 DEF Deadline
    <2> QED
        BY <2>1, <1>f DEF RequestInv, RequestFits, BoxFits, HandFits, Pending, StillPending
<1>3. CASE WaitEnds(r)
    <2>1. UNCHANGED <<env, box>> /\ caller' = [caller EXCEPT ![r] = Answer(r)] /\ env[r].st = "ACKNOWLEDGED"
        BY <1>3 DEF WaitEnds
    <2>2. ASSUME NEW q \in Requests PROVE RequestFits(q)'
        BY <2>1, <1>e, <1>f, <1>q DEF RequestFits, Answer
    <2> QED
        BY <2>1, <2>2, <1>f DEF RequestInv, BoxFits, HandFits, Pending, StillPending
<1>4. CASE WaitExpires(r)
    <2>1. /\ env' = [env EXCEPT ![r] = Abandoned(env[r])] /\ box' = box /\ caller[r] = "waiting"
          /\ caller' = [caller EXCEPT ![r] = IF env'[r].st = "ABANDONED" THEN "TIMEOUT" ELSE Answer(r)]
        BY <1>4 DEF WaitExpires
    <2>2. /\ env'[r] = Abandoned(env[r]) /\ \A q \in Requests : q # r => env'[q] = env[q] /\ caller'[q] = caller[q]
          /\ caller'[r] = IF env'[r].st = "ABANDONED" THEN "TIMEOUT" ELSE Answer(r)
        BY <2>1, <1>e
    <2>3. /\ env[r].st = "ACKNOWLEDGED" => env'[r] = env[r]
          /\ env[r].st # "ACKNOWLEDGED" => env'[r].st = "ABANDONED" /\ env'[r].error = env[r].error
        BY <2>2, <1>e, AbandonedFields
    <2>4. ASSUME NEW q \in Requests PROVE RequestFits(q)'
        BY <2>1, <2>2, <2>3, <1>f, <1>q DEF RequestFits, Answer
    <2>5. ASSUME NEW q \in Requests PROVE (Pending(q) => StillPending(q)) /\ (env[q].st # "NONE" => env'[q].st # "NONE")
                                          /\ (env[q].st \in Open => env'[q].st \in Open /\ env'[q].error = env[q].error)
                                          /\ (env[q].st = "ACKNOWLEDGED" => env'[q] = env[q])
        BY <2>2, <2>3, <1>f DEF Pending, StillPending, Open
    <2>6. BoxFits'
        <3>1. ASSUME NEW i \in DOMAIN box, box[i].tag = "command" PROVE StillPending(box[i].req)
            <4>1. box[i] \in Items
                BY InBox
            <4>2. box[i].req \in Requests /\ Pending(box[i].req)
                BY <3>1, <4>1, ItemKinds DEF RequestInv, BoxFits
            <4> QED
                BY <2>5, <4>2
        <3> QED
            BY <2>1, <3>1, <1>f DEF RequestInv, BoxFits, Pending, StillPending
    <2>7. HandFits'
        BY <2>5, <1>h, <1>f DEF RequestInv, HandFits, Pending, StillPending, Early
    <2> QED
        BY <2>4, <2>6, <2>7 DEF RequestInv
<1> QED
    BY <1>1, <1>2, <1>3, <1>4 DEF Caller

LEMMA RequestStep ==
    ASSUME TypeOK, Held, RequestInv, Next
    PROVE  RequestInv'
<1> USE DEF Commanded
<1>1. CASE Driving
    <2>1. UNCHANGED <<env, caller, committed, driven, box>>
        BY <1>1, DriveFrame
    <2> QED
        BY <1>1, <2>1, DriveMoves DEF RequestInv, RequestFits, BoxFits, HandFits, Pending, StillPending, Early
<1>2. CASE Cancelling \/ Resting
    <2>1. UNCHANGED <<env, caller, committed, driven>> /\ pc' \notin Commanded
        BY <1>2, CancelFrame, RestFrame, CancelMoves, RestMoves
    <2>2. box' = box \/ (box # <<>> /\ box' = Tail(box))
        BY <1>2, CancelMoves, RestMoves
    <2> QED
        BY <2>1, <2>2, BoxShrinks DEF RequestInv, RequestFits, BoxFits, HandFits, Early, Pending, StillPending
<1>3. ASSUME UNCHANGED <<env, caller, committed, driven, pc, item>>,
             box' = box \/ \E x : x.tag # "command" /\ (pc \in Commanded => x # item) /\ box' = Append(box, x)
      PROVE  RequestInv'
    <2>1. CASE box' = box
        BY <1>3, <2>1 DEF RequestInv, RequestFits, BoxFits, HandFits, Pending, StillPending
    <2>2. CASE box' # box
        <3>1. PICK x : x.tag # "command" /\ (pc \in Commanded => x # item) /\ box' = Append(box, x)
            BY <1>3, <2>2
        <3>2. /\ \A i \in DOMAIN box' : (i \in DOMAIN box /\ box'[i] = box[i]) \/ (i \notin DOMAIN box /\ box'[i] = x)
            BY <3>1, AddedLast
        <3>3. BoxFits'
            BY <1>3, <3>1, <3>2 DEF RequestInv, BoxFits, Pending, StillPending
        <3> QED
            BY <1>3, <3>3 DEF RequestInv, RequestFits, HandFits, Pending, StillPending
    <2> QED
        BY <2>1, <2>2
<1>4. CASE \E j \in Jobs : RequestCancel(j) \/ Machine(j)
    <2>1. PICK j \in Jobs : RequestCancel(j) \/ Machine(j)
        BY <1>4
    <2>2. UNCHANGED <<env, caller, committed, driven, pc, item>>
        BY <2>1, RequestCancelFrame, MachineFrame
    <2>3. box' = box \/ box' = Append(box, Wake(j)) \/ box' = Append(box, External(j))
        BY <2>1 DEF RequestCancel, Machine, MachineClaims, MachineReleases, MachineOutcome, MachinePublishes
    <2>4. /\ Wake(j).tag # "command" /\ External(j).tag # "command"
          /\ pc \in Commanded => Wake(j) # item /\ External(j) # item
        BY HeldRequest DEF Wake, External, Command
    <2> QED
        BY <1>3, <2>2, <2>3, <2>4
<1>5. CASE StopBegins \/ StopReturns \/ StopTimesOut
    <2>1. box' = box \/ box' = Append(box, StopItem)
        BY <1>5 DEF StopBegins, StopReturns, StopTimesOut
    <2>2. StopItem.tag # "command" /\ (pc \in Commanded => StopItem # item)
        BY HeldRequest DEF StopItem, Command
    <2> QED
        BY <1>3, <1>5, <2>1, <2>2, StopFrame
<1>6. CASE Restart
    <2>1. /\ env' = [r \in Requests |-> NoEnvelope] /\ box' = <<>> /\ pc' = "starting"
          /\ caller' = [r \in Requests |-> IF caller[r] = "waiting" THEN "LOST" ELSE caller[r]]
          /\ UNCHANGED <<committed, driven>>
        BY <1>6 DEF Restart, store
    <2>2. ASSUME NEW r \in Requests PROVE RequestFits(r)'
        BY <2>1 DEF RequestInv, RequestFits, NoEnvelope
    <2> QED
        BY <2>1, <2>2 DEF RequestInv, BoxFits, HandFits, Early
<1> QED
    BY <1>1, <1>2, <1>4, <1>5, <1>6, CommandRequests, CallerRequests DEF Next, Coordinator, Resting

\* Outside a failure handler, an error is answered only when nothing was committed.
LEMMA ErrorStep ==
    ASSUME TypeOK, Held, RequestInv, ErrorInv, ~SecondFault, Next
    PROVE  ErrorInv'
<1> USE DEF Commanded, At
<1>e. env \in [Requests -> Envelopes] /\ caller \in [Requests -> {"new", "waiting", "RESULT", "ERROR", "TIMEOUT", "DENIED", "LOST"}]
    BY DEF TypeOK
<1>r. pc \in Commanded => item.req \in Requests
    BY HeldRequest
<1>1. CASE UNCHANGED <<env, caller, committed>>
    BY <1>1 DEF ErrorInv
<1>2. CASE Commanding
    <2>c. caller' = caller
        BY <1>2, CommandFrame
    <2>1. CASE TakeCommand \/ WriteProjection \/ FailAfter
        BY <1>1, <2>1, <2>c DEF TakeCommand, WriteProjection, FailAfter, store, requests
    <2>2. CASE RefuseCommand
        <3>1. pc \in Early /\ committed' = committed /\ item.req \in Requests
              /\ env' = [env EXCEPT ![item.req] = Acked(item.req, [env[item.req] EXCEPT !.error = TRUE])]
            BY <2>2, <1>r DEF RefuseCommand, store, Early
        <3>2. item.req \notin committed /\ \A q \in Requests : q # item.req => env'[q] = env[q]
            BY <3>1, <1>e DEF RequestInv, HandFits, Pending, StillPending
        <3> QED
            BY <2>c, <3>1, <3>2 DEF ErrorInv
    <2>3. CASE CheckCommand
        <3>1. committed' = committed /\ env' = Checked(item.req)
            BY <2>3 DEF CheckCommand, store
        <3>2. \A q \in Requests : env'[q].error => env[q].error
            BY <2>3, <3>1, <1>r, CheckedFields DEF CheckCommand
        <3> QED
            BY <2>c, <3>1, <3>2 DEF ErrorInv
    <2>4. CASE CommitCommand
        <3>1. pc = "commit" /\ committed' = committed \cup {item.req} /\ env' = env /\ item.req \in Requests
            BY <2>4, <1>r DEF CommitCommand, requests
        <3>2. Pending(item.req) /\ RequestFits(item.req)
            BY <3>1 DEF RequestInv, HandFits, Early
        <3> QED
            BY <2>c, <3>1, <3>2 DEF ErrorInv, Pending, StillPending, RequestFits, Open
    <2>5. CASE Acknowledge \/ FailBefore
        <3>1. /\ pc \in {"acknowledge", "failBefore"} /\ committed' = committed /\ item.req \in Requests
              /\ env' = [env EXCEPT ![item.req] = Acked(item.req, env[item.req])]
            BY <2>5, <1>r DEF Acknowledge, FailBefore, AnswerWithJob, store
        <3>2. env[item.req].st \in Open
            BY <3>1 DEF RequestInv, HandFits
        <3>3. /\ env'[item.req].error => env[item.req].error
              /\ \A q \in Requests : q # item.req => env'[q] = env[q]
            BY <3>1, <3>2, <1>e, AckedFields
        <3> QED
            BY <2>c, <3>1, <3>3 DEF ErrorInv
    <2> QED
        BY <1>2, <2>1, <2>2, <2>3, <2>4, <2>5 DEF Commanding
<1>3. CASE \E r \in Requests : Caller(r)
    <2>1. PICK r \in Requests : Caller(r)
        BY <1>3
    <2>2. committed' = committed
        BY <2>1, CallerFrame
    <2>3. CASE Submit(r)
        <3>1. \A q \in Requests : (env'[q].error => env[q].error) /\ (caller'[q] = "ERROR" => caller[q] = "ERROR")
            BY <2>3, <1>e DEF Submit, Fresh
        <3> QED
            BY <2>2, <3>1 DEF ErrorInv
    <2>4. CASE Deadline(r)
        BY <1>1, <2>2, <2>4 DEF Deadline
    <2>5. CASE WaitEnds(r)
        <3>1. env' = env /\ \A q \in Requests : caller'[q] = "ERROR" => caller[q] = "ERROR" \/ env[q].error
            BY <2>5, <1>e DEF WaitEnds, Answer
        <3> QED
            BY <2>2, <3>1 DEF ErrorInv
    <2>6. CASE WaitExpires(r)
        <3>1. \A q \in Requests : env'[q].error = env[q].error
            BY <2>6, <1>e, AbandonedFields DEF WaitExpires
        <3>2. \A q \in Requests : caller'[q] = "ERROR" => caller[q] = "ERROR" \/ env[q].error
            BY <2>6, <1>e DEF WaitExpires, Answer
        <3> QED
            BY <2>2, <3>1, <3>2 DEF ErrorInv
    <2> QED
        BY <2>1, <2>3, <2>4, <2>5, <2>6 DEF Caller
<1>4. CASE Restart
    <2>1. /\ env' = [r \in Requests |-> NoEnvelope] /\ committed' = committed
          /\ caller' = [r \in Requests |-> IF caller[r] = "waiting" THEN "LOST" ELSE caller[r]]
        BY <1>4 DEF Restart, store
    <2> QED
        BY <2>1 DEF ErrorInv, NoEnvelope
<1>5. CASE Driving \/ Cancelling \/ Resting \/ StopBegins \/ StopReturns \/ StopTimesOut
    BY <1>1, <1>5, DriveFrame, CancelFrame, RestFrame, StopFrame
<1>6. CASE \E j \in Jobs : RequestCancel(j) \/ Machine(j)
    BY <1>1, <1>6, RequestCancelFrame, MachineFrame
<1> QED
    BY <1>2, <1>3, <1>4, <1>5, <1>6 DEF Next, Coordinator, Resting

-----------------------------------------------------------------------------
(* Rows *)

LEMMA Written ==
    ASSUME TypeOK, NEW j \in Jobs, NEW row, rows' = [rows EXCEPT ![j] = row]
    PROVE  rows'[j] = row /\ \A k \in Jobs : k # j => rows'[k] = rows[k]
BY DEF TypeOK

LEMMA FailableState ==
    ASSUME NEW j, NEW row, Allowed(j, row, "FAILED")
    PROVE  row.state \in InFlight \cup {"BLOCKED"}
BY DEF Allowed, CheckProgression, AwaitsReview, InFlight

LEMMA StatesApart ==
    /\ InFlight \cap Rest = {} /\ InFlight \cap OwnedStates = {} /\ "NONE" \notin InFlight \cup Rest
    /\ InFlight \cup Rest \subseteq States
BY DEF InFlight, Rest, OwnedStates, States

\* The thread's hand: the job of a command, and the row behind a record in flight.
LEMMA DrivenRow ==
    ASSUME TypeOK, Held, RowInv, pc = "work" \/ (pc = "drive" /\ snap.state \notin Rest)
    PROVE  item.req \in Requests /\ Job \in Jobs /\ rows[Job] = snap /\ snap.state \in InFlight /\ snap \in Rows
<1>1. item.req \in Requests /\ Job \in Jobs
    BY HeldRequest DEF Commanded, Job
<1>2. rows[Job] = snap /\ snap.state \in InFlight
    BY DEF RowInv, SnapFits, Rest
<1> QED
    BY <1>1, <1>2 DEF TypeOK

LEMMA CommitsRow ==
    ASSUME TypeOK, Held, RowInv, pc = "work" \/ (pc = "drive" /\ snap.state \notin Rest),
           NEW row \in Rows, Commits(row), UNCHANGED owned,
           row.state \in InFlight \cup Rest,
           Mode[Job] = "check" => row.state \in CheckStates /\ ~AwaitsReview(row)
    PROVE  RowInv'
<1>1. Job \in Jobs /\ rows[Job] = snap /\ snap.state \in InFlight
    BY DrivenRow
<1>2. PICK j \in Jobs : j = Job
    BY <1>1
<1>3. rows'[j] = row /\ \A k \in Jobs : k # j => rows'[k] = rows[k]
    BY <1>2, Written DEF Commits, Put
<1>4. ~owned[j]
    BY <1>1, <1>2, StatesApart DEF RowInv, RowFits
<1>5. ASSUME NEW k \in Jobs PROVE RowFits(k)'
    <2>1. CASE k = j
        BY <1>2, <1>3, <1>4, <2>1, StatesApart DEF RowFits, AwaitsReview
    <2>2. CASE k # j
        BY <1>3, <2>2 DEF RowInv, RowFits, AwaitsReview
    <2> QED
        BY <2>1, <2>2
<1>6. pc' \in {"drive", "failAfter"} /\ snap' = row /\ item' = item
    BY DEF Commits
<1>7. SnapFits'
    BY <1>2, <1>3, <1>6 DEF SnapFits, Early, Job
<1> QED
    BY <1>5, <1>7 DEF RowInv

LEMMA CommandRows ==
    ASSUME TypeOK, Held, RowInv, Commanding
    PROVE  RowInv'
<1> USE DEF At
<1>o. owned' = owned
    BY CommandFrame
<1>r. pc \in Commanded => item.req \in Requests /\ Job \in Jobs
    BY HeldRequest DEF Job
<1>1. ASSUME rows' = rows PROVE \A k \in Jobs : RowFits(k)'
    BY <1>1, <1>o DEF RowInv, RowFits
<1>2. CASE TakeCommand
    <2>1. rows' = rows
        BY <1>2 DEF TakeCommand, store
    <2>2. pc' = "idle" \/ (pc' = "admit" /\ item' = Head(box) /\ snap' = rows[Head(box).req.job])
        BY <1>2 DEF TakeCommand, Rests
    <2>3. SnapFits'
        BY <2>1, <2>2 DEF SnapFits, Early, Job
    <2> QED
        BY <1>1, <2>1, <2>3 DEF RowInv
<1>3. CASE RefuseCommand
    <2>1. rows' = rows /\ pc' = "idle"
        BY <1>3 DEF RefuseCommand, store, Rests
    <2> QED
        BY <1>1, <2>1 DEF RowInv, SnapFits, Early
<1>4. CASE CheckCommand
    <2>1. rows' = rows
        BY <1>4 DEF CheckCommand, store
    <2>2. pc' = "idle" \/ (pc' \in {"checked", "commit"} /\ UNCHANGED <<item, snap>>)
        BY <1>4 DEF CheckCommand, Rests, Goes
    <2>3. pc \in Early /\ Admissible(item.req)
        BY <1>4 DEF CheckCommand, RowInv, SnapFits, Early
    <2>4. SnapFits'
        BY <2>1, <2>2, <2>3 DEF RowInv, SnapFits, Early, Job, Admissible
    <2> QED
        BY <1>1, <2>1, <2>4 DEF RowInv
<1>5. CASE CommitCommand
    <2>1. /\ pc = "commit" /\ Admissible(item.req) /\ pc' \in {"acknowledge", "failBefore"} /\ item' = item
          /\ Job \in Jobs /\ item.req \in Requests
        BY <1>5, <1>r DEF CommitCommand, RowInv, SnapFits, Commanded
    <2>2. PICK j \in Jobs : j = Job
        BY <2>1
    <2>3. snap.state \notin OwnedStates /\ rows[j] = snap
        BY <2>1, <2>2 DEF RowInv, SnapFits, Early, Admissible, AwaitsReview, OwnedStates
    <2>4. Admitted(item.req).state \in {"QUEUED", "IMAGE_READY"}
        BY FixedRows DEF Admitted, Moved
    <2>5. rows'[j] = Admitted(item.req) /\ \A k \in Jobs : k # j => rows'[k] = rows[k]
        BY <1>5, <2>2, Written DEF CommitCommand, Put, Job
    <2>6. Mode[j] = "check" => Admitted(item.req).state \in CheckStates
        BY <2>1, <2>2, <2>3, FixedRows DEF Admitted, Admissible, RowInv, RowFits, CheckStates
    <2>7. ASSUME NEW k \in Jobs PROVE RowFits(k)'
        <3>1. CASE k = j
            BY <1>o, <2>3, <2>4, <2>5, <2>6, <3>1 DEF RowInv, RowFits, AwaitsReview
        <3>2. CASE k # j
            BY <1>o, <2>5, <3>2 DEF RowInv, RowFits
        <3> QED
            BY <3>1, <3>2
    <2>8. SnapFits'
        BY <1>5, <2>1, <2>2, <2>4, <2>5 DEF CommitCommand, SnapFits, Early, Job
    <2> QED
        BY <2>7, <2>8 DEF RowInv
<1>6. CASE Acknowledge \/ WriteProjection
    <2>1. /\ rows' = rows /\ UNCHANGED <<item, snap>> /\ pc \in {"acknowledge", "write"}
          /\ pc' \in {"write", "drive", "failAfter"}
        BY <1>6 DEF Acknowledge, WriteProjection, Goes, store
    <2>2. SnapFits'
        BY <2>1 DEF RowInv, SnapFits, Early, Job, InFlight
    <2> QED
        BY <1>1, <2>1, <2>2 DEF RowInv
<1>7. CASE FailBefore \/ FailAfter
    <2>1. pc' = "idle" /\ Job \in Jobs
        BY <1>7, <1>r DEF FailBefore, FailAfter, Rests, Commanded
    <2>2. PICK j \in Jobs : j = Job
        BY <2>1
    <2>3. \/ rows' = rows
          \/ /\ rows' = [rows EXCEPT ![j] = Moved(rows[j], "FAILED", "none", {})]
             /\ rows[j].state \in InFlight \cup {"BLOCKED"}
        <3>1. CASE FailBefore
            BY <3>1, <2>2 DEF FailBefore, Put, RowInv, SnapFits, InFlight
        <3>2. CASE FailAfter
            <4>1. \/ rows' = rows \/ rows' = [rows EXCEPT ![j] = rows[j]]
                  \/ /\ rows' = [rows EXCEPT ![j] = Moved(rows[j], "FAILED", "none", {})]
                     /\ Allowed(j, rows[j], "FAILED")
                BY <3>2, <2>2 DEF FailAfter, Put
            <4>2. rows' = [rows EXCEPT ![j] = rows[j]] => rows' = rows
                BY DEF TypeOK
            <4> QED
                BY <4>1, <4>2, FailableState
        <3> QED
            BY <1>7, <3>1, <3>2
    <2>4. ASSUME NEW k \in Jobs PROVE RowFits(k)'
        <3>1. CASE rows' = rows
            BY <1>1, <3>1
        <3>2. CASE rows' # rows
            <4>1. rows'[j] = Moved(rows[j], "FAILED", "none", {}) /\ \A q \in Jobs : q # j => rows'[q] = rows[q]
                BY <2>3, <3>2, Written
            <4>2. rows'[j].state = "FAILED"
                BY <4>1 DEF Moved
            <4>3. ~owned[j]
                BY <2>3, <3>2, StatesApart DEF RowInv, RowFits, OwnedStates
            <4> QED
                BY <1>o, <4>1, <4>2, <4>3 DEF RowInv, RowFits, AwaitsReview, CheckStates
        <3> QED
            BY <3>1, <3>2
    <2> QED
        BY <2>1, <2>4 DEF RowInv, SnapFits, Early
<1> QED
    BY <1>2, <1>3, <1>4, <1>5, <1>6, <1>7 DEF Commanding

LEMMA DriveRows ==
    ASSUME TypeOK, Held, RowInv, Driving
    PROVE  RowInv'
<1> USE DEF At
<1>o. owned' = owned
    BY DriveFrame
<1>s. snap \in Rows /\ work \in Tasks
    BY DEF TypeOK
<1>w. work.roles \in SUBSET Roles /\ work.kind \in Workers
    BY <1>s, TaskTypes
<1>1. ASSUME rows' = rows PROVE \A k \in Jobs : RowFits(k)'
    BY <1>1, <1>o DEF RowInv, RowFits
<1>2. ASSUME NEW w, NEW new, Launch(w, new), pc = "work" \/ (pc = "drive" /\ snap.state \notin Rest), rows' = rows
      PROVE  RowInv'
    <2>1. UNCHANGED <<item, snap>> /\ pc' \in {"work", "failAfter"}
        BY <1>2 DEF Launch
    <2>2. SnapFits'
        BY <1>2, <2>1, DrivenRow DEF SnapFits, Early, Job
    <2> QED
        BY <1>1, <1>2, <2>2 DEF RowInv
<1>3. CASE DriveRaises \/ DriveEnds
    <2>1. rows' = rows /\ pc' \in {"failAfter", "idle"}
        BY <1>3 DEF DriveRaises, DriveEnds, store, Rests
    <2> QED
        BY <1>1, <2>1 DEF RowInv, SnapFits, Early
<1>4. ASSUME NEW to \in {"CANCELLED", "FAILED", "BLOCKED"}, NEW b \in {"none", "worker"}, NEW new \in SUBSET Roles,
             Commits(Moved(snap, to, b, new)), pc = "work" \/ (pc = "drive" /\ snap.state \notin Rest)
      PROVE  RowInv'
    <2>0. to \in States /\ b \in Blockers
        BY DEF States, Rest, Blockers
    <2>1. /\ Moved(snap, to, b, new) \in Rows /\ Moved(snap, to, b, new).state = to
          /\ Moved(snap, to, b, new).blocker = b
        BY <1>s, <2>0, MovedRow
    <2>2. to \in Rest /\ to \in CheckStates /\ ~AwaitsReview(Moved(snap, to, b, new))
        BY <2>1 DEF Rest, CheckStates, AwaitsReview
    <2> QED
        BY <1>4, <1>o, <2>1, <2>2, CommitsRow
<1>5. CASE AdvanceCancels \/ WorkerCancelled \/ WorkerFails \/ WorkerBlocks
    BY <1>4, <1>5, <1>w, WorkerRoles DEF AdvanceCancels, WorkerCancelled, WorkerFails, WorkerBlocks
<1>6. CASE AdvanceSteps
    <2>1. /\ pc = "drive" /\ snap.state \notin Rest /\ Commits(Stepped(Job, snap))
          /\ WorkerOf(Job, snap.state) = "none"
        BY <1>6 DEF AdvanceSteps
    <2>2. Job \in Jobs /\ rows[Job] = snap /\ snap.state \in InFlight
        BY <2>1, DrivenRow
    <2>3. snap.state \in {"QUEUED", "IMAGE_READY", "PATH_PLAN_READY"}
        BY <2>1, <2>2 DEF WorkerOf, InFlight
    <2>4. Mode[Job] = "check" => snap.state = "QUEUED"
        BY <2>2, <2>3 DEF RowInv, RowFits, CheckStates
    <2>5. Stepped(Job, snap) \in Rows
        BY <1>s, <2>2, SteppedRow
    <2>6. Stepped(Job, snap).state \in {"VALIDATING_GCODE", "PREPARING_IMAGE", "PLANNING_PATHS", "BUILDING_GCODE"}
        BY <1>s, <2>2, SteppedRow
    <2>7. Mode[Job] = "check" => Stepped(Job, snap).state = "VALIDATING_GCODE"
        BY <1>s, <2>2, <2>4, SteppedRow
    <2>8. Stepped(Job, snap).state \in InFlight \cup Rest /\ ~AwaitsReview(Stepped(Job, snap))
        BY <2>6 DEF InFlight, AwaitsReview
    <2>9. "VALIDATING_GCODE" \in CheckStates
        BY DEF CheckStates
    <2> QED
        BY <1>o, <2>1, <2>5, <2>7, <2>8, <2>9, CommitsRow
<1>7. CASE AdvanceWorks
    BY <1>2, <1>7 DEF AdvanceWorks
<1>8. CASE WorkerSucceeds
    <2>0. pc = "work"
        BY <1>8 DEF WorkerSucceeds
    <2>1. CASE Follows(work.kind) = {}
        <3> DEFINE new == work.roles \cup Leaves(work.kind)
        <3>1. Commits(Finished(Job, snap, new)) /\ new \in SUBSET Roles
            BY <1>8, <1>w, <2>1, WorkerRoles DEF WorkerSucceeds
        <3>2. Job \in Jobs /\ rows[Job] = snap /\ snap.state \in InFlight
            BY <2>0, DrivenRow
        <3> HIDE DEF new
        <3>3. Mode[Job] = "check" => snap.state \in {"QUEUED", "VALIDATING_GCODE"}
            BY <3>2 DEF RowInv, RowFits, CheckStates, InFlight
        <3>4. /\ Finished(Job, snap, new) \in Rows
              /\ Finished(Job, snap, new).state \in {"BLOCKED", "PATH_PLAN_READY", "VALIDATING_GCODE", "COMPLETED", "READY_TO_RUN"}
            BY <1>s, <3>1, <3>2, FinishedRow DEF AwaitsReview
        <3>5. Mode[Job] = "check" => Finished(Job, snap, new).state = "COMPLETED"
            BY <1>s, <3>1, <3>2, <3>3, FinishedRow
        <3>6. /\ Finished(Job, snap, new).state \in InFlight \cup Rest
              /\ Mode[Job] = "check" => Finished(Job, snap, new).state \in CheckStates /\ ~AwaitsReview(Finished(Job, snap, new))
            BY <3>4, <3>5 DEF InFlight, Rest, CheckStates, AwaitsReview
        <3> QED
            BY <1>o, <2>0, <3>1, <3>4, <3>6, CommitsRow
    <2>2. CASE Follows(work.kind) # {}
        BY <1>2, <1>8, <2>0, <2>2 DEF WorkerSucceeds
    <2> QED
        BY <2>1, <2>2
<1>9. CASE WorkerCrashes
    <2>1. UNCHANGED <<rows, pc, item, snap>>
        BY <1>9 DEF WorkerCrashes
    <2>2. SnapFits'
        BY <2>1 DEF RowInv, SnapFits, Job, Admissible
    <2> QED
        BY <1>1, <2>1, <2>2 DEF RowInv
<1> QED
    BY <1>3, <1>5, <1>6, <1>7, <1>8, <1>9 DEF Driving

LEMMA CancelRows ==
    ASSUME TypeOK, Held, RowInv, Cancelling
    PROVE  RowInv'
<1> USE DEF At
<1>o. owned' = owned
    BY CancelFrame
<1>1. ASSUME rows' = rows PROVE \A k \in Jobs : RowFits(k)'
    BY <1>1, <1>o DEF RowInv, RowFits
<1>2. CASE TakeCancel
    <2>1. rows' = rows
        BY <1>2 DEF TakeCancel, store
    <2>2. pc' = "idle" \/ (pc' = "cancel" /\ item' = Head(box) /\ snap' = rows[Head(box).job])
        BY <1>2 DEF TakeCancel, Rests
    <2> QED
        BY <1>1, <2>1, <2>2 DEF RowInv, SnapFits, Early
<1>3. CASE Cancel
    <2>1. item.job \in Jobs /\ pc' \in {"idle", "recover"}
        BY <1>3, HeldJob DEF Cancel, Rests, Goes
    <2>2. PICK j \in Jobs : j = item.job
        BY <2>1
    <2>3. rows' = rows \/ (rows' = [rows EXCEPT ![j] = Moved(snap, "CANCELLED", "none", {})] /\ ~owned[j])
        BY <1>3, <2>2 DEF Cancel, Put, CancelCommits
    <2>4. ASSUME NEW k \in Jobs PROVE RowFits(k)'
        <3>1. CASE rows' = rows
            BY <1>1, <3>1
        <3>2. CASE rows' # rows
            <4>1. rows'[j] = Moved(snap, "CANCELLED", "none", {}) /\ \A q \in Jobs : q # j => rows'[q] = rows[q]
                BY <2>3, <3>2, Written
            <4>2. rows'[j].state = "CANCELLED"
                BY <4>1 DEF Moved
            <4> QED
                BY <1>o, <2>3, <3>2, <4>1, <4>2 DEF RowInv, RowFits, AwaitsReview, CheckStates
        <3> QED
            BY <3>1, <3>2
    <2> QED
        BY <2>1, <2>4 DEF RowInv, SnapFits, Early
<1>4. CASE RecoverCancel
    <2>1. rows' = rows /\ pc' = "idle"
        BY <1>4 DEF RecoverCancel, store, Rests
    <2> QED
        BY <1>1, <2>1 DEF RowInv, SnapFits, Early
<1> QED
    BY <1>2, <1>3, <1>4 DEF Cancelling

\* What a start makes of a row.
LEMMA ReconciledRow ==
    ASSUME NEW row \in Rows
    PROVE  /\ Reconciled(row) = row \/ (row.state \in InFlight /\ Reconciled(row) = Moved(row, "FAILED", "none", {}))
           /\ Reconciled(row).state \notin InFlight
BY DEF Reconciled, Moved, InFlight

LEMMA StartRows ==
    ASSUME StartReady \/ StartFails, TypeOK, NEW j \in Jobs
    PROVE  \/ rows'[j] = rows[j] /\ (StartReady => rows[j].state \notin InFlight)
           \/ /\ rows[j].state \in InFlight \cup {"BLOCKED"}
              /\ rows'[j] = Moved(rows[j], "FAILED", "none", {})
<1>1. rows \in [Jobs -> Rows]
    BY DEF TypeOK
<1>2. CASE StartReady
    <2>1. PICK damaged \in SUBSET {k \in Jobs : AwaitsReview(rows[k])} :
             rows' = [k \in Jobs |-> IF k \in damaged THEN Moved(rows[k], "FAILED", "none", {}) ELSE Reconciled(rows[k])]
        BY <1>2 DEF StartReady
    <2>2. CASE j \in damaged
        BY <2>1, <2>2 DEF AwaitsReview
    <2>3. CASE j \notin damaged
        BY <1>1, <2>1, <2>3, ReconciledRow
    <2> QED
        BY <2>2, <2>3
<1>3. CASE StartFails /\ ~StartReady
    <2>1. PICK some \in SUBSET Jobs :
             rows' = [k \in Jobs |-> IF k \in some THEN Reconciled(rows[k]) ELSE rows[k]]
        BY <1>3 DEF StartFails
    <2> QED
        BY <1>1, <1>3, <2>1, ReconciledRow
<1> QED
    BY <1>2, <1>3

LEMMA RestRows ==
    ASSUME TypeOK, Held, RowInv, Resting
    PROVE  RowInv'
<1> USE DEF At
<1>o. owned' = owned
    BY RestFrame
<1>1. ASSUME NEW j \in Jobs PROVE RowFits(j)'
    <2>1. CASE TakeExternal \/ PublishExternal \/ TakeStop
        BY <1>o, <2>1 DEF TakeExternal, PublishExternal, TakeStop, store, RowInv, RowFits
    <2>2. CASE StartReady \/ StartFails
        <3>1. CASE rows'[j] = rows[j]
            BY <1>o, <3>1 DEF RowInv, RowFits
        <3>2. CASE rows'[j] # rows[j]
            <4>1. rows[j].state \in InFlight \cup {"BLOCKED"} /\ rows'[j] = Moved(rows[j], "FAILED", "none", {})
                BY <2>2, <3>2, StartRows
            <4>2. rows'[j].state = "FAILED"
                BY <4>1 DEF Moved
            <4>3. ~owned[j]
                BY <4>1, StatesApart DEF RowInv, RowFits, OwnedStates
            <4> QED
                BY <1>o, <4>2, <4>3 DEF RowFits, AwaitsReview, CheckStates
        <3> QED
            BY <3>1, <3>2
    <2> QED
        BY <2>1, <2>2 DEF Resting
<1>2. SnapFits'
    BY RestMoves DEF SnapFits, Early
<1> QED
    BY <1>1, <1>2 DEF RowInv

LEMMA MachineRows ==
    ASSUME TypeOK, Held, RowInv, NEW j \in Jobs, Machine(j)
    PROVE  RowInv'
<1>f. UNCHANGED <<pc, item, snap>>
    BY MachineFrame
<1>t. owned \in [Jobs -> BOOLEAN]
    BY DEF TypeOK
<1>1. CASE MachinePublishes(j)
    BY <1>1, <1>f DEF MachinePublishes, store, RowInv, RowFits, SnapFits, Job, Admissible
<1>2. CASE MachineClaims(j) \/ MachineReleases(j)
    <2>1. rows' = rows /\ \A k \in Jobs : owned'[k] => owned[k] \/ rows[k].state \in OwnedStates
        BY <1>2, <1>t DEF MachineClaims, MachineReleases, store, OwnedStates
    <2>2. ASSUME NEW k \in Jobs PROVE RowFits(k)'
        BY <2>1 DEF RowInv, RowFits
    <2>3. SnapFits'
        BY <1>f, <2>1 DEF RowInv, SnapFits, Job, Admissible
    <2> QED
        BY <2>2, <2>3 DEF RowInv
<1>3. CASE MachineOutcome(j)
    <2>1. PICK to \in {"COMPLETED", "RECOVERY_REQUIRED"} : rows' = [rows EXCEPT ![j] = Moved(rows[j], to, "none", {})]
        BY <1>3 DEF MachineOutcome, Put
    <2>0. rows'[j] = Moved(rows[j], to, "none", {}) /\ \A k \in Jobs : k # j => rows'[k] = rows[k]
        BY <2>1, Written
    <2>2. rows'[j].state = to /\ \A k \in Jobs : k # j => rows'[k] = rows[k]
        BY <2>0 DEF Moved
    <2>3. owned[j] /\ rows[j].state \in OwnedStates /\ \A k \in Jobs : (k # j => owned'[k] = owned[k]) /\ ~owned'[j]
        BY <1>3, <1>t DEF MachineOutcome, RowInv, RowFits
    <2>4. ASSUME NEW k \in Jobs PROVE RowFits(k)'
        <3>1. CASE k = j
            BY <2>2, <2>3, <3>1 DEF RowInv, RowFits, AwaitsReview, CheckStates, OwnedStates
        <3>2. CASE k # j
            BY <2>2, <2>3, <3>2 DEF RowInv, RowFits
        <3> QED
            BY <3>1, <3>2
    <2>5. ASSUME NEW k \in Jobs, rows[k] = snap
          PROVE  rows'[k] = snap \/ (snap.state \in OwnedStates /\ rows'[k].state \notin InFlight)
        <3>1. CASE k = j
            BY <2>2, <2>3, <2>5, <3>1 DEF InFlight
        <3>2. CASE k # j
            BY <2>2, <2>5, <3>2
        <3> QED
            BY <3>1, <3>2
    <2>6. pc \in Commanded => Job \in Jobs
        BY HeldRequest DEF Job
    <2>7. pc = "cancel" => item.job \in Jobs
        BY HeldJob
    <2>8. ASSUME NEW k \in Jobs, rows[k].state \notin InFlight PROVE rows'[k].state \notin InFlight
        BY <2>2, <2>8 DEF InFlight
    <2>9. SnapFits'
        <3>1. CASE pc \in Commanded
            <4>1. PICK k \in Jobs : k = Job
                BY <2>6, <3>1
            <4>2. snap.state \in OwnedStates => snap.state \notin InFlight /\ snap.state \notin {"QUEUED", "IMAGE_READY"}
                BY DEF OwnedStates, InFlight
            <4>3. snap.state \in OwnedStates /\ snap.state \in InFlight \cup Rest => snap.state = "READY_TO_RUN"
                BY DEF OwnedStates, InFlight, Rest
            <4>4. k = item.req.job
                BY <4>1 DEF Job
            <4>5. pc \in Early => rows'[k] = snap \/ snap.state \in OwnedStates
                BY <2>5, <4>4 DEF RowInv, SnapFits, Job
            <4>6. pc \in {"acknowledge", "failBefore", "write", "work"} => rows'[k] = snap
                BY <2>5, <4>2, <4>4 DEF RowInv, SnapFits, Job
            <4>7. pc = "drive" => rows'[k] = snap \/ (snap.state = "READY_TO_RUN" /\ rows'[k].state \notin InFlight)
                BY <2>5, <2>8, <4>3, <4>4 DEF RowInv, SnapFits, Job
            <4> QED
                BY <1>f, <3>1, <4>4, <4>5, <4>6, <4>7 DEF RowInv, SnapFits, Job, Admissible, Commanded
        <3>2. CASE pc = "cancel"
            BY <1>f, <2>5, <2>7, <3>2 DEF RowInv, SnapFits, Early
        <3>3. CASE pc \notin Commanded \cup {"cancel"}
            BY <1>f, <3>3 DEF SnapFits, Early, Commanded
        <3> QED
            BY <3>1, <3>2, <3>3
    <2> QED
        BY <2>4, <2>9 DEF RowInv
<1> QED
    BY <1>1, <1>2, <1>3 DEF Machine

LEMMA RowStep ==
    ASSUME TypeOK, Held, RowInv, Next
    PROVE  RowInv'
<1>1. ASSUME UNCHANGED <<rows, owned, pc, item, snap>> PROVE RowInv'
    BY <1>1 DEF RowInv, RowFits, SnapFits, Job, Admissible
<1>2. CASE Restart
    <2>1. UNCHANGED <<rows, owned>> /\ pc' = "starting"
        BY <1>2 DEF Restart, store
    <2> QED
        BY <2>1 DEF RowInv, RowFits, SnapFits, Early
<1>3. CASE \E r \in Requests : Caller(r)
    BY <1>1, <1>3, CallerFrame
<1>4. CASE StopBegins \/ StopReturns \/ StopTimesOut
    BY <1>1, <1>4, StopFrame
<1>5. CASE \E j \in Jobs : RequestCancel(j) \/ Machine(j)
    BY <1>1, <1>5, RequestCancelFrame, MachineRows
<1> QED
    BY <1>2, <1>3, <1>4, <1>5, CommandRows, DriveRows, CancelRows, RestRows DEF Next, Coordinator, Resting

-----------------------------------------------------------------------------
(* Stages *)

LEMMA RowTable ==
    ASSUME NEW row
    PROVE  /\ row.state = "PREPARING_IMAGE" => Has(row) = {"input"} /\ Needs(row) = {"input"}
           /\ AwaitsReview(row) => Has(row) = {"input", "processed"} /\ Needs(row) = {"processed"}
           /\ row.state \in {"IMAGE_READY", "PLANNING_PATHS"} =>
                 Has(row) = {"input", "processed"} /\ Needs(row) = {"processed"}
           /\ row.state \in {"PATH_PLAN_READY", "BUILDING_GCODE"} =>
                 Has(row) = {"input", "processed", "path_plan"} /\ Needs(row) = {"path_plan"}
           /\ row.state = "VALIDATING_GCODE" =>
                 Has(row) = {"input", "processed", "path_plan", "gcode"} /\ Needs(row) = {"gcode"}
           /\ row.state \in OwnedStates =>
                 Has(row) = {"input", "processed", "path_plan", "gcode", "readiness"} /\ Needs(row) = {}
           /\ row.state \notin InFlight \cup OwnedStates /\ ~AwaitsReview(row) => Has(row) = {} /\ Needs(row) = {}
           /\ row.state = "QUEUED" => Has(row) = {} /\ Needs(row) = {}
BY DEF Has, Needs, OwnedStates, InFlight, AwaitsReview

LEMMA WorkerTable ==
    ASSUME NEW s, NEW w \in Stage(s)
    PROVE  /\ s \in {"PREPARING_IMAGE", "PLANNING_PATHS", "BUILDING_GCODE", "VALIDATING_GCODE"}
           /\ s = "PREPARING_IMAGE" /\ Follows(w) = {} => "processed" \in Leaves(w)
           /\ s = "PLANNING_PATHS" => Leaves(w) = {"path_plan"}
           /\ s = "BUILDING_GCODE" => Leaves(w) = {"gcode"}
           /\ s = "VALIDATING_GCODE" => Leaves(w) = {"readiness"}
           /\ Follows(w) \subseteq Stage(s)
           /\ "provider" \in Follows(w) => w = "route"
           /\ "route" \notin Follows(w)
BY DEF Stage, Follows, Leaves

LEMMA FirstWorker ==
    ASSUME NEW j, NEW s, WorkerOf(j, s) # "none"
    PROVE  /\ WorkerOf(j, s) \in Stage(s)
           /\ WorkerOf(j, s) \in {"provider", "route"} => s = "PREPARING_IMAGE"
BY DEF WorkerOf, Stage

\* Nothing is lost for a job whose row a step leaves alone.
LEMMA KeptStage ==
    ASSUME StageInv, NEW k \in Jobs, rows'[k] = rows[k], known[k] \subseteq known'[k], paid'[k] = paid[k],
           committed \subseteq committed', pc \in {"starting", "absent"} => pc' \in {"starting", "absent"}
    PROVE  StageFits(k)'
<1>1. StageFits(k)
    BY DEF StageInv
<1>2. Reviewed(k) => Reviewed(k)'
    BY DEF Reviewed
<1> QED
    BY <1>1, <1>2 DEF StageFits, Has, Needs, AwaitsReview

\* A row that has come to its end, or is blocked by a worker, asks for nothing.
LEMMA PlainStage ==
    ASSUME NEW k \in Jobs, rows'[k].state \in {"FAILED", "CANCELLED", "COMPLETED", "BLOCKED"},
           ~AwaitsReview(rows'[k]), paid'[k] <= 1
    PROVE  StageFits(k)'
<1>1. Has(rows'[k]) = {} /\ Needs(rows'[k]) = {}
    BY DEF Has, Needs, AwaitsReview, OwnedStates
<1> QED
    BY <1>1 DEF StageFits, LateStates, Has, Needs, AwaitsReview

LEMMA CommandStages ==
    ASSUME TypeOK, Held, RowInv, StageInv, Commanding
    PROVE  StageInv'
<1> USE DEF At
<1>f. UNCHANGED <<known, paid>>
    BY CommandFrame
<1>c. committed \subseteq committed' /\ pc \notin {"starting", "absent"}
    BY DEF Commanding, TakeCommand, RefuseCommand, CheckCommand, CommitCommand, Acknowledge,
           WriteProjection, FailBefore, FailAfter, store, Took
<1>r. pc \in Commanded => item.req \in Requests /\ Job \in Jobs
    BY HeldRequest DEF Job
<1>1. CASE TakeCommand \/ RefuseCommand \/ CheckCommand \/ Acknowledge
    <2>1. rows' = rows /\ pc' \notin {"work", "drive"}
        BY <1>1 DEF TakeCommand, RefuseCommand, CheckCommand, Acknowledge, store, Rests, Goes
    <2> QED
        BY <1>f, <1>c, <2>1, KeptStage DEF StageInv, WorkFits
<1>2. CASE WriteProjection
    <2>1. rows' = rows /\ pc' # "work" /\ snap' = snap /\ snap.state # "PREPARING_IMAGE"
        BY <1>2 DEF WriteProjection, store, Goes, RowInv, SnapFits
    <2> QED
        BY <1>f, <1>c, <2>1, KeptStage DEF StageInv, WorkFits
<1>3. CASE CommitCommand
    <2>1. /\ pc = "commit" /\ pc' \in {"acknowledge", "failBefore"} /\ Job \in Jobs /\ item.req \in Requests
          /\ committed' = committed \cup {item.req}
        BY <1>3, <1>r DEF CommitCommand, Commanded
    <2>2. PICK j \in Jobs, r \in Requests : j = Job /\ r = item.req
        BY <2>1
    <2>3. r.job = j /\ r.kind \in Kinds /\ r \in committed'
        BY <2>1, <2>2, RequestAssumption DEF Job
    <2>4. Admissible(r) /\ rows[j] = snap
        BY <2>1, <2>2 DEF RowInv, SnapFits, Early, Admissible, AwaitsReview, OwnedStates
    <2>5. rows'[j] = Admitted(r) /\ \A k \in Jobs : k # j => rows'[k] = rows[k]
        BY <1>3, <2>2, Written DEF CommitCommand, Put, Job
    <2>6. snap \in Rows
        BY DEF TypeOK
    <2>7. StageFits(j) /\ RowFits(j)
        BY DEF StageInv, RowInv
    <2>8. StageFits(j)'
        <3>1. CASE r.kind = "SUBMIT"
            <4>1. rows'[j].state = "QUEUED" /\ rows[j].state = "NONE"
                BY <2>4, <2>5, <3>1, FixedRows DEF Admitted, Admissible
            <4>2. Has(rows'[j]) = {} /\ Needs(rows'[j]) = {}
                BY <4>1, RowTable
            <4> QED
                BY <1>f, <2>7, <4>1, <4>2 DEF StageFits, LateStates, Has, Needs, AwaitsReview
        <3>2. CASE r.kind # "SUBMIT"
            <4>1. AwaitsReview(rows[j]) /\ r.approved /\ r.kind = "CONTINUE_REVIEW"
                BY <2>3, <2>4, <3>2 DEF Admissible, Kinds
            <4>2. rows'[j].state = "IMAGE_READY" /\ rows'[j].roles = rows[j].roles
                BY <2>4, <2>5, <2>6, <3>2 DEF Admitted, Moved
            <4>3. /\ Has(rows'[j]) = {"input", "processed"} /\ Needs(rows'[j]) = {"processed"}
                  /\ Has(rows[j]) = {"input", "processed"} /\ Needs(rows[j]) = {"processed"}
                BY <4>1, <4>2, RowTable
            <4>4. Reviewed(j)'
                BY <2>3, <4>1 DEF Reviewed
            <4> QED
                BY <1>f, <1>c, <2>7, <4>2, <4>3, <4>4 DEF StageFits, Has, Needs, AwaitsReview
        <3> QED
            BY <3>1, <3>2
    <2>9. ASSUME NEW k \in Jobs PROVE StageFits(k)'
        BY <1>f, <1>c, <2>5, <2>8, KeptStage
    <2> QED
        BY <2>1, <2>9 DEF StageInv, WorkFits
<1>4. CASE FailBefore \/ FailAfter
    <2>1. pc' = "idle" /\ Job \in Jobs
        BY <1>4, <1>r DEF FailBefore, FailAfter, Rests, Commanded
    <2>2. PICK j \in Jobs : j = Job
        BY <2>1
    <2>3. rows \in [Jobs -> Rows] /\ paid[j] <= 1
        BY DEF TypeOK, StageInv, StageFits
    <2>4. \/ rows' = rows
          \/ rows' = [rows EXCEPT ![j] = Moved(rows[j], "FAILED", "none", {})]
        BY <1>4, <2>2, <2>3 DEF FailBefore, FailAfter, Put
    <2>5. ASSUME NEW k \in Jobs PROVE StageFits(k)'
        <3>1. CASE rows'[k] = rows[k]
            BY <1>f, <1>c, <3>1, KeptStage
        <3>2. CASE rows'[k] # rows[k]
            <4>1. k = j /\ rows'[k] = Moved(rows[j], "FAILED", "none", {})
                BY <2>4, <3>2, Written
            <4>2. rows'[k].state = "FAILED" /\ ~AwaitsReview(rows'[k])
                BY <4>1 DEF Moved, AwaitsReview
            <4> QED
                BY <1>f, <2>3, <4>1, <4>2, PlainStage
        <3> QED
            BY <3>1, <3>2
    <2> QED
        BY <2>1, <2>5 DEF StageInv, WorkFits
<1> QED
    BY <1>1, <1>2, <1>3, <1>4 DEF Commanding

\* A committed step of the chain: the other jobs are left alone.
LEMMA CommitsStage ==
    ASSUME TypeOK, StageInv, NEW j \in Jobs, j = Job, NEW row, Commits(row), UNCHANGED <<paid, committed>>,
           pc \in {"drive", "work"}, \A k \in Jobs : known[k] \subseteq known'[k],
           StageFits(j)', row.state # "PREPARING_IMAGE" \/ paid[j] = 0
    PROVE  StageInv'
<1>1. rows'[j] = row /\ \A k \in Jobs : k # j => rows'[k] = rows[k]
    BY Written DEF Commits, Put
<1>2. pc' \in {"drive", "failAfter"} /\ snap' = row /\ item' = item
    BY DEF Commits
<1>3. ASSUME NEW k \in Jobs PROVE StageFits(k)'
    BY <1>1, <1>2, KeptStage
<1>4. WorkFits'
    BY <1>2 DEF WorkFits, Job
<1> QED
    BY <1>3, <1>4 DEF StageInv

LEMMA LaunchStage ==
    ASSUME TypeOK, RowInv, StageInv, NEW j \in Jobs, j = Job, NEW w, NEW new, Launch(w, new), UNCHANGED <<rows, committed>>,
           pc \in {"drive", "work"}, \A k \in Jobs : known[k] \subseteq known'[k],
           w \in Stage(snap.state), rows[j] = snap, w \in {"provider", "route"} => paid[j] = 0
    PROVE  StageInv'
<1>1. paid \in [Jobs -> Nat]
    BY DEF TypeOK
<1>2. /\ \A k \in Jobs : k # j => paid'[k] = paid[k]
      /\ paid'[j] = paid[j] \/ (w = "provider" /\ paid'[j] = 1)
      /\ pc' \in {"work", "failAfter"} /\ UNCHANGED <<item, snap>>
      /\ pc' = "work" => work' = Attempt(w, new)
    BY <1>1 DEF Launch, Job
<1>3. StageFits(j)'
    <2>1. rows[j].state \notin {"NONE", "QUEUED"}
        BY WorkerTable
    <2>2. StageFits(j) /\ paid'[j] <= 1
        BY <1>2 DEF StageInv, StageFits
    <2>3. Reviewed(j) => Reviewed(j)'
        BY DEF Reviewed
    <2> QED
        BY <1>2, <2>1, <2>2, <2>3 DEF StageFits, Has, Needs, AwaitsReview
<1>4. ASSUME NEW k \in Jobs PROVE StageFits(k)'
    BY <1>2, <1>3, KeptStage
<1>5. pc' = "work" => work'.kind = w
    BY <1>2 DEF Attempt
<1>6. w = "route" => paid'[j] = 0
    BY <1>2
<1>7. WorkFits'
    BY <1>2, <1>5, <1>6 DEF WorkFits, Job
<1> QED
    BY <1>4, <1>7 DEF StageInv

LEMMA DriveStages ==
    ASSUME TypeOK, Held, RowInv, StageInv, Driving
    PROVE  StageInv'
<1> USE DEF At
<1>c. committed' = committed
    BY DriveFrame
<1>t. /\ known \in [Jobs -> SUBSET Roles] /\ paid \in [Jobs -> Nat] /\ snap \in Rows /\ work \in Tasks
      /\ work.roles \in SUBSET Roles
    BY TaskTypes DEF TypeOK
<1>1. CASE DriveRaises \/ DriveEnds
    <2>1. UNCHANGED <<rows, known, paid>> /\ pc' \in {"failAfter", "idle"} /\ pc \in {"drive", "work"}
        BY <1>1 DEF DriveRaises, DriveEnds, store, memory, Rests
    <2> QED
        BY <1>c, <2>1, KeptStage DEF StageInv, WorkFits
<1>2. CASE WorkerCrashes
    <2>1. /\ UNCHANGED <<rows, known, pc, item, snap>> /\ pc = "work" /\ work'.kind = work.kind
          /\ work.kind # "provider"
        BY <1>2, <1>t DEF WorkerCrashes, memory, Retries, Tasks
    <2>2. Job \in Jobs
        BY <2>1, DrivenRow
    <2>3. paid' = paid
        BY <1>2, <1>t, <2>1, <2>2 DEF WorkerCrashes
    <2>4. \A k \in Jobs : StageFits(k)'
        BY <1>c, <2>1, <2>3, KeptStage
    <2> QED
        BY <2>1, <2>3, <2>4 DEF StageInv, WorkFits, Job
<1>3. CASE pc = "work" \/ (pc = "drive" /\ snap.state \notin Rest)
    <2>1. Job \in Jobs /\ rows[Job] = snap /\ snap.state \in InFlight
        BY <1>3, DrivenRow
    <2>2. PICK j \in Jobs : j = Job
        BY <2>1
    <2>3. StageFits(j) /\ RowFits(j) /\ rows[j] = snap /\ pc \in {"drive", "work"} /\ paid[j] <= 1 /\ Has(snap) \subseteq Roles
        BY <1>3, <2>1, <2>2 DEF StageInv, RowInv, StageFits, Has, Roles
    <2>4. ASSUME NEW to \in {"CANCELLED", "FAILED", "BLOCKED"}, NEW b \in {"none", "worker"}, NEW new,
                 Commits(Moved(snap, to, b, new)), UNCHANGED paid, \A k \in Jobs : known[k] \subseteq known'[k]
          PROVE  StageInv'
        <3>1. rows'[j] = Moved(snap, to, b, new)
            BY <2>2, <2>4, Written DEF Commits, Put
        <3>2. rows'[j].state = to /\ ~AwaitsReview(rows'[j]) /\ Moved(snap, to, b, new).state = to
            BY <3>1 DEF Moved, AwaitsReview
        <3>3. StageFits(j)'
            BY <2>3, <2>4, <3>2, PlainStage
        <3> QED
            BY <1>c, <2>2, <2>3, <2>4, <3>2, <3>3, CommitsStage
    <2>5. CASE AdvanceCancels \/ WorkerCancelled \/ WorkerFails
        BY <2>4, <2>5 DEF AdvanceCancels, WorkerCancelled, WorkerFails
    <2>6. CASE WorkerBlocks
        <3>1. \A k \in Jobs : known[k] \subseteq known'[k]
            BY <1>t, <2>6 DEF WorkerBlocks
        <3> QED
            BY <2>4, <2>6, <3>1 DEF WorkerBlocks
    <2>7. CASE AdvanceSteps
        <3> DEFINE row == Stepped(j, snap)
        <3>1. /\ pc = "drive" /\ Commits(row) /\ paid' = paid /\ WorkerOf(j, snap.state) = "none"
              /\ known' = [known EXCEPT ![j] = known[j] \cup IF snap.state = "QUEUED" THEN row.roles ELSE {}]
            BY <2>2, <2>7 DEF AdvanceSteps
        <3>2. snap.state \in {"QUEUED", "IMAGE_READY", "PATH_PLAN_READY"}
            BY <2>1, <3>1 DEF WorkerOf, InFlight
        <3>3. /\ \A k \in Jobs : known[k] \subseteq known'[k]
              /\ snap.state = "QUEUED" => row.roles \subseteq known'[j]
            BY <1>t, <3>1
        <3>4. rows'[j] = row
            BY <2>2, <3>1, Written DEF Commits, Put
        <3>5. CASE snap.state = "QUEUED"
            <4>1. CASE Mode[j] = "check"
                <5>1. row.state = "VALIDATING_GCODE" /\ "gcode" \in row.roles
                    BY <1>t, <3>5, <4>1, SteppedRow
                <5>2. Needs(row) = {"gcode"}
                    BY <5>1, RowTable
                <5>3. StageFits(j)'
                    BY <2>3, <3>1, <3>3, <3>4, <3>5, <4>1, <5>1, <5>2 DEF StageFits, Needs, AwaitsReview
                <5> QED
                    BY <1>c, <2>2, <2>3, <3>1, <3>3, <5>1, <5>3, CommitsStage
            <4>2. CASE Mode[j] # "check"
                <5>1. row.state = "PREPARING_IMAGE" /\ "input" \in row.roles
                    BY <1>t, <3>5, <4>2, SteppedRow
                <5>2. Needs(row) = {"input"} /\ Has(row) = {"input"}
                    BY <5>1, RowTable
                <5>3. paid[j] = 0
                    BY <2>3, <3>5 DEF StageFits
                <5>4. StageFits(j)'
                    BY <2>3, <3>1, <3>3, <3>4, <3>5, <4>2, <5>1, <5>2 DEF StageFits, Needs, Has, AwaitsReview, LateStates
                <5> QED
                    BY <1>c, <2>2, <2>3, <3>1, <3>3, <5>3, <5>4, CommitsStage
            <4> QED
                BY <4>1, <4>2
        <3>6. CASE snap.state # "QUEUED"
            <4>1. Mode[j] # "check"
                BY <2>3, <3>2, <3>6 DEF RowFits, CheckStates
            <4>2. /\ row.roles = snap.roles
                  /\ row.state = IF snap.state = "IMAGE_READY" THEN "PLANNING_PATHS" ELSE "BUILDING_GCODE"
                BY <1>t, <3>2, <3>6, SteppedRow
            <4>3. Needs(row) = Needs(snap) /\ Has(row) = Has(snap)
                BY <3>2, <3>6, <4>2, RowTable
            <4>4. Reviewed(j)'
                BY <1>c, <2>3, <3>2, <3>6, <4>1 DEF StageFits, LateStates, Reviewed
            <4>5. /\ Has(snap) \subseteq snap.roles /\ Needs(snap) \subseteq known'[j]
                BY <2>3, <3>1, <3>3, <4>1 DEF StageFits
            <4>6. row.state \notin {"NONE", "QUEUED", "PREPARING_IMAGE"}
                BY <4>2
            <4>7. StageFits(j)'
                BY <2>3, <3>1, <3>4, <4>2, <4>3, <4>4, <4>5, <4>6 DEF StageFits, Needs, Has, AwaitsReview
            <4> QED
                BY <1>c, <2>2, <2>3, <3>1, <3>3, <4>6, <4>7, CommitsStage
        <3> QED
            BY <3>5, <3>6
    <2>8. CASE AdvanceWorks
        <3>1. pc = "drive" /\ Launch(WorkerOf(j, snap.state), {}) /\ UNCHANGED <<known, rows>> /\ WorkerOf(j, snap.state) # "none"
            BY <2>2, <2>8 DEF AdvanceWorks
        <3>2. WorkerOf(j, snap.state) \in Stage(snap.state)
            BY <3>1, FirstWorker
        <3>3. WorkerOf(j, snap.state) \in {"provider", "route"} => paid[j] = 0
            BY <2>2, <3>1, FirstWorker DEF StageInv, WorkFits
        <3> QED
            BY <1>c, <2>2, <2>3, <3>1, <3>2, <3>3, LaunchStage
    <2>9. CASE WorkerSucceeds
        <3>1. pc = "work" /\ known' = [known EXCEPT ![j] = known[j] \cup Leaves(work.kind)]
            BY <2>2, <2>9 DEF WorkerSucceeds
        <3>2. (\A k \in Jobs : known[k] \subseteq known'[k]) /\ Leaves(work.kind) \subseteq known'[j]
            BY <1>t, <3>1
        <3>3. work.kind \in Stage(snap.state)
            BY <3>1 DEF StageInv, WorkFits
        <3>4. CASE Follows(work.kind) # {}
            <4>1. PICK w \in Follows(work.kind) : Launch(w, work.roles \cup Leaves(work.kind))
                BY <2>9, <3>4 DEF WorkerSucceeds
            <4>2. rows' = rows
                BY <2>9, <3>4 DEF WorkerSucceeds
            <4>3. w \in Stage(snap.state) /\ w # "route" /\ (w = "provider" => work.kind = "route")
                BY <3>3, <4>1, WorkerTable
            <4>4. w \in {"provider", "route"} => paid[j] = 0
                BY <2>2, <3>1, <4>3 DEF StageInv, WorkFits
            <4> QED
                BY <1>c, <2>2, <2>3, <3>2, <4>1, <4>2, <4>3, <4>4, LaunchStage
        <3>5. CASE Follows(work.kind) = {}
            <4> DEFINE new == work.roles \cup Leaves(work.kind)
                       row == Finished(j, snap, new)
            <4>1. Commits(row) /\ paid' = paid
                BY <2>2, <2>9, <3>5 DEF WorkerSucceeds
            <4>2. new \in SUBSET Roles /\ Leaves(work.kind) \subseteq new
                BY <1>t, WorkerRoles
            <4> HIDE DEF new
            <4>3. rows'[j] = row
                BY <2>2, <4>1, Written DEF Commits, Put
            <4>4. row.roles = snap.roles \cup new
                BY <1>t, <4>2, FinishedRow
            <4>5. Mode[j] # "check" => Has(snap) \subseteq snap.roles
                BY <2>3 DEF StageFits
            <4>6. Mode[j] # "check" /\ snap.state \in LateStates => Reviewed(j)'
                BY <1>c, <2>3 DEF StageFits, Reviewed
            <4>7. CASE snap.state = "PREPARING_IMAGE"
                <5>1. AwaitsReview(row) /\ row.state = "BLOCKED"
                    BY <1>t, <4>2, <4>7, FinishedRow DEF AwaitsReview
                <5>2. Has(row) = {"input", "processed"} /\ Needs(row) = {"processed"} /\ Has(snap) = {"input"}
                    BY <4>7, <5>1, RowTable
                <5>3. "processed" \in Leaves(work.kind)
                    BY <3>3, <3>5, <4>7, WorkerTable
                <5>4. StageFits(j)'
                    BY <2>3, <3>2, <4>1, <4>2, <4>3, <4>4, <4>5, <5>1, <5>2, <5>3 DEF StageFits, Needs, Has, AwaitsReview, LateStates
                <5> QED
                    BY <1>c, <2>2, <2>3, <3>2, <4>1, <5>1, <5>4, CommitsStage
            <4>8. CASE snap.state = "PLANNING_PATHS"
                <5>1. row.state = "PATH_PLAN_READY"
                    BY <1>t, <4>2, <4>8, FinishedRow
                <5>2. Has(row) = {"input", "processed", "path_plan"} /\ Needs(row) = {"path_plan"} /\ Has(snap) = {"input", "processed"}
                    BY <4>8, <5>1, RowTable
                <5>3. Leaves(work.kind) = {"path_plan"}
                    BY <3>3, <4>8, WorkerTable
                <5>4. Mode[j] # "check" => Reviewed(j)'
                    BY <4>6, <4>8 DEF LateStates
                <5>5. StageFits(j)'
                    BY <2>3, <3>2, <4>1, <4>2, <4>3, <4>4, <4>5, <5>1, <5>2, <5>3, <5>4 DEF StageFits, Needs, Has, AwaitsReview
                <5> QED
                    BY <1>c, <2>2, <2>3, <3>2, <4>1, <5>1, <5>5, CommitsStage
            <4>9. CASE snap.state = "BUILDING_GCODE"
                <5>1. row.state = "VALIDATING_GCODE"
                    BY <1>t, <4>2, <4>9, FinishedRow
                <5>2. Has(row) = {"input", "processed", "path_plan", "gcode"} /\ Needs(row) = {"gcode"} /\ Has(snap) = {"input", "processed", "path_plan"}
                    BY <4>9, <5>1, RowTable
                <5>3. Leaves(work.kind) = {"gcode"}
                    BY <3>3, <4>9, WorkerTable
                <5>4. Mode[j] # "check" => Reviewed(j)'
                    BY <4>6, <4>9 DEF LateStates
                <5>5. StageFits(j)'
                    BY <2>3, <3>2, <4>1, <4>2, <4>3, <4>4, <4>5, <5>1, <5>2, <5>3, <5>4 DEF StageFits, Needs, Has, AwaitsReview
                <5> QED
                    BY <1>c, <2>2, <2>3, <3>2, <4>1, <5>1, <5>5, CommitsStage
            <4>10. CASE snap.state = "VALIDATING_GCODE"
                <5>1. row.state = IF Mode[j] = "check" THEN "COMPLETED" ELSE "READY_TO_RUN"
                    BY <1>t, <4>2, <4>10, FinishedRow
                <5>2. CASE Mode[j] = "check"
                    <6>1. rows'[j].state = "COMPLETED" /\ ~AwaitsReview(rows'[j])
                        BY <4>3, <5>1, <5>2 DEF AwaitsReview
                    <6>2. StageFits(j)'
                        BY <2>3, <4>1, <6>1, PlainStage
                    <6> QED
                        BY <1>c, <2>2, <2>3, <3>2, <4>1, <4>3, <6>1, <6>2, CommitsStage
                <5>3. CASE Mode[j] # "check"
                    <6>1. /\ Has(row) = {"input", "processed", "path_plan", "gcode", "readiness"} /\ Needs(row) = {}
                          /\ Has(snap) = {"input", "processed", "path_plan", "gcode"}
                        BY <4>10, <5>1, <5>3, RowTable DEF OwnedStates
                    <6>2. Leaves(work.kind) = {"readiness"}
                        BY <3>3, <4>10, WorkerTable
                    <6>3. Reviewed(j)'
                        BY <4>6, <4>10, <5>3 DEF LateStates
                    <6>4. StageFits(j)'
                        BY <2>3, <4>1, <4>2, <4>3, <4>4, <4>5, <5>1, <5>3, <6>1, <6>2, <6>3 DEF StageFits, Needs, Has, AwaitsReview
                    <6> QED
                        BY <1>c, <2>2, <2>3, <3>2, <4>1, <5>1, <6>4, CommitsStage
                <5> QED
                    BY <5>2, <5>3
            <4> QED
                BY <3>3, <4>7, <4>8, <4>9, <4>10, WorkerTable
        <3> QED
            BY <3>4, <3>5
    <2>10. CASE WorkerCrashes \/ DriveRaises \/ DriveEnds
        BY <1>1, <1>2, <2>10
    <2> QED
        BY <2>5, <2>6, <2>7, <2>8, <2>9, <2>10 DEF Driving
<1>4. Driving => DriveEnds \/ pc = "work" \/ (pc = "drive" /\ snap.state \notin Rest)
    BY DEF Driving, DriveRaises, AdvanceCancels, AdvanceSteps, AdvanceWorks, WorkerSucceeds,
           WorkerBlocks, WorkerFails, WorkerCrashes, WorkerCancelled
<1> QED
    BY <1>1, <1>3, <1>4

LEMMA RestStages ==
    ASSUME TypeOK, Held, RowInv, StageInv, Cancelling \/ Resting
    PROVE  StageInv'
<1> USE DEF At
<1>f. UNCHANGED <<committed, paid>> /\ pc' \notin {"work", "drive"}
    BY CancelFrame, RestFrame, CancelMoves, RestMoves
<1>t. rows \in [Jobs -> Rows] /\ \A k \in Jobs : paid[k] <= 1
    BY DEF TypeOK, StageInv, StageFits
<1>1. ASSUME NEW k \in Jobs PROVE StageFits(k)'
    <2>1. CASE Cancelling
        <3>1. known' = known /\ pc \notin {"starting", "absent"}
            BY <2>1, CancelFrame, CancelMoves
        <3>2. CASE rows'[k] = rows[k]
            BY <1>f, <3>1, <3>2, KeptStage
        <3>3. CASE rows'[k] # rows[k]
            <4>1. Cancel
                BY <2>1, <3>3 DEF Cancelling, TakeCancel, RecoverCancel, store
            <4>2. PICK j \in Jobs : j = item.job
                BY <4>1, HeldJob DEF Cancel
            <4>3. rows' = [rows EXCEPT ![j] = Moved(snap, "CANCELLED", "none", {})]
                BY <3>3, <4>1, <4>2 DEF Cancel, Put
            <4>4. rows'[k] = Moved(snap, "CANCELLED", "none", {})
                BY <3>3, <4>3, Written
            <4>5. rows'[k].state = "CANCELLED" /\ ~AwaitsReview(rows'[k])
                BY <4>4 DEF Moved, AwaitsReview
            <4> QED
                BY <1>f, <1>t, <4>5, PlainStage
        <3> QED
            BY <3>2, <3>3
    <2>2. CASE TakeExternal \/ PublishExternal \/ TakeStop
        <3>1. UNCHANGED <<rows, known>> /\ pc \notin {"starting", "absent"}
            BY <2>2 DEF TakeExternal, PublishExternal, TakeStop, store, memory, Took
        <3> QED
            BY <1>f, <3>1, KeptStage
    <2>3. CASE StartReady \/ StartFails
        <3>1. CASE rows'[k] # rows[k]
            <4>1. rows'[k] = Moved(rows[k], "FAILED", "none", {})
                BY <2>3, <3>1, StartRows
            <4>2. rows'[k].state = "FAILED" /\ ~AwaitsReview(rows'[k])
                BY <4>1 DEF Moved, AwaitsReview
            <4> QED
                BY <1>f, <1>t, <4>2, PlainStage
        <3>2. CASE rows'[k] = rows[k] /\ StartFails
            <4>1. known' = known /\ pc' = "absent"
                BY <3>2 DEF StartFails, memory
            <4> QED
                BY <1>f, <3>2, <4>1, KeptStage
        <3>3. CASE rows'[k] = rows[k] /\ StartReady
            <4>1. rows[k].state \notin InFlight
                BY <1>t, <3>3, StartRows, ReconciledRow DEF Moved, InFlight
            <4>2. known'[k] = Rehydrated(rows'[k])
                BY <3>3 DEF StartReady
            <4>3. StageFits(k) /\ RowFits(k) /\ (Reviewed(k) => Reviewed(k)')
                BY <1>f DEF StageInv, RowInv, Reviewed
            <4>4. Needs(rows[k]) \subseteq Rehydrated(rows[k])
                <5>1. CASE AwaitsReview(rows[k])
                    BY <4>3, <5>1, RowTable DEF StageFits, RowFits, Rehydrated
                <5>2. CASE ~AwaitsReview(rows[k])
                    BY <4>1, <5>2, RowTable
                <5> QED
                    BY <5>1, <5>2
            <4> QED
                BY <1>f, <3>3, <4>2, <4>3, <4>4 DEF StageFits, Has, Needs, AwaitsReview
        <3> QED
            BY <2>3, <3>1, <3>2, <3>3
    <2> QED
        BY <2>1, <2>2, <2>3 DEF Resting
<1> QED
    BY <1>1, <1>f DEF StageInv, WorkFits

LEMMA StageStep ==
    ASSUME TypeOK, Held, RowInv, StageInv, Next
    PROVE  StageInv'
<1>1. ASSUME UNCHANGED <<rows, known, paid, committed, pc, item, snap, work>> PROVE StageInv'
    <2>1. \A k \in Jobs : StageFits(k)'
        BY <1>1, KeptStage
    <2> QED
        BY <1>1, <2>1 DEF StageInv, WorkFits, Job
<1>2. CASE Restart
    <2>1. UNCHANGED <<rows, paid, committed>> /\ pc' = "starting"
        BY <1>2 DEF Restart, store
    <2>2. ASSUME NEW k \in Jobs PROVE StageFits(k)'
        BY <2>1 DEF StageInv, StageFits, Has, Needs, AwaitsReview, Reviewed
    <2> QED
        BY <2>1, <2>2 DEF StageInv, WorkFits
<1>3. CASE \E r \in Requests : Caller(r)
    BY <1>1, <1>3, CallerFrame
<1>4. CASE StopBegins \/ StopReturns \/ StopTimesOut
    BY <1>1, <1>4, StopFrame
<1>5. CASE \E j \in Jobs : RequestCancel(j) \/ Machine(j)
    <2>1. PICK j \in Jobs : RequestCancel(j) \/ Machine(j)
        BY <1>5
    <2>2. CASE rows' = rows
        BY <1>1, <2>1, <2>2, RequestCancelFrame, MachineFrame
    <2>3. CASE rows' # rows
        <3>0. MachineOutcome(j)
            BY <2>1, <2>3, RequestCancelFrame DEF Machine, MachineClaims, MachineReleases, MachinePublishes, store
        <3>1. PICK to \in {"COMPLETED", "RECOVERY_REQUIRED"} : rows' = [rows EXCEPT ![j] = Moved(rows[j], to, "none", {})]
            BY <3>0 DEF MachineOutcome, Put
        <3>2. rows'[j] = Moved(rows[j], to, "none", {}) /\ \A k \in Jobs : k # j => rows'[k] = rows[k]
            BY <3>1, Written
        <3>3. rows'[j].state = to /\ rows'[j].roles = rows[j].roles /\ ~AwaitsReview(rows'[j])
            BY <3>2 DEF Moved, AwaitsReview
        <3>4. UNCHANGED <<known, paid, committed, pc, item, snap, work>>
            BY <3>0, MachineFrame DEF Machine
        <3>5. StageFits(j) /\ rows[j].state \in OwnedStates /\ paid[j] <= 1
            BY <3>0 DEF MachineOutcome, RowInv, RowFits, StageInv, StageFits
        <3>6. StageFits(j)'
            <4>1. CASE to = "COMPLETED"
                BY <3>3, <3>4, <3>5, <4>1, PlainStage
            <4>2. CASE to = "RECOVERY_REQUIRED"
                <5>1. Has(rows'[j]) = Has(rows[j]) /\ Needs(rows'[j]) = {}
                    BY <3>3, <3>5, <4>2, RowTable DEF OwnedStates
                <5>2. Mode[j] # "check" => Reviewed(j)'
                    BY <3>4, <3>5 DEF StageFits, LateStates, OwnedStates, Reviewed
                <5> QED
                    BY <3>3, <3>4, <3>5, <4>2, <5>1, <5>2 DEF StageFits, Has, Needs, AwaitsReview
            <4> QED
                BY <4>1, <4>2
        <3>7. \A k \in Jobs : StageFits(k)'
            BY <3>2, <3>4, <3>6, KeptStage
        <3> QED
            BY <3>4, <3>7 DEF StageInv, WorkFits, Job
    <2> QED
        BY <2>2, <2>3
<1> QED
    BY <1>2, <1>3, <1>4, <1>5, CommandStages, DriveStages, RestStages DEF Next, Coordinator, Resting

-----------------------------------------------------------------------------
(* Projections *)

\* A row is replaced by one of the next revision, or by the first one.
Grows(j) ==
    \/ rows'[j] = rows[j]
    \/ rows'[j].rev = rows[j].rev + 1
    \/ rows[j] = NoRow /\ rows'[j] = Queued

LEMMA ProjectedAt ==
    ASSUME TypeOK, NEW j \in Jobs, NEW row
    PROVE  /\ Published(j, row)[j].row = row /\ Shown(j, row)[j].row = row
           /\ [proj EXCEPT ![j].row = row][j].row = row
           /\ \A k \in Jobs : k # j => /\ Published(j, row)[k] = proj[k] /\ Shown(j, row)[k] = proj[k]
                                       /\ [proj EXCEPT ![j].row = row][k] = proj[k]
<1>1. proj \in [Jobs -> Projections] /\ proj[j] \in Projections
    BY DEF TypeOK
<1>2. Published(j, row)[j].row = row /\ \A k \in Jobs : k # j => Published(j, row)[k] = proj[k]
    BY <1>1 DEF Published
<1>3. Shown(j, row)[j].row = row /\ \A k \in Jobs : k # j => Shown(j, row)[k] = proj[k]
    BY <1>1 DEF Shown
<1>4. [proj EXCEPT ![j].row = row][j].row = row /\ \A k \in Jobs : k # j => [proj EXCEPT ![j].row = row][k] = proj[k]
    BY <1>1 DEF Projections
<1> QED
    BY <1>2, <1>3, <1>4

LEMMA RowSetAt ==
    ASSUME TypeOK, NEW j \in Jobs, NEW row, proj' = [proj EXCEPT ![j].row = row]
    PROVE  proj'[j].row = row /\ \A k \in Jobs : k # j => proj'[k] = proj[k]
<1>1. proj \in [Jobs -> Projections] /\ proj[j] \in Projections
    BY DEF TypeOK
<1>2. proj'[j] = [proj[j] EXCEPT !.row = row] /\ \A k \in Jobs : k # j => proj'[k] = proj[k]
    BY <1>1
<1>3. [proj[j] EXCEPT !.row = row].row = row
    BY <1>1 DEF Projections
<1> QED
    BY <1>2, <1>3

LEMMA AskedAt ==
    ASSUME TypeOK, NEW j \in Jobs
    PROVE  \A k \in Jobs : /\ [proj EXCEPT ![j].asked = TRUE][k].row = proj[k].row
                           /\ [proj EXCEPT ![j].asked = FALSE][k].row = proj[k].row
<1>1. proj \in [Jobs -> Projections] /\ \A k \in Jobs : proj[k] \in Projections
    BY DEF TypeOK
<1> QED
    BY <1>1 DEF Projections

LEMMA CommandGrows ==
    ASSUME TypeOK, Held, RowInv, Commanding
    PROVE  \A k \in Jobs : Grows(k)
<1> USE DEF At
<1>t. rows \in [Jobs -> Rows] /\ snap \in Rows
    BY DEF TypeOK
<1>1. CASE rows' = rows
    BY <1>1 DEF Grows
<1>2. CASE rows' # rows
    <2>1. CommitCommand \/ FailBefore \/ FailAfter
        BY <1>2 DEF Commanding, TakeCommand, RefuseCommand, CheckCommand, Acknowledge, WriteProjection, store
    <2>2. Job \in Jobs
        BY <2>1, HeldRequest DEF CommitCommand, FailBefore, FailAfter, Commanded, Job
    <2>3. PICK j \in Jobs : j = Job
        BY <2>2
    <2>4. CASE CommitCommand
        <3>1. rows'[j] = Admitted(item.req) /\ \A k \in Jobs : k # j => rows'[k] = rows[k]
            BY <2>3, <2>4, Written DEF CommitCommand, Put, Job
        <3>2. Admissible(item.req) /\ rows[j] = snap
            BY <2>3, <2>4 DEF CommitCommand, RowInv, SnapFits, Early, Admissible, AwaitsReview, OwnedStates
        <3>3. CASE item.req.kind = "SUBMIT"
            BY <3>1, <3>2, <3>3 DEF Grows, Admitted, Admissible, RowInv, RowFits
        <3>4. CASE item.req.kind # "SUBMIT"
            BY <1>t, <3>1, <3>2, <3>4 DEF Grows, Admitted, Moved
        <3> QED
            BY <3>3, <3>4
    <2>5. CASE FailBefore \/ FailAfter
        <3>1. rows' = [rows EXCEPT ![j] = Moved(rows[j], "FAILED", "none", {})]
            BY <1>2, <1>t, <2>3, <2>5 DEF FailBefore, FailAfter, Put
        <3>2. rows'[j] = Moved(rows[j], "FAILED", "none", {}) /\ \A k \in Jobs : k # j => rows'[k] = rows[k]
            BY <3>1, Written
        <3> QED
            BY <3>2 DEF Grows, Moved
    <2> QED
        BY <2>1, <2>4, <2>5
<1> QED
    BY <1>1, <1>2

LEMMA DriveGrows ==
    ASSUME TypeOK, Held, RowInv, Driving
    PROVE  \/ rows' = rows /\ proj' = proj
           \/ \E row \in Rows : row.rev = snap.rev + 1 /\ Commits(row) /\ Job \in Jobs /\ rows[Job] = snap
<1> USE DEF At
<1>t. snap \in Rows /\ work.roles \in SUBSET Roles
    BY TaskTypes DEF TypeOK
<1>1. CASE DriveRaises \/ DriveEnds \/ AdvanceWorks \/ WorkerCrashes
    BY <1>1 DEF DriveRaises, DriveEnds, AdvanceWorks, WorkerCrashes, store, memory
<1>2. CASE WorkerSucceeds /\ Follows(work.kind) # {}
    BY <1>2 DEF WorkerSucceeds
<1>3. ASSUME pc = "work" \/ (pc = "drive" /\ snap.state \notin Rest)
      PROVE  Job \in Jobs /\ rows[Job] = snap
    BY <1>3, DrivenRow
<1>4. ASSUME NEW to \in {"CANCELLED", "FAILED", "BLOCKED"}, NEW b \in {"none", "worker"}, NEW new \in SUBSET Roles
      PROVE  Moved(snap, to, b, new) \in Rows /\ Moved(snap, to, b, new).rev = snap.rev + 1
    <2>1. to \in States /\ b \in Blockers
        BY DEF States, Rest, Blockers
    <2> QED
        BY <1>t, <2>1, MovedRow
<1>5. CASE AdvanceCancels \/ WorkerCancelled \/ WorkerFails
    <2>1. \E to \in {"CANCELLED", "FAILED"} : Commits(Moved(snap, to, "none", {}))
        BY <1>5 DEF AdvanceCancels, WorkerCancelled, WorkerFails
    <2>2. pc = "work" \/ (pc = "drive" /\ snap.state \notin Rest)
        BY <1>5 DEF AdvanceCancels, WorkerCancelled, WorkerFails
    <2>3. {} \in SUBSET Roles
        OBVIOUS
    <2> QED
        BY <1>3, <1>4, <2>1, <2>2, <2>3
<1>6. CASE WorkerBlocks
    <2>1. pc = "work" /\ Commits(Moved(snap, "BLOCKED", "worker", work.roles \cup LeavesBlocked(work.kind)))
        BY <1>6 DEF WorkerBlocks
    <2>2. work.roles \cup LeavesBlocked(work.kind) \in SUBSET Roles
        BY <1>t, WorkerRoles
    <2> QED
        BY <1>3, <1>4, <2>1, <2>2
<1>7. CASE AdvanceSteps
    <2>1. pc = "drive" /\ snap.state \notin Rest /\ Commits(Stepped(Job, snap))
        BY <1>7 DEF AdvanceSteps
    <2> QED
        BY <1>3, <1>t, <2>1, SteppedRow
<1>8. CASE WorkerSucceeds /\ Follows(work.kind) = {}
    <2>1. pc = "work" /\ Commits(Finished(Job, snap, work.roles \cup Leaves(work.kind)))
        BY <1>8 DEF WorkerSucceeds
    <2>2. work.roles \cup Leaves(work.kind) \in SUBSET Roles
        BY <1>t, WorkerRoles
    <2> QED
        BY <1>3, <1>t, <2>1, <2>2, FinishedRow
<1> QED
    BY <1>1, <1>2, <1>5, <1>6, <1>7, <1>8 DEF Driving

LEMMA RowsGrow ==
    ASSUME TypeOK, Held, RowInv, Next
    PROVE  \A k \in Jobs : Grows(k)
<1> USE DEF At
<1>t. rows \in [Jobs -> Rows] /\ snap \in Rows
    BY DEF TypeOK
<1>1. CASE rows' = rows
    BY <1>1 DEF Grows
<1>2. CASE Driving
    <2>1. CASE rows' # rows
        <3>1. PICK row \in Rows : row.rev = snap.rev + 1 /\ Commits(row) /\ Job \in Jobs /\ rows[Job] = snap
            BY <1>2, <2>1, DriveGrows
        <3>2. PICK j \in Jobs : j = Job
            BY <3>1
        <3>3. rows'[j] = row /\ \A k \in Jobs : k # j => rows'[k] = rows[k]
            BY <3>1, <3>2, Written DEF Commits, Put
        <3> QED
            BY <3>1, <3>2, <3>3 DEF Grows
    <2> QED
        BY <1>1, <2>1
<1>3. CASE Cancelling
    <2>1. CASE rows' # rows
        <3>1. Cancel
            BY <1>3, <2>1 DEF Cancelling, TakeCancel, RecoverCancel, store
        <3>2. PICK j \in Jobs : j = item.job
            BY <3>1, HeldJob DEF Cancel
        <3>3. rows' = [rows EXCEPT ![j] = Moved(snap, "CANCELLED", "none", {})] /\ rows[j].rev = snap.rev
            BY <2>1, <3>1, <3>2 DEF Cancel, Put, CancelCommits
        <3>4. rows'[j] = Moved(snap, "CANCELLED", "none", {}) /\ \A k \in Jobs : k # j => rows'[k] = rows[k]
            BY <3>3, Written
        <3> QED
            BY <3>3, <3>4 DEF Grows, Moved
    <2> QED
        BY <1>1, <2>1
<1>4. CASE Resting
    <2>1. CASE StartReady \/ StartFails
        <3> SUFFICES ASSUME NEW k \in Jobs PROVE Grows(k)
            OBVIOUS
        <3>1. rows'[k] = rows[k] \/ rows'[k] = Moved(rows[k], "FAILED", "none", {})
            BY <2>1, StartRows
        <3> QED
            BY <3>1 DEF Grows, Moved
    <2>2. CASE TakeExternal \/ PublishExternal \/ TakeStop
        BY <1>1, <2>2 DEF TakeExternal, PublishExternal, TakeStop, store
    <2> QED
        BY <1>4, <2>1, <2>2 DEF Resting
<1>5. CASE \E j \in Jobs : RequestCancel(j) \/ Machine(j)
    <2>1. PICK j \in Jobs : RequestCancel(j) \/ Machine(j)
        BY <1>5
    <2>2. CASE rows' # rows
        <3>0. MachineOutcome(j)
            BY <2>1, <2>2, RequestCancelFrame DEF Machine, MachineClaims, MachineReleases, MachinePublishes, store
        <3>1. PICK to \in {"COMPLETED", "RECOVERY_REQUIRED"} : rows' = [rows EXCEPT ![j] = Moved(rows[j], to, "none", {})]
            BY <3>0 DEF MachineOutcome, Put
        <3>2. rows'[j] = Moved(rows[j], to, "none", {}) /\ \A k \in Jobs : k # j => rows'[k] = rows[k]
            BY <3>1, Written
        <3> QED
            BY <3>2 DEF Grows, Moved
    <2> QED
        BY <1>1, <2>2
<1>6. CASE Restart
    BY <1>1, <1>6 DEF Restart, store
<1> QED
    BY <1>1, <1>2, <1>3, <1>4, <1>5, <1>6, CommandGrows, CallerFrame, StopFrame DEF Next, Coordinator, Resting

\* A step shows the row it leaves, or what was shown before.
LEMMA StepShows ==
    ASSUME TypeOK, Held, RowInv, Next, ~PublishExternal, ~Restart
    PROVE  \A k \in Jobs : proj'[k].row \in {proj[k].row, rows'[k]}
<1> USE DEF At
<1>t. rows \in [Jobs -> Rows] /\ snap \in Rows /\ proj \in [Jobs -> Projections]
    BY DEF TypeOK
<1>1. CASE proj' = proj
    BY <1>1
<1>2. ASSUME NEW j \in Jobs, proj' \in {Published(j, rows'[j]), Shown(j, rows'[j]), [proj EXCEPT ![j].row = rows'[j]]}
      PROVE  \A k \in Jobs : proj'[k].row \in {proj[k].row, rows'[k]}
    <2>1. proj'[j].row = rows'[j] /\ \A k \in Jobs : k # j => proj'[k] = proj[k]
        <3>1. CASE proj' = Published(j, rows'[j])
            BY <3>1, ProjectedAt
        <3>2. CASE proj' = Shown(j, rows'[j])
            BY <3>2, ProjectedAt
        <3>3. CASE proj' = [proj EXCEPT ![j].row = rows'[j]]
            BY <3>3, RowSetAt
        <3> QED
            BY <1>2, <3>1, <3>2, <3>3
    <2> QED
        BY <2>1
<1>3. ASSUME NEW j \in Jobs, proj' \in {[proj EXCEPT ![j].asked = TRUE], [proj EXCEPT ![j].asked = FALSE]}
      PROVE  \A k \in Jobs : proj'[k].row \in {proj[k].row, rows'[k]}
    <2>1. CASE proj' = [proj EXCEPT ![j].asked = TRUE]
        BY <2>1, AskedAt
    <2>2. CASE proj' = [proj EXCEPT ![j].asked = FALSE]
        BY <2>2, AskedAt
    <2> QED
        BY <1>3, <2>1, <2>2
<1>4. CASE Commanding
    <2>1. CASE proj' # proj
        <3>1. Acknowledge \/ WriteProjection \/ FailBefore \/ FailAfter
            BY <1>4, <2>1 DEF Commanding, TakeCommand, RefuseCommand, CheckCommand, CommitCommand, memory
        <3>2. Job \in Jobs
            BY <3>1, HeldRequest DEF Acknowledge, WriteProjection, FailBefore, FailAfter, Commanded, Job
        <3>3. PICK j \in Jobs : j = Job
            BY <3>2
        <3>4. CASE Acknowledge \/ WriteProjection
            <4>1. proj' = Published(j, snap) /\ rows' = rows
                BY <2>1, <3>3, <3>4 DEF Acknowledge, WriteProjection, Job, store
            <4>2. rows[j] = snap
                BY <3>3, <3>4 DEF Acknowledge, WriteProjection, RowInv, SnapFits
            <4> QED
                BY <1>2, <4>1, <4>2
        <3>5. CASE FailBefore
            <4>1. \/ rows' = [rows EXCEPT ![j] = Moved(rows[j], "FAILED", "none", {})] /\ proj' = Published(j, Moved(rows[j], "FAILED", "none", {}))
                  \/ proj' = Shown(j, rows'[j])
                BY <2>1, <3>3, <3>5 DEF FailBefore, Put
            <4> QED
                BY <1>2, <4>1, Written
        <3>6. CASE FailAfter
            <4>1. PICK row : \/ rows' = [rows EXCEPT ![j] = row] /\ proj' = Published(j, row)
                             \/ proj' = [proj EXCEPT ![j].row = rows'[j]]
                BY <2>1, <3>3, <3>6 DEF FailAfter, Put
            <4> QED
                BY <1>2, <4>1, Written
        <3> QED
            BY <3>1, <3>4, <3>5, <3>6
    <2> QED
        BY <1>1, <2>1
<1>5. CASE Driving
    <2>1. CASE proj' # proj
        <3>1. PICK row \in Rows : Commits(row) /\ Job \in Jobs
            BY <1>5, <2>1, DriveGrows
        <3>2. PICK j \in Jobs : j = Job
            BY <3>1
        <3>3. rows'[j] = row /\ proj' = Published(j, row)
            BY <2>1, <3>1, <3>2, Written DEF Commits, Put
        <3> QED
            BY <1>2, <3>3
    <2> QED
        BY <1>1, <2>1
<1>6. CASE Cancelling
    <2>1. CASE TakeCancel
        <3>1. PICK j \in Jobs : j = Head(box).job
            BY <2>1, TakenItem, ItemKinds DEF TakeCancel
        <3>2. proj' = proj \/ proj' = [proj EXCEPT ![j].asked = FALSE]
            BY <2>1, <3>1 DEF TakeCancel
        <3> QED
            BY <1>1, <1>3, <3>2
    <2>2. CASE Cancel
        <3>1. PICK j \in Jobs : j = item.job
            BY <2>2, HeldJob DEF Cancel
        <3>2. rows[j] = snap \/ snap.state \in OwnedStates
            BY <2>2, <3>1 DEF Cancel, RowInv, SnapFits
        <3>3. \/ proj' = proj
              \/ rows' = rows /\ snap.state \in {"CANCELLED", "FAILED", "COMPLETED"} /\ proj' = Shown(j, snap)
              \/ rows' = [rows EXCEPT ![j] = Moved(snap, "CANCELLED", "none", {})] /\ proj' = Shown(j, Moved(snap, "CANCELLED", "none", {}))
            BY <2>2, <3>1 DEF Cancel, Put
        <3>4. snap.state \in {"CANCELLED", "FAILED", "COMPLETED"} => rows[j] = snap
            BY <3>2 DEF OwnedStates
        <3> QED
            BY <1>1, <1>2, <3>3, <3>4, Written
    <2>3. CASE RecoverCancel
        <3>1. PICK j \in Jobs : j = item.job
            BY <2>3, HeldJob DEF RecoverCancel
        <3>2. rows' = rows /\ (proj' = Shown(j, rows[j]) \/ proj' = [proj EXCEPT ![j].asked = FALSE])
            BY <2>3, <3>1 DEF RecoverCancel, Recovered, store
        <3> QED
            BY <1>2, <1>3, <3>2
    <2> QED
        BY <1>6, <2>1, <2>2, <2>3 DEF Cancelling
<1>7. CASE Resting
    <2>1. CASE StartReady
        BY <2>1 DEF StartReady
    <2>2. CASE StartFails \/ TakeExternal \/ TakeStop
        BY <1>1, <2>2 DEF StartFails, TakeExternal, TakeStop, memory
    <2> QED
        BY <1>7, <2>1, <2>2 DEF Resting
<1>8. CASE \E j \in Jobs : RequestCancel(j) \/ Machine(j)
    <2>1. PICK j \in Jobs : RequestCancel(j) \/ Machine(j)
        BY <1>8
    <2>2. proj' = proj \/ proj' = [proj EXCEPT ![j].asked = TRUE]
        BY <2>1, MachineFrame DEF RequestCancel
    <2> QED
        BY <1>1, <1>3, <2>2
<1> QED
    BY <1>1, <1>4, <1>5, <1>6, <1>7, <1>8, CallerFrame, StopFrame DEF Next, Coordinator, Resting

\* What is shown never overtakes the row and never goes back.
LEMMA BehindStep ==
    ASSUME TypeOK, TypeOK', Held, RowInv, RowInv', ProjInv, Next, ~Restart
    PROVE  \A k \in Jobs : Behind(k)' /\ proj'[k].row.rev >= proj[k].row.rev
<1> SUFFICES ASSUME NEW k \in Jobs PROVE Behind(k)' /\ proj'[k].row.rev >= proj[k].row.rev
    OBVIOUS
<1>1. /\ rows[k].rev \in Nat /\ rows'[k].rev \in Nat /\ proj[k].row.rev \in Nat /\ proj'[k].row.rev \in Nat
    BY DEF TypeOK, Rows, Projections
<1>2. Behind(k) /\ Grows(k) /\ (rows'[k].state = "NONE" => rows'[k].rev = 0)
    BY RowsGrow, FixedRows DEF ProjInv, RowInv, RowFits
<1>3. proj[k].row.rev <= rows[k].rev
    BY <1>1, <1>2 DEF Behind
<1>4. CASE proj'[k].row = rows'[k]
    BY <1>1, <1>2, <1>3, <1>4, FixedRows DEF Behind, Grows
<1>5. CASE proj'[k].row = proj[k].row
    <2>1. CASE rows[k] = NoRow /\ rows'[k] = Queued
        BY <1>1, <1>2, <1>3, <1>5, <2>1, FixedRows DEF Behind
    <2>2. CASE rows'[k] = rows[k] \/ rows'[k].rev = rows[k].rev + 1
        BY <1>1, <1>2, <1>3, <1>5, <2>2 DEF Behind
    <2> QED
        BY <1>2, <2>1, <2>2 DEF Grows
<1>6. CASE PublishExternal
    <2>1. rows' = rows /\ pc = "external" /\ snap \in Rows
        BY <1>6 DEF PublishExternal, store, At, TypeOK
    <2>2. PICK j \in Jobs : j = item.job
        BY <2>1, HeldJob
    <2>3. proj' = proj \/ (Newer(snap, proj[j]) /\ proj' = Shown(j, snap))
        BY <1>6, <2>2 DEF PublishExternal
    <2>4. CASE proj' = proj
        BY <1>5, <2>4
    <2>5. CASE Newer(snap, proj[j]) /\ proj' = Shown(j, snap)
        <3>1. proj'[j].row = snap /\ \A q \in Jobs : q # j => proj'[q] = proj[q]
            BY <2>5, ProjectedAt
        <3>2. /\ snap.rev <= rows[j].rev /\ (snap.rev = rows[j].rev => snap = rows[j])
              /\ snap.state = "NONE" => snap.rev = 0
            BY <2>1, <2>2 DEF ProjInv, ReadFits
        <3>3. snap.rev \in Nat /\ (rows[j].state = "NONE" => rows[j].rev = 0)
            BY <2>1, FixedRows DEF Rows, RowInv, RowFits
        <3>4. CASE k # j
            BY <1>5, <3>1, <3>4
        <3>5. CASE k = j
            BY <1>1, <1>2, <1>3, <2>1, <2>5, <3>1, <3>2, <3>3, <3>5 DEF Behind, Newer
        <3> QED
            BY <3>4, <3>5
    <2> QED
        BY <2>3, <2>4, <2>5
<1> QED
    BY <1>4, <1>5, <1>6, StepShows

\* Failing calls are counted and never forgotten.
LEMMA CountsGrow ==
    ASSUME TypeOK, Next
    PROVE  used.faults <= used'.faults /\ used.handlers <= used'.handlers
<1> USE DEF At
<1>0. used \in Counters
    BY DEF TypeOK
<1>1. used \in Counters /\ used.faults \in Nat /\ used.handlers \in Nat
    BY <1>0, BoundAssumption DEF Counters
<1>2. CASE Fault \/ SecondFault
    BY <1>1, <1>2 DEF Fault, SecondFault, Count, Counters
<1>3. CASE used' = used
    BY <1>1, <1>3
<1>4. CASE Count("cancels") \/ Count("claims") \/ Count("restarts")
    BY <1>1, <1>4 DEF Count, Counters
<1>5. CASE Commanding
    BY <1>2, <1>3, <1>5 DEF Commanding, TakeCommand, RefuseCommand, CheckCommand, CommitCommand, Acknowledge,
       WriteProjection, FailBefore, FailAfter
<1>6. CASE Driving
    <2>1. ASSUME NEW row, Commits(row) PROVE used' = used \/ Fault
        BY <2>1 DEF Commits
    <2> QED
        BY <1>2, <1>3, <1>6, <2>1 DEF Driving, DriveRaises, DriveEnds, AdvanceCancels, AdvanceSteps, AdvanceWorks,
           WorkerSucceeds, WorkerBlocks, WorkerFails, WorkerCrashes, WorkerCancelled
<1>7. CASE Cancelling \/ Resting
    BY <1>2, <1>3, <1>7 DEF Cancelling, TakeCancel, Cancel, RecoverCancel, Resting, TakeExternal,
       PublishExternal, StartReady, StartFails, TakeStop
<1>8. CASE \E j \in Jobs : RequestCancel(j) \/ Machine(j)
    BY <1>3, <1>4, <1>8 DEF RequestCancel, Machine, MachineClaims, MachineReleases, MachineOutcome, MachinePublishes
<1>9. CASE Restart
    BY <1>4, <1>9 DEF Restart
<1> QED
    BY <1>3, <1>5, <1>6, <1>7, <1>8, <1>9, CallerFrame, StopFrame DEF Next, Coordinator, Resting

LEMMA HandlersCount ==
    ASSUME TypeOK, TypeOK', Next, ~HandlerFailed'
    PROVE  ~HandlerFailed /\ ~SecondFault
<1>1. used \in Counters /\ used' \in Counters
    BY DEF TypeOK
<1>2. used.handlers \in Nat /\ used'.handlers \in Nat
    BY <1>1, BoundAssumption DEF Counters
<1>3. used.handlers <= used'.handlers
    BY CountsGrow
<1>4. SecondFault => used'.handlers = used.handlers + 1
    BY <1>1 DEF SecondFault, Count, Counters
<1> QED
    BY <1>2, <1>3, <1>4 DEF HandlerFailed

LEMMA FaultsCount ==
    ASSUME TypeOK, TypeOK', Next, Untroubled'
    PROVE  Untroubled /\ ~Fault /\ ~SecondFault
<1>1. used \in Counters
    BY DEF TypeOK
<1>2. used.faults \in Nat /\ used.handlers \in Nat
    BY <1>1, BoundAssumption DEF Counters
<1>3. used.faults <= used'.faults /\ used.handlers <= used'.handlers
    BY CountsGrow
<1>4. Untroubled
    BY <1>2, <1>3 DEF Untroubled
<1>5. (SecondFault => used'.handlers = used.handlers + 1) /\ (Fault => used'.faults = used.faults + 1)
    BY <1>1 DEF Fault, SecondFault, Count, Counters
<1> QED
    BY <1>2, <1>4, <1>5 DEF Untroubled

\* An announcement stays in the mailbox until it is taken.
LEMMA AnnouncedStays ==
    ASSUME TypeOK, NEW k \in Jobs, Announced(k),
           \/ box' = box
           \/ \E x : box' = Append(box, x)
           \/ box # <<>> /\ Head(box) # External(k) /\ box' = Tail(box)
    PROVE  Announced(k)'
<1>1. PICK i \in DOMAIN box : box[i] = External(k)
    BY DEF Announced
<1>2. CASE box' = box
    BY <1>1, <1>2 DEF Announced
<1>3. CASE \E x : box' = Append(box, x)
    BY <1>1, <1>3, AddedLast DEF Announced
<1>4. CASE box # <<>> /\ Head(box) # External(k) /\ box' = Tail(box)
    <2>1. i # 1
        BY <1>1, <1>4, RemovedFirst
    <2>2. i - 1 \in DOMAIN box' /\ box'[i - 1] = box[i]
        BY <1>4, <2>1, RemovedFirst
    <2> QED
        BY <1>1, <2>2 DEF Announced
<1> QED
    BY <1>2, <1>3, <1>4

LEMMA DueStays ==
    ASSUME TypeOK, NEW k \in Jobs, Due(k), rows'[k] = rows[k], proj'[k].row = proj[k].row \/ proj'[k].row = rows'[k],
           unsent \subseteq unsent', stopping => stopping', Announced(k) => Announced(k)'
    PROVE  Told(k)'
BY DEF Told, Due

LEMMA CommandTold ==
    ASSUME TypeOK, Held, RowInv, ProjInv, Commanding, ~Fault, ~SecondFault, Untroubled
    PROVE  (\A k \in Jobs : Told(k)') /\ pc' # "failBefore"
<1> USE DEF At
<1>f. UNCHANGED <<unsent, stopping>> /\ pc \notin {"starting", "absent", "ended", "external"} /\ pc' \notin {"external"}
    BY CommandFrame DEF Commanding, TakeCommand, RefuseCommand, CheckCommand, CommitCommand, Acknowledge,
       WriteProjection, FailBefore, FailAfter, Took, Rests, Goes
<1>r. pc \in Commanded => Job \in Jobs
    BY HeldRequest DEF Job
<1>t. (\A k \in Jobs : Told(k)) /\ pc # "failBefore"
    BY <1>f DEF ProjInv, AllTold
<1>0. ~FailBefore /\ Next
    BY <1>t DEF FailBefore, Next, Coordinator
<1>n. ~PublishExternal /\ ~Restart
    <2>1. pc' # "starting"
        BY DEF Commanding, TakeCommand, RefuseCommand, CheckCommand, CommitCommand, Acknowledge, WriteProjection,
           FailBefore, FailAfter, Rests, Goes
    <2> QED
        BY <1>f, <2>1 DEF PublishExternal, Restart
<1>s. \A k \in Jobs : proj'[k].row \in {proj[k].row, rows'[k]}
    BY <1>0, <1>n, StepShows
<1>1. CASE TakeCommand \/ RefuseCommand \/ CheckCommand
    <2>1. /\ rows' = rows /\ pc \in {"idle", "admit", "checked", "commit"} /\ pc' # "failBefore"
          /\ box' = box \/ (box # <<>> /\ Head(box).tag = "command" /\ box' = Tail(box))
        BY <1>1 DEF TakeCommand, RefuseCommand, CheckCommand, store, Took, Rests, Goes
    <2>2. ASSUME NEW k \in Jobs PROVE Told(k)'
        <3>1. Due(k)
            BY <1>t, <2>1 DEF Told
        <3>2. Announced(k) => Announced(k)'
            <4>1. External(k).tag = "external"
                BY DEF External
            <4>2. Head(box).tag = "command" => Head(box) # External(k)
                BY <4>1
            <4> QED
                BY <2>1, <4>2, AnnouncedStays
        <3> QED
            BY <1>f, <1>s, <2>1, <3>1, <3>2, DueStays
    <2> QED
        BY <2>1, <2>2
<1>2. CASE CommitCommand
    <2>1. pc = "commit" /\ pc' = "acknowledge" /\ box' = box /\ item' = item /\ Job \in Jobs
        BY <1>2, <1>r DEF CommitCommand, Commanded
    <2>2. PICK j \in Jobs : j = Job
        BY <2>1
    <2>3. \A k \in Jobs : k # j => rows'[k] = rows[k]
        BY <1>2, <2>2, Written DEF CommitCommand, Put, Job
    <2>4. ASSUME NEW k \in Jobs PROVE Told(k)'
        <3>1. CASE k = j
            BY <2>1, <2>2, <3>1 DEF Told, Job
        <3>2. CASE k # j
            <4>1. Due(k)
                BY <1>t, <2>1 DEF Told
            <4>2. Announced(k) => Announced(k)'
                BY <2>1, AnnouncedStays
            <4> QED
                BY <1>f, <1>s, <2>3, <3>2, <4>1, <4>2, DueStays
        <3> QED
            BY <3>1, <3>2
    <2> QED
        BY <2>1, <2>4
<1>3. CASE Acknowledge \/ WriteProjection \/ FailAfter
    <2>1. pc \in {"acknowledge", "write", "failAfter"} /\ box' = box /\ pc' # "failBefore" /\ Job \in Jobs
        BY <1>3, <1>r DEF Acknowledge, WriteProjection, FailAfter, Goes, Rests, Commanded
    <2>2. PICK j \in Jobs : j = Job
        BY <2>1
    <2>3. \A k \in Jobs : k # j => rows'[k] = rows[k]
        <3>1. CASE FailAfter
            BY <2>2, <3>1, Written DEF FailAfter, Put
        <3>2. CASE Acknowledge \/ WriteProjection
            BY <3>2 DEF Acknowledge, WriteProjection, store
        <3> QED
            BY <1>3, <3>1, <3>2
    <2>4. rows'[j] = proj'[j].row \/ (pc' = "failAfter" /\ item' = item)
        <3>1. CASE Acknowledge \/ WriteProjection
            <4>1. rows[j] = snap /\ rows' = rows
                BY <2>2, <3>1 DEF Acknowledge, WriteProjection, RowInv, SnapFits, store
            <4>2. proj' = Published(j, snap) \/ (pc' = "failAfter" /\ item' = item)
                BY <2>2, <3>1 DEF Acknowledge, WriteProjection, Goes, Job
            <4> QED
                BY <4>1, <4>2, ProjectedAt
        <3>2. CASE FailAfter
            <4>1. PICK row : rows' = [rows EXCEPT ![j] = row] /\ proj' = Published(j, row)
                BY <2>2, <3>2 DEF FailAfter, Put
            <4>2. rows'[j] = row
                BY <4>1, Written
            <4>3. Published(j, row)[j].row = row
                BY ProjectedAt
            <4> QED
                BY <4>1, <4>2, <4>3
        <3> QED
            BY <1>3, <3>1, <3>2
    <2>5. ASSUME NEW k \in Jobs PROVE Told(k)'
        <3>1. CASE k = j
            BY <2>2, <2>4, <3>1 DEF Told, Due, Job
        <3>2. CASE k # j
            <4>1. Due(k)
                BY <1>t, <2>1, <2>2, <3>2 DEF Told
            <4>2. Announced(k) => Announced(k)'
                BY <2>1, AnnouncedStays
            <4> QED
                BY <1>f, <1>s, <2>3, <3>2, <4>1, <4>2, DueStays
        <3> QED
            BY <3>1, <3>2
    <2> QED
        BY <2>1, <2>5
<1> QED
    BY <1>0, <1>1, <1>2, <1>3 DEF Commanding

LEMMA ThreadTold ==
    ASSUME TypeOK, Held, RowInv, ProjInv, Driving \/ Cancelling, ~Fault, ~SecondFault, Untroubled
    PROVE  (\A k \in Jobs : Told(k)') /\ pc' # "failBefore"
<1> USE DEF At
<1>f. /\ UNCHANGED <<unsent, stopping>> /\ pc \in {"drive", "work", "idle", "cancel", "recover"}
      /\ pc' \in {"drive", "work", "failAfter", "idle", "cancel", "recover"}
    BY DriveFrame, CancelFrame, DriveMoves, CancelMoves
<1>t. \A k \in Jobs : Due(k)
    BY <1>f DEF ProjInv, AllTold, Told
<1>s. \A k \in Jobs : proj'[k].row \in {proj[k].row, rows'[k]}
    BY <1>f, StepShows DEF PublishExternal, Restart, Next, Coordinator
<1>1. CASE Driving
    <2>1. box' = box
        BY <1>1, DriveFrame
    <2>2. \A k \in Jobs : rows'[k] = rows[k] \/ rows'[k] = proj'[k].row
        <3>1. CASE rows' # rows
            <4>1. PICK row \in Rows : Commits(row) /\ Job \in Jobs
                BY <1>1, <3>1, DriveGrows
            <4>2. PICK j \in Jobs : j = Job
                BY <4>1
            <4>3. rows' = [rows EXCEPT ![j] = row] /\ proj' = Published(j, row)
                BY <4>1, <4>2 DEF Commits, Put
            <4> QED
                BY <4>3, Written, ProjectedAt
        <3> QED
            BY <3>1
    <2>3. ASSUME NEW k \in Jobs PROVE Told(k)'
        <3>1. Announced(k) => Announced(k)'
            BY <2>1, AnnouncedStays
        <3>2. CASE rows'[k] = proj'[k].row
            BY <3>2 DEF Told, Due
        <3>3. CASE rows'[k] = rows[k]
            BY <1>f, <1>s, <1>t, <3>1, <3>3, DueStays
        <3> QED
            BY <2>2, <3>2, <3>3
    <2> QED
        BY <1>f, <2>3
<1>2. CASE Cancelling
    <2>1. \A k \in Jobs : rows'[k] = rows[k] \/ rows'[k] = proj'[k].row
        <3>1. CASE Cancel
            <4>1. PICK j \in Jobs : j = item.job
                BY <3>1, HeldJob DEF Cancel
            <4>2. \/ rows' = rows
                  \/ /\ rows' = [rows EXCEPT ![j] = Moved(snap, "CANCELLED", "none", {})]
                     /\ proj' = Shown(j, Moved(snap, "CANCELLED", "none", {}))
                BY <3>1, <4>1 DEF Cancel, Put
            <4>3. CASE proj' = Shown(j, Moved(snap, "CANCELLED", "none", {}))
                <5>1. proj'[j].row = Moved(snap, "CANCELLED", "none", {})
                    BY <4>3, ProjectedAt
                <5> QED
                    BY <4>2, <5>1, Written
            <4> QED
                BY <4>2, <4>3
        <3>2. CASE TakeCancel \/ RecoverCancel
            BY <3>2 DEF TakeCancel, RecoverCancel, store
        <3> QED
            BY <1>2, <3>1, <3>2 DEF Cancelling
    <2>2. box' = box \/ (box # <<>> /\ Head(box).tag = "cancel" /\ box' = Tail(box))
        BY <1>2 DEF Cancelling, TakeCancel, Cancel, RecoverCancel, Took
    <2>3. ASSUME NEW k \in Jobs PROVE Told(k)'
        <3>1. Announced(k) => Announced(k)'
            <4>1. External(k).tag = "external"
                BY DEF External
            <4>2. Head(box).tag = "cancel" => Head(box) # External(k)
                BY <4>1
            <4> QED
                BY <2>2, <4>2, AnnouncedStays
        <3>2. CASE rows'[k] = proj'[k].row
            BY <3>2 DEF Told, Due
        <3>3. CASE rows'[k] = rows[k]
            BY <1>f, <1>s, <1>t, <3>1, <3>3, DueStays
        <3> QED
            BY <2>1, <3>2, <3>3
    <2> QED
        BY <1>f, <2>3
<1> QED
    BY <1>1, <1>2

LEMMA RestTold ==
    ASSUME TypeOK, Held, RowInv, ProjInv, Resting, ~Fault, ~SecondFault, Untroubled, pc' \notin {"absent", "ended"}
    PROVE  (\A k \in Jobs : Told(k)') /\ pc' # "failBefore"
<1> USE DEF At
<1>f. UNCHANGED <<unsent, stopping>> /\ pc' # "failBefore"
    BY RestFrame, RestMoves
<1>1. CASE StartReady
    BY <1>f, <1>1 DEF StartReady, Told, Due
<1>2. CASE TakeExternal
    <2>1. pc = "idle" /\ box # <<>> /\ box' = Tail(box) /\ UNCHANGED <<rows, proj>>
        BY <1>2 DEF TakeExternal, Took, store, memory
    <2>2. pc' = "external" /\ item' = Head(box) /\ snap' = rows[Head(box).job]
        BY <1>2 DEF TakeExternal
    <2>3. Head(box) = External(Head(box).job)
        BY <1>2, TakenItem, ItemKinds DEF TakeExternal
    <2>4. ASSUME NEW k \in Jobs PROVE Told(k)'
        <3>1. Due(k)
            BY <2>1 DEF ProjInv, AllTold, Told
        <3>2. CASE k = Head(box).job
            BY <2>1, <2>2, <3>2 DEF Told
        <3>3. CASE k # Head(box).job
            <4>1. Head(box) # External(k)
                BY <2>3, <3>3 DEF External
            <4>2. Announced(k) => Announced(k)'
                BY <2>1, <4>1, AnnouncedStays
            <4> QED
                BY <1>f, <2>1, <3>1, <4>2, DueStays
        <3> QED
            BY <3>2, <3>3
    <2> QED
        BY <1>f, <2>4
<1>3. CASE PublishExternal
    <2>1. pc = "external" /\ box' = box /\ rows' = rows /\ snap \in Rows
        BY <1>3 DEF PublishExternal, store, TypeOK
    <2>2. PICK j \in Jobs : j = item.job
        BY <2>1, HeldJob
    <2>3. proj' = IF Newer(snap, proj[j]) THEN Shown(j, snap) ELSE proj
        BY <1>3, <2>2 DEF PublishExternal
    <2>4. \A k \in Jobs : k # j => proj'[k] = proj[k]
        BY <2>3, ProjectedAt
    <2>5. ASSUME NEW k \in Jobs PROVE Told(k)'
        <3>1. Announced(k) => Announced(k)'
            BY <2>1, AnnouncedStays
        <3>2. Told(k)
            BY <2>1 DEF ProjInv, AllTold
        <3>3. CASE k # j
            <4>1. Due(k)
                BY <2>1, <2>2, <3>2, <3>3 DEF Told
            <4> QED
                BY <1>f, <2>1, <2>4, <3>1, <3>3, <4>1, DueStays
        <3>4. CASE k = j
            <4>1. /\ Behind(j) /\ snap.rev <= rows[j].rev /\ (snap.rev = rows[j].rev => snap = rows[j])
                  /\ rows[j].state = "NONE" => rows[j].rev = 0
                BY <2>1, <2>2, FixedRows DEF ProjInv, ReadFits, RowInv, RowFits
            <4>2. snap.rev \in Nat /\ rows[j].rev \in Nat /\ proj[j].row.rev \in Nat
                BY DEF TypeOK, Rows, Projections
            <4>3. CASE Newer(snap, proj[j])
                <5>1. proj'[j].row = snap
                    BY <2>3, <4>3, ProjectedAt
                <5>0. Told(j)
                    BY <3>2, <3>4
                <5>2. rows[j] = snap \/ rows[j] = proj[j].row \/ j \in unsent \/ stopping \/ Announced(j)
                    BY <2>1, <5>0 DEF Told, Due
                <5>3. rows[j] = proj[j].row => rows[j] = snap
                    BY <4>1, <4>2, <4>3 DEF Newer
                <5> QED
                    BY <1>f, <2>1, <3>1, <3>4, <5>1, <5>2, <5>3 DEF Told, Due
            <4>4. CASE ~Newer(snap, proj[j])
                <5>1. proj' = proj
                    BY <2>3, <4>4
                <5>2. rows[j] = snap => rows[j] = proj[j].row
                    BY <4>1, <4>2, <4>4 DEF Newer, Behind
                <5> QED
                    BY <1>f, <2>1, <3>1, <3>2, <3>4, <5>1, <5>2 DEF Told, Due
            <4> QED
                BY <4>3, <4>4
        <3> QED
            BY <3>3, <3>4
    <2> QED
        BY <1>f, <2>5
<1> QED
    BY <1>1, <1>2, <1>3 DEF Resting, StartFails, TakeStop

LEMMA OutsideTold ==
    ASSUME TypeOK, Held, RowInv, ProjInv, Untroubled, pc \notin {"starting", "absent", "ended"},
           \/ \E r \in Requests : Caller(r)
           \/ \E j \in Jobs : RequestCancel(j) \/ Machine(j)
           \/ StopBegins \/ StopReturns \/ StopTimesOut
    PROVE  (\A k \in Jobs : Told(k)') /\ pc' # "failBefore"
<1>f. UNCHANGED <<pc, item, snap>>
    BY CallerFrame, RequestCancelFrame, MachineFrame, StopFrame
<1>t. (\A k \in Jobs : Told(k)) /\ pc # "failBefore"
    BY DEF ProjInv, AllTold
<1>1. ASSUME NEW k \in Jobs, rows'[k] = rows[k], proj'[k].row = proj[k].row,
             k \in unsent => k \in unsent' \/ stopping \/ Announced(k)', stopping => stopping',
             box' = box \/ \E x : box' = Append(box, x)
      PROVE  Told(k)'
    <2>1. Announced(k) => Announced(k)'
        BY <1>1, AnnouncedStays
    <2> QED
        BY <1>1, <1>f, <1>t, <2>1 DEF Told, Due, Job
<1>2. CASE \E r \in Requests : Caller(r)
    <2>1. UNCHANGED <<rows, proj, unsent, stopping>>
        BY <1>2, CallerFrame
    <2>2. box' = box \/ \E x : box' = Append(box, x)
        BY <1>2 DEF Caller, Submit, Deadline, WaitEnds, WaitExpires
    <2> QED
        BY <1>1, <1>f, <1>t, <2>1, <2>2
<1>3. CASE \E j \in Jobs : RequestCancel(j)
    <2>1. PICK j \in Jobs : RequestCancel(j)
        BY <1>3
    <2>2. UNCHANGED <<rows, unsent, stopping>>
        BY <2>1, RequestCancelFrame
    <2>3. box' = Append(box, Wake(j)) /\ proj' = [proj EXCEPT ![j].asked = TRUE]
        BY <2>1 DEF RequestCancel
    <2>4. \A k \in Jobs : proj'[k].row = proj[k].row
        BY <2>3, AskedAt
    <2> QED
        BY <1>1, <1>f, <1>t, <2>2, <2>3, <2>4
<1>4. CASE \E j \in Jobs : Machine(j)
    <2>1. PICK j \in Jobs : Machine(j)
        BY <1>4
    <2>2. UNCHANGED <<proj, stopping>>
        BY <2>1, MachineFrame
    <2>3. CASE MachineClaims(j) \/ MachineReleases(j)
        BY <1>1, <1>f, <1>t, <2>2, <2>3 DEF MachineClaims, MachineReleases, store
    <2>4. CASE MachineOutcome(j)
        <3>1. j \in unsent' /\ unsent \subseteq unsent' /\ box' = box
            BY <2>4 DEF MachineOutcome
        <3>2. \A k \in Jobs : k # j => rows'[k] = rows[k]
            BY <2>4, Written DEF MachineOutcome, Put
        <3>3. Told(j)'
            BY <3>1 DEF Told, Due
        <3> QED
            BY <1>1, <1>f, <1>t, <2>2, <3>1, <3>2, <3>3
    <2>5. CASE MachinePublishes(j)
        <3>1. /\ rows' = rows /\ \A k \in unsent : k # j => k \in unsent'
              /\ box' = IF Accepting THEN Append(box, External(j)) ELSE box
            BY <2>5 DEF MachinePublishes, store
        <3>2. stopping \/ Announced(j)'
            <4>1. CASE ~stopping
                <5>1. box' = Append(box, External(j))
                    BY <3>1, <4>1 DEF Accepting, Alive
                <5> QED
                    BY <5>1, AddedLast DEF Announced
            <4> QED
                BY <4>1
        <3> QED
            BY <1>1, <1>f, <1>t, <2>2, <3>1, <3>2
    <2> QED
        BY <2>1, <2>3, <2>4, <2>5 DEF Machine
<1>5. CASE StopBegins
    BY <1>5, <1>f, <1>t DEF StopBegins, Told, Due
<1>6. CASE StopReturns
    BY <1>6 DEF StopReturns
<1>7. CASE StopTimesOut
    <2>1. UNCHANGED <<rows, proj, unsent, stopping, box>>
        BY <1>7, StopFrame DEF StopTimesOut
    <2> QED
        BY <1>1, <1>f, <1>t, <2>1
<1> QED
    BY <1>2, <1>3, <1>4, <1>5, <1>6, <1>7

LEMMA ReadStep ==
    ASSUME TypeOK, TypeOK', Held, RowInv, ProjInv, Next
    PROVE  ReadFits'
<1> USE DEF At
<1>1. CASE pc' = "external" /\ pc = "external"
    <2>0. ~Coordinator /\ ~Restart
        <3>1. ~Commanding
            BY <1>1 DEF Commanding, TakeCommand, RefuseCommand, CheckCommand, CommitCommand, Acknowledge, WriteProjection,
               FailBefore, FailAfter, Took
        <3>2. ~Driving /\ ~Cancelling
            BY <1>1, DriveMoves, CancelMoves
        <3>3. ~TakeExternal /\ ~PublishExternal /\ ~StartReady /\ ~StartFails /\ ~TakeStop /\ ~Restart
            BY <1>1 DEF TakeExternal, PublishExternal, StartReady, StartFails, TakeStop, Took, Rests, Restart
        <3> QED
            BY <3>1, <3>2, <3>3 DEF Coordinator
    <2>1. UNCHANGED <<item, snap>>
        BY <2>0, CallerFrame, RequestCancelFrame, MachineFrame, StopFrame DEF Next
    <2>2. PICK j \in Jobs : j = item.job
        BY <1>1, HeldJob
    <2>3. Grows(j) /\ snap.rev \in Nat /\ rows[j].rev \in Nat /\ rows'[j].rev \in Nat
        BY RowsGrow DEF TypeOK, Rows
    <2>4. /\ snap.state = "NONE" => snap.rev = 0
          /\ snap.rev <= rows[j].rev /\ (snap.rev = rows[j].rev => snap = rows[j])
        BY <1>1, <2>2 DEF ProjInv, ReadFits
    <2>5. rows'[j] = rows[j] \/ rows'[j].rev = rows[j].rev + 1
        <3>1. ASSUME NEW k \in Jobs, Machine(k) PROVE rows' = rows \/ rows[k].state \in OwnedStates
            BY <3>1 DEF Machine, MachineClaims, MachineReleases, MachineOutcome, MachinePublishes, store, RowInv, RowFits
        <3>2. ASSUME NEW k \in Jobs, Machine(k), k # j PROVE rows'[j] = rows[j]
            BY <3>2, Written DEF Machine, MachineClaims, MachineReleases, MachineOutcome, MachinePublishes, store, Put
        <3>3. ASSUME Machine(j) PROVE rows'[j] = rows[j] \/ rows'[j].rev = rows[j].rev + 1
            BY <2>3, <3>1, <3>3, FixedRows DEF Grows, OwnedStates
        <3> QED
            BY <2>0, <3>2, <3>3, CallerFrame, RequestCancelFrame, StopFrame DEF Next
    <2>6. snap.rev <= rows'[j].rev /\ (snap.rev = rows'[j].rev => snap = rows'[j])
        <3>1. CASE rows'[j] = rows[j]
            BY <2>4, <3>1
        <3>2. CASE rows'[j].rev = rows[j].rev + 1
            BY <2>3, <2>4, <3>2
        <3> QED
            BY <2>5, <3>1, <3>2
    <2> QED
        BY <2>1, <2>2, <2>4, <2>6 DEF ReadFits
<1>2. CASE pc' = "external" /\ pc # "external"
    <2>1. TakeExternal
        BY <1>2, CallerFrame, RequestCancelFrame, MachineFrame, StopFrame, DriveMoves, CancelMoves DEF Next, Coordinator,
           Commanding, TakeCommand, RefuseCommand, CheckCommand, CommitCommand, Acknowledge, WriteProjection, FailBefore,
           FailAfter, PublishExternal, StartReady, StartFails, TakeStop, Rests, Goes, Restart
    <2>2. rows' = rows /\ item' = Head(box) /\ snap' = rows[Head(box).job] /\ Head(box).job \in Jobs
        BY <1>2, <2>1, TakenItem, ItemKinds DEF TakeExternal, store, Rests
    <2>3. rows[Head(box).job].rev \in Nat
        BY <2>2 DEF TypeOK, Rows
    <2> QED
        BY <2>2, <2>3, FixedRows DEF ReadFits, RowInv, RowFits
<1>3. CASE pc' # "external"
    BY <1>3 DEF ReadFits
<1> QED
    BY <1>1, <1>2, <1>3

LEMMA ProjStep ==
    ASSUME TypeOK, TypeOK', Held, RowInv, RowInv', ProjInv, Next
    PROVE  ProjInv'
<1> USE DEF At
<1>1. CASE Restart
    <2>1. proj' = [j \in Jobs |-> NoProj] /\ pc' = "starting"
        BY <1>1 DEF Restart
    <2>2. ASSUME NEW j \in Jobs PROVE Behind(j)'
        BY <2>1, FixedRows DEF Behind, NoProj
    <2> QED
        BY <2>1, <2>2 DEF ProjInv, ReadFits, AllTold
<1>2. CASE ~Restart
    <2>1. \A j \in Jobs : Behind(j)'
        BY <1>2, BehindStep
    <2>2. AllTold'
        <3> SUFFICES ASSUME Untroubled', pc' \notin {"starting", "absent", "ended"}
                     PROVE  (\A j \in Jobs : Told(j)') /\ pc' # "failBefore"
            BY DEF AllTold
        <3>1. Untroubled /\ ~Fault /\ ~SecondFault
            BY FaultsCount
        <3>2. CASE Coordinator
            BY <3>1, <3>2, CommandTold, ThreadTold, RestTold DEF Coordinator, Resting
        <3>3. CASE ~Coordinator
            <4>1. \/ \E r \in Requests : Caller(r)
                  \/ \E j \in Jobs : RequestCancel(j) \/ Machine(j)
                  \/ StopBegins \/ StopReturns \/ StopTimesOut
                BY <1>2, <3>3 DEF Next
            <4>2. pc' = pc
                BY <4>1, CallerFrame, RequestCancelFrame, MachineFrame, StopFrame
            <4> QED
                BY <3>1, <4>1, <4>2, OutsideTold
        <3> QED
            BY <3>2, <3>3
    <2>3. ASSUME pc' = "starting" PROVE UNCHANGED <<pc, proj>>
        <3>1. ~Coordinator
            BY <2>3, DriveMoves, CancelMoves, RestMoves DEF Coordinator, Resting, Commanding, TakeCommand, RefuseCommand,
               CheckCommand, CommitCommand, Acknowledge, WriteProjection, FailBefore, FailAfter, Rests, Goes
        <3>2. ~\E j \in Jobs : RequestCancel(j)
            BY <2>3 DEF RequestCancel, Serving, thread
        <3> QED
            BY <1>2, <3>1, <3>2, CallerFrame, MachineFrame, StopFrame DEF Next
    <2> QED
        BY <2>1, <2>2, <2>3, ReadStep DEF ProjInv
<1> QED
    BY <1>1, <1>2

\* A pending cancellation in a projection: who may show it and who may take it away.
LEMMA PublishedAsked ==
    ASSUME TypeOK, NEW j \in Jobs, NEW row, NEW k \in Jobs
    PROVE  /\ Published(j, row)[k].asked => proj[k].asked
           /\ proj[k].asked /\ ~Published(j, row)[k].asked => k = j /\ Cancelled(Published(j, row)[k].row)
<1>1. proj \in [Jobs -> Projections] /\ proj[j] \in Projections /\ proj[k] \in Projections
    BY DEF TypeOK
<1>2. CASE k # j
    BY <1>1, <1>2 DEF Published, Projections
<1>3. CASE k = j
    BY <1>1, <1>3 DEF Published, Projections
<1> QED
    BY <1>2, <1>3

LEMMA ShownAsked ==
    ASSUME TypeOK, NEW j \in Jobs, NEW row, proj' = Shown(j, row) \/ proj' = [proj EXCEPT ![j].asked = FALSE]
    PROVE  ~proj'[j].asked /\ \A k \in Jobs : k # j => proj'[k] = proj[k]
<1>1. proj \in [Jobs -> Projections]
    BY DEF TypeOK
<1>2. CASE proj' = Shown(j, row)
    BY <1>1, <1>2 DEF Shown, Projections
<1>3. CASE proj' = [proj EXCEPT ![j].asked = FALSE]
    BY <1>1, <1>3 DEF Projections
<1> QED
    BY <1>2, <1>3

Unasked(k) ==
    /\ proj'[k].asked => proj[k].asked \/ Cancellable(proj[k].row.state)
    /\ proj[k].asked /\ ~proj'[k].asked =>
         \/ Cancelled(proj'[k].row) \/ Resolving(k) \/ SecondFault \/ StartReady
         \/ Newer(snap, proj[k]) /\ proj'[k].row = snap

LEMMA AskedStep ==
    ASSUME TypeOK, Held, Next, ~Restart, NEW k \in Jobs
    PROVE  Unasked(k)
<1> USE DEF At
<1>t. proj \in [Jobs -> Projections] /\ proj[k] \in Projections
    BY DEF TypeOK
<1>1. CASE proj' = proj
    BY <1>1 DEF Unasked
<1>2. ASSUME NEW j \in Jobs, NEW row, proj' = Published(j, row) PROVE Unasked(k)
    BY <1>2, PublishedAsked DEF Unasked
<1>3. CASE Commanding
    <2>1. CASE SecondFault
        <3>1. FailBefore \/ FailAfter \/ proj' = proj \/ \E j \in Jobs, row \in Rows : proj' = Published(j, row)
            <4>1. Acknowledge \/ WriteProjection => Job \in Jobs /\ snap \in Rows
                BY HeldRequest DEF Acknowledge, WriteProjection, Commanded, Job, TypeOK
            <4> QED
                BY <1>3, <4>1 DEF Commanding, TakeCommand, RefuseCommand, CheckCommand, CommitCommand, Acknowledge,
                   WriteProjection, memory, Job
        <3>2. CASE FailBefore \/ FailAfter
            <4>1. PICK j \in Jobs : j = Job
                BY <3>2, HeldRequest DEF FailBefore, FailAfter, Commanded, Job
            <4>2. \/ \E row : proj' \in {Published(j, row), Shown(j, row), [proj EXCEPT ![j].row = row]}
                  \/ proj' = proj
                BY <3>2, <4>1 DEF FailBefore, FailAfter
            <4>3. ASSUME NEW row, proj' = [proj EXCEPT ![j].row = row] PROVE Unasked(k)
                <5>1. proj'[k].asked = proj[k].asked
                    BY <1>t, <4>3 DEF Projections
                <5> QED
                    BY <5>1 DEF Unasked
            <4>4. ASSUME NEW row, proj' = Shown(j, row) PROVE proj'[k].asked => proj[k].asked
                BY <4>4, ShownAsked
            <4> QED
                BY <1>1, <1>2, <2>1, <4>2, <4>3, <4>4 DEF Unasked
        <3> QED
            BY <1>1, <1>2, <3>1, <3>2
    <2>2. CASE ~SecondFault
        <3>1. Acknowledge \/ WriteProjection \/ FailBefore \/ FailAfter => Job \in Jobs
            BY HeldRequest DEF Acknowledge, WriteProjection, FailBefore, FailAfter, Commanded, Job
        <3>2. proj' = proj \/ \E j \in Jobs : \E row : proj' = Published(j, row)
            BY <1>3, <2>2, <3>1 DEF Commanding, TakeCommand, RefuseCommand, CheckCommand, CommitCommand, Acknowledge,
               WriteProjection, FailBefore, FailAfter, memory, Job
        <3> QED
            BY <1>1, <1>2, <3>2
    <2> QED
        BY <2>1, <2>2
<1>4. CASE Driving
    <2>1. Job \in Jobs
        BY <1>4, DriveMoves, HeldRequest DEF Commanded, Job
    <2>2. ASSUME NEW row, Commits(row) PROVE Unasked(k)
        BY <1>1, <1>2, <2>1, <2>2 DEF Commits
    <2> QED
        BY <1>1, <1>4, <2>2 DEF Driving, DriveRaises, DriveEnds, AdvanceCancels, AdvanceSteps, AdvanceWorks,
           WorkerSucceeds, WorkerBlocks, WorkerFails, WorkerCrashes, WorkerCancelled, memory
<1>5. CASE Cancelling
    <2>1. PICK j \in Jobs : Resolving(j) /\ (proj' = proj \/ \E row : proj' \in {Shown(j, row), [proj EXCEPT ![j].asked = FALSE]})
        <3>1. CASE TakeCancel
            <4>1. pc = "idle" /\ box # <<>> /\ Head(box).job \in Jobs /\ Head(box) = Wake(Head(box).job)
                BY <3>1, TakenItem, ItemKinds DEF TakeCancel
            <4>2. PICK j \in Jobs : j = Head(box).job
                BY <4>1
            <4>3. proj' = proj \/ proj' = [proj EXCEPT ![j].asked = FALSE]
                BY <3>1, <4>2 DEF TakeCancel
            <4>4. Resolving(j)
                BY <4>1, <4>2 DEF Resolving
            <4> QED
                BY <4>3, <4>4
        <3>2. CASE Cancel \/ RecoverCancel
            <4>1. PICK j \in Jobs : item = Wake(j)
                BY <3>2 DEF Cancel, RecoverCancel, Held
            <4>2. item.job = j
                BY <4>1 DEF Wake
            <4>3. proj' = proj \/ \E row : proj' \in {Shown(j, row), [proj EXCEPT ![j].asked = FALSE]}
                BY <3>2, <4>2 DEF Cancel, RecoverCancel, Recovered
            <4> QED
                BY <4>1, <4>3 DEF Resolving
        <3> QED
            BY <1>5, <3>1, <3>2 DEF Cancelling
    <2>2. CASE k # j
        <3>1. proj'[k] = proj[k]
            BY <2>1, <2>2, ShownAsked
        <3> QED
            BY <3>1 DEF Unasked
    <2>3. CASE k = j
        <3>1. proj' = proj \/ ~proj'[j].asked
            BY <2>1, ShownAsked
        <3> QED
            BY <1>1, <2>1, <2>3, <3>1 DEF Unasked
    <2> QED
        BY <2>2, <2>3
<1>6. CASE PublishExternal
    <2>1. PICK j \in Jobs : j = item.job
        BY <1>6, HeldJob DEF PublishExternal
    <2>2. proj' = proj \/ (Newer(snap, proj[j]) /\ proj' = Shown(j, snap))
        BY <1>6, <2>1 DEF PublishExternal
    <2>3. CASE Newer(snap, proj[j]) /\ proj' = Shown(j, snap)
        <3>1. CASE k # j
            <4>1. proj'[k] = proj[k]
                BY <2>3, <3>1, ShownAsked
            <4> QED
                BY <4>1 DEF Unasked
        <3>2. CASE k = j
            <4>1. ~proj'[j].asked /\ proj'[j].row = snap
                BY <2>3, ShownAsked, ProjectedAt
            <4> QED
                BY <2>3, <3>2, <4>1 DEF Unasked
        <3> QED
            BY <3>1, <3>2
    <2> QED
        BY <1>1, <2>2, <2>3
<1>7. CASE StartReady
    <2>1. ~proj'[k].asked
        BY <1>7 DEF StartReady
    <2> QED
        BY <1>7, <2>1 DEF Unasked
<1>8. CASE \E j \in Jobs : RequestCancel(j)
    <2>1. PICK j \in Jobs : RequestCancel(j)
        BY <1>8
    <2>2. Cancellable(proj[j].row.state) /\ proj' = [proj EXCEPT ![j].asked = TRUE]
        BY <2>1 DEF RequestCancel
    <2>3. (k # j => proj'[k] = proj[k]) /\ (k = j => proj'[k].asked)
        BY <1>t, <2>2 DEF Projections
    <2> QED
        BY <2>2, <2>3 DEF Unasked
<1>9. CASE TakeExternal \/ StartFails \/ TakeStop
    BY <1>1, <1>9 DEF TakeExternal, StartFails, TakeStop, memory
<1> QED
    BY <1>1, <1>3, <1>4, <1>5, <1>6, <1>7, <1>8, <1>9, CallerFrame, MachineFrame, StopFrame DEF Next, Coordinator

\* Only a job that is shown has a pending cancellation.
AskedFits == \A j \in Jobs : proj[j].asked => proj[j].row.state # "NONE"

LEMMA AskedFitsStep ==
    ASSUME TypeOK, TypeOK', Held, RowInv, RowInv', ProjInv, AskedFits, Next
    PROVE  AskedFits'
<1> SUFFICES ASSUME NEW k \in Jobs, proj'[k].row.state = "NONE" PROVE ~proj'[k].asked
    BY DEF AskedFits
<1>1. CASE Restart
    BY <1>1 DEF Restart, NoProj
<1>2. CASE PublishExternal
    <2>1. PICK j \in Jobs : j = item.job
        BY <1>2, HeldJob DEF PublishExternal, At
    <2>2. proj' = proj \/ proj' = Shown(j, snap)
        BY <1>2, <2>1 DEF PublishExternal
    <2> QED
        BY <2>2, ShownAsked DEF AskedFits
<1>3. CASE ~Restart /\ ~PublishExternal
    <2>1. proj[k].row.state = "NONE"
        <3>1. CASE proj'[k].row = proj[k].row
            BY <3>1
        <3>2. CASE proj'[k].row = rows'[k]
            <4>0. rows \in [Jobs -> Rows] /\ proj \in [Jobs -> Projections]
                BY DEF TypeOK
            <4>1. rows[k].rev \in Nat /\ proj[k].row.rev \in Nat
                BY <4>0 DEF Rows, Projections
            <4>2. rows'[k].state = "NONE" /\ rows'[k].rev = 0
                BY <3>2, FixedRows, SMTT(30) DEF RowInv, RowFits
            <4>3. rows[k] = rows'[k]
                BY <4>1, <4>2, RowsGrow, FixedRows DEF Grows
            <4> QED
                BY <4>1, <4>2, <4>3 DEF ProjInv, Behind
        <3> QED
            BY <1>3, <3>1, <3>2, StepShows
    <2>2. ~proj[k].asked /\ ~Cancellable(proj[k].row.state)
        BY <2>1 DEF AskedFits, Cancellable
    <2> QED
        BY <1>3, <2>2, AskedStep DEF Unasked
<1> QED
    BY <1>1, <1>2, <1>3

LEMMA StatusStep ==
    ASSUME TypeOK, TypeOK', Held, RowInv, RowInv', ProjInv, AskedFits, Next, pc' # "starting", NEW k \in Jobs
    PROVE  /\ proj'[k].row.rev >= proj[k].row.rev
           /\ proj[k].asked /\ ~proj'[k].asked =>
                \/ proj'[k].row.rev > proj[k].row.rev \/ Cancelled(proj'[k].row)
                \/ Resolving(k) \/ HandlerFailed'
<1>1. ~Restart
    BY DEF Restart
<1>2. proj'[k].row.rev >= proj[k].row.rev
    BY <1>1, BehindStep
<1>3. ASSUME proj[k].asked PROVE ~StartReady
    BY <1>3 DEF StartReady, ProjInv, NoProj, At
<1>4. SecondFault => HandlerFailed'
    <2>1. used \in Counters
        BY DEF TypeOK
    <2>2. used.handlers \in Nat
        BY <2>1, BoundAssumption DEF Counters
    <2> QED
        BY <2>1, <2>2 DEF SecondFault, Count, Counters, HandlerFailed
<1>5. ASSUME proj[k].asked, Newer(snap, proj[k]), proj'[k].row = snap PROVE proj'[k].row.rev > proj[k].row.rev
    BY <1>5 DEF Newer, AskedFits
<1> QED
    BY <1>1, <1>2, <1>3, <1>4, <1>5, AskedStep DEF Unasked

-----------------------------------------------------------------------------
(* No job is left in flight *)

\* A job in flight whose drive raised may always fail.
LEMMA FailableInFlight ==
    ASSUME NEW j \in Jobs, RowFits(j), rows[j].state \in InFlight
    PROVE  Allowed(j, rows[j], "FAILED")
<1>1. CASE Mode[j] = "check"
    <2>1. rows[j].state \in {"QUEUED", "VALIDATING_GCODE"}
        BY <1>1 DEF RowFits, CheckStates, InFlight
    <2>2. <<rows[j].state, "FAILED">> \in CheckProgression
        BY <2>1 DEF CheckProgression
    <2> QED
        BY <1>1, <2>2 DEF Allowed
<1>2. CASE Mode[j] # "check"
    BY <1>2 DEF Allowed
<1> QED
    BY <1>1, <1>2

LEMMA CommandOrphans ==
    ASSUME ~SecondFault, TypeOK, Held, RowInv, OrphanInv, Commanding
    PROVE  OrphanInv'
<1> USE DEF At
<1>r. pc \in Commanded => Job \in Jobs /\ item.tag = "command"
    BY HeldRequest DEF Job, Command
<1>1. CASE TakeCommand
    <2>1. pc = "idle" /\ rows' = rows /\ Head(box).tag = "command" /\ Head(box) \in Items
        BY <1>1, TakenItem DEF TakeCommand, Took, store
    <2>2. \A k \in Jobs : rows[k].state \notin InFlight
        BY <2>1 DEF OrphanInv, AllDriven, Busy
    <2>3. pc' = "idle" \/ (pc' = "admit" /\ item' = Head(box))
        BY <1>1 DEF TakeCommand, Rests
    <2>4. Head(box).req.job \in Jobs
        BY <2>1, ItemKinds
    <2> QED
        BY <2>1, <2>2, <2>3, <2>4 DEF OrphanInv, AllDriven, Early, Job
<1>2. CASE RefuseCommand \/ CheckCommand
    <2>1. rows' = rows /\ pc \in Early
        BY <1>2 DEF RefuseCommand, CheckCommand, store, Early
    <2>2. \A k \in Jobs : rows[k].state \notin InFlight
        BY <2>1 DEF OrphanInv, AllDriven, Busy, Early
    <2>3. pc' = "idle" \/ item' = item
        BY <1>2 DEF RefuseCommand, CheckCommand, Rests, Goes
    <2> QED
        BY <1>r, <2>1, <2>2, <2>3 DEF OrphanInv, AllDriven, Early, Commanded, Job
<1>3. CASE CommitCommand
    <2>1. pc = "commit" /\ item' = item /\ pc' \in {"acknowledge", "failBefore"} /\ Job \in Jobs /\ item.tag = "command"
        BY <1>3, <1>r DEF CommitCommand, Commanded
    <2>2. \A k \in Jobs : rows[k].state \notin InFlight
        BY <2>1 DEF OrphanInv, AllDriven, Busy, Early
    <2>3. PICK j \in Jobs : j = Job
        BY <2>1
    <2>4. \A k \in Jobs : k # j => rows'[k] = rows[k]
        BY <1>3, <2>3, Written DEF CommitCommand, Put, Job
    <2> QED
        BY <2>1, <2>2, <2>3, <2>4 DEF OrphanInv, AllDriven, Early, Busy, Job
<1>4. CASE Acknowledge \/ WriteProjection
    <2>1. rows' = rows /\ item' = item /\ pc \in {"acknowledge", "write"} /\ pc' \in {"write", "failAfter", "drive"}
        BY <1>4 DEF Acknowledge, WriteProjection, store, Goes
    <2> QED
        BY <2>1 DEF OrphanInv, AllDriven, Early, Busy, Job
<1>5. CASE FailBefore \/ FailAfter
    <2>1. pc \in {"failBefore", "failAfter"} /\ pc' = "idle" /\ Job \in Jobs
        BY <1>5, <1>r DEF FailBefore, FailAfter, Rests, Commanded
    <2>2. PICK j \in Jobs : j = Job
        BY <2>1
    <2>3. \A k \in Jobs : k # j => rows[k].state \notin InFlight
        BY <2>1, <2>2 DEF OrphanInv, AllDriven, Busy
    <2>4. PICK row : /\ rows' = [rows EXCEPT ![j] = row]
                     /\ row = Moved(rows[j], "FAILED", "none", {}) \/ (row = rows[j] /\ ~Allowed(j, rows[j], "FAILED"))
        BY <1>5, <2>2 DEF FailBefore, FailAfter, Put
    <2>5. row.state \notin InFlight
        <3>1. CASE row = Moved(rows[j], "FAILED", "none", {})
            BY <3>1 DEF Moved, InFlight
        <3>2. CASE row = rows[j] /\ ~Allowed(j, rows[j], "FAILED")
            BY <3>2, FailableInFlight DEF RowInv
        <3> QED
            BY <2>4, <3>1, <3>2
    <2>6. rows'[j] = row /\ \A k \in Jobs : k # j => rows'[k] = rows[k]
        BY <2>4, Written
    <2>7. \A k \in Jobs : rows'[k].state \notin InFlight
        BY <2>3, <2>5, <2>6
    <2> QED
        BY <2>1, <2>7 DEF OrphanInv, AllDriven, Early
<1> QED
    BY <1>1, <1>2, <1>3, <1>4, <1>5 DEF Commanding

LEMMA DriveOrphans ==
    ASSUME TypeOK, Held, RowInv, OrphanInv, Driving
    PROVE  OrphanInv'
<1> USE DEF At
<1>1. pc \in {"drive", "work"} /\ Job \in Jobs /\ item.tag = "command"
    BY DriveMoves, HeldRequest DEF Commanded, Job, Command
<1>2. PICK j \in Jobs : j = Job
    BY <1>1
<1>3. \A k \in Jobs : k # j => rows[k].state \notin InFlight
    BY <1>1, <1>2 DEF OrphanInv, AllDriven, Busy
<1>4. \A k \in Jobs : k # j => rows'[k] = rows[k]
    <2>1. CASE rows' # rows
        <3>1. PICK row \in Rows : Commits(row)
            BY <2>1, DriveGrows
        <3> QED
            BY <1>2, <3>1, Written DEF Commits, Put
    <2> QED
        BY <2>1
<1>5. CASE DriveEnds
    <2>1. rows' = rows /\ pc' = "idle" /\ pc = "drive" /\ snap.state \in Rest
        BY <1>5 DEF DriveEnds, store, Rests
    <2>2. rows[j].state \notin InFlight
        BY <1>2, <2>1, StatesApart DEF RowInv, SnapFits
    <2> QED
        BY <1>3, <2>1, <2>2 DEF OrphanInv, AllDriven, Early
<1>6. CASE ~DriveEnds
    <2>1. item' = item /\ pc' \in {"drive", "work", "failAfter"}
        <3>1. ASSUME NEW row, Commits(row) PROVE item' = item /\ pc' \in {"drive", "failAfter"}
            BY <3>1 DEF Commits
        <3>2. ASSUME NEW w, NEW new, Launch(w, new) PROVE item' = item /\ pc' \in {"work", "failAfter"}
            BY <3>2 DEF Launch
        <3>3. CASE DriveRaises \/ WorkerCrashes
            BY <3>3 DEF DriveRaises, WorkerCrashes
        <3>4. CASE AdvanceCancels \/ AdvanceSteps \/ WorkerBlocks \/ WorkerFails \/ WorkerCancelled
            BY <3>1, <3>4 DEF AdvanceCancels, AdvanceSteps, WorkerBlocks, WorkerFails, WorkerCancelled
        <3>5. CASE AdvanceWorks \/ WorkerSucceeds
            BY <3>1, <3>2, <3>5 DEF AdvanceWorks, WorkerSucceeds
        <3> QED
            BY <1>6, <3>3, <3>4, <3>5 DEF Driving
    <2> QED
        BY <1>1, <1>2, <1>3, <1>4, <2>1 DEF OrphanInv, AllDriven, Early, Busy, Job
<1> QED
    BY <1>5, <1>6

LEMMA OrphanStep ==
    ASSUME ~SecondFault, TypeOK, Held, RowInv, OrphanInv, Next
    PROVE  OrphanInv'
<1> USE DEF At
<1>1. CASE Cancelling
    <2>1. pc \in {"idle", "cancel", "recover"} /\ pc' \in {"idle", "cancel", "recover"}
        BY <1>1, CancelMoves
    <2>2. item.tag # "command" \/ pc = "idle"
        BY <2>1 DEF Held, Wake
    <2>3. \A k \in Jobs : rows[k].state \notin InFlight
        BY <2>1, <2>2 DEF OrphanInv, AllDriven, Busy
    <2>4. ASSUME NEW k \in Jobs PROVE rows'[k].state \notin InFlight
        <3>1. CASE rows' = rows
            BY <2>3, <3>1
        <3>2. CASE rows' # rows
            <4>1. Cancel
                BY <1>1, <3>2 DEF Cancelling, TakeCancel, RecoverCancel, store
            <4>2. PICK j \in Jobs : j = item.job
                BY <4>1, HeldJob DEF Cancel
            <4>3. rows' = [rows EXCEPT ![j] = Moved(snap, "CANCELLED", "none", {})]
                BY <3>2, <4>1, <4>2 DEF Cancel, Put
            <4>4. Moved(snap, "CANCELLED", "none", {}).state \notin InFlight
                BY DEF Moved, InFlight
            <4> QED
                BY <2>3, <4>3, <4>4, Written
        <3> QED
            BY <3>1, <3>2
    <2> QED
        BY <2>1, <2>4 DEF OrphanInv, AllDriven, Early
<1>2. CASE StartReady \/ StartFails
    <2>1. pc' \in {"idle", "absent"}
        BY <1>2 DEF StartReady, StartFails
    <2>2. ASSUME StartReady, NEW k \in Jobs PROVE rows'[k].state \notin InFlight
        <3>1. Moved(rows[k], "FAILED", "none", {}).state \notin InFlight
            BY DEF Moved, InFlight
        <3> QED
            BY <2>2, <3>1, StartRows
    <2> QED
        BY <1>2, <2>1, <2>2 DEF OrphanInv, AllDriven, Early, StartFails
<1>3. CASE TakeExternal \/ PublishExternal \/ TakeStop
    <2>1. rows' = rows /\ pc \in {"idle", "external"} /\ pc' \in {"idle", "external", "ended"}
        BY <1>3 DEF TakeExternal, PublishExternal, TakeStop, store, Took, Rests
    <2>2. item.tag # "command" \/ pc = "idle"
        BY <2>1 DEF Held, External
    <2>3. \A k \in Jobs : rows[k].state \notin InFlight
        BY <2>1, <2>2 DEF OrphanInv, AllDriven, Busy
    <2> QED
        BY <2>1, <2>3 DEF OrphanInv, AllDriven, Early
<1>4. CASE \/ \E r \in Requests : Caller(r)
           \/ \E j \in Jobs : RequestCancel(j)
           \/ StopBegins \/ StopReturns \/ StopTimesOut
    <2>1. UNCHANGED <<rows, pc, item>>
        BY <1>4, CallerFrame, RequestCancelFrame, StopFrame
    <2> QED
        BY <2>1 DEF OrphanInv, AllDriven, Early, Busy, Job
<1>5. CASE \E j \in Jobs : Machine(j)
    <2>1. PICK j \in Jobs : Machine(j)
        BY <1>5
    <2>2. UNCHANGED <<pc, item>>
        BY <2>1, MachineFrame
    <2>3. ASSUME NEW k \in Jobs PROVE rows'[k].state \in InFlight => rows'[k] = rows[k]
        <3>1. CASE rows' = rows
            BY <3>1
        <3>2. CASE rows' # rows
            <4>1. MachineOutcome(j)
                BY <2>1, <3>2 DEF Machine, MachineClaims, MachineReleases, MachinePublishes, store
            <4>2. PICK to \in {"COMPLETED", "RECOVERY_REQUIRED"} : rows' = [rows EXCEPT ![j] = Moved(rows[j], to, "none", {})]
                BY <4>1 DEF MachineOutcome, Put
            <4>3. Moved(rows[j], to, "none", {}).state \notin InFlight
                BY DEF Moved, InFlight
            <4> QED
                BY <4>2, <4>3, Written
        <3> QED
            BY <3>1, <3>2
    <2>4. pc \in Early => Job \in Jobs
        BY HeldRequest DEF Early, Commanded, Job
    <2>5. AllDriven'
        BY <2>2, <2>3 DEF OrphanInv, AllDriven, Busy, Job
    <2>6. pc' \in Early => rows'[Job].state \notin InFlight
        BY <2>2, <2>3, <2>4 DEF OrphanInv
    <2>7. Job' = Job
        BY <2>2 DEF Job
    <2> QED
        BY <2>5, <2>6, <2>7 DEF OrphanInv
<1>6. CASE Restart
    BY <1>6 DEF Restart, OrphanInv, AllDriven, Early
<1> QED
    BY <1>1, <1>2, <1>3, <1>4, <1>5, <1>6, CommandOrphans, DriveOrphans DEF Next, Coordinator
-----------------------------------------------------------------------------
(* The invariant holds *)

LEMMA StartInv ==
    ASSUME Init
    PROVE  FullInv
<1>1. TypeOK /\ Held
    BY InitTypes
<1>2. pc = "starting" /\ stopping = FALSE /\ box = <<>> /\ committed = {} /\ driven = {}
    BY DEF Init
<1>3. \A r \in Requests : caller[r] = "new" /\ env[r].st = "NONE" /\ ~env[r].error
    BY DEF Init, NoEnvelope
<1>4. \A j \in Jobs : rows[j] = NoRow /\ proj[j] = NoProj /\ paid[j] = 0 /\ ~owned[j] /\ NoProj.row = NoRow
    BY DEF Init, NoProj
<1>5. RequestInv
    <2>1. \A r \in Requests : RequestFits(r)
        BY <1>2, <1>3 DEF RequestFits
    <2>2. DOMAIN box = {}
        BY <1>2
    <2> QED
        BY <1>2, <2>1, <2>2 DEF RequestInv, BoxFits, HandFits, Commanded, Early
<1>6. StopInv /\ ErrorInv
    BY <1>2, <1>3 DEF StopInv, ErrorInv
<1>7. RowInv
    <2>1. \A j \in Jobs : RowFits(j)
        BY <1>4, FixedRows DEF RowFits, CheckStates, AwaitsReview
    <2> QED
        BY <1>2, <2>1 DEF RowInv, SnapFits, Early
<1>8. StageInv
    <2>1. ASSUME NEW j \in Jobs PROVE StageFits(j)
        <3>1. rows[j].state = "NONE" /\ ~AwaitsReview(rows[j])
            BY <1>4, FixedRows DEF AwaitsReview
        <3>2. Has(rows[j]) = {} /\ Needs(rows[j]) = {}
            BY <3>1, RowTable DEF InFlight, OwnedStates
        <3> QED
            BY <1>2, <1>4, <3>1, <3>2 DEF StageFits, LateStates
    <2> QED
        BY <1>2, <2>1 DEF StageInv, WorkFits
<1>9. ProjInv
    BY <1>2, <1>4, FixedRows DEF ProjInv, Behind, ReadFits, AllTold
<1>10. OrphanInv
    BY <1>2 DEF OrphanInv, AllDriven, At, Early
<1> QED
    BY <1>1, <1>5, <1>6, <1>7, <1>8, <1>9, <1>10 DEF FullInv

LEMMA StutterInv ==
    ASSUME FullInv, UNCHANGED vars
    PROVE  FullInv'
<1>1. UNCHANGED <<rows, known, proj, token, box, env, late, caller, pc, item, snap, work, stopper, stopping,
                  owned, unsent, committed, driven, paid, used>>
    BY DEF vars, store, memory, requests, thread, stopVars, machine
<1>2. TypeOK' /\ Held'
    BY StepTypes DEF FullInv
<1>3. RequestInv'
    BY <1>1 DEF FullInv, RequestInv, RequestFits, BoxFits, HandFits, Pending
<1>4. StopInv' /\ (~HandlerFailed' => ErrorInv')
    BY <1>1 DEF FullInv, StopInv, ErrorInv, HandlerFailed
<1>5. RowInv'
    BY <1>1 DEF FullInv, RowInv, RowFits, SnapFits, Job, Admissible
<1>6. StageInv'
    BY <1>1 DEF FullInv, StageInv, StageFits, Reviewed, WorkFits, Job
<1>7. ProjInv'
    BY <1>1 DEF FullInv, ProjInv, Behind, ReadFits, AllTold, Untroubled, Told, Due, Announced, Job
<1>8. ~HandlerFailed' => OrphanInv'
    BY <1>1 DEF FullInv, HandlerFailed, OrphanInv, AllDriven, Busy, Job, At
<1> QED
    BY <1>2, <1>3, <1>4, <1>5, <1>6, <1>7, <1>8 DEF FullInv

LEMMA KeepsInv ==
    ASSUME FullInv, [Next]_vars
    PROVE  FullInv'
<1>1. CASE Next
    <2>1. TypeOK' /\ Held'
        BY StepTypes DEF FullInv
    <2>2. RequestInv' /\ StopInv' /\ RowInv' /\ StageInv'
        BY <1>1, RequestStep, StopStep, RowStep, StageStep DEF FullInv
    <2>3. ProjInv'
        BY <1>1, <2>1, <2>2, ProjStep DEF FullInv
    <2>4. ~HandlerFailed' => ErrorInv' /\ OrphanInv'
        BY <1>1, <2>1, HandlersCount, ErrorStep, OrphanStep DEF FullInv
    <2> QED
        BY <2>1, <2>2, <2>3, <2>4 DEF FullInv
<1>2. CASE UNCHANGED vars
    BY <1>2, StutterInv
<1> QED
    BY <1>1, <1>2

LEMMA AlwaysFull == Spec => []FullInv
<1>1. Init => FullInv
    BY StartInv
<1>2. FullInv /\ [Next]_vars => FullInv'
    BY KeepsInv
<1> QED
    BY <1>1, <1>2, PTL DEF Spec

-----------------------------------------------------------------------------
(* What follows from it in one state *)

LEMMA AnswersFromInv ==
    ASSUME FullInv
    PROVE  AnswersHonest
<1> SUFFICES ASSUME NEW r \in Requests
             PROVE  /\ caller[r] = "TIMEOUT" => r \notin driven
                    /\ caller[r] = "RESULT" => r \in committed
                    /\ caller[r] = "ERROR" => r \notin committed \/ HandlerFailed
    BY DEF AnswersHonest
<1>1. RequestFits(r) /\ (~HandlerFailed => ErrorInv)
    BY DEF FullInv, RequestInv
<1> QED
    BY <1>1 DEF RequestFits, ErrorInv

\* The next worker reads what the state of the job needs.
LEMMA ReadsNeeded ==
    ASSUME NEW j, NEW row, row.state \in InFlight
    PROVE  Reads(WorkerOf(j, row.state)) \subseteq Needs(row)
<1>1. CASE row.state = "PREPARING_IMAGE"
    <2>1. WorkerOf(j, row.state) \in {"route", "provider", "prepare"}
        BY <1>1 DEF WorkerOf
    <2> QED
        BY <1>1, <2>1, RowTable DEF Reads
<1>2. CASE row.state \in {"PLANNING_PATHS", "BUILDING_GCODE", "VALIDATING_GCODE"}
    BY <1>2, RowTable DEF Reads, WorkerOf
<1>3. CASE row.state \notin {"PREPARING_IMAGE", "PLANNING_PATHS", "BUILDING_GCODE", "VALIDATING_GCODE"}
    <2>1. WorkerOf(j, row.state) = "none"
        BY <1>3 DEF WorkerOf
    <2> QED
        BY <2>1 DEF Reads
<1> QED
    BY <1>1, <1>2, <1>3

LEMMA StagesFromInv ==
    ASSUME FullInv
    PROVE  StagesEarned
<1>1. ReadyIsEarned
    <2> SUFFICES ASSUME NEW j \in Jobs, rows[j].state \in {"READY_TO_RUN", "RECOVERY_REQUIRED"}
                 PROVE  /\ \E r \in committed : r.job = j /\ r.kind = "CONTINUE_REVIEW" /\ r.approved
                        /\ {"input", "processed", "path_plan", "gcode", "readiness"} \subseteq rows[j].roles
        BY DEF ReadyIsEarned
    <2>1. Mode[j] # "check"
        BY DEF FullInv, RowInv, RowFits, CheckStates
    <2>2. StageFits(j)
        BY DEF FullInv, StageInv
    <2>3. Has(rows[j]) = {"input", "processed", "path_plan", "gcode", "readiness"}
        BY RowTable DEF OwnedStates
    <2> QED
        BY <2>1, <2>2, <2>3 DEF StageFits, LateStates, Reviewed
<1>2. ProviderOnce
    BY DEF FullInv, StageInv, StageFits, ProviderOnce
<1>3. InputsKnown
    <2> SUFFICES ASSUME pc = "drive", snap.state \in InFlight
                 PROVE  Reads(WorkerOf(Job, snap.state)) \subseteq known[Job]
        BY DEF InputsKnown, At
    <2>1. Job \in Jobs
        BY HeldRequest DEF FullInv, Commanded, Job
    <2>2. PICK j \in Jobs : j = Job
        BY <2>1
    <2>3. rows[j] = snap
        BY <2>2, StatesApart DEF FullInv, RowInv, SnapFits, Rest
    <2>4. Needs(rows[j]) \subseteq known[j]
        BY DEF FullInv, StageInv, StageFits
    <2> QED
        BY <2>2, <2>3, <2>4, ReadsNeeded
<1> QED
    BY <1>1, <1>2, <1>3 DEF StagesEarned

LEMMA AgreementFromInv ==
    ASSUME FullInv
    PROVE  MachineAgreement
<1>1. ProjectionCurrent
    <2> SUFFICES ASSUME NEW j \in Jobs, pc = "idle", Untroubled, rows[j] # proj[j].row
                 PROVE  j \in unsent \/ stopping \/ \E i \in DOMAIN box : box[i] = External(j)
        BY DEF ProjectionCurrent, At
    <2>1. Told(j)
        BY DEF FullInv, ProjInv, AllTold
    <2> QED
        BY <2>1 DEF Told, Due, Announced
<1>2. MachineKeepsJob
    BY DEF FullInv, RowInv, RowFits, OwnedStates, MachineKeepsJob
<1> QED
    BY <1>1, <1>2 DEF MachineAgreement

-----------------------------------------------------------------------------
(* Theorems *)

\* Type correctness: rows, projections, envelopes, mailbox items and the thread's place
\* stay in the types the code gives them, whatever the interleaving.
THEOREM TypeCorrect == Spec => []TypeOK
BY AlwaysFull, PTL DEF FullInv

\* A client told of a timeout had nothing driven for it, one told a result has a durable
\* commit behind it and one told an error has none, until something raises inside a failure
\* handler (_complete_pre_ack_failure then answers with an error after a commit).
THEOREM AnswersAlwaysHonest == Spec => []AnswersHonest
<1>1. FullInv => AnswersHonest
    BY AnswersFromInv
<1> QED
    BY <1>1, AlwaysFull, PTL

\* No job is left in flight without the thread working on it, after a stop, a failed
\* cancellation or a restart either, until something raises inside a failure handler
\* (_complete_post_ack_failure may then leave the row where it was).
THEOREM NeverOrphaned == Spec => []NoOrphan
<1>1. FullInv => NoOrphan
    BY DEF FullInv, OrphanInv, AllDriven, NoOrphan
<1> QED
    BY <1>1, AlwaysFull, PTL

\* READY_TO_RUN is reached only through an approved review and every stage's artifact,
\* the paid provider is called once, and advance never misses the path of an input, with
\* faults in failure handlers too.
THEOREM StagesAlwaysEarned == Spec => []StagesEarned
<1>1. FullInv => StagesEarned
    BY StagesFromInv
<1> QED
    BY <1>1, AlwaysFull, PTL

\* While nothing has raised, a projection that is behind its row has a publication on its
\* way, and transition_job never takes a job from the machine that is executing it.
THEOREM MachineAlwaysAgrees == Spec => []MachineAgreement
<1>1. FullInv => MachineAgreement
    BY AgreementFromInv
<1> QED
    BY <1>1, AlwaysFull, PTL

\* After stop() has set the cancellation events no worker begins: none of the steps that
\* follow, a failed cancellation's recovery included, clears the event of a driven job.
THEOREM QuietStop == Spec => NoWorkWhileStopping
<1>1. FullInv /\ [Next]_vars => [stopping /\ pc = "drive" => pc' # "work"]_vars
    BY QuietStep DEF FullInv
<1> QED
    BY <1>1, AlwaysFull, PTL DEF Spec, NoWorkWhileStopping

\* A published status never goes back before the next start, neither to an older revision
\* nor, at the same one, from a requested cancellation to none that nobody has taken up,
\* although _publish_external reads before and shows after other commits and requests.
THEOREM StatusNeverGoesBack == Spec => StatusMonotone
<1>1. Init => AskedFits
    BY DEF Init, AskedFits, NoProj
<1>2. FullInv /\ FullInv' /\ AskedFits /\ [Next]_vars => AskedFits'
    <2>1. ASSUME AskedFits, UNCHANGED vars PROVE AskedFits'
        BY <2>1 DEF vars, memory, AskedFits
    <2> QED
        BY <2>1, AskedFitsStep DEF FullInv
<1>3. FullInv /\ FullInv' /\ AskedFits /\ [Next]_vars =>
         [pc' # "starting" =>
            \A j \in Jobs :
               /\ proj'[j].row.rev >= proj[j].row.rev
               /\ proj[j].asked /\ ~proj'[j].asked =>
                    \/ proj'[j].row.rev > proj[j].row.rev \/ Cancelled(proj'[j].row)
                    \/ Resolving(j) \/ HandlerFailed']_vars
    BY StatusStep DEF FullInv
<1> QED
    BY <1>1, <1>2, <1>3, AlwaysFull, PTL DEF Spec, StatusMonotone
=============================================================================
