------------------------------ MODULE Staging -------------------------------
(***************************************************************************)
(* Client input staging: the bundles that client processes prepare, publish*)
(* and hand over through shared directories, the admission rows of the     *)
(* service, the command that claims and imports a bundle, and the          *)
(* reconciliation that runs at startup, at shutdown, periodically and      *)
(* around every command.  Clients and the service share the directories    *)
(* without a common lock; either side may die between any two steps.       *)
(*                                                                         *)
(* Source: application/staging_reconciliation.py, adapters/filesystem/     *)
(* client_data.py, the staging handlers of service/runtime.py, the staging *)
(* transactions of sqlite_repository.py and the import of                  *)
(* offline_job_chain.py.  One role is modelled: the image and the G-code   *)
(* role share no directory and no row.  The boot identity is constant.     *)
(***************************************************************************)
EXTENDS Naturals, Sequences, FiniteSets

CONSTANTS
    Requests,    \* request identities; each has one bundle
    Args,        \* argument values a frame may carry, numbered as they are first used
    MaxSends,    \* frames sent, over all requests
    MaxMishaps   \* crashes of the service process, and calls of its filesystem or
                 \* database that raise

NoArgs == 0
NoRequest == "no_request"

VARIABLES
    client,   \* client[r]: where the process that stages r is
    loc,      \* loc[r]: the directory that holds the bundle
    lease,    \* lease[r]: state of the lease file in the bundle
    overdue,  \* <<r, "lease">> and <<r, "obs">> whose deadline has passed
    obs,      \* obs[r]: the observation file of the service
    adm,      \* adm[r]: state of the admission row
    bound,    \* bound[r]: arguments the request was first decoded with
    job,      \* job[r]: arguments of the durable job, once there is one
    art,      \* art[r]: the input artifact of that job in the artifact store
    markers,  \* recovery-*.json files: for an observation, or NoRequest
    blocked,  \* the role is in _blocked
    svc,      \* the event loop of the service: what it executes
    mail,     \* commands the job coordinator thread has not finished
    frames,   \* frames written by clients, not yet decoded
    answers,  \* history: <<request, arguments, outcome>> sent back
    used      \* how much of each bound is used

clients == <<client, lease>>
rows == <<adm, bound, job>>
files == <<obs, markers>>
wire == <<frames, answers>>
vars == <<client, loc, lease, overdue, obs, adm, bound, job, art, markers, blocked,
          svc, mail, frames, answers, used>>

Leases == {"none", "PUBLISHED_UNSENT", "TORN", "DISPATCH_UNCERTAIN"}
ClientStates == {"idle", "made", "copying", "cleaning", "published", "discarding",
                 "transferring", "sending", "done"}
Hidden(d) == IF d = "prepare" THEN "hidden_prepare"
             ELSE IF d = "drop" THEN "hidden_drop" ELSE "hidden_admitted"
Places == {"none", "prepare", "drop", "admitted", "hidden_prepare", "hidden_drop",
           "hidden_admitted", "quarantine", "removed"}
TerminalObs == {"PUBLISHED_HANDOFF", "CLIENT_ABORTED", "QUARANTINED"}
ObservationStates == {"none", "ACTIVE", "HELD_EXPIRED"} \cup TerminalObs
AdmissionStates == {"none", "REQUEST_DECODED", "CLAIMED", "DURABLY_ADMITTED",
                    "CONSUMED", "QUARANTINED"}
ReconcilePhases == {"list", "prepare", "observe", "open", "own", "gone", "delete", "deleting",
                    "drop", "admitted"}
CommandPhases == {"bind", "register", "claim", "claimed", "submit", "wait", "consume", "consuming",
                  "consumed"}
Triggers == {"startup", "shutdown", "periodic", "before-command", "after-command"}

Down == [at |-> "down", trig |-> "startup", req |-> NoRequest, args |-> NoArgs,
         todo |-> {}, cur |-> NoRequest, flag |-> FALSE, out |-> "none"]

Init ==
    /\ client = [r \in Requests |-> "idle"]
    /\ loc = [r \in Requests |-> "none"]
    /\ lease = [r \in Requests |-> "none"]
    /\ overdue = {}
    /\ obs = [r \in Requests |-> "none"]
    /\ adm = [r \in Requests |-> "none"]
    /\ bound = [r \in Requests |-> NoArgs]
    /\ job = [r \in Requests |-> NoArgs]
    /\ art = [r \in Requests |-> "none"]
    /\ markers = {}
    /\ blocked = FALSE
    /\ svc = Down
    /\ mail = <<>>
    /\ frames = {}
    /\ answers = {}
    /\ used = [sends |-> 0, crashes |-> 0, faults |-> 0]

Mishap == used.crashes + used.faults < MaxMishaps

Fault == Mishap /\ used' = [used EXCEPT !.faults = @ + 1]

-----------------------------------------------------------------------------
(* The client process: _stage, transfer_before_write, discard_definitely_unsent. *)

Put(v, r, x) == [v EXCEPT ![r] = x]

\* The client holds the flock of the bundle directory.
ClientLocks(r) == client[r] \in {"copying", "cleaning", "discarding", "transferring"}
\* The reconciliation holds it while it decides about an unlocked preparation.
ServiceLocks(r) == svc.at = "own" /\ svc.cur = r

ClientSkips == UNCHANGED <<overdue, obs, rows, art, markers, blocked, svc, mail, answers>>

ClientMakes(r) ==
    /\ client[r] = "idle"
    /\ client' = Put(client, r, "made") /\ loc' = Put(loc, r, "prepare")
    /\ UNCHANGED <<lease, frames, used>> /\ ClientSkips

\* Lock the new directory: a lock taken by the service makes the client give up.
ClientPrepares(r) ==
    /\ client[r] = "made"
    /\ \/ ~ServiceLocks(r) /\ client' = Put(client, r, "copying") /\ UNCHANGED loc
       \/ /\ ServiceLocks(r)
          /\ client' = Put(client, r, "cleaning") /\ loc' = Put(loc, r, "hidden_prepare")
    /\ UNCHANGED <<lease, frames, used>> /\ ClientSkips

ClientPublishes(r) ==
    /\ client[r] = "copying"
    /\ loc[r] = "prepare"
    /\ client' = Put(client, r, "published") /\ loc' = Put(loc, r, "drop")
    /\ lease' = Put(lease, r, "PUBLISHED_UNSENT")
    /\ UNCHANGED <<frames, used>> /\ ClientSkips

\* The source changed, a write failed, or the service quarantined the directory.
ClientStagingFails(r) ==
    /\ client[r] = "copying"
    /\ IF loc[r] = "prepare"
       THEN client' = Put(client, r, "cleaning") /\ loc' = Put(loc, r, "hidden_prepare")
       ELSE client' = Put(client, r, "done") /\ UNCHANGED loc
    /\ UNCHANGED <<lease, frames, used>> /\ ClientSkips

\* No connection: nothing was written, the bundle is detached and removed.
ClientDiscards(r) ==
    /\ client[r] = "published"
    /\ IF loc[r] = "drop" /\ lease[r] = "PUBLISHED_UNSENT"
       THEN client' = Put(client, r, "discarding") /\ loc' = Put(loc, r, "hidden_drop")
       ELSE client' = Put(client, r, "done") /\ UNCHANGED loc
    /\ UNCHANGED <<lease, frames, used>> /\ ClientSkips

ClientRemoves(r) ==
    /\ client[r] \in {"cleaning", "discarding"}
    /\ loc' = IF loc[r] \in {"hidden_prepare", "hidden_drop"} THEN Put(loc, r, "removed") ELSE loc
    /\ client' = Put(client, r, "done")
    /\ UNCHANGED <<lease, frames, used>> /\ ClientSkips

\* A temporary lease file lies in the bundle until it replaces the old one.
ClientTransfers(r) ==
    /\ client[r] = "published"
    /\ IF loc[r] = "drop"
       THEN client' = Put(client, r, "transferring") /\ lease' = Put(lease, r, "TORN")
       ELSE client' = Put(client, r, "done") /\ UNCHANGED lease
    /\ UNCHANGED <<loc, frames, used>> /\ ClientSkips

ClientTransferred(r) ==
    /\ client[r] = "transferring"
    /\ lease' = Put(lease, r, "DISPATCH_UNCERTAIN")
    /\ client' = Put(client, r, IF loc[r] = "drop" THEN "sending" ELSE "done")
    /\ UNCHANGED <<loc, frames, used>> /\ ClientSkips

\* A frame is written; a caller may write it again, or with other arguments.
ClientSends(r, a) ==
    /\ client[r] = "sending" /\ a <= used.sends + 1
    /\ used.sends < MaxSends /\ used' = [used EXCEPT !.sends = @ + 1]
    /\ frames' = frames \cup {[req |-> r, args |-> a]}
    /\ UNCHANGED <<client, loc, lease>> /\ ClientSkips

\* The process ends, whatever it was doing; its lock goes with it.
ClientDies(r) ==
    /\ client[r] \notin {"idle", "done"}
    /\ client' = Put(client, r, "done")
    /\ UNCHANGED <<loc, lease, frames, used>> /\ ClientSkips

-----------------------------------------------------------------------------
(* Reconciliation of the role: _reconcile_role, one step per entry or file. *)

Listed(d) == {[req |-> r, hidden |-> FALSE] : r \in {q \in Requests : loc[q] = d}}
             \cup {[req |-> r, hidden |-> TRUE] : r \in {q \in Requests : loc[q] = Hidden(d)}}
Held(e, d) == loc[e.req] = (IF e.hidden THEN Hidden(d) ELSE d)

Reconciling(trig) == [svc EXCEPT !.at = "list", !.trig = trig, !.todo = {}, !.cur = NoRequest, !.flag = FALSE]
Next1(e, b) == svc' = [svc EXCEPT !.todo = @ \ {e}, !.flag = @ \/ b]

\* What a failing or finished reconciliation goes on with.
Answered(o) == answers' = answers \cup {[req |-> svc.req, args |-> svc.args, out |-> o]}
Idle == [Down EXCEPT !.at = "idle"]
Fails ==
    /\ CASE svc.trig \in {"startup", "periodic"} ->
              svc' = [Reconciling("shutdown") EXCEPT !.out = "error"] /\ UNCHANGED answers
         [] svc.trig = "shutdown" -> svc' = [Down EXCEPT !.out = svc.out] /\ UNCHANGED answers
         [] svc.trig = "before-command" ->
              svc' = [Reconciling("after-command") EXCEPT !.out = "error"] /\ UNCHANGED answers
         [] svc.trig = "after-command" -> svc' = Idle /\ Answered("error")
    /\ UNCHANGED <<blocked, mail>>

ServiceSkips == UNCHANGED <<client, lease, overdue, bound, job, frames>>

\* Durable evidence that a person has to look at.
RecoveryMarker == markers' = markers \cup {NoRequest}

\* The entry is renamed into quarantine and evidence is written; when the entry is
\* gone or a call fails, a recovery marker is written instead.
Quarantine(e, d, fails) ==
    IF Held(e, d) /\ ~fails
    THEN loc' = Put(loc, e.req, "quarantine") /\ UNCHANGED markers
    ELSE RecoveryMarker /\ UNCHANGED loc
Quarantined(e, d, fails) == Held(e, d) /\ ~fails
MayFault(fails) == IF fails THEN Fault ELSE UNCHANGED used

ListPrepare ==
    /\ svc.at = "list"
    /\ svc' = [svc EXCEPT !.at = "prepare", !.todo = Listed("prepare")]
    /\ UNCHANGED <<loc, files, adm, art, blocked, mail, answers, used>> /\ ServiceSkips

\* A preparation seen for the first time gets an observation; lstat raises when the
\* client renamed the directory after the listing.
ObserveFirst(e) ==
    /\ ~e.hidden /\ obs[e.req] = "none"
    /\ IF loc[e.req] = "prepare"
       THEN obs' = Put(obs, e.req, "ACTIVE") /\ Next1(e, FALSE) /\ UNCHANGED <<blocked, mail, answers>>
       ELSE Fails /\ UNCHANGED obs
    /\ UNCHANGED <<loc, markers, used>>
ObserveKnown(e) ==
    /\ ~e.hidden /\ obs[e.req] # "none"
    /\ Next1(e, FALSE) /\ UNCHANGED <<loc, files, blocked, mail, answers, used>>
ObserveInvalid(e) ==
    /\ e.hidden
    /\ \E fails \in BOOLEAN :
          /\ MayFault(fails) /\ Quarantine(e, "prepare", fails)
          /\ Next1(e, ~Quarantined(e, "prepare", fails))
    /\ UNCHANGED <<obs, blocked, mail, answers>>
ObservePrepare ==
    /\ svc.at = "prepare"
    /\ \/ \E e \in svc.todo : ObserveFirst(e) \/ ObserveKnown(e) \/ ObserveInvalid(e)
       \/ /\ svc.todo = {}
          /\ svc' = [svc EXCEPT !.at = "observe",
                                !.todo = {r \in Requests : obs[r] # "none" /\ r # svc.req}]
          /\ UNCHANGED <<loc, files, blocked, mail, answers, used>>
    /\ UNCHANGED <<adm, art>> /\ ServiceSkips

Decided(b) == svc' = [svc EXCEPT !.at = "observe", !.todo = @ \ {svc.cur},
                                 !.cur = NoRequest, !.flag = @ \/ b]

\* Take up the next observation: a terminal one is deleted, for another it is noted
\* whether the preparation still exists.
TakeObservation ==
    /\ svc.at = "observe"
    /\ \/ \E r \in svc.todo :
            IF obs[r] \in TerminalObs
            THEN IF r \in markers
                 THEN Next1(r, TRUE)
                 ELSE svc' = [svc EXCEPT !.at = "delete", !.cur = r]
            ELSE svc' = [svc EXCEPT !.cur = r, !.at = IF loc[r] = "prepare" THEN "open" ELSE "gone"]
       \/ svc.todo = {} /\ svc' = [svc EXCEPT !.at = "drop", !.todo = Listed("drop")]
    /\ UNCHANGED <<loc, files, adm, art, blocked, mail, answers, used>> /\ ServiceSkips

\* HELD_EXPIRED has no transition to itself: the second expired look raises.
HeldTransition(s) == s = "ACTIVE"

\* Open and lock the preparation: it may be gone by now, or locked by its client.
OpenPreparation ==
    /\ svc.at = "open"
    /\ LET r == svc.cur IN
       \/ /\ loc[r] # "prepare"
          /\ RecoveryMarker /\ Decided(TRUE)
          /\ UNCHANGED <<obs, blocked, mail, answers>>
       \/ /\ loc[r] = "prepare" /\ ~ClientLocks(r)
          /\ svc' = [svc EXCEPT !.at = "own"]
          /\ UNCHANGED <<files, blocked, mail, answers>>
       \/ /\ loc[r] = "prepare" /\ ClientLocks(r) /\ <<r, "obs">> \notin overdue
          /\ Decided(TRUE) /\ UNCHANGED <<files, blocked, mail, answers>>
       \/ /\ loc[r] = "prepare" /\ ClientLocks(r) /\ <<r, "obs">> \in overdue
          /\ IF HeldTransition(obs[r])
             THEN obs' = Put(obs, r, "HELD_EXPIRED") /\ Decided(TRUE)
                  /\ UNCHANGED <<blocked, mail, answers>>
             ELSE Fails /\ UNCHANGED obs
          /\ UNCHANGED markers
    /\ UNCHANGED <<loc, adm, art, used>> /\ ServiceSkips

Terminal(s) == obs' = Put(obs, svc.cur, s) /\ svc' = [svc EXCEPT !.at = "delete"]
Owned == {"CLAIMED", "DURABLY_ADMITTED", "CONSUMED"}

\* Decide about a preparation that is gone, or that the service has locked.
JudgeObservation ==
    /\ svc.at \in {"gone", "own"}
    /\ LET r == svc.cur  e == [req |-> r, hidden |-> FALSE] IN
       \/ loc[r] = "drop" /\ Terminal("PUBLISHED_HANDOFF") /\ UNCHANGED <<loc, markers, used>>
       \/ /\ loc[r] \notin {"drop", "prepare"}
          /\ \/ adm[r] = "none" /\ Terminal("CLIENT_ABORTED")
             \/ adm[r] \in Owned /\ Terminal("PUBLISHED_HANDOFF")
             \/ adm[r] \notin Owned \cup {"none"} /\ Decided(TRUE) /\ UNCHANGED obs
          /\ UNCHANGED <<loc, markers, used>>
       \/ /\ loc[r] = "prepare"
          /\ \E fails \in BOOLEAN :
                /\ MayFault(fails) /\ Quarantine(e, "prepare", fails)
                /\ IF fails THEN Decided(TRUE) /\ UNCHANGED obs ELSE Terminal("QUARANTINED")
    /\ UNCHANGED <<adm, art, blocked, mail, answers>> /\ ServiceSkips

\* The deletion is announced by a marker that is removed when the file is gone.
DeleteObservation ==
    /\ \/ /\ svc.at = "delete"
          /\ markers' = markers \cup {svc.cur}
          /\ svc' = [svc EXCEPT !.at = "deleting"] /\ UNCHANGED obs
       \/ /\ svc.at = "deleting"
          /\ obs' = Put(obs, svc.cur, "none")
          /\ markers' = markers \ {svc.cur} /\ Decided(FALSE)
    /\ UNCHANGED <<loc, adm, art, blocked, mail, answers, used>> /\ ServiceSkips

Protected(r) == r = svc.req /\ adm[r] \in {"none", "REQUEST_DECODED", "CLAIMED"}
Fresh(r) == adm[r] \in {"REQUEST_DECODED", "CLAIMED"} /\ <<r, "lease">> \notin overdue
Stale(r) == <<r, "lease">> \in overdue
Damaged(e, d) == e.hidden \/ ~Held(e, d) \/ lease[e.req] = "TORN"

\* A bundle that is left alone: the command in progress owns it, or its deadline
\* has not passed.
KeepBundle(e) == Protected(e.req) \/ Fresh(e.req) \/ ~Stale(e.req)

\* Mutated form of the next definition: a claimed bundle is taken for a durable one.
RemovesClaimed(e, d) ==
    d = "admitted" /\ adm[e.req] \in {"CLAIMED", "DURABLY_ADMITTED", "CONSUMED"}
RemovesBundle(e, d) == d = "admitted" /\ adm[e.req] \in {"DURABLY_ADMITTED", "CONSUMED"}

\* The admission whose row has to follow a quarantine.
Recorded(e, fails) == IF fails \/ adm[e.req] = "none" THEN NoRequest ELSE e.req

\* One bundle of the drop or of the admitted directory.
ReviewBundle(e, d) ==
    \/ /\ Damaged(e, d)
       /\ \E fails \in BOOLEAN :
             /\ MayFault(fails) /\ Quarantine(e, d, fails) /\ Next1(e, ~Quarantined(e, d, fails))
    \/ /\ ~Damaged(e, d) /\ RemovesBundle(e, d)
       /\ \E fails \in BOOLEAN :
             /\ MayFault(fails)
             /\ IF fails
                THEN RecoveryMarker /\ Next1(e, TRUE) /\ UNCHANGED loc
                ELSE /\ loc' = Put(loc, e.req, Hidden(d)) /\ UNCHANGED markers
                     /\ svc' = [svc EXCEPT !.todo = @ \ {e}, !.cur = e.req]
    \/ /\ ~Damaged(e, d) /\ ~RemovesBundle(e, d) /\ KeepBundle(e)
       /\ Next1(e, FALSE) /\ UNCHANGED <<loc, markers, used>>
    \/ /\ ~Damaged(e, d) /\ ~RemovesBundle(e, d) /\ ~KeepBundle(e)
       /\ \E fails \in BOOLEAN :
             /\ MayFault(fails) /\ Quarantine(e, d, fails)
             /\ svc' = [svc EXCEPT !.todo = @ \ {e}, !.flag = @ \/ fails,
                            !.cur = Recorded(e, fails)]

QuarantineRow == "QUARANTINED"

\* The second half: the tree is removed, then the row follows the filesystem.
SettleBundle(r) ==
    \/ loc[r] = "hidden_admitted" /\ loc' = Put(loc, r, "removed") /\ UNCHANGED <<adm, svc>>
    \/ /\ loc[r] # "hidden_admitted"
       /\ adm' = Put(adm, r, IF loc[r] = "removed" THEN "CONSUMED" ELSE QuarantineRow)
       /\ svc' = [svc EXCEPT !.cur = NoRequest] /\ UNCHANGED loc

ReviewBundles ==
    /\ svc.at \in {"drop", "admitted"}
    /\ \/ /\ svc.cur = NoRequest
          /\ \E e \in svc.todo : ReviewBundle(e, svc.at)
          /\ UNCHANGED adm
       \/ svc.cur # NoRequest /\ SettleBundle(svc.cur) /\ UNCHANGED <<markers, used>>
       \/ /\ svc.at = "drop" /\ svc.todo = {} /\ svc.cur = NoRequest
          /\ svc' = [svc EXCEPT !.at = "admitted", !.todo = Listed("admitted")]
          /\ UNCHANGED <<loc, adm, markers, used>>
    /\ UNCHANGED <<obs, art, blocked, mail, answers>> /\ ServiceSkips

\* The preparation is renamed between exists() and lstat, or the row of a bundle
\* that has moved cannot be written: the exception ends the pass.
PassRaises ==
    /\ \/ svc.at \in {"open", "own"} /\ loc[svc.cur] # "prepare" /\ UNCHANGED used
       \/ /\ svc.at \in {"drop", "admitted"} /\ svc.cur # NoRequest
          /\ loc[svc.cur] # "hidden_admitted" /\ Fault
    /\ Fails /\ UNCHANGED <<loc, files, adm, art>> /\ ServiceSkips

\* Mutated form of the next definition: only this pass decides, markers of earlier
\* ones are not looked at.
RoleBlockedNow == svc.flag
\* A recovery marker of any earlier pass keeps the role blocked.
RoleBlocked == svc.flag \/ markers # {}

FinishReconcile ==
    /\ svc.at = "admitted" /\ svc.todo = {} /\ svc.cur = NoRequest
    /\ blocked' = RoleBlocked
    /\ CASE svc.trig \in {"startup", "periodic"} -> svc' = Idle /\ UNCHANGED answers
         [] svc.trig = "shutdown" -> svc' = [Down EXCEPT !.out = svc.out] /\ UNCHANGED answers
         [] svc.trig = "before-command" ->
              /\ svc' = IF blocked' THEN [Reconciling("after-command") EXCEPT !.out = "error"]
                        ELSE [svc EXCEPT !.at = "bind"]
              /\ UNCHANGED answers
         [] svc.trig = "after-command" -> svc' = Idle /\ Answered(svc.out)
    /\ UNCHANGED <<loc, files, adm, art, mail, used>> /\ ServiceSkips

-----------------------------------------------------------------------------
(* A command of the service: _workflow_run, _gcode_check. *)

Step(a) == svc' = [svc EXCEPT !.at = a]
Respond(o) == svc' = [Reconciling("after-command") EXCEPT !.out = o]
CommandSkips == UNCHANGED <<clients, overdue, files, blocked, answers>>

Decode(f) ==
    /\ svc.at = "idle" /\ frames' = frames \ {f}
    /\ svc' = [Reconciling("before-command") EXCEPT !.req = f.req, !.args = f.args]
    /\ UNCHANGED <<loc, rows, art, mail, used>> /\ CommandSkips

\* The first decoding of a request keeps its arguments.
FirstBound(r, a) == IF bound[r] = NoArgs THEN a ELSE bound[r]
Bind ==
    /\ svc.at = "bind"
    /\ bound' = Put(bound, svc.req, FirstBound(svc.req, svc.args))
    /\ IF bound'[svc.req] = svc.args THEN Step("register") ELSE Respond("error")
    /\ UNCHANGED <<loc, adm, job, art, mail, frames, used>> /\ CommandSkips

\* A published bundle whose lease says that its frame may have been sent.
Dispatched(r) == loc[r] = "drop" /\ lease[r] = "DISPATCH_UNCERTAIN"
\* A replay finds its bundle where the row says, or the row does not need it any more.
ReplayValid(r) ==
    \/ adm[r] = "REQUEST_DECODED" /\ Dispatched(r)
    \/ adm[r] = "CLAIMED" /\ loc[r] = "admitted"
    \/ adm[r] \in {"DURABLY_ADMITTED", "CONSUMED"}
\* The durable job is the one of exactly this request.
ExactReplay(r) == job[r] = svc.args /\ art[r] = "promoted"

Register ==
    /\ svc.at = "register"
    /\ LET r == svc.req IN
       \/ /\ adm[r] = "none" /\ Dispatched(r)
          /\ adm' = Put(adm, r, "REQUEST_DECODED") /\ Step("claim")
       \/ /\ ReplayValid(r) /\ UNCHANGED adm
          /\ \/ adm[r] = "REQUEST_DECODED" /\ Step("claim")
             \/ adm[r] = "CLAIMED" /\ Step("submit")
             \/ adm[r] = "DURABLY_ADMITTED" /\ ExactReplay(r) /\ Step("consume")
             \/ adm[r] = "CONSUMED" /\ ExactReplay(r) /\ Respond("ok")
       \/ /\ IF adm[r] = "none" THEN ~Dispatched(r) ELSE ~ReplayValid(r)
          /\ Respond("error") /\ UNCHANGED adm
    /\ UNCHANGED <<loc, bound, job, art, mail, frames, used>> /\ CommandSkips

\* The bundle is moved first, the row follows in a transaction of its own.
Claim ==
    /\ \/ /\ svc.at = "claim"
          /\ \/ loc' = Put(loc, svc.req, "admitted") /\ Step("claimed") /\ UNCHANGED used
             \/ Fault /\ Respond("error") /\ UNCHANGED loc
          /\ UNCHANGED adm
       \/ /\ svc.at = "claimed"
          /\ adm' = Put(adm, svc.req, "CLAIMED") /\ Step("submit")
          /\ UNCHANGED <<loc, used>>
    /\ UNCHANGED <<bound, job, art, mail, frames>> /\ CommandSkips

Submit ==
    /\ svc.at = "submit"
    /\ mail' = Append(mail, [req |-> svc.req, args |-> svc.args, at |-> "queued",
                             live |-> TRUE, own |-> TRUE])
    /\ Step("wait")
    /\ UNCHANGED <<loc, rows, art, frames, used>> /\ CommandSkips

\* The wait for the acknowledgement ends: the thread may not commit any more.
WaitExpires ==
    /\ svc.at = "wait"
    /\ mail' = [mail EXCEPT ![Len(mail)].live = FALSE]
    /\ Respond("error")
    /\ UNCHANGED <<loc, rows, art, frames, used>> /\ CommandSkips

\* The durable bundle is detached, removed, and its row marked.
Consume ==
    /\ \/ /\ svc.at = "consume" /\ loc[svc.req] = "admitted"
          /\ loc' = Put(loc, svc.req, "hidden_admitted") /\ Step("consuming")
          /\ UNCHANGED <<adm, used>>
       \/ /\ svc.at = "consume" /\ loc[svc.req] # "admitted"
          /\ Step("consumed") /\ UNCHANGED <<loc, adm, used>>
       \/ svc.at = "consume" /\ Fault /\ Respond("error") /\ UNCHANGED <<loc, adm>>
       \/ /\ svc.at = "consuming"
          /\ loc' = Put(loc, svc.req, "removed") /\ Step("consumed") /\ UNCHANGED <<adm, used>>
       \/ /\ svc.at = "consumed"
          /\ adm' = Put(adm, svc.req, "CONSUMED") /\ Respond("ok") /\ UNCHANGED <<loc, used>>
    /\ UNCHANGED <<bound, job, art, mail, frames>> /\ CommandSkips

-----------------------------------------------------------------------------
(* The job coordinator thread: _coordinator_submit and the import of the payload. *)

Head1 == Head(mail)
\* The thread ends a command; the caller goes on if it is the one that waits.
Concludes(next) ==
    /\ mail' = Tail(mail)
    /\ IF svc.at = "wait" /\ Len(mail) = 1
       THEN svc' = IF next = "error" THEN [Reconciling("after-command") EXCEPT !.out = "error"]
                   ELSE [svc EXCEPT !.at = next]
       ELSE UNCHANGED svc
ThreadSkips == UNCHANGED <<clients, overdue, loc, bound, files, blocked, wire>>

\* An abandoned command does nothing; a promoted artifact of an earlier attempt is
\* used again; what an interrupted copy left in the staging area is a collision.
ImportBegins ==
    /\ mail # <<>> /\ Head1.at = "queued"
    /\ \/ ~Head1.live /\ Concludes("error") /\ UNCHANGED art
       \/ /\ Head1.live /\ art[Head1.req] = "promoted"
          /\ mail' = [mail EXCEPT ![1].at = "promoted", ![1].own = FALSE] /\ UNCHANGED <<art, svc>>
       \/ Head1.live /\ art[Head1.req] = "staged" /\ Concludes("error") /\ UNCHANGED art
       \/ /\ Head1.live /\ art[Head1.req] = "none"
          /\ art' = Put(art, Head1.req, "staged")
          /\ mail' = [mail EXCEPT ![1].at = "copying"] /\ UNCHANGED svc
    /\ UNCHANGED <<adm, job, used>> /\ ThreadSkips

\* Copy the payload and promote the copy; a failure discards the staging area.
ImportEnds ==
    /\ mail # <<>> /\ Head1.at = "copying"
    /\ \/ /\ loc[Head1.req] = "admitted"
          /\ art' = Put(art, Head1.req, "promoted")
          /\ mail' = [mail EXCEPT ![1].at = "promoted"] /\ UNCHANGED <<svc, used>>
       \/ /\ IF loc[Head1.req] = "admitted" THEN Fault ELSE UNCHANGED used
          /\ art' = Put(art, Head1.req, "none") /\ Concludes("error")
    /\ UNCHANGED <<adm, job>> /\ ThreadSkips

Discarded == IF Head1.own THEN Put(art, Head1.req, "none") ELSE art

\* One transaction creates the job and moves the admission.
JobWithStaging ==
    job' = Put(job, Head1.req, Head1.args) /\ adm' = Put(adm, Head1.req, "DURABLY_ADMITTED")

\* Mutated form of the next definition: the job is created without the caller's
\* deadline being asked again.
CommitJobLate ==
    /\ mail # <<>> /\ Head1.at = "promoted"
    /\ JobWithStaging /\ Concludes("consume") /\ UNCHANGED <<art, used>> /\ ThreadSkips

\* The job is committed while its caller waits, and the caller goes on with it, or
\* gives up before the acknowledgement. With a caller that does not wait any more,
\* or a failing transaction, the copy promoted for this command is discarded,
\* unless that fails too. (commit_allowed and the COMMIT are one step.)
CommitJob ==
    /\ mail # <<>> /\ Head1.at = "promoted"
    /\ \/ /\ Head1.live /\ adm[Head1.req] = "CLAIMED"
          /\ \E next \in {"consume", "error"} : Concludes(next)
          /\ JobWithStaging /\ UNCHANGED <<art, used>>
       \/ /\ IF Head1.live THEN Fault ELSE UNCHANGED used
          /\ art' = Discarded /\ Concludes("error") /\ UNCHANGED <<adm, job>>
       \/ Fault /\ Concludes("error") /\ UNCHANGED <<adm, job, art>>
    /\ ThreadSkips

-----------------------------------------------------------------------------
(* Time, and the life of the service process. *)

InReconcile == svc.at \in ReconcilePhases

\* A reconciliation reads the clock once, when it begins: a deadline that passes
\* while it runs is seen by the next one.
DeadlinePasses(r) ==
    /\ ~InReconcile
    /\ \E k \in {"lease", "obs"} :
          /\ IF k = "lease" THEN lease[r] # "none" ELSE obs[r] # "none"
          /\ <<r, k>> \notin overdue
          /\ overdue' = overdue \cup {<<r, k>>}
    /\ UNCHANGED <<clients, loc, files, rows, art, blocked, svc, mail, wire, used>>

Periodic ==
    /\ svc.at = "idle" /\ svc' = Reconciling("periodic")
    /\ UNCHANGED <<clients, loc, overdue, files, rows, art, blocked, mail, wire, used>>

Stop ==
    /\ svc.at = "idle" /\ svc' = [Reconciling("shutdown") EXCEPT !.out = "stopped"]
    /\ UNCHANGED <<clients, loc, overdue, files, rows, art, blocked, mail, wire, used>>

Crash ==
    /\ svc.at # "down" /\ Mishap
    /\ used' = [used EXCEPT !.crashes = @ + 1]
    /\ svc' = [Down EXCEPT !.out = "error"] /\ mail' = <<>> /\ blocked' = FALSE
    /\ UNCHANGED <<clients, loc, overdue, files, rows, art, wire>>

\* Mutated form of the next definition: promoted copies stay.
RecoveredKeeping == art
\* _recover_uncommitted_staging_promotions
RecoveredPromotions ==
    [r \in Requests |-> IF adm[r] = "CLAIMED" /\ art[r] = "promoted" THEN "none" ELSE art[r]]

\* The unit restarts a failed service.  A stopping one has waited for its thread;
\* connections of the old process are gone.
Start ==
    /\ svc.at = "down" /\ mail = <<>>
    /\ art' = RecoveredPromotions
    /\ frames' = {} /\ blocked' = FALSE
    /\ svc' = [Reconciling("startup") EXCEPT !.out = "none"]
    /\ UNCHANGED <<clients, loc, overdue, files, rows, mail, answers, used>>

-----------------------------------------------------------------------------
ClientStep(r) ==
    \/ ClientPrepares(r) \/ ClientPublishes(r) \/ ClientStagingFails(r)
    \/ ClientDiscards(r) \/ ClientRemoves(r) \/ ClientTransfers(r) \/ ClientTransferred(r)
    \/ (\E a \in Args : ClientSends(r, a)) \/ ClientDies(r)
Reconcile ==
    \/ ListPrepare \/ ObservePrepare \/ TakeObservation \/ OpenPreparation \/ JudgeObservation
    \/ DeleteObservation \/ ReviewBundles \/ PassRaises \/ FinishReconcile
Command == Bind \/ Register \/ Claim \/ Submit \/ Consume
Thread == ImportBegins \/ ImportEnds \/ CommitJob
Next ==
    \/ \E r \in Requests : ClientMakes(r) \/ ClientStep(r) \/ DeadlinePasses(r)
    \/ Reconcile \/ Command \/ Thread \/ WaitExpires
    \/ \E f \in frames : Decode(f)
    \/ Periodic \/ Stop \/ Crash \/ Start

Spec == Init /\ [][Next]_vars

\* The event loop and the thread run, maintenance recurs, time passes, a client
\* goes on or ends, and the unit (Restart=on-failure) restarts a failed service.
Fairness ==
    /\ WF_vars(Reconcile \/ Command) /\ WF_vars(Thread) /\ WF_vars(Periodic)
    /\ WF_vars(Start /\ svc.out # "stopped")
    /\ \A r \in Requests : WF_vars(ClientStep(r)) /\ SF_vars(DeadlinePasses(r))
FairSpec == Spec /\ Fairness

-----------------------------------------------------------------------------
(* Properties. *)

Entries == [req : Requests, hidden : BOOLEAN]
Outcomes == {"none", "ok", "error", "stopped"}
EventLoop == [at : {"down", "idle"} \cup ReconcilePhases \cup CommandPhases, trig : Triggers,
              req : Requests \cup {NoRequest}, args : Args \cup {NoArgs},
              todo : SUBSET (Entries \cup Requests), cur : Requests \cup {NoRequest},
              flag : BOOLEAN, out : Outcomes]
Submissions == [req : Requests, args : Args, at : {"queued", "copying", "promoted"},
                live : BOOLEAN, own : BOOLEAN]

TypeOK ==
    /\ client \in [Requests -> ClientStates] /\ loc \in [Requests -> Places]
    /\ lease \in [Requests -> Leases]
    /\ overdue \subseteq (Requests \X {"lease", "obs"})
    /\ obs \in [Requests -> ObservationStates]
    /\ adm \in [Requests -> AdmissionStates]
    /\ bound \in [Requests -> Args \cup {NoArgs}] /\ job \in [Requests -> Args \cup {NoArgs}]
    /\ art \in [Requests -> {"none", "staged", "promoted"}]
    /\ markers \subseteq Requests \cup {NoRequest} /\ blocked \in BOOLEAN
    /\ svc \in EventLoop /\ mail \in Seq(Submissions)
    /\ frames \subseteq [req : Requests, args : Args]
    /\ answers \subseteq [req : Requests, args : Args, out : Outcomes]
    /\ used \in [sends : 0..MaxSends, crashes : 0..MaxMishaps, faults : 0..MaxMishaps]

\* A bundle whose dispatch may have reached the service is removed only when a
\* durable job holds a copy of its payload: consume, the cleanup of the
\* reconciliation and the client's own discard never destroy the only copy.
NothingLost ==
    \A r \in Requests :
        loc[r] \in {"removed", "hidden_admitted"} /\ lease[r] = "DISPATCH_UNCERTAIN"
            => job[r] # NoArgs /\ art[r] = "promoted"

\* A job exists exactly for an admission that says so, and with its input promoted,
\* whatever was abandoned, discarded by a recovery or interrupted by a crash before.
JobBacked ==
    \A r \in Requests :
        /\ (job[r] # NoArgs) <=> (adm[r] \in {"DURABLY_ADMITTED", "CONSUMED"})
        /\ job[r] # NoArgs => art[r] = "promoted"

\* A job has the arguments its request was first decoded with, and a positive answer
\* is given to no others: a replay with changed arguments never gets that job.
ReplayExact ==
    /\ \A r \in Requests : job[r] \in {NoArgs, bound[r]}
    /\ \A a \in answers : a.out = "ok" => job[a.req] = a.args

\* Quarantine is final and real: a row says QUARANTINED only when the bundle lies
\* in quarantine, and no job ever comes of it.
QuarantineKept ==
    \A r \in Requests : adm[r] = "QUARANTINED" => loc[r] = "quarantine" /\ job[r] = NoArgs

\* While the coordinator thread copies the payload for a caller that waits, neither
\* a reconciliation nor the client takes the bundle away.
ImportUndisturbed ==
    mail # <<>> /\ Head1.live /\ Head1.at = "copying" => loc[Head1.req] = "admitted"

\* An input that was promoted without a job is discarded by the thread or by the
\* next start, so that between commands only durable jobs own artifacts, as long as
\* no call fails.  The one exception: the row of an abandoned import was quarantined
\* before the crash that kept the thread from discarding its copy, and start looks
\* at CLAIMED rows only.
NoStrayArtifact ==
    svc.at = "idle" /\ mail = <<>> /\ used.faults = 0 =>
        \A r \in Requests :
            art[r] = "promoted" => job[r] # NoArgs \/ (adm[r] = "QUARANTINED" /\ used.crashes > 0)

\* Nothing a client handed over is lost or left: NothingLost, QuarantineKept and
\* NoStrayArtifact together.
PayloadsKept == NothingLost /\ QuarantineKept /\ NoStrayArtifact

\* A request and its job are one: JobBacked, ReplayExact and ImportUndisturbed
\* together.
RequestsExact == JobBacked /\ ReplayExact /\ ImportUndisturbed

\* While recovery evidence is unresolved no request is admitted: the marker files
\* block the role, however old the pass is that wrote them.
BlockedRefuses ==
    [][\A r \in Requests : adm[r] = "none" /\ adm'[r] # "none" => markers = {}]_vars

\* Nothing that a client published stays in the shared directories: it is consumed,
\* discarded or quarantined, unless the operator stops the service.
Drained ==
    \/ svc.out = "stopped"
    \/ \A r \in Requests : loc[r] \notin {"drop", "admitted", "hidden_drop", "hidden_admitted"}

\* A preparation that its client still holds, or that it publishes while it is looked
\* at, blocks its role at most: reconciliation never takes the service down.
HeldLeaseBlocksOnly ==
    used.faults = 0 => ~(svc.trig = "shutdown" /\ svc.out = "error")
=============================================================================
