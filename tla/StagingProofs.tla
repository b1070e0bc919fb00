--------------------------- MODULE StagingProofs ----------------------------
(***************************************************************************)
(* The safety of Staging, proved for any number of requests, sends, client *)
(* deaths, crashes of the service and failing calls.                       *)
(*                                                                         *)
(* The invariant has three layers.  A lease says how far the client went,  *)
(* so that a bundle whose dispatch is uncertain is moved by the service    *)
(* alone (ClientInv).  A row says where its bundle may be and whether      *)
(* there is a job (RowInv, JobInv).  And each place of the event loop and  *)
(* of the thread says what was established on the way there (the rest): a  *)
(* command is waited for exactly while it may still commit, which is what  *)
(* keeps the thread and the reconciliation apart.                          *)
(***************************************************************************)
EXTENDS Staging, TLAPS

\* A request is not the mark for none; arguments are numbered from one.
Bounds == NoRequest \notin Requests /\ Args \subseteq Nat \ {0} /\ MaxSends \in Nat /\ MaxMishaps \in Nat

\* The lease file follows the client, and the directory the two of them.
ClientInv ==
    \A r \in Requests :
        /\ client[r] \in {"idle", "made", "copying", "cleaning"} => lease[r] = "none"
        /\ client[r] \in {"published", "discarding"} => lease[r] = "PUBLISHED_UNSENT"
        /\ client[r] = "transferring" => lease[r] = "TORN" /\ loc[r] \in {"drop", "quarantine"}
        /\ client[r] = "sending" => lease[r] = "DISPATCH_UNCERTAIN"
        /\ lease[r] = "none" => loc[r] \in {"none", "prepare", "hidden_prepare", "quarantine", "removed"}
        /\ lease[r] # "none" => loc[r] \notin {"none", "prepare", "hidden_prepare"}
        /\ loc[r] = "hidden_drop" => lease[r] = "PUBLISHED_UNSENT"
        /\ client[r] = "cleaning" => loc[r] # "hidden_drop"
        /\ client[r] = "idle" => loc[r] = "none"

Durable == {"DURABLY_ADMITTED", "CONSUMED"}

\* A row says where its bundle is, whether there is a job, and is made of a bundle
\* that was dispatched only.
RowInv ==
    \A r \in Requests :
        /\ adm[r] # "none" => lease[r] = "DISPATCH_UNCERTAIN"
        /\ adm[r] = "none" => /\ loc[r] \notin {"admitted", "hidden_admitted"}
                              /\ loc[r] = "removed" => lease[r] # "DISPATCH_UNCERTAIN"
        /\ adm[r] = "REQUEST_DECODED" => loc[r] \in {"drop", "admitted", "quarantine"}
        /\ adm[r] = "CLAIMED" => loc[r] \in {"admitted", "quarantine"}
        /\ adm[r] \in Durable => loc[r] \in {"admitted", "hidden_admitted", "removed", "quarantine"}
        /\ adm[r] = "QUARANTINED" => loc[r] = "quarantine"

JobInv ==
    \A r \in Requests :
        /\ (job[r] # NoArgs) <=> (adm[r] \in Durable)
        /\ job[r] # NoArgs => art[r] = "promoted" /\ job[r] = bound[r]

\* What the event loop knows at each place of a reconciliation.
LoopInv ==
    /\ svc.at \in {"down", "idle"} => svc.cur = NoRequest
    /\ svc.at \in {"list", "prepare", "observe"} \cup CommandPhases => svc.cur = NoRequest
    /\ svc.at \in {"open", "own", "gone", "delete", "deleting"} => svc.cur \in Requests
    /\ svc.at \in {"prepare", "drop", "admitted"} => svc.todo \subseteq Entries
    /\ svc.at \in {"observe", "open", "own", "gone", "delete", "deleting"} => svc.todo \subseteq Requests
    /\ svc.at \in ReconcilePhases /\ svc.trig \in {"before-command", "after-command"}
          => svc.req \in Requests /\ svc.args \in Args
    /\ svc.at \in CommandPhases =>
          svc.req \in Requests /\ svc.args \in Args /\ svc.trig = "before-command"
    /\ svc.at = "idle" => svc.out = "none"

\* The bundle a reconciliation is settling.
SettleInv ==
    svc.at \in {"drop", "admitted"} /\ svc.cur # NoRequest =>
        \/ loc[svc.cur] \in {"hidden_admitted", "removed"} /\ adm[svc.cur] \in Durable
        \/ loc[svc.cur] = "quarantine" /\ adm[svc.cur] \in {"REQUEST_DECODED", "CLAIMED"}

\* What the command has established when it comes to a phase.
CommandInv ==
    /\ svc.at \in {"bind", "register"} => markers = {}
    /\ svc.at \in CommandPhases \ {"bind"} => bound[svc.req] = svc.args
    /\ svc.at = "claim" => adm[svc.req] = "REQUEST_DECODED" /\ loc[svc.req] = "drop"
    /\ svc.at = "claimed" => adm[svc.req] = "REQUEST_DECODED" /\ loc[svc.req] = "admitted"
    /\ svc.at \in {"submit", "wait"} => adm[svc.req] = "CLAIMED" /\ loc[svc.req] = "admitted"
    /\ svc.at \in {"consume", "consuming", "consumed"} => adm[svc.req] = "DURABLY_ADMITTED"
    /\ svc.at = "consuming" => loc[svc.req] = "hidden_admitted"

AnswerInv ==
    /\ svc.out = "ok" =>
          svc.at \in ReconcilePhases /\ svc.trig = "after-command" /\ job[svc.req] = svc.args
    /\ \A a \in answers : a.out = "ok" => job[a.req] = a.args

\* The thread works on the first command; the last is the one that is waited for, if
\* any is.
MailInv ==
    /\ \A i \in 1..Len(mail) :
          /\ mail[i].live <=> (i = Len(mail) /\ svc.at = "wait")
          /\ i > 1 => mail[i].at = "queued"
          /\ mail[i].at # "promoted" => mail[i].own
          /\ adm[mail[i].req] \in {"CLAIMED", "QUARANTINED"} \cup Durable
    /\ svc.at = "wait" => mail # <<>> /\ mail[Len(mail)].req = svc.req /\ mail[Len(mail)].args = svc.args

\* The copy the thread works on.
ImportInv ==
    mail # <<>> =>
        /\ mail[1].at = "copying" => art[mail[1].req] = "staged"
        /\ mail[1].at = "promoted" => art[mail[1].req] = "promoted"
        /\ mail[1].at = "promoted" /\ mail[1].own => job[mail[1].req] = NoArgs

\* Who will discard a promoted copy that has no job, as long as no call has failed.
StrayInv ==
    used.faults = 0 =>
        \A r \in Requests :
            art[r] = "promoted" /\ job[r] = NoArgs =>
                \/ mail # <<>> /\ mail[1].req = r /\ mail[1].at = "promoted" /\ mail[1].own
                \/ /\ used.crashes > 0
                   /\ \/ adm[r] = "QUARANTINED"
                      \/ svc.at = "down" /\ mail = <<>> /\ adm[r] = "CLAIMED"

StagingInv ==
    /\ ClientInv /\ RowInv /\ JobInv /\ LoopInv /\ SettleInv
    /\ CommandInv /\ AnswerInv /\ MailInv /\ ImportInv /\ StrayInv

-----------------------------------------------------------------------------
(* Types, by group *)

BundlesTyped ==
    /\ client \in [Requests -> ClientStates] /\ loc \in [Requests -> Places]
    /\ lease \in [Requests -> Leases]

DiskTyped ==
    /\ overdue \subseteq (Requests \X {"lease", "obs"}) /\ obs \in [Requests -> ObservationStates]
    /\ markers \subseteq Requests \cup {NoRequest} /\ blocked \in BOOLEAN

RowsTyped ==
    /\ adm \in [Requests -> AdmissionStates]
    /\ bound \in [Requests -> Args \cup {NoArgs}] /\ job \in [Requests -> Args \cup {NoArgs}]
    /\ art \in [Requests -> {"none", "staged", "promoted"}]

LoopTyped == svc \in EventLoop
MailTyped == mail \in Seq(Submissions)

WireTyped ==
    /\ frames \subseteq [req : Requests, args : Args]
    /\ answers \subseteq [req : Requests, args : Args, out : Outcomes]
    /\ used \in [sends : 0..MaxSends, crashes : 0..MaxMishaps, faults : 0..MaxMishaps]

LEMMA TypeParts ==
    TypeOK <=> BundlesTyped /\ DiskTyped /\ RowsTyped /\ LoopTyped /\ MailTyped /\ WireTyped
BY DEF TypeOK, BundlesTyped, DiskTyped, RowsTyped, LoopTyped, MailTyped, WireTyped

LEMMA TypePartsNext ==
    (BundlesTyped' /\ DiskTyped' /\ RowsTyped' /\ LoopTyped' /\ MailTyped' /\ WireTyped') => TypeOK'
BY DEF TypeOK, BundlesTyped, DiskTyped, RowsTyped, LoopTyped, MailTyped, WireTyped

-----------------------------------------------------------------------------
(* What a step does to the event loop *)

\* The loop is at a, for a trigger t, at the observation or bundle c, with the
\* outcome o; the command in progress is the same.
Moves(a, t, c, o) ==
    /\ svc' \in EventLoop /\ svc'.req = svc.req /\ svc'.args = svc.args
    /\ svc'.at = a /\ svc'.trig = t /\ svc'.cur = c /\ svc'.out = o

\* The loop has nothing in hand.
Rests ==
    /\ svc' \in EventLoop /\ svc'.at \in {"down", "idle"} /\ svc'.cur = NoRequest
    /\ svc'.out # "ok" /\ (svc'.at = "idle" => svc'.out = "none")

LEMMA StepMoves ==
    ASSUME svc \in EventLoop, NEW a \in CommandPhases \cup ReconcilePhases, Step(a)
    PROVE  Moves(a, svc.trig, svc.cur, svc.out) /\ svc'.todo = svc.todo
BY DEF Step, Moves, EventLoop

LEMMA ReconcilingFacts ==
    ASSUME svc \in EventLoop, NEW t \in Triggers, NEW o \in Outcomes,
           svc' = [Reconciling(t) EXCEPT !.out = o] \/ (o = svc.out /\ svc' = Reconciling(t))
    PROVE  Moves("list", t, NoRequest, o) /\ svc'.todo = {}
BY DEF Reconciling, Moves, EventLoop, ReconcilePhases

LEMMA RespondMoves ==
    ASSUME svc \in EventLoop, NEW o \in Outcomes, Respond(o)
    PROVE  Moves("list", "after-command", NoRequest, o) /\ svc'.todo = {}
BY ReconcilingFacts DEF Respond, Triggers

LEMMA Next1Moves ==
    ASSUME svc \in EventLoop, NEW e, NEW b \in BOOLEAN, Next1(e, b)
    PROVE  Moves(svc.at, svc.trig, svc.cur, svc.out) /\ svc'.todo = svc.todo \ {e}
BY DEF Next1, Moves, EventLoop

LEMMA DecidedMoves ==
    ASSUME svc \in EventLoop, NEW b \in BOOLEAN, Decided(b)
    PROVE  Moves("observe", svc.trig, NoRequest, svc.out) /\ svc'.todo = svc.todo \ {svc.cur}
BY DEF Decided, Moves, EventLoop, ReconcilePhases

LEMMA TerminalMoves ==
    ASSUME svc \in EventLoop, NEW s, Terminal(s)
    PROVE  Moves("delete", svc.trig, svc.cur, svc.out) /\ svc'.todo = svc.todo
BY DEF Terminal, Moves, EventLoop, ReconcilePhases

LEMMA DownIdle ==
    /\ Down \in EventLoop /\ Idle \in EventLoop
    /\ Down.at = "down" /\ Down.cur = NoRequest /\ Down.out = "none"
    /\ Idle.at = "idle" /\ Idle.cur = NoRequest /\ Idle.out = "none"
BY DEF Down, Idle, EventLoop, Triggers, Outcomes, NoArgs, NoRequest

LEMMA DownRests ==
    ASSUME NEW o \in Outcomes, o # "ok", svc' = [Down EXCEPT !.out = o]
    PROVE  Rests /\ svc'.at = "down"
BY DownIdle DEF Rests, EventLoop

LEMMA IdleRests == ASSUME svc' = Idle PROVE Rests
BY DownIdle DEF Rests

-----------------------------------------------------------------------------
(* The clients *)

\* A step that leaves the event loop, the thread and the rows alone, and moves no
\* bundle that has a row, keeps what is known of them.
LEMMA OutsideFrame ==
    ASSUME TypeOK, StagingInv, UNCHANGED <<adm, bound, job, art, markers, svc, mail, answers>>,
           used'.faults = used.faults, used'.crashes = used.crashes,
           \A q \in Requests : adm[q] # "none" => loc'[q] = loc[q]
    PROVE  JobInv' /\ LoopInv' /\ SettleInv' /\ CommandInv' /\ AnswerInv' /\ MailInv' /\ ImportInv' /\ StrayInv'
<1> USE DEF StagingInv
<1>1. JobInv' /\ LoopInv'
  BY DEF JobInv, LoopInv
<1>2. SettleInv'
  BY DEF SettleInv, LoopInv, TypeOK, EventLoop, Durable
<1>3. CommandInv'
  BY DEF CommandInv, LoopInv, CommandPhases
<1>4. AnswerInv' /\ MailInv' /\ ImportInv'
  BY DEF AnswerInv, MailInv, ImportInv
<1>5. StrayInv'
  BY DEF StrayInv
<1> QED
  BY <1>1, <1>2, <1>3, <1>4, <1>5

LEMMA ClientFrame ==
    ASSUME TypeOK, StagingInv, ClientSkips, BundlesTyped', ClientInv', RowInv',
           \A q \in Requests : adm[q] # "none" => loc'[q] = loc[q],
           WireTyped', used'.faults = used.faults, used'.crashes = used.crashes
    PROVE  TypeOK' /\ StagingInv'
<1>1. UNCHANGED <<overdue, obs, adm, bound, job, art, markers, blocked, svc, mail, answers>>
  BY DEF ClientSkips, rows
<1>2. TypeOK'
  BY <1>1, TypeParts, TypePartsNext DEF DiskTyped, RowsTyped, LoopTyped, MailTyped
<1> QED
  BY <1>1, <1>2, OutsideFrame DEF StagingInv

LEMMA ClientMakesKeeps ==
    ASSUME Bounds, TypeOK, StagingInv, NEW r \in Requests, ClientMakes(r)
    PROVE  TypeOK' /\ StagingInv'
<1>1. BundlesTyped' /\ ClientSkips
  BY DEF ClientMakes, BundlesTyped, TypeOK, Put, ClientStates, Places, Leases
<1>2. WireTyped' /\ used' = used
  BY DEF ClientMakes, WireTyped, TypeOK, ClientSkips
<1>3. ClientInv'
  BY DEF ClientMakes, StagingInv, ClientInv, TypeOK, Put
<1>4. \A q \in Requests : adm[q] # "none" => loc'[q] = loc[q]
  BY DEF ClientMakes, StagingInv, ClientInv, RowInv, TypeOK, Put
<1>5. RowInv'
  BY DEF ClientMakes, StagingInv, ClientInv, RowInv, TypeOK, Put, ClientSkips, rows
<1> QED
  BY <1>1, <1>2, <1>3, <1>4, <1>5, ClientFrame

LEMMA ClientPreparesKeeps ==
    ASSUME Bounds, TypeOK, StagingInv, NEW r \in Requests, ClientPrepares(r)
    PROVE  TypeOK' /\ StagingInv'
<1>1. BundlesTyped' /\ ClientSkips
  BY DEF ClientPrepares, BundlesTyped, TypeOK, Put, ClientStates, Places, Leases
<1>2. WireTyped' /\ used' = used
  BY DEF ClientPrepares, WireTyped, TypeOK, ClientSkips
<1>3. ClientInv'
  BY DEF ClientPrepares, StagingInv, ClientInv, TypeOK, Put
<1>4. \A q \in Requests : adm[q] # "none" => loc'[q] = loc[q]
  BY DEF ClientPrepares, StagingInv, ClientInv, RowInv, TypeOK, Put
<1>5. RowInv'
  BY <1>4 DEF ClientPrepares, StagingInv, ClientInv, RowInv, TypeOK, Put, ClientSkips, rows, Durable,
    AdmissionStates
<1> QED
  BY <1>1, <1>2, <1>3, <1>4, <1>5, ClientFrame

LEMMA ClientPublishesKeeps ==
    ASSUME Bounds, TypeOK, StagingInv, NEW r \in Requests, ClientPublishes(r)
    PROVE  TypeOK' /\ StagingInv'
<1>1. BundlesTyped' /\ ClientSkips
  BY DEF ClientPublishes, BundlesTyped, TypeOK, Put, ClientStates, Places, Leases
<1>2. WireTyped' /\ used' = used
  BY DEF ClientPublishes, WireTyped, TypeOK, ClientSkips
<1>3. ClientInv'
  BY DEF ClientPublishes, StagingInv, ClientInv, TypeOK, Put
<1>4. \A q \in Requests : adm[q] # "none" => loc'[q] = loc[q]
  BY DEF ClientPublishes, StagingInv, ClientInv, RowInv, TypeOK, Put
<1>5. RowInv'
  BY DEF ClientPublishes, StagingInv, ClientInv, RowInv, TypeOK, Put, ClientSkips, rows
<1> QED
  BY <1>1, <1>2, <1>3, <1>4, <1>5, ClientFrame

LEMMA ClientStagingFailsKeeps ==
    ASSUME Bounds, TypeOK, StagingInv, NEW r \in Requests, ClientStagingFails(r)
    PROVE  TypeOK' /\ StagingInv'
<1>1. BundlesTyped' /\ ClientSkips
  BY DEF ClientStagingFails, BundlesTyped, TypeOK, Put, ClientStates, Places, Leases
<1>2. WireTyped' /\ used' = used
  BY DEF ClientStagingFails, WireTyped, TypeOK, ClientSkips
<1>3. ClientInv'
  BY DEF ClientStagingFails, StagingInv, ClientInv, TypeOK, Put
<1>4. \A q \in Requests : adm[q] # "none" => loc'[q] = loc[q]
  BY DEF ClientStagingFails, StagingInv, ClientInv, RowInv, TypeOK, Put
<1>5. RowInv'
  BY DEF ClientStagingFails, StagingInv, ClientInv, RowInv, TypeOK, Put, ClientSkips, rows
<1> QED
  BY <1>1, <1>2, <1>3, <1>4, <1>5, ClientFrame

LEMMA ClientDiscardsKeeps ==
    ASSUME Bounds, TypeOK, StagingInv, NEW r \in Requests, ClientDiscards(r)
    PROVE  TypeOK' /\ StagingInv'
<1>1. BundlesTyped' /\ ClientSkips
  BY DEF ClientDiscards, BundlesTyped, TypeOK, Put, ClientStates, Places, Leases
<1>2. WireTyped' /\ used' = used
  BY DEF ClientDiscards, WireTyped, TypeOK, ClientSkips
<1>3. ClientInv'
  BY DEF ClientDiscards, StagingInv, ClientInv, TypeOK, Put
<1>4. \A q \in Requests : adm[q] # "none" => loc'[q] = loc[q]
  BY DEF ClientDiscards, StagingInv, ClientInv, RowInv, TypeOK, Put
<1>5. RowInv'
  BY DEF ClientDiscards, StagingInv, ClientInv, RowInv, TypeOK, Put, ClientSkips, rows
<1> QED
  BY <1>1, <1>2, <1>3, <1>4, <1>5, ClientFrame

LEMMA ClientRemovesKeeps ==
    ASSUME Bounds, TypeOK, StagingInv, NEW r \in Requests, ClientRemoves(r)
    PROVE  TypeOK' /\ StagingInv'
<1>1. BundlesTyped' /\ ClientSkips
  BY DEF ClientRemoves, BundlesTyped, TypeOK, Put, ClientStates, Places, Leases
<1>2. WireTyped' /\ used' = used
  BY DEF ClientRemoves, WireTyped, TypeOK, ClientSkips
<1>3. ClientInv'
  BY DEF ClientRemoves, StagingInv, ClientInv, TypeOK, Put
<1>4. \A q \in Requests : adm[q] # "none" => loc'[q] = loc[q]
  BY DEF ClientRemoves, StagingInv, ClientInv, RowInv, TypeOK, Put
<1>5. RowInv'
  BY DEF ClientRemoves, StagingInv, ClientInv, RowInv, TypeOK, Put, ClientSkips, rows
<1> QED
  BY <1>1, <1>2, <1>3, <1>4, <1>5, ClientFrame

LEMMA ClientTransfersKeeps ==
    ASSUME Bounds, TypeOK, StagingInv, NEW r \in Requests, ClientTransfers(r)
    PROVE  TypeOK' /\ StagingInv'
<1>1. BundlesTyped' /\ ClientSkips
  BY DEF ClientTransfers, BundlesTyped, TypeOK, Put, ClientStates, Places, Leases
<1>2. WireTyped' /\ used' = used
  BY DEF ClientTransfers, WireTyped, TypeOK, ClientSkips
<1>3. ClientInv'
  BY DEF ClientTransfers, StagingInv, ClientInv, TypeOK, Put
<1>4. \A q \in Requests : adm[q] # "none" => loc'[q] = loc[q]
  BY DEF ClientTransfers, StagingInv, ClientInv, RowInv, TypeOK, Put
<1>5. RowInv'
  BY DEF ClientTransfers, StagingInv, ClientInv, RowInv, TypeOK, Put, ClientSkips, rows
<1> QED
  BY <1>1, <1>2, <1>3, <1>4, <1>5, ClientFrame

LEMMA ClientTransferredKeeps ==
    ASSUME Bounds, TypeOK, StagingInv, NEW r \in Requests, ClientTransferred(r)
    PROVE  TypeOK' /\ StagingInv'
<1>1. BundlesTyped' /\ ClientSkips
  BY DEF ClientTransferred, BundlesTyped, TypeOK, Put, ClientStates, Places, Leases
<1>2. WireTyped' /\ used' = used
  BY DEF ClientTransferred, WireTyped, TypeOK, ClientSkips
<1>3. ClientInv'
  BY DEF ClientTransferred, StagingInv, ClientInv, TypeOK, Put
<1>4. \A q \in Requests : adm[q] # "none" => loc'[q] = loc[q]
  BY DEF ClientTransferred, StagingInv, ClientInv, RowInv, TypeOK, Put
<1>5. RowInv'
  BY DEF ClientTransferred, StagingInv, ClientInv, RowInv, TypeOK, Put, ClientSkips, rows
<1> QED
  BY <1>1, <1>2, <1>3, <1>4, <1>5, ClientFrame

LEMMA ClientSendsKeeps ==
    ASSUME Bounds, TypeOK, StagingInv, NEW r \in Requests, NEW a \in Args, ClientSends(r, a)
    PROVE  TypeOK' /\ StagingInv'
<1>1. BundlesTyped' /\ ClientSkips
  BY DEF ClientSends, BundlesTyped, TypeOK, Put, ClientStates, Places, Leases
<1>2. WireTyped' /\ used'.faults = used.faults /\ used'.crashes = used.crashes
  BY SMTT(30) DEF ClientSends, WireTyped, TypeOK, ClientSkips, Bounds
<1>3. ClientInv'
  BY DEF ClientSends, StagingInv, ClientInv, TypeOK, Put
<1>4. \A q \in Requests : adm[q] # "none" => loc'[q] = loc[q]
  BY DEF ClientSends, StagingInv, ClientInv, RowInv, TypeOK, Put
<1>5. RowInv'
  BY DEF ClientSends, StagingInv, ClientInv, RowInv, TypeOK, Put, ClientSkips, rows
<1> QED
  BY <1>1, <1>2, <1>3, <1>4, <1>5, ClientFrame

LEMMA ClientDiesKeeps ==
    ASSUME Bounds, TypeOK, StagingInv, NEW r \in Requests, ClientDies(r)
    PROVE  TypeOK' /\ StagingInv'
<1>1. BundlesTyped' /\ ClientSkips
  BY DEF ClientDies, BundlesTyped, TypeOK, Put, ClientStates, Places, Leases
<1>2. WireTyped' /\ used' = used
  BY DEF ClientDies, WireTyped, TypeOK, ClientSkips
<1>3. ClientInv'
  BY DEF ClientDies, StagingInv, ClientInv, TypeOK, Put
<1>4. \A q \in Requests : adm[q] # "none" => loc'[q] = loc[q]
  BY DEF ClientDies, StagingInv, ClientInv, RowInv, TypeOK, Put
<1>5. RowInv'
  BY DEF ClientDies, StagingInv, ClientInv, RowInv, TypeOK, Put, ClientSkips, rows
<1> QED
  BY <1>1, <1>2, <1>3, <1>4, <1>5, ClientFrame

LEMMA DeadlinePassesKeeps ==
    ASSUME Bounds, TypeOK, StagingInv, NEW r \in Requests, DeadlinePasses(r)
    PROVE  TypeOK' /\ StagingInv'
<1>1. UNCHANGED <<client, loc, lease, obs, markers, adm, bound, job, art, blocked, svc, mail, frames, answers, used>>
  BY DEF DeadlinePasses, clients, files, rows, wire
<1>2. overdue' \subseteq (Requests \X {"lease", "obs"})
  BY DEF DeadlinePasses, TypeOK
<1>3. TypeOK'
  BY <1>1, <1>2 DEF TypeOK
<1>4. ClientInv' /\ RowInv'
  BY <1>1 DEF StagingInv, ClientInv, RowInv
<1> QED
  BY <1>1, <1>3, <1>4, OutsideFrame DEF StagingInv

-----------------------------------------------------------------------------
(* The event loop, apart from the thread *)

\* A step of a row keeps whether there is a job, what an import relies on, and a
\* quarantine.
RowSteps ==
    \A r \in Requests :
        /\ adm[r] \in Durable <=> adm'[r] \in Durable
        /\ adm[r] \in {"CLAIMED", "QUARANTINED"} \cup Durable
              => adm'[r] \in {"CLAIMED", "QUARANTINED"} \cup Durable
        /\ adm[r] = "QUARANTINED" => adm'[r] = "QUARANTINED"

FaultsGrow ==
    used'.crashes = used.crashes /\ (used'.faults = used.faults \/ used'.faults # 0)

LEMMA MailItem ==
    ASSUME TypeOK, NEW i \in 1..Len(mail)
    PROVE  mail[i] \in Submissions /\ mail[i].req \in Requests /\ mail[i].args \in Args
<1>1. mail[i] \in Submissions
  BY DEF TypeOK
<1> QED
  BY <1>1 DEF Submissions

\* A step of the loop that neither starts nor ends a wait, and that leaves jobs,
\* artifacts and the mailbox alone.
LEMMA LoopKeeps ==
    ASSUME TypeOK, StagingInv, svc.at \notin {"wait", "down"}, svc'.at # "wait",
           UNCHANGED <<job, art, mail>>, RowSteps, FaultsGrow,
           \A r \in Requests : job[r] # NoArgs => bound'[r] = bound[r],
           ClientInv', RowInv', LoopInv', SettleInv', CommandInv', AnswerInv'
    PROVE  StagingInv'
<1> USE DEF StagingInv
<1>1. JobInv'
  BY DEF JobInv, RowSteps
<1>2. MailInv'
  <2>1. \A i \in 1..Len(mail) : mail[i].req \in Requests
    BY MailItem
  <2> QED
    BY <2>1 DEF MailInv, RowSteps
<1>3. ImportInv'
  BY DEF ImportInv
<1>4. StrayInv'
  BY DEF StrayInv, RowSteps, FaultsGrow
<1> QED
  BY <1>1, <1>2, <1>3, <1>4

LEMMA ListedEntries == ASSUME NEW x PROVE Listed(x) \subseteq Entries
<1> SUFFICES ASSUME NEW e \in Listed(x) PROVE e \in Entries
  OBVIOUS
<1>1. PICK r \in Requests, h \in BOOLEAN : e = [req |-> r, hidden |-> h]
  BY Zenon DEF Listed
<1> QED
  BY <1>1 DEF Entries

LEMMA FaultFacts ==
    ASSUME Bounds, TypeOK, Fault
    PROVE  /\ used' \in [sends : 0..MaxSends, crashes : 0..MaxMishaps, faults : 0..MaxMishaps]
           /\ FaultsGrow
BY SMTT(30) DEF Fault, Mishap, TypeOK, Bounds, FaultsGrow

LEMMA MayFaultFacts ==
    ASSUME Bounds, TypeOK, NEW x \in BOOLEAN, MayFault(x)
    PROVE  /\ used' \in [sends : 0..MaxSends, crashes : 0..MaxMishaps, faults : 0..MaxMishaps]
           /\ FaultsGrow
BY FaultFacts DEF MayFault, TypeOK, FaultsGrow

LEMMA SameRows == ASSUME UNCHANGED <<adm, bound>> PROVE RowSteps /\ \A r \in Requests : bound'[r] = bound[r]
BY DEF RowSteps

\* A bundle in the hands of the service goes to quarantine.
LEMMA QuarantineFacts ==
    ASSUME TypeOK, ClientInv, RowInv, NEW e \in Entries, NEW x \in {"prepare", "drop", "admitted"},
           NEW fails \in BOOLEAN, Quarantine(e, x, fails), UNCHANGED <<client, lease, adm>>
    PROVE  /\ loc' \in [Requests -> Places] /\ ClientInv' /\ RowInv'
           /\ markers' \subseteq Requests \cup {NoRequest}
           /\ Held(e, x) /\ ~fails => loc'[e.req] = "quarantine"
<1>1. e.req \in Requests
  BY DEF Entries
<1>2. Held(e, x) => loc[e.req] # "none"
  BY DEF Held, Hidden
<1>3. CASE Held(e, x) /\ ~fails
  <2>1. loc' = Put(loc, e.req, "quarantine") /\ UNCHANGED markers
    BY <1>3 DEF Quarantine
  <2> QED
    BY <1>1, <1>2, <1>3, <2>1 DEF Put, TypeOK, Places, ClientInv, RowInv
<1>4. CASE ~(Held(e, x) /\ ~fails)
  <2>1. UNCHANGED loc /\ RecoveryMarker
    BY <1>4 DEF Quarantine
  <2> QED
    BY <1>4, <2>1 DEF RecoveryMarker, TypeOK, ClientInv, RowInv
<1> QED
  BY <1>3, <1>4

LEMMA SameBundles ==
    ASSUME TypeOK, ClientInv, RowInv, UNCHANGED <<client, loc, lease, adm>>
    PROVE  ClientInv' /\ RowInv'
BY DEF ClientInv, RowInv

\* Within a pass.
Within ==
    /\ svc.at \in ReconcilePhases /\ svc'.at \in ReconcilePhases
    /\ Moves(svc'.at, svc.trig, svc'.cur, svc.out) /\ UNCHANGED answers

LEMMA WithinFacts ==
    ASSUME StagingInv, UNCHANGED job, Within
    PROVE  AnswerInv' /\ CommandInv' /\ LoopTyped'
BY DEF Within, Moves, StagingInv, AnswerInv, CommandInv, LoopTyped, ReconcilePhases, CommandPhases

\* A pass that raises: the next one begins, or the loop rests.
LEMMA FailsFacts ==
    ASSUME TypeOK, StagingInv, svc.at \in ReconcilePhases, Fails, UNCHANGED job
    PROVE  /\ LoopTyped' /\ LoopInv' /\ AnswerInv' /\ CommandInv'
           /\ answers' \subseteq [req : Requests, args : Args, out : Outcomes]
           /\ svc'.at \in {"down", "idle", "list"} /\ svc'.cur = NoRequest
           /\ UNCHANGED <<blocked, mail>>
<1>0. svc \in EventLoop /\ svc.trig \in Triggers /\ UNCHANGED <<blocked, mail>>
  BY DEF TypeOK, EventLoop, Fails
<1>2. CASE svc.trig \in {"startup", "periodic"}
  <2>1. svc' = [Reconciling("shutdown") EXCEPT !.out = "error"] /\ UNCHANGED answers
    BY <1>2 DEF Fails
  <2>2. Moves("list", "shutdown", NoRequest, "error") /\ svc'.todo = {}
    BY <1>0, <2>1, ReconcilingFacts DEF Triggers, Outcomes
  <2>3. LoopTyped' /\ LoopInv' /\ CommandInv'
    BY <1>2, <2>2 DEF Moves, LoopTyped, LoopInv, CommandInv, ReconcilePhases, CommandPhases, StagingInv
  <2>4. AnswerInv' /\ answers' \subseteq [req : Requests, args : Args, out : Outcomes]
    BY <2>1, <2>2 DEF Moves, AnswerInv, StagingInv, TypeOK
  <2> QED
    BY <1>0, <2>2, <2>3, <2>4 DEF Moves
<1>3. CASE svc.trig = "shutdown"
  <2>1. svc' = [Down EXCEPT !.out = svc.out] /\ UNCHANGED answers
    BY <1>3 DEF Fails
  <2>2. Rests
    BY <1>0, <1>3, <2>1, DownRests DEF Outcomes, StagingInv, AnswerInv, EventLoop
  <2>3. LoopTyped' /\ LoopInv' /\ CommandInv'
    BY <2>2 DEF Rests, LoopTyped, LoopInv, CommandInv, ReconcilePhases, CommandPhases
  <2>4. AnswerInv' /\ answers' \subseteq [req : Requests, args : Args, out : Outcomes]
    BY <1>3, <2>1, <2>2 DEF Rests, AnswerInv, StagingInv, Answered, TypeOK, LoopInv, Outcomes
  <2> QED
    BY <1>0, <2>2, <2>3, <2>4 DEF Rests
<1>4. CASE svc.trig = "before-command"
  <2>1. svc' = [Reconciling("after-command") EXCEPT !.out = "error"] /\ UNCHANGED answers
    BY <1>4 DEF Fails
  <2>2. Moves("list", "after-command", NoRequest, "error") /\ svc'.todo = {}
    BY <1>0, <2>1, ReconcilingFacts DEF Triggers, Outcomes
  <2>3. LoopTyped' /\ LoopInv' /\ CommandInv'
    BY <1>4, <2>2 DEF Moves, LoopTyped, LoopInv, CommandInv, ReconcilePhases, CommandPhases, StagingInv
  <2>4. AnswerInv' /\ answers' \subseteq [req : Requests, args : Args, out : Outcomes]
    BY <2>1, <2>2 DEF Moves, AnswerInv, StagingInv, TypeOK
  <2> QED
    BY <1>0, <2>2, <2>3, <2>4 DEF Moves
<1>5. CASE svc.trig = "after-command"
  <2>1. svc' = Idle /\ Answered("error")
    BY <1>5 DEF Fails
  <2>2. Rests
    BY <1>0, <1>5, <2>1, IdleRests DEF Outcomes, StagingInv, AnswerInv, EventLoop
  <2>3. LoopTyped' /\ LoopInv' /\ CommandInv'
    BY <2>2 DEF Rests, LoopTyped, LoopInv, CommandInv, ReconcilePhases, CommandPhases
  <2>4. AnswerInv' /\ answers' \subseteq [req : Requests, args : Args, out : Outcomes]
    BY <1>5, <2>1, <2>2 DEF Rests, AnswerInv, StagingInv, Answered, TypeOK, LoopInv, Outcomes
  <2> QED
    BY <1>0, <2>2, <2>3, <2>4 DEF Rests
<1> QED
  BY <1>0, <1>2, <1>3, <1>4, <1>5 DEF Triggers

DiskTypes ==
    /\ loc \in [Requests -> Places] /\ adm \in [Requests -> AdmissionStates]
    /\ obs \in [Requests -> ObservationStates] /\ markers \subseteq Requests \cup {NoRequest}
    /\ blocked \in BOOLEAN /\ answers \subseteq [req : Requests, args : Args, out : Outcomes]
    /\ used \in [sends : 0..MaxSends, crashes : 0..MaxMishaps, faults : 0..MaxMishaps]

LEMMA PassKeeps ==
    ASSUME TypeOK, StagingInv, svc.at \in ReconcilePhases, svc'.at # "wait", ServiceSkips, UNCHANGED <<art, mail>>,
           DiskTypes', LoopTyped', LoopInv', AnswerInv', CommandInv', SettleInv', ClientInv', RowInv',
           RowSteps, FaultsGrow
    PROVE  TypeOK' /\ StagingInv'
<1>1. UNCHANGED <<client, lease, overdue, bound, job, frames>>
  BY DEF ServiceSkips
<1>2. TypeOK'
  BY <1>1 DEF TypeOK, DiskTypes, LoopTyped
<1>3. svc.at \notin {"wait", "down"}
  BY DEF ReconcilePhases
<1> QED
  BY <1>1, <1>2, <1>3, LoopKeeps

\* The step that looks at one entry of a listing.
LEMMA WithinKeeps ==
    ASSUME TypeOK, StagingInv, ServiceSkips, UNCHANGED <<art, mail>>, Within,
           DiskTypes', LoopInv', SettleInv', ClientInv', RowInv', RowSteps, FaultsGrow
    PROVE  TypeOK' /\ StagingInv'
<1>1. UNCHANGED job
  BY DEF ServiceSkips
<1>2. AnswerInv' /\ CommandInv' /\ LoopTyped'
  BY <1>1, WithinFacts
<1>3. svc.at \in ReconcilePhases /\ svc'.at # "wait"
  BY DEF Within, ReconcilePhases
<1> QED
  BY <1>2, <1>3, PassKeeps

\* A step that leaves the bundles and the rows alone.
LEMMA LookKeeps ==
    ASSUME TypeOK, StagingInv, ServiceSkips, UNCHANGED <<art, mail, loc, adm, used>>, Within,
           obs' \in [Requests -> ObservationStates], markers' \subseteq Requests \cup {NoRequest},
           blocked' = blocked, LoopInv',
           svc'.at \in {"drop", "admitted"} =>
               svc'.cur = NoRequest \/ (svc.at \in {"drop", "admitted"} /\ svc'.cur = svc.cur)
    PROVE  TypeOK' /\ StagingInv'
<1>1. UNCHANGED <<client, lease, bound, answers>>
  BY DEF ServiceSkips, Within
<1>2. ClientInv' /\ RowInv' /\ RowSteps
  BY <1>1, SameBundles, SameRows DEF StagingInv
<1>3. FaultsGrow
  BY DEF FaultsGrow
<1>4. DiskTypes'
  BY <1>1 DEF DiskTypes, TypeOK
<1>5. SettleInv'
  BY DEF SettleInv, StagingInv
<1> QED
  BY <1>2, <1>3, <1>4, <1>5, WithinKeeps

\* One that raises.
LEMMA RaiseKeeps ==
    ASSUME Bounds, TypeOK, StagingInv, svc.at \in ReconcilePhases, Fails, ServiceSkips,
           UNCHANGED <<art, loc, adm, obs, markers>>, UNCHANGED used \/ Fault
    PROVE  TypeOK' /\ StagingInv'
<1>1. UNCHANGED <<client, lease, bound, job>>
  BY DEF ServiceSkips
<1>2. /\ LoopTyped' /\ LoopInv' /\ AnswerInv' /\ CommandInv'
      /\ answers' \subseteq [req : Requests, args : Args, out : Outcomes]
      /\ svc'.at \in {"down", "idle", "list"} /\ svc'.cur = NoRequest
      /\ UNCHANGED <<blocked, mail>>
  BY <1>1, FailsFacts
<1>3. ClientInv' /\ RowInv' /\ RowSteps
  BY <1>1, SameBundles, SameRows DEF StagingInv
<1>4. FaultsGrow /\ used' \in [sends : 0..MaxSends, crashes : 0..MaxMishaps, faults : 0..MaxMishaps]
  BY FaultFacts DEF FaultsGrow, TypeOK
<1>5. DiskTypes'
  BY <1>1, <1>2, <1>4 DEF DiskTypes, TypeOK
<1>6. SettleInv'
  BY <1>2 DEF SettleInv
<1> QED
  BY <1>2, <1>3, <1>4, <1>5, <1>6, PassKeeps

LEMMA ListPrepareKeeps ==
    ASSUME Bounds, TypeOK, StagingInv, ListPrepare
    PROVE  TypeOK' /\ StagingInv'
<1>1. Within /\ svc'.at = "prepare" /\ svc'.cur = svc.cur /\ svc'.todo = Listed("prepare")
  BY ListedEntries DEF ListPrepare, Within, Moves, EventLoop, TypeOK, ReconcilePhases
<1>2. LoopInv'
  BY <1>1, ListedEntries DEF LoopInv, StagingInv, Within, Moves, ListPrepare, ReconcilePhases, CommandPhases
<1> QED
  BY <1>1, <1>2, LookKeeps DEF ListPrepare, files, TypeOK, ServiceSkips

\* What is left of a listing after one entry.
LEMMA Next1Within ==
    ASSUME TypeOK, StagingInv, svc.at \in {"prepare", "observe", "drop", "admitted"}, NEW e, NEW b \in BOOLEAN,
           Next1(e, b), UNCHANGED answers
    PROVE  Within /\ LoopInv' /\ svc'.at = svc.at /\ svc'.cur = svc.cur
<1>1. Moves(svc.at, svc.trig, svc.cur, svc.out) /\ svc'.todo = svc.todo \ {e}
  BY Next1Moves DEF TypeOK
<1>2. Within
  BY <1>1 DEF Within, Moves, ReconcilePhases
<1> QED
  BY <1>1, <1>2 DEF LoopInv, StagingInv, Moves, ReconcilePhases, CommandPhases

LEMMA DecidedWithin ==
    ASSUME TypeOK, StagingInv, svc.at \in {"open", "own", "gone", "delete", "deleting"}, NEW b \in BOOLEAN, Decided(b), UNCHANGED answers
    PROVE  Within /\ LoopInv' /\ svc'.at = "observe" /\ svc'.cur = NoRequest
<1>1. Moves("observe", svc.trig, NoRequest, svc.out) /\ svc'.todo = svc.todo \ {svc.cur}
  BY DecidedMoves DEF TypeOK
<1>2. Within
  BY <1>1 DEF Within, Moves, ReconcilePhases
<1> QED
  BY <1>1, <1>2 DEF LoopInv, StagingInv, Moves, ReconcilePhases, CommandPhases

LEMMA TerminalWithin ==
    ASSUME TypeOK, StagingInv, svc.at \in {"own", "gone"}, NEW s \in TerminalObs, Terminal(s), UNCHANGED answers
    PROVE  /\ Within /\ LoopInv' /\ svc'.at = "delete"
           /\ obs' \in [Requests -> ObservationStates]
<1>1. Moves("delete", svc.trig, svc.cur, svc.out) /\ svc'.todo = svc.todo
  BY TerminalMoves DEF TypeOK
<1>2. Within
  BY <1>1 DEF Within, Moves, ReconcilePhases
<1>3. obs' \in [Requests -> ObservationStates]
  BY DEF Terminal, Put, TypeOK, ObservationStates
<1> QED
  BY <1>1, <1>2, <1>3 DEF LoopInv, StagingInv, Moves, ReconcilePhases, CommandPhases

\* An entry that goes to quarantine, or whose quarantine fails.
LEMMA QuarantineKeeps ==
    ASSUME Bounds, TypeOK, StagingInv, NEW e \in Entries, NEW x \in {"prepare", "drop", "admitted"},
           NEW fails \in BOOLEAN, Quarantine(e, x, fails), MayFault(fails), ServiceSkips,
           UNCHANGED <<adm, art, mail, blocked>>, obs' \in [Requests -> ObservationStates],
           Within, LoopInv', SettleInv'
    PROVE  TypeOK' /\ StagingInv'
<1>1. UNCHANGED <<client, lease, bound, answers>>
  BY DEF ServiceSkips, Within
<1>2. /\ loc' \in [Requests -> Places] /\ ClientInv' /\ RowInv'
      /\ markers' \subseteq Requests \cup {NoRequest}
  BY <1>1, QuarantineFacts DEF StagingInv
<1>3. DiskTypes' /\ FaultsGrow
  BY <1>1, <1>2, MayFaultFacts DEF DiskTypes, TypeOK
<1> QED
  BY <1>1, <1>2, <1>3, SameRows, WithinKeeps

LEMMA ObservePrepareKeeps ==
    ASSUME Bounds, TypeOK, StagingInv, ObservePrepare
    PROVE  TypeOK' /\ StagingInv'
<1>0. /\ svc.at = "prepare" /\ svc.at \in ReconcilePhases /\ UNCHANGED <<adm, art>> /\ ServiceSkips
      /\ svc.cur = NoRequest /\ svc.todo \subseteq Entries
  BY DEF ObservePrepare, ReconcilePhases, StagingInv, LoopInv
<1>1. ASSUME NEW e \in svc.todo, ObserveFirst(e)
      PROVE  TypeOK' /\ StagingInv'
  <2>0. e.req \in Requests /\ UNCHANGED <<loc, markers, used>>
    BY <1>0, <1>1 DEF ObserveFirst, Entries
  <2>1. CASE loc[e.req] = "prepare"
    <3>1. obs' = Put(obs, e.req, "ACTIVE") /\ Next1(e, FALSE) /\ UNCHANGED <<blocked, mail, answers>>
      BY <1>1, <2>1 DEF ObserveFirst
    <3>2. obs' \in [Requests -> ObservationStates] /\ markers' \subseteq Requests \cup {NoRequest}
      BY <2>0, <3>1 DEF Put, TypeOK, ObservationStates
    <3> QED
      BY <1>0, <2>0, <3>1, <3>2, Next1Within, LookKeeps
  <2>2. CASE loc[e.req] # "prepare"
    BY <1>0, <1>1, <2>0, <2>2, RaiseKeeps DEF ObserveFirst
  <2> QED
    BY <2>1, <2>2
<1>2. ASSUME NEW e \in svc.todo, ObserveKnown(e)
      PROVE  TypeOK' /\ StagingInv'
  BY <1>0, <1>2, Next1Within, LookKeeps DEF ObserveKnown, files, TypeOK
<1>3. ASSUME NEW e \in svc.todo, ObserveInvalid(e)
      PROVE  TypeOK' /\ StagingInv'
  <2>1. PICK fails \in BOOLEAN : /\ MayFault(fails) /\ Quarantine(e, "prepare", fails)
                                 /\ Next1(e, ~Quarantined(e, "prepare", fails))
    BY <1>3 DEF ObserveInvalid
  <2>2. Within /\ LoopInv' /\ svc'.at = svc.at
    BY <1>0, <1>3, <2>1, Next1Within DEF ObserveInvalid
  <2>3. SettleInv'
    BY <1>0, <2>2 DEF SettleInv
  <2> QED
    BY <1>0, <1>3, <2>1, <2>2, <2>3, QuarantineKeeps DEF ObserveInvalid, TypeOK
<1>4. ASSUME svc' = [svc EXCEPT !.at = "observe", !.todo = {r \in Requests : obs[r] # "none" /\ r # svc.req}],
             UNCHANGED <<loc, files, blocked, mail, answers, used>>
      PROVE  TypeOK' /\ StagingInv'
  <2>1. Within /\ svc'.at = "observe" /\ svc'.cur = svc.cur /\ svc'.todo \subseteq Requests
    BY <1>0, <1>4, ZenonT(40) DEF Within, Moves, EventLoop, TypeOK, ReconcilePhases
  <2>2. LoopInv'
    BY <1>0, <2>1 DEF LoopInv, StagingInv, Within, Moves, ReconcilePhases, CommandPhases
  <2> QED
    BY <1>0, <1>4, <2>1, <2>2, LookKeeps DEF files, TypeOK
<1> QED
  BY <1>1, <1>2, <1>3, <1>4 DEF ObservePrepare

LEMMA TakeObservationKeeps ==
    ASSUME Bounds, TypeOK, StagingInv, TakeObservation
    PROVE  TypeOK' /\ StagingInv'
<1>0. /\ svc.at = "observe" /\ UNCHANGED <<loc, obs, markers, adm, art, blocked, mail, answers, used>> /\ ServiceSkips
      /\ svc.cur = NoRequest /\ svc.todo \subseteq Requests
  BY DEF TakeObservation, files, StagingInv, LoopInv
<1>1. ASSUME NEW r \in svc.todo, Next1(r, TRUE)
      PROVE  TypeOK' /\ StagingInv'
  BY <1>0, <1>1, Next1Within, LookKeeps DEF TypeOK
<1>2. ASSUME NEW r \in svc.todo, NEW a \in {"open", "gone", "delete"}, svc' = [svc EXCEPT !.cur = r, !.at = a]
      PROVE  TypeOK' /\ StagingInv'
  <2>1. Within /\ svc'.at = a /\ svc'.cur = r /\ svc'.todo = svc.todo
    BY <1>0, <1>2 DEF Within, Moves, EventLoop, TypeOK, ReconcilePhases
  <2>2. LoopInv'
    BY <1>0, <2>1 DEF LoopInv, StagingInv, Within, Moves, ReconcilePhases, CommandPhases
  <2> QED
    BY <1>0, <2>1, <2>2, LookKeeps DEF TypeOK
<1>3. ASSUME svc' = [svc EXCEPT !.at = "drop", !.todo = Listed("drop")]
      PROVE  TypeOK' /\ StagingInv'
  <2>1. Within /\ svc'.at = "drop" /\ svc'.cur = svc.cur /\ svc'.todo \subseteq Entries
    BY <1>0, <1>3, ListedEntries DEF Within, Moves, EventLoop, TypeOK, ReconcilePhases
  <2>2. LoopInv'
    BY <1>0, <2>1 DEF LoopInv, StagingInv, Within, Moves, ReconcilePhases, CommandPhases
  <2> QED
    BY <1>0, <2>1, <2>2, LookKeeps DEF TypeOK
<1>4. ASSUME NEW r \in svc.todo,
             IF obs[r] \in TerminalObs
             THEN IF r \in markers
                  THEN Next1(r, TRUE)
                  ELSE svc' = [svc EXCEPT !.at = "delete", !.cur = r]
             ELSE svc' = [svc EXCEPT !.cur = r, !.at = IF loc[r] = "prepare" THEN "open" ELSE "gone"]
      PROVE  TypeOK' /\ StagingInv'
  <2>1. [svc EXCEPT !.at = "delete", !.cur = r] = [svc EXCEPT !.cur = r, !.at = "delete"]
    BY DEF TypeOK, EventLoop
  <2> QED
    BY <1>1, <1>2, <1>4, <2>1
<1> QED
  BY <1>3, <1>4, ZenonT(40) DEF TakeObservation

LEMMA OpenPreparationKeeps ==
    ASSUME Bounds, TypeOK, StagingInv, OpenPreparation
    PROVE  TypeOK' /\ StagingInv'
<1>0. /\ svc.at = "open" /\ svc.at \in ReconcilePhases /\ UNCHANGED <<loc, adm, art, used>> /\ ServiceSkips
      /\ svc.cur \in Requests
  BY DEF OpenPreparation, StagingInv, LoopInv, ReconcilePhases
<1>1. CASE RecoveryMarker /\ Decided(TRUE) /\ UNCHANGED <<obs, blocked, mail, answers>>
  BY <1>0, <1>1, DecidedWithin, LookKeeps DEF RecoveryMarker, TypeOK
<1>2. CASE svc' = [svc EXCEPT !.at = "own"] /\ UNCHANGED <<obs, markers, blocked, mail, answers>>
  <2>1. Within /\ svc'.at = "own" /\ svc'.cur = svc.cur /\ svc'.todo = svc.todo
    BY <1>0, <1>2 DEF Within, Moves, EventLoop, TypeOK, ReconcilePhases
  <2>2. LoopInv'
    BY <1>0, <2>1 DEF LoopInv, StagingInv, Within, Moves, ReconcilePhases, CommandPhases
  <2> QED
    BY <1>0, <1>2, <2>1, <2>2, LookKeeps DEF TypeOK
<1>3. CASE Decided(TRUE) /\ UNCHANGED <<obs, markers, blocked, mail, answers>>
  BY <1>0, <1>3, DecidedWithin, LookKeeps DEF TypeOK
<1>4. CASE obs' = Put(obs, svc.cur, "HELD_EXPIRED") /\ Decided(TRUE) /\ UNCHANGED <<markers, blocked, mail, answers>>
  <2>1. obs' \in [Requests -> ObservationStates]
    BY <1>0, <1>4 DEF Put, TypeOK, ObservationStates
  <2> QED
    BY <1>0, <1>4, <2>1, DecidedWithin, LookKeeps DEF TypeOK
<1>5. CASE Fails /\ UNCHANGED <<obs, markers>>
  BY <1>0, <1>5, RaiseKeeps
<1> QED
  BY <1>1, <1>2, <1>3, <1>4, <1>5 DEF OpenPreparation, files

LEMMA JudgeObservationKeeps ==
    ASSUME Bounds, TypeOK, StagingInv, JudgeObservation
    PROVE  TypeOK' /\ StagingInv'
<1>0. /\ svc.at \in {"gone", "own"} /\ UNCHANGED <<adm, art, blocked, mail, answers>> /\ ServiceSkips
      /\ svc.cur \in Requests
  BY DEF JudgeObservation, StagingInv, LoopInv
<1> DEFINE e == [req |-> svc.cur, hidden |-> FALSE]
<1>1. ASSUME NEW s \in TerminalObs, Terminal(s), UNCHANGED <<loc, markers, used>>
      PROVE  TypeOK' /\ StagingInv'
  BY <1>0, <1>1, TerminalWithin, LookKeeps DEF TypeOK
<1>2. CASE Decided(TRUE) /\ UNCHANGED <<obs, loc, markers, used>>
  BY <1>0, <1>2, DecidedWithin, LookKeeps DEF TypeOK
<1>3. ASSUME NEW fails \in BOOLEAN, MayFault(fails), Quarantine(e, "prepare", fails),
             IF fails THEN Decided(TRUE) /\ UNCHANGED obs ELSE Terminal("QUARANTINED")
      PROVE  TypeOK' /\ StagingInv'
  <2>1. e \in Entries
    BY <1>0 DEF Entries
  <2>2. /\ Within /\ LoopInv' /\ svc'.at \in {"observe", "delete"}
        /\ obs' \in [Requests -> ObservationStates]
    BY <1>0, <1>3, DecidedWithin, TerminalWithin DEF TerminalObs, TypeOK
  <2>3. SettleInv'
    BY <2>2 DEF SettleInv
  <2> HIDE DEF e
  <2> QED
    BY <1>0, <1>3, <2>1, <2>2, <2>3, QuarantineKeeps
<1> QED
  BY <1>1, <1>2, <1>3 DEF JudgeObservation, TerminalObs

LEMMA DeleteObservationKeeps ==
    ASSUME Bounds, TypeOK, StagingInv, DeleteObservation
    PROVE  TypeOK' /\ StagingInv'
<1>0. /\ svc.at \in {"delete", "deleting"} /\ UNCHANGED <<loc, adm, art, blocked, mail, answers, used>> /\ ServiceSkips
      /\ svc.cur \in Requests
  BY DEF DeleteObservation, StagingInv, LoopInv
<1>1. CASE markers' = markers \cup {svc.cur} /\ svc' = [svc EXCEPT !.at = "deleting"] /\ UNCHANGED obs
  <2>1. Within /\ svc'.at = "deleting" /\ svc'.cur = svc.cur /\ svc'.todo = svc.todo
    BY <1>0, <1>1 DEF Within, Moves, EventLoop, TypeOK, ReconcilePhases
  <2>2. LoopInv'
    BY <1>0, <2>1 DEF LoopInv, StagingInv, Within, Moves, ReconcilePhases, CommandPhases
  <2> QED
    BY <1>0, <1>1, <2>1, <2>2, LookKeeps DEF TypeOK
<1>2. CASE obs' = Put(obs, svc.cur, "none") /\ markers' = markers \ {svc.cur} /\ Decided(FALSE)
  <2>1. obs' \in [Requests -> ObservationStates]
    BY <1>0, <1>2 DEF Put, TypeOK, ObservationStates
  <2> QED
    BY <1>0, <1>2, <2>1, DecidedWithin, LookKeeps DEF TypeOK
<1> QED
  BY <1>1, <1>2 DEF DeleteObservation

\* One bundle of the drop or of the admitted directory.
LEMMA ReviewBundleKeeps ==
    ASSUME Bounds, TypeOK, StagingInv, svc.at \in {"drop", "admitted"}, svc.cur = NoRequest,
           NEW e \in svc.todo, ReviewBundle(e, svc.at),
           UNCHANGED <<adm, obs, art, blocked, mail, answers>>, ServiceSkips
    PROVE  TypeOK' /\ StagingInv'
<1>0. e \in Entries /\ e.req \in Requests /\ obs' \in [Requests -> ObservationStates]
      /\ svc.at \in {"prepare", "drop", "admitted"}
  BY DEF StagingInv, LoopInv, Entries, TypeOK
<1>1. ASSUME NEW fails \in BOOLEAN, MayFault(fails), Quarantine(e, svc.at, fails),
             Next1(e, ~Quarantined(e, svc.at, fails))
      PROVE  TypeOK' /\ StagingInv'
  <2>1. Within /\ LoopInv' /\ svc'.cur = NoRequest
    BY <1>1, Next1Within
  <2>2. SettleInv'
    BY <2>1 DEF SettleInv
  <2> QED
    BY <1>0, <1>1, <2>1, <2>2, QuarantineKeeps
<1>2. ASSUME NEW fails \in BOOLEAN, MayFault(fails), RecoveryMarker, Next1(e, TRUE), UNCHANGED loc
      PROVE  TypeOK' /\ StagingInv'
  <2>1. Within /\ LoopInv' /\ svc'.cur = NoRequest
    BY <1>2, Next1Within
  <2>2. SettleInv'
    BY <2>1 DEF SettleInv
  <2>3. ClientInv' /\ RowInv' /\ RowSteps
    BY <1>2, SameBundles DEF StagingInv, ServiceSkips, RowSteps
  <2>4. DiskTypes' /\ FaultsGrow
    BY <1>2, <1>0, MayFaultFacts DEF DiskTypes, TypeOK, RecoveryMarker
  <2> QED
    BY <2>1, <2>2, <2>3, <2>4, WithinKeeps
<1>3. ASSUME ~Damaged(e, svc.at), RemovesBundle(e, svc.at), UNCHANGED used,
             loc' = Put(loc, e.req, Hidden(svc.at)), UNCHANGED markers,
             svc' = [svc EXCEPT !.todo = @ \ {e}, !.cur = e.req]
      PROVE  TypeOK' /\ StagingInv'
  <2>1. svc.at = "admitted" /\ adm[e.req] \in Durable /\ Hidden(svc.at) = "hidden_admitted"
    BY <1>3 DEF RemovesBundle, Durable, Hidden
  <2>2. /\ loc' \in [Requests -> Places] /\ loc'[e.req] = "hidden_admitted"
        /\ \A q \in Requests : q # e.req => loc'[q] = loc[q]
    BY <1>0, <1>3, <2>1 DEF Put, TypeOK, Places
  <2>3. UNCHANGED <<client, lease, adm>> /\ lease[e.req] = "DISPATCH_UNCERTAIN"
    BY <1>0, <2>1 DEF ServiceSkips, StagingInv, RowInv, Durable
  <2>4. ClientInv'
    BY <1>0, <2>2, <2>3 DEF ClientInv, StagingInv, TypeOK
  <2>5. RowInv'
    BY <1>0, <2>1, <2>2, <2>3 DEF RowInv, StagingInv, Durable
  <2>6. Within /\ svc'.at = svc.at /\ svc'.cur = e.req /\ svc'.todo \subseteq svc.todo
    BY <1>0, <1>3, <2>1 DEF Within, Moves, EventLoop, TypeOK, ReconcilePhases
  <2>7. LoopInv'
    BY <1>0, <2>1, <2>6 DEF LoopInv, StagingInv, Within, Moves, ReconcilePhases, CommandPhases
  <2>8. SettleInv'
    BY <1>0, <2>1, <2>2, <2>3, <2>6 DEF SettleInv
  <2>9. DiskTypes' /\ FaultsGrow /\ RowSteps
    BY <1>0, <1>3, <2>2 DEF DiskTypes, TypeOK, FaultsGrow, RowSteps
  <2> QED
    BY <2>4, <2>5, <2>6, <2>7, <2>8, <2>9, WithinKeeps
<1>4. ASSUME Next1(e, FALSE), UNCHANGED <<loc, markers, used>>
      PROVE  TypeOK' /\ StagingInv'
  BY <1>0, <1>4, Next1Within, LookKeeps DEF TypeOK
<1>5. ASSUME NEW fails \in BOOLEAN, ~Damaged(e, svc.at), ~RemovesBundle(e, svc.at),
             MayFault(fails), Quarantine(e, svc.at, fails),
             svc' = [svc EXCEPT !.todo = @ \ {e}, !.flag = @ \/ fails, !.cur = Recorded(e, fails)]
      PROVE  TypeOK' /\ StagingInv'
  <2>1. Held(e, svc.at) /\ loc[e.req] = svc.at
    BY <1>5 DEF Damaged, Held
  <2>2. Recorded(e, fails) \in Requests \cup {NoRequest}
    BY <1>0 DEF Recorded
  <2>3. Within /\ svc'.at = svc.at /\ svc'.cur = Recorded(e, fails) /\ svc'.todo \subseteq svc.todo
    BY <1>0, <1>5, <2>2 DEF Within, Moves, EventLoop, TypeOK, ReconcilePhases
  <2>4. LoopInv'
    BY <1>0, <2>3 DEF LoopInv, StagingInv, Within, Moves, ReconcilePhases, CommandPhases
  <2>5. SettleInv'
    <3>1. ~fails => loc'[e.req] = "quarantine"
      BY <1>0, <1>5, <2>1, QuarantineFacts DEF StagingInv, ServiceSkips
    <3>2. adm[e.req] \in {"none", "REQUEST_DECODED", "CLAIMED"}
      BY <1>0, <1>5, <2>1 DEF StagingInv, RowInv, RemovesBundle, TypeOK, AdmissionStates, Durable
    <3> QED
      BY <2>3, <3>1, <3>2 DEF SettleInv, Recorded
  <2> QED
    BY <1>0, <1>5, <2>3, <2>4, <2>5, QuarantineKeeps
<1> QED
  BY <1>1, <1>2, <1>3, <1>4, <1>5 DEF ReviewBundle, MayFault

LEMMA SettleBundleKeeps ==
    ASSUME Bounds, TypeOK, StagingInv, svc.at \in {"drop", "admitted"}, svc.cur # NoRequest, SettleBundle(svc.cur),
           UNCHANGED <<markers, used, obs, art, blocked, mail, answers>>, ServiceSkips
    PROVE  TypeOK' /\ StagingInv'
<1>0. svc.cur \in Requests /\ adm[svc.cur] # "none" /\ lease[svc.cur] = "DISPATCH_UNCERTAIN"
      /\ UNCHANGED <<client, lease>> /\ svc.at \in ReconcilePhases
  BY DEF TypeOK, EventLoop, StagingInv, SettleInv, RowInv, Durable, ServiceSkips, ReconcilePhases
<1>1. CASE loc[svc.cur] = "hidden_admitted" /\ loc' = Put(loc, svc.cur, "removed") /\ UNCHANGED <<adm, svc>>
  <2>1. /\ loc' \in [Requests -> Places] /\ loc'[svc.cur] = "removed" /\ adm[svc.cur] \in Durable
        /\ \A q \in Requests : q # svc.cur => loc'[q] = loc[q]
    BY <1>0, <1>1 DEF Put, TypeOK, Places, StagingInv, SettleInv
  <2>2. ClientInv'
    BY <1>0, <2>1 DEF ClientInv, StagingInv, TypeOK
  <2>3. RowInv'
    BY <1>0, <1>1, <2>1 DEF RowInv, StagingInv, Durable
  <2>4. Within /\ LoopInv' /\ SettleInv'
    BY <1>0, <1>1, <2>1 DEF Within, Moves, TypeOK, LoopInv, StagingInv, SettleInv
  <2>5. DiskTypes' /\ FaultsGrow /\ RowSteps
    BY <1>1, <2>1 DEF DiskTypes, TypeOK, FaultsGrow, RowSteps
  <2> QED
    BY <2>2, <2>3, <2>4, <2>5, WithinKeeps
<1>2. CASE /\ loc[svc.cur] # "hidden_admitted"
           /\ adm' = Put(adm, svc.cur, IF loc[svc.cur] = "removed" THEN "CONSUMED" ELSE QuarantineRow)
           /\ svc' = [svc EXCEPT !.cur = NoRequest] /\ UNCHANGED loc
  <2>1. /\ adm' \in [Requests -> AdmissionStates] /\ \A q \in Requests : q # svc.cur => adm'[q] = adm[q]
        /\ \/ adm'[svc.cur] = "CONSUMED" /\ adm[svc.cur] \in Durable /\ loc[svc.cur] = "removed"
           \/ /\ adm'[svc.cur] = "QUARANTINED" /\ adm[svc.cur] \in {"REQUEST_DECODED", "CLAIMED"}
              /\ loc[svc.cur] = "quarantine"
    BY <1>0, <1>2 DEF Put, TypeOK, AdmissionStates, StagingInv, SettleInv, QuarantineRow
  <2>2. ClientInv'
    BY <1>0, <1>2 DEF ClientInv, StagingInv
  <2>3. RowInv'
    BY <1>0, <1>2, <2>1 DEF RowInv, StagingInv, Durable
  <2>4. Within /\ svc'.cur = NoRequest /\ svc'.at = svc.at /\ svc'.todo = svc.todo
    BY <1>0, <1>2 DEF Within, Moves, TypeOK, EventLoop
  <2>5. LoopInv' /\ SettleInv'
    BY <1>0, <2>4 DEF LoopInv, SettleInv, StagingInv, Within, Moves, ReconcilePhases, CommandPhases
  <2>6. RowSteps
    BY <2>1 DEF RowSteps, Durable
  <2>7. DiskTypes' /\ FaultsGrow
    BY <1>2, <2>1 DEF DiskTypes, TypeOK, FaultsGrow
  <2> QED
    BY <2>2, <2>3, <2>4, <2>5, <2>6, <2>7, WithinKeeps
<1> QED
  BY <1>1, <1>2 DEF SettleBundle

LEMMA ReviewBundlesKeeps ==
    ASSUME Bounds, TypeOK, StagingInv, ReviewBundles
    PROVE  TypeOK' /\ StagingInv'
<1>0. svc.at \in {"drop", "admitted"} /\ UNCHANGED <<obs, art, blocked, mail, answers>> /\ ServiceSkips
  BY DEF ReviewBundles
<1>1. ASSUME svc' = [svc EXCEPT !.at = "admitted", !.todo = Listed("admitted")], svc.cur = NoRequest,
             UNCHANGED <<loc, adm, markers, used>>
      PROVE  TypeOK' /\ StagingInv'
  <2>1. Within /\ svc'.at = "admitted" /\ svc'.cur = svc.cur /\ svc'.todo \subseteq Entries
    BY <1>0, <1>1, ListedEntries DEF Within, Moves, EventLoop, TypeOK, ReconcilePhases
  <2>2. LoopInv'
    BY <1>0, <2>1 DEF LoopInv, StagingInv, Within, Moves, ReconcilePhases, CommandPhases
  <2> QED
    BY <1>0, <1>1, <2>1, <2>2, LookKeeps DEF TypeOK
<1> QED
  BY <1>0, <1>1, ReviewBundleKeeps, SettleBundleKeeps DEF ReviewBundles

LEMMA PassRaisesKeeps ==
    ASSUME Bounds, TypeOK, StagingInv, PassRaises
    PROVE  TypeOK' /\ StagingInv'
<1>1. svc.at \in ReconcilePhases /\ Fails /\ UNCHANGED <<loc, obs, markers, adm, art>> /\ ServiceSkips
  BY DEF PassRaises, ReconcilePhases, files
<1>2. UNCHANGED used \/ Fault
  BY DEF PassRaises
<1> QED
  BY <1>1, <1>2, RaiseKeeps

LEMMA FinishReconcileKeeps ==
    ASSUME Bounds, TypeOK, StagingInv, FinishReconcile
    PROVE  TypeOK' /\ StagingInv'
<1>0. /\ svc.at = "admitted" /\ svc.at \in ReconcilePhases /\ svc.cur = NoRequest /\ svc.todo = {}
      /\ UNCHANGED <<loc, obs, markers, adm, art, mail, used>> /\ ServiceSkips
      /\ svc \in EventLoop /\ svc.trig \in Triggers /\ blocked' = RoleBlocked /\ RoleBlocked \in BOOLEAN
  BY DEF FinishReconcile, ReconcilePhases, files, TypeOK, EventLoop, RoleBlocked
<1>1. ClientInv' /\ RowInv' /\ RowSteps /\ FaultsGrow
  BY <1>0, SameBundles DEF StagingInv, ServiceSkips, RowSteps, FaultsGrow
<1>2. ASSUME Rests \/ Moves("list", "after-command", NoRequest, "error") \/ Moves("bind", svc.trig, NoRequest, svc.out),
             LoopInv', AnswerInv', CommandInv', answers' \subseteq [req : Requests, args : Args, out : Outcomes]
      PROVE  TypeOK' /\ StagingInv'
  <2>1. LoopTyped' /\ svc'.at # "wait" /\ SettleInv'
    BY <1>2 DEF Rests, Moves, LoopTyped, SettleInv
  <2>2. DiskTypes'
    BY <1>0, <1>2 DEF DiskTypes, TypeOK
  <2> QED
    BY <1>0, <1>1, <1>2, <2>1, <2>2, PassKeeps
<1>3. CASE svc.trig \in {"startup", "periodic", "shutdown", "after-command"}
  <2>1. /\ \/ svc' = Idle
           \/ svc.trig = "shutdown" /\ svc' = [Down EXCEPT !.out = svc.out]
        /\ UNCHANGED answers \/ (svc.trig = "after-command" /\ Answered(svc.out))
    BY <1>3 DEF FinishReconcile
  <2>2. Rests
    BY <1>0, <2>1, IdleRests, DownRests DEF StagingInv, AnswerInv, EventLoop
  <2>3. LoopInv' /\ CommandInv'
    BY <2>2 DEF Rests, LoopInv, CommandInv, ReconcilePhases, CommandPhases
  <2>4. answers' \subseteq [req : Requests, args : Args, out : Outcomes]
    BY <1>0, <2>1 DEF TypeOK, Answered, StagingInv, LoopInv, EventLoop
  <2>5. AnswerInv'
    BY <1>0, <2>1, <2>2 DEF AnswerInv, StagingInv, Answered, Rests, ServiceSkips
  <2> QED
    BY <1>2, <2>2, <2>3, <2>4, <2>5
<1>4. CASE svc.trig = "before-command"
  <2>0. UNCHANGED answers /\ svc.req \in Requests /\ svc.args \in Args /\ svc.out # "ok"
    BY <1>0, <1>4 DEF FinishReconcile, StagingInv, LoopInv, AnswerInv
  <2>1. CASE RoleBlocked
    <3>1. svc' = [Reconciling("after-command") EXCEPT !.out = "error"]
      BY <1>0, <1>4, <2>1 DEF FinishReconcile
    <3>2. Moves("list", "after-command", NoRequest, "error") /\ svc'.todo = {}
      BY <1>0, <3>1, ReconcilingFacts DEF Triggers, Outcomes
    <3>3. LoopInv' /\ CommandInv' /\ AnswerInv'
      BY <1>0, <2>0, <3>2 DEF LoopInv, CommandInv, AnswerInv, StagingInv, Moves, ReconcilePhases, CommandPhases, ServiceSkips
    <3> QED
      BY <1>2, <2>0, <3>2, <3>3 DEF TypeOK
  <2>2. CASE ~RoleBlocked
    <3>1. svc' = [svc EXCEPT !.at = "bind"] /\ markers = {}
      BY <1>0, <1>4, <2>2 DEF FinishReconcile, RoleBlocked
    <3>2. Moves("bind", svc.trig, NoRequest, svc.out)
      BY <1>0, <3>1 DEF Moves, EventLoop, CommandPhases
    <3>3. LoopInv' /\ CommandInv' /\ AnswerInv'
      BY <1>0, <1>4, <2>0, <3>1, <3>2 DEF LoopInv, CommandInv, AnswerInv, StagingInv, Moves, ReconcilePhases,
        CommandPhases, ServiceSkips
    <3> QED
      BY <1>2, <2>0, <3>2, <3>3 DEF TypeOK
  <2> QED
    BY <2>1, <2>2
<1> QED
  BY <1>0, <1>3, <1>4 DEF Triggers

-----------------------------------------------------------------------------
(* The command *)

LEMMA RespondFacts ==
    ASSUME TypeOK, StagingInv, svc.at \in CommandPhases, NEW o \in Outcomes, Respond(o), UNCHANGED <<job, answers>>,
           o = "ok" => job[svc.req] = svc.args
    PROVE  /\ LoopTyped' /\ LoopInv' /\ CommandInv' /\ AnswerInv' /\ SettleInv'
           /\ svc'.at = "list" /\ svc'.req = svc.req /\ svc'.args = svc.args
<1>1. Moves("list", "after-command", NoRequest, o) /\ svc'.todo = {}
  BY RespondMoves DEF TypeOK
<1>2. svc.req \in Requests /\ svc.args \in Args
  BY DEF StagingInv, LoopInv
<1> QED
  BY <1>1, <1>2 DEF Moves, LoopTyped, LoopInv, CommandInv, AnswerInv, SettleInv, StagingInv, ReconcilePhases, CommandPhases

LEMMA StepFacts ==
    ASSUME TypeOK, StagingInv, svc.at \in CommandPhases, NEW a \in CommandPhases, Step(a), UNCHANGED <<job, answers>>
    PROVE  /\ LoopTyped' /\ LoopInv' /\ AnswerInv' /\ SettleInv'
           /\ svc'.at = a /\ svc'.req = svc.req /\ svc'.args = svc.args
<1>1. Moves(a, svc.trig, svc.cur, svc.out) /\ svc'.todo = svc.todo
  BY StepMoves DEF TypeOK
<1>2. svc.out # "ok"
  BY DEF StagingInv, AnswerInv, CommandPhases, ReconcilePhases
<1> QED
  BY <1>1, <1>2 DEF Moves, LoopTyped, LoopInv, AnswerInv, SettleInv, StagingInv, ReconcilePhases, CommandPhases

\* A step of the command, or one that begins something from idle.
LEMMA CommandKeeps ==
    ASSUME TypeOK, StagingInv, svc.at \notin {"wait", "down"}, svc'.at # "wait", CommandSkips, UNCHANGED <<job, art, mail>>,
           loc' \in [Requests -> Places], RowsTyped', LoopTyped', WireTyped', RowSteps, FaultsGrow,
           \A r \in Requests : job[r] # NoArgs => bound'[r] = bound[r],
           ClientInv', RowInv', LoopInv', SettleInv', CommandInv', AnswerInv'
    PROVE  TypeOK' /\ StagingInv'
<1>1. UNCHANGED <<client, lease, overdue, obs, markers, blocked, answers>>
  BY DEF CommandSkips, clients, files
<1>2. TypeOK'
  BY <1>1, TypeParts, TypePartsNext DEF BundlesTyped, DiskTyped, MailTyped
<1> QED
  BY <1>2, LoopKeeps

LEMMA SkipFacts ==
    ASSUME CommandSkips
    PROVE  UNCHANGED <<client, lease, overdue, obs, markers, blocked, answers>>
BY DEF CommandSkips, clients, files

\* One that leaves the directories and the rows alone.
LEMMA PlainKeeps ==
    ASSUME TypeOK, StagingInv, svc.at \notin {"wait", "down"}, svc'.at # "wait", CommandSkips,
           UNCHANGED <<loc, adm, bound, job, art, mail>>,
           LoopTyped', WireTyped', FaultsGrow, LoopInv', SettleInv', CommandInv', AnswerInv'
    PROVE  TypeOK' /\ StagingInv'
<1>1. ClientInv' /\ RowInv'
  BY SkipFacts, SameBundles DEF StagingInv
<1>2. loc' \in [Requests -> Places] /\ RowsTyped'
  BY DEF TypeOK, RowsTyped
<1> QED
  BY <1>1, <1>2, SameRows, CommandKeeps

LEMMA SameWire == ASSUME TypeOK, UNCHANGED <<frames, answers, used>> PROVE WireTyped' /\ FaultsGrow
BY DEF TypeOK, WireTyped, FaultsGrow

LEMMA DecodeKeeps ==
    ASSUME Bounds, TypeOK, StagingInv, NEW f \in frames, Decode(f)
    PROVE  TypeOK' /\ StagingInv'
<1>0. /\ svc.at = "idle" /\ frames' = frames \ {f} /\ CommandSkips
      /\ svc' = [Reconciling("before-command") EXCEPT !.req = f.req, !.args = f.args]
      /\ UNCHANGED <<loc, adm, bound, job, art, mail, used>> /\ UNCHANGED answers
      /\ f.req \in Requests /\ f.args \in Args
  BY DEF Decode, rows, CommandSkips, TypeOK
<1>1. /\ svc' \in EventLoop /\ svc'.at = "list" /\ svc'.trig = "before-command" /\ svc'.req = f.req
      /\ svc'.args = f.args /\ svc'.cur = NoRequest /\ svc'.out = svc.out /\ svc'.todo = {}
  BY <1>0 DEF Reconciling, EventLoop, TypeOK, Triggers, ReconcilePhases
<1>2. svc.out = "none"
  BY <1>0 DEF StagingInv, LoopInv
<1>3. LoopTyped' /\ LoopInv' /\ SettleInv' /\ CommandInv' /\ AnswerInv'
  BY <1>0, <1>1, <1>2 DEF LoopTyped, LoopInv, SettleInv, CommandInv, AnswerInv, StagingInv, ReconcilePhases, CommandPhases
<1>4. WireTyped' /\ FaultsGrow
  BY <1>0 DEF TypeOK, WireTyped, FaultsGrow
<1> QED
  BY <1>0, <1>1, <1>3, <1>4, PlainKeeps

\* A pass that begins when the loop is idle.
LEMMA PeriodicKeeps ==
    ASSUME Bounds, TypeOK, StagingInv, Periodic \/ Stop
    PROVE  TypeOK' /\ StagingInv'
<1>0. /\ svc.at = "idle" /\ CommandSkips /\ UNCHANGED <<loc, adm, bound, job, art, mail, used, frames, answers>>
      /\ svc \in EventLoop /\ svc.out = "none"
  BY DEF Periodic, Stop, rows, wire, CommandSkips, TypeOK, StagingInv, LoopInv
<1>1. /\ svc'.todo = {}
      /\ Moves("list", "periodic", NoRequest, "none") \/ Moves("list", "shutdown", NoRequest, "stopped")
  BY <1>0, ReconcilingFacts DEF Periodic, Stop, Triggers, Outcomes
<1>2. LoopTyped' /\ LoopInv' /\ SettleInv' /\ CommandInv' /\ AnswerInv' /\ svc'.at # "wait"
  BY <1>0, <1>1 DEF Moves, LoopTyped, LoopInv, SettleInv, CommandInv, AnswerInv, StagingInv, ReconcilePhases, CommandPhases
<1> QED
  BY <1>0, <1>2, SameWire, PlainKeeps

LEMMA BindKeeps ==
    ASSUME Bounds, TypeOK, StagingInv, Bind
    PROVE  TypeOK' /\ StagingInv'
<1>0. /\ svc.at = "bind" /\ svc.at \in CommandPhases /\ CommandSkips
      /\ UNCHANGED <<loc, adm, job, art, mail, frames, used>>
      /\ svc.req \in Requests /\ svc.args \in Args
      /\ bound' = Put(bound, svc.req, FirstBound(svc.req, svc.args))
  BY DEF Bind, CommandPhases, StagingInv, LoopInv
<1>1. RowsTyped' /\ bound'[svc.req] = FirstBound(svc.req, svc.args)
  BY <1>0 DEF RowsTyped, TypeOK, Put, FirstBound
<1>2. \A r \in Requests : job[r] # NoArgs => bound'[r] = bound[r]
  BY <1>0 DEF StagingInv, JobInv, Put, FirstBound, TypeOK
<1>3. ClientInv' /\ RowInv' /\ RowSteps
  BY <1>0, SkipFacts, SameBundles DEF StagingInv, RowSteps
<1>4. WireTyped' /\ FaultsGrow
  BY <1>0, SkipFacts, SameWire
<1>5. CASE bound'[svc.req] = svc.args /\ Step("register")
  <2>1. /\ LoopTyped' /\ LoopInv' /\ AnswerInv' /\ SettleInv'
        /\ svc'.at = "register" /\ svc'.req = svc.req /\ svc'.args = svc.args
    BY <1>0, <1>5, SkipFacts, StepFacts DEF CommandPhases
  <2>2. CommandInv'
    BY <1>0, <1>5, <2>1, SkipFacts DEF CommandInv, StagingInv
  <2> QED
    BY <1>0, <1>1, <1>2, <1>3, <1>4, <2>1, <2>2, CommandKeeps DEF TypeOK
<1>6. CASE Respond("error")
  <2>1. LoopTyped' /\ LoopInv' /\ CommandInv' /\ AnswerInv' /\ SettleInv' /\ svc'.at = "list"
    BY <1>0, <1>6, SkipFacts, RespondFacts DEF Outcomes
  <2> QED
    BY <1>0, <1>1, <1>2, <1>3, <1>4, <2>1, CommandKeeps DEF TypeOK
<1> QED
  BY <1>5, <1>6 DEF Bind

LEMMA RegisterKeeps ==
    ASSUME Bounds, TypeOK, StagingInv, Register
    PROVE  TypeOK' /\ StagingInv'
<1>0. /\ svc.at = "register" /\ svc.at \in CommandPhases /\ CommandSkips
      /\ UNCHANGED <<loc, bound, job, art, mail, frames, used>>
      /\ svc.req \in Requests /\ bound[svc.req] = svc.args
  BY DEF Register, CommandPhases, StagingInv, LoopInv, CommandInv
<1>1. WireTyped' /\ FaultsGrow
  BY <1>0, SkipFacts, SameWire
<1>2. CASE adm[svc.req] = "none" /\ Dispatched(svc.req) /\ adm' = Put(adm, svc.req, "REQUEST_DECODED") /\ Step("claim")
  <2>1. /\ LoopTyped' /\ LoopInv' /\ AnswerInv' /\ SettleInv'
        /\ svc'.at = "claim" /\ svc'.req = svc.req /\ svc'.args = svc.args
    BY <1>0, <1>2, SkipFacts, StepFacts DEF CommandPhases
  <2>2. /\ RowsTyped' /\ adm'[svc.req] = "REQUEST_DECODED"
        /\ \A q \in Requests : q # svc.req => adm'[q] = adm[q]
    BY <1>0, <1>2 DEF RowsTyped, TypeOK, Put, AdmissionStates
  <2>3. RowSteps
    BY <1>2, <2>2 DEF RowSteps, Durable
  <2>4. ClientInv'
    BY <1>0, SkipFacts DEF ClientInv, StagingInv
  <2>5. RowInv'
    BY <1>0, <1>2, <2>2, SkipFacts DEF RowInv, StagingInv, Dispatched, Durable
  <2>6. CommandInv'
    BY <1>0, <1>2, <2>1, <2>2 DEF CommandInv, Dispatched
  <2> QED
    BY <1>0, <1>1, <2>1, <2>2, <2>3, <2>4, <2>5, <2>6, CommandKeeps DEF TypeOK
<1>3. ASSUME NEW a \in {"claim", "submit", "consume"}, Step(a), UNCHANGED adm,
             a = "claim" => adm[svc.req] = "REQUEST_DECODED" /\ loc[svc.req] = "drop",
             a = "submit" => adm[svc.req] = "CLAIMED" /\ loc[svc.req] = "admitted",
             a = "consume" => adm[svc.req] = "DURABLY_ADMITTED"
      PROVE  TypeOK' /\ StagingInv'
  <2>1. /\ LoopTyped' /\ LoopInv' /\ AnswerInv' /\ SettleInv'
        /\ svc'.at = a /\ svc'.req = svc.req /\ svc'.args = svc.args
    BY <1>0, <1>3, SkipFacts, StepFacts DEF CommandPhases
  <2>2. CommandInv'
    BY <1>0, <1>3, <2>1 DEF CommandInv
  <2> QED
    BY <1>0, <1>1, <1>3, <2>1, <2>2, PlainKeeps
<1>4. ASSUME NEW o \in {"ok", "error"}, Respond(o), UNCHANGED adm, o = "ok" => job[svc.req] = svc.args
      PROVE  TypeOK' /\ StagingInv'
  <2>1. LoopTyped' /\ LoopInv' /\ CommandInv' /\ AnswerInv' /\ SettleInv' /\ svc'.at = "list"
    BY <1>0, <1>4, SkipFacts, RespondFacts DEF Outcomes
  <2> QED
    BY <1>0, <1>1, <1>4, <2>1, PlainKeeps
<1> QED
  BY <1>2, <1>3, <1>4 DEF Register, ReplayValid, Dispatched, ExactReplay

LEMMA ClaimKeeps ==
    ASSUME Bounds, TypeOK, StagingInv, Claim
    PROVE  TypeOK' /\ StagingInv'
<1>0. /\ svc.at \in {"claim", "claimed"} /\ svc.at \in CommandPhases /\ CommandSkips
      /\ UNCHANGED <<bound, job, art, mail, frames>>
      /\ svc.req \in Requests /\ bound[svc.req] = svc.args
      /\ adm[svc.req] = "REQUEST_DECODED" /\ lease[svc.req] = "DISPATCH_UNCERTAIN"
  BY DEF Claim, CommandPhases, StagingInv, LoopInv, CommandInv, RowInv
<1>1. CASE svc.at = "claim" /\ loc' = Put(loc, svc.req, "admitted") /\ Step("claimed") /\ UNCHANGED <<used, adm>>
  <2>1. /\ LoopTyped' /\ LoopInv' /\ AnswerInv' /\ SettleInv'
        /\ svc'.at = "claimed" /\ svc'.req = svc.req /\ svc'.args = svc.args
    BY <1>0, <1>1, SkipFacts, StepFacts DEF CommandPhases
  <2>2. /\ loc' \in [Requests -> Places] /\ loc'[svc.req] = "admitted"
        /\ \A q \in Requests : q # svc.req => loc'[q] = loc[q]
    BY <1>0, <1>1 DEF TypeOK, Put, Places
  <2>3. ClientInv'
    BY <1>0, <2>2, SkipFacts DEF ClientInv, StagingInv, TypeOK
  <2>4. RowInv'
    BY <1>0, <1>1, <2>2, SkipFacts DEF RowInv, StagingInv, Durable
  <2>5. CommandInv'
    BY <1>0, <1>1, <2>1, <2>2 DEF CommandInv
  <2>6. RowsTyped' /\ RowSteps /\ WireTyped' /\ FaultsGrow
    BY <1>0, <1>1, SkipFacts, SameWire, SameRows DEF RowsTyped, TypeOK
  <2> QED
    BY <1>0, <2>1, <2>2, <2>3, <2>4, <2>5, <2>6, CommandKeeps
<1>2. CASE Fault /\ Respond("error") /\ UNCHANGED <<loc, adm>>
  <2>1. LoopTyped' /\ LoopInv' /\ CommandInv' /\ AnswerInv' /\ SettleInv' /\ svc'.at = "list"
    BY <1>0, <1>2, SkipFacts, RespondFacts DEF Outcomes
  <2>2. WireTyped' /\ FaultsGrow
    BY <1>0, <1>2, SkipFacts, FaultFacts DEF WireTyped, TypeOK
  <2> QED
    BY <1>0, <1>2, <2>1, <2>2, PlainKeeps
<1>3. CASE svc.at = "claimed" /\ adm' = Put(adm, svc.req, "CLAIMED") /\ Step("submit") /\ UNCHANGED <<loc, used>>
  <2>1. /\ LoopTyped' /\ LoopInv' /\ AnswerInv' /\ SettleInv'
        /\ svc'.at = "submit" /\ svc'.req = svc.req /\ svc'.args = svc.args
    BY <1>0, <1>3, SkipFacts, StepFacts DEF CommandPhases
  <2>2. /\ RowsTyped' /\ adm'[svc.req] = "CLAIMED"
        /\ \A q \in Requests : q # svc.req => adm'[q] = adm[q]
    BY <1>0, <1>3 DEF RowsTyped, TypeOK, Put, AdmissionStates
  <2>3. RowSteps
    BY <1>0, <2>2 DEF RowSteps, Durable
  <2>4. ClientInv' /\ loc' \in [Requests -> Places]
    BY <1>0, <1>3, SkipFacts DEF ClientInv, StagingInv, TypeOK
  <2>5. loc[svc.req] = "admitted"
    BY <1>3 DEF StagingInv, CommandInv
  <2>6. RowInv'
    BY <1>0, <1>3, <2>2, <2>5, SkipFacts DEF RowInv, StagingInv, Durable
  <2>7. CommandInv'
    BY <1>0, <1>3, <2>1, <2>2, <2>5 DEF CommandInv
  <2>8. WireTyped' /\ FaultsGrow
    BY <1>0, <1>3, SkipFacts, SameWire
  <2> QED
    BY <1>0, <2>1, <2>2, <2>3, <2>4, <2>6, <2>7, <2>8, CommandKeeps
<1> QED
  BY <1>1, <1>2, <1>3 DEF Claim

LEMMA ConsumeKeeps ==
    ASSUME Bounds, TypeOK, StagingInv, Consume
    PROVE  TypeOK' /\ StagingInv'
<1>0. /\ svc.at \in {"consume", "consuming", "consumed"} /\ svc.at \in CommandPhases /\ CommandSkips
      /\ UNCHANGED <<bound, job, art, mail, frames>>
      /\ svc.req \in Requests /\ bound[svc.req] = svc.args
      /\ adm[svc.req] = "DURABLY_ADMITTED" /\ lease[svc.req] = "DISPATCH_UNCERTAIN"
      /\ job[svc.req] = svc.args
  BY DEF Consume, CommandPhases, StagingInv, LoopInv, CommandInv, RowInv, JobInv, Durable
<1>1. ASSUME NEW p \in {"hidden_admitted", "removed"}, NEW a \in {"consuming", "consumed"},
             loc' = Put(loc, svc.req, p), a = "consuming" => p = "hidden_admitted",
             Step(a), UNCHANGED <<adm, used>>
      PROVE  TypeOK' /\ StagingInv'
  <2>1. /\ LoopTyped' /\ LoopInv' /\ AnswerInv' /\ SettleInv'
        /\ svc'.at = a /\ svc'.req = svc.req /\ svc'.args = svc.args
    BY <1>0, <1>1, SkipFacts, StepFacts DEF CommandPhases
  <2>2. /\ loc' \in [Requests -> Places] /\ loc'[svc.req] = p
        /\ \A q \in Requests : q # svc.req => loc'[q] = loc[q]
    BY <1>0, <1>1 DEF TypeOK, Put, Places
  <2>3. ClientInv'
    BY <1>0, <2>2, SkipFacts DEF ClientInv, StagingInv, TypeOK
  <2>4. RowInv'
    BY <1>0, <1>1, <2>2, SkipFacts DEF RowInv, StagingInv, Durable
  <2>5. CommandInv'
    BY <1>0, <1>1, <2>1, <2>2 DEF CommandInv
  <2>6. RowsTyped' /\ RowSteps /\ WireTyped' /\ FaultsGrow
    BY <1>0, <1>1, SkipFacts, SameWire, SameRows DEF RowsTyped, TypeOK
  <2> QED
    BY <1>0, <1>1, <2>1, <2>2, <2>3, <2>4, <2>5, <2>6, CommandKeeps
<1>2. CASE Step("consumed") /\ UNCHANGED <<loc, adm, used>>
  <2>1. /\ LoopTyped' /\ LoopInv' /\ AnswerInv' /\ SettleInv'
        /\ svc'.at = "consumed" /\ svc'.req = svc.req /\ svc'.args = svc.args
    BY <1>0, <1>2, SkipFacts, StepFacts DEF CommandPhases
  <2>2. CommandInv'
    BY <1>0, <1>2, <2>1 DEF CommandInv
  <2> QED
    BY <1>0, <1>2, <2>1, <2>2, SkipFacts, SameWire, PlainKeeps
<1>3. CASE Fault /\ Respond("error") /\ UNCHANGED <<loc, adm>>
  <2>1. LoopTyped' /\ LoopInv' /\ CommandInv' /\ AnswerInv' /\ SettleInv' /\ svc'.at = "list"
    BY <1>0, <1>3, SkipFacts, RespondFacts DEF Outcomes
  <2>2. WireTyped' /\ FaultsGrow
    BY <1>0, <1>3, SkipFacts, FaultFacts DEF WireTyped, TypeOK
  <2> QED
    BY <1>0, <1>3, <2>1, <2>2, PlainKeeps
<1>4. CASE adm' = Put(adm, svc.req, "CONSUMED") /\ Respond("ok") /\ UNCHANGED <<loc, used>>
  <2>1. LoopTyped' /\ LoopInv' /\ CommandInv' /\ AnswerInv' /\ SettleInv' /\ svc'.at = "list"
    BY <1>0, <1>4, SkipFacts, RespondFacts DEF Outcomes
  <2>2. /\ RowsTyped' /\ adm'[svc.req] = "CONSUMED"
        /\ \A q \in Requests : q # svc.req => adm'[q] = adm[q]
    BY <1>0, <1>4 DEF RowsTyped, TypeOK, Put, AdmissionStates
  <2>3. RowSteps
    BY <1>0, <2>2 DEF RowSteps, Durable
  <2>4. ClientInv' /\ loc' \in [Requests -> Places]
    BY <1>0, <1>4, SkipFacts DEF ClientInv, StagingInv, TypeOK
  <2>5. RowInv'
    BY <1>0, <1>4, <2>2, SkipFacts DEF RowInv, StagingInv, Durable
  <2>6. WireTyped' /\ FaultsGrow
    BY <1>0, <1>4, SkipFacts, SameWire
  <2> QED
    BY <1>0, <2>1, <2>2, <2>3, <2>4, <2>5, <2>6, CommandKeeps
<1> QED
  BY <1>1, <1>2, <1>3, <1>4 DEF Consume

-----------------------------------------------------------------------------
(* The mailbox and the thread *)

\* What a step of the mailbox, its thread or its caller has to show, when it leaves
\* the directories and the rows alone.
LEMMA MailKeeps ==
    ASSUME TypeOK, StagingInv, UNCHANGED <<client, loc, lease, overdue, obs, markers, blocked, adm, bound, job, frames, answers>>,
           art' \in [Requests -> {"none", "staged", "promoted"}],
           used' \in [sends : 0..MaxSends, crashes : 0..MaxMishaps, faults : 0..MaxMishaps],
           \A r \in Requests : job[r] # NoArgs => art'[r] = "promoted",
           LoopTyped', MailTyped', LoopInv', SettleInv', CommandInv', AnswerInv', MailInv', ImportInv', StrayInv'
    PROVE  TypeOK' /\ StagingInv'
<1>1. TypeOK'
  BY DEF TypeOK, LoopTyped, MailTyped
<1>2. ClientInv' /\ RowInv'
  BY SameBundles DEF StagingInv
<1>3. JobInv'
  BY DEF JobInv, StagingInv
<1> QED
  BY <1>1, <1>2, <1>3 DEF StagingInv

LEMMA SubmitKeeps ==
    ASSUME Bounds, TypeOK, StagingInv, Submit
    PROVE  TypeOK' /\ StagingInv'
<1> DEFINE item == [req |-> svc.req, args |-> svc.args, at |-> "queued", live |-> TRUE, own |-> TRUE]
<1>0. /\ svc.at = "submit" /\ svc.at \in CommandPhases /\ CommandSkips
      /\ UNCHANGED <<loc, adm, bound, job, art, frames, used>>
      /\ svc.req \in Requests /\ svc.args \in Args /\ bound[svc.req] = svc.args
      /\ adm[svc.req] = "CLAIMED" /\ loc[svc.req] = "admitted"
      /\ mail' = Append(mail, item) /\ Step("wait")
  BY DEF Submit, rows, CommandPhases, StagingInv, LoopInv, CommandInv
<1>1. item \in Submissions /\ item.req = svc.req /\ item.args = svc.args /\ item.at = "queued" /\ item.live /\ item.own
  BY <1>0 DEF Submissions
<1> HIDE DEF item
<1>2. /\ LoopTyped' /\ LoopInv' /\ AnswerInv' /\ SettleInv'
      /\ svc'.at = "wait" /\ svc'.req = svc.req /\ svc'.args = svc.args
  BY <1>0, SkipFacts, StepFacts DEF CommandPhases
<1>3. CommandInv'
  BY <1>0, <1>2 DEF CommandInv
<1>4. /\ mail' \in Seq(Submissions) /\ Len(mail') = Len(mail) + 1 /\ Len(mail) \in Nat
      /\ mail'[Len(mail) + 1] = item /\ \A i \in 1..Len(mail) : mail'[i] = mail[i]
  BY <1>0, <1>1 DEF TypeOK
<1>5. MailInv'
  <2>1. \A i \in 1..Len(mail) : ~mail[i].live
    BY <1>0 DEF StagingInv, MailInv
  <2>2. ASSUME NEW i \in 1..Len(mail)
        PROVE  /\ ~mail'[i].live /\ i # Len(mail') /\ (i > 1 => mail'[i].at = "queued")
               /\ (mail'[i].at # "promoted" => mail'[i].own)
               /\ adm'[mail'[i].req] \in {"CLAIMED", "QUARANTINED"} \cup Durable
    BY <1>0, <1>4, <2>1 DEF StagingInv, MailInv
  <2>3. \A i \in 1..Len(mail') : i \in 1..Len(mail) \/ i = Len(mail) + 1
    BY <1>4
  <2>4. mail' # <<>>
    BY <1>0, <1>4
  <2> QED
    BY <1>0, <1>1, <1>2, <1>4, <2>2, <2>3, <2>4 DEF MailInv
<1>6. CASE mail = <<>>
  <2>1. mail'[1] = item
    BY <1>4, <1>6
  <2>2. ImportInv' /\ StrayInv'
    BY <1>0, <1>1, <1>6, <2>1 DEF ImportInv, StrayInv, StagingInv
  <2> QED
    BY <1>0, <1>2, <1>3, <1>4, <1>5, <2>2, SkipFacts, MailKeeps DEF TypeOK, MailTyped, StagingInv, JobInv
<1>7. CASE mail # <<>>
  <2>1. mail'[1] = mail[1] /\ mail' # <<>>
    BY <1>4, <1>7 DEF TypeOK
  <2>2. ImportInv' /\ StrayInv'
    BY <1>0, <1>7, <2>1 DEF ImportInv, StrayInv, StagingInv
  <2> QED
    BY <1>0, <1>2, <1>3, <1>4, <1>5, <2>2, SkipFacts, MailKeeps DEF TypeOK, MailTyped, StagingInv, JobInv
<1> QED
  BY <1>6, <1>7

LEMMA WaitExpiresKeeps ==
    ASSUME Bounds, TypeOK, StagingInv, WaitExpires
    PROVE  TypeOK' /\ StagingInv'
<1>0. /\ svc.at = "wait" /\ svc.at \in CommandPhases /\ CommandSkips
      /\ UNCHANGED <<loc, adm, bound, job, art, frames, used>>
      /\ mail' = [mail EXCEPT ![Len(mail)].live = FALSE] /\ Respond("error") /\ mail # <<>>
  BY DEF WaitExpires, rows, CommandPhases, StagingInv, MailInv
<1>1. /\ LoopTyped' /\ LoopInv' /\ CommandInv' /\ AnswerInv' /\ SettleInv'
      /\ svc'.at = "list" /\ svc'.req = svc.req /\ svc'.args = svc.args
  BY <1>0, SkipFacts, RespondFacts DEF Outcomes
<1> DEFINE item == [mail[Len(mail)] EXCEPT !.live = FALSE]
<1>2. Len(mail) \in Nat \ {0} /\ 1 \in 1..Len(mail) /\ mail[Len(mail)] \in Submissions
  BY <1>0 DEF TypeOK
<1>3. /\ item \in Submissions /\ ~item.live /\ item.req = mail[Len(mail)].req
      /\ item.at = mail[Len(mail)].at /\ (item.own <=> mail[Len(mail)].own)
  BY <1>2 DEF Submissions
<1>4. mail' = [mail EXCEPT ![Len(mail)] = item]
  BY <1>0
<1> HIDE DEF item
<1>5. /\ mail' \in Seq(Submissions) /\ Len(mail') = Len(mail) /\ mail'[Len(mail)] = item
      /\ \A i \in 1..Len(mail) : i # Len(mail) => mail'[i] = mail[i]
  BY <1>2, <1>3, <1>4 DEF TypeOK
<1>6. \A i \in 1..Len(mail) :
         /\ ~mail'[i].live /\ mail'[i].req = mail[i].req /\ mail'[i].at = mail[i].at
         /\ (mail'[i].own <=> mail[i].own)
  BY <1>2, <1>3, <1>5 DEF StagingInv, MailInv
<1>7. MailInv'
  BY <1>0, <1>1, <1>5, <1>6 DEF StagingInv, MailInv
<1>8. mail' # <<>>
  BY <1>2, <1>5
<1>9. ImportInv' /\ StrayInv'
  BY <1>0, <1>1, <1>2, <1>6, <1>8 DEF StagingInv, ImportInv, StrayInv
<1> QED
  BY <1>0, <1>1, <1>5, <1>7, <1>9, SkipFacts, MailKeeps DEF TypeOK, MailTyped, StagingInv, JobInv

\* The thread's command is the first one; a live one is the one that is waited for.
LEMMA HeadFacts ==
    ASSUME TypeOK, StagingInv, mail # <<>>
    PROVE  /\ Len(mail) \in Nat \ {0} /\ 1 \in 1..Len(mail) /\ Head1 = mail[1] /\ mail[1] \in Submissions
           /\ mail[1].req \in Requests /\ mail[1].args \in Args
           /\ mail[1].live => /\ svc.at = "wait" /\ Len(mail) = 1
                              /\ mail[1].req = svc.req /\ mail[1].args = svc.args
                              /\ adm[mail[1].req] = "CLAIMED" /\ job[mail[1].req] = NoArgs
                              /\ loc[mail[1].req] = "admitted" /\ bound[mail[1].req] = mail[1].args
<1>1. Len(mail) \in Nat \ {0} /\ 1 \in 1..Len(mail) /\ Head1 = mail[1]
  BY DEF TypeOK, Head1
<1>2. mail[1] \in Submissions /\ mail[1].req \in Requests /\ mail[1].args \in Args
  BY <1>1, MailItem
<1>3. mail[1].live => svc.at = "wait" /\ Len(mail) = 1 /\ mail[1].req = svc.req /\ mail[1].args = svc.args
  BY <1>1 DEF StagingInv, MailInv
<1> QED
  BY <1>1, <1>2, <1>3 DEF StagingInv, CommandInv, CommandPhases, JobInv, Durable

\* The end of a command in the mailbox.
LEMMA ConcludesFacts ==
    ASSUME TypeOK, StagingInv, mail # <<>>, NEW n, Concludes(n)
    PROVE  /\ MailTyped' /\ Len(mail') = Len(mail) - 1 /\ \A i \in 1..Len(mail') : mail'[i] = mail[i + 1]
           /\ mail' # <<>> => mail'[1].at = "queued"
           /\ svc.at = "wait" /\ Len(mail) = 1 => mail' = <<>>
<1>1. /\ mail' \in Seq(Submissions) /\ Len(mail') = Len(mail) - 1 /\ Len(mail) \in Nat \ {0}
      /\ \A i \in 1..Len(mail') : mail'[i] = mail[i + 1]
  BY DEF Concludes, TypeOK
<1>2. mail' # <<>> => 1 \in 1..Len(mail') /\ 2 \in 1..Len(mail)
  BY <1>1
<1>3. mail' # <<>> => mail'[1].at = "queued"
  BY <1>1, <1>2 DEF StagingInv, MailInv
<1>4. Len(mail) = 1 => mail' = <<>>
  BY <1>1
<1> QED
  BY <1>1, <1>3, <1>4 DEF MailTyped

\* A command that the thread ends without a job.
LEMMA EndsKeeps ==
    ASSUME Bounds, TypeOK, StagingInv, mail # <<>>, Concludes("error"), ThreadSkips, UNCHANGED <<adm, job>>,
           art' \in [Requests -> {"none", "staged", "promoted"}],
           used' \in [sends : 0..MaxSends, crashes : 0..MaxMishaps, faults : 0..MaxMishaps], FaultsGrow,
           \A r \in Requests : r # mail[1].req => art'[r] = art[r],
           job[mail[1].req] # NoArgs => art' = art,
           used'.faults = 0 /\ art'[mail[1].req] = "promoted" /\ job[mail[1].req] = NoArgs =>
               art' = art /\ ~(mail[1].at = "promoted" /\ mail[1].own)
    PROVE  TypeOK' /\ StagingInv'
<1>0. /\ UNCHANGED <<client, loc, lease, overdue, obs, markers, blocked, adm, bound, job, frames, answers>>
      /\ mail[1].req \in Requests
  BY HeadFacts DEF ThreadSkips, clients, files, wire
<1>1. \A r \in Requests : job[r] # NoArgs => art'[r] = "promoted"
  BY DEF StagingInv, JobInv
<1>2. /\ MailTyped' /\ Len(mail') = Len(mail) - 1 /\ \A i \in 1..Len(mail') : mail'[i] = mail[i + 1]
      /\ mail' # <<>> => mail'[1].at = "queued"
      /\ svc.at = "wait" /\ Len(mail) = 1 => mail' = <<>>
  BY ConcludesFacts
<1>3. ImportInv'
  BY <1>2 DEF ImportInv
<1>4. StrayInv'
  <2> SUFFICES ASSUME used'.faults = 0, NEW r \in Requests, art'[r] = "promoted", job[r] = NoArgs
               PROVE  used'.crashes > 0 /\ adm[r] = "QUARANTINED"
    BY <1>0 DEF StrayInv
  <2>1. used.faults = 0 /\ used'.crashes = used.crashes
    BY DEF FaultsGrow
  <2>2. art[r] = "promoted" /\ ~(mail[1].req = r /\ mail[1].at = "promoted" /\ mail[1].own)
    OBVIOUS
  <2> QED
    BY <2>1, <2>2 DEF StagingInv, StrayInv
<1>5. CASE svc.at = "wait" /\ Len(mail) = 1
  <2>1. Respond("error")
    BY <1>5 DEF Concludes, Respond
  <2>2. LoopTyped' /\ LoopInv' /\ CommandInv' /\ AnswerInv' /\ SettleInv' /\ svc'.at = "list"
    BY <1>0, <1>5, <2>1, RespondFacts DEF Outcomes, CommandPhases
  <2>3. MailInv'
    BY <1>2, <1>5, <2>2 DEF MailInv
  <2> QED
    BY <1>0, <1>1, <1>2, <1>3, <1>4, <2>2, <2>3, MailKeeps
<1>6. CASE ~(svc.at = "wait" /\ Len(mail) = 1)
  <2>1. UNCHANGED svc
    BY <1>6 DEF Concludes
  <2>2. LoopTyped' /\ LoopInv' /\ CommandInv' /\ AnswerInv' /\ SettleInv'
    BY <1>0, <2>1 DEF LoopTyped, TypeOK, StagingInv, LoopInv, CommandInv, AnswerInv, SettleInv
  <2>3. MailInv'
    <3>1. Len(mail) \in Nat \ {0} /\ \A i \in 1..Len(mail') : i + 1 \in 1..Len(mail) /\ i + 1 > 1
      BY <1>2, HeadFacts
    <3>2. ASSUME NEW i \in 1..Len(mail')
          PROVE  /\ mail'[i].live <=> (i = Len(mail') /\ svc'.at = "wait")
                 /\ mail'[i].at = "queued" /\ mail'[i].own
                 /\ adm'[mail'[i].req] \in {"CLAIMED", "QUARANTINED"} \cup Durable
      BY <1>0, <1>2, <2>1, <3>1, SMTT(30) DEF StagingInv, MailInv
    <3>3. svc.at = "wait" => mail' # <<>> /\ mail'[Len(mail')] = mail[Len(mail)]
      BY <1>2, <1>6, <3>1 DEF MailTyped
    <3> QED
      BY <2>1, <3>2, <3>3 DEF StagingInv, MailInv
  <2> QED
    BY <1>0, <1>1, <1>2, <1>3, <1>4, <2>2, <2>3, MailKeeps
<1> QED
  BY <1>5, <1>6

\* A command that the thread goes on with.
LEMMA WorksKeeps ==
    ASSUME Bounds, TypeOK, StagingInv, mail # <<>>, ThreadSkips, UNCHANGED <<adm, job, svc, used>>,
           NEW x \in Submissions, mail' = [mail EXCEPT ![1] = x], x.req = mail[1].req, x.args = mail[1].args,
           x.live <=> mail[1].live, x.at # "promoted" => x.own,
           art' \in [Requests -> {"none", "staged", "promoted"}],
           \A r \in Requests : r # mail[1].req => art'[r] = art[r],
           job[mail[1].req] # NoArgs => art'[mail[1].req] = "promoted",
           x.at = "copying" => art'[x.req] = "staged",
           x.at = "promoted" => art'[x.req] = "promoted",
           x.at = "promoted" /\ x.own => job[x.req] = NoArgs,
           mail[1].at # "promoted",
           art'[mail[1].req] = "promoted" => art[mail[1].req] = "promoted" \/ (x.at = "promoted" /\ x.own)
    PROVE  TypeOK' /\ StagingInv'
<1>0. /\ UNCHANGED <<client, loc, lease, overdue, obs, markers, blocked, adm, bound, job, frames, answers>>
      /\ mail[1].req \in Requests /\ Len(mail) \in Nat \ {0} /\ 1 \in 1..Len(mail)
  BY HeadFacts DEF ThreadSkips, clients, files, wire
<1>1. /\ mail' \in Seq(Submissions) /\ Len(mail') = Len(mail) /\ mail'[1] = x
      /\ \A i \in 1..Len(mail) : i # 1 => mail'[i] = mail[i]
  BY <1>0 DEF TypeOK
<1>2. mail' # <<>>
  BY <1>0, <1>1
<1>3. \A r \in Requests : job[r] # NoArgs => art'[r] = "promoted"
  BY DEF StagingInv, JobInv
<1>4. LoopTyped' /\ LoopInv' /\ CommandInv' /\ AnswerInv' /\ SettleInv'
  BY <1>0 DEF LoopTyped, TypeOK, StagingInv, LoopInv, CommandInv, AnswerInv, SettleInv
<1>5. MailInv'
  <2>1. ASSUME NEW i \in 1..Len(mail)
        PROVE  /\ mail'[i].live <=> mail[i].live
               /\ mail'[i].req = mail[i].req /\ mail'[i].args = mail[i].args
    <3>1. CASE i = 1
      BY <1>1, <3>1
    <3>2. CASE i # 1
      BY <1>1, <2>1, <3>2
    <3> QED
      BY <3>1, <3>2
  <2>2. ASSUME NEW i \in 1..Len(mail)
        PROVE  /\ i > 1 => mail'[i].at = "queued"
               /\ mail'[i].at # "promoted" => mail'[i].own
    <3>1. CASE i = 1
      BY <1>1, <3>1
    <3>2. CASE i # 1
      <4>1. /\ i > 1 => mail[i].at = "queued"
            /\ mail[i].at # "promoted" => mail[i].own
        BY <2>2 DEF StagingInv, MailInv
      <4> QED
        BY <1>1, <2>2, <3>2, <4>1
    <3> QED
      BY <3>1, <3>2
  <2>3. ASSUME NEW i \in 1..Len(mail)
        PROVE  /\ mail'[i].live <=> (i = Len(mail') /\ svc'.at = "wait")
               /\ adm'[mail'[i].req] \in {"CLAIMED", "QUARANTINED"} \cup Durable
    <3>1. /\ mail[i].live <=> (i = Len(mail) /\ svc.at = "wait")
          /\ adm[mail[i].req] \in {"CLAIMED", "QUARANTINED"} \cup Durable
      BY <2>3 DEF StagingInv, MailInv
    <3>2. Len(mail') = Len(mail) /\ svc' = svc /\ adm' = adm
      BY <1>1
    <3> QED
      BY <2>1, <2>3, <3>1, <3>2
  <2>4. svc'.at = "wait" => mail' # <<>> /\ mail'[Len(mail')].req = svc'.req /\ mail'[Len(mail')].args = svc'.args
    <3>1. svc.at = "wait" => mail[Len(mail)].req = svc.req /\ mail[Len(mail)].args = svc.args
      BY DEF StagingInv, MailInv
    <3>2. Len(mail) \in 1..Len(mail) /\ Len(mail') = Len(mail) /\ svc' = svc
      BY <1>0, <1>1
    <3> QED
      BY <1>2, <2>1, <3>1, <3>2
  <2>5. 1..Len(mail') = 1..Len(mail)
    BY <1>1
  <2> QED
    BY <2>2, <2>3, <2>4, <2>5 DEF MailInv
<1>6. ImportInv'
  BY <1>0, <1>1 DEF ImportInv
<1>7. StrayInv'
  BY <1>0, <1>1, <1>2 DEF StagingInv, StrayInv
<1> QED
  BY <1>0, <1>1, <1>3, <1>4, <1>5, <1>6, <1>7, MailKeeps DEF MailTyped, TypeOK

LEMMA ImportBeginsKeeps ==
    ASSUME Bounds, TypeOK, StagingInv, ImportBegins
    PROVE  TypeOK' /\ StagingInv'
<1>0. /\ mail # <<>> /\ mail[1].at = "queued" /\ UNCHANGED <<adm, job, used>> /\ ThreadSkips
      /\ Head1 = mail[1] /\ mail[1] \in Submissions /\ mail[1].req \in Requests /\ mail[1].own
      /\ mail[1].live => job[mail[1].req] = NoArgs /\ adm[mail[1].req] = "CLAIMED"
      /\ 1 \in 1..Len(mail) /\ Len(mail) \in Nat
  BY HeadFacts DEF ImportBegins, StagingInv, MailInv
<1>1. CASE Concludes("error") /\ UNCHANGED art
  BY <1>0, <1>1, EndsKeeps DEF TypeOK, FaultsGrow
<1>2. CASE /\ mail[1].live /\ art[mail[1].req] = "promoted"
           /\ mail' = [mail EXCEPT ![1].at = "promoted", ![1].own = FALSE] /\ UNCHANGED <<art, svc>>
  <2> DEFINE x == [mail[1] EXCEPT !.at = "promoted", !.own = FALSE]
  <2>1. /\ x \in Submissions /\ x.req = mail[1].req /\ x.args = mail[1].args /\ x.at = "promoted"
        /\ (x.live <=> mail[1].live) /\ ~x.own
    BY <1>0 DEF Submissions
  <2>2. mail' = [mail EXCEPT ![1] = x]
    BY <1>0, <1>2 DEF TypeOK
  <2> HIDE DEF x
  <2> QED
    BY <1>0, <1>2, <2>1, <2>2, WorksKeeps, ZenonT(40) DEF TypeOK
<1>3. CASE /\ mail[1].live /\ art[mail[1].req] = "none" /\ art' = Put(art, mail[1].req, "staged")
           /\ mail' = [mail EXCEPT ![1].at = "copying"] /\ UNCHANGED svc
  <2> DEFINE x == [mail[1] EXCEPT !.at = "copying"]
  <2>1. /\ x \in Submissions /\ x.req = mail[1].req /\ x.args = mail[1].args /\ x.at = "copying"
        /\ (x.live <=> mail[1].live) /\ x.own
    BY <1>0 DEF Submissions
  <2>2. mail' = [mail EXCEPT ![1] = x]
    BY <1>3
  <2>3. /\ art' \in [Requests -> {"none", "staged", "promoted"}] /\ art'[mail[1].req] = "staged"
        /\ \A r \in Requests : r # mail[1].req => art'[r] = art[r]
    BY <1>0, <1>3 DEF Put, TypeOK
  <2> HIDE DEF x
  <2> QED
    BY <1>0, <1>3, <2>1, <2>2, <2>3, WorksKeeps, ZenonT(40)
<1> QED
  BY <1>0, <1>1, <1>2, <1>3 DEF ImportBegins

LEMMA ImportEndsKeeps ==
    ASSUME Bounds, TypeOK, StagingInv, ImportEnds
    PROVE  TypeOK' /\ StagingInv'
<1>0. /\ mail # <<>> /\ mail[1].at = "copying" /\ UNCHANGED <<adm, job>> /\ ThreadSkips
      /\ Head1 = mail[1] /\ mail[1] \in Submissions /\ mail[1].req \in Requests /\ mail[1].own
      /\ art[mail[1].req] = "staged" /\ job[mail[1].req] = NoArgs /\ 1 \in 1..Len(mail)
  BY HeadFacts DEF ImportEnds, StagingInv, MailInv, ImportInv, JobInv
<1>1. CASE /\ art' = Put(art, mail[1].req, "promoted")
           /\ mail' = [mail EXCEPT ![1].at = "promoted"] /\ UNCHANGED <<svc, used>>
  <2> DEFINE x == [mail[1] EXCEPT !.at = "promoted"]
  <2>1. /\ x \in Submissions /\ x.req = mail[1].req /\ x.args = mail[1].args /\ x.at = "promoted"
        /\ (x.live <=> mail[1].live) /\ x.own
    BY <1>0 DEF Submissions
  <2>2. mail' = [mail EXCEPT ![1] = x]
    BY <1>1
  <2>3. /\ art' \in [Requests -> {"none", "staged", "promoted"}] /\ art'[mail[1].req] = "promoted"
        /\ \A r \in Requests : r # mail[1].req => art'[r] = art[r]
    BY <1>0, <1>1 DEF Put, TypeOK
  <2> HIDE DEF x
  <2> QED
    BY <1>0, <1>1, <2>1, <2>2, <2>3, WorksKeeps
<1>2. CASE /\ IF loc[mail[1].req] = "admitted" THEN Fault ELSE UNCHANGED used
           /\ art' = Put(art, mail[1].req, "none") /\ Concludes("error")
  <2>1. /\ used' \in [sends : 0..MaxSends, crashes : 0..MaxMishaps, faults : 0..MaxMishaps]
        /\ FaultsGrow
    BY <1>2, FaultFacts DEF TypeOK, FaultsGrow
  <2>2. /\ art' \in [Requests -> {"none", "staged", "promoted"}] /\ art'[mail[1].req] = "none"
        /\ \A r \in Requests : r # mail[1].req => art'[r] = art[r]
    BY <1>0, <1>2 DEF Put, TypeOK
  <2> QED
    BY <1>0, <1>2, <2>1, <2>2, EndsKeeps
<1> QED
  BY <1>0, <1>1, <1>2 DEF ImportEnds

LEMMA CommitJobKeeps ==
    ASSUME Bounds, TypeOK, StagingInv, CommitJob
    PROVE  TypeOK' /\ StagingInv'
<1> DEFINE h == mail[1].req
<1>0. /\ mail # <<>> /\ mail[1].at = "promoted" /\ ThreadSkips
      /\ Head1 = mail[1] /\ mail[1] \in Submissions /\ h \in Requests /\ mail[1].args \in Args
      /\ art[h] = "promoted" /\ (mail[1].own => job[h] = NoArgs)
  BY HeadFacts DEF CommitJob, StagingInv, ImportInv
<1>1. ASSUME NEW next \in {"consume", "error"}, mail[1].live, adm[h] = "CLAIMED", JobWithStaging, Concludes(next),
             UNCHANGED <<art, used>>
      PROVE  TypeOK' /\ StagingInv'
  <2>0. /\ svc.at = "wait" /\ Len(mail) = 1 /\ h = svc.req /\ mail[1].args = svc.args
        /\ job[h] = NoArgs /\ loc[h] = "admitted" /\ bound[h] = mail[1].args
        /\ svc.at \in CommandPhases
        /\ UNCHANGED <<client, loc, lease, overdue, obs, markers, blocked, bound, frames, answers>>
    BY <1>0, <1>1, HeadFacts DEF ThreadSkips, clients, files, wire, CommandPhases
  <2>1. mail' = <<>> /\ (Step("consume") \/ Respond("error"))
    BY <1>0, <1>1, <2>0, ConcludesFacts DEF Concludes, Step, Respond
  <2>2. /\ adm' \in [Requests -> AdmissionStates] /\ adm'[h] = "DURABLY_ADMITTED"
        /\ job' \in [Requests -> Args \cup {NoArgs}] /\ job'[h] = mail[1].args
        /\ \A r \in Requests : r # h => adm'[r] = adm[r] /\ job'[r] = job[r]
    BY <1>0, <1>1 DEF JobWithStaging, Put, TypeOK, AdmissionStates
  <2>3. /\ svc' \in EventLoop /\ svc'.req = svc.req /\ svc'.args = svc.args
        /\ \/ /\ svc'.at = "consume" /\ svc'.trig = svc.trig /\ svc'.cur = svc.cur /\ svc'.out = svc.out
              /\ svc'.todo = svc.todo
           \/ /\ svc'.at = "list" /\ svc'.trig = "after-command" /\ svc'.cur = NoRequest /\ svc'.out = "error"
              /\ svc'.todo = {}
    <3>1. CASE Step("consume")
      BY <3>1, StepMoves DEF Step, Moves, TypeOK, CommandPhases
    <3>2. CASE Respond("error")
      BY <3>2, RespondMoves DEF Moves, TypeOK, Outcomes
    <3> QED
      BY <2>1, <3>1, <3>2
  <2>4. TypeOK'
    BY <1>1, <2>0, <2>1, <2>2, <2>3 DEF TypeOK
  <2>5. ClientInv'
    BY <2>0 DEF ClientInv, StagingInv
  <2>6. RowInv'
    BY <1>0, <1>1, <2>0, <2>2 DEF RowInv, StagingInv, Durable
  <2>7. JobInv'
    <3>1. mail[1].args # NoArgs
      BY <1>0 DEF Bounds, NoArgs
    <3> QED
      BY <1>0, <1>1, <2>0, <2>2, <3>1 DEF JobInv, StagingInv, Durable
  <2>8. LoopInv' /\ SettleInv'
    BY <2>0, <2>3 DEF LoopInv, SettleInv, StagingInv, ReconcilePhases, CommandPhases
  <2>9. CommandInv'
    BY <2>0, <2>2, <2>3 DEF CommandInv
  <2>10. AnswerInv'
    <3>1. svc'.out # "ok"
      BY <2>0, <2>3 DEF StagingInv, AnswerInv, ReconcilePhases
    <3>2. ASSUME NEW a \in answers, a.out = "ok" PROVE job'[a.req] = a.args
      <4>1. a.req \in Requests /\ a.args \in Args /\ job[a.req] = a.args
        BY <3>2 DEF StagingInv, AnswerInv, TypeOK
      <4>2. a.req # h
        BY <2>0, <4>1 DEF Bounds, NoArgs
      <4> QED
        BY <2>2, <4>1, <4>2
    <3> QED
      BY <2>0, <3>1, <3>2 DEF AnswerInv
  <2>11. MailInv' /\ ImportInv'
    BY <2>1, <2>3 DEF MailInv, ImportInv
  <2>12. StrayInv'
    BY <1>0, <1>1, <2>0, <2>2 DEF StrayInv, StagingInv, Bounds, NoArgs
  <2> QED
    BY <2>4, <2>5, <2>6, <2>7, <2>8, <2>9, <2>10, <2>11, <2>12 DEF StagingInv
<1>2. CASE /\ IF mail[1].live THEN Fault ELSE UNCHANGED used
           /\ art' = Discarded /\ Concludes("error") /\ UNCHANGED <<adm, job>>
  <2>1. /\ used' \in [sends : 0..MaxSends, crashes : 0..MaxMishaps, faults : 0..MaxMishaps]
        /\ FaultsGrow
    BY <1>2, FaultFacts DEF TypeOK, FaultsGrow
  <2>2. CASE mail[1].own
    <3>1. /\ art' \in [Requests -> {"none", "staged", "promoted"}] /\ art'[h] = "none" /\ job[h] = NoArgs
          /\ \A r \in Requests : r # h => art'[r] = art[r]
      BY <1>0, <1>2, <2>2 DEF Put, TypeOK, Discarded
    <3> QED
      BY <1>0, <1>2, <2>1, <3>1, EndsKeeps
  <2>3. CASE ~mail[1].own
    <3>1. art' = art
      BY <1>0, <1>2, <2>3 DEF Discarded
    <3> QED
      BY <1>0, <1>2, <2>1, <2>3, <3>1, EndsKeeps DEF TypeOK
  <2> QED
    BY <2>2, <2>3
<1>3. CASE Fault /\ Concludes("error") /\ UNCHANGED <<adm, job, art>>
  <2>1. /\ used' \in [sends : 0..MaxSends, crashes : 0..MaxMishaps, faults : 0..MaxMishaps]
        /\ FaultsGrow /\ used'.faults # 0
    BY <1>3, FaultFacts DEF TypeOK, Fault
  <2> QED
    BY <1>0, <1>3, <2>1, EndsKeeps DEF TypeOK
<1> QED
  BY <1>0, <1>1, <1>2, <1>3 DEF CommitJob

-----------------------------------------------------------------------------
(* The life of the service process *)

LEMMA EmptyMail == <<>> \in Seq(Submissions)
OBVIOUS

LEMMA CrashKeeps ==
    ASSUME Bounds, TypeOK, StagingInv, Crash
    PROVE  TypeOK' /\ StagingInv'
<1>0. /\ svc.at # "down" /\ mail' = <<>> /\ blocked' = FALSE /\ svc' = [Down EXCEPT !.out = "error"]
      /\ UNCHANGED <<client, loc, lease, overdue, obs, markers, adm, bound, job, art, frames, answers>>
  BY DEF Crash, clients, files, rows, wire
<1>1. Rests /\ svc'.at = "down"
  BY <1>0, DownRests DEF Outcomes
<1>2. /\ used' \in [sends : 0..MaxSends, crashes : 0..MaxMishaps, faults : 0..MaxMishaps]
      /\ used'.crashes > 0 /\ used'.faults = used.faults
  BY DEF Crash, Mishap, TypeOK, Bounds
<1>3. TypeOK'
  <2>1. blocked' \in BOOLEAN
    BY <1>0, Zenon
  <2>2. mail' \in Seq(Submissions)
    BY <1>0, EmptyMail
  <2> QED
    BY <1>0, <1>1, <1>2, <2>1, <2>2 DEF TypeOK, Rests
<1>4. ClientInv' /\ RowInv' /\ JobInv'
  BY <1>0 DEF ClientInv, RowInv, JobInv, StagingInv
<1>5. LoopInv' /\ SettleInv' /\ CommandInv' /\ MailInv' /\ ImportInv'
  BY <1>0, <1>1 DEF Rests, LoopInv, SettleInv, CommandInv, MailInv, ImportInv, ReconcilePhases, CommandPhases
<1>6. AnswerInv'
  BY <1>0, <1>1 DEF Rests, AnswerInv, StagingInv
<1>7. StrayInv'
  <2> SUFFICES ASSUME used.faults = 0, NEW r \in Requests, art[r] = "promoted", job[r] = NoArgs
               PROVE  adm[r] \in {"CLAIMED", "QUARANTINED"}
    BY <1>0, <1>1, <1>2 DEF StrayInv
  <2>1. CASE mail # <<>> /\ mail[1].req = r
    BY <2>1, HeadFacts DEF StagingInv, MailInv, JobInv
  <2> QED
    BY <1>0, <2>1 DEF StagingInv, StrayInv
<1> QED
  BY <1>3, <1>4, <1>5, <1>6, <1>7 DEF StagingInv

LEMMA StartKeeps ==
    ASSUME Bounds, TypeOK, StagingInv, Start
    PROVE  TypeOK' /\ StagingInv'
<1>0. /\ svc.at = "down" /\ mail = <<>> /\ art' = RecoveredPromotions /\ frames' = {} /\ blocked' = FALSE
      /\ svc' = [Reconciling("startup") EXCEPT !.out = "none"]
      /\ UNCHANGED <<client, loc, lease, overdue, obs, markers, adm, bound, job, mail, answers, used>>
  BY DEF Start, clients, files, rows
<1>1. Moves("list", "startup", NoRequest, "none") /\ svc'.todo = {}
  BY <1>0, ReconcilingFacts DEF TypeOK, Triggers, Outcomes
<1>2. /\ art' \in [Requests -> {"none", "staged", "promoted"}]
      /\ \A r \in Requests : art'[r] = IF adm[r] = "CLAIMED" /\ art[r] = "promoted" THEN "none" ELSE art[r]
  BY <1>0 DEF RecoveredPromotions, TypeOK
<1>3. TypeOK'
  BY <1>0, <1>1, <1>2 DEF TypeOK, Moves
<1>4. ClientInv' /\ RowInv'
  BY <1>0 DEF ClientInv, RowInv, StagingInv
<1>5. JobInv'
  BY <1>0, <1>2 DEF JobInv, StagingInv, Durable
<1>6. LoopInv' /\ SettleInv' /\ CommandInv' /\ MailInv' /\ ImportInv'
  BY <1>0, <1>1 DEF Moves, LoopInv, SettleInv, CommandInv, MailInv, ImportInv, ReconcilePhases, CommandPhases
<1>7. AnswerInv'
  BY <1>0, <1>1 DEF Moves, AnswerInv, StagingInv
<1>8. StrayInv'
  BY <1>0, <1>2 DEF StrayInv, StagingInv
<1> QED
  BY <1>3, <1>4, <1>5, <1>6, <1>7, <1>8 DEF StagingInv

-----------------------------------------------------------------------------
(* Theorems *)

LEMMA InitKeeps == ASSUME Bounds PROVE Init => TypeOK /\ StagingInv
<1> SUFFICES ASSUME Init PROVE TypeOK /\ StagingInv
  OBVIOUS
<1>1. TypeOK
  <2>1. blocked \in BOOLEAN
    BY Zenon DEF Init
  <2>3. mail \in Seq(Submissions) /\ svc \in EventLoop
    BY DownIdle, EmptyMail DEF Init
  <2>2. used \in [sends : 0..MaxSends, crashes : 0..MaxMishaps, faults : 0..MaxMishaps]
    BY DEF Init, Bounds
  <2> QED
    BY <2>1, <2>2, <2>3 DEF Init, TypeOK, ClientStates, Places, Leases, ObservationStates, AdmissionStates
<1>2. ClientInv /\ RowInv /\ JobInv
  BY DEF Init, ClientInv, RowInv, JobInv, Durable
<1>3. LoopInv /\ SettleInv /\ CommandInv /\ AnswerInv /\ MailInv /\ ImportInv
  BY DownIdle DEF Init, LoopInv, SettleInv, CommandInv, AnswerInv, MailInv, ImportInv, ReconcilePhases, CommandPhases
<1>4. StrayInv
  BY DEF Init, StrayInv
<1> QED
  BY <1>1, <1>2, <1>3, <1>4 DEF StagingInv

LEMMA StagingInvariant == ASSUME Bounds PROVE Spec => [](TypeOK /\ StagingInv)
<1>1. Init => TypeOK /\ StagingInv
  BY InitKeeps
<1>2. TypeOK /\ StagingInv /\ [Next]_vars => (TypeOK /\ StagingInv)'
  <2> SUFFICES ASSUME TypeOK, StagingInv, [Next]_vars
               PROVE  TypeOK' /\ StagingInv'
    OBVIOUS
  <2>1. CASE UNCHANGED vars
    <3>1. TypeOK'
      BY <2>1 DEF vars, TypeOK
    <3>2. ClientInv' /\ RowInv'
      BY <2>1 DEF vars, ClientInv, RowInv, StagingInv
    <3> QED
      BY <2>1, <3>1, <3>2, OutsideFrame DEF vars, StagingInv
  <2>2. ASSUME NEW r \in Requests, ClientMakes(r) \/ ClientStep(r) \/ DeadlinePasses(r)
        PROVE  TypeOK' /\ StagingInv'
    BY <2>2, ClientMakesKeeps, ClientPreparesKeeps, ClientPublishesKeeps, ClientStagingFailsKeeps, ClientDiscardsKeeps,
      ClientRemovesKeeps, ClientTransfersKeeps, ClientTransferredKeeps, ClientSendsKeeps, ClientDiesKeeps,
      DeadlinePassesKeeps DEF ClientStep
  <2>3. CASE Reconcile
    BY <2>3, ListPrepareKeeps, ObservePrepareKeeps, TakeObservationKeeps, OpenPreparationKeeps, JudgeObservationKeeps,
      DeleteObservationKeeps, ReviewBundlesKeeps, PassRaisesKeeps, FinishReconcileKeeps DEF Reconcile
  <2>4. CASE Command \/ Thread \/ WaitExpires
    BY <2>4, BindKeeps, RegisterKeeps, ClaimKeeps, SubmitKeeps, ConsumeKeeps, ImportBeginsKeeps, ImportEndsKeeps,
      CommitJobKeeps, WaitExpiresKeeps DEF Command, Thread
  <2> QED
    BY <2>1, <2>2, <2>3, <2>4, DecodeKeeps, PeriodicKeeps, CrashKeeps, StartKeeps DEF Next
<1> QED
  BY <1>1, <1>2, PTL DEF Spec

\* Directories, rows, files, the event loop and the mailbox keep their types.
THEOREM StagingTyped == ASSUME Bounds PROVE Spec => []TypeOK
BY StagingInvariant, PTL

\* Whatever dies, fails, is abandoned or comes late, a bundle whose dispatch may have
\* reached the service is removed only when a durable job holds its payload, a
\* quarantine is real and final, and a copy without a job is discarded
\* (staging_reconciliation._reconcile_role, client_data.consume,
\* offline_job_chain._import_or_recover_staged).
THEOREM PayloadsAlwaysKept == ASSUME Bounds PROVE Spec => []PayloadsKept
<1>1. TypeOK /\ StagingInv => PayloadsKept
  <2> SUFFICES ASSUME TypeOK, StagingInv PROVE PayloadsKept
    OBVIOUS
  <2>1. NothingLost
    BY DEF StagingInv, RowInv, JobInv, NothingLost, Durable, TypeOK, AdmissionStates
  <2>2. QuarantineKept
    BY DEF StagingInv, RowInv, JobInv, QuarantineKept, Durable
  <2>3. NoStrayArtifact
    BY DEF StagingInv, StrayInv, NoStrayArtifact
  <2> QED
    BY <2>1, <2>2, <2>3 DEF PayloadsKept
<1> QED
  BY <1>1, StagingInvariant, PTL

\* A job exists exactly for the admissions that say so, with the arguments its
\* request was first decoded with, a positive answer is given to no others, and
\* nobody takes the bundle away while it is copied for a caller that waits
\* (sqlite_repository, runtime._workflow_run, job_coordinator).
THEOREM RequestsAlwaysExact == ASSUME Bounds PROVE Spec => []RequestsExact
<1>1. TypeOK /\ StagingInv => RequestsExact
  <2> SUFFICES ASSUME TypeOK, StagingInv PROVE RequestsExact
    OBVIOUS
  <2>1. JobBacked
    BY DEF StagingInv, JobInv, JobBacked, Durable
  <2>2. ReplayExact
    BY DEF StagingInv, JobInv, AnswerInv, ReplayExact
  <2>3. ImportUndisturbed
    BY HeadFacts DEF ImportUndisturbed
  <2> QED
    BY <2>1, <2>2, <2>3 DEF RequestsExact
<1> QED
  BY <1>1, StagingInvariant, PTL

\* A request is admitted only while no recovery marker exists: the event loop alone
\* writes markers, and it has looked at them in the pass before the command
\* (staging_reconciliation.reconcile, runtime._workflow_run).
THEOREM AlwaysBlockedRefuses == ASSUME Bounds PROVE Spec => BlockedRefuses
<1>1. TypeOK /\ StagingInv /\ [Next]_vars =>
         [\A r \in Requests : adm[r] = "none" /\ adm'[r] # "none" => markers = {}]_vars
  <2> SUFFICES ASSUME TypeOK, StagingInv, Next, NEW r \in Requests, adm[r] = "none", adm'[r] # "none"
               PROVE  markers = {}
    OBVIOUS
  <2>1. CASE Register
    BY <2>1 DEF Register, StagingInv, CommandInv
  <2>2. ASSUME NEW q \in Requests, ClientMakes(q) \/ ClientStep(q) \/ DeadlinePasses(q) PROVE FALSE
    BY <2>2 DEF ClientStep, ClientMakes, ClientPrepares, ClientPublishes, ClientStagingFails, ClientDiscards, ClientRemoves,
      ClientTransfers, ClientTransferred, ClientSends, ClientDies, ClientSkips, DeadlinePasses, rows
  <2>3. CASE ReviewBundles
    <3>1. svc.cur # NoRequest /\ svc.at \in {"drop", "admitted"} /\ SettleBundle(svc.cur)
      BY <2>3 DEF ReviewBundles
    <3>2. svc.cur = r
      BY <3>1, SMTT(30) DEF SettleBundle, Put, TypeOK
    <3> QED
      BY <3>1, <3>2 DEF StagingInv, SettleInv, Durable
  <2>4. CASE Reconcile
    BY <2>3, <2>4 DEF Reconcile, ListPrepare, ObservePrepare, TakeObservation, OpenPreparation, JudgeObservation,
      DeleteObservation, PassRaises, FinishReconcile
  <2>5. CASE Bind \/ Submit \/ WaitExpires \/ ImportBegins \/ ImportEnds
    BY <2>5 DEF Bind, Submit, WaitExpires, ImportBegins, ImportEnds, rows
  <2>6. CASE Claim
    BY <2>6 DEF Claim, Put, TypeOK, StagingInv, CommandInv
  <2>7. CASE Consume
    BY <2>7 DEF Consume, Put, TypeOK, StagingInv, CommandInv
  <2>8. CASE CommitJob
    BY <2>8 DEF CommitJob, JobWithStaging, Put, TypeOK
  <2>9. CASE (\E f \in frames : Decode(f)) \/ Periodic \/ Stop \/ Crash \/ Start
    BY <2>9 DEF Decode, Periodic, Stop, Crash, Start, rows
  <2> QED
    BY <2>1, <2>2, <2>4, <2>5, <2>6, <2>7, <2>8, <2>9 DEF Next, Command, Thread
<1> QED
  BY <1>1, StagingInvariant, PTL DEF Spec, BlockedRefuses
=============================================================================
