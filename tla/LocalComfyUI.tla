----------------------------- MODULE LocalComfyUI -----------------------------
(***************************************************************************)
(* LocalComfyUIProvider as an object shared by threads. Every call holds   *)
(* the lock for short steps only, and talks to the server between them     *)
(* while other threads create, submit, poll, retrieve and release: a state *)
(* a call works on may meanwhile have expired, been released, or been      *)
(* replaced by another one of the same request. A prepared request and a   *)
(* submission are objects, told apart by identity; the dictionaries hold   *)
(* the ones the provider still owns.                                       *)
(***************************************************************************)
EXTENDS Naturals, Sequences, FiniteSets

CONSTANTS
  Threads,
  RequestIds,
  MaxPrepared,      \* MAX_PREPARED_ENTRIES
  MaxLive,          \* MAX_LIVE_SUBMISSIONS
  MaxObjects,       \* bound on requests prepared and jobs posted in a run
  MaxServerFaults   \* bound on failing and unusable answers of the server

VARIABLES
  preparing,        \* _preparing: the thread that reserved a request identity
  prepared,         \* _prepared: request identity -> owned request, or 0
  requests,         \* the prepared requests: [rid, life]
  submissions,      \* _submissions: job identity -> owned submission, or 0
  subs,             \* the submissions: [rid, of (its request), job, life]
  oldRequests,      \* requests past their time to live
  oldSubs,          \* submissions past their deadline
  call,             \* per thread: the point reached, and the object in hand
  posted,           \* jobs the server was given, by the request they are for
  delivered,        \* submissions whose image was handed out
  pfaults

dictionaries == <<preparing, prepared, submissions>>
objects == <<requests, subs>>
ages == <<oldRequests, oldSubs>>
world == <<posted, delivered, pfaults>>
providerVars == <<dictionaries, objects, ages, call, world>>

-----------------------------------------------------------------------------
Nobody == "nobody"
NoObject == 0
JobIds == 1 .. MaxObjects
PreparedLifecycle == {"PREPARED", "SUBMITTING", "SUBMITTED"}
SubmissionLifecycle == {"POLLABLE", "POLLING", "SUCCEEDED", "FAILED", "RETRIEVING"}
Idle == [at |-> "idle", obj |-> NoObject, job |-> NoObject]
At(t, point) == call[t].at = point
Goes(t, point, obj) == call' = [call EXCEPT ![t] = [at |-> point, obj |-> obj, job |-> call[t].job]]
Returns(t) == call' = [call EXCEPT ![t] = Idle]

ServerFault == pfaults < MaxServerFaults /\ pfaults' = pfaults + 1

Init ==
  /\ preparing = [r \in RequestIds |-> Nobody] /\ prepared = [r \in RequestIds |-> NoObject]
  /\ submissions = [j \in JobIds |-> NoObject]
  /\ requests = <<>> /\ subs = <<>> /\ oldRequests = {} /\ oldSubs = {}
  /\ call = [t \in Threads |-> Idle]
  /\ posted = <<>> /\ delivered = <<>> /\ pfaults = 0

OwnsRequest(p) == prepared[requests[p].rid] = p
OwnsSub(s) == submissions[subs[s].job] = s
LivePrepared(held) == {r \in RequestIds : held[r] # NoObject}

\* _purge_expired_locked, on every entry under the lock: submissions past their
\* deadline with the requests they submitted, then requests past their time to
\* live and submitted ones without a submission. The submission asked about is
\* spared.
PurgedSubmissions(spared) ==
  [j \in JobIds |-> IF j # spared /\ submissions[j] \in oldSubs THEN NoObject ELSE submissions[j]]

PurgedPrepared(spared) ==
  LET kept == PurgedSubmissions(spared)
      expired == {subs[submissions[j]].rid : j \in {i \in JobIds : submissions[i] # kept[i]}}
      linked == {subs[kept[j]].rid : j \in {i \in JobIds : kept[i] # NoObject}}
      stale(r) == LET p == prepared[r] IN
                  \/ requests[p].life = "PREPARED" /\ p \in oldRequests
                  \/ requests[p].life = "SUBMITTED" /\ (r \in expired \/ r \notin linked)
  IN [r \in RequestIds |-> IF prepared[r] # NoObject /\ stale(r) THEN NoObject ELSE prepared[r]]

Purges(spared) ==
  /\ submissions' = PurgedSubmissions(spared)
  /\ prepared' = PurgedPrepared(spared)

\* Time passes for a request waiting to be submitted, and for a submission.
RequestAges ==
  /\ \E p \in (1 .. Len(requests)) \ oldRequests : oldRequests' = oldRequests \cup {p}
  /\ UNCHANGED <<dictionaries, objects, oldSubs, call, world>>

SubmissionAges ==
  /\ \E s \in (1 .. Len(subs)) \ oldSubs : oldSubs' = oldSubs \cup {s}
  /\ UNCHANGED <<dictionaries, objects, oldRequests, call, world>>

-----------------------------------------------------------------------------
(***************************************************************************)
(* create_request: the identity and a place are reserved before the input  *)
(* is read.                                                                *)
(***************************************************************************)
Admissible(r, held) ==
  /\ preparing[r] = Nobody /\ held[r] = NoObject
  /\ Cardinality({q \in RequestIds : preparing[q] # Nobody}) + Cardinality(LivePrepared(held)) < MaxPrepared

CreateReserves(t, r) ==
  /\ At(t, "idle") /\ Len(requests) < MaxObjects
  /\ Purges(NoObject)
  /\ IF Admissible(r, prepared')
     THEN preparing' = [preparing EXCEPT ![r] = t] /\ Goes(t, "creating", NoObject)
     ELSE UNCHANGED <<preparing, call>>
  /\ UNCHANGED <<objects, ages, world>>

Reserved(t) == {r \in RequestIds : preparing[r] = t}

CreateStores(t) ==
  /\ At(t, "creating") /\ Len(requests) < MaxObjects
  /\ \E r \in Reserved(t) :
       /\ preparing' = [preparing EXCEPT ![r] = Nobody]
       /\ submissions' = PurgedSubmissions(NoObject)
       /\ prepared' = [PurgedPrepared(NoObject) EXCEPT ![r] = Len(requests) + 1]
       /\ requests' = Append(requests, [rid |-> r, life |-> "PREPARED"])
  /\ Returns(t)
  /\ UNCHANGED <<subs, ages, world>>

\* Mutated form of the next definition: the reservation stays.
CreateFailsHolding(t) ==
  /\ At(t, "creating")
  /\ Returns(t)
  /\ UNCHANGED <<dictionaries, objects, ages, world>>

\* The input cannot be read, does not have its digest, or anything raises.
CreateFails(t) ==
  /\ At(t, "creating")
  /\ preparing' = [r \in RequestIds |-> IF preparing[r] = t THEN Nobody ELSE preparing[r]]
  /\ Returns(t)
  /\ UNCHANGED <<prepared, submissions, objects, ages, world>>

-----------------------------------------------------------------------------
(***************************************************************************)
(* submit: admitted once under the lock; system_stats, upload and prompt   *)
(* are asked without it.                                                   *)
(***************************************************************************)
LiveSubmissions(jobs, held) ==
  Cardinality({j \in JobIds : jobs[j] # NoObject})
  + Cardinality({r \in LivePrepared(held) : requests[held[r]].life = "SUBMITTING"})

SetRequest(p, life) == requests' = [requests EXCEPT ![p].life = life]
SetSub(s, life) == subs' = [subs EXCEPT ![s].life = life]

SubmitStarts(t, p) ==
  /\ At(t, "idle")
  /\ Purges(NoObject)
  /\ IF /\ prepared'[requests[p].rid] = p
        /\ requests[p].life = "PREPARED"
        /\ LiveSubmissions(submissions', prepared') < MaxLive
     THEN SetRequest(p, "SUBMITTING") /\ Goes(t, "asking", p)
     ELSE UNCHANGED <<requests, call>>
  /\ UNCHANGED <<preparing, subs, ages, world>>

\* The prompt is posted: the server has the job, whatever becomes of the answer.
SubmitPosts(t) ==
  /\ At(t, "asking") /\ Len(posted) < MaxObjects
  /\ posted' = Append(posted, call[t].obj)
  /\ call' = [call EXCEPT ![t].at = "posted", ![t].job = Len(posted) + 1]
  /\ UNCHANGED <<dictionaries, objects, ages, delivered, pfaults>>

\* The answer names a job: the new one, or wrongly one it named before.
SubmitStores(t) ==
  /\ At(t, "posted")
  /\ LET p == call[t].obj IN
     \E j \in 1 .. call[t].job :
       /\ IF j = call[t].job THEN UNCHANGED pfaults ELSE ServerFault
       /\ IF ~OwnsRequest(p) \/ requests[p].life # "SUBMITTING" THEN UNCHANGED <<dictionaries, objects>>
          ELSE IF submissions[j] # NoObject
          THEN /\ prepared' = [prepared EXCEPT ![requests[p].rid] = NoObject]
               /\ UNCHANGED <<preparing, submissions, objects>>
          ELSE /\ SetRequest(p, "SUBMITTED")
               /\ subs' = Append(subs, [rid |-> requests[p].rid, of |-> p, job |-> j, life |-> "POLLABLE"])
               /\ submissions' = [submissions EXCEPT ![j] = Len(subs) + 1]
               /\ UNCHANGED <<preparing, prepared>>
  /\ Returns(t)
  /\ UNCHANGED <<ages, posted, delivered>>

\* _rollback_submit: a transport failure before the deadline leaves the request
\* ready for another submit, also when it was the answer to the post that was
\* lost.
SubmitRollsBack(t) ==
  /\ \E point \in {"asking", "posted"} : At(t, point)
  /\ ServerFault
  /\ LET p == call[t].obj IN
     IF OwnsRequest(p) /\ requests[p].life = "SUBMITTING" THEN SetRequest(p, "PREPARED")
     ELSE UNCHANGED requests
  /\ Returns(t)
  /\ UNCHANGED <<dictionaries, subs, ages, posted, delivered>>

\* _discard_prepared: the deadline, or an answer that cannot be used.
SubmitDiscards(t) ==
  /\ \E point \in {"asking", "posted"} : At(t, point)
  /\ ServerFault
  /\ LET p == call[t].obj IN
     prepared' = IF OwnsRequest(p) THEN [prepared EXCEPT ![requests[p].rid] = NoObject] ELSE prepared
  /\ Returns(t)
  /\ UNCHANGED <<preparing, submissions, objects, ages, posted, delivered>>

-----------------------------------------------------------------------------
(***************************************************************************)
(* poll and retrieve: one operation at a time on a submission.             *)
(***************************************************************************)
\* A finished submission answers at once; a busy one refuses.
PollStarts(t, s) ==
  /\ At(t, "idle")
  /\ Purges(subs[s].job)
  /\ IF submissions'[subs[s].job] = s /\ subs[s].life = "POLLABLE"
     THEN SetSub(s, "POLLING") /\ Goes(t, "polling", s)
     ELSE UNCHANGED <<subs, call>>
  /\ UNCHANGED <<preparing, requests, ages, world>>

\* Whatever came back, only the owner of a submission still being polled
\* changes it.
PollEnds(t, life) ==
  /\ At(t, "polling")
  /\ LET s == call[t].obj IN
     IF OwnsSub(s) /\ subs[s].life = "POLLING" THEN SetSub(s, life) ELSE UNCHANGED subs
  /\ Returns(t)
  /\ UNCHANGED <<dictionaries, requests, ages, posted, delivered>>

\* (The clock is read before the lock is taken: the deadline may just have passed.)
PollPending(t) == PollEnds(t, "POLLABLE") /\ UNCHANGED pfaults
PollSucceeds(t) == PollEnds(t, "SUCCEEDED") /\ UNCHANGED pfaults

\* The job failed, its history is unusable, or the deadline has passed.
PollFails(t) ==
  /\ IF call[t].obj \in oldSubs THEN UNCHANGED pfaults ELSE ServerFault
  /\ PollEnds(t, "FAILED")

\* A transport failure is answered, and the submission can be polled again.
PollLosesAnswer(t) == ServerFault /\ PollEnds(t, "POLLABLE")

RetrieveStarts(t, s) ==
  /\ At(t, "idle") /\ subs[s].life # "FAILED"
  /\ Purges(subs[s].job)
  /\ IF submissions'[subs[s].job] = s /\ subs[s].life = "SUCCEEDED"
     THEN SetSub(s, "RETRIEVING") /\ Goes(t, "fetching", s)
     ELSE UNCHANGED <<subs, call>>
  /\ UNCHANGED <<preparing, requests, ages, world>>

\* _finish_submission: an owned submission goes, with the request it submitted.
WithoutSub(s, jobs) == IF jobs[subs[s].job] = s THEN [jobs EXCEPT ![subs[s].job] = NoObject] ELSE jobs

WithoutSubmitted(s, jobs, held) ==
  LET r == subs[s].rid IN
  IF jobs[subs[s].job] = s /\ held[r] # NoObject /\ requests[held[r]].life = "SUBMITTED"
  THEN [held EXCEPT ![r] = NoObject] ELSE held

Finishes(s) ==
  /\ submissions' = WithoutSub(s, submissions)
  /\ prepared' = WithoutSubmitted(s, submissions, prepared)

\* A failed submission is reported once and forgotten.
RetrieveFailed(t, s) ==
  /\ At(t, "idle") /\ subs[s].life = "FAILED"
  /\ submissions' = WithoutSub(s, PurgedSubmissions(subs[s].job))
  /\ prepared' = WithoutSubmitted(s, PurgedSubmissions(subs[s].job), PurgedPrepared(subs[s].job))
  /\ UNCHANGED <<preparing, objects, ages, call, world>>

\* The deadline has passed, or the image is unusable.
RetrieveGivesUp(t) ==
  /\ At(t, "fetching")
  /\ IF call[t].obj \in oldSubs THEN UNCHANGED pfaults ELSE ServerFault
  /\ Finishes(call[t].obj)
  /\ Returns(t)
  /\ UNCHANGED <<preparing, objects, ages, posted, delivered>>

\* A transport failure: the submission can be retrieved again.
RetrieveLosesAnswer(t) ==
  /\ At(t, "fetching") /\ ServerFault
  /\ LET s == call[t].obj IN
     IF OwnsSub(s) /\ subs[s].life = "RETRIEVING" THEN SetSub(s, "SUCCEEDED") ELSE UNCHANGED subs
  /\ Returns(t)
  /\ UNCHANGED <<dictionaries, requests, ages, posted, delivered>>

\* The image is here and valid, the server was asked to free its memory: under
\* the lock, the request that now has the identity gives the records. (The
\* submission itself is not looked up again.)
RetrieveChecks(t) ==
  /\ At(t, "fetching")
  /\ LET s == call[t].obj IN
     IF prepared[subs[s].rid] = NoObject \/ subs[s].life # "RETRIEVING" THEN Returns(t)
     ELSE Goes(t, "recording", s)
  /\ UNCHANGED <<dictionaries, objects, ages, world>>

\* The hand-off record reads the dictionary once more, without the lock, and
\* raises when the request is gone by then; otherwise the submission is over and
\* its image is handed out.
RetrieveRecords(t) ==
  /\ At(t, "recording")
  /\ LET s == call[t].obj IN
     IF prepared[subs[s].rid] = NoObject
     THEN UNCHANGED <<prepared, submissions, delivered>>
     ELSE Finishes(s) /\ delivered' = Append(delivered, s)
  /\ Returns(t)
  /\ UNCHANGED <<preparing, objects, ages, posted, pfaults>>

-----------------------------------------------------------------------------
(***************************************************************************)
(* release_local_state: a caller abandons a request or a submission.       *)
(***************************************************************************)
ReleaseSubmission(t, s) ==
  /\ At(t, "idle")
  /\ submissions' = WithoutSub(s, PurgedSubmissions(NoObject))
  /\ prepared' = WithoutSubmitted(s, PurgedSubmissions(NoObject), PurgedPrepared(NoObject))
  /\ UNCHANGED <<preparing, objects, ages, call, world>>

ReleaseRequest(t, p) ==
  /\ At(t, "idle")
  /\ LET held == PurgedPrepared(NoObject)
         jobs == PurgedSubmissions(NoObject)
         r == requests[p].rid IN
     IF held[r] # p THEN Purges(NoObject)
     ELSE /\ prepared' = [held EXCEPT ![r] = NoObject]
          /\ submissions' = [j \in JobIds |-> IF jobs[j] # NoObject /\ subs[jobs[j]].rid = r THEN NoObject ELSE jobs[j]]
  /\ UNCHANGED <<preparing, objects, ages, call, world>>

-----------------------------------------------------------------------------
Create(t) == (\E r \in RequestIds : CreateReserves(t, r)) \/ CreateStores(t) \/ CreateFails(t)
Submit(t) == (\E p \in 1 .. Len(requests) : SubmitStarts(t, p))
             \/ SubmitPosts(t) \/ SubmitStores(t) \/ SubmitRollsBack(t) \/ SubmitDiscards(t)
Poll(t) == (\E s \in 1 .. Len(subs) : PollStarts(t, s))
           \/ PollPending(t) \/ PollSucceeds(t) \/ PollFails(t) \/ PollLosesAnswer(t)
Retrieve(t) == (\E s \in 1 .. Len(subs) : RetrieveStarts(t, s) \/ RetrieveFailed(t, s))
               \/ RetrieveGivesUp(t) \/ RetrieveLosesAnswer(t) \/ RetrieveChecks(t) \/ RetrieveRecords(t)
Release(t) == (\E s \in 1 .. Len(subs) : ReleaseSubmission(t, s))
              \/ (\E p \in 1 .. Len(requests) : ReleaseRequest(t, p))

Next == (\E t \in Threads : Create(t) \/ Submit(t) \/ Poll(t) \/ Retrieve(t) \/ Release(t))
        \/ RequestAges \/ SubmissionAges

Spec == Init /\ [][Next]_providerVars

-----------------------------------------------------------------------------
Points == {"idle", "creating", "asking", "posted", "polling", "fetching", "recording"}

TypeOK ==
  /\ preparing \in [RequestIds -> Threads \cup {Nobody}]
  /\ prepared \in [RequestIds -> 0 .. Len(requests)] /\ submissions \in [JobIds -> 0 .. Len(subs)]
  /\ requests \in Seq([rid : RequestIds, life : PreparedLifecycle])
  /\ subs \in Seq([rid : RequestIds, of : Nat, job : JobIds, life : SubmissionLifecycle])
  /\ oldRequests \subseteq 1 .. Len(requests) /\ oldSubs \subseteq 1 .. Len(subs)
  /\ call \in [Threads -> [at : Points, obj : Nat, job : 0 .. MaxObjects]]
  /\ posted \in Seq(Nat) /\ Len(posted) <= MaxObjects
  /\ delivered \in Seq(Nat) /\ pfaults \in 0 .. MaxServerFaults

\* The local state is bounded (MAX_PREPARED_ENTRIES, MAX_LIVE_SUBMISSIONS): the
\* places are taken before the input is read or the server is asked, so no
\* number of threads admits more, and no failing call keeps one.
Capacity ==
  /\ Cardinality({r \in RequestIds : preparing[r] # Nobody}) + Cardinality(LivePrepared(prepared)) <= MaxPrepared
  /\ LiveSubmissions(submissions, prepared) <= MaxLive
  /\ \A r \in RequestIds : preparing[r] # Nobody => call[preparing[r]].at = "creating"

\* The two dictionaries agree (_purge_expired_locked, _finish_submission_locked,
\* release_local_state): an owned submission is kept by its job, and the request
\* it came from, that very object, is owned as submitted; so no submission
\* outlives its request and no request has two.
LinkedOwnership ==
  \A j \in JobIds : submissions[j] # NoObject =>
    LET s == subs[submissions[j]] IN
    /\ s.job = j /\ prepared[s.rid] = s.of /\ requests[s.of].life = "SUBMITTED"

\* A state that refuses others because a call is at work has exactly one call at
\* work on it: SUBMITTING, POLLING and RETRIEVING never stay behind, whatever
\* failed, and never have two owners.
BusyHasCaller ==
  /\ \A r \in LivePrepared(prepared) : requests[prepared[r]].life = "SUBMITTING" =>
       Cardinality({t \in Threads : call[t].at \in {"asking", "posted"} /\ call[t].obj = prepared[r]}) = 1
  /\ \A j \in JobIds : submissions[j] # NoObject /\ subs[submissions[j]].life \in {"POLLING", "RETRIEVING"} =>
       Cardinality({t \in Threads : call[t].at \in {"polling", "fetching", "recording"}
                                    /\ call[t].obj = submissions[j]}) = 1

\* The image of a submission is handed out at most once (retrieve: RETRIEVING
\* refuses a second caller, and a lost answer gives the submission back only to
\* be asked for again).
DeliveredOnce == \A i, k \in 1 .. Len(delivered) : delivered[i] = delivered[k] => i = k

\* The provider's books are right: Capacity, LinkedOwnership, BusyHasCaller and
\* DeliveredOnce together.
OwnershipSafe == Capacity /\ LinkedOwnership /\ BusyHasCaller /\ DeliveredOnce

===============================================================================
