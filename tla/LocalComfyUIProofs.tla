------------------------- MODULE LocalComfyUIProofs --------------------------
(***************************************************************************)
(* The safety of LocalComfyUI, proved for any number of threads calling    *)
(* the one client, any identities, any caps and any number of requests     *)
(* made: places are not oversold, the two dictionaries agree, a busy state *)
(* has exactly one caller, and an image is handed out once.                *)
(*                                                                         *)
(* Every entry under the lock purges first, so what holds of the           *)
(* dictionaries is stated of a pair of them (Books) and shown of what a    *)
(* purge leaves (PurgedBooks) before it is shown of what a call makes of   *)
(* that.  A call that comes back without the lock may find its object out  *)
(* of the dictionaries, or its identity given to another: the calls are    *)
(* therefore tied to the object they work on, held or not (Askers, Users), *)
(* and only what is held busy is asked to have a call (Asked, Used).  A    *)
(* purge spares the requests that are being submitted, which is why they   *)
(* keep their places; a submission it takes away takes its request with    *)
(* it, and no request has two (Single), so what is left still agrees.      *)
(***************************************************************************)
EXTENDS LocalComfyUI, FiniteSetTheorems, TLAPS

\* The caps are numbers, and a thread is not the mark of a free identity.
Bounds ==
  /\ Nobody \notin Threads /\ IsFiniteSet(RequestIds) /\ MaxObjects \in Nat
  /\ MaxPrepared \in Nat /\ MaxLive \in Nat /\ MaxServerFaults \in Nat

\* Who reserves a place, who has one, who submits and what is submitted.
Reserving(prep) == {q \in RequestIds : prep[q] # Nobody}
Submitting(reqs, held) == {r \in LivePrepared(held) : reqs[held[r]].life = "SUBMITTING"}
Stored(jobs) == {j \in JobIds : jobs[j] # NoObject}

Room(prep, held) == Cardinality(Reserving(prep)) + Cardinality(LivePrepared(held)) <= MaxPrepared
Space(jobs, reqs, held) == Cardinality(Stored(jobs)) + Cardinality(Submitting(reqs, held)) <= MaxLive

\* A request is held under its own identity, a submission under its own job and
\* with the request it came from; a request has one submission at most.
Named(held) == \A r \in RequestIds : held[r] # NoObject => requests[held[r]].rid = r

Linked(jobs, held) ==
  \A j \in JobIds : jobs[j] # NoObject =>
    /\ subs[jobs[j]].job = j /\ held[subs[jobs[j]].rid] = subs[jobs[j]].of
    /\ subs[jobs[j]].of # NoObject /\ requests[subs[jobs[j]].of].life = "SUBMITTED"

Single(jobs) ==
  \A i, j \in JobIds :
    jobs[i] # NoObject /\ jobs[j] # NoObject /\ subs[jobs[i]].of = subs[jobs[j]].of => i = j

\* What is held as busy has a call at work on it.
Asks(t) == call[t].at \in {"asking", "posted"}
Uses(t) == call[t].at \in {"polling", "fetching", "recording"}

Asked(held) ==
  \A r \in RequestIds : held[r] # NoObject /\ requests[held[r]].life = "SUBMITTING" =>
    \E t \in Threads : Asks(t) /\ call[t].obj = held[r]

Used(jobs) ==
  \A j \in JobIds : jobs[j] # NoObject /\ subs[jobs[j]].life \in {"POLLING", "RETRIEVING"} =>
    \E t \in Threads : Uses(t) /\ call[t].obj = jobs[j]

\* A reserved identity has no request yet.
Vacant(held) == \A r \in RequestIds : preparing[r] # Nobody => held[r] = NoObject

\* The dictionaries, or what a purge would leave of them.
Books(jobs, held) ==
  /\ jobs \in [JobIds -> 0 .. Len(subs)] /\ held \in [RequestIds -> 0 .. Len(requests)]
  /\ Named(held) /\ Linked(jobs, held) /\ Single(jobs) /\ Asked(held) /\ Used(jobs) /\ Vacant(held)
  /\ Room(preparing, held) /\ Space(jobs, requests, held)

\* A reservation is of a thread that creates a request, and of one identity.
Reservations ==
  /\ \A r \in RequestIds : preparing[r] # Nobody => call[preparing[r]].at = "creating"
  /\ \A r, q \in RequestIds : preparing[r] # Nobody /\ preparing[r] = preparing[q] => r = q

\* A call at work has marked its object busy, and is alone with it.
Askers ==
  /\ \A t \in Threads : Asks(t) =>
        call[t].obj \in 1 .. Len(requests) /\ requests[call[t].obj].life = "SUBMITTING"
  /\ \A t, u \in Threads : Asks(t) /\ Asks(u) /\ call[t].obj = call[u].obj => t = u

Users ==
  /\ \A t \in Threads : Uses(t) =>
        /\ call[t].obj \in 1 .. Len(subs)
        /\ subs[call[t].obj].life = IF call[t].at = "polling" THEN "POLLING" ELSE "RETRIEVING"
  /\ \A t, u \in Threads : Uses(t) /\ Uses(u) /\ call[t].obj = call[u].obj => t = u

\* A submission whose image was handed out stays as it was, and nobody works on it.
Delivered ==
  /\ \A i \in 1 .. Len(delivered) :
        /\ delivered[i] \in 1 .. Len(subs) /\ subs[delivered[i]].life = "RETRIEVING"
        /\ \A t \in Threads : Uses(t) => call[t].obj # delivered[i]
  /\ DeliveredOnce

ProviderInv ==
  TypeOK /\ Books(submissions, prepared) /\ Reservations /\ Askers /\ Users /\ Delivered

-----------------------------------------------------------------------------
(* Types and sizes *)

LEMMA FiniteIds == ASSUME Bounds PROVE IsFiniteSet(RequestIds) /\ IsFiniteSet(JobIds)
BY FS_Interval DEF Bounds, JobIds

\* The sets that are counted are finite.
LEMMA SetTypes ==
  ASSUME Bounds, NEW f
  PROVE  /\ IsFiniteSet(Reserving(f)) /\ Cardinality(Reserving(f)) \in Nat
         /\ IsFiniteSet(LivePrepared(f)) /\ Cardinality(LivePrepared(f)) \in Nat
         /\ IsFiniteSet(Stored(f)) /\ Cardinality(Stored(f)) \in Nat
         /\ \A reqs : IsFiniteSet(Submitting(reqs, f)) /\ Cardinality(Submitting(reqs, f)) \in Nat
<1>1. Reserving(f) \in SUBSET RequestIds /\ LivePrepared(f) \in SUBSET RequestIds /\ Stored(f) \in SUBSET JobIds
  BY DEF Reserving, LivePrepared, Stored
<1>2. \A reqs : Submitting(reqs, f) \in SUBSET RequestIds
  BY DEF Submitting, LivePrepared
<1> QED
  BY <1>1, <1>2, FiniteIds, FS_Subset, FS_CardinalityType

\* A submission, and below it a request, field by field.
LEMMA SubTypes ==
  ASSUME TypeOK, NEW s \in 1 .. Len(subs)
  PROVE  /\ subs[s] \in [rid : RequestIds, of : Nat, job : JobIds, life : SubmissionLifecycle]
         /\ subs[s].rid \in RequestIds /\ subs[s].job \in JobIds /\ subs[s].life \in SubmissionLifecycle
         /\ subs[s].of \in Nat /\ s \in Nat \ {0}
<1> DEFINE R == [rid : RequestIds, of : Nat, job : JobIds, life : SubmissionLifecycle]
<1>1. subs \in Seq(R)
  BY DEF TypeOK
<1>2. subs[s] \in R /\ s \in Nat \ {0}
  <2> HIDE DEF R
  <2> QED
    BY <1>1
<1> QED
  BY <1>2

LEMMA RequestTypes ==
  ASSUME TypeOK, NEW p \in 1 .. Len(requests)
  PROVE  /\ requests[p] \in [rid : RequestIds, life : PreparedLifecycle]
         /\ requests[p].rid \in RequestIds /\ requests[p].life \in PreparedLifecycle
         /\ p \in Nat \ {0}
<1> DEFINE R == [rid : RequestIds, life : PreparedLifecycle]
<1>1. requests \in Seq(R)
  BY DEF TypeOK
<1>2. requests[p] \in R /\ p \in Nat \ {0}
  <2> HIDE DEF R
  <2> QED
    BY <1>1
<1> QED
  BY <1>2

\* Smaller dictionaries that keep the request of what they keep are books as well.
LEMMA ShrunkBooks ==
  ASSUME Bounds, TypeOK, NEW jobs, NEW held, Books(jobs, held),
         NEW jobs2 \in [JobIds -> 0 .. Len(subs)], NEW held2 \in [RequestIds -> 0 .. Len(requests)],
         \A j \in JobIds : jobs2[j] \in {jobs[j], NoObject},
         \A r \in RequestIds : held2[r] \in {held[r], NoObject},
         \A j \in JobIds : jobs2[j] # NoObject => held2[subs[jobs2[j]].rid] = held[subs[jobs2[j]].rid]
  PROVE  Books(jobs2, held2)
<1>1. Named(held2) /\ Asked(held2) /\ Vacant(held2)
  <2>1. Named(held) /\ Asked(held) /\ Vacant(held)
    BY DEF Books
  <2> QED
    BY <2>1 DEF Named, Asked, Vacant
<1>5. Single(jobs2) /\ Used(jobs2)
  <2>1. Single(jobs) /\ Used(jobs)
    BY DEF Books
  <2> QED
    BY <2>1 DEF Single, Used
<1>2. Linked(jobs2, held2)
  BY DEF Books, Linked
<1>3. Room(preparing, held2)
  <2>1. LivePrepared(held2) \in SUBSET LivePrepared(held)
    BY DEF LivePrepared
  <2>2. Cardinality(LivePrepared(held2)) <= Cardinality(LivePrepared(held))
    BY <2>1, SetTypes, FS_Subset
  <2>3. Room(preparing, held)
    BY DEF Books
  <2> QED
    BY <2>2, <2>3, SetTypes, SMTT(30) DEF Room, Bounds
<1>4. Space(jobs2, requests, held2)
  <2>1. Stored(jobs2) \in SUBSET Stored(jobs) /\ Submitting(requests, held2) \in SUBSET Submitting(requests, held)
    BY DEF Stored, Submitting, LivePrepared
  <2>2. /\ Cardinality(Stored(jobs2)) <= Cardinality(Stored(jobs))
        /\ Cardinality(Submitting(requests, held2)) <= Cardinality(Submitting(requests, held))
    BY <2>1, SetTypes, FS_Subset
  <2>3. Space(jobs, requests, held)
    BY DEF Books
  <2>4. /\ Cardinality(Stored(jobs)) \in Nat /\ Cardinality(Stored(jobs2)) \in Nat
        /\ Cardinality(Submitting(requests, held)) \in Nat /\ Cardinality(Submitting(requests, held2)) \in Nat
    BY SetTypes
  <2> QED
    BY <2>2, <2>3, <2>4 DEF Space, Bounds
<1> QED
  BY <1>1, <1>2, <1>3, <1>4, <1>5 DEF Books

\* What a purge leaves are books: it removes submissions with their requests, and
\* never a request that is being submitted.
LEMMA PurgedBooks ==
  ASSUME Bounds, TypeOK, Books(submissions, prepared), NEW x
  PROVE  Books(PurgedSubmissions(x), PurgedPrepared(x))
<1> DEFINE jobs == PurgedSubmissions(x)
           held == PurgedPrepared(x)
<1>1. /\ jobs \in [JobIds -> 0 .. Len(subs)] /\ \A j \in JobIds : jobs[j] \in {submissions[j], NoObject}
  BY DEF PurgedSubmissions, TypeOK, NoObject
<1>2. /\ held \in [RequestIds -> 0 .. Len(requests)] /\ \A r \in RequestIds : held[r] \in {prepared[r], NoObject}
  BY DEF PurgedPrepared, TypeOK, NoObject
<1>3. ASSUME NEW j \in JobIds, jobs[j] # NoObject
      PROVE  held[subs[jobs[j]].rid] = prepared[subs[jobs[j]].rid]
  <2> DEFINE r == subs[jobs[j]].rid
  <2>1. jobs[j] = submissions[j] /\ jobs[j] \in 1 .. Len(subs)
    BY <1>1, <1>3 DEF NoObject, TypeOK
  <2>2. r \in RequestIds /\ prepared[r] = subs[jobs[j]].of /\ requests[prepared[r]].life = "SUBMITTED"
    BY <1>3, <2>1, SubTypes DEF Books, Linked
  <2>3. r \in {subs[PurgedSubmissions(x)[i]].rid : i \in {i \in JobIds : PurgedSubmissions(x)[i] # NoObject}}
    BY <1>3
  <2>4. r \notin {subs[submissions[i]].rid : i \in {i \in JobIds : submissions[i] # PurgedSubmissions(x)[i]}}
    <3> SUFFICES ASSUME NEW i \in JobIds, submissions[i] # PurgedSubmissions(x)[i], subs[submissions[i]].rid = r
                 PROVE  FALSE
      OBVIOUS
    <3>1. submissions[i] # NoObject /\ i # j
      BY <1>1, <2>1
    <3>2. subs[submissions[i]].of = prepared[r]
      BY <3>1 DEF Books, Linked
    <3> QED
      BY <1>3, <2>1, <2>2, <3>1, <3>2 DEF Books, Single
  <2> QED
    BY <2>2, <2>3, <2>4 DEF PurgedPrepared
<1> HIDE DEF jobs, held
<1>4. Books(jobs, held)
  BY <1>1, <1>2, <1>3, ShrunkBooks
<1> QED
  BY <1>4 DEF jobs, held

\* _finish_submission_locked: one submission and its request are removed.
LEMMA FinishedBooks ==
  ASSUME Bounds, TypeOK, NEW jobs, NEW held, Books(jobs, held), NEW s \in 1 .. Len(subs)
  PROVE  Books(WithoutSub(s, jobs), WithoutSubmitted(s, jobs, held))
<1> DEFINE jobs2 == WithoutSub(s, jobs)
           held2 == WithoutSubmitted(s, jobs, held)
           r == subs[s].rid
<1>0. r \in RequestIds /\ subs[s].job \in JobIds /\ jobs \in [JobIds -> 0 .. Len(subs)]
      /\ held \in [RequestIds -> 0 .. Len(requests)]
  BY SubTypes DEF Books
<1>1. /\ jobs2 \in [JobIds -> 0 .. Len(subs)] /\ \A j \in JobIds : jobs2[j] \in {jobs[j], NoObject}
  BY <1>0 DEF WithoutSub, NoObject
<1>2. /\ held2 \in [RequestIds -> 0 .. Len(requests)] /\ \A q \in RequestIds : held2[q] \in {held[q], NoObject}
  BY <1>0 DEF WithoutSubmitted, NoObject
<1>3. ASSUME NEW j \in JobIds, jobs2[j] # NoObject
      PROVE  held2[subs[jobs2[j]].rid] = held[subs[jobs2[j]].rid]
  <2>1. jobs2[j] = jobs[j] /\ jobs[j] \in 1 .. Len(subs)
    BY <1>0, <1>1, <1>3 DEF NoObject
  <2>2. subs[jobs[j]].rid \in RequestIds
    BY <2>1, SubTypes
  <2>3. CASE jobs[subs[s].job] # s
    BY <2>3 DEF WithoutSubmitted
  <2>4. CASE jobs[subs[s].job] = s /\ subs[jobs[j]].rid # r
    BY <1>0, <2>1, <2>2, <2>4 DEF WithoutSubmitted
  <2>5. CASE jobs[subs[s].job] = s /\ subs[jobs[j]].rid = r
    <3>1. subs[jobs[j]].of = held[r] /\ subs[s].of = held[r] /\ s # NoObject
      BY <1>0, <1>3, <2>1, <2>5, SMTT(30) DEF Books, Linked, NoObject
    <3>2. j = subs[s].job
      BY <1>0, <1>3, <2>1, <2>5, <3>1 DEF Books, Single
    <3> QED
      BY <1>0, <1>3, <2>5, <3>2 DEF WithoutSub
  <2> QED
    BY <2>3, <2>4, <2>5
<1> HIDE DEF jobs2, held2
<1>4. Books(jobs2, held2)
  BY <1>1, <1>2, <1>3, ShrunkBooks
<1> QED
  BY <1>4 DEF jobs2, held2

\* Books that are kept by a step that changes nothing else.
LEMMA KeptBooks ==
  ASSUME Books(submissions', prepared'), UNCHANGED <<requests, subs, preparing, call>>
  PROVE  Books(submissions, prepared)'
BY DEF Books, Named, Linked, Single, Asked, Used, Vacant, Room, Space, Reserving, Submitting, LivePrepared, Stored,
  Asks, Uses

\* A call: where it is.
LEMMA CallTypes ==
  ASSUME TypeOK, NEW t \in Threads
  PROVE  /\ call[t] \in [at : Points, obj : Nat, job : 0 .. MaxObjects]
         /\ call[t].at \in Points /\ call[t].obj \in Nat /\ call[t].job \in 0 .. MaxObjects
BY DEF TypeOK

\* One thread moves, the others stay where they are.
LEMMA GoesFacts ==
  ASSUME Bounds, TypeOK, NEW t \in Threads, NEW point \in Points, NEW o \in Nat,
         Goes(t, point, o) \/ (Returns(t) /\ point = "idle" /\ o = NoObject)
  PROVE  /\ call' \in [Threads -> [at : Points, obj : Nat, job : 0 .. MaxObjects]]
         /\ call'[t].at = point /\ call'[t].obj = o
         /\ \A u \in Threads : u # t => call'[u] = call[u]
<1>1. /\ [at |-> point, obj |-> o, job |-> call[t].job] \in [at : Points, obj : Nat, job : 0 .. MaxObjects]
      /\ Idle \in [at : Points, obj : Nat, job : 0 .. MaxObjects] /\ Idle.at = "idle" /\ Idle.obj = NoObject
  BY CallTypes DEF Idle, NoObject, Points, Bounds
<1>2. CASE Goes(t, point, o)
  BY <1>1, <1>2 DEF Goes, TypeOK
<1>3. CASE Returns(t) /\ point = "idle" /\ o = NoObject
  BY <1>1, <1>3 DEF Returns, TypeOK
<1> QED
  BY <1>2, <1>3

\* Steps that only forget entries of the dictionaries.
LEMMA ForgetKeeps ==
  ASSUME Bounds, ProviderInv, Books(submissions', prepared'),
         UNCHANGED <<requests, subs, preparing, call, oldRequests, oldSubs, posted, delivered, pfaults>>
  PROVE  ProviderInv'
<1>1. Books(submissions, prepared)'
  BY KeptBooks
<1>2. TypeOK'
  BY DEF ProviderInv, TypeOK, Books
<1>3. Reservations' /\ Askers' /\ Users' /\ Delivered'
  BY DEF ProviderInv, Reservations, Askers, Users, Delivered, DeliveredOnce, Asks, Uses
<1> QED
  BY <1>1, <1>2, <1>3 DEF ProviderInv

\* Time passes.
LEMMA AgesKeep == ASSUME Bounds, ProviderInv, RequestAges \/ SubmissionAges PROVE ProviderInv'
<1>1. UNCHANGED <<submissions, prepared, requests, subs, preparing, call, posted, delivered, pfaults>>
  BY DEF RequestAges, SubmissionAges, dictionaries, objects, world
<1>2. Books(submissions, prepared)'
  <2>1. Books(submissions', prepared')
    BY <1>1 DEF ProviderInv
  <2> QED
    BY <1>1, <2>1, KeptBooks
<1>3. oldRequests' \subseteq 1 .. Len(requests) /\ oldSubs' \subseteq 1 .. Len(subs)
  BY DEF ProviderInv, TypeOK, RequestAges, SubmissionAges
<1>4. TypeOK'
  BY <1>1, <1>3 DEF ProviderInv, TypeOK
<1>5. Reservations' /\ Askers' /\ Users' /\ Delivered'
  BY <1>1 DEF ProviderInv, Reservations, Askers, Users, Delivered, DeliveredOnce, Asks, Uses
<1> QED
  BY <1>2, <1>4, <1>5 DEF ProviderInv

\* A submission is given up and forgotten.
LEMMA RetrieveFailedKeeps ==
  ASSUME Bounds, ProviderInv, NEW t \in Threads, NEW s \in 1 .. Len(subs), RetrieveFailed(t, s) \/ ReleaseSubmission(t, s)
  PROVE  ProviderInv'
<1>1. PICK x : /\ submissions' = WithoutSub(s, PurgedSubmissions(x))
               /\ prepared' = WithoutSubmitted(s, PurgedSubmissions(x), PurgedPrepared(x))
               /\ UNCHANGED <<requests, subs, preparing, call, oldRequests, oldSubs, posted, delivered, pfaults>>
  BY DEF RetrieveFailed, ReleaseSubmission, objects, ages, world
<1>2. Books(PurgedSubmissions(x), PurgedPrepared(x))
  BY PurgedBooks DEF ProviderInv
<1>3. Books(submissions', prepared')
  BY <1>1, <1>2, FinishedBooks DEF ProviderInv
<1> QED
  BY <1>1, <1>3, ForgetKeeps

\* A caller gives a request up, and the submission made from it.
LEMMA ReleaseRequestKeeps ==
  ASSUME Bounds, ProviderInv, NEW t \in Threads, NEW p \in 1 .. Len(requests), ReleaseRequest(t, p)
  PROVE  ProviderInv'
<1> DEFINE held == PurgedPrepared(NoObject)
           jobs == PurgedSubmissions(NoObject)
           r == requests[p].rid
<1>1. TypeOK /\ Books(jobs, held)
  BY PurgedBooks DEF ProviderInv
<1>2. UNCHANGED <<requests, subs, preparing, call, oldRequests, oldSubs, posted, delivered, pfaults>>
  BY DEF ReleaseRequest, objects, ages, world
<1>3. CASE held[r] # p
  <2>1. submissions' = jobs /\ prepared' = held
    BY <1>3 DEF ReleaseRequest, Purges
  <2> QED
    BY <1>1, <1>2, <2>1, ForgetKeeps
<1>4. CASE held[r] = p
  <2>1. /\ prepared' = [held EXCEPT ![r] = NoObject]
        /\ submissions' = [j \in JobIds |-> IF jobs[j] # NoObject /\ subs[jobs[j]].rid = r THEN NoObject ELSE jobs[j]]
    BY <1>4 DEF ReleaseRequest
  <2> HIDE DEF held, jobs
  <2>2. /\ jobs \in [JobIds -> 0 .. Len(subs)] /\ held \in [RequestIds -> 0 .. Len(requests)] /\ r \in RequestIds
    BY <1>1, RequestTypes DEF Books
  <2>3. /\ submissions' \in [JobIds -> 0 .. Len(subs)] /\ \A j \in JobIds : submissions'[j] \in {jobs[j], NoObject}
        /\ prepared' \in [RequestIds -> 0 .. Len(requests)] /\ \A q \in RequestIds : prepared'[q] \in {held[q], NoObject}
        /\ \A q \in RequestIds : q # r => prepared'[q] = held[q]
        /\ \A j \in JobIds : submissions'[j] # NoObject => submissions'[j] = jobs[j] /\ subs[jobs[j]].rid # r
    BY <2>1, <2>2 DEF NoObject
  <2>4. ASSUME NEW j \in JobIds, submissions'[j] # NoObject
        PROVE  prepared'[subs[submissions'[j]].rid] = held[subs[submissions'[j]].rid]
    <3>1. jobs[j] \in 1 .. Len(subs) /\ submissions'[j] = jobs[j] /\ subs[jobs[j]].rid # r
      BY <2>2, <2>3, <2>4 DEF NoObject
    <3> QED
      BY <1>1, <2>3, <3>1, SubTypes
  <2>5. Books(submissions', prepared')
    BY <1>1, <2>3, <2>4, ShrunkBooks
  <2> QED
    BY <1>2, <2>5, ForgetKeeps
<1> QED
  BY <1>3, <1>4

\* What a step of a thread that works on nothing leaves of the calls at work.
LEMMA OthersWork ==
  ASSUME NEW t \in Threads, ~Asks(t), ~Uses(t), \A u \in Threads : u # t => call'[u] = call[u]
  PROVE  /\ \A u \in Threads : Asks(u) => call'[u] = call[u] /\ u # t
         /\ \A u \in Threads : Uses(u) => call'[u] = call[u] /\ u # t
OBVIOUS

\* A call that is neither before nor after at work on an object.
LEMMA IdleCallKeeps ==
  ASSUME Bounds, ProviderInv, NEW t \in Threads, ~Asks(t), ~Uses(t),
         \A u \in Threads : u # t => call'[u] = call[u], call'[t].at \in {"idle", "creating"},
         UNCHANGED <<requests, subs, delivered>>
  PROVE  Askers' /\ Users' /\ Delivered'
<1>1. \A u \in Threads : /\ Asks(u)' => Asks(u) /\ call'[u] = call[u]
                         /\ Uses(u)' => Uses(u) /\ call'[u] = call[u]
  BY DEF Asks, Uses
<1>2. Askers'
  BY <1>1 DEF ProviderInv, Askers
<1>3. Users'
  BY <1>1 DEF ProviderInv, Users
<1>4. Delivered'
  BY <1>1 DEF ProviderInv, Delivered, DeliveredOnce
<1> QED
  BY <1>2, <1>3, <1>4

-----------------------------------------------------------------------------
(* create_request *)

LEMMA CreateReservesKeeps ==
  ASSUME Bounds, ProviderInv, NEW t \in Threads, NEW r \in RequestIds, CreateReserves(t, r)
  PROVE  ProviderInv'
<1>1. TypeOK /\ Books(submissions', prepared') /\ call[t].at = "idle"
      /\ UNCHANGED <<requests, subs, oldRequests, oldSubs, posted, delivered, pfaults>>
  BY PurgedBooks DEF ProviderInv, CreateReserves, Purges, At, objects, ages, world
<1>2. CASE ~Admissible(r, prepared')
  BY <1>1, <1>2, ForgetKeeps DEF CreateReserves
<1>3. CASE Admissible(r, prepared')
  <2>1. preparing' = [preparing EXCEPT ![r] = t] /\ Goes(t, "creating", NoObject)
    BY <1>3 DEF CreateReserves
  <2>2. /\ call' \in [Threads -> [at : Points, obj : Nat, job : 0 .. MaxObjects]] /\ call'[t].at = "creating"
        /\ \A u \in Threads : u # t => call'[u] = call[u]
    BY <1>1, <2>1, GoesFacts DEF Points, NoObject
  <2>3. ~Asks(t) /\ ~Uses(t)
    BY <1>1 DEF Asks, Uses
  <2>4. /\ preparing' \in [RequestIds -> Threads \cup {Nobody}] /\ preparing'[r] = t /\ t # Nobody
        /\ \A q \in RequestIds : q # r => preparing'[q] = preparing[q]
        /\ preparing[r] = Nobody /\ prepared'[r] = NoObject
    BY <1>1, <1>3, <2>1 DEF TypeOK, Admissible, Bounds
  <2>5. TypeOK'
    BY <1>1, <2>2, <2>4 DEF TypeOK, Books
  <2>6. Askers' /\ Users' /\ Delivered'
    BY <1>1, <2>2, <2>3, IdleCallKeeps
  <2>7. \A q \in RequestIds : preparing[q] # t
    BY <1>1, <2>4 DEF ProviderInv, Reservations
  <2>8. Reservations'
    <3>1. ASSUME NEW q \in RequestIds, preparing'[q] # Nobody PROVE call'[preparing'[q]].at = "creating"
      <4>1. CASE q = r
        BY <2>2, <2>4, <4>1
      <4>2. CASE q # r
        <5>1. preparing'[q] = preparing[q] /\ preparing[q] \in Threads /\ preparing[q] # t
          BY <1>1, <2>4, <2>7, <3>1, <4>2 DEF TypeOK
        <5> QED
          BY <2>2, <3>1, <5>1 DEF ProviderInv, Reservations
      <4> QED
        BY <4>1, <4>2
    <3>2. ASSUME NEW q \in RequestIds, NEW w \in RequestIds, preparing'[q] # Nobody, preparing'[q] = preparing'[w]
          PROVE  q = w
      BY <2>4, <2>7, <3>2 DEF ProviderInv, Reservations
    <3> QED
      BY <3>1, <3>2 DEF Reservations
  <2>9. Room(preparing', prepared')
    <3>1. Reserving(preparing') = Reserving(preparing) \cup {r} /\ r \notin Reserving(preparing)
      BY <2>4 DEF Reserving
    <3>2. Cardinality(Reserving(preparing')) = Cardinality(Reserving(preparing)) + 1
      BY <3>1, SetTypes, FS_AddElement
    <3>3. Cardinality(Reserving(preparing)) + Cardinality(LivePrepared(prepared')) < MaxPrepared
      BY <1>3 DEF Admissible, Reserving
    <3>4. Cardinality(Reserving(preparing)) \in Nat /\ Cardinality(LivePrepared(prepared')) \in Nat
      BY SetTypes
    <3> QED
      BY <3>2, <3>3, <3>4 DEF Room, Bounds
  <2>10. /\ Named(prepared)' /\ Linked(submissions, prepared)' /\ Single(submissions)'
    BY <1>1 DEF Books, Named, Linked, Single
  <2>11. Asked(prepared)' /\ Used(submissions)'
    <3>1. \A u \in Threads : /\ Asks(u) => Asks(u)' /\ call'[u].obj = call[u].obj
                             /\ Uses(u) => Uses(u)' /\ call'[u].obj = call[u].obj
      BY <2>2, <2>3, OthersWork DEF Asks, Uses
    <3> QED
      BY <1>1, <3>1, SMTT(30) DEF Books, Asked, Used
  <2>12. Vacant(prepared)'
    BY <1>1, <2>4 DEF Books, Vacant
  <2>13. Space(submissions', requests', prepared')
    BY <1>1 DEF Books
  <2>14. Books(submissions, prepared)'
    BY <1>1, <2>9, <2>10, <2>11, <2>12, <2>13 DEF Books, Room, Space, Reserving, Submitting, LivePrepared, Stored
  <2> QED
    BY <2>5, <2>6, <2>8, <2>14 DEF ProviderInv
<1> QED
  BY <1>2, <1>3

LEMMA CreateStoresKeeps ==
  ASSUME Bounds, ProviderInv, NEW t \in Threads, CreateStores(t)
  PROVE  ProviderInv'
<1> DEFINE held == PurgedPrepared(NoObject)
           jobs == PurgedSubmissions(NoObject)
           n == Len(requests) + 1
<1>1. TypeOK /\ Books(jobs, held) /\ call[t].at = "creating" /\ Returns(t)
      /\ UNCHANGED <<subs, oldRequests, oldSubs, posted, delivered, pfaults>>
  BY PurgedBooks DEF ProviderInv, CreateStores, At, ages, world
<1>2. PICK r \in Reserved(t) :
        /\ preparing' = [preparing EXCEPT ![r] = Nobody] /\ submissions' = jobs
        /\ prepared' = [held EXCEPT ![r] = n] /\ requests' = Append(requests, [rid |-> r, life |-> "PREPARED"])
  BY DEF CreateStores
<1> HIDE DEF held, jobs
<1>3. /\ r \in RequestIds /\ preparing[r] = t /\ t # Nobody /\ held[r] = NoObject
      /\ jobs \in [JobIds -> 0 .. Len(subs)] /\ held \in [RequestIds -> 0 .. Len(requests)] /\ n \in Nat \ {0}
  BY <1>1 DEF Reserved, Bounds, Books, Vacant, TypeOK
<1>4. /\ call' \in [Threads -> [at : Points, obj : Nat, job : 0 .. MaxObjects]] /\ call'[t].at = "idle"
      /\ \A u \in Threads : u # t => call'[u] = call[u]
  BY <1>1, GoesFacts DEF Points, NoObject
<1>5. ~Asks(t) /\ ~Uses(t)
  BY <1>1 DEF Asks, Uses
<1>6. /\ requests' \in Seq([rid : RequestIds, life : PreparedLifecycle]) /\ Len(requests') = n
      /\ requests'[n].rid = r /\ requests'[n].life = "PREPARED"
      /\ \A p \in 1 .. Len(requests) : requests'[p] = requests[p]
  <2> DEFINE R == [rid : RequestIds, life : PreparedLifecycle]
             e == [rid |-> r, life |-> "PREPARED"]
  <2>1. requests \in Seq(R) /\ e \in R /\ e.rid = r /\ e.life = "PREPARED"
    BY <1>1, <1>3 DEF TypeOK, PreparedLifecycle
  <2>2. requests' = Append(requests, e)
    BY <1>2
  <2> HIDE DEF R, e
  <2>3. requests' \in Seq(R) /\ Len(requests') = n /\ requests'[n] = e /\ \A p \in 1 .. Len(requests) : requests'[p] = requests[p]
    BY <2>1, <2>2
  <2> QED
    BY <2>1, <2>3 DEF R
<1>7. /\ preparing' \in [RequestIds -> Threads \cup {Nobody}] /\ preparing'[r] = Nobody
      /\ \A q \in RequestIds : q # r => preparing'[q] = preparing[q]
      /\ prepared' \in [RequestIds -> 0 .. Len(requests')] /\ prepared'[r] = n
      /\ \A q \in RequestIds : q # r => prepared'[q] = held[q]
  BY <1>1, <1>2, <1>3, <1>6, SMTT(30) DEF TypeOK
<1>8. TypeOK'
  <2>1. oldRequests' \subseteq 1 .. Len(requests') /\ submissions' \in [JobIds -> 0 .. Len(subs')]
    BY <1>1, <1>2, <1>3, <1>6 DEF TypeOK
  <2> QED
    BY <1>1, <1>4, <1>6, <1>7, <2>1 DEF TypeOK
<1>9. \A u \in Threads : /\ (Asks(u)' <=> Asks(u)) /\ (Uses(u)' <=> Uses(u))
                         /\ Asks(u) => call'[u] = call[u]
                         /\ Uses(u) => call'[u] = call[u]
  BY <1>4, <1>5 DEF Asks, Uses
<1>10. Askers'
  BY <1>6, <1>9 DEF ProviderInv, Askers
<1>11. Users' /\ Delivered'
  BY <1>1, <1>9 DEF ProviderInv, Users, Delivered, DeliveredOnce
<1>12. Reservations'
  <2>1. \A q \in RequestIds : preparing'[q] # Nobody => preparing[q] = preparing'[q] /\ preparing[q] # t
    BY <1>3, <1>7 DEF ProviderInv, Reservations
  <2> QED
    BY <1>1, <1>4, <2>1, SMTT(30) DEF ProviderInv, Reservations, TypeOK
<1>13. Named(prepared)' /\ Vacant(prepared)'
  <2>1. \A q \in RequestIds : held[q] # NoObject => requests'[held[q]] = requests[held[q]]
    BY <1>3, <1>6 DEF NoObject
  <2>2. Named(held) /\ Vacant(held)
    BY <1>1 DEF Books
  <2>3. \A q \in RequestIds : prepared'[q] # NoObject => requests'[prepared'[q]].rid = q
    BY <1>6, <1>7, <2>1, <2>2 DEF Named
  <2>4. \A q \in RequestIds : preparing'[q] # Nobody => prepared'[q] = NoObject
    BY <1>7, <2>2 DEF Vacant
  <2> QED
    BY <2>3, <2>4 DEF Named, Vacant
<1>14. Linked(submissions, prepared)' /\ Single(submissions)'
  <2>1. ASSUME NEW j \in JobIds, jobs[j] # NoObject
        PROVE  /\ subs[jobs[j]].job = j /\ prepared'[subs[jobs[j]].rid] = subs[jobs[j]].of
               /\ subs[jobs[j]].of # NoObject /\ requests'[subs[jobs[j]].of].life = "SUBMITTED"
    <3>1. /\ subs[jobs[j]].job = j /\ held[subs[jobs[j]].rid] = subs[jobs[j]].of
          /\ subs[jobs[j]].of # NoObject /\ requests[subs[jobs[j]].of].life = "SUBMITTED"
      BY <1>1, <2>1 DEF Books, Linked
    <3>2. subs[jobs[j]].rid \in RequestIds
      BY <1>1, <1>3, <2>1, SubTypes DEF NoObject
    <3>3. subs[jobs[j]].rid # r /\ subs[jobs[j]].of \in 1 .. Len(requests)
      BY <1>3, <3>1, <3>2 DEF NoObject
    <3> QED
      BY <1>6, <1>7, <3>1, <3>2, <3>3
  <2> QED
    BY <1>1, <1>2, <2>1, ZenonT(60) DEF Books, Linked, Single
<1>15. Asked(prepared)' /\ Used(submissions)'
  <2>1. Used(submissions)'
    BY <1>1, <1>2, <1>9 DEF Books, Used
  <2>2. ASSUME NEW q \in RequestIds, prepared'[q] # NoObject, requests'[prepared'[q]].life = "SUBMITTING"
        PROVE  \E u \in Threads : Asks(u)' /\ call'[u].obj = prepared'[q]
    <3>1. q # r
      BY <1>6, <1>7, <2>2
    <3>2. held[q] \in 1 .. Len(requests) /\ requests'[held[q]] = requests[held[q]] /\ prepared'[q] = held[q]
      BY <1>3, <1>6, <1>7, <2>2, <3>1 DEF NoObject
    <3>3. PICK u \in Threads : Asks(u) /\ call[u].obj = held[q]
      BY <1>1, <2>2, <3>2 DEF Books, Asked
    <3> QED
      BY <1>9, <3>2, <3>3
  <2> QED
    BY <2>1, <2>2 DEF Asked
<1>16. Room(preparing', prepared')
  <2>1. Reserving(preparing') = Reserving(preparing) \ {r} /\ r \in Reserving(preparing)
    BY <1>3, <1>7 DEF Reserving
  <2>2. LivePrepared(prepared') = LivePrepared(held) \cup {r} /\ r \notin LivePrepared(held)
    BY <1>3, <1>7 DEF LivePrepared, NoObject
  <2>3. Cardinality(Reserving(preparing')) = Cardinality(Reserving(preparing)) - 1
    BY <2>1, SetTypes, FS_RemoveElement
  <2>6. Cardinality(LivePrepared(prepared')) = Cardinality(LivePrepared(held)) + 1
    BY <2>2, SetTypes, FS_AddElement
  <2>4. Cardinality(Reserving(preparing)) \in Nat /\ Cardinality(LivePrepared(held)) \in Nat
    BY SetTypes
  <2>5. Room(preparing, held)
    BY <1>1 DEF Books
  <2> QED
    BY <2>3, <2>4, <2>5, <2>6 DEF Room, Bounds
<1>17. Space(submissions', requests', prepared')
  <2>1. Submitting(requests', prepared') = Submitting(requests, held)
    <3>1. ASSUME NEW q \in RequestIds
          PROVE  (prepared'[q] # NoObject /\ requests'[prepared'[q]].life = "SUBMITTING")
                   <=> (held[q] # NoObject /\ requests[held[q]].life = "SUBMITTING")
      <4>1. CASE q = r
        BY <1>3, <1>6, <1>7, <4>1
      <4>2. CASE q # r
        BY <1>3, <1>6, <1>7, <4>2 DEF NoObject
      <4> QED
        BY <4>1, <4>2
    <3> QED
      BY <3>1 DEF Submitting, LivePrepared
  <2> QED
    BY <1>1, <1>2, <2>1 DEF Books, Space
<1>18. Books(submissions, prepared)'
  <2>1. submissions' \in [JobIds -> 0 .. Len(subs')] /\ prepared' \in [RequestIds -> 0 .. Len(requests')]
    BY <1>1, <1>2, <1>3, <1>7
  <2> QED
    BY <2>1, <1>13, <1>14, <1>15, <1>16, <1>17 DEF Books, Room, Space, Reserving, Submitting, LivePrepared, Stored
<1> QED
  BY <1>8, <1>10, <1>11, <1>12, <1>18 DEF ProviderInv

LEMMA CreateFailsKeeps ==
  ASSUME Bounds, ProviderInv, NEW t \in Threads, CreateFails(t)
  PROVE  ProviderInv'
<1>1. TypeOK /\ Books(submissions, prepared) /\ call[t].at = "creating" /\ Returns(t)
      /\ UNCHANGED <<prepared, submissions, requests, subs, oldRequests, oldSubs, posted, delivered, pfaults>>
  BY DEF ProviderInv, CreateFails, At, objects, ages, world
<1>2. /\ call' \in [Threads -> [at : Points, obj : Nat, job : 0 .. MaxObjects]] /\ call'[t].at = "idle"
      /\ \A u \in Threads : u # t => call'[u] = call[u]
  BY <1>1, GoesFacts DEF Points, NoObject
<1>3. ~Asks(t) /\ ~Uses(t)
  BY <1>1 DEF Asks, Uses
<1>4. /\ preparing' \in [RequestIds -> Threads \cup {Nobody}]
      /\ \A q \in RequestIds : preparing'[q] # Nobody => preparing'[q] = preparing[q] /\ preparing[q] # t
  BY <1>1 DEF CreateFails, TypeOK
<1>5. TypeOK'
  BY <1>1, <1>2, <1>4 DEF TypeOK
<1>6. Askers' /\ Users' /\ Delivered'
  BY <1>1, <1>2, <1>3, IdleCallKeeps
<1>7. Reservations'
  BY <1>1, <1>2, <1>4 DEF ProviderInv, Reservations, TypeOK
<1>8. Room(preparing', prepared')
  <2>1. Reserving(preparing') \in SUBSET Reserving(preparing)
    BY <1>4 DEF Reserving
  <2>2. Cardinality(Reserving(preparing')) <= Cardinality(Reserving(preparing))
    BY <2>1, SetTypes, FS_Subset
  <2>3. /\ Cardinality(Reserving(preparing)) \in Nat /\ Cardinality(Reserving(preparing')) \in Nat
        /\ Cardinality(LivePrepared(prepared)) \in Nat /\ prepared' = prepared
    BY <1>1, SetTypes
  <2>4. Room(preparing, prepared)
    BY <1>1 DEF Books
  <2> QED
    BY <2>2, <2>3, <2>4 DEF Room, Bounds
<1>9. Asked(prepared)' /\ Used(submissions)'
  <2>1. \A u \in Threads : /\ Asks(u) => Asks(u)' /\ call'[u].obj = call[u].obj
                           /\ Uses(u) => Uses(u)' /\ call'[u].obj = call[u].obj
    BY <1>2, <1>3, OthersWork DEF Asks, Uses
  <2> QED
    BY <1>1, <2>1 DEF Books, Asked, Used
<1>10. Named(prepared)' /\ Linked(submissions, prepared)' /\ Single(submissions)' /\ Vacant(prepared)'
  BY <1>1, <1>4 DEF Books, Named, Linked, Single, Vacant
<1>11. Space(submissions', requests', prepared')
  BY <1>1 DEF Books
<1>12. Books(submissions, prepared)'
  BY <1>1, <1>8, <1>9, <1>10, <1>11 DEF Books, Room, Space, Reserving, Submitting, LivePrepared, Stored
<1> QED
  BY <1>5, <1>6, <1>7, <1>12 DEF ProviderInv

-----------------------------------------------------------------------------
(* submit *)

\* A request in the middle of a sequence of them changes its lifecycle.
LEMMA SetRequestFacts ==
  ASSUME TypeOK, NEW p \in 1 .. Len(requests), NEW life \in PreparedLifecycle, SetRequest(p, life)
  PROVE  /\ requests' \in Seq([rid : RequestIds, life : PreparedLifecycle]) /\ Len(requests') = Len(requests)
         /\ requests'[p].life = life /\ requests'[p].rid = requests[p].rid
         /\ \A q \in 1 .. Len(requests) : q # p => requests'[q] = requests[q]
<1> DEFINE R == [rid : RequestIds, life : PreparedLifecycle]
           e == [requests[p] EXCEPT !.life = life]
<1>1. requests \in Seq(R) /\ e \in R /\ e.rid = requests[p].rid /\ e.life = life
  BY RequestTypes DEF TypeOK
<1>2. requests' = [requests EXCEPT ![p] = e]
  BY DEF SetRequest
<1> HIDE DEF R, e
<1>3. requests' \in Seq(R) /\ Len(requests') = Len(requests) /\ requests'[p] = e
      /\ \A q \in 1 .. Len(requests) : q # p => requests'[q] = requests[q]
  BY <1>1, <1>2
<1> QED
  BY <1>1, <1>3 DEF R

\* The request is admitted, if it is still held and there is room for a submission.
LEMMA SubmitStartsKeeps ==
  ASSUME Bounds, ProviderInv, NEW t \in Threads, NEW p \in 1 .. Len(requests), SubmitStarts(t, p)
  PROVE  ProviderInv'
<1> DEFINE h == requests[p].rid
<1>1. TypeOK /\ Books(submissions', prepared') /\ call[t].at = "idle" /\ h \in RequestIds /\ p # NoObject
      /\ UNCHANGED <<preparing, subs, oldRequests, oldSubs, posted, delivered, pfaults>>
  BY PurgedBooks, RequestTypes DEF ProviderInv, SubmitStarts, Purges, At, ages, world, NoObject
<1>2. CASE ~(prepared'[h] = p /\ requests[p].life = "PREPARED" /\ LiveSubmissions(submissions', prepared') < MaxLive)
  BY <1>1, <1>2, ForgetKeeps DEF SubmitStarts
<1>3. CASE prepared'[h] = p /\ requests[p].life = "PREPARED" /\ LiveSubmissions(submissions', prepared') < MaxLive
  <2>1. SetRequest(p, "SUBMITTING") /\ Goes(t, "asking", p)
    BY <1>3 DEF SubmitStarts
  <2>2. /\ call' \in [Threads -> [at : Points, obj : Nat, job : 0 .. MaxObjects]] /\ call'[t].at = "asking"
        /\ call'[t].obj = p /\ \A u \in Threads : u # t => call'[u] = call[u]
    BY <1>1, <2>1, GoesFacts DEF Points
  <2>3. ~Asks(t) /\ ~Uses(t)
    BY <1>1 DEF Asks, Uses
  <2>4. /\ requests' \in Seq([rid : RequestIds, life : PreparedLifecycle]) /\ Len(requests') = Len(requests)
        /\ requests'[p].life = "SUBMITTING" /\ requests'[p].rid = h
        /\ \A q \in 1 .. Len(requests) : q # p => requests'[q] = requests[q]
    BY <1>1, <2>1, SetRequestFacts DEF PreparedLifecycle
  <2>5. TypeOK'
    BY <1>1, <2>2, <2>4 DEF TypeOK, Books
  <2>6. Reservations'
    <3>1. \A q \in RequestIds : preparing[q] # Nobody => preparing[q] \in Threads /\ preparing[q] # t
      BY <1>1 DEF ProviderInv, Reservations, TypeOK
    <3> QED
      BY <1>1, <2>2, <3>1 DEF ProviderInv, Reservations
  <2>7. \A u \in Threads : /\ Asks(u) => Asks(u)' /\ call'[u] = call[u] /\ u # t
                           /\ Asks(u)' => u = t \/ Asks(u)
                           /\ (Uses(u)' <=> Uses(u)) /\ (Uses(u) => call'[u] = call[u])
    BY <2>2, <2>3 DEF Asks, Uses
  <2>8. Asks(t)'
    BY <2>2 DEF Asks
  <2>9. Askers'
    <3>1. \A u \in Threads : Asks(u) => call[u].obj \in 1 .. Len(requests) /\ call[u].obj # p
      BY <1>3 DEF ProviderInv, Askers
    <3>2. ASSUME NEW u \in Threads, Asks(u)'
          PROVE  call'[u].obj \in 1 .. Len(requests') /\ requests'[call'[u].obj].life = "SUBMITTING"
      <4>1. CASE u = t
        BY <2>2, <2>4, <4>1
      <4>2. CASE u # t
        BY <2>4, <2>7, <3>1, <3>2, <4>2 DEF ProviderInv, Askers
      <4> QED
        BY <4>1, <4>2
    <3>3. ASSUME NEW u \in Threads, NEW v \in Threads, Asks(u)', Asks(v)', call'[u].obj = call'[v].obj
          PROVE  u = v
      <4>1. CASE u = t \/ v = t
        BY <2>2, <2>7, <3>1, <3>3, <4>1
      <4>2. CASE u # t /\ v # t
        BY <2>7, <3>3, <4>2 DEF ProviderInv, Askers
      <4> QED
        BY <4>1, <4>2
    <3> QED
      BY <3>2, <3>3 DEF Askers
  <2>10. Users' /\ Delivered'
    BY <1>1, <2>7, SMTT(30) DEF ProviderInv, Users, Delivered, DeliveredOnce
  <2>11. \A r \in RequestIds : prepared'[r] \in 0 .. Len(requests) /\ (prepared'[r] = p => r = h)
    BY <1>1 DEF Books, Named
  <2>12. Named(prepared)' /\ Vacant(prepared)'
    <3>1. \A r \in RequestIds : prepared'[r] # NoObject => requests'[prepared'[r]].rid = r
      <4>1. Named(prepared')
        BY <1>1 DEF Books
      <4> QED
        BY <2>4, <2>11, <4>1 DEF Named, NoObject
    <3> QED
      BY <1>1, <3>1 DEF Books, Named, Vacant
  <2>13. Linked(submissions, prepared)' /\ Single(submissions)'
    <3>1. ASSUME NEW j \in JobIds, submissions'[j] # NoObject
          PROVE  requests'[subs[submissions'[j]].of].life = "SUBMITTED"
      <4> DEFINE o == subs[submissions'[j]].of
                 q == subs[submissions'[j]].rid
      <4>1. prepared'[q] = o /\ o # NoObject /\ requests[o].life = "SUBMITTED"
        BY <1>1, <3>1 DEF Books, Linked
      <4>2. q \in RequestIds
        BY <1>1, <3>1, SubTypes DEF Books, NoObject
      <4>3. o \in 1 .. Len(requests) /\ o # p
        BY <1>3, <2>11, <4>1, <4>2 DEF NoObject
      <4> QED
        BY <2>4, <4>1, <4>3
    <3> QED
      BY <1>1, <3>1 DEF Books, Linked, Single
  <2>14. Used(submissions)'
    BY <1>1, <2>7 DEF Books, Used
  <2>15. Asked(prepared)'
    <3>1. ASSUME NEW r \in RequestIds, prepared'[r] # NoObject, requests'[prepared'[r]].life = "SUBMITTING"
          PROVE  \E u \in Threads : Asks(u)' /\ call'[u].obj = prepared'[r]
      <4>1. CASE prepared'[r] = p
        BY <2>2, <2>8, <4>1
      <4>2. CASE prepared'[r] # p
        <5>1. requests[prepared'[r]].life = "SUBMITTING"
          BY <2>4, <2>11, <3>1, <4>2 DEF NoObject
        <5>2. PICK u \in Threads : Asks(u) /\ call[u].obj = prepared'[r]
          BY <1>1, <3>1, <5>1 DEF Books, Asked
        <5> QED
          BY <2>7, <5>2
      <4> QED
        BY <4>1, <4>2
    <3> QED
      BY <3>1 DEF Asked
  <2>16. Space(submissions', requests', prepared')
    <3>1. Submitting(requests', prepared') = Submitting(requests, prepared') \cup {h}
      <4>1. ASSUME NEW r \in RequestIds
            PROVE  (prepared'[r] # NoObject /\ requests'[prepared'[r]].life = "SUBMITTING")
                     <=> (r = h \/ (prepared'[r] # NoObject /\ requests[prepared'[r]].life = "SUBMITTING"))
        <5>1. CASE r = h
          BY <1>1, <1>3, <2>4, <5>1
        <5>2. CASE r # h
          BY <2>4, <2>11, <5>2 DEF NoObject
        <5> QED
          BY <5>1, <5>2
      <4> QED
        BY <1>1, <4>1 DEF Submitting, LivePrepared
    <3>2. h \notin Submitting(requests, prepared')
      BY <1>3 DEF Submitting
    <3>3. Cardinality(Submitting(requests', prepared')) = Cardinality(Submitting(requests, prepared')) + 1
      BY <3>1, <3>2, SetTypes, FS_AddElement
    <3>4. Cardinality(Stored(submissions')) + Cardinality(Submitting(requests, prepared')) < MaxLive
      BY <1>3 DEF LiveSubmissions, Stored, Submitting
    <3>5. Cardinality(Stored(submissions')) \in Nat /\ Cardinality(Submitting(requests, prepared')) \in Nat
      BY SetTypes
    <3> QED
      BY <3>3, <3>4, <3>5 DEF Space, Bounds
  <2>17. Books(submissions, prepared)'
    <3>1. /\ submissions' \in [JobIds -> 0 .. Len(subs')] /\ prepared' \in [RequestIds -> 0 .. Len(requests')]
          /\ Room(preparing', prepared')
      BY <1>1, <2>4 DEF Books
    <3> QED
      BY <2>12, <2>13, <2>14, <2>15, <2>16, <3>1 DEF Books, Room, Space, Reserving, Submitting, LivePrepared, Stored
  <2> QED
    BY <2>5, <2>6, <2>9, <2>10, <2>17 DEF ProviderInv
<1> QED
  BY <1>2, <1>3

\* A submit that ends without a submission: its request is ready again, gone, or of
\* nobody's anyway.
LEMMA SubmitEndsKeeps ==
  ASSUME Bounds, ProviderInv, NEW t \in Threads, Asks(t), Returns(t), NEW p, p = call[t].obj,
         UNCHANGED <<preparing, submissions, subs, oldRequests, oldSubs, posted, delivered>>,
         pfaults' \in 0 .. MaxServerFaults,
         requests' \in Seq([rid : RequestIds, life : PreparedLifecycle]), Len(requests') = Len(requests),
         requests'[p].rid = requests[p].rid,
         \A q \in 1 .. Len(requests) : q # p => requests'[q] = requests[q],
         prepared' \in [RequestIds -> 0 .. Len(requests)],
         \A r \in RequestIds : prepared'[r] = prepared[r] \/ (prepared'[r] = NoObject /\ prepared[r] = p),
         (\A r \in RequestIds : prepared'[r] # p) \/ requests'[p].life = "PREPARED"
  PROVE  ProviderInv'
<1>1. /\ TypeOK /\ Books(submissions, prepared) /\ p \in 1 .. Len(requests) /\ requests[p].life = "SUBMITTING"
      /\ p # NoObject
  BY DEF ProviderInv, Askers, NoObject
<1>2. /\ call' \in [Threads -> [at : Points, obj : Nat, job : 0 .. MaxObjects]] /\ call'[t].at = "idle"
      /\ \A u \in Threads : u # t => call'[u] = call[u]
  BY <1>1, GoesFacts DEF Points, NoObject
<1>3. \A u \in Threads : /\ Asks(u)' <=> (Asks(u) /\ u # t)
                         /\ u # t => call'[u] = call[u]
                         /\ (Uses(u)' <=> Uses(u)) /\ (Uses(u) => call'[u] = call[u])
  BY <1>2 DEF Asks, Uses
<1>4. \A u \in Threads : Asks(u) /\ u # t => call[u].obj \in 1 .. Len(requests) /\ call[u].obj # p
  BY DEF ProviderInv, Askers
<1>5. TypeOK'
  BY <1>1, <1>2 DEF TypeOK
<1>6. Reservations'
  <2>1. \A q \in RequestIds : preparing[q] # Nobody => preparing[q] \in Threads /\ preparing[q] # t
    BY <1>1 DEF ProviderInv, Reservations, TypeOK, Asks
  <2> QED
    BY <1>2, <2>1, SMTT(30) DEF ProviderInv, Reservations
<1>7. Askers'
  <2>1. ASSUME NEW u \in Threads, Asks(u)'
        PROVE  call'[u].obj \in 1 .. Len(requests') /\ requests'[call'[u].obj].life = "SUBMITTING"
    <3>1. Asks(u) /\ u # t /\ call'[u] = call[u] /\ requests[call[u].obj].life = "SUBMITTING"
      BY <1>3, <2>1 DEF ProviderInv, Askers
    <3> QED
      BY <1>4, <3>1
  <2>2. ASSUME NEW u \in Threads, NEW v \in Threads, Asks(u)', Asks(v)', call'[u].obj = call'[v].obj
        PROVE  u = v
    BY <1>3, <2>2 DEF ProviderInv, Askers
  <2> QED
    BY <2>1, <2>2 DEF Askers
<1>8. Users' /\ Delivered'
  <2>1. Users /\ Delivered
    BY DEF ProviderInv
  <2>2. Users'
    BY <1>3, <2>1 DEF Users
  <2>3. Delivered'
    BY <1>3, <2>1, SMTT(30) DEF Delivered, DeliveredOnce
  <2> QED
    BY <2>2, <2>3
<1>9. \A r \in RequestIds : /\ prepared[r] \in 0 .. Len(requests) /\ prepared'[r] \in {prepared[r], NoObject}
                            /\ prepared[r] # p => prepared'[r] = prepared[r]
  BY <1>1 DEF TypeOK
<1>10. Named(prepared)' /\ Vacant(prepared)'
  <2>1. Named(prepared) /\ Vacant(prepared)
    BY <1>1 DEF Books
  <2>2. ASSUME NEW r \in RequestIds, prepared'[r] # NoObject PROVE requests'[prepared'[r]].rid = r
    <3>1. prepared'[r] = prepared[r] /\ prepared[r] \in 1 .. Len(requests) /\ requests[prepared[r]].rid = r
      BY <1>9, <2>1, <2>2 DEF Named, NoObject
    <3>2. CASE prepared[r] = p
      BY <3>1, <3>2
    <3>3. CASE prepared[r] # p
      BY <3>1, <3>3
    <3> QED
      BY <3>2, <3>3
  <2> QED
    BY <1>9, <2>1, <2>2 DEF Named, Vacant
<1>11. Linked(submissions, prepared)' /\ Single(submissions)' /\ Used(submissions)'
  <2>1. ASSUME NEW j \in JobIds, submissions[j] # NoObject
        PROVE  /\ prepared'[subs[submissions[j]].rid] = subs[submissions[j]].of
               /\ requests'[subs[submissions[j]].of].life = "SUBMITTED"
    <3> DEFINE o == subs[submissions[j]].of
               q == subs[submissions[j]].rid
    <3>1. prepared[q] = o /\ o # NoObject /\ requests[o].life = "SUBMITTED"
      BY <1>1, <2>1 DEF Books, Linked
    <3>2. q \in RequestIds
      BY <1>1, <2>1, SubTypes DEF Books, NoObject
    <3>3. o \in 1 .. Len(requests) /\ o # p
      BY <1>1, <1>9, <3>1, <3>2, SMTT(30) DEF NoObject
    <3> QED
      BY <1>9, <3>1, <3>2, <3>3
  <2>2. Linked(submissions, prepared) /\ Single(submissions) /\ Used(submissions)
    BY <1>1 DEF Books
  <2>3. Linked(submissions, prepared)' /\ Single(submissions)'
    BY <2>1, <2>2 DEF Linked, Single
  <2>4. Used(submissions)'
    BY <1>3, <2>2 DEF Used
  <2> QED
    BY <2>3, <2>4
<1>12. Asked(prepared)'
  <2>1. ASSUME NEW r \in RequestIds, prepared'[r] # NoObject, requests'[prepared'[r]].life = "SUBMITTING"
        PROVE  \E u \in Threads : Asks(u)' /\ call'[u].obj = prepared'[r]
    <3>1. prepared'[r] # p
      BY <2>1
    <3>2. prepared'[r] = prepared[r] /\ requests[prepared[r]].life = "SUBMITTING"
      BY <1>9, <2>1, <3>1 DEF NoObject
    <3>3. PICK u \in Threads : Asks(u) /\ call[u].obj = prepared[r]
      BY <1>1, <2>1, <3>2 DEF Books, Asked
    <3>4. u # t
      BY <3>1, <3>2, <3>3
    <3> QED
      BY <1>3, <3>2, <3>3, <3>4
  <2> QED
    BY <2>1 DEF Asked
<1>13. Room(preparing, prepared') /\ Space(submissions, requests', prepared')
  <2>1. LivePrepared(prepared') \in SUBSET LivePrepared(prepared)
    BY <1>9 DEF LivePrepared
  <2>2. Submitting(requests', prepared') \in SUBSET Submitting(requests, prepared)
    <3>1. ASSUME NEW r \in RequestIds, prepared'[r] # NoObject, requests'[prepared'[r]].life = "SUBMITTING"
          PROVE  prepared[r] # NoObject /\ requests[prepared[r]].life = "SUBMITTING"
      <4>1. prepared'[r] # p
        BY <3>1
      <4> QED
        BY <1>9, <3>1, <4>1 DEF NoObject
    <3> QED
      BY <3>1 DEF Submitting, LivePrepared
  <2>3. /\ Cardinality(LivePrepared(prepared')) <= Cardinality(LivePrepared(prepared))
        /\ Cardinality(Submitting(requests', prepared')) <= Cardinality(Submitting(requests, prepared))
    BY <2>1, <2>2, SetTypes, FS_Subset
  <2>4. /\ Cardinality(LivePrepared(prepared)) \in Nat /\ Cardinality(LivePrepared(prepared')) \in Nat
        /\ Cardinality(Submitting(requests, prepared)) \in Nat /\ Cardinality(Submitting(requests', prepared')) \in Nat
        /\ Cardinality(Reserving(preparing)) \in Nat /\ Cardinality(Stored(submissions)) \in Nat
    BY SetTypes
  <2>5. Room(preparing, prepared) /\ Space(submissions, requests, prepared)
    BY <1>1 DEF Books
  <2> QED
    BY <2>3, <2>4, <2>5, SMTT(30) DEF Room, Space, Bounds
<1>14. Books(submissions, prepared)'
  <2>1. /\ submissions' \in [JobIds -> 0 .. Len(subs')] /\ prepared' \in [RequestIds -> 0 .. Len(requests')]
        /\ Room(preparing', prepared') /\ Space(submissions', requests', prepared')
    BY <1>1, <1>13 DEF Books
  <2> QED
    BY <1>10, <1>11, <1>12, <2>1 DEF Books, Room, Space, Reserving, Submitting, LivePrepared, Stored
<1> QED
  BY <1>5, <1>6, <1>7, <1>8, <1>14 DEF ProviderInv

\* The server fails or answers.
LEMMA FaultTypes ==
  ASSUME Bounds, TypeOK, ServerFault \/ UNCHANGED pfaults
  PROVE  pfaults' \in 0 .. MaxServerFaults
BY DEF Bounds, TypeOK, ServerFault

\* Who owns a request under no name but its own.
LEMMA OwnedRequest ==
  ASSUME ProviderInv, NEW t \in Threads, Asks(t), NEW p, p = call[t].obj
  PROVE  /\ p \in 1 .. Len(requests) /\ p # NoObject /\ requests[p].life = "SUBMITTING"
         /\ requests[p].rid \in RequestIds
         /\ \A r \in RequestIds : prepared[r] = p => r = requests[p].rid /\ OwnsRequest(p)
<1>1. p \in 1 .. Len(requests) /\ p # NoObject /\ requests[p].life = "SUBMITTING"
  BY DEF ProviderInv, Askers, NoObject
<1>2. \A r \in RequestIds : prepared[r] = p => r = requests[p].rid
  BY <1>1 DEF ProviderInv, Books, Named
<1> QED
  BY <1>1, <1>2, RequestTypes DEF ProviderInv, OwnsRequest

\* A transport failure before the deadline makes the request submittable again.
LEMMA SubmitRollsBackKeeps ==
  ASSUME Bounds, ProviderInv, NEW t \in Threads, SubmitRollsBack(t)
  PROVE  ProviderInv'
<1> DEFINE p == call[t].obj
<1>1. /\ TypeOK /\ Asks(t) /\ Returns(t) /\ ServerFault
      /\ UNCHANGED <<preparing, prepared, submissions, subs, oldRequests, oldSubs, posted, delivered>>
      /\ IF OwnsRequest(p) /\ requests[p].life = "SUBMITTING" THEN SetRequest(p, "PREPARED") ELSE UNCHANGED requests
  BY DEF SubmitRollsBack, ProviderInv, Asks, At, dictionaries, ages
<1> HIDE DEF p
<1>2. /\ p \in 1 .. Len(requests) /\ requests[p].life = "SUBMITTING"
      /\ \A r \in RequestIds : prepared[r] = p => OwnsRequest(p)
  BY <1>1, OwnedRequest DEF p
<1>3. /\ pfaults' \in 0 .. MaxServerFaults /\ prepared' \in [RequestIds -> 0 .. Len(requests)]
      /\ requests \in Seq([rid : RequestIds, life : PreparedLifecycle])
  BY <1>1, FaultTypes DEF TypeOK
<1>4. CASE OwnsRequest(p)
  <2>1. /\ requests' \in Seq([rid : RequestIds, life : PreparedLifecycle]) /\ Len(requests') = Len(requests)
        /\ requests'[p].life = "PREPARED" /\ requests'[p].rid = requests[p].rid
        /\ \A q \in 1 .. Len(requests) : q # p => requests'[q] = requests[q]
    BY <1>1, <1>2, <1>4, SetRequestFacts DEF PreparedLifecycle
  <2> QED
    BY <1>1, <1>3, <2>1, SubmitEndsKeeps DEF p
<1>5. CASE ~OwnsRequest(p)
  <2>1. requests' = requests /\ \A r \in RequestIds : prepared'[r] # p
    BY <1>1, <1>2, <1>5
  <2> QED
    BY <1>1, <1>3, <2>1, SubmitEndsKeeps DEF p
<1> QED
  BY <1>4, <1>5

\* The request in hand is forgotten, if it is owned.
LEMMA RequestForgotten ==
  ASSUME Bounds, ProviderInv, NEW t \in Threads, Asks(t), Returns(t), NEW p, p = call[t].obj,
         UNCHANGED <<preparing, submissions, requests, subs, oldRequests, oldSubs, posted, delivered>>,
         pfaults' \in 0 .. MaxServerFaults,
         prepared' = IF OwnsRequest(p) THEN [prepared EXCEPT ![requests[p].rid] = NoObject] ELSE prepared
  PROVE  ProviderInv'
<1>1. /\ p # NoObject /\ requests[p].rid \in RequestIds
      /\ \A r \in RequestIds : prepared[r] = p => r = requests[p].rid /\ OwnsRequest(p)
  BY OwnedRequest
<1>2. requests \in Seq([rid : RequestIds, life : PreparedLifecycle]) /\ prepared \in [RequestIds -> 0 .. Len(requests)]
  BY DEF ProviderInv, TypeOK
<1>3. /\ prepared' \in [RequestIds -> 0 .. Len(requests)]
      /\ \A r \in RequestIds : prepared'[r] = prepared[r] \/ (prepared'[r] = NoObject /\ prepared[r] = p)
      /\ \A r \in RequestIds : prepared'[r] # p
  <2>1. CASE OwnsRequest(p)
    BY <1>1, <1>2, <2>1 DEF OwnsRequest, NoObject
  <2>2. CASE ~OwnsRequest(p)
    BY <1>1, <1>2, <2>2
  <2> QED
    BY <2>1, <2>2
<1> QED
  BY <1>2, <1>3, SubmitEndsKeeps

\* The deadline, or an answer that cannot be used, forgets the request.
LEMMA SubmitDiscardsKeeps ==
  ASSUME Bounds, ProviderInv, NEW t \in Threads, SubmitDiscards(t)
  PROVE  ProviderInv'
<1>1. /\ TypeOK /\ Asks(t) /\ Returns(t) /\ ServerFault
      /\ UNCHANGED <<preparing, submissions, requests, subs, oldRequests, oldSubs, posted, delivered>>
      /\ prepared' = IF OwnsRequest(call[t].obj) THEN [prepared EXCEPT ![requests[call[t].obj].rid] = NoObject]
                     ELSE prepared
  BY DEF SubmitDiscards, ProviderInv, Asks, At, objects, ages
<1>2. pfaults' \in 0 .. MaxServerFaults
  BY <1>1, FaultTypes
<1> QED
  BY <1>1, <1>2, RequestForgotten

\* The prompt is posted and answered with a job.
LEMMA SubmitPostsKeeps ==
  ASSUME Bounds, ProviderInv, NEW t \in Threads, SubmitPosts(t)
  PROVE  ProviderInv'
<1>1. /\ TypeOK /\ call[t].at = "asking" /\ Len(posted) < MaxObjects /\ posted' = Append(posted, call[t].obj)
      /\ UNCHANGED <<preparing, prepared, submissions, requests, subs, oldRequests, oldSubs, delivered, pfaults>>
      /\ Books(submissions', prepared')
  BY DEF SubmitPosts, ProviderInv, At, dictionaries, objects, ages
<1>2. /\ posted' \in Seq(Nat) /\ Len(posted') <= MaxObjects /\ Len(posted) + 1 \in 0 .. MaxObjects
  <2>1. posted \in Seq(Nat) /\ call[t].obj \in Nat /\ MaxObjects \in Nat
    BY <1>1, CallTypes DEF TypeOK, Bounds
  <2> QED
    BY <1>1, <2>1
<1>3. /\ call' \in [Threads -> [at : Points, obj : Nat, job : 0 .. MaxObjects]]
      /\ call'[t].at = "posted" /\ call'[t].obj = call[t].obj
      /\ \A u \in Threads : u # t => call'[u] = call[u]
  <2> DEFINE c == [call[t] EXCEPT !.at = "posted", !.job = Len(posted) + 1]
  <2>1. c \in [at : Points, obj : Nat, job : 0 .. MaxObjects] /\ c.at = "posted" /\ c.obj = call[t].obj
    BY <1>1, <1>2, CallTypes DEF Points
  <2>2. call' = [call EXCEPT ![t] = c] /\ call \in [Threads -> [at : Points, obj : Nat, job : 0 .. MaxObjects]]
    BY <1>1 DEF SubmitPosts, TypeOK
  <2> HIDE DEF c
  <2> QED
    BY <2>1, <2>2
<1>4. \A u \in Threads : /\ (Asks(u)' <=> Asks(u)) /\ (Uses(u)' <=> Uses(u))
                         /\ call'[u].obj = call[u].obj
                         /\ Uses(u) => call'[u] = call[u]
  BY <1>1, <1>3 DEF Asks, Uses
<1>5. TypeOK'
  BY <1>1, <1>2, <1>3 DEF TypeOK
<1>6. Reservations'
  BY <1>1, <1>3 DEF ProviderInv, Reservations, TypeOK
<1>7. Askers'
  BY <1>1, <1>4 DEF ProviderInv, Askers
<1>8. Users' /\ Delivered'
  BY <1>1, <1>4 DEF ProviderInv, Users, Delivered, DeliveredOnce
<1>9. Asked(prepared)' /\ Used(submissions)'
  BY <1>1, <1>4, SMTT(30) DEF Books, Asked, Used
<1>10. Named(prepared)' /\ Linked(submissions, prepared)' /\ Single(submissions)' /\ Vacant(prepared)'
  BY <1>1 DEF Books, Named, Linked, Single, Vacant
<1>11. Books(submissions, prepared)'
  <2>1. /\ submissions' \in [JobIds -> 0 .. Len(subs')] /\ prepared' \in [RequestIds -> 0 .. Len(requests')]
        /\ Room(preparing', prepared') /\ Space(submissions', requests', prepared')
    BY <1>1 DEF Books
  <2> QED
    BY <1>9, <1>10, <2>1 DEF Books, Room, Space, Reserving, Submitting, LivePrepared, Stored
<1> QED
  BY <1>5, <1>6, <1>7, <1>8, <1>11 DEF ProviderInv

\* The submission is stored, in the place the request held while it was submitted.
LEMMA SubmitStoresKeeps ==
  ASSUME Bounds, ProviderInv, NEW t \in Threads, SubmitStores(t)
  PROVE  ProviderInv'
<1> DEFINE p == call[t].obj
           h == requests[p].rid
           n == Len(subs) + 1
<1>1. /\ TypeOK /\ Books(submissions, prepared) /\ Asks(t) /\ call[t].at = "posted" /\ Returns(t)
      /\ UNCHANGED <<oldRequests, oldSubs, posted, delivered>>
  BY DEF SubmitStores, ProviderInv, Asks, At, ages
<1>2. PICK j \in 1 .. call[t].job :
        /\ ServerFault \/ UNCHANGED pfaults
        /\ IF ~OwnsRequest(p) \/ requests[p].life # "SUBMITTING" THEN UNCHANGED <<dictionaries, objects>>
           ELSE IF submissions[j] # NoObject
           THEN /\ prepared' = [prepared EXCEPT ![h] = NoObject]
                /\ UNCHANGED <<preparing, submissions, objects>>
           ELSE /\ SetRequest(p, "SUBMITTED")
                /\ subs' = Append(subs, [rid |-> h, of |-> p, job |-> j, life |-> "POLLABLE"])
                /\ submissions' = [submissions EXCEPT ![j] = Len(subs) + 1]
                /\ UNCHANGED <<preparing, prepared>>
  BY DEF SubmitStores
<1> HIDE DEF p
<1>3. /\ pfaults' \in 0 .. MaxServerFaults /\ j \in JobIds
  BY <1>1, <1>2, FaultTypes, CallTypes DEF JobIds, Bounds
<1>4. /\ p \in 1 .. Len(requests) /\ p # NoObject /\ requests[p].life = "SUBMITTING" /\ h \in RequestIds
      /\ \A r \in RequestIds : prepared[r] = p => r = h /\ OwnsRequest(p)
  BY <1>1, OwnedRequest DEF p
<1>5. CASE ~OwnsRequest(p)
  <2>1. UNCHANGED <<preparing, submissions, requests, subs, prepared>>
    BY <1>2, <1>5 DEF dictionaries, objects
  <2> QED
    BY <1>1, <1>3, <1>5, <2>1, RequestForgotten DEF p
<1>6. CASE OwnsRequest(p) /\ submissions[j] # NoObject
  <2>1. UNCHANGED <<preparing, submissions, requests, subs>> /\ prepared' = [prepared EXCEPT ![h] = NoObject]
    BY <1>2, <1>4, <1>6 DEF objects
  <2> QED
    BY <1>1, <1>3, <1>6, <2>1, RequestForgotten DEF p
<1>7. CASE OwnsRequest(p) /\ submissions[j] = NoObject
  <2>1. /\ SetRequest(p, "SUBMITTED") /\ submissions' = [submissions EXCEPT ![j] = n]
        /\ subs' = Append(subs, [rid |-> h, of |-> p, job |-> j, life |-> "POLLABLE"])
        /\ UNCHANGED <<preparing, prepared>> /\ prepared[h] = p
    BY <1>2, <1>4, <1>7 DEF OwnsRequest
  <2>2. /\ requests' \in Seq([rid : RequestIds, life : PreparedLifecycle]) /\ Len(requests') = Len(requests)
        /\ requests'[p].life = "SUBMITTED" /\ requests'[p].rid = h
        /\ \A q \in 1 .. Len(requests) : q # p => requests'[q] = requests[q]
    BY <1>1, <1>4, <2>1, SetRequestFacts DEF PreparedLifecycle
  <2>3. /\ subs' \in Seq([rid : RequestIds, of : Nat, job : JobIds, life : SubmissionLifecycle]) /\ Len(subs') = n
        /\ n \in Nat \ {0} /\ subs'[n].rid = h /\ subs'[n].of = p /\ subs'[n].job = j /\ subs'[n].life = "POLLABLE"
        /\ \A s \in 1 .. Len(subs) : subs'[s] = subs[s]
    <3> DEFINE R == [rid : RequestIds, of : Nat, job : JobIds, life : SubmissionLifecycle]
               e == [rid |-> h, of |-> p, job |-> j, life |-> "POLLABLE"]
    <3>1. subs \in Seq(R) /\ e \in R /\ e.rid = h /\ e.of = p /\ e.job = j /\ e.life = "POLLABLE"
      BY <1>1, <1>3, <1>4 DEF TypeOK, SubmissionLifecycle
    <3>2. subs' = Append(subs, e)
      BY <2>1
    <3> HIDE DEF R, e
    <3>3. subs' \in Seq(R) /\ Len(subs') = n /\ n \in Nat \ {0} /\ subs'[n] = e /\ \A s \in 1 .. Len(subs) : subs'[s] = subs[s]
      BY <3>1, <3>2
    <3> QED
      BY <3>1, <3>3 DEF R
  <2>4. /\ call' \in [Threads -> [at : Points, obj : Nat, job : 0 .. MaxObjects]] /\ call'[t].at = "idle"
        /\ \A u \in Threads : u # t => call'[u] = call[u]
    BY <1>1, GoesFacts DEF Points, NoObject
  <2>5. \A u \in Threads : /\ Asks(u)' <=> (Asks(u) /\ u # t)
                           /\ u # t => call'[u] = call[u]
                           /\ (Uses(u)' <=> Uses(u)) /\ (Uses(u) => call'[u] = call[u])
    BY <1>1, <2>4 DEF Asks, Uses
  <2>6. /\ submissions' \in [JobIds -> 0 .. Len(subs')] /\ submissions'[j] = n
        /\ \A i \in JobIds : i # j => submissions'[i] = submissions[i] /\ submissions[i] \in 0 .. Len(subs)
        /\ prepared' \in [RequestIds -> 0 .. Len(requests')]
    BY <1>1, <1>3, <2>1, <2>2, <2>3, SMTT(30) DEF TypeOK
  <2>7. TypeOK'
    <3>1. oldSubs' \subseteq 1 .. Len(subs')
      BY <1>1, <2>3 DEF TypeOK
    <3> QED
      BY <1>1, <1>3, <2>1, <2>2, <2>3, <2>4, <2>6, <3>1 DEF TypeOK
  <2>8. Reservations'
    <3>1. \A q \in RequestIds : preparing[q] # Nobody => preparing[q] \in Threads /\ preparing[q] # t
      BY <1>1 DEF ProviderInv, Reservations, TypeOK
    <3> QED
      BY <2>1, <2>4, <3>1 DEF ProviderInv, Reservations
  <2>9. \A u \in Threads : Asks(u) /\ u # t => call[u].obj \in 1 .. Len(requests) /\ call[u].obj # p
    BY <1>1 DEF ProviderInv, Askers, p
  <2>10. Askers'
    <3>1. ASSUME NEW u \in Threads, Asks(u)'
          PROVE  call'[u].obj \in 1 .. Len(requests') /\ requests'[call'[u].obj].life = "SUBMITTING"
      <4>1. Asks(u) /\ u # t /\ call'[u] = call[u] /\ requests[call[u].obj].life = "SUBMITTING"
        BY <2>5, <3>1 DEF ProviderInv, Askers
      <4> QED
        BY <2>2, <2>9, <4>1
    <3>2. ASSUME NEW u \in Threads, NEW v \in Threads, Asks(u)', Asks(v)', call'[u].obj = call'[v].obj
          PROVE  u = v
      BY <2>5, <3>2 DEF ProviderInv, Askers
    <3> QED
      BY <3>1, <3>2 DEF Askers
  <2>11. Users'
    <3>1. \A u \in Threads : Uses(u)' => call'[u] = call[u] /\ call[u].obj \in 1 .. Len(subs) /\ subs'[call[u].obj] = subs[call[u].obj]
      BY <2>3, <2>5 DEF ProviderInv, Users
    <3> QED
      BY <2>3, <2>5, <3>1, SMTT(30) DEF ProviderInv, Users
  <2>12. Delivered'
    <3>1. Delivered
      BY DEF ProviderInv
    <3>2. ASSUME NEW i \in 1 .. Len(delivered)
          PROVE  /\ delivered[i] \in 1 .. Len(subs') /\ subs'[delivered[i]].life = "RETRIEVING"
                 /\ \A u \in Threads : Uses(u)' => call'[u].obj # delivered[i]
      <4>1. /\ delivered[i] \in 1 .. Len(subs) /\ subs[delivered[i]].life = "RETRIEVING"
            /\ \A u \in Threads : Uses(u) => call[u].obj # delivered[i]
        BY <3>1 DEF Delivered
      <4>2. delivered[i] \in 1 .. Len(subs') /\ subs'[delivered[i]].life = "RETRIEVING"
        BY <2>3, <4>1
      <4>3. \A u \in Threads : Uses(u)' => call'[u].obj # delivered[i]
        BY <2>5, <4>1
      <4> QED
        BY <4>2, <4>3
    <3> QED
      BY <1>1, <3>1, <3>2 DEF Delivered, DeliveredOnce
  <2>13. Named(prepared)' /\ Vacant(prepared)'
    <3>1. Named(prepared) /\ Vacant(prepared) /\ prepared \in [RequestIds -> 0 .. Len(requests)]
      BY <1>1 DEF Books
    <3>2. \A r \in RequestIds : prepared[r] # NoObject => requests'[prepared[r]].rid = requests[prepared[r]].rid
      BY <2>2, <3>1 DEF NoObject
    <3> QED
      BY <2>1, <3>1, <3>2 DEF Named, Vacant
  <2>14. ASSUME NEW i \in JobIds, i # j, submissions[i] # NoObject
         PROVE  /\ subs'[submissions[i]] = subs[submissions[i]]
                /\ subs[submissions[i]].of # p /\ requests'[subs[submissions[i]].of].life = "SUBMITTED"
    <3> DEFINE o == subs[submissions[i]].of
               q == subs[submissions[i]].rid
    <3>1. prepared[q] = o /\ o # NoObject /\ requests[o].life = "SUBMITTED"
      BY <1>1, <2>14 DEF Books, Linked
    <3>2. submissions[i] \in 1 .. Len(subs)
      BY <2>6, <2>14 DEF NoObject
    <3>3. q \in RequestIds
      BY <1>1, <3>2, SubTypes
    <3>4. o \in 1 .. Len(requests) /\ o # p
      <4>1. prepared[q] \in 0 .. Len(requests)
        BY <1>1, <3>3 DEF TypeOK
      <4> QED
        BY <1>4, <3>1, <4>1 DEF NoObject
    <3> QED
      BY <2>2, <2>3, <3>1, <3>2, <3>4
  <2>15. Linked(submissions, prepared)'
    <3>1. ASSUME NEW i \in JobIds, submissions'[i] # NoObject
          PROVE  /\ subs'[submissions'[i]].job = i
                 /\ prepared'[subs'[submissions'[i]].rid] = subs'[submissions'[i]].of
                 /\ subs'[submissions'[i]].of # NoObject /\ requests'[subs'[submissions'[i]].of].life = "SUBMITTED"
      <4>1. CASE i = j
        BY <1>4, <2>1, <2>2, <2>3, <2>6, <4>1
      <4>2. CASE i # j
        BY <1>1, <2>1, <2>6, <2>14, <3>1, <4>2, ZenonT(60) DEF Books, Linked
      <4> QED
        BY <4>1, <4>2
    <3> QED
      BY <3>1 DEF Linked
  <2>16. Single(submissions)'
    <3>1. ASSUME NEW i \in JobIds, NEW k \in JobIds, submissions'[i] # NoObject, submissions'[k] # NoObject,
                 subs'[submissions'[i]].of = subs'[submissions'[k]].of
          PROVE  i = k
      <4>0. \A m \in JobIds : m # j /\ submissions'[m] # NoObject =>
              /\ submissions'[m] = submissions[m] /\ submissions[m] # NoObject
              /\ subs'[submissions'[m]].of = subs[submissions[m]].of /\ subs[submissions[m]].of # p
        BY <2>6, <2>14
      <4>3. subs'[submissions'[j]].of = p
        BY <2>3, <2>6
      <4>4. CASE i = j
        BY <3>1, <4>0, <4>3, <4>4
      <4>1. CASE k = j
        BY <3>1, <4>0, <4>1, <4>3
      <4>2. CASE i # j /\ k # j
        <5>1. Single(submissions)
          BY <1>1 DEF Books
        <5> QED
          BY <3>1, <4>0, <4>2, <5>1 DEF Single
      <4> QED
        BY <4>1, <4>2, <4>4
    <3> QED
      BY <3>1 DEF Single
  <2>17. Used(submissions)'
    <3>1. ASSUME NEW i \in JobIds, submissions'[i] # NoObject, subs'[submissions'[i]].life \in {"POLLING", "RETRIEVING"}
          PROVE  \E u \in Threads : Uses(u)' /\ call'[u].obj = submissions'[i]
      <4>1. i # j
        BY <2>3, <2>6, <3>1
      <4>2. PICK u \in Threads : Uses(u) /\ call[u].obj = submissions[i]
        BY <1>1, <2>6, <2>14, <3>1, <4>1 DEF Books, Used
      <4> QED
        BY <2>5, <2>6, <4>1, <4>2
    <3> QED
      BY <3>1 DEF Used
  <2>18. Asked(prepared)'
    <3>1. ASSUME NEW r \in RequestIds, prepared[r] # NoObject, requests'[prepared[r]].life = "SUBMITTING"
          PROVE  \E u \in Threads : Asks(u)' /\ call'[u].obj = prepared[r]
      <4>1. prepared[r] # p /\ prepared[r] \in 1 .. Len(requests)
        BY <1>1, <2>2, <3>1, SMTT(30) DEF NoObject, TypeOK
      <4>2. PICK u \in Threads : Asks(u) /\ call[u].obj = prepared[r]
        BY <1>1, <2>2, <3>1, <4>1 DEF Books, Asked
      <4>3. u # t
        BY <4>1, <4>2 DEF p
      <4> QED
        BY <2>5, <4>2, <4>3
    <3> QED
      BY <2>1, <3>1 DEF Asked
  <2>19. Space(submissions', requests', prepared)
    <3>1. Stored(submissions') = Stored(submissions) \cup {j} /\ j \notin Stored(submissions)
      BY <1>3, <1>7, <2>3, <2>6 DEF Stored, NoObject
    <3>2. Submitting(requests', prepared) = Submitting(requests, prepared) \ {h} /\ h \in Submitting(requests, prepared)
      <4>1. ASSUME NEW r \in RequestIds
            PROVE  (prepared[r] # NoObject /\ requests'[prepared[r]].life = "SUBMITTING")
                     <=> (r # h /\ prepared[r] # NoObject /\ requests[prepared[r]].life = "SUBMITTING")
        <5>1. CASE r = h
          BY <2>1, <2>2, <5>1
        <5>2. CASE r # h
          <6>1. prepared[r] # p /\ prepared[r] \in 0 .. Len(requests)
            BY <1>1, <1>4, <5>2 DEF TypeOK
          <6> QED
            BY <2>2, <5>2, <6>1 DEF NoObject
        <5> QED
          BY <5>1, <5>2
      <4> QED
        BY <1>4, <2>1, <4>1 DEF Submitting, LivePrepared
    <3>3. Cardinality(Stored(submissions')) = Cardinality(Stored(submissions)) + 1
      BY <3>1, SetTypes, FS_AddElement
    <3>4. Cardinality(Submitting(requests', prepared)) = Cardinality(Submitting(requests, prepared)) - 1
      <4>1. IsFiniteSet(Submitting(requests, prepared))
        BY SetTypes
      <4> QED
        BY <3>2, <4>1, FS_RemoveElement
    <3>5. Cardinality(Stored(submissions)) \in Nat /\ Cardinality(Submitting(requests, prepared)) \in Nat
      BY SetTypes
    <3>6. Space(submissions, requests, prepared)
      BY <1>1 DEF Books
    <3> QED
      BY <3>3, <3>4, <3>5, <3>6 DEF Space, Bounds
  <2>20. Books(submissions, prepared)'
    <3>1. Room(preparing', prepared') /\ Space(submissions', requests', prepared')
      BY <1>1, <2>1, <2>19 DEF Books
    <3> QED
      BY <2>6, <2>13, <2>15, <2>16, <2>17, <2>18, <3>1
      DEF Books, Room, Space, Reserving, Submitting, LivePrepared, Stored
  <2> QED
    BY <2>7, <2>8, <2>10, <2>11, <2>12, <2>20 DEF ProviderInv
<1> QED
  BY <1>5, <1>6, <1>7

-----------------------------------------------------------------------------
(* poll and retrieve *)

LEMMA SetSubFacts ==
  ASSUME TypeOK, NEW s \in 1 .. Len(subs), NEW life \in SubmissionLifecycle, SetSub(s, life)
  PROVE  /\ subs' \in Seq([rid : RequestIds, of : Nat, job : JobIds, life : SubmissionLifecycle])
         /\ Len(subs') = Len(subs) /\ subs'[s].life = life
         /\ subs'[s].rid = subs[s].rid /\ subs'[s].of = subs[s].of /\ subs'[s].job = subs[s].job
         /\ \A q \in 1 .. Len(subs) : q # s => subs'[q] = subs[q]
<1> DEFINE R == [rid : RequestIds, of : Nat, job : JobIds, life : SubmissionLifecycle]
           e == [subs[s] EXCEPT !.life = life]
<1>1. /\ subs \in Seq(R) /\ e \in R /\ e.life = life
      /\ e.rid = subs[s].rid /\ e.of = subs[s].of /\ e.job = subs[s].job
  BY SubTypes DEF TypeOK
<1>2. subs' = [subs EXCEPT ![s] = e]
  BY DEF SetSub
<1> HIDE DEF R, e
<1>3. subs' \in Seq(R) /\ Len(subs') = Len(subs) /\ subs'[s] = e
      /\ \A q \in 1 .. Len(subs) : q # s => subs'[q] = subs[q]
  BY <1>1, <1>2
<1> QED
  BY <1>1, <1>3 DEF R

\* What the lifecycle of one submission says nothing about.
LEMMA LifeOfSub ==
  ASSUME TypeOK, Books(submissions', prepared'), UNCHANGED <<preparing, requests>>, Len(subs') = Len(subs),
         \A q \in 1 .. Len(subs) : subs'[q].rid = subs[q].rid /\ subs'[q].of = subs[q].of /\ subs'[q].job = subs[q].job,
         Asked(prepared)', Used(submissions)'
  PROVE  Books(submissions, prepared)'
<1>1. /\ submissions' \in [JobIds -> 0 .. Len(subs)] /\ prepared' \in [RequestIds -> 0 .. Len(requests)]
      /\ Room(preparing', prepared') /\ Space(submissions', requests', prepared')
      /\ Named(prepared') /\ Vacant(prepared') /\ Linked(submissions', prepared') /\ Single(submissions')
  BY DEF Books
<1>2. \A j \in JobIds : submissions'[j] # NoObject =>
        /\ subs'[submissions'[j]].rid = subs[submissions'[j]].rid /\ subs'[submissions'[j]].of = subs[submissions'[j]].of
        /\ subs'[submissions'[j]].job = subs[submissions'[j]].job
  BY <1>1 DEF NoObject
<1>3. Named(prepared)' /\ Vacant(prepared)'
  BY <1>1 DEF Named, Vacant
<1>4. Linked(submissions, prepared)'
  BY <1>1, <1>2 DEF Linked
<1>5. Single(submissions)'
  BY <1>1, <1>2 DEF Single
<1> QED
  BY <1>1, <1>3, <1>4, <1>5 DEF Books, Room, Space, Reserving, Submitting, LivePrepared, Stored

\* A call takes an owned submission that nobody works on, and marks it.
LEMMA UseStarts ==
  ASSUME Bounds, ProviderInv, NEW t \in Threads, call[t].at = "idle", NEW s \in 1 .. Len(subs),
         Books(submissions', prepared'),
         NEW point, <<point, subs'[s].life>> \in {<<"polling", "POLLING">>, <<"fetching", "RETRIEVING">>},
         subs[s].life \notin {"POLLING", "RETRIEVING"}, SetSub(s, subs'[s].life), Goes(t, point, s),
         UNCHANGED <<preparing, requests, oldRequests, oldSubs, posted, delivered, pfaults>>
  PROVE  ProviderInv'
<1>1. TypeOK /\ point \in {"polling", "fetching"} /\ point \in Points
      /\ subs'[s].life = (IF point = "polling" THEN "POLLING" ELSE "RETRIEVING") /\ subs'[s].life \in SubmissionLifecycle
      /\ s \in Nat
  BY SubTypes DEF ProviderInv, Points, SubmissionLifecycle
<1>2. /\ call' \in [Threads -> [at : Points, obj : Nat, job : 0 .. MaxObjects]] /\ call'[t].at = point
      /\ call'[t].obj = s /\ \A u \in Threads : u # t => call'[u] = call[u]
  BY <1>1, GoesFacts
<1>3. /\ subs' \in Seq([rid : RequestIds, of : Nat, job : JobIds, life : SubmissionLifecycle])
      /\ Len(subs') = Len(subs)
      /\ subs'[s].rid = subs[s].rid /\ subs'[s].of = subs[s].of /\ subs'[s].job = subs[s].job
      /\ \A q \in 1 .. Len(subs) : q # s => subs'[q] = subs[q]
  BY <1>1, SetSubFacts
<1>4. ~Asks(t) /\ ~Uses(t) /\ Uses(t)'
  BY <1>1, <1>2 DEF Asks, Uses
<1>5. \A u \in Threads : /\ (Asks(u)' <=> Asks(u)) /\ (Asks(u) => call'[u] = call[u])
                         /\ Uses(u) => Uses(u)' /\ call'[u] = call[u] /\ u # t
                         /\ Uses(u)' /\ u # t => Uses(u)
  BY <1>1, <1>2, <1>4 DEF Asks, Uses
<1>6. TypeOK'
  BY <1>1, <1>2, <1>3 DEF TypeOK, Books
<1>7. Reservations'
  <2>1. \A q \in RequestIds : preparing[q] # Nobody => preparing[q] \in Threads /\ preparing[q] # t
    BY <1>1 DEF ProviderInv, Reservations, TypeOK
  <2> QED
    BY <1>2, <2>1 DEF ProviderInv, Reservations
<1>8. Askers'
  <2>1. Askers
    BY DEF ProviderInv
  <2> QED
    BY <1>5, <2>1 DEF Askers
<1>9. \A u \in Threads : Uses(u) => /\ call[u].obj \in 1 .. Len(subs) /\ call[u].obj # s
                                    /\ subs'[call[u].obj] = subs[call[u].obj]
  <2>1. \A u \in Threads : Uses(u) => call[u].obj \in 1 .. Len(subs) /\ subs[call[u].obj].life \in {"POLLING", "RETRIEVING"}
    BY DEF ProviderInv, Users
  <2> QED
    BY <1>3, <2>1
<1>10. Users'
  <2>1. ASSUME NEW u \in Threads, Uses(u)'
        PROVE  /\ call'[u].obj \in 1 .. Len(subs')
               /\ subs'[call'[u].obj].life = IF call'[u].at = "polling" THEN "POLLING" ELSE "RETRIEVING"
    <3>1. CASE u = t
      BY <1>1, <1>2, <1>3, <3>1
    <3>2. CASE u # t
      <4>1. Uses(u) /\ call'[u] = call[u]
        BY <1>5, <2>1, <3>2
      <4> QED
        BY <1>3, <1>9, <4>1 DEF ProviderInv, Users
    <3> QED
      BY <3>1, <3>2
  <2>2. ASSUME NEW u \in Threads, NEW v \in Threads, Uses(u)', Uses(v)', call'[u].obj = call'[v].obj
        PROVE  u = v
    <3>1. CASE u = t \/ v = t
      BY <1>2, <1>5, <1>9, <2>2, <3>1
    <3>2. CASE u # t /\ v # t
      BY <1>5, <2>2, <3>2 DEF ProviderInv, Users
    <3> QED
      BY <3>1, <3>2
  <2> QED
    BY <2>1, <2>2 DEF Users
<1>11. Delivered'
  <2>1. Delivered
    BY DEF ProviderInv
  <2>2. ASSUME NEW i \in 1 .. Len(delivered)
        PROVE  /\ delivered[i] \in 1 .. Len(subs') /\ subs'[delivered[i]].life = "RETRIEVING"
               /\ \A u \in Threads : Uses(u)' => call'[u].obj # delivered[i]
    <3>1. /\ delivered[i] \in 1 .. Len(subs) /\ subs[delivered[i]].life = "RETRIEVING" /\ delivered[i] # s
          /\ \A u \in Threads : Uses(u) => call[u].obj # delivered[i]
      BY <2>1 DEF Delivered
    <3>2. \A u \in Threads : Uses(u)' => call'[u].obj # delivered[i]
      BY <1>2, <1>5, <3>1
    <3> QED
      BY <1>3, <3>1, <3>2
  <2> QED
    BY <2>1, <2>2 DEF Delivered, DeliveredOnce
<1>12. Asked(prepared)'
  BY <1>5 DEF Books, Asked
<1>13. Used(submissions)'
  <2>1. ASSUME NEW j \in JobIds, submissions'[j] # NoObject, subs'[submissions'[j]].life \in {"POLLING", "RETRIEVING"}
        PROVE  \E u \in Threads : Uses(u)' /\ call'[u].obj = submissions'[j]
    <3>1. CASE submissions'[j] = s
      BY <1>2, <1>4, <3>1
    <3>2. CASE submissions'[j] # s
      <4>1. submissions'[j] \in 1 .. Len(subs)
        BY <2>1 DEF Books, NoObject
      <4>2. subs[submissions'[j]].life \in {"POLLING", "RETRIEVING"}
        BY <1>3, <2>1, <3>2, <4>1
      <4>3. PICK u \in Threads : Uses(u) /\ call[u].obj = submissions'[j]
        BY <2>1, <4>2 DEF Books, Used
      <4> QED
        BY <1>5, <4>3
    <3> QED
      BY <3>1, <3>2
  <2> QED
    BY <2>1 DEF Used
<1>14. Books(submissions, prepared)'
  <2>1. \A q \in 1 .. Len(subs) : subs'[q].rid = subs[q].rid /\ subs'[q].of = subs[q].of /\ subs'[q].job = subs[q].job
    BY <1>3
  <2> QED
    BY <1>1, <1>3, <1>12, <1>13, <2>1, LifeOfSub
<1> QED
  BY <1>6, <1>7, <1>8, <1>10, <1>11, <1>14 DEF ProviderInv

LEMMA PollStartsKeeps ==
  ASSUME Bounds, ProviderInv, NEW t \in Threads, NEW s \in 1 .. Len(subs), PollStarts(t, s)
  PROVE  ProviderInv'
<1>1. TypeOK /\ Books(submissions', prepared') /\ call[t].at = "idle"
      /\ UNCHANGED <<preparing, requests, oldRequests, oldSubs, posted, delivered, pfaults>>
  BY PurgedBooks DEF ProviderInv, PollStarts, Purges, At, ages, world
<1>2. CASE UNCHANGED <<subs, call>>
  BY <1>1, <1>2, ForgetKeeps
<1>3. CASE subs[s].life = "POLLABLE" /\ SetSub(s, "POLLING") /\ Goes(t, "polling", s)
  <2>1. subs'[s].life = "POLLING"
    BY <1>1, <1>3, SetSubFacts DEF SubmissionLifecycle
  <2> QED
    BY <1>1, <1>3, <2>1, UseStarts
<1> QED
  BY <1>2, <1>3 DEF PollStarts

LEMMA RetrieveStartsKeeps ==
  ASSUME Bounds, ProviderInv, NEW t \in Threads, NEW s \in 1 .. Len(subs), RetrieveStarts(t, s)
  PROVE  ProviderInv'
<1>1. TypeOK /\ Books(submissions', prepared') /\ call[t].at = "idle"
      /\ UNCHANGED <<preparing, requests, oldRequests, oldSubs, posted, delivered, pfaults>>
  BY PurgedBooks DEF ProviderInv, RetrieveStarts, Purges, At, ages, world
<1>2. CASE UNCHANGED <<subs, call>>
  BY <1>1, <1>2, ForgetKeeps
<1>3. CASE subs[s].life = "SUCCEEDED" /\ SetSub(s, "RETRIEVING") /\ Goes(t, "fetching", s)
  <2>1. subs'[s].life = "RETRIEVING"
    BY <1>1, <1>3, SetSubFacts DEF SubmissionLifecycle
  <2> QED
    BY <1>1, <1>3, <2>1, UseStarts
<1> QED
  BY <1>2, <1>3 DEF RetrieveStarts

\* A call leaves the submission it worked on: given back, forgotten, or handed out.
LEMMA UseEnds ==
  ASSUME Bounds, ProviderInv, NEW t \in Threads, Uses(t), Returns(t), NEW s, s = call[t].obj,
         Books(submissions', prepared'), UNCHANGED <<preparing, requests, oldRequests, oldSubs, posted>>,
         pfaults' \in 0 .. MaxServerFaults,
         subs' \in Seq([rid : RequestIds, of : Nat, job : JobIds, life : SubmissionLifecycle]),
         Len(subs') = Len(subs), subs'[s].rid = subs[s].rid, subs'[s].of = subs[s].of, subs'[s].job = subs[s].job,
         \A q \in 1 .. Len(subs) : q # s => subs'[q] = subs[q],
         (\A j \in JobIds : submissions'[j] # s) \/ subs'[s].life \notin {"POLLING", "RETRIEVING"},
         UNCHANGED delivered \/ (delivered' = Append(delivered, s) /\ subs'[s].life = "RETRIEVING")
  PROVE  ProviderInv'
<1>1. TypeOK /\ s \in 1 .. Len(subs) /\ Users /\ Delivered
  BY DEF ProviderInv, Users
<1>2. /\ call' \in [Threads -> [at : Points, obj : Nat, job : 0 .. MaxObjects]] /\ call'[t].at = "idle"
      /\ \A u \in Threads : u # t => call'[u] = call[u]
  BY <1>1, GoesFacts DEF Points, NoObject
<1>3. \A u \in Threads : /\ (Asks(u)' <=> Asks(u)) /\ (Asks(u) => call'[u] = call[u])
                         /\ Uses(u)' <=> (Uses(u) /\ u # t)
                         /\ u # t => call'[u] = call[u]
  BY <1>2 DEF Asks, Uses
<1>4. \A u \in Threads : Uses(u) /\ u # t =>
        call[u].obj \in 1 .. Len(subs) /\ call[u].obj # s /\ subs'[call[u].obj] = subs[call[u].obj]
  BY <1>1 DEF Users
<1>5. /\ delivered \in Seq(Nat) /\ delivered' \in Seq(Nat)
      /\ \A i \in 1 .. Len(delivered') :
           \/ i \in 1 .. Len(delivered) /\ delivered'[i] = delivered[i]
           \/ i = Len(delivered) + 1 /\ delivered'[i] = s /\ subs'[s].life = "RETRIEVING"
      /\ \A i \in 1 .. Len(delivered) : delivered'[i] = delivered[i]
  <2>1. delivered \in Seq(Nat) /\ s \in Nat
    BY <1>1 DEF TypeOK
  <2>2. CASE UNCHANGED delivered
    BY <2>1, <2>2
  <2>3. CASE delivered' = Append(delivered, s) /\ subs'[s].life = "RETRIEVING"
    BY <2>1, <2>3
  <2> QED
    BY <2>2, <2>3
<1>6. TypeOK'
  BY <1>1, <1>2, <1>5 DEF TypeOK, Books
<1>7. Reservations'
  <2>1. \A q \in RequestIds : preparing[q] # Nobody => preparing[q] \in Threads /\ preparing[q] # t
    BY <1>1 DEF ProviderInv, Reservations, TypeOK, Uses
  <2> QED
    BY <1>2, <2>1, ZenonT(40) DEF ProviderInv, Reservations
<1>8. Askers'
  <2>1. Askers
    BY DEF ProviderInv
  <2> QED
    BY <1>3, <2>1 DEF Askers
<1>9. Users'
  <2>1. ASSUME NEW u \in Threads, Uses(u)'
        PROVE  /\ call'[u].obj \in 1 .. Len(subs')
               /\ subs'[call'[u].obj].life = IF call'[u].at = "polling" THEN "POLLING" ELSE "RETRIEVING"
    <3>1. Uses(u) /\ u # t /\ call'[u] = call[u]
      BY <1>3, <2>1
    <3> QED
      BY <1>1, <1>4, <3>1 DEF Users
  <2>2. ASSUME NEW u \in Threads, NEW v \in Threads, Uses(u)', Uses(v)', call'[u].obj = call'[v].obj
        PROVE  u = v
    BY <1>1, <1>3, <2>2 DEF Users
  <2> QED
    BY <2>1, <2>2 DEF Users
<1>10. Delivered'
  <2>1. \A i \in 1 .. Len(delivered) : delivered[i] \in 1 .. Len(subs) /\ delivered[i] # s /\ subs[delivered[i]].life = "RETRIEVING"
                                       /\ \A u \in Threads : Uses(u) => call[u].obj # delivered[i]
    BY <1>1 DEF Delivered
  <2>2. ASSUME NEW i \in 1 .. Len(delivered')
        PROVE  /\ delivered'[i] \in 1 .. Len(subs') /\ subs'[delivered'[i]].life = "RETRIEVING"
               /\ \A u \in Threads : Uses(u)' => call'[u].obj # delivered'[i]
    <3>1. CASE i \in 1 .. Len(delivered) /\ delivered'[i] = delivered[i]
      <4>1. delivered'[i] \in 1 .. Len(subs') /\ subs'[delivered'[i]].life = "RETRIEVING"
        BY <2>1, <3>1, SMTT(30)
      <4>2. \A u \in Threads : Uses(u)' => call'[u].obj # delivered'[i]
        BY <1>3, <2>1, <3>1
      <4> QED
        BY <4>1, <4>2
    <3>2. CASE delivered'[i] = s /\ subs'[s].life = "RETRIEVING"
      BY <1>1, <1>3, <1>4, <3>2
    <3> QED
      BY <1>5, <3>1, <3>2
  <2>3. DeliveredOnce'
    <3>1. ASSUME NEW i \in 1 .. Len(delivered'), NEW k \in 1 .. Len(delivered'), delivered'[i] = delivered'[k]
          PROVE  i = k
      <4>1. CASE i \in 1 .. Len(delivered) /\ k \in 1 .. Len(delivered)
        <5>1. delivered'[i] = delivered[i] /\ delivered'[k] = delivered[k]
          BY <1>5, <4>1
        <5> QED
          BY <1>1, <3>1, <4>1, <5>1, ZenonT(60) DEF Delivered, DeliveredOnce
      <4>2. CASE i = Len(delivered) + 1 /\ k \in 1 .. Len(delivered)
        BY <1>5, <2>1, <3>1, <4>2
      <4>3. CASE k = Len(delivered) + 1 /\ i \in 1 .. Len(delivered)
        BY <1>5, <2>1, <3>1, <4>3
      <4>4. CASE i = Len(delivered) + 1 /\ k = Len(delivered) + 1
        BY <4>4
      <4> QED
        BY <1>5, <4>1, <4>2, <4>3, <4>4
    <3> QED
      BY <3>1 DEF DeliveredOnce
  <2> QED
    BY <2>2, <2>3 DEF Delivered
<1>11. Asked(prepared)'
  BY <1>3 DEF Books, Asked
<1>12. Used(submissions)'
  <2>1. ASSUME NEW j \in JobIds, submissions'[j] # NoObject, subs'[submissions'[j]].life \in {"POLLING", "RETRIEVING"}
        PROVE  \E u \in Threads : Uses(u)' /\ call'[u].obj = submissions'[j]
    <3>1. submissions'[j] # s /\ submissions'[j] \in 1 .. Len(subs)
      BY <2>1, SMTT(30) DEF Books, NoObject
    <3>2. subs[submissions'[j]].life \in {"POLLING", "RETRIEVING"}
      BY <2>1, <3>1
    <3>3. PICK u \in Threads : Uses(u) /\ call[u].obj = submissions'[j]
      BY <2>1, <3>2 DEF Books, Used
    <3>4. u # t
      BY <3>1, <3>3
    <3> QED
      BY <1>3, <3>3, <3>4
  <2> QED
    BY <2>1 DEF Used
<1>13. Books(submissions, prepared)'
  <2>1. \A q \in 1 .. Len(subs) : subs'[q].rid = subs[q].rid /\ subs'[q].of = subs[q].of /\ subs'[q].job = subs[q].job
    OBVIOUS
  <2> QED
    BY <1>1, <1>11, <1>12, <2>1, LifeOfSub
<1> QED
  BY <1>6, <1>7, <1>8, <1>9, <1>10, <1>13 DEF ProviderInv

\* A submission that its job does not show is nowhere in the dictionary.
LEMMA NotOwned ==
  ASSUME ProviderInv, NEW s \in 1 .. Len(subs), ~OwnsSub(s)
  PROVE  \A j \in JobIds : submissions[j] # s
BY DEF ProviderInv, Books, Linked, OwnsSub, NoObject

LEMMA PollEndsKeeps ==
  ASSUME Bounds, ProviderInv, NEW t \in Threads, NEW life \in SubmissionLifecycle \ {"POLLING", "RETRIEVING"},
         PollEnds(t, life) \/ (RetrieveLosesAnswer(t) /\ life = "SUCCEEDED"), ServerFault \/ UNCHANGED pfaults
  PROVE  ProviderInv'
<1> DEFINE s == call[t].obj
<1>1. /\ TypeOK /\ Uses(t) /\ Returns(t)
      /\ UNCHANGED <<preparing, prepared, submissions, requests, oldRequests, oldSubs, posted, delivered>>
      /\ Books(submissions', prepared') /\ s \in 1 .. Len(subs)
      /\ (OwnsSub(s) /\ SetSub(s, life)) \/ (~OwnsSub(s) /\ UNCHANGED subs)
  <2>1. Uses(t) /\ subs[s].life = IF call[t].at = "polling" THEN "POLLING" ELSE "RETRIEVING"
    BY DEF PollEnds, RetrieveLosesAnswer, Uses, At, ProviderInv, Users
  <2> QED
    BY <2>1 DEF PollEnds, RetrieveLosesAnswer, ProviderInv, At, dictionaries, ages, Users
<1>2. pfaults' \in 0 .. MaxServerFaults
  BY <1>1, FaultTypes
<1>3. CASE OwnsSub(s) /\ SetSub(s, life)
  <2>1. /\ subs' \in Seq([rid : RequestIds, of : Nat, job : JobIds, life : SubmissionLifecycle])
        /\ Len(subs') = Len(subs) /\ subs'[s].life = life
        /\ subs'[s].rid = subs[s].rid /\ subs'[s].of = subs[s].of /\ subs'[s].job = subs[s].job
        /\ \A q \in 1 .. Len(subs) : q # s => subs'[q] = subs[q]
    BY <1>1, <1>3, SetSubFacts
  <2> QED
    BY <1>1, <1>2, <2>1, UseEnds
<1>4. CASE ~OwnsSub(s) /\ UNCHANGED subs
  <2>1. (\A j \in JobIds : submissions'[j] # s) /\ subs \in Seq([rid : RequestIds, of : Nat, job : JobIds, life : SubmissionLifecycle])
    BY <1>1, <1>4, NotOwned DEF TypeOK
  <2> QED
    BY <1>1, <1>2, <1>4, <2>1, UseEnds
<1> QED
  BY <1>1, <1>3, <1>4

\* After _finish_submission the submission is in no dictionary.
LEMMA FinishesFacts ==
  ASSUME Bounds, ProviderInv, NEW s \in 1 .. Len(subs), Finishes(s)
  PROVE  Books(submissions', prepared') /\ \A j \in JobIds : submissions'[j] # s
<1>1. Books(submissions', prepared')
  BY FinishedBooks DEF ProviderInv, Finishes
<1>2. CASE OwnsSub(s)
  <2>1. /\ submissions' = [submissions EXCEPT ![subs[s].job] = NoObject] /\ s # NoObject
        /\ submissions \in [JobIds -> 0 .. Len(subs)] /\ subs[s].job \in JobIds
    BY <1>2, SubTypes DEF Finishes, WithoutSub, OwnsSub, NoObject, ProviderInv, TypeOK
  <2>2. \A j \in JobIds : submissions[j] = s => j = subs[s].job
    BY <2>1 DEF ProviderInv, Books, Linked
  <2> QED
    BY <1>1, <2>1, <2>2
<1>3. CASE ~OwnsSub(s)
  <2>1. submissions' = submissions
    BY <1>3 DEF Finishes, WithoutSub, OwnsSub
  <2> QED
    BY <1>1, <1>3, <2>1, NotOwned
<1> QED
  BY <1>2, <1>3

LEMMA RetrieveGivesUpKeeps ==
  ASSUME Bounds, ProviderInv, NEW t \in Threads, RetrieveGivesUp(t)
  PROVE  ProviderInv'
<1>1. /\ TypeOK /\ Uses(t) /\ Returns(t) /\ Finishes(call[t].obj) /\ (ServerFault \/ UNCHANGED pfaults)
      /\ UNCHANGED <<preparing, requests, subs, oldRequests, oldSubs, posted, delivered>>
  BY DEF RetrieveGivesUp, ProviderInv, Uses, At, objects, ages
<1>2. call[t].obj \in 1 .. Len(subs) /\ pfaults' \in 0 .. MaxServerFaults
      /\ subs \in Seq([rid : RequestIds, of : Nat, job : JobIds, life : SubmissionLifecycle])
  BY <1>1, FaultTypes DEF ProviderInv, Users, TypeOK
<1> QED
  BY <1>1, <1>2, FinishesFacts, UseEnds

\* The request of an owned submission is owned, so that without one it is not owned.
LEMMA Orphan ==
  ASSUME ProviderInv, NEW s \in 1 .. Len(subs), prepared[subs[s].rid] = NoObject
  PROVE  \A j \in JobIds : submissions[j] # s
BY DEF ProviderInv, Books, Linked, NoObject

LEMMA RetrieveRecordsKeeps ==
  ASSUME Bounds, ProviderInv, NEW t \in Threads, RetrieveRecords(t)
  PROVE  ProviderInv'
<1> DEFINE s == call[t].obj
<1>1. /\ TypeOK /\ Uses(t) /\ Returns(t) /\ call[t].at = "recording"
      /\ UNCHANGED <<preparing, requests, subs, oldRequests, oldSubs, posted, pfaults>>
      /\ \/ prepared[subs[s].rid] = NoObject /\ UNCHANGED <<prepared, submissions, delivered>>
         \/ Finishes(s) /\ delivered' = Append(delivered, s)
  BY DEF RetrieveRecords, ProviderInv, Uses, At, objects, ages
<1>2. /\ s \in 1 .. Len(subs) /\ subs[s].life = "RETRIEVING" /\ pfaults' \in 0 .. MaxServerFaults
      /\ subs \in Seq([rid : RequestIds, of : Nat, job : JobIds, life : SubmissionLifecycle])
  BY <1>1 DEF ProviderInv, Users, TypeOK
<1>3. CASE prepared[subs[s].rid] = NoObject /\ UNCHANGED <<prepared, submissions, delivered>>
  <2>1. Books(submissions', prepared') /\ \A j \in JobIds : submissions'[j] # s
    BY <1>2, <1>3, Orphan DEF ProviderInv
  <2> QED
    BY <1>1, <1>2, <1>3, <2>1, UseEnds
<1>4. CASE Finishes(s) /\ delivered' = Append(delivered, s)
  BY <1>1, <1>2, <1>4, FinishesFacts, UseEnds
<1> QED
  BY <1>1, <1>3, <1>4

LEMMA RetrieveChecksKeeps ==
  ASSUME Bounds, ProviderInv, NEW t \in Threads, RetrieveChecks(t)
  PROVE  ProviderInv'
<1> DEFINE s == call[t].obj
<1>1. /\ TypeOK /\ Uses(t) /\ call[t].at = "fetching" /\ Books(submissions', prepared')
      /\ UNCHANGED <<preparing, prepared, submissions, requests, subs, oldRequests, oldSubs, posted, delivered, pfaults>>
  BY DEF RetrieveChecks, ProviderInv, Uses, At, dictionaries, objects, ages, world
<1>2. /\ s \in 1 .. Len(subs) /\ subs[s].life = "RETRIEVING" /\ pfaults' \in 0 .. MaxServerFaults /\ s \in Nat
      /\ subs \in Seq([rid : RequestIds, of : Nat, job : JobIds, life : SubmissionLifecycle])
  BY <1>1 DEF ProviderInv, Users, TypeOK
<1>3. CASE prepared[subs[s].rid] = NoObject /\ Returns(t)
  <2>1. \A j \in JobIds : submissions'[j] # s
    BY <1>1, <1>2, <1>3, Orphan
  <2> QED
    BY <1>1, <1>2, <1>3, <2>1, UseEnds
<1>4. CASE Goes(t, "recording", s)
  <2>1. /\ call' \in [Threads -> [at : Points, obj : Nat, job : 0 .. MaxObjects]] /\ call'[t].at = "recording"
        /\ call'[t].obj = s /\ \A u \in Threads : u # t => call'[u] = call[u]
    BY <1>1, <1>2, <1>4, GoesFacts DEF Points
  <2>2. \A u \in Threads : /\ (Asks(u)' <=> Asks(u)) /\ (Uses(u)' <=> Uses(u)) /\ call'[u].obj = call[u].obj
                           /\ (call'[u].at = "polling") <=> (call[u].at = "polling")
    BY <1>1, <2>1 DEF Asks, Uses
  <2>3. TypeOK'
    BY <1>1, <2>1 DEF TypeOK
  <2>4. Reservations'
    BY <1>1, <2>1 DEF ProviderInv, Reservations, TypeOK
  <2>5. Askers'
    BY <1>1, <2>2 DEF ProviderInv, Askers
  <2>6. Users'
    BY <1>1, <2>2 DEF ProviderInv, Users
  <2>7. Delivered'
    BY <1>1, <2>2 DEF ProviderInv, Delivered, DeliveredOnce
  <2>8. Asked(prepared)' /\ Used(submissions)'
    BY <1>1, <2>2 DEF Books, Asked, Used
  <2>9. Books(submissions, prepared)'
    BY <1>1, <2>8, LifeOfSub
  <2> QED
    BY <2>3, <2>4, <2>5, <2>6, <2>7, <2>9 DEF ProviderInv
<1> QED
  BY <1>2, <1>3, <1>4 DEF RetrieveChecks

-----------------------------------------------------------------------------
(* Theorems *)

\* A client that has just been made.
LEMMA InitInv == ASSUME Bounds PROVE Init => ProviderInv
<1> SUFFICES ASSUME Init PROVE ProviderInv
  OBVIOUS
<1>1. /\ requests = <<>> /\ subs = <<>> /\ posted = <<>> /\ delivered = <<>> /\ oldRequests = {} /\ oldSubs = {}
      /\ \A t \in Threads : call[t].at = "idle"
      /\ \A r \in RequestIds : preparing[r] = Nobody /\ prepared[r] = NoObject
      /\ \A j \in JobIds : submissions[j] = NoObject
  BY DEF Init, Idle
<1>2. TypeOK
  <2>1. /\ <<>> \in Seq([rid : RequestIds, life : PreparedLifecycle]) /\ <<>> \in Seq(Nat)
        /\ <<>> \in Seq([rid : RequestIds, of : Nat, job : JobIds, life : SubmissionLifecycle])
        /\ Len(<<>>) = 0
    OBVIOUS
  <2>2. Idle \in [at : Points, obj : Nat, job : 0 .. MaxObjects] /\ NoObject \in 0 .. 0
    BY DEF Idle, Points, NoObject, Bounds
  <2>3. call \in [Threads -> [at : Points, obj : Nat, job : 0 .. MaxObjects]]
    BY <2>2 DEF Init
  <2>4. /\ preparing \in [RequestIds -> Threads \cup {Nobody}] /\ prepared \in [RequestIds -> 0 .. 0]
        /\ submissions \in [JobIds -> 0 .. 0]
    BY <2>2 DEF Init
  <2> QED
    BY <1>1, <2>1, <2>3, <2>4 DEF TypeOK, Init, Bounds
<1>3. Reserving(preparing) = {} /\ LivePrepared(prepared) = {} /\ Stored(submissions) = {} /\ Submitting(requests, prepared) = {}
  BY <1>1 DEF Reserving, LivePrepared, Stored, Submitting
<1>4. Room(preparing, prepared) /\ Space(submissions, requests, prepared)
  BY <1>3, FS_EmptySet DEF Room, Space, Bounds
<1>5. Named(prepared) /\ Linked(submissions, prepared) /\ Single(submissions) /\ Asked(prepared) /\ Used(submissions) /\ Vacant(prepared)
  BY <1>1 DEF Named, Linked, Single, Asked, Used, Vacant
<1>6. Reservations /\ Askers /\ Users /\ Delivered
  BY <1>1 DEF Reservations, Askers, Users, Delivered, DeliveredOnce, Asks, Uses
<1> QED
  BY <1>2, <1>4, <1>5, <1>6 DEF ProviderInv, Books, TypeOK

LEMMA StepInv == ASSUME Bounds PROVE ProviderInv /\ [Next]_providerVars => ProviderInv'
<1> SUFFICES ASSUME ProviderInv, [Next]_providerVars PROVE ProviderInv'
  OBVIOUS
<1>1. CASE UNCHANGED providerVars
  <2>1. /\ Books(submissions', prepared')
        /\ UNCHANGED <<requests, subs, preparing, call, oldRequests, oldSubs, posted, delivered, pfaults>>
    BY <1>1 DEF ProviderInv, providerVars, dictionaries, objects, ages, world
  <2> QED
    BY <2>1, ForgetKeeps
<1>2. ASSUME NEW t \in Threads, Create(t) PROVE ProviderInv'
  BY <1>2, CreateReservesKeeps, CreateStoresKeeps, CreateFailsKeeps DEF Create
<1>3. ASSUME NEW t \in Threads, Submit(t) PROVE ProviderInv'
  BY <1>3, SubmitStartsKeeps, SubmitPostsKeeps, SubmitStoresKeeps, SubmitRollsBackKeeps, SubmitDiscardsKeeps DEF Submit
<1>4. ASSUME NEW t \in Threads, Poll(t) PROVE ProviderInv'
  <2>1. CASE PollPending(t) \/ PollSucceeds(t) \/ PollFails(t) \/ PollLosesAnswer(t)
    <3>1. PICK life \in {"POLLABLE", "SUCCEEDED", "FAILED"} : PollEnds(t, life) /\ (ServerFault \/ UNCHANGED pfaults)
      BY <2>1 DEF PollPending, PollSucceeds, PollFails, PollLosesAnswer
    <3>2. life \in SubmissionLifecycle \ {"POLLING", "RETRIEVING"}
      BY DEF SubmissionLifecycle
    <3> QED
      BY <3>1, <3>2, PollEndsKeeps
  <2> QED
    BY <1>4, <2>1, PollStartsKeeps DEF Poll
<1>5. ASSUME NEW t \in Threads, Retrieve(t) PROVE ProviderInv'
  <2>1. CASE RetrieveLosesAnswer(t)
    <3>1. "SUCCEEDED" \in SubmissionLifecycle \ {"POLLING", "RETRIEVING"} /\ ServerFault
      BY <2>1 DEF SubmissionLifecycle, RetrieveLosesAnswer
    <3> QED
      BY <2>1, <3>1, PollEndsKeeps
  <2> QED
    BY <1>5, <2>1, RetrieveStartsKeeps, RetrieveFailedKeeps, RetrieveGivesUpKeeps, RetrieveChecksKeeps,
      RetrieveRecordsKeeps DEF Retrieve
<1>6. ASSUME NEW t \in Threads, Release(t) PROVE ProviderInv'
  BY <1>6, RetrieveFailedKeeps, ReleaseRequestKeeps DEF Release
<1> QED
  BY <1>1, <1>2, <1>3, <1>4, <1>5, <1>6, AgesKeep DEF Next

LEMMA AlwaysInv == ASSUME Bounds PROVE Spec => []ProviderInv
<1>1. Init => ProviderInv
  BY InitInv
<1>2. ProviderInv /\ [Next]_providerVars => ProviderInv'
  BY StepInv
<1> QED
  BY <1>1, <1>2, PTL DEF Spec

\* What is claimed follows.
LEMMA InvSafe == ASSUME Bounds, ProviderInv PROVE OwnershipSafe
<1>1. Capacity
  <2>1. Room(preparing, prepared) /\ Space(submissions, requests, prepared) /\ Reservations
    BY DEF ProviderInv, Books
  <2> QED
    BY <2>1 DEF Capacity, Room, Space, Reservations, Reserving, LiveSubmissions, Stored, Submitting
<1>2. LinkedOwnership
  BY DEF ProviderInv, Books, Linked, LinkedOwnership
<1>3. BusyHasCaller
  <2>1. ASSUME NEW r \in LivePrepared(prepared), requests[prepared[r]].life = "SUBMITTING"
        PROVE  Cardinality({t \in Threads : call[t].at \in {"asking", "posted"} /\ call[t].obj = prepared[r]}) = 1
    <3>1. PICK t \in Threads : Asks(t) /\ call[t].obj = prepared[r]
      BY <2>1 DEF ProviderInv, Books, Asked, LivePrepared
    <3>2. {u \in Threads : call[u].at \in {"asking", "posted"} /\ call[u].obj = prepared[r]} = {t}
      BY <3>1 DEF ProviderInv, Askers, Asks
    <3> QED
      BY <3>2, FS_Singleton
  <2>2. ASSUME NEW j \in JobIds, submissions[j] # NoObject, subs[submissions[j]].life \in {"POLLING", "RETRIEVING"}
        PROVE  Cardinality({t \in Threads : call[t].at \in {"polling", "fetching", "recording"}
                                            /\ call[t].obj = submissions[j]}) = 1
    <3>1. PICK t \in Threads : Uses(t) /\ call[t].obj = submissions[j]
      BY <2>2 DEF ProviderInv, Books, Used
    <3>2. {u \in Threads : call[u].at \in {"polling", "fetching", "recording"} /\ call[u].obj = submissions[j]} = {t}
      BY <3>1 DEF ProviderInv, Users, Uses
    <3> QED
      BY <3>2, FS_Singleton
  <2> QED
    BY <2>1, <2>2 DEF BusyHasCaller
<1>4. DeliveredOnce
  BY DEF ProviderInv, Delivered
<1> QED
  BY <1>1, <1>2, <1>3, <1>4 DEF OwnershipSafe

\* Places are never oversold, a submission and its request are removed together, a
\* busy state has exactly one caller and an image is handed out once, for any number
\* of threads in the one client and whatever expires, is released or fails while they
\* wait for the server (create_request, submit, poll, retrieve, release_local_state,
\* _purge_expired_locked).
THEOREM OwnershipAlwaysSafe == ASSUME Bounds PROVE Spec => [](TypeOK /\ OwnershipSafe)
<1>1. ProviderInv => TypeOK /\ OwnershipSafe
  BY InvSafe DEF ProviderInv
<1> QED
  BY <1>1, AlwaysInv, PTL
===============================================================================
