-------------------------- MODULE MCJobCoordinator --------------------------
(* An instance of JobCoordinator for TLC *)
EXTENDS JobCoordinator, FiniteSets
CONSTANTS ja, jb

Cmd(kind, j, id, ok) == [kind |-> kind, job |-> j, id |-> id, approved |-> ok]

\* A workflow whose route (the local worker or the provider) is chosen by a worker, and
\* a G-code check.
TwoJobs == {ja, jb}
TwoModes == [j \in TwoJobs |-> IF j = ja THEN "auto" ELSE "check"]

\* The workflow is submitted and reviewed, with a refusal as well; the check is submitted
\* twice.
TwoJobRequests ==
    {Cmd("SUBMIT", ja, 1, TRUE), Cmd("CONTINUE_REVIEW", ja, 2, TRUE),
     Cmd("CONTINUE_REVIEW", ja, 3, FALSE),
     Cmd("SUBMIT", jb, 1, TRUE), Cmd("SUBMIT", jb, 2, TRUE)}

\* What this instance looks at: the workflow and its approved review with every mishap;
\* the check by itself with at most a call that raises; any two requests without one;
\* a failing handler without an execution and a crash.
Asked == {r \in Requests : caller[r] # "new"}
Others == {r \in Asked : r.job = jb \/ ~r.approved}
Plain == used.claims = 0 /\ used.restarts = 0
Scope ==
    /\ Others # {} => /\ Plain /\ used.cancels = 0 /\ ~HandlerFailed
                      /\ (\A r \in Asked : r.job = jb) \/ Untroubled
    /\ Cardinality(Asked) <= 2
    /\ HandlerFailed => Plain

\* Scope refuses no step that fairness asks for: a client and a mishap are not obliged
\* to come, and the thread may always take its step without one.
ScopedSpec ==
    /\ Init /\ [][Next /\ Scope']_vars
    /\ WF_vars(Coordinator) /\ WF_vars(StopReturns)
    /\ WF_vars(\E r \in Requests : Deadline(r) \/ WaitEnds(r) \/ WaitExpires(r))
=============================================================================
