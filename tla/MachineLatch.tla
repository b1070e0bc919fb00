---------------------------- MODULE MachineLatch ----------------------------
(***************************************************************************)
(* What the machine-execution chain promises to the rest of the service,   *)
(* with executions, approvals, sessions and crashes left out: one global   *)
(* latch held by at most one job, a program that is drawn at most once and *)
(* only by the holder, and a job verdict that is final.  MachineExecution  *)
(* implements this specification.                                          *)
(***************************************************************************)
CONSTANTS Jobs, NoJob

VARIABLES
    latch,  \* the job that owns the machine, or NoJob
    drawn,  \* the jobs whose program was sent to the machine
    fate    \* fate[j]: the durable state of the job

vars == <<latch, drawn, fate>>

Fates == {"READY_TO_RUN", "RECOVERY_REQUIRED", "COMPLETED", "CANCELLED"}

Init == latch = NoJob /\ drawn = {} /\ fate = [j \in Jobs |-> "READY_TO_RUN"]

Acquire(j) ==
    /\ latch = NoJob /\ fate[j] = "READY_TO_RUN"
    /\ latch' = j /\ UNCHANGED <<drawn, fate>>

\* Ambiguity about a drawing is never resolved by drawing again.
Draw(j) ==
    /\ latch = j /\ j \notin drawn
    /\ drawn' = drawn \cup {j} /\ UNCHANGED <<latch, fate>>

\* A failure keeps the latch: only an approved release gives it up.
Fail(j) ==
    /\ latch = j /\ fate[j] = "READY_TO_RUN"
    /\ fate' = [fate EXCEPT ![j] = "RECOVERY_REQUIRED"] /\ UNCHANGED <<latch, drawn>>

Finish(j) ==
    /\ latch = j /\ j \in drawn
    /\ fate' = [fate EXCEPT ![j] = "COMPLETED"]
    /\ latch' = NoJob /\ UNCHANGED drawn

Release(j) ==
    /\ latch = j /\ fate[j] = "RECOVERY_REQUIRED"
    /\ latch' = NoJob /\ UNCHANGED <<drawn, fate>>

Cancel(j) ==
    /\ latch # j /\ fate[j] = "READY_TO_RUN"
    /\ fate' = [fate EXCEPT ![j] = "CANCELLED"] /\ UNCHANGED <<latch, drawn>>

Next == \E j \in Jobs :
    Acquire(j) \/ Draw(j) \/ Fail(j) \/ Finish(j) \/ Release(j) \/ Cancel(j)

Spec == Init /\ [][Next]_vars
=============================================================================
