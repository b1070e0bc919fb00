------------------------- MODULE MCMachineExecution -------------------------
(***************************************************************************)
(* Small instances of MachineExecution for TLC, and what the documentation *)
(* says of the chain in terms of the model.                                *)
(***************************************************************************)
EXTENDS MachineExecution

\* docs/current/recovery.md: "Any crash in an in-progress phase ... persists
\* RECOVERY_REQUIRED", stated of every execution, recovery successors included.
CrashPersistsRecovery ==
    \A e \in Executions :
        (pc.at = "down" /\ InProgress(e)) ~> exec[e].phase = "RECOVERY_REQUIRED"

\* docs/current/recovery.md: "exact replay return[s] the prior result": a request
\* the coordinator drives is one whose admission can still be claimed.
ReplayNotRedriven == pc.at = "admitted" => Admission("RESERVED") \in adm
=============================================================================
