------------------------------- MODULE MCOuter -------------------------------
(***************************************************************************)
(* Three components that share no state, each on a small instance: the     *)
(* machine execution chain with fair threads and restarts, the provider's  *)
(* client inside a worker, and the installer of the OpenClaw files, which  *)
(* is the module that is extended.  A behaviour is one of them running by  *)
(* itself.                                                                 *)
(***************************************************************************)
EXTENDS OpenClawInstall

CONSTANTS Jobs, Executions, MaxFaults, PostRunHomeZ, ReopenAllowed, None,
          Threads, RequestIds, MaxPrepared, MaxLive, MaxObjects, MaxServerFaults

ASSUME OuterAssumption ==
  /\ NumFiles \in Nat \ {0}
  /\ MaxRegistryEdits \in Nat /\ MaxInstallCrashes \in Nat /\ MaxInstallFaults \in Nat
  /\ "nobody" \notin Threads /\ IsFiniteSet(RequestIds)
  /\ MaxPrepared \in Nat /\ MaxLive \in Nat /\ MaxObjects \in Nat /\ MaxServerFaults \in Nat

VARIABLES
  part,       \* the component this behaviour is of
  jobs, exec, chal, adm, sess, port, opened, moved, faults, pc,
  preparing, prepared, requests, submissions, subs, oldRequests, oldSubs, call, posted, delivered, pfaults

machineVars == <<jobs, exec, chal, adm, sess, port, opened, moved, faults, pc>>
providerVars == <<preparing, prepared, requests, submissions, subs, oldRequests, oldSubs, call,
  posted, delivered, pfaults>>

Machine == INSTANCE MachineExecution
Provider == INSTANCE LocalComfyUIProofs

MachineOnly == part = "machine" /\ UNCHANGED <<part, providerVars, openclawVars>>
ProviderOnly == part = "provider" /\ UNCHANGED <<part, machineVars, openclawVars>>
OpenClawOnly == part = "openclaw" /\ UNCHANGED <<part, machineVars, providerVars>>

outerVars == <<part, machineVars, providerVars, openclawVars>>

OuterInit ==
  /\ part \in {"machine", "provider", "openclaw"} /\ Machine!Init /\ Provider!Init /\ Init
  /\ part # "openclaw" => \A f \in 1..NumFiles : dirs[f].target = "none"

OuterNext ==
  \/ MachineOnly /\ Machine!Next
  \/ ProviderOnly /\ Provider!Next
  \/ OpenClawOnly /\ Next

\* The fairness of MachineExecution; nothing is asked of the others.
OuterFairness ==
  /\ WF_outerVars(MachineOnly /\ Machine!StartUp) /\ WF_outerVars(MachineOnly /\ Machine!ShutDown)
  /\ WF_outerVars(MachineOnly /\ Machine!Drive) /\ WF_outerVars(MachineOnly /\ Machine!ProcessExit)

OuterSpec == OuterInit /\ [][OuterNext]_outerVars /\ OuterFairness

-----------------------------------------------------------------------------
\* LocalComfyUI!TypeOK and OwnershipSafe: places are never oversold, the dictionaries
\* agree, a busy state has one caller, and an image is handed out once.
OwnershipSafe == Provider!TypeOK /\ Provider!OwnershipSafe

\* MachineExecution!InitialSettles: an execution that starts comes to rest.
InitialSettles == Machine!InitialSettles
=============================================================================
