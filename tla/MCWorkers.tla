------------------------------ MODULE MCWorkers ------------------------------
(* Instances of WorkerSupervisor for TLC *)
EXTENDS WorkerSupervisor

ASSUME AttemptsAssumption == IsFiniteSet(Attempts)
=============================================================================
