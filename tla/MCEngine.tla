------------------------------ MODULE MCEngine ------------------------------
(* Instances of Engine for TLC. *)
EXTENDS EngineClaims

\* A build task and the task that depends on it.
Build == "build"
Push == "push"
PushAfterBuild == {<<Push, Build>>}

\* At most two incidents: an action of the owner, a crash, a fault.
TwoIncidents ==
  (MaxOwnerOps - ownerOps) + (MaxCrashes - crashes) + (MaxFaults - faults) <= 2
=============================================================================
