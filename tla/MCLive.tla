-------------------------------- MODULE MCLive --------------------------------
(* Provisioning, and the directory of tenants that requests are looked up in, *)
(* in one run for what must happen in the end: a behaviour is one of the      *)
(* component that part names, with that component's fairness.                 *)
EXTENDS TenantProvision, TenantDirectory, TLC

VARIABLE part

everything == <<part, vars, dirVars>>

PartsInit ==
  /\ part \in {"provision", "directory"}
  /\ Init /\ DirInit

\* There is one fault, a worker that dies or a call that fails, or one outage of Redis.
OneFault == faults' + outages' <= 1

PartsNext ==
  /\ UNCHANGED part
  /\ \/ part = "provision" /\ Next /\ OneFault /\ UNCHANGED <<dirVars>>
     \/ part = "directory" /\ DirNext /\ UNCHANGED <<vars>>

PartsSpec ==
  /\ PartsInit /\ [][PartsNext]_everything
  /\ part = "provision" => Fairness
  /\ part = "directory" => DirFairness
==============================================================================
