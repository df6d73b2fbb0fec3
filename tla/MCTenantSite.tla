----------------------------- MODULE MCTenantSite -----------------------------
(* A tenant's stack as it is provisioned, the tenants' pages as a browser     *)
(* visits them, and an app as it is brought up to the team, in one run.  They *)
(* share no state; a behaviour is one of the component that part names.       *)
EXTENDS TenantProvision, Navigation, Convergence, TLC

VARIABLE part

everything == <<part, vars, navVars, convVars>>

PartsInit ==
  /\ part \in {"provision", "visits", "apps"}
  /\ Init /\ NavInit /\ ConvInit
  /\ part # "visits" => session = Nobody /\ member = [a \in Accounts |-> {}]
  /\ part # "apps" => ~native /\ codes = [r \in PlatformRoles |-> {}]

PartsNext ==
  /\ UNCHANGED part
  /\ \/ part = "provision" /\ Next /\ UNCHANGED <<navVars, convVars>>
     \/ part = "visits" /\ NavNext /\ UNCHANGED <<vars, convVars>>
     \/ part = "apps" /\ ConvNext /\ UNCHANGED <<vars, navVars>>

PartsSpec == PartsInit /\ [][PartsNext]_everything

Interchangeable ==
  Permutations(Runs) \cup Permutations(Jobs) \cup Permutations(Tabs)
===============================================================================
