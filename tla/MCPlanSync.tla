------------------------------ MODULE MCPlanSync ------------------------------
(* The plan of a tenant and the cached permissions of its members, which a     *)
(* change of the plan drops, in one run: a behaviour is one of the component   *)
(* that part names.                                                            *)
EXTENDS PlanSync, AuthzCache, TLC

CONSTANTS u1, d1, a1, pro

CarriesDef == [c \in Changes \cup {Start} |-> IF c \in {u1, a1} THEN pro ELSE Free]
LimitDef == [p \in Plans |-> IF p = Free THEN 1 ELSE MaxUsage + 1]

VARIABLE part

everything == <<part, vars, cacheVars>>

PartsInit ==
  /\ part \in {"plan", "authz"}
  /\ Init /\ CacheInit

PartsNext ==
  /\ UNCHANGED part
  /\ \/ part = "plan" /\ Next /\ UNCHANGED <<cacheVars>>
     \/ part = "authz" /\ CacheNext /\ UNCHANGED <<vars>>

PartsSpec == PartsInit /\ [][PartsNext]_everything

Interchangeable == Permutations(Readers)
===============================================================================
