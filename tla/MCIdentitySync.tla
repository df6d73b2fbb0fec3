--------------------------- MODULE MCIdentitySync ---------------------------
(* The outbox, and the groups that its passes keep at one app, in one run.   *)
(* They share no state; a behaviour is one of the component that part names. *)
EXTENDS MCOutboxSync, GroupSync

VARIABLE part

PartsInit ==
  /\ part \in {"outbox", "groups"}
  /\ Init /\ GroupInit
  /\ part # "groups" => bound = [r \in Roles |-> NoOne]

PartsNext ==
  /\ UNCHANGED part
  /\ \/ part = "outbox" /\ Next /\ UNCHANGED groupVars
     \/ part = "groups" /\ GroupNext /\ UNCHANGED vars

PartsSpec == PartsInit /\ [][PartsNext]_<<part, vars, groupVars>>
=============================================================================
