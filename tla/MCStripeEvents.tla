--------------------------- MODULE MCStripeEvents ---------------------------
(* StripeEvents with one event of each kind, two slots and two jobs, and the *)
(* forms of the console, in one run: a behaviour is one of the component     *)
(* that part names.  A liveness property is checked, so there is no symmetry. *)
EXTENDS StripeEvents, ConsoleForms, TLC

VARIABLE part

everything == <<part, vars, formVars>>

\* The forms that are edited twice, or chosen from; the others are edited once.
Twice == {k \in Kinds : k.instant} \cup {RolePermissions}

PartsInit ==
  /\ part \in {"stripe", "forms"}
  /\ Init /\ FormInit
  /\ IF part = "forms" THEN \A f \in Inputs \ {Odd} : stored[f] = Special ELSE kind = AppConfig

PartsNext ==
  /\ UNCHANGED part
  /\ \/ part = "stripe" /\ Next /\ UNCHANGED formVars
     \/ part = "forms" /\ FormNext /\ (edits' = MaxEdits => kind \in Twice) /\ UNCHANGED vars

\* Fairness asks nothing of the forms: no step that is fair is enabled before a delivery.
PartsSpec == PartsInit /\ [][PartsNext]_everything /\ Fairness
=============================================================================
