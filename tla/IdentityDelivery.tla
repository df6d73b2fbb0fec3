-------------------------- MODULE IdentityDelivery --------------------------
(***************************************************************************)
(* What the identity sync promises, without outbox rows, jobs and runs:    *)
(* identity changes are committed, delivered to each connected app in      *)
(* order, and acknowledged only after they were delivered.                 *)
(***************************************************************************)
EXTENDS Naturals

CONSTANT Apps

VARIABLES
  version,    \* identity changes committed
  delivered,  \* the newest change each app reflects in full
  acked       \* the newest change reported as delivered to each app

vars == <<version, delivered, acked>>

Init ==
  /\ version = 0
  /\ delivered = [a \in Apps |-> 0]
  /\ acked = [a \in Apps |-> 0]

Commit ==
  /\ version' = version + 1
  /\ UNCHANGED <<delivered, acked>>

(* Apps move forward, never past what is committed. *)
Deliver ==
  /\ DOMAIN delivered' = Apps
  /\ \A a \in Apps : delivered[a] <= delivered'[a] /\ delivered'[a] <= version
  /\ UNCHANGED <<version, acked>>

(* Acknowledgements move forward, never past what is delivered. *)
Acknowledge ==
  /\ DOMAIN acked' = Apps
  /\ \A a \in Apps : acked[a] <= acked'[a] /\ acked'[a] <= delivered[a]
  /\ UNCHANGED <<version, delivered>>

Next == Commit \/ Deliver \/ Acknowledge

Spec == Init /\ [][Next]_vars

=============================================================================
