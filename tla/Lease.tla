-------------------------------- MODULE Lease --------------------------------
(***************************************************************************)
(* What a lock with a TTL promises: it is granted to one holder at a time, *)
(* and only when the one before released it or its lease has run out.      *)
(***************************************************************************)

CONSTANT Holders

VARIABLE held   \* the holders whose lease lasts

Init == held = {}

Grant(h) == held = {} /\ held' = {h}

\* Released, run out, or lost with its holder.
End(h) == held = {h} /\ held' = {}

Next == \E h \in Holders : Grant(h) \/ End(h)

Spec == Init /\ [][Next]_held
==============================================================================
