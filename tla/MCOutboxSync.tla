---------------------------- MODULE MCOutboxSync ----------------------------
(* OutboxSync on small instances.  Rows, jobs, requests and instances are    *)
(* interchangeable, which the runs without liveness use as symmetry.         *)
EXTENDS OutboxSync, TLC

Symmetry ==
  Permutations(Events) \cup Permutations(Jobs) \cup Permutations(Requests)
    \cup Permutations(Apps) \cup Permutations(Workers)

=============================================================================
