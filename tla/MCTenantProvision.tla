-------------------------- MODULE MCTenantProvision --------------------------
(* TenantProvision alone, for what the source says of it and does not hold.  *)
EXTENDS TenantProvision, TLC
=============================================================================
