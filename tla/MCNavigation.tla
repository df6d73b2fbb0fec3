----------------------------- MODULE MCNavigation -----------------------------
(* Navigation alone, for what the source says of it and does not hold.        *)
EXTENDS Navigation, TLC
===============================================================================
