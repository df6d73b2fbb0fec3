----------------------------- MODULE MCWorkspace ------------------------------
(* What the admins of a workspace look after: its team (an owner and two users *)
(* to invite, two requests at once) and its webhooks.  They share no state; a  *)
(* behaviour is one of the part it names: the team, the pages of webhooks      *)
(* while nothing is delivered, or the deliveries while one page acts.          *)
EXTENDS TeamMembership, Webhooks, TLC

VARIABLE part

everything == <<part, vars, hookVars>>

PartsInit ==
  /\ part \in {"team", "pages"} \cup HookPages
  /\ Init /\ HookInit

PartsNext ==
  /\ UNCHANGED part
  /\ \/ /\ part = "team" /\ Next
        /\ UNCHANGED <<hookVars>>
     \/ /\ part # "team" /\ HookNext
        /\ UNCHANGED <<vars>>
        /\ IF part = "pages" THEN UNCHANGED delivery
           ELSE \A p \in HookPages \ {part} : UNCHANGED <<fetch[p], call[p]>>

PartsSpec == PartsInit /\ [][PartsNext]_everything

Interchangeable == Permutations(Requests) \cup Permutations(Users \ {Owner})
                   \cup Permutations(HookPages) \cup Permutations(Fetches)
==============================================================================
