---------------------------- MODULE AppRoleSelect ----------------------------
(***************************************************************************)
(* The select by which an admin gives a member one of the roles of a        *)
(* connected app, on several pages at once.  The rows behind it are a set   *)
(* of bindings: choosing another role removes the binding the page knows    *)
(* of and adds one, by two calls, so that a member may hold two roles while *)
(* the select shows one.                                                    *)
(***************************************************************************)
EXTENDS Naturals

CONSTANTS
  AppRoles,   \* native roles of the app
  NoRole,     \* what the select shows for none
  RolePages,  \* pages that show the select
  MaxChoices  \* bound on the changes of the selects

ASSUME RoleSelectAssumption == NoRole \notin AppRoles /\ MaxChoices \in Nat

VARIABLES
  bindings, \* roles of the app that the member is bound to
  select,   \* the select of each page
  late,     \* calls that no page waits for
  choices,  \* how many changes there were
  disturbed,  \* pages whose last change others have disturbed (history)
  unaware     \* pages that do not know all the bindings (history)

roleHistory == <<disturbed, unaware>>
selectVars == <<bindings, select, late, choices, roleHistory>>

Chosen == AppRoles \cup {NoRole}
Select == [shown : Chosen, before : Chosen, step : {"rest", "remove", "assign"},
           reply : {"none", "done", "refused", "half"}, error : BOOLEAN]
RoleCall == [step : {"remove", "assign"}, role : AppRoles]

SelectTypeOK ==
  /\ bindings \subseteq AppRoles /\ select \in [RolePages -> Select] /\ late \subseteq RoleCall
  /\ choices \in 0..MaxChoices /\ disturbed \subseteq RolePages /\ unaware \subseteq RolePages

SelectShows(r) == [shown |-> r, before |-> NoRole, step |-> "rest", reply |-> "none", error |-> FALSE]

SelectInit ==
  /\ bindings = {} /\ select = [p \in RolePages |-> SelectShows(NoRole)] /\ late = {} /\ choices = 0
  /\ disturbed = {} /\ unaware = {}

-------------------------------------------------------------------------------
AtRest(p) == select[p].step = "rest"

CallOf(p) == [step |-> select[p].step,
              role |-> IF select[p].step = "remove" THEN select[p].before ELSE select[p].shown]

\* The call that page p waits for, if the server has not done with it.
Unheard(p) == IF ~AtRest(p) /\ select[p].reply = "none" THEN {CallOf(p)} ELSE {}

\* The member's binding is read; of several the page shows one, and no page waits any more.
LoadSelect(p) ==
  \E r \in IF bindings = {} THEN {NoRole} ELSE bindings :
    /\ select' = [select EXCEPT ![p] = SelectShows(r)]
    /\ late' = late \cup Unheard(p)
    /\ disturbed' = disturbed \ {p}
    /\ unaware' = IF bindings \subseteq {r} THEN unaware \ {p} ELSE unaware \cup {p}
    /\ UNCHANGED <<bindings, choices>>

\* handleChange; the select is disabled while it waits.
ChooseRole(p, r) ==
  /\ AtRest(p) /\ r # select[p].shown /\ choices < MaxChoices /\ choices' = choices + 1
  /\ select' = [select EXCEPT ![p] =
       [shown |-> r, before |-> @.shown, step |-> IF @.shown = NoRole THEN "assign" ELSE "remove",
        reply |-> "none", error |-> FALSE]]
  /\ disturbed' = disturbed \ {p}
  /\ UNCHANGED <<bindings, late, unaware>>

\* The bindings change, by a call of page p or, where there is none, from elsewhere.
Binds(new, own) ==
  /\ bindings' = new
  /\ disturbed' = IF new = bindings THEN disturbed ELSE disturbed \cup (RolePages \ own)
  /\ unaware' = IF new = bindings THEN unaware ELSE unaware \cup (RolePages \ own)

\* What the routes make of a call: deleteMany of the one binding, or an upsert.
Carried(c) == IF c.step = "remove" THEN bindings \ {c.role} ELSE bindings \cup {c.role}

CarryOut(p) ==
  /\ ~AtRest(p) /\ select[p].reply = "none"
  /\ Binds(Carried(CallOf(p)), {p})
  /\ select' = [select EXCEPT ![p].reply = "done"]
  /\ UNCHANGED <<late, choices>>

\* No such role, app or member, or a failure; the latter may come after the commit.
TurnAway(p) ==
  /\ ~AtRest(p) /\ select[p].reply \in {"none", "done"}
  /\ select' = [select EXCEPT ![p].reply = IF @ = "none" THEN "refused" ELSE "half"]
  /\ UNCHANGED <<bindings, late, choices, roleHistory>>

\* A call that no page waits for is carried out, or refused.
CarryOutLate(c) ==
  /\ late' = late \ {c}
  /\ Binds(Carried(c), {}) \/ UNCHANGED <<bindings, roleHistory>>
  /\ UNCHANGED <<select, choices>>

\* The member's role is replaced, or the member removed: every binding goes.
ReplaceRoles ==
  /\ bindings # {} /\ Binds({}, {})
  /\ UNCHANGED <<select, late, choices>>

HearDone(p) ==
  /\ select[p].reply = "done"
  /\ select' = [select EXCEPT ![p] =
       IF @.step = "remove" /\ @.shown # NoRole THEN [@ EXCEPT !.step = "assign", !.reply = "none"]
       ELSE [@ EXCEPT !.step = "rest", !.reply = "none"]]
  /\ UNCHANGED <<bindings, late, choices, roleHistory>>

\* Mutant of FallenBack: the select keeps the choice that failed.
KeptChoice(s) == [s EXCEPT !.step = "rest", !.reply = "none", !.error = TRUE]

FallenBack(s) == [SelectShows(s.before) EXCEPT !.error = TRUE]

\* An error is heard, or no answer at all.  The page cannot tell whether a role was assigned.
HearFailure(p) ==
  /\ ~AtRest(p)
  /\ select' = [select EXCEPT ![p] = FallenBack(@)]
  /\ late' = late \cup Unheard(p)
  /\ unaware' = IF select[p].step = "assign" /\ select[p].reply \in {"done", "half"}
              THEN unaware \cup {p} ELSE unaware
  /\ UNCHANGED <<bindings, choices, disturbed>>

SelectNext ==
  \/ \E p \in RolePages :
       \/ LoadSelect(p) \/ CarryOut(p) \/ TurnAway(p) \/ HearDone(p) \/ HearFailure(p)
       \/ \E r \in Chosen : ChooseRole(p, r)
  \/ \E c \in late : CarryOutLate(c)
  \/ ReplaceRoles

SelectSpec == SelectInit /\ [][SelectNext]_selectVars

-------------------------------------------------------------------------------
(* Properties *)

\* A select at rest that shows no error shows a role that the member holds, and
\* the member does not hold the one chosen before it, unless somebody else
\* changed the bindings since.  And the member holds no other role of the app,
\* error or not, unless somebody else changed them since the page was loaded,
\* or an assignment took effect that the page was told, or had to take, for a
\* failure: these are the ways to two roles (app-role-assignments.tsx).
SelectIsRight ==
  \A p \in RolePages : AtRest(p) =>
    /\ ~select[p].error /\ p \notin disturbed =>
         /\ select[p].shown # NoRole => select[p].shown \in bindings
         /\ select[p].before \notin bindings
    /\ p \notin unaware => bindings \subseteq {select[p].shown}
==============================================================================
