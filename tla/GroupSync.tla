------------------------------ MODULE GroupSync ------------------------------
(***************************************************************************)
(* The groups that passes of convergeAppInstance keep at one app, when     *)
(* passes overlap: index.ts drains one tenant at a time, but in each       *)
(* worker process.  The app gives every group an id, and does not mind two *)
(* groups for one role.  A call that is not answered in time may still     *)
(* take effect, after its pass has failed.  Convergence has one pass in    *)
(* all its parts; here it is the calls for groups.                         *)
(***************************************************************************)
EXTENDS Naturals

CONSTANTS
  Passes,   \* the passes that can be under way at one time
  Roles,    \* the roles that sync to the app
  Members,  \* what the members of a group can be, one value each
  NoOne,    \* no members: nobody is bound to the role, or there is no group
  MaxCopies, \* bound on the groups made for one role
  MaxLost   \* bound on calls that are not answered in time

ASSUME GroupAssumption == NoOne \notin Members /\ MaxCopies \in Nat /\ MaxLost \in Nat

VARIABLES
  bound,      \* of each role: who is bound to it
  copy,       \* of each role and id: the members of the group
  made,       \* of each role: how many groups were made for it
  run,        \* the passes
  late,       \* calls that are on their way without their pass
  lost,       \* how many calls were
  overlapped  \* two passes overlapped, or a late call took effect (history)

groupVars == <<bound, copy, made, run, late, lost, overlapped>>

Copies == 1..MaxCopies   \* the ids of the groups for one role
Bindings == [Roles -> Members \cup {NoOne}]
\* A call creates a group if it names no id, and deletes one if it has no members.
Call == [role : Roles, id : SUBSET Copies, to : Members \cup {NoOne}]
Blank == [step |-> "idle", wants |-> [r \in Roles |-> NoOne], todo |-> {},
          existing |-> [r \in Roles |-> {}], stale |-> {}, alone |-> FALSE]

GroupTypeOK ==
  /\ bound \in Bindings /\ copy \in [Roles -> [Copies -> Members \cup {NoOne}]]
  /\ made \in [Roles -> 0..MaxCopies]
  /\ run \in [Passes -> [step : {"idle", "list", "put"}, wants : Bindings, todo : SUBSET Roles,
                         existing : [Roles -> SUBSET Copies], stale : SUBSET (Roles \X Copies),
                         alone : BOOLEAN]]
  /\ late \subseteq Call \X (1..MaxLost) /\ lost \in 0..MaxLost /\ overlapped \in BOOLEAN

There(r) == {n \in Copies : copy[r][n] # NoOne}
Wanted(p) == {r \in Roles : run[p].wants[r] # NoOne}
GroupsDone(p) == run[p].step = "put" /\ run[p].todo = {} /\ run[p].stale = {}
UnderWay == {p \in Passes : run[p].step # "idle" /\ ~GroupsDone(p)}

GroupInit ==
  /\ bound \in Bindings /\ copy = [r \in Roles |-> [n \in Copies |-> NoOne]]
  /\ made = [r \in Roles |-> 0] /\ run = [p \in Passes |-> Blank]
  /\ late = {} /\ lost = 0 /\ overlapped = FALSE

-------------------------------------------------------------------------------

BindTo(r, ms) ==
  /\ bound' = [bound EXCEPT ![r] = ms]
  /\ UNCHANGED <<copy, made, run, late, lost, overlapped>>

\* A pass reads the bindings first, and is alone until another one starts.
StartGroups(p) ==
  /\ p \notin UnderWay
  /\ run' = [q \in Passes |->
       IF q = p THEN [Blank EXCEPT !.step = "list", !.wants = bound,
                                   !.alone = UnderWay = {} /\ late = {}]
       ELSE IF q \in UnderWay THEN [run[q] EXCEPT !.alone = FALSE] ELSE Blank]
  /\ overlapped' = (overlapped \/ UnderWay # {})
  /\ UNCHANGED <<bound, copy, made, late, lost>>

\* Mutant of OneOfEach: the groups that are there are not matched to their roles.
OneOfEachUnmatched(p, pick) == \A r \in Roles : pick[r] = {}

\* Of several groups for one role the map by externalId keeps one.
OneOfEach(p, pick) ==
  \A r \in Roles :
    IF r \in Wanted(p) /\ There(r) # {} THEN \E n \in There(r) : pick[r] = {n} ELSE pick[r] = {}

ListGroups(p) ==
  /\ run[p].step = "list"
  /\ \E pick \in [Roles -> SUBSET Copies] :
       /\ OneOfEach(p, pick)
       /\ run' = [run EXCEPT ![p].step = "put", ![p].todo = Wanted(p), ![p].existing = pick,
            ![p].stale = {g \in (Roles \ Wanted(p)) \X Copies : g[2] \in There(g[1])}]
  /\ UNCHANGED <<bound, copy, made, late, lost, overlapped>>

Puts(p) == {[role |-> r, id |-> run[p].existing[r], to |-> run[p].wants[r]] : r \in run[p].todo}
Drops(p) == {[role |-> g[1], id |-> {g[2]}, to |-> NoOne] : g \in run[p].stale}

\* First the groups of the roles in use, then the stale ones.
NextCalls(p) == IF run[p].step # "put" THEN {} ELSE IF run[p].todo # {} THEN Puts(p) ELSE Drops(p)

Missing(c) == c.id # {} /\ c.id \cap There(c.role) = {}

TakesEffect(c) ==
  \/ /\ c.id = {}
     /\ made[c.role] < MaxCopies /\ made' = [made EXCEPT ![c.role] = @ + 1]
     /\ copy' = [copy EXCEPT ![c.role][made'[c.role]] = c.to]
  \/ /\ c.id # {} /\ UNCHANGED made
     /\ copy' = [copy EXCEPT ![c.role] =
          [n \in Copies |-> IF n \in c.id \cap There(c.role) THEN c.to ELSE @[n]]]

\* A group to be replaced that is gone fails the pass, one to be deleted does not.
CallsApp(p, c) ==
  /\ c \in NextCalls(p) /\ TakesEffect(c)
  /\ run' = IF Missing(c) /\ c.to # NoOne THEN [run EXCEPT ![p] = Blank]
            ELSE [run EXCEPT ![p].todo = @ \ {c.role}, ![p].stale = @ \ ({c.role} \X c.id)]
  /\ UNCHANGED <<bound, late, lost, overlapped>>

\* A call fails, the process ends, or the answer is lost.
FailsPass(p) ==
  /\ p \in UnderWay /\ run' = [run EXCEPT ![p] = Blank]
  /\ UNCHANGED <<bound, copy, made, late, lost, overlapped>>

\* The pass gives a call up after 15 seconds, and the app has it still to come.
TimesOut(p, c) ==
  /\ c \in NextCalls(p) /\ lost < MaxLost
  /\ lost' = lost + 1 /\ late' = late \cup {<<c, lost'>>}
  /\ run' = [run EXCEPT ![p] = Blank]
  /\ UNCHANGED <<bound, copy, made, overlapped>>

ArrivesLate(l) ==
  /\ l \in late /\ late' = late \ {l} /\ overlapped' = TRUE
  /\ TakesEffect(l[1])
  /\ UNCHANGED <<bound, run, lost>>

GroupNext ==
  \/ \E r \in Roles, ms \in Members \cup {NoOne} : BindTo(r, ms)
  \/ \E p \in Passes :
       \/ StartGroups(p) \/ ListGroups(p) \/ FailsPass(p)
       \/ \E c \in NextCalls(p) : CallsApp(p, c) \/ TimesOut(p, c)
  \/ \E l \in late : ArrivesLate(l)

GroupSpec == GroupInit /\ [][GroupNext]_groupVars

-------------------------------------------------------------------------------
(* Properties *)

\* A role has at most one group at the app, unless two passes overlapped or a
\* call its pass had given up took effect; and even then, the next pass that
\* runs alone leaves no group of a role that nobody is bound to, and for every
\* other role a group with just the people it read, if the pass ends
\* (convergeAppInstance, ScimClient).
GroupsAsRead ==
  /\ ~overlapped => \A r \in Roles : \A m, n \in There(r) : m = n
  /\ \A p \in Passes :
       GroupsDone(p) /\ run[p].alone =>
         \A r \in Roles : IF r \in Wanted(p) THEN \E n \in There(r) : copy[r][n] = run[p].wants[r]
                          ELSE There(r) = {}
==============================================================================
