------------------------------ MODULE AppRegistry ------------------------------
(***************************************************************************)
(* The registry of connected apps, for one app and one tenant: the app's    *)
(* row, the tenant's instance of it, and everyone who writes them.  Those   *)
(* are the platform admin's table of instances, the tenant admin's panel on *)
(* the hub, provisioning and deprovisioning.                                *)
(*                                                                         *)
(* A form keeps its inputs in the state of a component that outlives a      *)
(* refresh of the page: new props reach the inputs only when the component  *)
(* is mounted or the admin cancels.  A form sends all its inputs, touched   *)
(* or not.  The bearer token is left out: it is sent only when typed.       *)
(***************************************************************************)
EXTENDS Integers, FiniteSets

CONSTANTS
  Tables,       \* open pages with the app's table of instances
  Hubs,         \* open hub pages of the tenant
  Urls,         \* SCIM base URLs
  Endpoint,     \* the one that provisioning registers
  Nobody,       \* no form: the one that asked is gone
  NoInstance,
  MaxRows,      \* bound on the instances made, one after the other
  MaxAppCalls,  \* bound on the requests
  MaxOpen       \* bound on the forms open at once

Forms == Tables \cup Hubs
AppCalls == 1..MaxAppCalls

ASSUME RegistryAssumption ==
  /\ Tables \cap Hubs = {} /\ Nobody \notin Forms /\ Endpoint \in Urls
  /\ MaxRows \in Nat \ {0} /\ {MaxAppCalls, MaxOpen} \subseteq Nat

Columns == {"url", "status"}
AppRows == [url : Urls, status : {"ACTIVE", "PAUSED"}]  \* DISABLED is to the code what PAUSED is

VARIABLES
  appExists,    \* the app has its row
  appInstance,  \* the tenant's row, if any
  rowsMade,     \* how many rows there were
  scimForm,     \* the forms: the row they are of (0 if not open), props and inputs
  appCall,      \* the requests
  appCalls,     \* how many there were
  asTaken       \* columns that neither the form's admin nor anyone else has changed
                \* since the form took its inputs (history)

registryVars == <<appExists, appInstance, rowsMade, scimForm, appCall, appCalls, asTaken>>

Blank == [url |-> Endpoint, status |-> "PAUSED"]
Closed == [row |-> 0, props |-> Blank, input |-> Blank]
NoCall == [kind |-> "none", step |-> "write", from |-> Nobody, row |-> 0, sends |-> Blank,
           asTaken |-> {}]

Instance == [row : 1..MaxRows, has : AppRows]
ScimForm == [row : 0..MaxRows, props : AppRows, input : AppRows]
AppCall == [kind : {"none", "table", "hub", "delete"}, step : {"load", "write"},
            from : Forms \cup {Nobody}, row : 0..MaxRows, sends : AppRows, asTaken : SUBSET Columns]

RegistryTypeOK ==
  /\ appExists \in BOOLEAN /\ rowsMade \in 0..MaxRows
  /\ appInstance = NoInstance \/ appInstance \in Instance
  /\ scimForm \in [Forms -> ScimForm]
  /\ appCall \in [AppCalls -> AppCall] /\ appCalls \in 0..MaxAppCalls
  /\ asTaken \in [Forms -> SUBSET Columns]

RegistryInit ==
  /\ appExists = TRUE /\ appInstance = NoInstance /\ rowsMade = 0
  /\ scimForm = [p \in Forms |-> Closed]
  /\ appCall = [n \in AppCalls |-> NoCall] /\ appCalls = 0
  /\ asTaken = [p \in Forms |-> {}]

-------------------------------------------------------------------------------
(* The forms. *)

IsOpen(p) == scimForm[p].row # 0

Same(a, b) == {c \in Columns : a[c] = b[c]}
Differing(new) == IF appInstance = NoInstance THEN Columns ELSE Columns \ Same(appInstance.has, new)

\* What was under way is answered to a form that is gone.
Becomes(p, new) ==
  /\ scimForm' = [scimForm EXCEPT ![p] = new] /\ scimForm' # scimForm
  /\ asTaken' = [asTaken EXCEPT ![p] = IF new = Closed THEN {} ELSE Columns]
  /\ appCall' = [n \in AppCalls |->
                   IF appCall[n].from = p THEN [appCall[n] EXCEPT !.from = Nobody] ELSE appCall[n]]
  /\ UNCHANGED <<appExists, appInstance, rowsMade, appCalls>>

\* The page is opened, or the form is mounted anew: a table has one per row.
OpenForm(p) ==
  /\ appInstance # NoInstance /\ Cardinality({q \in Forms \ {p} : IsOpen(q)}) < MaxOpen
  /\ Becomes(p, [row |-> appInstance.row, props |-> appInstance.has, input |-> appInstance.has])

\* The page is left, or it is rendered when there is no instance.
LeaveForm(p) == Becomes(p, Closed)

\* router.refresh: a form that is there gets new props and keeps its inputs.
\* The hub has one form, whichever row it is of.
RefreshForm(p) ==
  /\ IsOpen(p) /\ appInstance # NoInstance
  /\ p \in Hubs \/ appInstance.row = scimForm[p].row
  /\ scimForm' = [scimForm EXCEPT ![p] = [@ EXCEPT !.row = appInstance.row, !.props = appInstance.has]]
  /\ UNCHANGED <<appExists, appInstance, rowsMade, appCall, appCalls, asTaken>>

ChangeInput(p, column, value) ==
  /\ IsOpen(p) /\ scimForm[p].input[column] # value
  /\ column = "status" => p \in Tables
  /\ scimForm' = [scimForm EXCEPT ![p] = [@ EXCEPT !.input[column] = value]]
  /\ asTaken' = [asTaken EXCEPT ![p] = @ \ {column}]
  /\ UNCHANGED <<appExists, appInstance, rowsMade, appCall, appCalls>>

CancelWith(p, input) ==
  /\ IsOpen(p)
  /\ scimForm' = [scimForm EXCEPT ![p].input = input]
  /\ asTaken' = [asTaken EXCEPT ![p] = Columns \ Differing(scimForm[p].props)]
  /\ UNCHANGED <<appExists, appInstance, rowsMade, appCall, appCalls>>

\* Mutant of Cancel: the inputs are left as they are.
CancelAndKeep(p) == CancelWith(p, scimForm[p].input)

Cancel(p) == CancelWith(p, scimForm[p].props)

-------------------------------------------------------------------------------
(* Requests.  A table's names the row it is for.  The hub's is for whatever   *)
(* instance the tenant has: it looks one up and then writes that row.  A      *)
(* deletion of the app counts the instances and then deletes.                 *)

Counts == appCalls < MaxAppCalls /\ appCalls' = appCalls + 1

Ask(call) ==
  /\ Counts
  /\ appCall' = [appCall EXCEPT ![appCalls + 1] = call]
  /\ UNCHANGED <<appExists, appInstance, rowsMade, scimForm, asTaken>>

\* The buttons of a form are disabled while a request of it is under way.
FromForm(p, call) == IsOpen(p) /\ (\A n \in AppCalls : appCall[n].from # p) /\ Ask(call)

SaveForm(p) ==
  FromForm(p, [kind |-> IF p \in Hubs THEN "hub" ELSE "table", from |-> p,
               step |-> IF p \in Hubs THEN "load" ELSE "write",
               row |-> IF p \in Hubs THEN 0 ELSE scimForm[p].row, sends |-> scimForm[p].input,
               asTaken |-> asTaken[p]])

\* DELETE of the app, which no page offers.
DeleteApp == Ask([NoCall EXCEPT !.kind = "delete", !.step = "load", !.asTaken = Columns])

\* The page is told of a failure, and the form stays as it is.
Over(n) == appCall' = [appCall EXCEPT ![n] = NoCall]
Refused(n) == Over(n) /\ UNCHANGED <<appExists, appInstance, rowsMade, scimForm, appCalls, asTaken>>

Loads(n, kind, row) ==
  /\ appCall[n].kind = kind /\ appCall[n].step = "load"
  /\ appCall' = [appCall EXCEPT ![n] = [@ EXCEPT !.step = "write", !.row = row]]
  /\ UNCHANGED <<appExists, appInstance, rowsMade, scimForm, appCalls, asTaken>>

FindInstance(n) == appInstance # NoInstance /\ Loads(n, "hub", appInstance.row)

\* Mutant of CountInstances: nobody looks at the number.
CountNone(n) == appExists /\ Loads(n, "delete", 0)

CountInstances(n) == appExists /\ appInstance = NoInstance /\ Loads(n, "delete", 0)

LoadRefused(n) ==
  /\ appCall[n].step = "load"
  /\ IF appCall[n].kind = "hub" THEN appInstance = NoInstance ELSE ~appExists \/ appInstance # NoInstance
  /\ Refused(n)

AtCall(n, kind) == appCall[n].kind = kind /\ appCall[n].step = "write"
ByForm(n) == AtCall(n, "table") \/ AtCall(n, "hub")

\* The row is named by its id, and the write throws if it is gone.
Found(n) == appInstance # NoInstance /\ appInstance.row = appCall[n].row

\* What a write changes, nobody else can expect to leave as it was.
Overtakes(n, new) ==
  appCall' = [m \in AppCalls |->
                IF m = n THEN NoCall
                ELSE IF appCall[m].kind = "none" THEN NoCall
                ELSE [appCall[m] EXCEPT !.asTaken = @ \ Differing(new)]]
Outdates(new) == asTaken' = [p \in Forms |-> asTaken[p] \ Differing(new)]

\* A form whose answer arrives closes, and its inputs are what was saved unless
\* they have been changed meanwhile.  The answer can be an error: the change is
\* logged after it is made.
Patch(n) ==
  LET p == appCall[n].from
      new == IF AtCall(n, "hub") THEN [appInstance.has EXCEPT !.url = appCall[n].sends.url]
             ELSE appCall[n].sends IN
  /\ ByForm(n) /\ Found(n)
  /\ appInstance' = [appInstance EXCEPT !.has = new]
  /\ \E answered \in BOOLEAN :
       asTaken' = [q \in Forms |->
                  (asTaken[q] \ Differing(new)) \cup
                    (IF q = p /\ answered THEN Same(scimForm[q].input, new) ELSE {})]
  /\ Overtakes(n, new)
  /\ UNCHANGED <<appExists, rowsMade, scimForm, appCalls>>

\* DELETE of the row that a table shows.
Disconnect(p) ==
  /\ p \in Tables /\ IsOpen(p) /\ appInstance # NoInstance /\ appInstance.row = scimForm[p].row
  /\ Counts /\ appInstance' = NoInstance
  /\ UNCHANGED <<appExists, rowsMade, scimForm, appCall, asTaken>>

NewRow(new) ==
  /\ rowsMade < MaxRows /\ rowsMade' = rowsMade + 1
  /\ appInstance' = [row |-> rowsMade + 1, has |-> new]

\* "Connect a tenant": one instance per app and tenant, of an app that is there.
Connect(u) ==
  LET new == [url |-> u, status |-> "ACTIVE"] IN
  /\ appInstance = NoInstance /\ appExists /\ Counts
  /\ NewRow(new) /\ Outdates(new) /\ Overtakes(0, new)
  /\ UNCHANGED <<appExists, scimForm>>

\* The delete cascades to the instances.
DeleteRow(n) ==
  /\ AtCall(n, "delete") /\ appExists
  /\ appExists' = FALSE /\ appInstance' = NoInstance /\ Over(n)
  /\ UNCHANGED <<rowsMade, scimForm, appCalls, asTaken>>

WriteRefused(n) ==
  /\ appCall[n].step = "write"
  /\ \/ ByForm(n) /\ ~Found(n)
     \/ AtCall(n, "delete") /\ ~appExists
  /\ Refused(n)

-------------------------------------------------------------------------------
(* The worker. *)

\* The end of a provision run: both rows are upserted.
Register ==
  LET new == [url |-> Endpoint, status |-> "ACTIVE"] IN
  /\ appExists' = TRUE
  /\ \/ appInstance = NoInstance /\ NewRow(new)
     \/ appInstance # NoInstance /\ appInstance' = [appInstance EXCEPT !.has = new] /\ UNCHANGED rowsMade
  /\ Outdates(new) /\ Overtakes(0, new)
  /\ UNCHANGED <<scimForm, appCalls>>

\* The end of a deprovision run.
Pause ==
  /\ appInstance # NoInstance
  /\ LET new == [appInstance.has EXCEPT !.status = "PAUSED"] IN
     /\ appInstance' = [appInstance EXCEPT !.has = new]
     /\ Outdates(new) /\ Overtakes(0, new)
  /\ UNCHANGED <<appExists, rowsMade, scimForm, appCalls>>

RegistryNext ==
  \/ \E p \in Forms : OpenForm(p) \/ LeaveForm(p) \/ RefreshForm(p) \/ Cancel(p) \/ SaveForm(p) \/ Disconnect(p)
       \/ \E u \in Urls : ChangeInput(p, "url", u)
       \/ \E s \in {"ACTIVE", "PAUSED"} : ChangeInput(p, "status", s)
  \/ \E u \in Urls : Connect(u)
  \/ DeleteApp
  \/ \E n \in AppCalls :
       \/ FindInstance(n) \/ CountInstances(n) \/ LoadRefused(n)
       \/ Patch(n) \/ DeleteRow(n) \/ WriteRefused(n)
  \/ Register \/ Pause

RegistrySpec == RegistryInit /\ [][RegistryNext]_registryVars

-------------------------------------------------------------------------------
(* Properties *)

\* A save changes only what its admin changed: an input that was cancelled, or
\* saved, is no longer such a change.  The exception is a column that someone
\* else has changed since the form took its inputs, which the form puts back:
\* a refresh of the page brings new props, and not new inputs.
SaveKeepsRest ==
  [][\A n \in AppCalls : ByForm(n) /\ Patch(n) =>
       \A c \in appCall[n].asTaken : appInstance'.has[c] = appInstance.has[c]]_registryVars

\* "An admin can't accidentally sever a live SCIM sync by deleting the app"
\* (connected-apps/[id]/route.ts): an instance goes with its app only if it was
\* made after the deletion had counted.
DeleteSparesLive ==
  [][\A n \in AppCalls : AtCall(n, "delete") /\ DeleteRow(n) =>
       appInstance = NoInstance \/ appCall[n].asTaken # Columns]_registryVars
===============================================================================
