---------------------------- MODULE ResourceLimits ----------------------------
(***************************************************************************)
(* The limits that a platform admin sets for one tenant over those of its   *)
(* plan.  They are a JSON column of the tenant's row, whose fields are a    *)
(* number, null for "unlimited", or left out for the plan's own limit.      *)
(* Every drain of the tenant's outbox pushes the column to the tenant's     *)
(* Riogentix instance, which keeps the fields that a push leaves out.       *)
(***************************************************************************)
EXTENDS Integers

CONSTANTS
  Fields,      \* pipes, storageBytes, apiKeys, seats
  Numbers,
  Unlimited,   \* null
  Inherited,   \* a field left out; an empty input of the panel
  Panels,      \* open pages of the tenant
  Passes,      \* drains that can run at once
  MaxLimitSaves

ASSUME LimitsAssumption ==
  Unlimited # Inherited /\ {Unlimited, Inherited} \cap Numbers = {} /\ MaxLimitSaves \in Nat

VARIABLES
  limits,      \* tenants.resource_limits
  input,       \* what each panel's inputs hold
  limitSave,   \* the PATCH requests
  limitSaves,  \* how many there were
  due,         \* a marker of the tenant is in the outbox
  pass,        \* the drains: where they are and the column as they read it
  quota,       \* the overrides that the instance has
  outread,     \* drains that read before another one that is done (history)
  behind       \* fields that changed and have no marker since, or one that pushed nothing (history)

limitVars == <<limits, input, limitSave, limitSaves, due, pass, quota, outread, behind>>

Limits == [Fields -> Numbers \cup {Unlimited, Inherited}]
NoLimits == [f \in Fields |-> Inherited]

LimitSave == [step : {"none", "write", "log", "queue"}, limits : Limits]
Pass == [step : {"idle", "read", "push"}, copy : Limits]

LimitsTypeOK ==
  /\ {limits, quota} \subseteq Limits /\ input \in [Panels -> [Fields -> Numbers \cup {Inherited}]]
  /\ limitSave \in [1..MaxLimitSaves -> LimitSave]
  /\ limitSaves \in 0..MaxLimitSaves /\ due \in BOOLEAN
  /\ pass \in [Passes -> Pass]
  /\ outread \in SUBSET Passes /\ behind \in SUBSET Fields

LimitsInit ==
  /\ limits = NoLimits /\ quota = NoLimits
  /\ input = [p \in Panels |-> NoLimits]
  /\ limitSave = [n \in 1..MaxLimitSaves |-> [step |-> "none", limits |-> NoLimits]]
  /\ limitSaves = 0 /\ due = FALSE
  /\ pass = [d \in Passes |-> [step |-> "idle", copy |-> NoLimits]]
  /\ outread = {} /\ behind = {}

-------------------------------------------------------------------------------
(* The panel.  It takes over the column only when it is mounted, and shows a  *)
(* field that is unlimited like one that is not set.                          *)

OpenPanel(p) ==
  /\ input' = [input EXCEPT ![p] =
                 [f \in Fields |-> IF limits[f] = Unlimited THEN Inherited ELSE limits[f]]]
  /\ input' # input
  /\ UNCHANGED <<limits, limitSave, limitSaves, due, pass, quota, outread, behind>>

TypeLimit(p, f, v) ==
  /\ v # input[p][f] /\ input' = [input EXCEPT ![p][f] = v]
  /\ UNCHANGED <<limits, limitSave, limitSaves, due, pass, quota, outread, behind>>

Request(new) ==
  /\ limitSaves < MaxLimitSaves /\ limitSaves' = limitSaves + 1
  /\ limitSave' = [limitSave EXCEPT ![limitSaves + 1] = [step |-> "write", limits |-> new]]
  /\ UNCHANGED <<limits, input, due, pass, quota, outread, behind>>

\* The button is only disabled while the page is refreshed, not during the call.
SaveLimits(p) == Request(input[p])

\* A caller of the route other than the panel can also send null.
SendLimits(f) == Request([limits EXCEPT ![f] = Unlimited])

-------------------------------------------------------------------------------
(* update-resource-limits: the column is replaced, the change is logged, and  *)
(* the next drain is asked for.                                               *)

Reaches(n, from, to) ==
  limitSave[n].step = from /\ limitSave' = [limitSave EXCEPT ![n].step = to]

WriteLimits(n) ==
  /\ Reaches(n, "write", "log") /\ limits' = limitSave[n].limits
  /\ behind' = behind \cup {f \in Fields : limits'[f] # limits[f]}
  /\ UNCHANGED <<input, limitSaves, due, pass, quota, outread>>

LogLimits(n) ==
  /\ Reaches(n, "log", "queue")
  /\ UNCHANGED <<limits, input, limitSaves, due, pass, quota, outread, behind>>

QueueLimits(n) ==
  /\ Reaches(n, "queue", "none") /\ due' = TRUE /\ behind' = {}
  /\ UNCHANGED <<limits, input, limitSaves, pass, quota, outread>>

\* A call fails.  enqueueRoleSync swallows its error, so the panel is told
\* that the push is queued; the column stays written either way.
LimitSaveFails(n) ==
  /\ \E step \in {"write", "log", "queue"} : Reaches(n, step, "none")
  /\ UNCHANGED <<limits, input, limitSaves, due, pass, quota, outread, behind>>

-------------------------------------------------------------------------------
(* convergeResourceLimits, of a drain that has claimed the tenant's markers.  *)

ClaimMarkers(d) ==
  /\ pass[d].step = "idle" /\ due /\ due' = FALSE
  /\ pass' = [pass EXCEPT ![d].step = "read"]
  /\ UNCHANGED <<limits, input, limitSave, limitSaves, quota, outread, behind>>

ReadLimits(d) ==
  /\ pass[d].step = "read"
  /\ pass' = [pass EXCEPT ![d] = [step |-> "push", copy |-> limits]]
  /\ UNCHANGED <<limits, input, limitSave, limitSaves, due, quota, outread, behind>>

PushAs(d, new) ==
  /\ pass[d].step = "push"
  /\ quota' = new
  /\ pass' = [pass EXCEPT ![d] = [step |-> "idle", copy |-> NoLimits]]
  /\ outread' = {e \in Passes \ {d} : pass[e].step = "push"}
  /\ LET old == {f \in Fields : pass[d].copy[f] # limits[f]} IN
     behind' = IF d \in outread THEN behind \cup old ELSE behind \cap old
  /\ UNCHANGED <<limits, input, limitSave, limitSaves, due>>

\* Mutant of PushLimits: null is dropped like a field that is left out.
PushNumbers(d) ==
  PushAs(d, [f \in Fields |->
               IF pass[d].copy[f] \in {Inherited, Unlimited} THEN quota[f] ELSE pass[d].copy[f]])

\* JSON.stringify drops the fields that are left out, so the instance keeps them.
PushLimits(d) ==
  PushAs(d, [f \in Fields |-> IF pass[d].copy[f] = Inherited THEN quota[f] ELSE pass[d].copy[f]])

\* The tenant's stack is not there, or Riogentix is not configured: nothing is
\* pushed, and the drain counts as done.
SkipLimits(d) ==
  /\ pass[d].step = "push"
  /\ pass' = [pass EXCEPT ![d] = [step |-> "idle", copy |-> NoLimits]]
  /\ outread' = {e \in Passes \ {d} : pass[e].step = "push"}
  /\ behind' = behind \cup {f \in Fields : pass[d].copy[f] # quota[f]}
  /\ UNCHANGED <<limits, input, limitSave, limitSaves, due, quota>>

\* The drain fails and is retried, or a later one takes up its markers.
PushFails(d) ==
  /\ pass[d].step # "idle" /\ due' = TRUE
  /\ pass' = [pass EXCEPT ![d] = [step |-> "idle", copy |-> NoLimits]]
  /\ outread' = outread \ {d}
  /\ UNCHANGED <<limits, input, limitSave, limitSaves, quota, behind>>

LimitsNext ==
  \/ \E p \in Panels : OpenPanel(p) \/ SaveLimits(p)
       \/ \E f \in Fields, v \in Numbers \cup {Inherited} : TypeLimit(p, f, v)
  \/ \E f \in Fields : SendLimits(f)
  \/ \E n \in 1..MaxLimitSaves : WriteLimits(n) \/ LogLimits(n) \/ QueueLimits(n) \/ LimitSaveFails(n)
  \/ \E d \in Passes : ClaimMarkers(d) \/ ReadLimits(d) \/ PushLimits(d) \/ SkipLimits(d) \/ PushFails(d)

LimitsSpec == LimitsInit /\ [][LimitsNext]_limitVars

-------------------------------------------------------------------------------
(* Properties *)

\* A push of the limits is asked for or under way.
PushComes ==
  \/ due
  \/ \E n \in 1..MaxLimitSaves : limitSave[n].step \in {"log", "queue"}
  \/ \E d \in Passes : pass[d].step # "idle"

\* A limit that is set, unlimited included, is that of the instance or is on
\* its way: a drain that read it too early does not settle the change.  The
\* exceptions are a save that failed after its write, a drain whose push came
\* after one that had read later was done, and one that found no instance to
\* push to (convergeResourceLimits).
LimitsArePushed ==
  PushComes \/ \A f \in Fields \ behind : limits[f] \in {Inherited, quota[f]}
===============================================================================
