------------------------------- MODULE PlanSync -------------------------------
(***************************************************************************)
(* The plan of one tenant.  It is held three times: tenants.plan, the      *)
(* subscription row, and the tenant's Riogentix instance.  Stripe events   *)
(* write the row, the admin console's update-plan writes tenants.plan and  *)
(* then the row, and both enqueue a plan-changed job that pushes the plan  *)
(* to the instance and lifts the usage lock.  Provisioning pushes          *)
(* tenants.plan, and the usage rollup locks an instance over its limit.    *)
(*                                                                         *)
(* A plan is held as the change that wrote it; Carries[c] is its code.     *)
(* The webhook-inbound queue that runs the Stripe handler is in            *)
(* StripeEvents: here a failed event is retried until it is abandoned.     *)
(***************************************************************************)
EXTENDS Integers, FiniteSets

CONSTANTS
  Updates,     \* customer.subscription.created and .updated events
  Deletions,   \* customer.subscription.deleted events
  Overrides,   \* update-plan requests of the admin console
  Start,       \* the plan of the signup form, in tenants.plan only
  None,        \* no subscription row, no instance, no job
  Plans, Free, \* the plan codes, and the free plan's
  Carries,     \* the plan code of a change
  Limit,       \* the monthly limit of a plan code, more than MaxUsage if unlimited
  Jobs,        \* plan-changed jobs; at most five, which may all run at once
  MaxChanges,  \* bound on the changes that are handled
  MaxUsage,    \* bound on the usage events of the month
  MaxRollups,  \* bound on rollup runs
  MaxFaults    \* bound on failed calls, time-outs and crashes

Events  == Updates \cup Deletions
Changes == Events \cup Overrides
Writes  == Updates \cup Overrides   \* the changes that name a plan

ASSUME PlanAssumption ==
  /\ Updates \cap Deletions = {} /\ Events \cap Overrides = {}
  /\ {Start, None} \cap Changes = {} /\ Start # None
  /\ Free \in Plans /\ Carries \in [Changes \cup {Start} -> Plans]
  /\ Limit \in [Plans -> Nat] /\ \A p \in Plans : Limit[Free] <= Limit[p]
  /\ MaxChanges \in Nat /\ MaxUsage \in Nat
  /\ MaxRollups \in Nat /\ MaxFaults \in Nat

VARIABLES
  tenantPlan, \* tenants.plan
  row,        \* the plan of the subscription row, None without a row
  last,       \* the change that wrote the row last (history)
  rev,        \* how often the row was written (history)
  pc,         \* progress of the handler of each change
  wrote,      \* the write of the row each handler has to push (history)
  lifts,      \* handlers whose job will lift the usage lock
  queue,      \* the plan-changed jobs
  calls,      \* calls that timed out at the worker and may still arrive
  instance,   \* the Riogentix instance: its plan, its lock, the write it has
  setup,      \* the plan a provision run read, None between runs
  usage,      \* usage events of the month
  rollup,     \* the rollup run: its step, the total it read, its verdict
  rollups,    \* rollup runs so far
  mishaps,    \* what went wrong so far (history)
  faults

writers == <<tenantPlan, row, last, rev, pc, wrote, lifts>>
pushes  == <<queue, calls>>
meter   == <<usage, rollup, rollups>>
vars    == <<writers, pushes, instance, setup, meter, mishaps, faults>>

Verdicts == {"lock", "unlock"}
IdleRollup == [step |-> "idle", total |-> 0, verdict |-> "unlock"]
Entry(state, change, lift, write) ==
  [state |-> state, change |-> change, lift |-> lift, write |-> write]
FreeJob == Entry("free", None, "keep", 0)
JobRecord ==
  [state : {"free", "waiting", "lock", "failed"}, change : Changes \cup {None},
   lift : {"lift", "keep"}, write : Nat]
PlanCall(c, w) == [put |-> "plan", change |-> c, write |-> w]
LockCall(v)    == [put |-> v, change |-> None, write |-> 0]
Call == [put : {"plan"} \cup Verdicts, change : Changes \cup {None}, write : Nat]
Mishaps == {"overtaken", "reset", "abandoned", "stale", "unlifted"}

WritersOK ==
  /\ tenantPlan \in Overrides \cup {Start}
  /\ row \in Writes \cup {None} /\ last \in Changes \cup {None} /\ rev \in Nat
  /\ pc \in [Changes -> {"new", "tenant", "row", "enqueue", "record", "retry", "done", "died"}]
  /\ wrote \in [Changes -> Nat] /\ lifts \in SUBSET Changes

PushesOK == queue \in [Jobs -> JobRecord] /\ calls \in SUBSET Call

InstanceOK ==
  /\ instance \in [plan : Changes \cup {Start, None}, lock : Verdicts, write : Nat]
  /\ setup \in Overrides \cup {Start, None}
  /\ mishaps \in SUBSET Mishaps /\ faults \in 0..MaxFaults

MeterOK ==
  /\ usage \in 0..MaxUsage /\ rollups \in 0..MaxRollups
  /\ rollup \in [step : {"idle", "read", "put", "retry"}, total : 0..MaxUsage, verdict : Verdicts]

TypeOK == WritersOK /\ PushesOK /\ InstanceOK /\ MeterOK

Init ==
  /\ tenantPlan = Start /\ row = None /\ last = None /\ rev = 0
  /\ pc = [c \in Changes |-> "new"] /\ wrote = [c \in Changes |-> 0] /\ lifts = {}
  /\ queue = [j \in Jobs |-> FreeJob] /\ calls = {}
  /\ instance = [plan |-> None, lock |-> "unlock", write |-> 0]
  /\ setup = None
  /\ usage = 0 /\ rollups = 0
  /\ rollup = IdleRollup
  /\ mishaps = {} /\ faults = 0

-------------------------------------------------------------------------------
(* The handlers of the changes *)

Goto(c, label) == pc' = [pc EXCEPT ![c] = label]
PlanOfRow == IF row = None THEN Free ELSE Carries[row]

\* A change is asked for, or its event is run again.
Begin(c) ==
  \/ pc[c] = "new" /\ Cardinality({d \in Changes : pc[d] # "new"}) < MaxChanges
  \/ pc[c] = "retry"

\* The write of the row, by the handler of change c.
WriteRow(c) ==
  /\ last' = c
  /\ rev' = rev + 1
  /\ wrote' = [wrote EXCEPT ![c] = rev + 1]

\* Mutant of ReadRow: the plan codes are compared, as the job intends.  A retry
\* then finds its own write, and no job lifts the lock.
ReadRowByCode(e) ==
  /\ e \in Events /\ Begin(e)
  /\ lifts' = IF Carries[e] # PlanOfRow THEN lifts \cup {e} ELSE lifts \ {e}
  /\ Goto(e, "row")
  /\ UNCHANGED <<tenantPlan, row, last, rev, wrote, pushes, instance, setup, meter,
                 mishaps, faults>>

\* The Stripe handler reads the row for its audit entry and its job.  A row's
\* planId is compared with a plan code by the job: they always differ.
ReadRow(e) ==
  /\ e \in Events /\ Begin(e)
  /\ lifts' = IF row # None \/ e \in Deletions \/ Carries[e] # Free
                THEN lifts \cup {e} ELSE lifts \ {e}
  /\ Goto(e, "row")
  /\ UNCHANGED <<tenantPlan, row, last, rev, wrote, pushes, instance, setup, meter,
                 mishaps, faults>>

\* subscription.created and .updated: the upsert sets the plan.
UpsertRow(e) ==
  /\ e \in Updates /\ pc[e] = "row"
  /\ row' = e
  /\ WriteRow(e)
  /\ Goto(e, "enqueue")
  /\ UNCHANGED <<tenantPlan, lifts, pushes, instance, setup, meter, mishaps, faults>>

\* subscription.deleted: the row is marked CANCELED and keeps its plan; the
\* update of a row that is missing throws, and the event's job runs again.
CancelRow(e) ==
  /\ e \in Deletions /\ pc[e] = "row"
  /\ \/ row # None /\ WriteRow(e) /\ Goto(e, "enqueue")
     \/ row = None /\ Goto(e, "retry") /\ UNCHANGED <<last, rev, wrote>>
  /\ UNCHANGED <<tenantPlan, row, lifts, pushes, instance, setup, meter, mishaps, faults>>

\* update-plan reads the tenant: its plan is the job's old plan.
ReadTenant(a) ==
  /\ a \in Overrides /\ Begin(a)
  /\ lifts' = IF Carries[a] # Carries[tenantPlan] THEN lifts \cup {a} ELSE lifts
  /\ Goto(a, "tenant")
  /\ UNCHANGED <<tenantPlan, row, last, rev, wrote, pushes, instance, setup, meter,
                 mishaps, faults>>

WriteTenant(a) ==
  /\ a \in Overrides /\ pc[a] = "tenant"
  /\ tenantPlan' = a
  /\ Goto(a, "row")
  /\ UNCHANGED <<row, last, rev, wrote, lifts, pushes, instance, setup, meter,
                 mishaps, faults>>

OverrideRow(a) ==
  /\ a \in Overrides /\ pc[a] = "row"
  /\ row' = a
  /\ WriteRow(a)
  /\ mishaps' = IF a \notin lifts /\ PlanOfRow # Carries[a]
                  THEN mishaps \cup {"unlifted"} ELSE mishaps
  /\ Goto(a, "enqueue")
  /\ UNCHANGED <<tenantPlan, lifts, pushes, instance, setup, meter, faults>>

\* The audit row and the plan-changed job, the last steps of either handler.
Enqueue(c, j) ==
  /\ pc[c] = "enqueue"
  /\ queue[j].state = "free"
  /\ queue' = [queue EXCEPT ![j] =
       Entry("waiting", c, IF c \in lifts THEN "lift" ELSE "keep", wrote[c])]
  /\ Goto(c, IF c \in Events THEN "record" ELSE "done")
  /\ wrote' = [wrote EXCEPT ![c] = 0]
  /\ lifts' = lifts \ {c}
  /\ UNCHANGED <<tenantPlan, row, last, rev, calls, instance, setup, meter,
                 mishaps, faults>>

\* The idempotency key of a handled event.
RecordKey(e) ==
  /\ e \in Events /\ pc[e] = "record"
  /\ Goto(e, "done")
  /\ UNCHANGED <<tenantPlan, row, last, rev, wrote, lifts, pushes, instance, setup, meter,
                 mishaps, faults>>

\* Mutant of EventFails: the error is logged and the event counts as handled.
EventFailsQuietly(e) ==
  /\ e \in Events /\ pc[e] \in {"row", "enqueue", "record"}
  /\ faults < MaxFaults /\ faults' = faults + 1
  /\ Goto(e, "done")
  /\ UNCHANGED <<tenantPlan, row, last, rev, wrote, lifts, pushes, instance, setup, meter,
                 mishaps>>

\* A write fails or the worker dies: the event's job runs again from the start.
EventFails(e) ==
  /\ e \in Events /\ pc[e] \in {"row", "enqueue", "record"}
  /\ faults < MaxFaults /\ faults' = faults + 1
  /\ Goto(e, "retry")
  /\ UNCHANGED <<tenantPlan, row, last, rev, wrote, lifts, pushes, instance, setup, meter,
                 mishaps>>

\* The event's job is out of attempts; the route has answered Stripe long ago.
Abandon(e) ==
  /\ e \in Events /\ pc[e] = "retry"
  /\ Goto(e, "died")
  /\ mishaps' = mishaps \cup {"abandoned"}
  /\ UNCHANGED <<tenantPlan, row, last, rev, wrote, lifts, pushes, instance, setup, meter,
                 faults>>

\* A write of the request fails or the web server dies: nothing resumes it.
RequestDies(a) ==
  /\ a \in Overrides /\ pc[a] \in {"tenant", "row", "enqueue"}
  /\ faults < MaxFaults /\ faults' = faults + 1
  /\ Goto(a, "died")
  /\ mishaps' = IF pc[a] = "tenant" THEN mishaps ELSE mishaps \cup {"abandoned"}
  /\ UNCHANGED <<tenantPlan, row, last, rev, wrote, lifts, pushes, instance, setup, meter>>

-------------------------------------------------------------------------------
(* The calls on the instance *)

\* The instance takes a plan; an older write than the one it has overtakes it.
PutPlan(c, w) ==
  /\ instance' = [instance EXCEPT !.plan = c, !.write = w]
  /\ mishaps' = IF w < instance.write THEN mishaps \cup {"overtaken"} ELSE mishaps

\* The instance takes a verdict on the usage lock; a lock is stale when the
\* usage is within the limit of the plan the row has by now.
PutLock(v) ==
  /\ instance' = [instance EXCEPT !.lock = v]
  /\ mishaps' = IF v = "lock" /\ usage < Limit[PlanOfRow]
                  THEN mishaps \cup {"stale"} ELSE mishaps

\* A call whose caller gave up after 15 s reaches the instance after all.
ArriveLate ==
  /\ \E call \in calls :
       /\ calls' = calls \ {call}
       /\ IF call.put = "plan" THEN PutPlan(call.change, call.write) ELSE PutLock(call.put)
  /\ UNCHANGED <<writers, queue, setup, meter, faults>>

\* It does not.
Vanish ==
  /\ \E call \in calls : calls' = calls \ {call}
  /\ UNCHANGED <<writers, queue, instance, setup, meter, mishaps, faults>>

-------------------------------------------------------------------------------
(* The plan-changed jobs *)

SetState(j, state) == queue' = [queue EXCEPT ![j].state = state]

\* syncPlan pushes the plan; without a provisioned instance it is skipped.
SyncPlan(j) ==
  /\ queue[j].state = "waiting"
  /\ queue' = [queue EXCEPT ![j] = IF queue[j].lift = "lift"
                                      THEN [queue[j] EXCEPT !.state = "lock"] ELSE FreeJob]
  /\ IF instance.plan = None THEN UNCHANGED <<instance, mishaps>>
     ELSE PutPlan(queue[j].change, queue[j].write)
  /\ UNCHANGED <<writers, calls, setup, meter, faults>>

LiftLock(j) ==
  /\ queue[j].state = "lock"
  /\ queue' = [queue EXCEPT ![j] = FreeJob]
  /\ IF instance.plan = None THEN UNCHANGED <<instance, mishaps>> ELSE PutLock("unlock")
  /\ UNCHANGED <<writers, calls, setup, meter, faults>>

\* A call fails or times out, or the worker dies: the job is retried, or
\* failed when this was the last of its five attempts (which one it is, is left
\* open).  The call of a time-out stays under way.
AttemptFails(j) ==
  /\ queue[j].state \in {"waiting", "lock"}
  /\ faults < MaxFaults /\ faults' = faults + 1
  /\ \E late \in SUBSET {IF queue[j].state = "waiting"
                           THEN PlanCall(queue[j].change, queue[j].write)
                           ELSE LockCall("unlock")} :
       calls' = IF instance.plan = None THEN calls ELSE calls \cup late
  /\ \/ SetState(j, "waiting") /\ UNCHANGED mishaps
     \/ SetState(j, "failed") /\ mishaps' = mishaps \cup {"abandoned"}
  /\ UNCHANGED <<writers, instance, setup, meter>>

\* The jobs console runs a failed job again, or removes it.
RetryJob(j) ==
  /\ queue[j].state = "failed"
  /\ SetState(j, "waiting")
  /\ UNCHANGED <<writers, calls, instance, setup, meter, mishaps, faults>>

DiscardJob(j) ==
  /\ queue[j].state = "failed"
  /\ queue' = [queue EXCEPT ![j] = FreeJob]
  /\ UNCHANGED <<writers, calls, instance, setup, meter, mishaps, faults>>

-------------------------------------------------------------------------------
(* Provisioning *)

\* A provision run reads the tenant's plan ...
ReadSetup ==
  /\ setup = None
  /\ setup' = tenantPlan
  /\ UNCHANGED <<writers, pushes, instance, meter, mishaps, faults>>

\* ... and upserts the tenant in its instance with that plan.
Provision ==
  /\ setup # None
  /\ setup' = None
  /\ IF setup = last
       THEN /\ instance' = [instance EXCEPT !.plan = setup, !.write = rev]
            /\ UNCHANGED mishaps
       ELSE /\ instance' = [instance EXCEPT !.plan = setup]
            /\ mishaps' = IF last = None THEN mishaps ELSE mishaps \cup {"reset"}
  /\ UNCHANGED <<writers, pushes, meter, faults>>

-------------------------------------------------------------------------------
(* Usage and its rollup *)

Use ==
  /\ usage < MaxUsage /\ usage' = usage + 1
  /\ UNCHANGED <<writers, pushes, instance, setup, rollup, rollups, mishaps, faults>>

\* The sum of the month's events, and the audit row that holds it.
Count ==
  /\ \/ rollup.step = "idle" /\ rollups < MaxRollups /\ rollups' = rollups + 1
     \/ rollup.step = "retry" /\ UNCHANGED rollups
  /\ rollup' = [rollup EXCEPT !.step = "read", !.total = usage]
  /\ UNCHANGED <<writers, pushes, instance, setup, usage, mishaps, faults>>

\* The limit of the row's plan; its status is not looked at.
Judge ==
  /\ rollup.step = "read"
  /\ rollup' = [rollup EXCEPT !.step = "put",
                  !.total = 0, !.verdict = IF rollup.total >= Limit[PlanOfRow] THEN "lock" ELSE "unlock"]
  /\ UNCHANGED <<writers, pushes, instance, setup, usage, rollups, mishaps, faults>>

SetLock ==
  /\ rollup.step = "put"
  /\ rollup' = IdleRollup
  /\ IF instance.plan = None THEN UNCHANGED <<instance, mishaps>> ELSE PutLock(rollup.verdict)
  /\ UNCHANGED <<writers, pushes, setup, usage, rollups, faults>>

\* The run fails and is retried from its start; its call may arrive late.
RollupFails ==
  /\ rollup.step \in {"read", "put"}
  /\ faults < MaxFaults /\ faults' = faults + 1
  /\ \E late \in SUBSET {LockCall(rollup.verdict)} :
       calls' = IF rollup.step # "put" \/ instance.plan = None THEN calls ELSE calls \cup late
  /\ rollup' = [IdleRollup EXCEPT !.step = "retry"]
  /\ UNCHANGED <<writers, queue, instance, setup, usage, rollups, mishaps>>

-------------------------------------------------------------------------------
HandleChange(c) ==
  \/ ReadRow(c) \/ UpsertRow(c) \/ CancelRow(c) \/ RecordKey(c) \/ EventFails(c) \/ Abandon(c)
  \/ ReadTenant(c) \/ WriteTenant(c) \/ OverrideRow(c) \/ RequestDies(c)
  \/ \E j \in Jobs : Enqueue(c, j)

HandlePlanChanged(j) ==
  SyncPlan(j) \/ LiftLock(j) \/ AttemptFails(j) \/ RetryJob(j) \/ DiscardJob(j)

HandleUsageRollup == Count \/ Judge \/ SetLock \/ RollupFails

Next ==
  \/ \E c \in Changes : HandleChange(c)
  \/ \E j \in Jobs : HandlePlanChanged(j)
  \/ ArriveLate \/ Vanish \/ ReadSetup \/ Provision \/ Use
  \/ HandleUsageRollup

Spec == Init /\ [][Next]_vars

-------------------------------------------------------------------------------
(* Properties *)

\* Nothing is under way: every handler, job, call and run has ended.
Quiescent ==
  /\ \A c \in Changes : pc[c] \in {"new", "done", "died"}
  /\ \A j \in Jobs : queue[j].state \in {"free", "failed"}
  /\ calls = {} /\ setup = None /\ rollup.step = "idle"

\* Once nothing is under way, the instance has the plan of the last write of the
\* subscription row, unless a push was overtaken by an older one, a provision
\* run reset the plan to tenants.plan, a job ran out of attempts, or a handler
\* was abandoned half done (webhooks.ts, update-plan, plan-changed.ts).
PlanAgrees ==
  /\ Quiescent /\ last # None /\ instance.plan # None
  /\ mishaps \cap {"overtaken", "reset", "abandoned"} = {}
  => instance.plan = last

\* Once nothing is under way, an instance is locked only while the usage is over
\* the limit of the row's plan: an upgrade lifts the lock.  It does not when the
\* console sets the plan tenants.plan has already, when a rollup's verdict
\* arrives after the upgrade, or when a job or a handler was given up.
LockedIsOver ==
  /\ Quiescent /\ instance.lock = "lock"
  /\ mishaps \cap {"stale", "unlifted", "abandoned"} = {}
  => usage >= Limit[PlanOfRow]
===============================================================================
