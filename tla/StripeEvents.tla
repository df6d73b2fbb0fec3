----------------------------- MODULE StripeEvents -----------------------------
(***************************************************************************)
(* Stripe's webhook events of one tenant: the billing route enqueues every *)
(* delivery, workers process the deliveries concurrently and record an     *)
(* idempotency key after an event was handled, and plan-changed jobs push  *)
(* the new plan to the tenant's Riogentix instance.                        *)
(*                                                                         *)
(* Stripe delivers an event at least once and in any order.  An event      *)
(* stands for what it carries: the subscription is the update it was last  *)
(* written from, and the instance's plan is the event whose job set it.    *)
(* Every change names a tenant, as the checkout session's metadata does;   *)
(* the plan it names may be gone, and then the event has no effect.        *)
(***************************************************************************)
EXTENDS Integers

CONSTANTS
  Updates,     \* customer.subscription.created and .updated events
  Deletions,   \* customer.subscription.deleted events
  Invoices,    \* invoice.payment_succeeded and .payment_failed events
  None,        \* no event, no job
  Workers,     \* slots of the webhook-inbound workers, five per process
  Jobs,        \* places in the webhook-inbound queue (bound)
  MaxAttempts, \* attempts of a job, 5 in queues.ts
  MaxSent,     \* bound on deliveries
  MaxFaults    \* bound on failed calls and crashes

Changes == Updates \cup Deletions
Events  == Changes \cup Invoices

ASSUME StripeAssumption ==
  /\ None \notin Events \cup Jobs
  /\ Invoices \cap Changes = {} /\ Updates \cap Deletions = {}
  /\ MaxAttempts \in Nat \ {0}
  /\ MaxSent \in Nat /\ MaxFaults \in Nat

VARIABLES
  sent,         \* events delivered at least once
  deliveries,   \* deliveries so far, repeated ones included
  queue,        \* the webhook-inbound jobs
  keys,         \* events with an idempotency key
  subscription, \* the update the subscription row holds, None without a row
  status,       \* its status: what the update says, or canceled
  audits,       \* audit rows of each event
  planless,     \* updates that found no plan (history)
  planJobs,     \* plan-changed jobs of each event not run yet
  planned,      \* events whose plan-changed job was enqueued (history)
  plan,         \* the event whose plan the Riogentix instance has
  pc,           \* progress of each worker in processStripeEvent
  job,          \* the job it runs
  faults

stripe  == <<sent, deliveries>>
billing == <<subscription, status, audits, planless>>
plans   == <<planJobs, planned, plan>>
vars    == <<stripe, queue, keys, billing, plans, pc, job, faults>>

JobRecord == [state : {"free", "waiting", "active", "delayed"},
              event : Events \cup {None}, attempts : 0..MaxAttempts - 1, stalls : 0..1]
Entry(state, event, attempts, stalls) ==
  [state |-> state, event |-> event, attempts |-> attempts, stalls |-> stalls]
Free == Entry("free", None, 0, 0)
Labels == {"idle", "check", "write", "audit", "enqueue", "record"}

TypeOK ==
  /\ sent \in SUBSET Events
  /\ deliveries \in 0..MaxSent
  /\ queue \in [Jobs -> JobRecord]
  /\ keys \in SUBSET Events
  /\ subscription \in Updates \cup {None}
  /\ status \in {"updated", "canceled"}
  /\ audits \in [Events -> Nat]
  /\ planless \in SUBSET Updates
  /\ planJobs \in [Changes -> Nat]
  /\ planned \in SUBSET Changes
  /\ plan \in Changes \cup {None}
  /\ pc \in [Workers -> Labels]
  /\ job \in [Workers -> Jobs \cup {None}]
  /\ faults \in 0..MaxFaults

Init ==
  /\ sent = {}
  /\ deliveries = 0
  /\ queue = [j \in Jobs |-> Free]
  /\ keys = {}
  /\ subscription = None
  /\ status = "updated"
  /\ audits = [e \in Events |-> 0]
  /\ planless = {}
  /\ planJobs = [e \in Changes |-> 0]
  /\ planned = {}
  /\ plan = None
  /\ pc = [w \in Workers |-> "idle"]
  /\ job = [w \in Workers |-> None]
  /\ faults = 0

Fault == faults < MaxFaults /\ faults' = faults + 1

-----------------------------------------------------------------------------
(* POST /api/billing/webhook: each delivery becomes a job of its own. *)
Deliver(e) ==
  /\ deliveries < MaxSent
  /\ deliveries' = deliveries + 1
  /\ sent' = sent \cup {e}
  /\ \E j \in Jobs :
       /\ queue[j].state = "free"
       /\ queue' = [queue EXCEPT ![j] = Entry("waiting", e, 0, 0)]
  /\ UNCHANGED <<keys, billing, plans, pc, job, faults>>

(* The webhook-inbound queue, as BullMQ runs it (external). *)

(* The attempt failed: back off, or give up after the last. *)
RetryOf(j) ==
  IF queue[j].attempts + 1 < MaxAttempts
    THEN [queue EXCEPT ![j] = Entry("delayed", @.event, @.attempts + 1, @.stalls)]
    ELSE [queue EXCEPT ![j] = Free]

(* The backoff of a failed attempt is over. *)
Promote(j) ==
  /\ queue[j].state = "delayed"
  /\ queue' = [queue EXCEPT ![j] = Entry("waiting", @.event, @.attempts, @.stalls)]
  /\ UNCHANGED <<stripe, keys, billing, plans, pc, job, faults>>

(* The job of a dead worker is replayed once, and failed if it stalls again. *)
Stalled(j) ==
  /\ queue[j].state = "active"
  /\ \A w \in Workers : job[w] # j
  /\ queue' = IF queue[j].stalls = 0
                THEN [queue EXCEPT ![j] = Entry("waiting", @.event, @.attempts, 1)]
                ELSE [queue EXCEPT ![j] = Free]
  /\ UNCHANGED <<stripe, keys, billing, plans, pc, job, faults>>

Take(w, j) ==
  /\ pc[w] = "idle"
  /\ queue[j].state = "waiting"
  /\ queue' = [queue EXCEPT ![j] = Entry("active", @.event, @.attempts, @.stalls)]
  /\ job' = [job EXCEPT ![w] = j]
  /\ pc' = [pc EXCEPT ![w] = "check"]
  /\ UNCHANGED <<stripe, keys, billing, plans, faults>>

-----------------------------------------------------------------------------
(* processStripeEvent and handleStripeEvent. *)

EventOf(w) == queue[job[w]].event
Goto(w, label) == pc' = [pc EXCEPT ![w] = label]
Stop(w) == Goto(w, "idle") /\ job' = [job EXCEPT ![w] = None]
Complete(w) == queue' = [queue EXCEPT ![job[w]] = Free] /\ Stop(w)
Fail(w) == queue' = RetryOf(job[w]) /\ Stop(w)

(* A mutant of CheckKey: no event is skipped. *)
IgnoreKey(w) ==
  /\ pc[w] = "check"
  /\ Goto(w, "write")
  /\ UNCHANGED <<stripe, queue, keys, billing, plans, job, faults>>

(* An event with a key is skipped. *)
CheckKey(w) ==
  /\ pc[w] = "check"
  /\ \/ EventOf(w) \in keys /\ Complete(w)
     \/ EventOf(w) \notin keys /\ Goto(w, "write") /\ UNCHANGED <<queue, job>>
  /\ UNCHANGED <<stripe, keys, billing, plans, faults>>

(* created and updated overwrite the row, whichever event it holds. *)
Upsert(w) ==
  /\ pc[w] = "write"
  /\ EventOf(w) \in Updates
  /\ subscription' = EventOf(w)
  /\ status' = "updated"
  /\ Goto(w, "audit")
  /\ UNCHANGED <<stripe, queue, keys, audits, planless, plans, job, faults>>

(* The plan is not in the table: the event is done with, and gets its key.   *)
FindNoPlan(w) ==
  /\ pc[w] = "write"
  /\ EventOf(w) \in Updates
  /\ planless' = planless \cup {EventOf(w)}
  /\ Goto(w, "record")
  /\ UNCHANGED <<stripe, queue, keys, subscription, status, audits, plans, job, faults>>

(* deleted updates the row, and throws if there is none. *)
Cancel(w) ==
  /\ pc[w] = "write"
  /\ EventOf(w) \in Deletions
  /\ \/ /\ subscription # None
        /\ status' = "canceled"
        /\ Goto(w, "audit")
        /\ UNCHANGED <<queue, job>>
     \/ /\ subscription = None
        /\ Fail(w)
        /\ UNCHANGED status
  /\ UNCHANGED <<stripe, keys, subscription, audits, planless, plans, faults>>

(* An invoice of a customer without a subscription row is nobody's. *)
MatchInvoice(w) ==
  /\ pc[w] = "write"
  /\ EventOf(w) \in Invoices
  /\ Goto(w, IF subscription # None THEN "audit" ELSE "record")
  /\ UNCHANGED <<stripe, queue, keys, billing, plans, job, faults>>

Audit(w) ==
  /\ pc[w] = "audit"
  /\ audits' = [audits EXCEPT ![EventOf(w)] = @ + 1]
  /\ Goto(w, IF EventOf(w) \in Invoices THEN "record" ELSE "enqueue")
  /\ UNCHANGED <<stripe, queue, keys, subscription, status, planless, plans, job, faults>>

EnqueuePlanChanged(w) ==
  /\ pc[w] = "enqueue"
  /\ planJobs' = [planJobs EXCEPT ![EventOf(w)] = @ + 1]
  /\ planned' = planned \cup {EventOf(w)}
  /\ Goto(w, "record")
  /\ UNCHANGED <<stripe, queue, keys, billing, plan, job, faults>>

(* A mutant of RecordKey: the key is recorded by any later step as well. *)
RecordEarly(w) ==
  /\ pc[w] \in {"audit", "enqueue", "record"}
  /\ keys' = keys \cup {EventOf(w)}
  /\ Complete(w)
  /\ UNCHANGED <<stripe, billing, plans, faults>>

(* The key is created.  It has to be new, and it needs the tenant: an        *)
(* invoice carries none, so its key is refused and the job fails.            *)
RecordKey(w) ==
  /\ pc[w] = "record"
  /\ \/ /\ EventOf(w) \in Changes \ keys
        /\ keys' = keys \cup {EventOf(w)}
        /\ Complete(w)
     \/ /\ EventOf(w) \in Invoices \cup keys
        /\ Fail(w)
        /\ UNCHANGED keys
  /\ UNCHANGED <<stripe, billing, plans, faults>>

(* A mutant of CallFails: the error is swallowed. *)
CallSwallowed(w) ==
  /\ pc[w] # "idle"
  /\ Fault
  /\ Complete(w)
  /\ UNCHANGED <<stripe, keys, billing, plans>>

(* A database or queue call throws. *)
CallFails(w) ==
  /\ pc[w] # "idle"
  /\ Fault
  /\ Fail(w)
  /\ UNCHANGED <<stripe, keys, billing, plans>>

(* The worker process dies. *)
Crash(w) ==
  /\ pc[w] # "idle"
  /\ Fault
  /\ Stop(w)
  /\ UNCHANGED <<stripe, queue, keys, billing, plans>>

(* handlePlanChanged pushes the job's plan and lifts the usage lock; jobs run *)
(* concurrently, so in any order.  A failed job is retried, whether or not   *)
(* the plan was pushed before it failed; fewer faults than attempts are      *)
(* modelled, so that no plan-changed job is given up.                        *)
SyncPlan(e) ==
  /\ planJobs[e] > 0
  /\ \/ planJobs' = [planJobs EXCEPT ![e] = @ - 1] /\ plan' = e /\ UNCHANGED faults
     \/ Fault /\ plan' \in {plan, e} /\ UNCHANGED planJobs
  /\ UNCHANGED <<stripe, queue, keys, billing, planned, pc, job>>

-----------------------------------------------------------------------------
ProcessStripeEvent(w) ==
  \/ CheckKey(w) \/ Upsert(w) \/ FindNoPlan(w) \/ Cancel(w) \/ MatchInvoice(w)
  \/ Audit(w) \/ EnqueuePlanChanged(w) \/ RecordKey(w)

Next ==
  \/ \E e \in Events : Deliver(e)
  \/ \E j \in Jobs : Promote(j) \/ Stalled(j) \/ \E w \in Workers : Take(w, j)
  \/ \E w \in Workers : ProcessStripeEvent(w) \/ CallFails(w) \/ Crash(w)
  \/ \E e \in Changes : SyncPlan(e)

Spec == Init /\ [][Next]_vars

(* Workers run on and BullMQ hands out, promotes and replays jobs; Stripe's  *)
(* deliveries and the faults are not fair.                                   *)
Fairness ==
  /\ \A w \in Workers : WF_vars(ProcessStripeEvent(w))
  /\ \A j \in Jobs : WF_vars(\E w \in Workers : Take(w, j)) /\ WF_vars(Promote(j)) /\ WF_vars(Stalled(j))
  /\ \A e \in Changes : WF_vars(SyncPlan(e))

FairSpec == Spec /\ Fairness

-----------------------------------------------------------------------------
(* Properties. *)

(* An event is recorded only once it took effect: a crash or an error        *)
(* between two steps leaves it to be processed again, never half done and    *)
(* recorded.  The exception is an update that found no plan: it is recorded, *)
(* and no delivery of it will take effect once there is one.                 *)
RecordedIsHandled ==
  \A e \in keys \ planless :
    /\ e \in planned /\ audits[e] > 0
    /\ subscription # None

(* Once an event is recorded, no delivery of it gets past the check any      *)
(* more, and unless one was past it already, the event is not audited, not   *)
(* applied to the subscription and not handed to plan-changed again.         *)
PastCheck(w, e) == pc[w] \notin {"idle", "check"} /\ EventOf(w) = e
RedeliveryIsIdle ==
  [][\A e \in keys \cap Changes :
       /\ \A w \in Workers : PastCheck(w, e)' => PastCheck(w, e)
       /\ (\A w \in Workers : ~PastCheck(w, e)) =>
            /\ audits'[e] = audits[e] /\ planJobs'[e] <= planJobs[e]
            /\ subscription' = e => subscription = e]_vars

(* Every delivered update is recorded in the end, and its plan pushed if it  *)
(* found one, while there are fewer faults than attempts.                    *)
EveryUpdateIsRecorded == \A e \in Updates : e \in sent ~> e \in keys /\ planJobs[e] = 0

=============================================================================
