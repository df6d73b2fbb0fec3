------------------------- MODULE StripeEvents_proofs -------------------------
(***************************************************************************)
(* Proofs about StripeEvents for any number of workers, jobs, events,       *)
(* deliveries and faults: an event with an idempotency key took effect, and *)
(* what is delivered of it from then on changes nothing.                    *)
(***************************************************************************)
EXTENDS StripeEvents, TLAPS

(* A busy worker runs an active job of its own, and a job in the queue has   *)
(* an event.                                                                 *)
RunOK ==
  /\ \A j \in Jobs : queue[j].state # "free" => queue[j].event \in Events
  /\ \A w \in Workers :
       IF pc[w] = "idle"
         THEN job[w] = None
         ELSE job[w] \in Jobs /\ queue[job[w]].state = "active"
  /\ \A w \in Workers : pc[w] = "enqueue" => queue[job[w]].event \in Changes
  /\ \A w, v \in Workers : w # v /\ pc[w] # "idle" => job[w] # job[v]

(* What a run of a change has done when it comes to a step. *)
ProgressInv ==
  \A w \in Workers : EventOf(w) \in Changes =>
    /\ pc[w] \in {"audit", "enqueue"} => subscription # None
    /\ pc[w] = "enqueue" => audits[EventOf(w)] > 0
    /\ pc[w] = "record" /\ EventOf(w) \notin planless =>
         EventOf(w) \in planned /\ audits[EventOf(w)] > 0 /\ subscription # None

KeyInv == keys \subseteq Changes /\ ProgressInv /\ RecordedIsHandled

-----------------------------------------------------------------------------
(* Every way the queue is updated puts a well-formed job in its place. *)
LEMMA QueueUpdates ==
  ASSUME queue \in [Jobs -> JobRecord], NEW j \in Jobs
  PROVE  /\ Free \in JobRecord /\ Free.state = "free"
         /\ \A e \in Events : Entry("waiting", e, 0, 0) \in JobRecord
         /\ Entry("active", queue[j].event, queue[j].attempts, queue[j].stalls) \in JobRecord
         /\ Entry("waiting", queue[j].event, queue[j].attempts, queue[j].stalls) \in JobRecord
         /\ Entry("waiting", queue[j].event, queue[j].attempts, 1) \in JobRecord
         /\ RetryOf(j) \in [Jobs -> JobRecord]
         /\ \A i \in Jobs \ {j} : RetryOf(j)[i] = queue[i]
         /\ RetryOf(j)[j].state # "free" => RetryOf(j)[j].event = queue[j].event
         /\ RetryOf(j)[j].state # "active"
<1>1. queue[j] \in JobRecord
  OBVIOUS
<1>2. /\ Free \in JobRecord /\ Free.state = "free"
      /\ \A e \in Events : Entry("waiting", e, 0, 0) \in JobRecord
      /\ Entry("active", queue[j].event, queue[j].attempts, queue[j].stalls) \in JobRecord
      /\ Entry("waiting", queue[j].event, queue[j].attempts, queue[j].stalls) \in JobRecord
      /\ Entry("waiting", queue[j].event, queue[j].attempts, 1) \in JobRecord
  BY <1>1, StripeAssumption DEF JobRecord, Entry, Free
<1>3. queue[j].attempts + 1 < MaxAttempts =>
        Entry("delayed", queue[j].event, queue[j].attempts + 1, queue[j].stalls) \in JobRecord
  BY <1>1, StripeAssumption DEF JobRecord, Entry
<1>4. RetryOf(j) \in [Jobs -> JobRecord]
  BY <1>2, <1>3 DEF RetryOf
<1>5. /\ \A i \in Jobs \ {j} : RetryOf(j)[i] = queue[i]
      /\ RetryOf(j)[j].state # "free" => RetryOf(j)[j].event = queue[j].event
      /\ RetryOf(j)[j].state # "active"
  BY <1>2 DEF RetryOf, Entry, Free
<1> QED
  BY <1>2, <1>4, <1>5

\* The fields of a job.
LEMMA EntryFields ==
  ASSUME NEW s, NEW e, NEW a, NEW n
  PROVE  Entry(s, e, a, n).state = s /\ Entry(s, e, a, n).event = e
BY DEF Entry

(* A run that completes or fails frees its worker and leaves the others be. *)
LEMMA RunEnds ==
  ASSUME TypeOK, RunOK, NEW w \in Workers, pc[w] # "idle", Complete(w) \/ Fail(w)
  PROVE  /\ queue' \in [Jobs -> JobRecord]
         /\ pc' \in [Workers -> Labels] /\ job' \in [Workers -> Jobs \cup {None}]
         /\ RunOK'
         /\ pc'[w] = "idle"
         /\ \A v \in Workers \ {w} : pc'[v] = pc[v] /\ job'[v] = job[v]
         /\ \A v \in Workers \ {w} : pc[v] # "idle" => queue'[job[v]] = queue[job[v]]
<1> DEFINE k == job[w]
<1>1. k \in Jobs
  BY DEF RunOK
<1>2. /\ queue' \in [Jobs -> JobRecord]
      /\ \A i \in Jobs \ {k} : queue'[i] = queue[i]
      /\ queue'[k].state # "free" => queue'[k].event = queue[k].event
  <2>1. CASE Complete(w)
    BY <1>1, <2>1, QueueUpdates DEF Complete, TypeOK
  <2>2. CASE Fail(w)
    BY <1>1, <2>2, QueueUpdates DEF Fail, TypeOK
  <2> QED
    BY <2>1, <2>2
<1>3. /\ pc' = [pc EXCEPT ![w] = "idle"]
      /\ job' = [job EXCEPT ![w] = None]
  BY DEF Complete, Fail, Stop, Goto
<1>4. /\ pc' \in [Workers -> Labels] /\ job' \in [Workers -> Jobs \cup {None}]
      /\ pc'[w] = "idle" /\ job'[w] = None
      /\ \A v \in Workers \ {w} : pc'[v] = pc[v] /\ job'[v] = job[v]
  BY <1>3 DEF TypeOK, Labels
<1>5. \A v \in Workers \ {w} : pc[v] # "idle" => job[v] \in Jobs \ {k}
  BY <1>1 DEF RunOK
<1>6. \A j \in Jobs : queue'[j].state # "free" => queue'[j].event \in Events
  <2> TAKE j \in Jobs
  <2>1. CASE j = k
    BY <1>1, <1>2, <2>1 DEF RunOK
  <2>2. CASE j # k
    BY <1>2, <2>2 DEF RunOK
  <2> QED
    BY <2>1, <2>2
<1>7. \A v \in Workers \ {w} : pc[v] # "idle" => queue'[job[v]] = queue[job[v]]
  BY <1>2, <1>5
<1>8. RunOK'
  BY <1>4, <1>5, <1>6, <1>7, StripeAssumption DEF RunOK
<1> QED
  BY <1>2, <1>4, <1>7, <1>8

\* Every step keeps the types, and a run its job.
LEMMA TypeStep ==
  ASSUME TypeOK, RunOK, [Next]_vars
  PROVE  TypeOK' /\ RunOK'
<1> USE StripeAssumption, EntryFields DEF TypeOK, RunOK, stripe, billing, plans, Changes,
      Events, Labels
<1> DEFINE Goal == TypeOK' /\ RunOK'
<1>1. ASSUME NEW e \in Events, Deliver(e) PROVE Goal
  BY QueueUpdates, <1>1 DEF Deliver
<1>2. ASSUME NEW j \in Jobs, Promote(j) PROVE Goal
  BY QueueUpdates, <1>2 DEF Promote
<1>3. ASSUME NEW j \in Jobs, Stalled(j) PROVE Goal
  BY QueueUpdates, <1>3 DEF Stalled
<1>4. ASSUME NEW w \in Workers, NEW j \in Jobs, Take(w, j) PROVE Goal
  BY QueueUpdates, <1>4 DEF Take
<1>5. ASSUME NEW w \in Workers, CheckKey(w) PROVE Goal
  <2>1. TypeOK'
    BY RunEnds, <1>5 DEF CheckKey, Goto, EventOf
  <2>2. RunOK'
    BY RunEnds, <1>5 DEF CheckKey, Goto, EventOf
  <2> QED
    BY <2>1, <2>2
<1>6. ASSUME NEW w \in Workers, Upsert(w) PROVE Goal
  <2>1. TypeOK'
    BY QueueUpdates, <1>6 DEF Upsert, Goto, EventOf
  <2>2. RunOK'
    BY QueueUpdates, <1>6 DEF Upsert, Goto, EventOf
  <2> QED
    BY <2>1, <2>2
<1>7. ASSUME NEW w \in Workers, Cancel(w) PROVE Goal
  <2>1. TypeOK'
    BY RunEnds, <1>7 DEF Cancel, Goto, EventOf
  <2>2. RunOK'
    BY RunEnds, <1>7 DEF Cancel, Goto, EventOf
  <2> QED
    BY <2>1, <2>2
<1>8. ASSUME NEW w \in Workers, MatchInvoice(w) PROVE Goal
  BY QueueUpdates, <1>8 DEF MatchInvoice, Goto, EventOf
<1>9. ASSUME NEW w \in Workers, Audit(w) PROVE Goal
  BY QueueUpdates, <1>9 DEF Audit, Goto, EventOf
<1>10. ASSUME NEW w \in Workers, EnqueuePlanChanged(w) PROVE Goal
  BY QueueUpdates, <1>10 DEF EnqueuePlanChanged, Goto, EventOf
<1>11. ASSUME NEW w \in Workers, RecordKey(w) PROVE Goal
  <2>1. TypeOK'
    BY RunEnds, <1>11 DEF RecordKey, EventOf
  <2>2. RunOK'
    BY RunEnds, <1>11 DEF RecordKey, EventOf
  <2> QED
    BY <2>1, <2>2
<1>12. ASSUME NEW w \in Workers, CallFails(w) PROVE Goal
  <2>1. TypeOK'
    BY RunEnds, <1>12 DEF CallFails, Fault
  <2>2. RunOK'
    BY RunEnds, <1>12 DEF CallFails, Fault
  <2> QED
    BY <2>1, <2>2
<1>13. ASSUME NEW w \in Workers, Crash(w) PROVE Goal
  BY QueueUpdates, <1>13 DEF Crash, Fault, Stop, Goto
<1>14. ASSUME NEW e \in Changes, SyncPlan(e) PROVE Goal
  <2>1. TypeOK'
    BY <1>14 DEF SyncPlan, Fault
  <2>2. RunOK'
    BY <1>14 DEF SyncPlan
  <2> QED
    BY <2>1, <2>2
<1>15. ASSUME UNCHANGED vars PROVE Goal
  BY <1>15 DEF vars
<1>18. ASSUME NEW w \in Workers, FindNoPlan(w) PROVE Goal
  BY QueueUpdates, <1>18 DEF FindNoPlan, Goto, EventOf
<1> HIDE DEF Goal
<1>16. ASSUME NEW w \in Workers, ProcessStripeEvent(w) PROVE Goal
  BY <1>5, <1>6, <1>18, <1>7, <1>8, <1>9, <1>10, <1>11, <1>16 DEF ProcessStripeEvent
<1>17. Goal
  BY <1>1, <1>2, <1>3, <1>4, <1>12, <1>13, <1>14, <1>15, <1>16 DEF Next
<1> QED
  BY <1>17 DEF Goal

\* Types, and what every run of the queue carries.
LEMMA RunsWellFormed == Spec => [](TypeOK /\ RunOK)
<1>1. Init => TypeOK /\ RunOK
  <2>1. Free \in JobRecord /\ Free.state = "free"
    BY StripeAssumption DEF Free, Entry, JobRecord
  <2>2. Init => TypeOK
    BY <2>1, StripeAssumption DEF Init, TypeOK, Labels, Changes, Events
  <2>3. Init => RunOK
    BY <2>1 DEF Init, RunOK
  <2> QED
    BY <2>2, <2>3
<1> QED
  BY <1>1, TypeStep, PTL DEF Spec

(* Every variable keeps its type through all steps, failures and crashes. *)
THEOREM TypeCorrect == Spec => []TypeOK
BY RunsWellFormed, PTL

-----------------------------------------------------------------------------
\* A key is written only after the change took effect.
LEMMA KeyStep ==
  ASSUME TypeOK, RunOK, KeyInv, [Next]_vars
  PROVE  KeyInv'
<1> USE StripeAssumption, EntryFields
    DEF TypeOK, RunOK, KeyInv, ProgressInv, RecordedIsHandled, EventOf, stripe, billing, plans, Changes, Events, Labels
<1> DEFINE Goal == KeyInv'
<1>1. ASSUME NEW e \in Events, Deliver(e) PROVE Goal
  BY QueueUpdates, <1>1 DEF Deliver
<1>2. ASSUME NEW j \in Jobs, Promote(j) PROVE Goal
  BY QueueUpdates, <1>2 DEF Promote
<1>3. ASSUME NEW j \in Jobs, Stalled(j) PROVE Goal
  BY QueueUpdates, <1>3 DEF Stalled
<1>4. ASSUME NEW w \in Workers, NEW j \in Jobs, Take(w, j) PROVE Goal
  <2>1. UNCHANGED <<keys, billing, plans>>
    BY <1>4 DEF Take
  <2>2. /\ pc'[w] = "check"
        /\ \A v \in Workers \ {w} : pc'[v] = pc[v]
        /\ \A v \in Workers \ {w} : pc[v] # "idle" => EventOf(v)' = EventOf(v)
    BY QueueUpdates, <1>4 DEF Take
  <2> QED
    BY <2>1, <2>2
<1>5. ASSUME NEW w \in Workers, CheckKey(w) PROVE Goal
  BY RunEnds, <1>5 DEF CheckKey, Goto, EventOf
<1>6. ASSUME NEW w \in Workers, Upsert(w) PROVE Goal
  BY QueueUpdates, <1>6 DEF Upsert, Goto, EventOf
<1>7. ASSUME NEW w \in Workers, Cancel(w) PROVE Goal
  BY RunEnds, <1>7 DEF Cancel, Goto, EventOf
<1>8. ASSUME NEW w \in Workers, MatchInvoice(w) PROVE Goal
  BY QueueUpdates, <1>8 DEF MatchInvoice, Goto, EventOf
<1>9. ASSUME NEW w \in Workers, Audit(w) PROVE Goal
  BY QueueUpdates, <1>9 DEF Audit, Goto, EventOf
<1>10. ASSUME NEW w \in Workers, EnqueuePlanChanged(w) PROVE Goal
  BY QueueUpdates, <1>10 DEF EnqueuePlanChanged, Goto, EventOf
<1>11. ASSUME NEW w \in Workers, RecordKey(w) PROVE Goal
  <2>1. /\ UNCHANGED <<billing, plans>>
        /\ \/ keys' = keys
           \/ /\ EventOf(w) \in Changes /\ pc[w] = "record"
              /\ keys' = keys \cup {EventOf(w)}
    BY <1>11 DEF RecordKey
  <2>2. /\ pc'[w] = "idle"
        /\ \A v \in Workers \ {w} :
             pc[v] # "idle" => pc'[v] = pc[v] /\ EventOf(v)' = EventOf(v)
        /\ \A v \in Workers \ {w} : pc[v] = "idle" => pc'[v] = "idle"
    BY RunEnds, <1>11 DEF RecordKey
  <2>3. ProgressInv'
    BY <2>1, <2>2
  <2>4. keys' \subseteq Changes /\ RecordedIsHandled'
    BY <2>1
  <2> QED
    BY <2>3, <2>4
<1>12. ASSUME NEW w \in Workers, CallFails(w) PROVE Goal
  <2>1. UNCHANGED <<keys, billing, plans>>
    BY <1>12 DEF CallFails
  <2>2. /\ pc'[w] = "idle"
        /\ \A v \in Workers \ {w} :
             pc[v] # "idle" => pc'[v] = pc[v] /\ EventOf(v)' = EventOf(v)
        /\ \A v \in Workers \ {w} : pc[v] = "idle" => pc'[v] = "idle"
    BY RunEnds, <1>12 DEF CallFails
  <2> QED
    BY <2>1, <2>2
<1>13. ASSUME NEW w \in Workers, Crash(w) PROVE Goal
  BY QueueUpdates, <1>13 DEF Crash, Fault, Stop, Goto
<1>14. ASSUME NEW e \in Changes, SyncPlan(e) PROVE Goal
  BY QueueUpdates, <1>14 DEF SyncPlan, Fault
<1>15. ASSUME UNCHANGED vars PROVE Goal
  BY <1>15 DEF vars
<1>18. ASSUME NEW w \in Workers, FindNoPlan(w) PROVE Goal
  BY QueueUpdates, <1>18 DEF FindNoPlan, Goto, EventOf
<1> HIDE DEF Goal
<1>16. ASSUME NEW w \in Workers, ProcessStripeEvent(w) PROVE Goal
  BY <1>5, <1>6, <1>18, <1>7, <1>8, <1>9, <1>10, <1>11, <1>16 DEF ProcessStripeEvent
<1>17. Goal
  BY <1>1, <1>2, <1>3, <1>4, <1>12, <1>13, <1>14, <1>15, <1>16 DEF Next
<1> QED
  BY <1>17 DEF Goal

\* So an event with a key took effect.
LEMMA KeysAreTrue == Spec => []KeyInv
<1>1. Init => KeyInv
  BY DEF Init, KeyInv, ProgressInv, RecordedIsHandled
<1> QED
  BY <1>1, KeyStep, RunsWellFormed, PTL DEF Spec

(* An event with an idempotency key (webhooks.ts:40-49) was audited, wrote   *)
(* the subscription and enqueued its plan-changed job, whatever failed,      *)
(* crashed, stalled or was retried before, unless its plan was missing.      *)
THEOREM RecordedEventsTookEffect == Spec => []RecordedIsHandled
BY KeysAreTrue, PTL DEF KeyInv

-----------------------------------------------------------------------------
Idle(e) ==
  e \in keys \cap Changes /\ (\A w \in Workers : ~PastCheck(w, e)) =>
    /\ audits'[e] = audits[e] /\ planJobs'[e] <= planJobs[e]
    /\ subscription' = e => subscription = e

(* Without a delivery past the check, a recorded event has no effect. *)
LEMMA IdleStep ==
  ASSUME TypeOK, RunOK, [Next]_vars, NEW k \in Changes
  PROVE  Idle(k)
<1> USE StripeAssumption DEF TypeOK, RunOK, Idle, PastCheck, EventOf, stripe, billing, plans,
      Changes, Events, Labels
<1> DEFINE Goal == Idle(k)
<1>1. ASSUME NEW e \in Events, Deliver(e) PROVE Goal
  BY <1>1 DEF Deliver
<1>2. ASSUME NEW j \in Jobs, Promote(j) PROVE Goal
  BY <1>2 DEF Promote
<1>3. ASSUME NEW j \in Jobs, Stalled(j) PROVE Goal
  BY <1>3 DEF Stalled
<1>4. ASSUME NEW w \in Workers, NEW j \in Jobs, Take(w, j) PROVE Goal
  BY <1>4 DEF Take
<1>5. ASSUME NEW w \in Workers, CheckKey(w) PROVE Goal
  BY RunEnds, <1>5 DEF CheckKey, Goto, EventOf
<1>6. ASSUME NEW w \in Workers, Upsert(w) PROVE Goal
  BY <1>6 DEF Upsert, Goto, EventOf
<1>7. ASSUME NEW w \in Workers, Cancel(w) PROVE Goal
  BY RunEnds, <1>7 DEF Cancel, Goto, EventOf
<1>8. ASSUME NEW w \in Workers, MatchInvoice(w) PROVE Goal
  BY <1>8 DEF MatchInvoice, Goto, EventOf
<1>9. ASSUME NEW w \in Workers, Audit(w) PROVE Goal
  BY <1>9 DEF Audit, Goto, EventOf
<1>10. ASSUME NEW w \in Workers, EnqueuePlanChanged(w) PROVE Goal
  BY <1>10 DEF EnqueuePlanChanged, Goto, EventOf
<1>11. ASSUME NEW w \in Workers, RecordKey(w) PROVE Goal
  BY RunEnds, <1>11 DEF RecordKey, EventOf
<1>12. ASSUME NEW w \in Workers, CallFails(w) PROVE Goal
  BY RunEnds, <1>12 DEF CallFails, Fault
<1>13. ASSUME NEW w \in Workers, Crash(w) PROVE Goal
  BY <1>13 DEF Crash, Fault, Stop, Goto
<1>14. ASSUME NEW e \in Changes, SyncPlan(e) PROVE Goal
  BY <1>14 DEF SyncPlan, Fault
<1>15. ASSUME UNCHANGED vars PROVE Goal
  BY <1>15 DEF vars
<1>18. ASSUME NEW w \in Workers, FindNoPlan(w) PROVE Goal
  BY <1>18 DEF FindNoPlan, Goto, EventOf
<1> HIDE DEF Goal
<1>16. ASSUME NEW w \in Workers, ProcessStripeEvent(w) PROVE Goal
  BY <1>5, <1>6, <1>18, <1>7, <1>8, <1>9, <1>10, <1>11, <1>16 DEF ProcessStripeEvent
<1>17. Goal
  BY <1>1, <1>2, <1>3, <1>4, <1>12, <1>13, <1>14, <1>15, <1>16 DEF Next
<1> QED
  BY <1>17 DEF Goal

(* A delivery of a recorded event does not get past the check. *)
LEMMA CheckStep ==
  ASSUME TypeOK, RunOK, [Next]_vars, NEW k \in keys, NEW v \in Workers, PastCheck(v, k)'
  PROVE  PastCheck(v, k)
<1> USE StripeAssumption, EntryFields DEF TypeOK, RunOK, PastCheck, EventOf, Labels
<1> DEFINE Goal == PastCheck(v, k)
<1>1. ASSUME NEW e \in Events, Deliver(e) PROVE Goal
  BY QueueUpdates, <1>1 DEF Deliver
<1>2. ASSUME NEW j \in Jobs, Promote(j) PROVE Goal
  BY QueueUpdates, <1>2 DEF Promote
<1>3. ASSUME NEW j \in Jobs, Stalled(j) PROVE Goal
  BY QueueUpdates, <1>3 DEF Stalled
<1>4. ASSUME NEW w \in Workers, NEW j \in Jobs, Take(w, j) PROVE Goal
  BY QueueUpdates, <1>4 DEF Take
<1>5. ASSUME NEW w \in Workers, CheckKey(w) PROVE Goal
  BY RunEnds, <1>5 DEF CheckKey, Goto, EventOf
<1>6. ASSUME NEW w \in Workers, Upsert(w) PROVE Goal
  BY <1>6 DEF Upsert, Goto, EventOf
<1>7. ASSUME NEW w \in Workers, Cancel(w) PROVE Goal
  BY RunEnds, <1>7 DEF Cancel, Goto, EventOf
<1>8. ASSUME NEW w \in Workers, MatchInvoice(w) PROVE Goal
  BY <1>8 DEF MatchInvoice, Goto, EventOf
<1>9. ASSUME NEW w \in Workers, Audit(w) PROVE Goal
  BY <1>9 DEF Audit, Goto, EventOf
<1>10. ASSUME NEW w \in Workers, EnqueuePlanChanged(w) PROVE Goal
  BY <1>10 DEF EnqueuePlanChanged, Goto, EventOf
<1>11. ASSUME NEW w \in Workers, RecordKey(w) PROVE Goal
  BY RunEnds, <1>11 DEF RecordKey, EventOf
<1>12. ASSUME NEW w \in Workers, CallFails(w) PROVE Goal
  BY RunEnds, <1>12 DEF CallFails, Fault
<1>13. ASSUME NEW w \in Workers, Crash(w) PROVE Goal
  BY <1>13 DEF Crash, Fault, Stop, Goto
<1>14. ASSUME NEW e \in Changes, SyncPlan(e) PROVE Goal
  BY <1>14 DEF SyncPlan, Fault
<1>15. ASSUME UNCHANGED vars PROVE Goal
  BY <1>15 DEF vars
<1>18. ASSUME NEW w \in Workers, FindNoPlan(w) PROVE Goal
  BY <1>18 DEF FindNoPlan, Goto, EventOf
<1> HIDE DEF Goal
<1>16. ASSUME NEW w \in Workers, ProcessStripeEvent(w) PROVE Goal
  BY <1>5, <1>6, <1>18, <1>7, <1>8, <1>9, <1>10, <1>11, <1>16 DEF ProcessStripeEvent
<1>17. Goal
  BY <1>1, <1>2, <1>3, <1>4, <1>12, <1>13, <1>14, <1>15, <1>16 DEF Next
<1> QED
  BY <1>17 DEF Goal

(* Once its key was created (webhooks.ts:29-49), an event is neither audited  *)
(* nor applied again, nor is its plan-changed job enqueued again, except by  *)
(* a delivery that had passed the check before.                              *)
THEOREM RedeliveryChangesNothing == Spec => RedeliveryIsIdle
<1>1. TypeOK /\ RunOK /\ [Next]_vars
        => [\A e \in keys \cap Changes :
              /\ \A w \in Workers : PastCheck(w, e)' => PastCheck(w, e)
              /\ (\A w \in Workers : ~PastCheck(w, e)) =>
                   /\ audits'[e] = audits[e] /\ planJobs'[e] <= planJobs[e]
                   /\ subscription' = e => subscription = e]_vars
  BY IdleStep, CheckStep DEF Idle
<1> QED
  BY <1>1, RunsWellFormed, PTL DEF Spec, RedeliveryIsIdle

=============================================================================
