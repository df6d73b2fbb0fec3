---------------------------- MODULE Plans_proofs ----------------------------
(***************************************************************************)
(* Proofs about a plan, and a role, that change.  PlanSync: why the        *)
(* instance ends with the plan of the last write of the subscription, and  *)
(* why an upgrade lifts the usage lock.  AuthzCache: how old the roles are *)
(* that a request is decided on.                                           *)
(***************************************************************************)
EXTENDS PlanSync, AuthzCache, TLAPS

(***************************************************************************)
(* PlanSync                                                                *)
(***************************************************************************)

(* The number of the row's last write is carried only by what pushes it.     *)
OrderOK ==
  /\ last = None <=> rev = 0
  /\ \A c \in Changes : wrote[c] <= rev /\ (wrote[c] = rev /\ rev > 0 => c = last)
  /\ \A c \in Changes : pc[c] = "enqueue" => rev > 0 /\ (c = last => wrote[c] = rev)
  /\ \A j \in Jobs : queue[j].state # "free" =>
       /\ queue[j].change # None /\ queue[j].write <= rev
       /\ queue[j].write = rev => queue[j].change = last
  /\ \A call \in calls : call.put = "plan" =>
       /\ call.change # None /\ call.write <= rev
       /\ call.write = rev => call.change = last
  /\ calls # {} => instance.plan # None
  /\ instance.write <= rev
  /\ instance.write = rev /\ last # None => instance.plan = last \/ "reset" \in mishaps

(* The instance has the last write, or its handler or its job has yet to run. *)
PushOK ==
  /\ mishaps \cap {"overtaken", "reset", "abandoned"} = {}
  /\ last # None /\ instance.plan # None
  => \/ instance.write = rev
     \/ pc[last] \in {"row", "enqueue", "retry"}
     \/ \E j \in Jobs : queue[j].state = "waiting" /\ queue[j].write = rev

(* A handler that will not lift the lock writes the free plan. *)
HandlerOK ==
  \A c \in Changes :
    /\ c \in Overrides => pc[c] \notin {"retry", "record"}
    /\ c \in Events /\ pc[c] = "row" /\ c \notin lifts => c \in Updates /\ Carries[c] = Free

(* An instance locked within its limit has a handler or a job that will lift it. *)
Lifting ==
  \/ \E c \in Changes : pc[c] = "retry" \/ (pc[c] \in {"row", "enqueue"} /\ c \in lifts)
  \/ \E j \in Jobs : queue[j].state \in {"waiting", "lock"} /\ queue[j].lift = "lift"

LockOK ==
  /\ instance.plan = None => instance.lock = "unlock"
  /\ /\ mishaps \cap {"stale", "unlifted", "abandoned"} = {}
     /\ instance.lock = "lock" /\ usage < Limit[PlanOfRow]
     => row # None /\ Lifting

-----------------------------------------------------------------------------
\* The types at the start.
LEMMA InitType == Init => TypeOK
BY PlanAssumption DEF Init, TypeOK, WritersOK, PushesOK, InstanceOK, MeterOK, FreeJob, Entry,
   JobRecord, IdleRollup, Verdicts

\* The handlers of the subscription keep their types.
LEMMA WritersStep ==
  ASSUME WritersOK, Next \/ UNCHANGED vars
  PROVE  WritersOK'
<1> USE DEF WritersOK, Goto
<1>1. ASSUME NEW c \in Changes, ReadRow(c) PROVE WritersOK'
  BY <1>1 DEF ReadRow
<1>2. ASSUME NEW c \in Changes, UpsertRow(c) PROVE WritersOK'
  BY <1>2 DEF UpsertRow, WriteRow, Writes
<1>3. ASSUME NEW c \in Changes, CancelRow(c) PROVE WritersOK'
  BY <1>3 DEF CancelRow, WriteRow
<1>4. ASSUME NEW c \in Changes, RecordKey(c) \/ EventFails(c) \/ Abandon(c) \/ RequestDies(c)
      PROVE  WritersOK'
  BY <1>4 DEF RecordKey, EventFails, Abandon, RequestDies
<1>5. ASSUME NEW c \in Changes, ReadTenant(c) PROVE WritersOK'
  BY <1>5 DEF ReadTenant
<1>6. ASSUME NEW c \in Changes, WriteTenant(c) PROVE WritersOK'
  BY <1>6 DEF WriteTenant
<1>7. ASSUME NEW c \in Changes, OverrideRow(c) PROVE WritersOK'
  <2>1. row' \in Writes
    BY <1>7 DEF OverrideRow, Writes
  <2>2. WriteRow(c) /\ Goto(c, "enqueue") /\ UNCHANGED <<tenantPlan, lifts>>
    BY <1>7 DEF OverrideRow
  <2> QED
    BY <2>1, <2>2 DEF WriteRow
<1>8. ASSUME NEW c \in Changes, NEW j \in Jobs, Enqueue(c, j) PROVE WritersOK'
  BY <1>8 DEF Enqueue
<1>9. ASSUME NEW c \in Changes, HandleChange(c) PROVE WritersOK'
  BY <1>1, <1>2, <1>3, <1>4, <1>5, <1>6, <1>7, <1>8, <1>9 DEF HandleChange
<1>10. ASSUME NEW j \in Jobs, HandlePlanChanged(j) PROVE UNCHANGED writers
  BY <1>10 DEF HandlePlanChanged, SyncPlan, LiftLock, AttemptFails, RetryJob, DiscardJob
<1>11. ASSUME \/ ArriveLate \/ Vanish \/ ReadSetup \/ Provision \/ Use \/ HandleUsageRollup
              \/ UNCHANGED vars
       PROVE  UNCHANGED writers
  BY <1>11 DEF ArriveLate, Vanish, ReadSetup, Provision, Use, HandleUsageRollup, Count, Judge,
     SetLock, RollupFails, vars
<1>12. ASSUME UNCHANGED writers PROVE WritersOK'
  BY <1>12 DEF writers
<1> QED
  BY <1>9, <1>10, <1>11, <1>12 DEF Next

\* Jobs and calls to the instance keep their types.
LEMMA PushesStep ==
  ASSUME TypeOK, Next \/ UNCHANGED vars
  PROVE  PushesOK'
<1> USE DEF TypeOK, PushesOK
<1>1. ASSUME NEW c \in Changes, NEW j \in Jobs, Enqueue(c, j) PROVE PushesOK'
  <2>1. Entry("waiting", c, IF c \in lifts THEN "lift" ELSE "keep", wrote[c]) \in JobRecord
    BY DEF Entry, JobRecord, WritersOK
  <2> QED
    BY <1>1, <2>1 DEF Enqueue
<1>2. FreeJob \in JobRecord
  BY DEF FreeJob, Entry, JobRecord
<1>3. ASSUME NEW j \in Jobs, NEW state \in {"waiting", "lock", "failed"}
      PROVE  [queue[j] EXCEPT !.state = state] \in JobRecord
  BY DEF JobRecord
<1>4. ASSUME NEW j \in Jobs, SyncPlan(j) \/ LiftLock(j) \/ RetryJob(j) \/ DiscardJob(j)
      PROVE  PushesOK'
  BY <1>2, <1>3, <1>4 DEF SyncPlan, LiftLock, RetryJob, DiscardJob, SetState
<1>5. ASSUME NEW j \in Jobs, AttemptFails(j) PROVE PushesOK'
  <2>1. PlanCall(queue[j].change, queue[j].write) \in Call /\ LockCall("unlock") \in Call
    BY DEF PlanCall, LockCall, Call, JobRecord, Verdicts
  <2>2. queue' \in [Jobs -> JobRecord]
    BY <1>3, <1>5 DEF AttemptFails, SetState
  <2>3. calls' \in SUBSET Call
    BY <1>5, <2>1 DEF AttemptFails
  <2> QED
    BY <2>2, <2>3
<1>6. ASSUME RollupFails PROVE PushesOK'
  <2>1. LockCall(rollup.verdict) \in Call
    BY DEF LockCall, Call, MeterOK
  <2> QED
    BY <1>6, <2>1 DEF RollupFails
<1>7. ASSUME ArriveLate \/ Vanish PROVE PushesOK'
  BY <1>7 DEF ArriveLate, Vanish
<1>8. ASSUME NEW c \in Changes, HandleChange(c) PROVE PushesOK'
  <2>1. CASE \E j \in Jobs : Enqueue(c, j)
    BY <1>1, <2>1
  <2>2. CASE UNCHANGED pushes
    BY <2>2 DEF pushes
  <2> QED
    BY <1>8, <2>1, <2>2 DEF HandleChange, ReadRow, UpsertRow, CancelRow, RecordKey, EventFails,
       Abandon, ReadTenant, WriteTenant, OverrideRow, RequestDies
<1>9. ASSUME ReadSetup \/ Provision \/ Use \/ Count \/ Judge \/ SetLock \/ UNCHANGED vars
      PROVE  PushesOK'
  BY <1>9 DEF ReadSetup, Provision, Use, Count, Judge, SetLock, vars, pushes
<1> QED
  BY <1>4, <1>5, <1>6, <1>7, <1>8, <1>9 DEF Next, HandlePlanChanged, HandleUsageRollup

\* So do the instance and what went wrong.
LEMMA InstanceStep ==
  ASSUME TypeOK, Next \/ UNCHANGED vars
  PROVE  InstanceOK'
<1> USE PlanAssumption DEF TypeOK, InstanceOK, Mishaps
<1>1. ASSUME NEW c \in Changes \cup {Start, None}, NEW w \in Nat, PutPlan(c, w),
             UNCHANGED setup, faults' \in 0..MaxFaults
      PROVE  InstanceOK'
  BY <1>1 DEF PutPlan
<1>2. ASSUME NEW v \in Verdicts, PutLock(v), UNCHANGED setup, faults' \in 0..MaxFaults
      PROVE  InstanceOK'
  BY <1>2 DEF PutLock
<1>3. ASSUME NEW c \in Changes, HandleChange(c) PROVE InstanceOK'
  <2>1. UNCHANGED <<instance, setup>>
    BY <1>3 DEF HandleChange, ReadRow, UpsertRow, CancelRow, RecordKey, EventFails, Abandon,
       ReadTenant, WriteTenant, OverrideRow, RequestDies, Enqueue
  <2>2. mishaps' \in SUBSET Mishaps
    BY <1>3 DEF HandleChange, ReadRow, UpsertRow, CancelRow, RecordKey, EventFails, Abandon,
       ReadTenant, WriteTenant, OverrideRow, RequestDies, Enqueue
  <2>3. faults' = faults \/ (faults < MaxFaults /\ faults' = faults + 1)
    BY <1>3 DEF HandleChange, ReadRow, UpsertRow, CancelRow, RecordKey, EventFails, Abandon,
       ReadTenant, WriteTenant, OverrideRow, RequestDies, Enqueue
  <2> QED
    BY <2>1, <2>2, <2>3
<1>4. ASSUME NEW j \in Jobs, SyncPlan(j) PROVE InstanceOK'
  <2>1. queue[j].change \in Changes \cup {Start, None} /\ queue[j].write \in Nat
    BY DEF PushesOK, JobRecord
  <2> QED
    BY <1>1, <1>4, <2>1 DEF SyncPlan
<1>5. ASSUME NEW j \in Jobs, LiftLock(j) PROVE InstanceOK'
  BY <1>2, <1>5 DEF LiftLock, Verdicts
<1>6. ASSUME NEW j \in Jobs, AttemptFails(j) \/ RetryJob(j) \/ DiscardJob(j) PROVE InstanceOK'
  <2>1. UNCHANGED <<instance, setup>> /\ mishaps' \in SUBSET Mishaps
    BY <1>6 DEF AttemptFails, RetryJob, DiscardJob
  <2>2. faults' = faults \/ (faults < MaxFaults /\ faults' = faults + 1)
    BY <1>6 DEF AttemptFails, RetryJob, DiscardJob
  <2> QED
    BY <2>1, <2>2
<1>7. ASSUME ArriveLate PROVE InstanceOK'
  <2>1. PICK call \in calls :
          IF call.put = "plan" THEN PutPlan(call.change, call.write) ELSE PutLock(call.put)
    BY <1>7 DEF ArriveLate
  <2>2. call.put \in {"plan"} \cup Verdicts /\ call.change \in Changes \cup {Start, None}
        /\ call.write \in Nat
    BY DEF PushesOK, Call
  <2> QED
    BY <1>1, <1>2, <1>7, <2>1, <2>2 DEF ArriveLate
<1>8. ASSUME ReadSetup PROVE InstanceOK'
  BY <1>8 DEF ReadSetup, WritersOK
<1>9. ASSUME Provision PROVE InstanceOK'
  <2>1. setup \in Changes \cup {Start, None} /\ rev \in Nat
    BY DEF WritersOK, Changes
  <2>2. instance' \in [plan : Changes \cup {Start, None}, lock : Verdicts, write : Nat]
    BY <1>9, <2>1 DEF Provision
  <2> QED
    BY <1>9, <2>2 DEF Provision
<1>10. ASSUME SetLock PROVE InstanceOK'
  <2>1. rollup.verdict \in Verdicts
    BY DEF MeterOK
  <2> QED
    BY <1>2, <1>10, <2>1 DEF SetLock
<1>11. ASSUME Vanish \/ Use \/ Count \/ Judge \/ RollupFails \/ UNCHANGED vars PROVE InstanceOK'
  <2>1. UNCHANGED <<instance, setup, mishaps>>
    BY <1>11 DEF Vanish, Use, Count, Judge, RollupFails, vars
  <2>2. faults' = faults \/ (faults < MaxFaults /\ faults' = faults + 1)
    BY <1>11 DEF Vanish, Use, Count, Judge, RollupFails, vars
  <2> QED
    BY <2>1, <2>2
<1> QED
  BY <1>3, <1>4, <1>5, <1>6, <1>7, <1>8, <1>9, <1>10, <1>11 DEF Next, HandlePlanChanged,
     HandleUsageRollup

\* So do the usage counters and the rollup.
LEMMA MeterStep ==
  ASSUME TypeOK, Next \/ UNCHANGED vars
  PROVE  MeterOK'
<1> USE PlanAssumption DEF TypeOK, MeterOK, Verdicts
<1>1. ASSUME HandleUsageRollup \/ Use PROVE MeterOK'
  <2>1. usage' = usage \/ (usage < MaxUsage /\ usage' = usage + 1)
    BY <1>1 DEF HandleUsageRollup, Use, Count, Judge, SetLock, RollupFails
  <2>2. rollups' = rollups \/ (rollups < MaxRollups /\ rollups' = rollups + 1)
    BY <1>1 DEF HandleUsageRollup, Use, Count, Judge, SetLock, RollupFails
  <2>3. 0 \in 0..MaxUsage
    OBVIOUS
  <2>4. rollup' \in [step : {"idle", "read", "put", "retry"}, total : 0..MaxUsage,
                     verdict : Verdicts]
    <3>1. IdleRollup \in [step : {"idle", "read", "put", "retry"}, total : 0..MaxUsage,
                          verdict : Verdicts]
      BY <2>3 DEF IdleRollup
    <3>2. CASE Count
      BY <3>2 DEF Count
    <3>3. CASE Judge
      BY <2>3, <3>3 DEF Judge
    <3>4. CASE SetLock \/ RollupFails
      BY <3>1, <3>4 DEF SetLock, RollupFails
    <3>5. CASE Use
      BY <3>5 DEF Use
    <3> QED
      BY <1>1, <3>2, <3>3, <3>4, <3>5 DEF HandleUsageRollup
  <2> QED
    BY <2>1, <2>2, <2>4
<1>2. CASE UNCHANGED meter
  BY <1>2 DEF meter
<1>3. ASSUME NEW c \in Changes, HandleChange(c) PROVE UNCHANGED meter
  BY <1>3 DEF HandleChange, ReadRow, UpsertRow, CancelRow, RecordKey, EventFails, Abandon,
     ReadTenant, WriteTenant, OverrideRow, RequestDies, Enqueue
<1>4. ASSUME NEW j \in Jobs, HandlePlanChanged(j) PROVE UNCHANGED meter
  BY <1>4 DEF HandlePlanChanged, SyncPlan, LiftLock, AttemptFails, RetryJob, DiscardJob
<1>5. ASSUME ArriveLate \/ Vanish \/ ReadSetup \/ Provision \/ UNCHANGED vars
      PROVE  UNCHANGED meter
  BY <1>5 DEF ArriveLate, Vanish, ReadSetup, Provision, vars
<1> QED
  BY <1>1, <1>2, <1>3, <1>4, <1>5 DEF Next

\* Together: every step keeps the types.
LEMMA TypeStep ==
  ASSUME TypeOK, Next \/ UNCHANGED vars
  PROVE  TypeOK'
BY WritersStep, PushesStep, InstanceStep, MeterStep DEF TypeOK

(* Every state of a run is well-formed. *)
THEOREM TypeCorrect == Spec => []TypeOK
BY InitType, TypeStep, PTL DEF Spec

-----------------------------------------------------------------------------
\* What a handler knows about the row it wrote.
LEMMA HandlerStep ==
  ASSUME TypeOK, HandlerOK, Next \/ UNCHANGED vars
  PROVE  HandlerOK'
<1> DEFINE Goal == HandlerOK'
<1> USE PlanAssumption DEF TypeOK, WritersOK, HandlerOK, Changes, Events, Writes, writers,
      pushes, meter
<1>1. ASSUME NEW c \in Changes, ReadRow(c) PROVE Goal
  BY <1>1 DEF ReadRow, Goto, Begin
<1>2. ASSUME NEW c \in Changes, UpsertRow(c) PROVE Goal
  BY <1>2 DEF UpsertRow, Goto, WriteRow
<1>3. ASSUME NEW c \in Changes, CancelRow(c) PROVE Goal
  BY <1>3 DEF CancelRow, Goto, WriteRow
<1>4. ASSUME NEW c \in Changes, RecordKey(c) PROVE Goal
  BY <1>4 DEF RecordKey, Goto
<1>5. ASSUME NEW c \in Changes, EventFails(c) PROVE Goal
  BY <1>5 DEF EventFails, Goto
<1>6. ASSUME NEW c \in Changes, Abandon(c) PROVE Goal
  BY <1>6 DEF Abandon, Goto
<1>7. ASSUME NEW c \in Changes, ReadTenant(c) PROVE Goal
  BY <1>7 DEF ReadTenant, Goto, Begin
<1>8. ASSUME NEW c \in Changes, WriteTenant(c) PROVE Goal
  BY <1>8 DEF WriteTenant, Goto
<1>9. ASSUME NEW c \in Changes, OverrideRow(c) PROVE Goal
  BY <1>9 DEF OverrideRow, Goto, WriteRow
<1>10. ASSUME NEW c \in Changes, RequestDies(c) PROVE Goal
  BY <1>10 DEF RequestDies, Goto
<1>11. ASSUME NEW c \in Changes, NEW j \in Jobs, Enqueue(c, j) PROVE Goal
  BY <1>11 DEF Enqueue, Goto, Entry
<1>12. ASSUME NEW j \in Jobs, SyncPlan(j) PROVE Goal
  BY <1>12 DEF SyncPlan, PutPlan, FreeJob, Entry
<1>13. ASSUME NEW j \in Jobs, LiftLock(j) PROVE Goal
  BY <1>13 DEF LiftLock, PutLock, FreeJob, Entry
<1>14. ASSUME NEW j \in Jobs, AttemptFails(j) PROVE Goal
  BY <1>14 DEF AttemptFails, SetState, PlanCall, LockCall
<1>15. ASSUME NEW j \in Jobs, RetryJob(j) PROVE Goal
  BY <1>15 DEF RetryJob, SetState
<1>16. ASSUME NEW j \in Jobs, DiscardJob(j) PROVE Goal
  BY <1>16 DEF DiscardJob, FreeJob, Entry
<1>17. ASSUME ArriveLate PROVE Goal
  BY <1>17 DEF ArriveLate, PutPlan, PutLock
<1>18. ASSUME Vanish PROVE Goal
  BY <1>18 DEF Vanish
<1>19. ASSUME ReadSetup PROVE Goal
  BY <1>19 DEF ReadSetup
<1>20. ASSUME Provision PROVE Goal
  BY <1>20 DEF Provision
<1>21. ASSUME Use PROVE Goal
  BY <1>21 DEF Use
<1>22. ASSUME Count PROVE Goal
  BY <1>22 DEF Count
<1>23. ASSUME Judge PROVE Goal
  BY <1>23 DEF Judge
<1>24. ASSUME SetLock PROVE Goal
  BY <1>24 DEF SetLock, PutLock, IdleRollup
<1>25. ASSUME RollupFails PROVE Goal
  BY <1>25 DEF RollupFails, IdleRollup, LockCall
<1>26. ASSUME UNCHANGED vars PROVE Goal
  BY <1>26 DEF vars
<1> HIDE DEF Goal
<1>27. ASSUME NEW c \in Changes, HandleChange(c) PROVE Goal
  BY <1>1, <1>2, <1>3, <1>4, <1>5, <1>6, <1>7, <1>8, <1>9, <1>10, <1>11, <1>27 DEF HandleChange
<1>28. ASSUME NEW j \in Jobs, HandlePlanChanged(j) PROVE Goal
  BY <1>12, <1>13, <1>14, <1>15, <1>16, <1>28 DEF HandlePlanChanged
<1>29. ASSUME HandleUsageRollup PROVE Goal
  BY <1>22, <1>23, <1>24, <1>25, <1>29 DEF HandleUsageRollup
<1> QED
  BY <1>17, <1>18, <1>19, <1>20, <1>21, <1>26, <1>27, <1>28, <1>29 DEF Next, Goal

\* A write takes a number that no job and no call carries yet.
LEMMA OrderWrite ==
  ASSUME TypeOK, OrderOK, NEW c \in Changes, WriteRow(c), Goto(c, "enqueue"),
         UNCHANGED <<queue, calls, instance>>, mishaps \in SUBSET mishaps'
  PROVE  OrderOK'
<1> USE PlanAssumption DEF TypeOK, WritersOK, PushesOK, InstanceOK, OrderOK, WriteRow, Goto
<1>1. last' # None /\ rev' \in Nat /\ rev' = rev + 1
  OBVIOUS
<1>2. \A d \in Changes : wrote'[d] <= rev' /\ (wrote'[d] = rev' /\ rev' > 0 => d = last')
  OBVIOUS
<1>3. \A d \in Changes : pc'[d] = "enqueue" => rev' > 0 /\ (d = last' => wrote'[d] = rev')
  OBVIOUS
<1>4. \A j \in Jobs : queue'[j].state # "free" =>
        queue'[j].change # None /\ queue'[j].write <= rev' /\ queue'[j].write # rev'
  BY DEF JobRecord
<1>5. \A call \in calls' : call.put = "plan" =>
        call.change # None /\ call.write <= rev' /\ call.write # rev'
  BY DEF Call
<1>6. instance'.write <= rev' /\ instance'.write # rev' /\ (calls' # {} => instance'.plan # None)
  OBVIOUS
<1> QED
  BY <1>1, <1>2, <1>3, <1>4, <1>5, <1>6

\* A put with the number of the last write brings its plan.
LEMMA OrderPut ==
  ASSUME TypeOK, OrderOK, NEW c, NEW w \in Nat, PutPlan(c, w),
         w <= rev, w = rev => c = last
  PROVE  /\ instance'.write <= rev
         /\ instance'.write = rev => instance'.plan = last
         /\ instance'.plan = c
BY DEF TypeOK, InstanceOK, PutPlan

\* So the number of the last write is carried only by what pushes it.
LEMMA OrderStep ==
  ASSUME TypeOK, TypeOK', OrderOK, Next \/ UNCHANGED vars
  PROVE  OrderOK'
<1> DEFINE Goal == OrderOK'
<1> USE PlanAssumption DEF TypeOK, WritersOK, PushesOK, InstanceOK, OrderOK, writers, pushes,
      meter
<1>1. ASSUME NEW c \in Changes, ReadRow(c) PROVE Goal
  BY <1>1 DEF ReadRow, Goto, Begin
<1>2. ASSUME NEW c \in Changes, UpsertRow(c) PROVE Goal
  BY <1>2, OrderWrite DEF UpsertRow
<1>3. ASSUME NEW c \in Changes, CancelRow(c) PROVE Goal
  <2>1. CASE row # None
    BY <1>3, <2>1, OrderWrite DEF CancelRow
  <2>2. CASE row = None
    BY <1>3, <2>2 DEF CancelRow, Goto
  <2> QED
    BY <2>1, <2>2
<1>4. ASSUME NEW c \in Changes, RecordKey(c) PROVE Goal
  BY <1>4 DEF RecordKey, Goto
<1>5. ASSUME NEW c \in Changes, EventFails(c) PROVE Goal
  BY <1>5 DEF EventFails, Goto
<1>6. ASSUME NEW c \in Changes, Abandon(c) PROVE Goal
  BY <1>6 DEF Abandon, Goto
<1>7. ASSUME NEW c \in Changes, ReadTenant(c) PROVE Goal
  BY <1>7 DEF ReadTenant, Goto, Begin
<1>8. ASSUME NEW c \in Changes, WriteTenant(c) PROVE Goal
  BY <1>8 DEF WriteTenant, Goto
<1>9. ASSUME NEW c \in Changes, OverrideRow(c) PROVE Goal
  BY <1>9, OrderWrite DEF OverrideRow
<1>10. ASSUME NEW c \in Changes, RequestDies(c) PROVE Goal
  BY <1>10 DEF RequestDies, Goto
<1>11. ASSUME NEW c \in Changes, NEW j \in Jobs, Enqueue(c, j) PROVE Goal
  BY <1>11 DEF Enqueue, Goto, Entry, JobRecord
<1>12. ASSUME NEW j \in Jobs, SyncPlan(j) PROVE Goal
  <2>1. queue[j].write \in Nat /\ queue[j].change # None /\ queue[j].state = "waiting"
    BY <1>12 DEF SyncPlan, JobRecord
  <2>2. \A i \in Jobs : queue'[i].state # "free" =>
          /\ queue[i].state # "free" /\ queue'[i].write = queue[i].write
          /\ queue'[i].change = queue[i].change
    BY <1>12 DEF SyncPlan, FreeJob, Entry, JobRecord
  <2>3. /\ instance'.write <= rev
        /\ instance'.write = rev /\ last # None => instance'.plan = last \/ "reset" \in mishaps'
        /\ instance.plan # None => instance'.plan # None
    <3>1. CASE instance.plan = None
      BY <1>12, <3>1 DEF SyncPlan
    <3>2. CASE instance.plan # None
      BY <1>12, <2>1, <3>2, OrderPut DEF SyncPlan
    <3> QED
      BY <3>1, <3>2
  <2>4. UNCHANGED <<last, rev, pc, wrote, calls>>
    BY <1>12 DEF SyncPlan
  <2> QED
    BY <2>2, <2>3, <2>4
<1>13. ASSUME NEW j \in Jobs, LiftLock(j) PROVE Goal
  BY <1>13 DEF LiftLock, PutLock, FreeJob, Entry
<1>14. ASSUME NEW j \in Jobs, AttemptFails(j) PROVE Goal
  BY <1>14 DEF AttemptFails, SetState, PlanCall, LockCall, JobRecord
<1>15. ASSUME NEW j \in Jobs, RetryJob(j) PROVE Goal
  BY <1>15 DEF RetryJob, SetState, JobRecord
<1>16. ASSUME NEW j \in Jobs, DiscardJob(j) PROVE Goal
  BY <1>16 DEF DiscardJob, FreeJob, Entry, JobRecord
<1>17. ASSUME ArriveLate PROVE Goal
  <2>1. PICK call \in calls :
          IF call.put = "plan" THEN PutPlan(call.change, call.write) ELSE PutLock(call.put)
    BY <1>17 DEF ArriveLate
  <2>2. call.write \in Nat
    BY DEF Call
  <2>3. calls' \in SUBSET calls
    BY <1>17 DEF ArriveLate
  <2>4. /\ instance'.write <= rev
        /\ instance'.write = rev /\ last # None => instance'.plan = last \/ "reset" \in mishaps'
        /\ instance.plan # None => instance'.plan # None
    <3>1. CASE call.put = "plan"
      BY <2>1, <2>2, <3>1, OrderPut
    <3>2. CASE call.put # "plan"
      BY <2>1, <3>2 DEF PutLock
    <3> QED
      BY <3>1, <3>2
  <2>5. UNCHANGED <<last, rev, pc, wrote, queue>>
    BY <1>17 DEF ArriveLate
  <2> QED
    BY <2>3, <2>4, <2>5
<1>18. ASSUME Vanish PROVE Goal
  BY <1>18 DEF Vanish
<1>19. ASSUME ReadSetup PROVE Goal
  BY <1>19 DEF ReadSetup
<1>20. ASSUME Provision PROVE Goal
  <2>1. /\ instance'.write <= rev
        /\ instance'.write = rev /\ last # None => instance'.plan = last \/ "reset" \in mishaps'
        /\ instance.plan # None => instance'.plan # None
    <3>1. CASE setup = last
      <4>1. instance' = [instance EXCEPT !.plan = setup, !.write = rev] /\ setup # None
        BY <1>20, <3>1 DEF Provision
      <4> QED
        BY <3>1, <4>1
    <3>2. CASE setup # last
      BY <1>20, <3>2 DEF Provision
    <3> QED
      BY <3>1, <3>2
  <2>2. UNCHANGED <<last, rev, pc, wrote, queue, calls>>
    BY <1>20 DEF Provision
  <2> QED
    BY <2>1, <2>2
<1>21. ASSUME Use PROVE Goal
  BY <1>21 DEF Use
<1>22. ASSUME Count PROVE Goal
  BY <1>22 DEF Count
<1>23. ASSUME Judge PROVE Goal
  BY <1>23 DEF Judge
<1>24. ASSUME SetLock PROVE Goal
  <2>1. UNCHANGED <<last, rev, pc, wrote, queue, calls>> /\ mishaps \in SUBSET mishaps'
    BY <1>24 DEF SetLock, PutLock
  <2>2. instance'.write = instance.write /\ instance'.plan = instance.plan
    BY <1>24 DEF SetLock, PutLock
  <2> QED
    BY <2>1, <2>2
<1>25. ASSUME RollupFails PROVE Goal
  <2>1. UNCHANGED <<last, rev, pc, wrote, queue, instance, mishaps>>
    BY <1>25 DEF RollupFails
  <2>2. rollup.verdict # "plan"
    BY DEF MeterOK, Verdicts
  <2>3. \A call \in calls' : call \in calls \/ (instance.plan # None /\ call.put # "plan")
    BY <1>25, <2>2 DEF RollupFails, LockCall
  <2> QED
    BY <2>1, <2>3
<1>26. ASSUME UNCHANGED vars PROVE Goal
  BY <1>26 DEF vars
<1> HIDE DEF Goal
<1>27. ASSUME NEW c \in Changes, HandleChange(c) PROVE Goal
  BY <1>1, <1>2, <1>3, <1>4, <1>5, <1>6, <1>7, <1>8, <1>9, <1>10, <1>11, <1>27 DEF HandleChange
<1>28. ASSUME NEW j \in Jobs, HandlePlanChanged(j) PROVE Goal
  BY <1>12, <1>13, <1>14, <1>15, <1>16, <1>28 DEF HandlePlanChanged
<1>29. ASSUME HandleUsageRollup PROVE Goal
  BY <1>22, <1>23, <1>24, <1>25, <1>29 DEF HandleUsageRollup
<1> QED
  BY <1>17, <1>18, <1>19, <1>20, <1>21, <1>26, <1>27, <1>28, <1>29 DEF Next, Goal

\* A call that the instance accepts moves it to the number carried.
LEMMA PushPut ==
  ASSUME TypeOK, TypeOK', OrderOK, OrderOK', NEW c, NEW w \in Nat, PutPlan(c, w), w <= rev,
         UNCHANGED rev, "overtaken" \notin mishaps'
  PROVE  w = rev \/ instance.write = rev => instance'.write = rev
BY DEF TypeOK, WritersOK, PutPlan

\* While the instance is behind, a push of the last write is to come.
LEMMA PushStep ==
  ASSUME TypeOK, TypeOK', HandlerOK, OrderOK, OrderOK', PushOK, Next \/ UNCHANGED vars
  PROVE  PushOK'
<1> DEFINE Goal == PushOK'
<1> USE PlanAssumption DEF TypeOK, WritersOK, PushesOK, InstanceOK, OrderOK, PushOK, writers,
      pushes, meter
<1>1. ASSUME NEW c \in Changes, ReadRow(c) PROVE Goal
  BY <1>1 DEF ReadRow, Goto, Begin
<1>2. ASSUME NEW c \in Changes, UpsertRow(c) PROVE Goal
  BY <1>2 DEF UpsertRow, Goto, WriteRow
<1>3. ASSUME NEW c \in Changes, CancelRow(c) PROVE Goal
  BY <1>3 DEF CancelRow, Goto, WriteRow
<1>4. ASSUME NEW c \in Changes, RecordKey(c) PROVE Goal
  BY <1>4 DEF RecordKey, Goto
<1>5. ASSUME NEW c \in Changes, EventFails(c) PROVE Goal
  BY <1>5 DEF EventFails, Goto
<1>6. ASSUME NEW c \in Changes, Abandon(c) PROVE Goal
  BY <1>6 DEF Abandon, Goto
<1>7. ASSUME NEW c \in Changes, ReadTenant(c) PROVE Goal
  BY <1>7 DEF ReadTenant, Goto, Begin, HandlerOK
<1>8. ASSUME NEW c \in Changes, WriteTenant(c) PROVE Goal
  BY <1>8 DEF WriteTenant, Goto
<1>9. ASSUME NEW c \in Changes, OverrideRow(c) PROVE Goal
  BY <1>9 DEF OverrideRow, Goto, WriteRow
<1>10. ASSUME NEW c \in Changes, RequestDies(c) PROVE Goal
  <2>1. CASE pc[c] = "tenant"
    BY <1>10, <2>1 DEF RequestDies, Goto
  <2>2. CASE pc[c] # "tenant"
    BY <1>10, <2>2 DEF RequestDies
  <2> QED
    BY <2>1, <2>2
<1>11. ASSUME NEW c \in Changes, NEW j \in Jobs, Enqueue(c, j) PROVE Goal
  BY <1>11 DEF Enqueue, Goto, Entry, JobRecord
<1>12. ASSUME NEW j \in Jobs, SyncPlan(j) PROVE Goal
  <2> SUFFICES ASSUME mishaps' \cap {"overtaken", "reset", "abandoned"} = {},
                      last # None, instance'.plan # None,
                      pc[last] \notin {"row", "enqueue", "retry"}
               PROVE  \/ instance'.write = rev
                      \/ \E i \in Jobs : queue'[i].state = "waiting" /\ queue'[i].write = rev
    BY <1>12 DEF SyncPlan
  <2>1. queue[j].write \in Nat /\ queue[j].write <= rev
    BY <1>12 DEF SyncPlan, JobRecord
  <2>2. instance.plan # None /\ PutPlan(queue[j].change, queue[j].write)
    BY <1>12 DEF SyncPlan
  <2>3. mishaps \in SUBSET mishaps'
    BY <2>2 DEF PutPlan
  <2>4. queue[j].write = rev \/ instance.write = rev => instance'.write = rev
    BY <1>12, <2>1, <2>2, PushPut DEF SyncPlan
  <2>5. \A i \in Jobs : i # j => queue'[i] = queue[i]
    BY <1>12 DEF SyncPlan
  <2> QED
    BY <2>2, <2>3, <2>4, <2>5
<1>13. ASSUME NEW j \in Jobs, LiftLock(j) PROVE Goal
  BY <1>13 DEF LiftLock, PutLock
<1>14. ASSUME NEW j \in Jobs, AttemptFails(j) PROVE Goal
  <2>1. \A i \in Jobs : i # j => queue'[i] = queue[i]
    BY <1>14 DEF AttemptFails, SetState
  <2>2. CASE SetState(j, "waiting") /\ UNCHANGED mishaps
    <3>1. queue'[j].state = "waiting" /\ queue'[j].write = queue[j].write
      BY <2>2 DEF SetState, JobRecord
    <3> QED
      BY <1>14, <2>1, <2>2, <3>1 DEF AttemptFails
  <2>3. CASE mishaps' = mishaps \cup {"abandoned"}
    BY <1>14, <2>3 DEF AttemptFails
  <2> QED
    BY <1>14, <2>2, <2>3 DEF AttemptFails
<1>15. ASSUME NEW j \in Jobs, RetryJob(j) PROVE Goal
  BY <1>15 DEF RetryJob, SetState, JobRecord
<1>16. ASSUME NEW j \in Jobs, DiscardJob(j) PROVE Goal
  BY <1>16 DEF DiscardJob, FreeJob, Entry, JobRecord
<1>17. ASSUME ArriveLate PROVE Goal
  <2> SUFFICES ASSUME mishaps' \cap {"overtaken", "reset", "abandoned"} = {},
                      last # None, instance'.plan # None,
                      pc[last] \notin {"row", "enqueue", "retry"}
               PROVE  \/ instance'.write = rev
                      \/ \E i \in Jobs : queue'[i].state = "waiting" /\ queue'[i].write = rev
    BY <1>17 DEF ArriveLate
  <2>1. PICK call \in calls :
          IF call.put = "plan" THEN PutPlan(call.change, call.write) ELSE PutLock(call.put)
    BY <1>17 DEF ArriveLate
  <2>2. call.write \in Nat
    BY DEF Call
  <2>3. CASE call.put = "plan"
    <3>1. instance.write = rev => instance'.write = rev
      BY <1>17, <2>1, <2>2, <2>3, PushPut DEF ArriveLate
    <3>2. mishaps \in SUBSET mishaps'
      BY <2>1, <2>3 DEF PutPlan
    <3>3. CASE instance.plan = None
      BY <1>17, <3>1, <3>2, <3>3 DEF ArriveLate
    <3>4. CASE instance.plan # None
      BY <1>17, <3>1, <3>2, <3>4 DEF ArriveLate
    <3> QED
      BY <3>3, <3>4
  <2>4. CASE call.put # "plan"
    BY <1>17, <2>1, <2>4 DEF ArriveLate, PutLock
  <2> QED
    BY <2>3, <2>4
<1>18. ASSUME Vanish PROVE Goal
  BY <1>18 DEF Vanish
<1>19. ASSUME ReadSetup PROVE Goal
  BY <1>19 DEF ReadSetup
<1>20. ASSUME Provision PROVE Goal
  <2> SUFFICES ASSUME mishaps' \cap {"overtaken", "reset", "abandoned"} = {}, last # None
               PROVE  instance'.write = rev
    BY <1>20 DEF Provision
  <2>1. instance' = [instance EXCEPT !.plan = setup, !.write = rev]
    BY <1>20 DEF Provision
  <2> QED
    BY <2>1
<1>21. ASSUME Use PROVE Goal
  BY <1>21 DEF Use
<1>22. ASSUME Count PROVE Goal
  BY <1>22 DEF Count
<1>23. ASSUME Judge PROVE Goal
  BY <1>23 DEF Judge
<1>24. ASSUME SetLock PROVE Goal
  BY <1>24 DEF SetLock, PutLock, IdleRollup
<1>25. ASSUME RollupFails PROVE Goal
  BY <1>25 DEF RollupFails, IdleRollup, LockCall, Call
<1>26. ASSUME UNCHANGED vars PROVE Goal
  BY <1>26 DEF vars
<1> HIDE DEF Goal
<1>27. ASSUME NEW c \in Changes, HandleChange(c) PROVE Goal
  BY <1>1, <1>2, <1>3, <1>4, <1>5, <1>6, <1>7, <1>8, <1>9, <1>10, <1>11, <1>27 DEF HandleChange
<1>28. ASSUME NEW j \in Jobs, HandlePlanChanged(j) PROVE Goal
  BY <1>12, <1>13, <1>14, <1>15, <1>16, <1>28 DEF HandlePlanChanged
<1>29. ASSUME HandleUsageRollup PROVE Goal
  BY <1>22, <1>23, <1>24, <1>25, <1>29 DEF HandleUsageRollup
<1> QED
  BY <1>17, <1>18, <1>19, <1>20, <1>21, <1>26, <1>27, <1>28, <1>29 DEF Next, Goal

(* Once nothing is under way, the instance has the plan of the last write of *)
(* the subscription row, unless one of the named mishaps took place.         *)
THEOREM PlanIsPushed == Spec => []PlanAgrees
<1>1. Init => HandlerOK /\ OrderOK /\ PushOK
  BY PlanAssumption DEF Init, HandlerOK, OrderOK, PushOK, FreeJob, Entry
<1>2. TypeOK /\ OrderOK /\ PushOK => PlanAgrees
  BY DEF TypeOK, WritersOK, OrderOK, PushOK, PlanAgrees, Quiescent
<1> QED
  BY <1>1, <1>2, InitType, TypeStep, HandlerStep, OrderStep, PushStep, PTL DEF Spec

-----------------------------------------------------------------------------
\* A plan that is put leaves the usage lock to the rollup.
LEMMA PutKeepsLock ==
  ASSUME InstanceOK, NEW c, NEW w, PutPlan(c, w)
  PROVE  instance'.lock = instance.lock /\ instance'.plan = c /\ mishaps \in SUBSET mishaps'
BY DEF InstanceOK, PutPlan

\* A lock that is no longer due is about to be lifted.
LEMMA LockStep ==
  ASSUME TypeOK, TypeOK', OrderOK, HandlerOK, LockOK, Next \/ UNCHANGED vars
  PROVE  LockOK'
<1> DEFINE Goal == LockOK'
<1> USE PlanAssumption DEF TypeOK, WritersOK, PushesOK, InstanceOK, MeterOK, HandlerOK, LockOK,
          Lifting, PlanOfRow, Changes, Events, Writes, writers, pushes, meter
<1>1. ASSUME NEW c \in Changes, ReadRow(c) PROVE Goal
  BY <1>1 DEF ReadRow, Goto, Begin
<1>2. ASSUME NEW c \in Changes, UpsertRow(c) PROVE Goal
  BY <1>2 DEF UpsertRow, Goto, WriteRow
<1>3. ASSUME NEW c \in Changes, CancelRow(c) PROVE Goal
  BY <1>3 DEF CancelRow, Goto, WriteRow
<1>4. ASSUME NEW c \in Changes, RecordKey(c) PROVE Goal
  BY <1>4 DEF RecordKey, Goto
<1>5. ASSUME NEW c \in Changes, EventFails(c) PROVE Goal
  BY <1>5 DEF EventFails, Goto
<1>6. ASSUME NEW c \in Changes, Abandon(c) PROVE Goal
  BY <1>6 DEF Abandon, Goto
<1>7. ASSUME NEW c \in Changes, ReadTenant(c) PROVE Goal
  BY <1>7 DEF ReadTenant, Goto, Begin
<1>8. ASSUME NEW c \in Changes, WriteTenant(c) PROVE Goal
  BY <1>8 DEF WriteTenant, Goto
<1>9. ASSUME NEW c \in Changes, OverrideRow(c) PROVE Goal
  BY <1>9 DEF OverrideRow, Goto, WriteRow
<1>10. ASSUME NEW c \in Changes, RequestDies(c) PROVE Goal
  BY <1>10 DEF RequestDies, Goto
<1>11. ASSUME NEW c \in Changes, NEW j \in Jobs, Enqueue(c, j) PROVE Goal
  BY <1>11 DEF Enqueue, Goto, Entry, JobRecord
<1>12. ASSUME NEW j \in Jobs, SyncPlan(j) PROVE Goal
  <2>1. UNCHANGED <<row, pc, lifts, usage>> /\ mishaps \in SUBSET mishaps'
    BY <1>12 DEF SyncPlan, PutPlan
  <2>2. /\ instance'.lock = instance.lock
        /\ instance.plan # None => instance'.plan # None
    <3>1. CASE instance.plan = None
      BY <1>12, <3>1 DEF SyncPlan
    <3>2. CASE instance.plan # None
      <4>1. PutPlan(queue[j].change, queue[j].write) /\ queue[j].change # None
        BY <1>12, <3>2 DEF SyncPlan, OrderOK
      <4> QED
        BY <4>1, PutKeepsLock
    <3> QED
      BY <3>1, <3>2
  <2>3. instance.plan = None => instance' = instance
    BY <1>12 DEF SyncPlan
  <2>4. Lifting => Lifting'
    <3>1. \A i \in Jobs : i # j => queue'[i] = queue[i]
      BY <1>12 DEF SyncPlan
    <3>2. queue[j].lift = "lift" => queue'[j].state = "lock" /\ queue'[j].lift = "lift"
      BY <1>12 DEF SyncPlan, JobRecord
    <3> QED
      BY <2>1, <3>1, <3>2
  <2> QED
    BY <2>1, <2>2, <2>3, <2>4
<1>13. ASSUME NEW j \in Jobs, LiftLock(j) PROVE Goal
  BY <1>13 DEF LiftLock, PutLock
<1>14. ASSUME NEW j \in Jobs, AttemptFails(j) PROVE Goal
  <2>1. UNCHANGED <<row, pc, lifts, usage, instance>> /\ mishaps \in SUBSET mishaps'
    BY <1>14 DEF AttemptFails
  <2>2. CASE SetState(j, "waiting")
    <3>1. \A i \in Jobs : i # j => queue'[i] = queue[i]
      BY <2>2 DEF SetState
    <3>2. queue'[j].lift = queue[j].lift /\ queue'[j].state = "waiting"
      BY <2>2 DEF SetState, JobRecord
    <3>3. Lifting => Lifting'
      BY <2>1, <3>1, <3>2
    <3> QED
      BY <2>1, <3>3
  <2>3. CASE mishaps' = mishaps \cup {"abandoned"}
    BY <2>1, <2>3
  <2> QED
    BY <1>14, <2>2, <2>3 DEF AttemptFails
<1>15. ASSUME NEW j \in Jobs, RetryJob(j) PROVE Goal
  BY <1>15 DEF RetryJob, SetState, JobRecord
<1>16. ASSUME NEW j \in Jobs, DiscardJob(j) PROVE Goal
  BY <1>16 DEF DiscardJob, FreeJob, Entry, JobRecord
<1>17. ASSUME ArriveLate PROVE Goal
  <2>1. PICK call \in calls :
          IF call.put = "plan" THEN PutPlan(call.change, call.write) ELSE PutLock(call.put)
    BY <1>17 DEF ArriveLate
  <2>2. UNCHANGED <<row, pc, lifts, usage, queue>>
    BY <1>17 DEF ArriveLate
  <2>3. instance.plan # None
    BY DEF OrderOK
  <2>4. CASE call.put = "plan"
    <3>1. /\ mishaps \in SUBSET mishaps' /\ instance'.lock = instance.lock
          /\ instance'.plan # None
      <4>1. PutPlan(call.change, call.write) /\ call.change # None
        BY <2>1, <2>4 DEF OrderOK
      <4> QED
        BY <4>1, PutKeepsLock
    <3> QED
      BY <2>2, <2>3, <3>1
  <2>5. CASE call.put # "plan"
    <3>1. mishaps \in SUBSET mishaps' /\ instance'.lock = call.put /\ instance'.plan # None
      BY <2>1, <2>3, <2>5 DEF PutLock
    <3>2. call.put = "lock" /\ usage < Limit[PlanOfRow] => "stale" \in mishaps'
      BY <2>1, <2>5 DEF PutLock
    <3> QED
      BY <2>2, <3>1, <3>2
  <2> QED
    BY <2>4, <2>5
<1>18. ASSUME Vanish PROVE Goal
  BY <1>18 DEF Vanish
<1>19. ASSUME ReadSetup PROVE Goal
  BY <1>19 DEF ReadSetup
<1>20. ASSUME Provision PROVE Goal
  <2>1. UNCHANGED <<row, pc, lifts, usage, queue>> /\ mishaps \in SUBSET mishaps'
    BY <1>20 DEF Provision
  <2>2. instance'.lock = instance.lock
    <3>1. \/ instance' = [instance EXCEPT !.plan = setup, !.write = rev]
          \/ instance' = [instance EXCEPT !.plan = setup]
      BY <1>20 DEF Provision
    <3> QED
      BY <3>1
  <2>3. instance'.plan # None
    BY ZenonT(30), <1>20 DEF Provision
  <2> QED
    BY <2>1, <2>2, <2>3
<1>21. ASSUME Use PROVE Goal
  BY <1>21 DEF Use
<1>22. ASSUME Count PROVE Goal
  BY <1>22 DEF Count
<1>23. ASSUME Judge PROVE Goal
  BY <1>23 DEF Judge
<1>24. ASSUME SetLock PROVE Goal
  <2>1. UNCHANGED <<row, pc, lifts, usage, queue>> /\ mishaps \in SUBSET mishaps'
    BY <1>24 DEF SetLock, PutLock
  <2>2. CASE instance.plan = None
    BY <1>24, <2>1, <2>2 DEF SetLock
  <2>3. CASE instance.plan # None
    <3>1. instance'.lock = rollup.verdict /\ instance'.plan # None
      BY <1>24, <2>3 DEF SetLock, PutLock
    <3>2. rollup.verdict = "lock" /\ usage < Limit[PlanOfRow] => "stale" \in mishaps'
      BY <1>24, <2>3 DEF SetLock, PutLock
    <3> QED
      BY <2>1, <3>1, <3>2
  <2> QED
    BY <2>2, <2>3
<1>25. ASSUME RollupFails PROVE Goal
  BY <1>25 DEF RollupFails, IdleRollup, LockCall
<1>26. ASSUME UNCHANGED vars PROVE Goal
  BY <1>26 DEF vars
<1> HIDE DEF Goal
<1>27. ASSUME NEW c \in Changes, HandleChange(c) PROVE Goal
  BY <1>1, <1>2, <1>3, <1>4, <1>5, <1>6, <1>7, <1>8, <1>9, <1>10, <1>11, <1>27 DEF HandleChange
<1>28. ASSUME NEW j \in Jobs, HandlePlanChanged(j) PROVE Goal
  BY <1>12, <1>13, <1>14, <1>15, <1>16, <1>28 DEF HandlePlanChanged
<1>29. ASSUME HandleUsageRollup PROVE Goal
  BY <1>22, <1>23, <1>24, <1>25, <1>29 DEF HandleUsageRollup
<1> QED
  BY <1>17, <1>18, <1>19, <1>20, <1>21, <1>26, <1>27, <1>28, <1>29 DEF Next, Goal

(* Once nothing is under way, an instance is locked only over the limit of  *)
(* the subscription's plan, unless one of the named mishaps took place.      *)
THEOREM UpgradeUnlocks == Spec => []LockedIsOver
<1>1. Init => HandlerOK /\ OrderOK /\ LockOK
  BY PlanAssumption DEF Init, HandlerOK, OrderOK, FreeJob, Entry, LockOK
<1>2. TypeOK /\ HandlerOK /\ LockOK => LockedIsOver
  <2> SUFFICES ASSUME TypeOK, LockOK, Quiescent, instance.lock = "lock",
                      mishaps \cap {"stale", "unlifted", "abandoned"} = {}
               PROVE  usage >= Limit[PlanOfRow]
    BY DEF LockedIsOver
  <2>1. ~Lifting
    BY DEF Quiescent, Lifting
  <2>2. usage \in Nat /\ Limit[PlanOfRow] \in Nat
    BY PlanAssumption DEF TypeOK, WritersOK, MeterOK, PlanOfRow, Writes, Changes, Events
  <2> QED
    BY <2>1, <2>2 DEF LockOK
<1> QED
  BY <1>1, <1>2, InitType, TypeStep, HandlerStep, OrderStep, LockStep, PTL DEF Spec

(***************************************************************************)
(* AuthzCache                                                              *)
(***************************************************************************)

(* What a request has read was the current version when it read it. *)
ReadInv ==
  \A r \in Readers : stage[r] = "fill" =>
    /\ val[r] <= version /\ readAt[r] <= now /\ now <= readAt[r] + Gap
    /\ val[r] # version => readAt[r] <= superseded[val[r]]

(* An entry of a replaced version expires TTL + Gap after the replacement. *)
EntryInv ==
  /\ cache <= version
  /\ cache # version => expires <= superseded[cache] + Gap + TTL

(* No version was replaced in the future. *)
ClockInv == \A v \in Versions : superseded[v] <= now

StalenessInv == ReadInv /\ EntryInv /\ ClockInv /\ expires <= now + TTL

\* Every step of the cache keeps the types.
LEMMA CacheTypeStep ==
  ASSUME CacheTypeOK, [CacheNext]_cacheVars
  PROVE  CacheTypeOK'
<1> USE CacheAssumption DEF CacheTypeOK, Versions, rows, entry, requests, changes
<1> DEFINE Goal == CacheTypeOK'
<1>1. ASSUME NEW r \in Readers, Lookup(r) PROVE Goal
  <2>1. CASE Live /\ val' = [val EXCEPT ![r] = cache] /\ GoesTo(r, "decided") /\ UNCHANGED redisFaults
    BY <1>1, <2>1 DEF Lookup, GoesTo, RedisFails, Live
  <2>2. CASE GoesTo(r, "read") /\ UNCHANGED <<val, redisFaults>>
    BY <1>1, <2>2 DEF Lookup, GoesTo, RedisFails, Live
  <2>3. CASE RedisFails /\ GoesTo(r, "read") /\ UNCHANGED val
    BY SMTT(40), <1>1, <2>3 DEF Lookup, GoesTo, RedisFails, Live
  <2> QED
    BY <1>1, <2>1, <2>2, <2>3 DEF Lookup
<1>2. ASSUME NEW r \in Readers, ReadRows(r) PROVE Goal
  BY <1>2 DEF ReadRows, GoesTo
<1>3. ASSUME NEW r \in Readers, Fill(r) PROVE Goal
  <2>1. CASE /\ cache' = val[r] /\ expires' = now + TTL
             /\ spoilt' = IF val[r] < reported THEN spoilt \cup {val[r]} ELSE spoilt
             /\ UNCHANGED redisFaults
    <3>1. cache' \in Versions /\ spoilt' \in SUBSET Versions
      BY <2>1
    <3>2. expires' \in 0..MaxTime + TTL
      BY <1>3, <2>1 DEF Fill
    <3>3. stage' \in [Readers -> {"idle", "read", "fill", "decided"}]
      BY <1>3 DEF Fill, GoesTo
    <3> QED
      BY SMTT(40), <1>3, <2>1, <3>1, <3>2, <3>3 DEF Fill
  <2>2. CASE RedisFails /\ UNCHANGED entry
    BY SMTT(40), <1>3, <2>2 DEF Fill, GoesTo, RedisFails
  <2> QED
    BY <1>3, <2>1, <2>2 DEF Fill
<1>4. ASSUME NEW r \in Readers, Respond(r) PROVE Goal
  BY <1>4 DEF Respond, GoesTo
<1>5. ASSUME NEW w \in Writers, ChangeRole(w) PROVE Goal
  BY SMTT(40), <1>5 DEF ChangeRole, NewVersion
<1>6. ASSUME NEW w \in Writers, Invalidate(w) PROVE Goal
  BY <1>6 DEF Invalidate
<1>7. ASSUME NEW w \in Writers, InvalidateFails(w) PROVE Goal
  BY <1>7 DEF InvalidateFails, RedisFails
<1>8. ASSUME EditRole PROVE Goal
  BY SMTT(30), <1>8 DEF EditRole, NewVersion
<1>9. ASSUME Flush PROVE Goal
  BY <1>9 DEF Flush
<1>10. ASSUME Tick PROVE Goal
  BY <1>10 DEF Tick
<1>11. ASSUME UNCHANGED cacheVars PROVE Goal
  BY <1>11 DEF cacheVars
<1> HIDE DEF Goal
<1>12. Goal
  BY <1>1, <1>2, <1>3, <1>4, <1>5, <1>6, <1>7, <1>8, <1>9, <1>10, <1>11 DEF CacheNext,
     GetUserAuthz
<1> QED
  BY <1>12 DEF Goal

(* Every variable keeps its type, whatever fails and however time passes. *)
THEOREM CacheTypeCorrect == CacheSpec => []CacheTypeOK
<1>1. CacheInit => CacheTypeOK
  BY CacheAssumption DEF CacheInit, CacheTypeOK, Versions
<1> QED
  BY <1>1, CacheTypeStep, PTL DEF CacheSpec

-----------------------------------------------------------------------------
\* An entry of a replaced version expires TTL + Gap after it at most.
LEMMA StalenessStep ==
  ASSUME CacheTypeOK, CacheTypeOK', StalenessInv, [CacheNext]_cacheVars
  PROVE  StalenessInv'
<1> USE CacheAssumption DEF CacheTypeOK, Versions, rows, entry, requests, changes,
        StalenessInv, ReadInv, EntryInv, ClockInv
<1> DEFINE Goal == StalenessInv'
<1>1. ASSUME NEW r \in Readers, Lookup(r) PROVE Goal
  <2>1. CASE Live /\ val' = [val EXCEPT ![r] = cache] /\ GoesTo(r, "decided") /\ UNCHANGED redisFaults
    BY <1>1, <2>1 DEF Lookup, GoesTo, RedisFails, Live
  <2>2. CASE GoesTo(r, "read") /\ UNCHANGED <<val, redisFaults>>
    BY <1>1, <2>2 DEF Lookup, GoesTo, RedisFails, Live
  <2>3. CASE RedisFails /\ GoesTo(r, "read") /\ UNCHANGED val
    BY <1>1, <2>3 DEF Lookup, GoesTo, RedisFails, Live
  <2> QED
    BY <1>1, <2>1, <2>2, <2>3 DEF Lookup
<1>2. ASSUME NEW r \in Readers, ReadRows(r) PROVE Goal
  BY <1>2 DEF ReadRows, GoesTo
<1>3. ASSUME NEW r \in Readers, Fill(r) PROVE Goal
  <2>1. CASE /\ cache' = val[r] /\ expires' = now + TTL
             /\ spoilt' = IF val[r] < reported THEN spoilt \cup {val[r]} ELSE spoilt
             /\ UNCHANGED redisFaults
    BY SMTT(40), <1>3, <2>1 DEF Fill, GoesTo, RedisFails
  <2>2. CASE RedisFails /\ UNCHANGED entry
    BY <1>3, <2>2 DEF Fill, GoesTo, RedisFails
  <2> QED
    BY <1>3, <2>1, <2>2 DEF Fill
<1>4. ASSUME NEW r \in Readers, Respond(r) PROVE Goal
  BY <1>4 DEF Respond, GoesTo
<1>5. ASSUME NEW w \in Writers, ChangeRole(w) PROVE Goal
  BY SMTT(40), <1>5 DEF ChangeRole, NewVersion
<1>6. ASSUME NEW w \in Writers, Invalidate(w) PROVE Goal
  BY <1>6 DEF Invalidate
<1>7. ASSUME NEW w \in Writers, InvalidateFails(w) PROVE Goal
  BY <1>7 DEF InvalidateFails, RedisFails
<1>8. ASSUME EditRole PROVE Goal
  BY <1>8 DEF EditRole, NewVersion
<1>9. ASSUME Flush PROVE Goal
  BY <1>9 DEF Flush
<1>10. ASSUME Tick PROVE Goal
  BY <1>10 DEF Tick
<1>11. ASSUME UNCHANGED cacheVars PROVE Goal
  BY <1>11 DEF cacheVars
<1> HIDE DEF Goal
<1>12. Goal
  BY <1>1, <1>2, <1>3, <1>4, <1>5, <1>6, <1>7, <1>8, <1>9, <1>10, <1>11 DEF CacheNext,
     GetUserAuthz
<1> QED
  BY <1>12 DEF Goal

\* So no entry outlives its version by more than that.
LEMMA StalenessInvariant == CacheSpec => [](CacheTypeOK /\ StalenessInv)
<1>1. CacheInit => StalenessInv
  BY CacheAssumption DEF CacheInit, StalenessInv, ReadInv, EntryInv, ClockInv
<1> QED
  BY <1>1, StalenessStep, CacheTypeCorrect, PTL DEF CacheSpec

Timely(r) ==
  stage[r] # "decided" /\ stage'[r] = "decided" =>
    val'[r] = version \/ now < superseded[val'[r]] + Gap + TTL

\* A request decides on roles that are replaced for that long at most.
LEMMA DecisionStep ==
  ASSUME CacheTypeOK, StalenessInv, [CacheNext]_cacheVars, NEW q \in Readers
  PROVE  Timely(q)
<1> USE CacheAssumption DEF CacheTypeOK, Versions, rows, entry, requests, changes,
        StalenessInv, ReadInv, EntryInv, Timely
<1> DEFINE Goal == Timely(q)
<1>1. ASSUME NEW r \in Readers, Lookup(r) PROVE Goal
  <2>1. CASE Live /\ val' = [val EXCEPT ![r] = cache] /\ GoesTo(r, "decided") /\ UNCHANGED redisFaults
    BY SMTT(40), <1>1, <2>1 DEF Lookup, GoesTo, RedisFails, Live
  <2>2. CASE GoesTo(r, "read") /\ UNCHANGED <<val, redisFaults>>
    BY <1>1, <2>2 DEF Lookup, GoesTo, RedisFails, Live
  <2>3. CASE RedisFails /\ GoesTo(r, "read") /\ UNCHANGED val
    BY <1>1, <2>3 DEF Lookup, GoesTo, RedisFails, Live
  <2> QED
    BY <1>1, <2>1, <2>2, <2>3 DEF Lookup
<1>2. ASSUME NEW r \in Readers, ReadRows(r) PROVE Goal
  BY <1>2 DEF ReadRows, GoesTo
<1>3. ASSUME NEW r \in Readers, Fill(r) PROVE Goal
  <2>1. CASE /\ cache' = val[r] /\ expires' = now + TTL
             /\ spoilt' = IF val[r] < reported THEN spoilt \cup {val[r]} ELSE spoilt
             /\ UNCHANGED redisFaults
    BY SMTT(40), <1>3, <2>1 DEF Fill, GoesTo, RedisFails
  <2>2. CASE RedisFails /\ UNCHANGED entry
    BY SMTT(40), <1>3, <2>2 DEF Fill, GoesTo, RedisFails
  <2> QED
    BY <1>3, <2>1, <2>2 DEF Fill
<1>4. ASSUME NEW r \in Readers, Respond(r) PROVE Goal
  BY <1>4 DEF Respond, GoesTo
<1>5. ASSUME NEW w \in Writers, ChangeRole(w) PROVE Goal
  BY <1>5 DEF ChangeRole, NewVersion
<1>6. ASSUME NEW w \in Writers, Invalidate(w) PROVE Goal
  BY <1>6 DEF Invalidate
<1>7. ASSUME NEW w \in Writers, InvalidateFails(w) PROVE Goal
  BY <1>7 DEF InvalidateFails, RedisFails
<1>8. ASSUME EditRole PROVE Goal
  BY <1>8 DEF EditRole, NewVersion
<1>9. ASSUME Flush PROVE Goal
  BY <1>9 DEF Flush
<1>10. ASSUME Tick PROVE Goal
  BY <1>10 DEF Tick
<1>11. ASSUME UNCHANGED cacheVars PROVE Goal
  BY <1>11 DEF cacheVars
<1> HIDE DEF Goal
<1>12. Goal
  BY <1>1, <1>2, <1>3, <1>4, <1>5, <1>6, <1>7, <1>8, <1>9, <1>10, <1>11 DEF CacheNext,
     GetUserAuthz
<1> QED
  BY <1>12 DEF Goal

(* getUserAuthz (engine.ts:25-70) never decides on roles that were replaced  *)
(* TTL + Gap ago or earlier, whatever the writers invalidate and whichever   *)
(* Redis calls fail.                                                         *)
THEOREM StalenessIsBounded == CacheSpec => BoundedStaleness
<1>1. CacheTypeOK /\ StalenessInv /\ [CacheNext]_cacheVars
        => [\A r \in Readers :
              stage[r] # "decided" /\ stage'[r] = "decided" =>
                val'[r] = version \/ now < superseded[val'[r]] + Gap + TTL]_cacheVars
  BY DecisionStep DEF Timely
<1> QED
  BY <1>1, StalenessInvariant, PTL DEF CacheSpec, BoundedStaleness

-----------------------------------------------------------------------------
(* Nothing is reported before it is committed. *)
ReportInv == reported <= version /\ \A w \in Writers : own[w] <= version

(* While the entry lives, it holds what was reported, or was spoilt. *)
LiveInv == Live => cache >= reported \/ cache \in spoilt

(* What a request has read is as new as what was reported when it started. *)
FloorInv ==
  \A r \in Readers :
    /\ floor[r] <= reported
    /\ stage[r] = "fill" => val[r] >= floor[r]
    /\ stage[r] = "decided" => val[r] >= floor[r] \/ val[r] \in spoilt

ChangeInv == ReportInv /\ LiveInv /\ FloorInv

\* An entry older than a reported change was filled by an older lookup.
LEMMA ChangeStep ==
  ASSUME CacheTypeOK, CacheTypeOK', ChangeInv, [CacheNext]_cacheVars
  PROVE  ChangeInv'
<1> USE CacheAssumption DEF CacheTypeOK, Versions, rows, entry, requests, changes,
        ChangeInv, ReportInv, LiveInv, FloorInv, Live
<1> DEFINE Goal == ChangeInv'
<1>1. ASSUME NEW r \in Readers, Lookup(r) PROVE Goal
  <2>1. CASE Live /\ val' = [val EXCEPT ![r] = cache] /\ GoesTo(r, "decided") /\ UNCHANGED redisFaults
    BY <1>1, <2>1 DEF Lookup, GoesTo
  <2>2. CASE GoesTo(r, "read") /\ UNCHANGED <<val, redisFaults>>
    BY <1>1, <2>2 DEF Lookup, GoesTo
  <2>3. CASE RedisFails /\ GoesTo(r, "read") /\ UNCHANGED val
    BY <1>1, <2>3 DEF Lookup, GoesTo
  <2> QED
    BY <1>1, <2>1, <2>2, <2>3 DEF Lookup
<1>2. ASSUME NEW r \in Readers, ReadRows(r) PROVE Goal
  BY <1>2 DEF ReadRows, GoesTo
<1>3. ASSUME NEW r \in Readers, Fill(r) PROVE Goal
  <2>1. CASE /\ cache' = val[r] /\ expires' = now + TTL
             /\ spoilt' = IF val[r] < reported THEN spoilt \cup {val[r]} ELSE spoilt
             /\ UNCHANGED redisFaults
    BY SMTT(40), <1>3, <2>1 DEF Fill, GoesTo
  <2>2. CASE RedisFails /\ UNCHANGED entry
    BY <1>3, <2>2 DEF Fill, GoesTo
  <2> QED
    BY <1>3, <2>1, <2>2 DEF Fill
<1>4. ASSUME NEW r \in Readers, Respond(r) PROVE Goal
  BY <1>4 DEF Respond, GoesTo
<1>5. ASSUME NEW w \in Writers, ChangeRole(w) PROVE Goal
  BY SMTT(40), <1>5 DEF ChangeRole, NewVersion
<1>6. ASSUME NEW w \in Writers, Invalidate(w) PROVE Goal
  BY SMTT(40), <1>6 DEF Invalidate
<1>7. ASSUME NEW w \in Writers, InvalidateFails(w) PROVE Goal
  BY <1>7 DEF InvalidateFails
<1>8. ASSUME EditRole PROVE Goal
  BY <1>8 DEF EditRole, NewVersion
<1>9. ASSUME Flush PROVE Goal
  BY <1>9 DEF Flush
<1>10. ASSUME Tick PROVE Goal
  BY <1>10 DEF Tick
<1>11. ASSUME UNCHANGED cacheVars PROVE Goal
  BY <1>11 DEF cacheVars
<1> HIDE DEF Goal
<1>12. Goal
  BY <1>1, <1>2, <1>3, <1>4, <1>5, <1>6, <1>7, <1>8, <1>9, <1>10, <1>11 DEF CacheNext,
     GetUserAuthz
<1> QED
  BY <1>12 DEF Goal

(* A request that starts after the PATCH of a role change has answered is    *)
(* decided on the new roles, unless a slower request put the old ones back   *)
(* (engine.ts:62-69, members/[userId]/role/route.ts:76-84).                  *)
THEOREM ChangesTakeEffect == CacheSpec => []ChangeTakesEffect
<1>1. CacheInit => ChangeInv
  BY CacheAssumption DEF CacheInit, ChangeInv, ReportInv, LiveInv, FloorInv
<1>2. ChangeInv => ChangeTakesEffect
  BY DEF ChangeInv, FloorInv, ChangeTakesEffect
<1> QED
  BY <1>1, <1>2, ChangeStep, CacheTypeCorrect, PTL DEF CacheSpec
=============================================================================
