----------------------------- MODULE OutboxSync -----------------------------
(***************************************************************************)
(* The identity-sync outbox of one ACTIVE tenant: console requests that    *)
(* change users, memberships and roles append dirty markers to the table   *)
(* sync_outbox_events and enqueue app-sync jobs; worker processes drain    *)
(* the markers and converge every ACTIVE connected app to the identity     *)
(* state they read; a reconcile tick re-enqueues the tenant on a timer.    *)
(*                                                                         *)
(* Data is abstracted to a version number: version counts the committed    *)
(* identity changes, and app[a][p] is the oldest version that any resource *)
(* in part p (users or groups) of app a still reflects.  The console, the  *)
(* workers, Postgres, the BullMQ queue and the app's SCIM server fail and  *)
(* interleave at every await of the code.                                  *)
(***************************************************************************)
EXTENDS Integers

CONSTANTS
  Workers,      \* processes that run the app-sync worker, one job at a time each
  Requests,     \* console requests that may be in flight together
  Tick,         \* the app-sync-reconcile job
  None,         \* no job, no instance
  Apps,         \* the tenant's connected app instances
  Events,       \* rows of the outbox table (bound, rows of no interest are reused)
  Jobs,         \* places in the app-sync queue (bound)
  MaxVersion,   \* bound on committed identity changes
  MaxAttempts,  \* attempts of a job, 5 in queues.ts
  MaxFaults     \* bound on crashes and failed calls

ASSUME OutboxAssumption ==
  /\ Tick \notin Requests
  /\ None \notin Jobs \cup Apps
  /\ MaxVersion \in Nat
  /\ MaxAttempts \in Nat \ {0}
  /\ MaxFaults \in Nat

VARIABLES
  version,   \* identity changes committed to Postgres
  status,    \* SyncOutboxEvent.status of each row; an unused row is DONE
  wrote,     \* the version an unsettled row's transaction committed (history)
  instance,  \* ConnectedAppInstance.status
  app,       \* what each app reflects, per part
  acked,     \* newest change the outbox reported DONE for each app (history)
  queue,     \* the app-sync jobs
  producer,  \* progress of each console request and of the tick
  pc,        \* progress of each worker in handleAppSync
  job,       \* the job a worker runs
  claimed,   \* eventIds of the run
  served,    \* instances the run read as ACTIVE
  todo,      \* those it has not converged yet
  target,    \* the instance being converged
  snap,      \* the memberships and bindings read for it
  faults     \* failures so far

database == <<version, status, wrote, instance>>
remote   == <<app, acked>>
local    == <<claimed, served, todo, target, snap>>
vars     == <<database, remote, queue, producer, pc, job, local, faults>>

Parts     == {"users", "groups"}
Unread    == MaxVersion + 1          \* a query of the run not answered yet
Producers == Requests \cup {Tick}
JobRecord == [state : {"free", "waiting", "active", "delayed"},
              attempts : 0..MaxAttempts - 1, stalls : 0..1]
Entry(state, attempts, stalls) ==
  [state |-> state, attempts |-> attempts, stalls |-> stalls]
Free == Entry("free", 0, 0)
Min2(x, y) == IF x <= y THEN x ELSE y

Converging == {"read", "users", "groups"}
Labels == {"idle", "find", "claim", "instances", "next", "failed"} \cup Converging

TypeOK ==
  /\ version \in 0..MaxVersion
  /\ status \in [Events -> {"PENDING", "PROCESSING", "FAILED", "DONE"}]
  /\ wrote \in [Events -> 0..MaxVersion]
  /\ instance \in [Apps -> {"ACTIVE", "PAUSED"}]
  /\ app \in [Apps -> [Parts -> 0..MaxVersion]]
  /\ acked \in [Apps -> 0..MaxVersion]
  /\ queue \in [Jobs -> JobRecord]
  /\ producer \in [Producers -> {"idle", "mark", "enqueue"}]
  /\ pc \in [Workers -> Labels]
  /\ job \in [Workers -> Jobs \cup {None}]
  /\ claimed \in [Workers -> SUBSET Events]
  /\ served \in [Workers -> SUBSET Apps]
  /\ todo \in [Workers -> SUBSET Apps]
  /\ target \in [Workers -> Apps \cup {None}]
  /\ snap \in [Workers -> [Parts -> 0..Unread]]
  /\ faults \in 0..MaxFaults

Init ==
  /\ version = 0
  /\ status = [e \in Events |-> "DONE"]
  /\ wrote = [e \in Events |-> 0]
  /\ instance = [a \in Apps |-> "ACTIVE"]
  /\ app = [a \in Apps |-> [p \in Parts |-> 0]]
  /\ acked = [a \in Apps |-> 0]
  /\ queue = [j \in Jobs |-> Free]
  /\ producer = [r \in Producers |-> "idle"]
  /\ pc = [w \in Workers |-> "idle"]
  /\ job = [w \in Workers |-> None]
  /\ claimed = [w \in Workers |-> {}]
  /\ served = [w \in Workers |-> {}]
  /\ todo = [w \in Workers |-> {}]
  /\ target = [w \in Workers |-> None]
  /\ snap = [w \in Workers |-> [p \in Parts |-> Unread]]
  /\ faults = 0

-----------------------------------------------------------------------------
(* The producers. *)

(* Where a new marker goes: a row nobody will touch again, DONE or stranded  *)
(* in PROCESSING by a run that died.  With none left in the bounded table    *)
(* the marker joins one that no run holds: Find selects both or neither.     *)
Unheld(e) == \A w \in Workers : e \notin claimed[w]
Spent(e) == status[e] \in {"DONE", "PROCESSING"} /\ Unheld(e)
Reusable(e) == IF \E f \in Events : Spent(f) THEN Spent(e) ELSE Unheld(e)

(* appendSyncOutbox: one PENDING row in the transaction that makes v current. *)
AppendEvent(v) ==
  \E e \in Events :
    /\ Reusable(e)
    /\ status' = [status EXCEPT ![e] = "PENDING"]
    /\ wrote' = [wrote EXCEPT ![e] = v]

(* A console request commits an identity change and its marker together. *)
Mutate(r) ==
  /\ producer[r] = "idle"
  /\ version < MaxVersion
  /\ version' = version + 1
  /\ AppendEvent(version + 1)
  /\ producer' = [producer EXCEPT ![r] = "mark"]
  /\ UNCHANGED <<instance, remote, queue, pc, job, local, faults>>

(* An identity change whose handler appends no marker: a platform admin    *)
(* suspends or reinstates a user.                                          *)
MutateUnmarked ==
  /\ version < MaxVersion
  /\ version' = version + 1
  /\ UNCHANGED <<status, wrote, instance, remote, queue, producer, pc, job, local, faults>>

(* enqueueRoleSync, first half; the tick creates the same TENANT marker. *)
Mark(r) ==
  /\ producer[r] = "mark"
  /\ AppendEvent(version)
  /\ producer' = [producer EXCEPT ![r] = "enqueue"]
  /\ UNCHANGED <<version, instance, remote, queue, pc, job, local, faults>>

(* enqueueRoleSync, second half: the job is added to the queue. *)
Enqueue(r) ==
  /\ producer[r] = "enqueue"
  /\ \E j \in Jobs :
       /\ queue[j].state = "free"
       /\ queue' = [queue EXCEPT ![j] = Entry("waiting", 0, 0)]
  /\ producer' = [producer EXCEPT ![r] = "idle"]
  /\ UNCHANGED <<database, remote, pc, job, local, faults>>

(* Postgres or Redis refuses, or the process dies: enqueueRoleSync swallows *)
(* the error, so the request is over with its marker or its job missing.    *)
Abandon(r) ==
  /\ producer[r] \in {"mark", "enqueue"}
  /\ faults < MaxFaults
  /\ faults' = faults + 1
  /\ producer' = [producer EXCEPT ![r] = "idle"]
  /\ UNCHANGED <<database, remote, queue, pc, job, local>>

(* A mutant of ReconcileTick: the tenant is selected only if it has markers *)
(* left to drain.                                                           *)
ReconcileOutstanding ==
  /\ producer[Tick] = "idle"
  /\ \E a \in Apps : instance[a] = "ACTIVE"
  /\ \E e \in Events : status[e] \in {"PENDING", "FAILED"}
  /\ producer' = [producer EXCEPT ![Tick] = "mark"]
  /\ UNCHANGED <<database, remote, queue, pc, job, local, faults>>

(* The timer fires: the tenant is selected if it has an ACTIVE instance. *)
ReconcileTick ==
  /\ producer[Tick] = "idle"
  /\ \E a \in Apps : instance[a] = "ACTIVE"
  /\ producer' = [producer EXCEPT ![Tick] = "mark"]
  /\ UNCHANGED <<database, remote, queue, pc, job, local, faults>>

(* A platform admin pauses or re-activates an instance; no marker either. *)
SetInstanceStatus(a) ==
  /\ instance' = [instance EXCEPT ![a] = IF @ = "ACTIVE" THEN "PAUSED" ELSE "ACTIVE"]
  /\ UNCHANGED <<version, status, wrote, remote, queue, producer, pc, job, local, faults>>

-----------------------------------------------------------------------------
(* The queue, as BullMQ runs it (external). *)

(* The attempt ended with an error: back off, or give up after the last. *)
RetryOf(j) ==
  IF queue[j].attempts + 1 < MaxAttempts
    THEN [queue EXCEPT ![j] = Entry("delayed", @.attempts + 1, @.stalls)]
    ELSE [queue EXCEPT ![j] = Free]

(* The backoff of a failed attempt is over. *)
Promote(j) ==
  /\ queue[j].state = "delayed"
  /\ queue' = [queue EXCEPT ![j] = Entry("waiting", @.attempts, @.stalls)]
  /\ UNCHANGED <<database, remote, producer, pc, job, local, faults>>

(* An active job whose worker died has stalled: it is replayed once, and    *)
(* failed if it stalls again.                                               *)
Stalled(j) ==
  /\ queue[j].state = "active"
  /\ \A w \in Workers : job[w] # j
  /\ queue' = IF queue[j].stalls = 0
                THEN [queue EXCEPT ![j] = Entry("waiting", @.attempts, 1)]
                ELSE [queue EXCEPT ![j] = Free]
  /\ UNCHANGED <<database, remote, producer, pc, job, local, faults>>

-----------------------------------------------------------------------------
(* handleAppSync. *)

(* The worker is free again; its job is completed, delayed or stalled. *)
Stop(w) ==
  /\ pc' = [pc EXCEPT ![w] = "idle"]
  /\ job' = [job EXCEPT ![w] = None]
  /\ claimed' = [claimed EXCEPT ![w] = {}]
  /\ served' = [served EXCEPT ![w] = {}]
  /\ todo' = [todo EXCEPT ![w] = {}]
  /\ target' = [target EXCEPT ![w] = None]
  /\ snap' = [snap EXCEPT ![w] = [p \in Parts |-> Unread]]

(* A free worker takes a waiting job; makeWorker gives it one at a time. *)
Take(w, j) ==
  /\ pc[w] = "idle"
  /\ queue[j].state = "waiting"
  /\ queue' = [queue EXCEPT ![j] = Entry("active", @.attempts, @.stalls)]
  /\ job' = [job EXCEPT ![w] = j]
  /\ pc' = [pc EXCEPT ![w] = "find"]
  /\ UNCHANGED <<database, remote, producer, local, faults>>

(* A mutant of SetStatus: the update is filtered by tenant, not by row. *)
SetTenantStatus(rows, new) == [e \in Events |-> new]

(* updateMany over the rows of the run, whatever their status is by now. *)
SetStatus(rows, new) == [e \in Events |-> IF e \in rows THEN new ELSE status[e]]

(* Select the markers that are PENDING or FAILED; with none, the job is done. *)
Find(w) ==
  LET pending == {e \in Events : status[e] \in {"PENDING", "FAILED"}} IN
  /\ pc[w] = "find"
  /\ \/ /\ pending = {}
        /\ queue' = [queue EXCEPT ![job[w]] = Free]
        /\ Stop(w)
     \/ /\ pending # {}
        /\ claimed' = [claimed EXCEPT ![w] = pending]
        /\ pc' = [pc EXCEPT ![w] = "claim"]
        /\ UNCHANGED <<queue, job, served, todo, target, snap>>
  /\ UNCHANGED <<database, remote, producer, faults>>

(* Mark the selected rows PROCESSING. *)
Claim(w) ==
  /\ pc[w] = "claim"
  /\ status' = SetStatus(claimed[w], "PROCESSING")
  /\ pc' = [pc EXCEPT ![w] = "instances"]
  /\ UNCHANGED <<version, wrote, instance, remote, queue, producer, job, local, faults>>

(* Read the ACTIVE instances, which are converged one after the other. *)
ReadInstances(w) ==
  LET active == {a \in Apps : instance[a] = "ACTIVE"} IN
  /\ pc[w] = "instances"
  /\ served' = [served EXCEPT ![w] = active]
  /\ todo' = [todo EXCEPT ![w] = active]
  /\ pc' = [pc EXCEPT ![w] = "next"]
  /\ UNCHANGED <<database, remote, queue, producer, job, claimed, target, snap, faults>>

(* convergeAppInstance starts on one of them. *)
StartConverge(w, a) ==
  /\ pc[w] = "next"
  /\ a \in todo[w]
  /\ target' = [target EXCEPT ![w] = a]
  /\ pc' = [pc EXCEPT ![w] = "read"]
  /\ UNCHANGED <<database, remote, queue, producer, job, claimed, served, todo, snap, faults>>

(* A mutant of ReadPart: the query is answered by a replica that lags. *)
ReadStalePart(w, p) ==
  /\ pc[w] = "read"
  /\ snap[w][p] = Unread
  /\ \E v \in 0..version : snap' = [snap EXCEPT ![w][p] = v]
  /\ pc' = [pc EXCEPT ![w] = IF \E q \in Parts \ {p} : snap[w][q] = Unread
                               THEN "read" ELSE "users"]
  /\ UNCHANGED <<database, remote, queue, producer, job, claimed, served, todo, target, faults>>

(* Memberships and bindings are two queries of one Promise.all: each sees   *)
(* the identity state at a moment of its own.                               *)
ReadPart(w, p) ==
  /\ pc[w] = "read"
  /\ snap[w][p] = Unread
  /\ snap' = [snap EXCEPT ![w][p] = version]
  /\ pc' = [pc EXCEPT ![w] = IF \E q \in Parts \ {p} : snap[w][q] = Unread
                               THEN "read" ELSE "users"]
  /\ UNCHANGED <<database, remote, queue, producer, job, claimed, served, todo, target, faults>>

(* The state a run writes.  A binding of a user who was not among the        *)
(* memberships is skipped, so groups reflect the older of the two reads.     *)
Desired(w, p) ==
  IF p = "users" THEN snap[w]["users"] ELSE Min2(snap[w]["users"], snap[w]["groups"])

(* Step 1: every member exists at the app with the active flag that was read. *)
WriteUsers(w) ==
  /\ pc[w] = "users"
  /\ app' = [app EXCEPT ![target[w]]["users"] = Desired(w, "users")]
  /\ pc' = [pc EXCEPT ![w] = "groups"]
  /\ UNCHANGED <<database, acked, queue, producer, job, local, faults>>

(* Steps 2 and 3: the groups are replaced and stale ones deleted, and then   *)
(* lastSyncedAt is saved.                                                    *)
WriteGroups(w) ==
  /\ pc[w] = "groups"
  /\ app' = [app EXCEPT ![target[w]]["groups"] = Desired(w, "groups")]
  /\ todo' = [todo EXCEPT ![w] = @ \ {target[w]}]
  /\ target' = [target EXCEPT ![w] = None]
  /\ snap' = [snap EXCEPT ![w] = [p \in Parts |-> Unread]]
  /\ pc' = [pc EXCEPT ![w] = "next"]
  /\ UNCHANGED <<database, acked, queue, producer, job, claimed, served, faults>>

(* Rows are DONE and the job is completed: the newest change among them is   *)
(* acknowledged for every instance the run served.                           *)
SettleRows(w, rows) ==
  /\ pc[w] = "next"
  /\ todo[w] = {}
  /\ status' = SetStatus(rows, "DONE")
  /\ wrote' = [e \in Events |-> IF e \in rows THEN 0 ELSE wrote[e]]
  /\ \E newest \in rows :
       /\ \A e \in rows : wrote[e] <= wrote[newest]
       /\ acked' = [a \in Apps |-> IF a \in served[w] /\ acked[a] < wrote[newest]
                                     THEN wrote[newest] ELSE acked[a]]
  /\ queue' = [queue EXCEPT ![job[w]] = Free]
  /\ Stop(w)
  /\ UNCHANGED <<version, instance, app, producer, faults>>

(* A mutant of Settle: every marker written so far is settled. *)
SettleEverything(w) == SettleRows(w, Events)

(* All instances converged: the claimed rows are settled. *)
Settle(w) == SettleRows(w, claimed[w])

(* A mutant of Interrupted: a converge deletes a part before it writes it. *)
InterruptedRebuild(w) ==
  \/ UNCHANGED app
  \/ /\ pc[w] \in {"users", "groups"}
     /\ app' = [app EXCEPT ![target[w]][pc[w]] = 0]

(* What the SCIM calls of an interrupted step leave behind: none, some or    *)
(* all of the part's resources overwritten with what the run read.           *)
Interrupted(w) ==
  \/ UNCHANGED app
  \/ /\ pc[w] \in {"users", "groups"}
     /\ \E done \in {Min2(app[target[w]][pc[w]], Desired(w, pc[w])), Desired(w, pc[w])} :
          app' = [app EXCEPT ![target[w]][pc[w]] = done]

(* A read, a SCIM call or the lastSyncedAt update throws inside the try. *)
ConvergeFails(w) ==
  /\ pc[w] \in Converging
  /\ faults < MaxFaults
  /\ faults' = faults + 1
  /\ Interrupted(w)
  /\ pc' = [pc EXCEPT ![w] = "failed"]
  /\ UNCHANGED <<database, acked, queue, producer, job, local>>

(* The catch block: the claimed rows are FAILED and the error is rethrown. *)
MarkFailed(w) ==
  /\ pc[w] = "failed"
  /\ status' = SetStatus(claimed[w], "FAILED")
  /\ queue' = RetryOf(job[w])
  /\ Stop(w)
  /\ UNCHANGED <<version, wrote, instance, remote, producer, faults>>

(* A query outside the try throws: finding or claiming the rows, reading     *)
(* the instances, or saving DONE or FAILED.  The rows stay as they are.      *)
QueryFails(w) ==
  /\ \/ pc[w] \in {"find", "claim", "instances", "failed"}
     \/ pc[w] = "next" /\ todo[w] = {}
  /\ faults < MaxFaults
  /\ faults' = faults + 1
  /\ queue' = RetryOf(job[w])
  /\ Stop(w)
  /\ UNCHANGED <<database, remote, producer>>

(* The worker process dies; its job stays active until it is found stalled. *)
Crash(w) ==
  /\ pc[w] # "idle"
  /\ faults < MaxFaults
  /\ faults' = faults + 1
  /\ Interrupted(w)
  /\ Stop(w)
  /\ UNCHANGED <<database, acked, queue, producer>>

-----------------------------------------------------------------------------
HandleAppSync(w) ==
  \/ Find(w) \/ Claim(w) \/ ReadInstances(w) \/ Settle(w) \/ MarkFailed(w)
  \/ WriteUsers(w) \/ WriteGroups(w)
  \/ \E a \in Apps : StartConverge(w, a)
  \/ \E p \in Parts : ReadPart(w, p)

Environment ==
  \/ MutateUnmarked
  \/ \E r \in Requests : Mutate(r)
  \/ \E r \in Producers : Abandon(r)
  \/ \E a \in Apps : SetInstanceStatus(a)
  \/ \E w \in Workers : ConvergeFails(w) \/ QueryFails(w) \/ Crash(w)

Next ==
  \/ Environment
  \/ ReconcileTick
  \/ \E r \in Producers : Mark(r) \/ Enqueue(r)
  \/ \E j \in Jobs : Promote(j) \/ Stalled(j)
  \/ \E w \in Workers : HandleAppSync(w) \/ \E j \in Jobs : Take(w, j)

Spec == Init /\ [][Next]_vars

(* Workers keep running jobs, BullMQ keeps promoting delayed and stalled     *)
(* jobs, and the repeatable reconcile job keeps firing.  Console requests,   *)
(* platform admins and faults are not fair.                                  *)
Fairness ==
  /\ \A w \in Workers : WF_vars(HandleAppSync(w)) /\ WF_vars(\E j \in Jobs : Take(w, j))
  /\ \A j \in Jobs : WF_vars(Promote(j)) /\ WF_vars(Stalled(j))
  /\ WF_vars(ReconcileTick) /\ WF_vars(Mark(Tick)) /\ WF_vars(Enqueue(Tick))

FairSpec == Spec /\ Fairness

-----------------------------------------------------------------------------
(* Properties. *)

(* At most one process drains the outbox. *)
SingleDrainer == \A v, w \in Workers : v = w

(* What the outbox reported DONE is true: every instance a settled run       *)
(* served still reflects, in users and in groups, each change whose marker   *)
(* the run settled, whatever failed or crashed since.                        *)
AckedIsReflected == \A a \in Apps, p \in Parts : acked[a] <= app[a][p]

(* A run reads the identity state only after it claimed its markers, so what *)
(* it is about to write contains every change it is about to report DONE.    *)
SnapshotCoversClaim ==
  \A w \in Workers, p \in Parts : \A e \in claimed[w] : wrote[e] <= snap[w][p]

(* A settled marker is never claimed or failed again: the work a run reports *)
(* DONE is not redone by a retry, a replay or a later run.                   *)
SettledStaysSettled ==
  [][\A e \in Events : status[e] = "DONE" => status'[e] \in {"DONE", "PENDING"}]_vars

(* The promise of the outbox, without rows, jobs and runs: what an app       *)
(* reflects never goes back and is acknowledged only once delivered.         *)
Delivery == INSTANCE IdentityDelivery
  WITH delivered <- [a \in Apps |-> Min2(app[a]["users"], app[a]["groups"])]
DeliverySpec == Delivery!Spec

(* Drift heals: an instance that stays ACTIVE ends up at the current         *)
(* identity state for good, even when a marker or a job was lost, a run      *)
(* stranded its rows in PROCESSING, or a change wrote no marker at all.      *)
EventuallyConverged ==
  \A a \in Apps :
    <>[](instance[a] = "ACTIVE") => <>[](\A p \in Parts : app[a][p] = version)

(* "Failure leaves the claimed events FAILED" and the next run picks them up *)
(* (handlers/app-sync.ts:15): no row is PROCESSING without a run.            *)
NoStrandedMarker ==
  \A e \in Events : status[e] = "PROCESSING" => \E w \in Workers : e \in claimed[w]

=============================================================================
