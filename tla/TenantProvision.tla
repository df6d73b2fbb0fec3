--------------------------- MODULE TenantProvision ---------------------------
(***************************************************************************)
(* Provisioning of one tenant's stack: the admin console requests a        *)
(* provision or deletes the tenant, worker slots run the tenant-provision  *)
(* jobs under a Redis lock with a TTL, and a tenant-deprovision job tears  *)
(* the stack down without that lock.                                       *)
(*                                                                         *)
(* The stack is abstracted to its credentials: role is the password of the *)
(* tenant's database role, secret the one stored in the Secret of the      *)
(* tenant's namespace, None when there is no namespace.                    *)
(***************************************************************************)
EXTENDS Integers

CONSTANTS
  Runs,          \* slots that run provision jobs: two in each worker process
  None,          \* no run, no job, no password
  Orphan,        \* the lock token of a run that is over without releasing it
  Environments,  \* DEV, TEST, PROD
  Jobs,          \* places in the tenant-provision queue (bound)
  MaxPassword,   \* random passwords are drawn from 1..MaxPassword (bound)
  MaxAttempts,   \* attempts of a provision job, 3 in queues.ts
  MaxFaults,     \* bound on crashes and failed calls
  MaxOutages,    \* bound on lock operations that Redis does not answer
  MaxRequests    \* bound on console requests

ASSUME ProvisionAssumption ==
  /\ None \notin Runs \cup Jobs \cup Nat
  /\ Orphan \notin Runs \cup {None}
  /\ MaxPassword \in Nat
  /\ MaxAttempts \in Nat \ {0}
  /\ MaxFaults \in Nat /\ MaxOutages \in Nat /\ MaxRequests \in Nat

VARIABLES
  tenant,       \* tenants.status
  provisioning, \* tenants.provisioning_status
  environment,  \* tenant_environments.status; "NONE" for a missing row
  instance,     \* status of the Riogentix ConnectedAppInstance
  role,         \* password of the tenant's database role
  secret,       \* password in the namespace's Secret
  lock,         \* lock:tenant-provision:<id>
  leased,       \* runs whose own lease of the lock has not run out (history)
  queue,        \* the provision jobs
  console,      \* progress of a POST to the provision route
  asked,        \* the environments it asks for
  teardown,     \* progress of the DELETE and of its deprovision job
  pc,           \* progress of each run in handleTenantProvision
  job,          \* the job a slot runs
  spec,         \* the password buildSpec chose
  faults, outages, requests

rows   == <<tenant, provisioning, environment, instance>>
stack  == <<role, secret>>
lease  == <<lock, leased>>
web    == <<console, asked>>
slots  == <<pc, job, spec>>
counts == <<faults, outages, requests>>
vars   == <<rows, stack, lease, queue, web, teardown, slots, counts>>

Passwords == 1..MaxPassword
JobRecord == [state : {"free", "waiting", "active", "delayed"},
              envs : SUBSET Environments, attempts : 0..MaxAttempts - 1, stalls : 0..1]
Entry(state, envs, attempts, stalls) ==
  [state |-> state, envs |-> envs, attempts |-> attempts, stalls |-> stalls]
Free == Entry("free", {}, 0, 0)

\* Points of a run, in the order of handleTenantProvision and runProvision.
Building  == {"status", "envs", "spec", "role", "apply"}
Attempted == {"spec", "role", "apply", "wait", "tenant", "activate", "complete", "register", "sync"}
Running   == {"status", "envs", "failed", "failenvs", "end", "enderror"} \cup Attempted
Labels    == {"idle", "lock"} \cup Running

TypeOK ==
  /\ tenant \in {"ACTIVE", "DELETED"}
  /\ provisioning \in {"PENDING", "IN_PROGRESS", "COMPLETED", "FAILED"}
  /\ environment \in [Environments -> {"NONE", "PENDING", "PROVISIONING", "ACTIVE", "FAILED"}]
  /\ instance \in {"NONE", "ACTIVE", "PAUSED"}
  /\ role \in Passwords \cup {None}
  /\ secret \in Passwords \cup {None}
  /\ lock \in Runs \cup {None, Orphan}
  /\ leased \in SUBSET Runs
  /\ queue \in [Jobs -> JobRecord]
  /\ console \in {"idle", "envs", "enqueue"}
  /\ asked \in SUBSET Environments
  /\ teardown \in {"none", "enqueue", "queued", "envs", "status", "instances"}
  /\ pc \in [Runs -> Labels]
  /\ job \in [Runs -> Jobs \cup {None}]
  /\ spec \in [Runs -> Passwords \cup {None}]
  /\ faults \in 0..MaxFaults
  /\ outages \in 0..MaxOutages
  /\ requests \in 0..MaxRequests

Init ==
  /\ tenant = "ACTIVE"
  /\ provisioning = "PENDING"
  /\ environment = [e \in Environments |-> "NONE"]
  /\ instance = "NONE"
  /\ role = None
  /\ secret = None
  /\ lock = None
  /\ leased = {}
  /\ queue = [j \in Jobs |-> Free]
  /\ console = "idle"
  /\ asked = {}
  /\ teardown = "none"
  /\ pc = [r \in Runs |-> "idle"]
  /\ job = [r \in Runs |-> None]
  /\ spec = [r \in Runs |-> None]
  /\ faults = 0
  /\ outages = 0
  /\ requests = 0

Fault == faults < MaxFaults /\ faults' = faults + 1 /\ UNCHANGED <<outages, requests>>
Outage == outages < MaxOutages /\ outages' = outages + 1 /\ UNCHANGED <<faults, requests>>
Request == requests < MaxRequests /\ requests' = requests + 1 /\ UNCHANGED <<faults, outages>>

SetEnvironments(envs, new) == [e \in Environments |-> IF e \in envs THEN new ELSE environment[e]]

-----------------------------------------------------------------------------
(* The console. *)

(* A new tenant is handed to the worker by signup or by POST /api/tenants,   *)
(* without touching its status, unless Redis refuses the job.                *)
CreateTenant(e) ==
  /\ provisioning = "PENDING" /\ tenant = "ACTIVE"
  /\ \A k \in Environments : environment[k] = "NONE"
  /\ \A j \in Jobs : queue[j] = Free
  /\ console = "idle"
  /\ \/ /\ Request
        /\ \E j \in Jobs : queue' = [queue EXCEPT ![j] = Entry("waiting", {e}, 0, 0)]
        /\ UNCHANGED provisioning
     \/ /\ Fault
        /\ provisioning' = "FAILED"
        /\ UNCHANGED queue
  /\ UNCHANGED <<tenant, environment, instance, stack, lease, web, teardown, slots>>

(* POST provision, which is also the console's retry: the status first, then *)
(* the environments, then the job, whatever the tenant's state is.           *)
RequestProvision(envs) ==
  /\ console = "idle"
  /\ Request
  /\ provisioning' = "IN_PROGRESS"
  /\ asked' = envs
  /\ console' = "envs"
  /\ UNCHANGED <<tenant, environment, instance, stack, lease, queue, teardown, slots>>

RequestEnvironments ==
  /\ console = "envs"
  /\ environment' = SetEnvironments(asked, "PROVISIONING")
  /\ console' = "enqueue"
  /\ UNCHANGED <<tenant, provisioning, instance, stack, lease, queue, asked, teardown, slots, counts>>

EnqueueProvision ==
  /\ console = "enqueue"
  /\ \E j \in Jobs :
       /\ queue[j].state = "free"
       /\ queue' = [queue EXCEPT ![j] = Entry("waiting", asked, 0, 0)]
  /\ console' = "idle"
  /\ asked' = {}
  /\ UNCHANGED <<rows, stack, lease, teardown, slots, counts>>

(* PATCH delete: soft delete, then the job; a deleted tenant is refused. *)
DeleteTenant ==
  /\ tenant # "DELETED"
  /\ teardown = "none"
  /\ Request
  /\ tenant' = "DELETED"
  /\ teardown' = "enqueue"
  /\ UNCHANGED <<provisioning, environment, instance, stack, lease, queue, web, slots>>

EnqueueDeprovision ==
  /\ teardown = "enqueue"
  /\ teardown' = "queued"
  /\ UNCHANGED <<rows, stack, lease, queue, web, slots, counts>>

(* PATCH reinstate sets the status, also of a deleted tenant. *)
Reinstate ==
  /\ tenant = "DELETED"
  /\ Request
  /\ tenant' = "ACTIVE"
  /\ UNCHANGED <<provisioning, environment, instance, stack, lease, queue, web, teardown, slots>>

(* A request dies between two of its awaits. *)
RequestDies ==
  /\ Fault
  /\ \/ /\ console # "idle"
        /\ console' = "idle" /\ asked' = {}
        /\ UNCHANGED teardown
     \/ /\ teardown = "enqueue"
        /\ teardown' = "none"
        /\ UNCHANGED web
  /\ UNCHANGED <<rows, stack, lease, queue, slots>>

-----------------------------------------------------------------------------
(* handleTenantDeprovision: it takes no lock. *)

DeleteNamespace ==
  /\ teardown = "queued"
  /\ secret' = None
  /\ teardown' = "envs"
  /\ UNCHANGED <<rows, role, lease, queue, web, slots, counts>>

ResetEnvironments ==
  /\ teardown = "envs"
  /\ environment' = [e \in Environments |->
                       IF environment[e] = "NONE" THEN "NONE" ELSE "PENDING"]
  /\ teardown' = "status"
  /\ UNCHANGED <<tenant, provisioning, instance, stack, lease, queue, web, slots, counts>>

ResetStatus ==
  /\ teardown = "status"
  /\ provisioning' = "PENDING"
  /\ teardown' = "instances"
  /\ UNCHANGED <<tenant, environment, instance, stack, lease, queue, web, slots, counts>>

PauseInstances ==
  /\ teardown = "instances"
  /\ instance' = IF instance = "NONE" THEN "NONE" ELSE "PAUSED"
  /\ teardown' = "none"
  /\ UNCHANGED <<tenant, provisioning, environment, stack, lease, queue, web, slots, counts>>

(* A step throws or the worker dies: the job runs again from its start. *)
DeprovisionFails ==
  /\ teardown \in {"queued", "envs", "status", "instances"}
  /\ Fault
  /\ teardown' = "queued"
  /\ UNCHANGED <<rows, stack, lease, queue, web, slots>>

-----------------------------------------------------------------------------
(* The provision queue, as BullMQ runs it (external). *)

(* The attempt failed: back off, or give up after the last. *)
RetryOf(j) ==
  IF queue[j].attempts + 1 < MaxAttempts
    THEN [queue EXCEPT ![j] = Entry("delayed", @.envs, @.attempts + 1, @.stalls)]
    ELSE [queue EXCEPT ![j] = Free]

(* The backoff of a failed attempt is over. *)
Promote(j) ==
  /\ queue[j].state = "delayed"
  /\ queue' = [queue EXCEPT ![j] = Entry("waiting", @.envs, @.attempts, @.stalls)]
  /\ UNCHANGED <<rows, stack, lease, web, teardown, slots, counts>>

(* The job of a dead worker is replayed once, and failed if it stalls again. *)
Stalled(j) ==
  /\ queue[j].state = "active"
  /\ \A r \in Runs : job[r] # j
  /\ queue' = IF queue[j].stalls = 0
                THEN [queue EXCEPT ![j] = Entry("waiting", @.envs, @.attempts, 1)]
                ELSE [queue EXCEPT ![j] = Free]
  /\ UNCHANGED <<rows, stack, lease, web, teardown, slots, counts>>

Take(r, j) ==
  /\ pc[r] = "idle"
  /\ queue[j].state = "waiting"
  /\ queue' = [queue EXCEPT ![j] = Entry("active", @.envs, @.attempts, @.stalls)]
  /\ job' = [job EXCEPT ![r] = j]
  /\ pc' = [pc EXCEPT ![r] = "lock"]
  /\ UNCHANGED <<rows, stack, lease, web, teardown, spec, counts>>

-----------------------------------------------------------------------------
(* withLock. *)

(* The slot is free again. *)
Stop(r) ==
  /\ pc' = [pc EXCEPT ![r] = "idle"]
  /\ job' = [job EXCEPT ![r] = None]
  /\ spec' = [spec EXCEPT ![r] = None]

Goto(r, label) == pc' = [pc EXCEPT ![r] = label]

(* SET NX PX succeeds. *)
Acquire(r) ==
  /\ pc[r] = "lock"
  /\ lock = None
  /\ lock' = r
  /\ leased' = leased \cup {r}
  /\ Goto(r, "status")
  /\ UNCHANGED <<rows, stack, queue, web, teardown, job, spec, counts>>

(* SET NX fails: the job is skipped, as a success. *)
Skip(r) ==
  /\ pc[r] = "lock"
  /\ lock # None
  /\ queue' = [queue EXCEPT ![job[r]] = Free]
  /\ Stop(r)
  /\ UNCHANGED <<rows, stack, lease, web, teardown, counts>>

(* Redis does not answer: the run goes on without the lock. *)
FailOpen(r) ==
  /\ pc[r] = "lock"
  /\ Outage
  /\ Goto(r, "status")
  /\ UNCHANGED <<rows, stack, lease, queue, web, teardown, job, spec>>

(* A mutant of Freed: the key is deleted whatever token it holds. *)
FreedAny(r) == None

(* RELEASE_SCRIPT: the key is deleted only if it holds the run's own token. *)
Freed(r) == IF lock = r THEN None ELSE lock

(* The token stays in Redis until its TTL runs out. *)
Orphaned(r) == IF lock = r THEN Orphan ELSE lock

(* The release, answered by Redis or not, and then the job's outcome. *)
Release(r) ==
  /\ pc[r] \in {"end", "enderror"}
  /\ \/ lock' = Freed(r) /\ UNCHANGED counts
     \/ lock' = Orphaned(r) /\ Outage
  /\ leased' = leased \ {r}
  /\ queue' = IF pc[r] = "end" THEN [queue EXCEPT ![job[r]] = Free] ELSE RetryOf(job[r])
  /\ Stop(r)
  /\ UNCHANGED <<rows, stack, web, teardown>>

(* A mutant of Expire: SET without PX, so that the key of a dead run stays. *)
ExpireHeld ==
  /\ lock \in Runs /\ pc[lock] \notin Building
  /\ lock' = None
  /\ leased' = leased \ {lock}
  /\ UNCHANGED <<rows, stack, queue, web, teardown, slots, counts>>

(* The TTL runs out: of a token nobody will release, or of a run that waits  *)
(* for its pods, which may take as long as the TTL, or is past that wait.    *)
Expire ==
  /\ \/ lock = Orphan
     \/ lock \in Runs /\ pc[lock] \notin Building
  /\ lock' = None
  /\ leased' = leased \ {lock}
  /\ UNCHANGED <<rows, stack, queue, web, teardown, slots, counts>>

-----------------------------------------------------------------------------
(* runProvision and the kubernetes driver. *)

BeginProvision(r) ==
  /\ pc[r] = "status"
  /\ provisioning' = "IN_PROGRESS"
  /\ Goto(r, "envs")
  /\ UNCHANGED <<tenant, environment, instance, stack, lease, queue, web, teardown, job, spec, counts>>

MarkEnvironments(r) ==
  /\ pc[r] = "envs"
  /\ environment' = SetEnvironments(queue[job[r]].envs, "PROVISIONING")
  /\ Goto(r, "spec")
  /\ UNCHANGED <<tenant, provisioning, instance, stack, lease, queue, web, teardown, job, spec, counts>>

(* A random password: one that is nowhere in use (the first, for TLC). *)
Fresh(p) ==
  LET unused == {q \in Passwords : q \notin {role, secret} /\ \A r \in Runs : q # spec[r]} IN
  p \in unused /\ \A q \in unused : p <= q

(* A mutant of ChoosePassword: every run draws a new one. *)
ChooseFresh(p) == Fresh(p)

(* buildSpec reuses the password of the Secret, if there is one. *)
ChoosePassword(p) == IF secret # None THEN p = secret ELSE Fresh(p)

BuildSpec(r) ==
  /\ pc[r] = "spec"
  /\ \E p \in Passwords : ChoosePassword(p) /\ spec' = [spec EXCEPT ![r] = p]
  /\ Goto(r, "role")
  /\ UNCHANGED <<rows, stack, lease, queue, web, teardown, job, counts>>

(* ensureTenantDatabase converges the role's password. *)
EnsureDatabase(r) ==
  /\ pc[r] = "role"
  /\ role' = spec[r]
  /\ Goto(r, "apply")
  /\ UNCHANGED <<rows, secret, lease, queue, web, teardown, job, spec, counts>>

(* applyManifests creates or converges the namespace and its Secret. *)
ApplyManifests(r) ==
  /\ pc[r] = "apply"
  /\ secret' = spec[r]
  /\ Goto(r, "wait")
  /\ UNCHANGED <<rows, role, lease, queue, web, teardown, job, spec, counts>>

(* The deployment exists and has a ready replica. *)
PodsReady(r) ==
  /\ pc[r] = "wait"
  /\ secret # None
  /\ Goto(r, "tenant")
  /\ UNCHANGED <<rows, stack, lease, queue, web, teardown, job, spec, counts>>

(* The instance accepts the internal secret of its own namespace; the run   *)
(* needs what it chose no longer.                                           *)
ProvisionInstance(r) ==
  /\ pc[r] = "tenant"
  /\ secret = spec[r]
  /\ spec' = [spec EXCEPT ![r] = None]
  /\ Goto(r, "activate")
  /\ UNCHANGED <<rows, stack, lease, queue, web, teardown, job, counts>>

ActivateEnvironments(r) ==
  /\ pc[r] = "activate"
  /\ environment' = SetEnvironments(queue[job[r]].envs, "ACTIVE")
  /\ Goto(r, "complete")
  /\ UNCHANGED <<tenant, provisioning, instance, stack, lease, queue, web, teardown, job, spec, counts>>

Complete(r) ==
  /\ pc[r] = "complete"
  /\ provisioning' = "COMPLETED"
  /\ Goto(r, "register")
  /\ UNCHANGED <<tenant, environment, instance, stack, lease, queue, web, teardown, job, spec, counts>>

RegisterInstance(r) ==
  /\ pc[r] = "register"
  /\ instance' = "ACTIVE"
  /\ Goto(r, "sync")
  /\ UNCHANGED <<tenant, provisioning, environment, stack, lease, queue, web, teardown, job, spec, counts>>

(* The admin is bootstrapped and the first sync is enqueued. *)
FirstSync(r) ==
  /\ pc[r] = "sync"
  /\ Goto(r, "end")
  /\ UNCHANGED <<rows, stack, lease, queue, web, teardown, job, spec, counts>>

(* A mutant of AttemptFails: a missing deployment is polled without end. *)
AttemptHangs(r) ==
  /\ pc[r] \in Attempted
  /\ Fault
  /\ Goto(r, "failed")
  /\ UNCHANGED <<rows, stack, lease, queue, web, teardown, job, spec>>

(* Something in the try block throws: a call fails, the pods are not ready   *)
(* in time, or the namespace the run applied is gone.                        *)
AttemptFails(r) ==
  /\ pc[r] \in Attempted
  /\ \/ pc[r] = "wait" /\ secret = None /\ UNCHANGED counts
     \/ pc[r] = "tenant" /\ secret # spec[r] /\ UNCHANGED counts
     \/ Fault
  /\ Goto(r, "failed")
  /\ UNCHANGED <<rows, stack, lease, queue, web, teardown, job, spec>>

RecordFailure(r) ==
  /\ pc[r] = "failed"
  /\ provisioning' = "FAILED"
  /\ Goto(r, "failenvs")
  /\ UNCHANGED <<tenant, environment, instance, stack, lease, queue, web, teardown, job, spec, counts>>

FailEnvironments(r) ==
  /\ pc[r] = "failenvs"
  /\ environment' = SetEnvironments({e \in queue[job[r]].envs : environment[e] # "NONE"}, "FAILED")
  /\ Goto(r, "enderror")
  /\ UNCHANGED <<tenant, provisioning, instance, stack, lease, queue, web, teardown, job, spec, counts>>

(* A database write outside the try block throws. *)
WriteFails(r) ==
  /\ pc[r] \in {"status", "envs", "failed", "failenvs"}
  /\ Fault
  /\ Goto(r, "enderror")
  /\ UNCHANGED <<rows, stack, lease, queue, web, teardown, job, spec>>

(* The worker process dies. *)
Crash(r) ==
  /\ pc[r] # "idle"
  /\ Fault
  /\ lock' = Orphaned(r)
  /\ leased' = leased \ {r}
  /\ Stop(r)
  /\ UNCHANGED <<rows, stack, queue, web, teardown>>

-----------------------------------------------------------------------------
HandleTenantProvision(r) ==
  \/ Acquire(r) \/ Skip(r) \/ Release(r)
  \/ BeginProvision(r) \/ MarkEnvironments(r) \/ BuildSpec(r) \/ EnsureDatabase(r)
  \/ ApplyManifests(r) \/ PodsReady(r) \/ ProvisionInstance(r) \/ ActivateEnvironments(r)
  \/ Complete(r) \/ RegisterInstance(r) \/ FirstSync(r)
  \/ AttemptFails(r) \/ RecordFailure(r) \/ FailEnvironments(r)

HandleTenantDeprovision ==
  DeleteNamespace \/ ResetEnvironments \/ ResetStatus \/ PauseInstances \/ DeprovisionFails

Console ==
  \/ \E e \in Environments : CreateTenant(e)
  \/ \E envs \in SUBSET Environments : RequestProvision(envs)
  \/ RequestEnvironments \/ EnqueueProvision \/ DeleteTenant \/ EnqueueDeprovision
  \/ Reinstate \/ RequestDies

Next ==
  \/ Console
  \/ HandleTenantDeprovision
  \/ Expire
  \/ \E j \in Jobs : Promote(j) \/ Stalled(j) \/ \E r \in Runs : Take(r, j)
  \/ \E r \in Runs : HandleTenantProvision(r) \/ FailOpen(r) \/ WriteFails(r) \/ Crash(r)

Spec == Init /\ [][Next]_vars

(* Workers run on, BullMQ promotes and replays, and Redis expires a key whose *)
(* owner is gone.  Requests and faults are not fair.                          *)
Fairness ==
  /\ \A r \in Runs : WF_vars(HandleTenantProvision(r))
  /\ WF_vars(\E r \in Runs, j \in Jobs : Take(r, j))
  /\ \A j \in Jobs : WF_vars(Promote(j)) /\ WF_vars(Stalled(j))
  /\ WF_vars(Expire)
  /\ WF_vars(EnqueueProvision)

FairSpec == Spec /\ Fairness

-----------------------------------------------------------------------------
(* Properties. *)

(* Redis answers every lock operation. *)
NoOutages == MaxOutages = 0

(* The lock serializes: two runs that both got it are never in flight while  *)
(* both leases last, whatever released, expired or crashed before.           *)
OneLeaseAtATime == \A r, s \in leased : r = s

(* So the key with its token, TTL and release script implements the abstract *)
(* lease: granted only when nobody's lasts, ended only by its own holder or  *)
(* by time.                                                                  *)
Granted == INSTANCE Lease WITH Holders <- Runs, held <- leased
LeaseSpec == Granted!Spec

(* The password of the database role matches the Secret the pods start from, *)
(* at every moment: through retries, crashes, concurrent requests, expired   *)
(* leases and teardowns in the middle of a run.                              *)
CredentialsAgree == secret # None => role = secret

(* A run that dies or cannot release does not lock the tenant out for good. *)
LockIsFreed == []<>(lock = None)

(* Every provision job ends: it is completed, skipped or given up. *)
JobsEnd == \A j \in Jobs : queue[j].state = "waiting" ~> queue[j].state = "free"

(* Nothing is requested, queued, running or being torn down. *)
Quiet ==
  /\ console = "idle" /\ teardown = "none"
  /\ \A j \in Jobs : queue[j].state = "free"
  /\ \A r \in Runs : pc[r] = "idle"

(* "clicking retry always does something" (tenant-provision.ts:16-18): the   *)
(* environments a request marked PROVISIONING are provisioned by someone.    *)
EnvironmentsSettle == Quiet => \A e \in Environments : environment[e] # "PROVISIONING"

(* "The worker tears the tenant's app/infra down" (tenants/[id]/route.ts).   *)
DeletedIsTornDown == Quiet /\ tenant = "DELETED" => secret = None

=============================================================================
