--------------------------- MODULE Tenants_proofs ---------------------------
(***************************************************************************)
(* Proofs about a tenant being made, and found.  TenantProvision: the lock *)
(* implements Lease and so serializes the runs that got it, whatever Redis *)
(* does; if Redis answers, the database role and the Secret agree.         *)
(* TenantDirectory: an entry of the resolver cache that nothing excuses is *)
(* the row as it is.                                                       *)
(***************************************************************************)
EXTENDS TenantProvision, TenantDirectory, TLAPS

(***************************************************************************)
(* TenantProvision                                                         *)
(***************************************************************************)

(* A run has a job, and from buildSpec to the instance call a password. *)
RunOK ==
  \A r \in Runs :
    /\ pc[r] # "idle" => job[r] \in Jobs
    /\ pc[r] \in {"role", "apply", "wait", "tenant"} => spec[r] \in Passwords

(* A lease that lasts is the lock's value. *)
LeaseInv == \A r \in leased : lock = r

(* Without outages a run holds the lock until its Secret is applied, and     *)
(* what it chose is the password of the Secret, and then of the role.        *)
BuildersHoldLock == \A r \in Runs : pc[r] \in Building => lock = r
SpecMatches ==
  \A r \in Runs :
    /\ pc[r] = "role" => secret \in {None, spec[r]}
    /\ pc[r] = "apply" => role = spec[r]

CredentialInv == BuildersHoldLock /\ SpecMatches /\ CredentialsAgree

-----------------------------------------------------------------------------
(* Every way the queue is updated puts a well-formed job in its place. *)
LEMMA QueueUpdates ==
  ASSUME queue \in [Jobs -> JobRecord], NEW j \in Jobs
  PROVE  /\ Free \in JobRecord
         /\ \A envs \in SUBSET Environments : Entry("waiting", envs, 0, 0) \in JobRecord
         /\ Entry("active", queue[j].envs, queue[j].attempts, queue[j].stalls) \in JobRecord
         /\ Entry("waiting", queue[j].envs, queue[j].attempts, queue[j].stalls) \in JobRecord
         /\ Entry("waiting", queue[j].envs, queue[j].attempts, 1) \in JobRecord
         /\ RetryOf(j) \in [Jobs -> JobRecord]
<1>1. queue[j] \in JobRecord
  OBVIOUS
<1>2. /\ Free \in JobRecord
      /\ \A envs \in SUBSET Environments : Entry("waiting", envs, 0, 0) \in JobRecord
      /\ Entry("active", queue[j].envs, queue[j].attempts, queue[j].stalls) \in JobRecord
      /\ Entry("waiting", queue[j].envs, queue[j].attempts, queue[j].stalls) \in JobRecord
      /\ Entry("waiting", queue[j].envs, queue[j].attempts, 1) \in JobRecord
  BY <1>1, ProvisionAssumption DEF JobRecord, Entry, Free
<1>3. queue[j].attempts + 1 < MaxAttempts =>
        Entry("delayed", queue[j].envs, queue[j].attempts + 1, queue[j].stalls) \in JobRecord
  BY <1>1, ProvisionAssumption DEF JobRecord, Entry
<1> QED
  BY <1>2, <1>3 DEF RetryOf

\* A run keeps its job, and a password once it built the spec.
LEMMA TypeStep ==
  ASSUME TypeOK, RunOK, [Next]_vars
  PROVE  TypeOK' /\ RunOK'
<1> USE ProvisionAssumption DEF TypeOK, RunOK, rows, stack, lease, web, slots, counts,
        Labels, Running, Attempted, Passwords
<1> DEFINE Goal == TypeOK' /\ RunOK'
<1>1. ASSUME NEW e \in Environments, CreateTenant(e) PROVE Goal
  BY QueueUpdates, <1>1 DEF CreateTenant, Request, Fault
<1>2. ASSUME NEW envs \in SUBSET Environments, RequestProvision(envs) PROVE Goal
  BY <1>2 DEF RequestProvision, Request
<1>3. ASSUME RequestEnvironments PROVE Goal
  BY <1>3 DEF RequestEnvironments, SetEnvironments
<1>4. ASSUME EnqueueProvision PROVE Goal
  BY QueueUpdates, <1>4 DEF EnqueueProvision
<1>5. ASSUME DeleteTenant PROVE Goal
  BY <1>5 DEF DeleteTenant, Request
<1>6. ASSUME EnqueueDeprovision PROVE Goal
  BY <1>6 DEF EnqueueDeprovision
<1>7. ASSUME Reinstate PROVE Goal
  BY <1>7 DEF Reinstate, Request
<1>8. ASSUME RequestDies PROVE Goal
  BY <1>8 DEF RequestDies, Fault
<1>9. ASSUME DeleteNamespace PROVE Goal
  BY <1>9 DEF DeleteNamespace
<1>10. ASSUME ResetEnvironments PROVE Goal
  BY <1>10 DEF ResetEnvironments
<1>11. ASSUME ResetStatus PROVE Goal
  BY <1>11 DEF ResetStatus
<1>12. ASSUME PauseInstances PROVE Goal
  BY <1>12 DEF PauseInstances
<1>13. ASSUME DeprovisionFails PROVE Goal
  BY <1>13 DEF DeprovisionFails, Fault
<1>14. ASSUME Expire PROVE Goal
  BY <1>14 DEF Expire
<1>15. ASSUME NEW j \in Jobs, Promote(j) PROVE Goal
  BY QueueUpdates, <1>15 DEF Promote
<1>16. ASSUME NEW j \in Jobs, Stalled(j) PROVE Goal
  BY QueueUpdates, <1>16 DEF Stalled
<1>17. ASSUME NEW r \in Runs, NEW j \in Jobs, Take(r, j) PROVE Goal
  BY QueueUpdates, <1>17 DEF Take
<1>18. ASSUME NEW r \in Runs, Acquire(r) PROVE Goal
  BY <1>18 DEF Acquire, Goto
<1>19. ASSUME NEW r \in Runs, Skip(r) PROVE Goal
  BY QueueUpdates, <1>19 DEF Skip, Stop
<1>20. ASSUME NEW r \in Runs, FailOpen(r) PROVE Goal
  BY <1>20 DEF FailOpen, Goto, Outage
<1>21. ASSUME NEW r \in Runs, Release(r) PROVE Goal
  BY QueueUpdates, <1>21 DEF Release, Freed, Orphaned, Outage, Stop
<1>22. ASSUME NEW r \in Runs, BeginProvision(r) PROVE Goal
  BY <1>22 DEF BeginProvision, Goto
<1>23. ASSUME NEW r \in Runs, MarkEnvironments(r) PROVE Goal
  BY <1>23 DEF MarkEnvironments, SetEnvironments, Goto
<1>24. ASSUME NEW r \in Runs, BuildSpec(r) PROVE Goal
  BY <1>24 DEF BuildSpec, ChoosePassword, Fresh, Goto
<1>25. ASSUME NEW r \in Runs, EnsureDatabase(r) PROVE Goal
  BY <1>25 DEF EnsureDatabase, Goto
<1>26. ASSUME NEW r \in Runs, ApplyManifests(r) PROVE Goal
  BY <1>26 DEF ApplyManifests, Goto
<1>27. ASSUME NEW r \in Runs, PodsReady(r) PROVE Goal
  BY <1>27 DEF PodsReady, Goto
<1>28. ASSUME NEW r \in Runs, ProvisionInstance(r) PROVE Goal
  BY <1>28 DEF ProvisionInstance, Goto
<1>29. ASSUME NEW r \in Runs, ActivateEnvironments(r) PROVE Goal
  BY <1>29 DEF ActivateEnvironments, SetEnvironments, Goto
<1>30. ASSUME NEW r \in Runs, Complete(r) PROVE Goal
  BY <1>30 DEF Complete, Goto
<1>31. ASSUME NEW r \in Runs, RegisterInstance(r) PROVE Goal
  BY <1>31 DEF RegisterInstance, Goto
<1>32. ASSUME NEW r \in Runs, FirstSync(r) PROVE Goal
  BY <1>32 DEF FirstSync, Goto
<1>33. ASSUME NEW r \in Runs, AttemptFails(r) PROVE Goal
  BY <1>33 DEF AttemptFails, Goto, Fault
<1>34. ASSUME NEW r \in Runs, RecordFailure(r) PROVE Goal
  BY <1>34 DEF RecordFailure, Goto
<1>35. ASSUME NEW r \in Runs, FailEnvironments(r) PROVE Goal
  BY <1>35 DEF FailEnvironments, SetEnvironments, Goto
<1>36. ASSUME NEW r \in Runs, WriteFails(r) PROVE Goal
  BY <1>36 DEF WriteFails, Goto, Fault
<1>37. ASSUME NEW r \in Runs, Crash(r) PROVE Goal
  BY <1>37 DEF Crash, Orphaned, Stop, Fault
<1>38. ASSUME UNCHANGED vars PROVE Goal
  BY <1>38 DEF vars
<1> HIDE DEF Goal
<1>39. ASSUME Console PROVE Goal
  BY <1>1, <1>2, <1>3, <1>4, <1>5, <1>6, <1>7, <1>8, <1>39 DEF Console
<1>40. ASSUME HandleTenantDeprovision PROVE Goal
  BY <1>9, <1>10, <1>11, <1>12, <1>13, <1>40 DEF HandleTenantDeprovision
<1>41. ASSUME NEW r \in Runs, HandleTenantProvision(r) PROVE Goal
  BY <1>18, <1>19, <1>21, <1>22, <1>23, <1>24, <1>25, <1>26, <1>27, <1>28, <1>29, <1>30, <1>31,
     <1>32, <1>33, <1>34, <1>35, <1>41
     DEF HandleTenantProvision
<1>42. Goal
  BY <1>14, <1>15, <1>16, <1>17, <1>20, <1>36, <1>37, <1>38, <1>39, <1>40, <1>41 DEF Next
<1> QED
  BY <1>42 DEF Goal

\* Types, and what every run of the queue carries.
LEMMA RunsWellFormed == Spec => [](TypeOK /\ RunOK)
<1>1. Init => TypeOK /\ RunOK
  BY ProvisionAssumption DEF Init, TypeOK, RunOK, Free, Entry, JobRecord, Labels
<1> QED
  BY <1>1, TypeStep, PTL DEF Spec

(* Every variable keeps its type through all steps, failures and crashes. *)
THEOREM TypeCorrect == Spec => []TypeOK
BY RunsWellFormed, PTL

-----------------------------------------------------------------------------
\* Only the holder of the lock has a lease that lasts.
LEMMA LeaseStep ==
  ASSUME TypeOK, LeaseInv, [Next]_vars
  PROVE  LeaseInv'
<1> USE ProvisionAssumption DEF TypeOK, LeaseInv, rows, stack, lease, web, slots, counts
<1> DEFINE Goal == LeaseInv'
<1>1. ASSUME NEW e \in Environments, CreateTenant(e) PROVE Goal
  BY <1>1 DEF CreateTenant, Request, Fault
<1>2. ASSUME NEW envs \in SUBSET Environments, RequestProvision(envs) PROVE Goal
  BY <1>2 DEF RequestProvision, Request
<1>3. ASSUME RequestEnvironments PROVE Goal
  BY <1>3 DEF RequestEnvironments, SetEnvironments
<1>4. ASSUME EnqueueProvision PROVE Goal
  BY <1>4 DEF EnqueueProvision
<1>5. ASSUME DeleteTenant PROVE Goal
  BY <1>5 DEF DeleteTenant, Request
<1>6. ASSUME EnqueueDeprovision PROVE Goal
  BY <1>6 DEF EnqueueDeprovision
<1>7. ASSUME Reinstate PROVE Goal
  BY <1>7 DEF Reinstate, Request
<1>8. ASSUME RequestDies PROVE Goal
  BY <1>8 DEF RequestDies, Fault
<1>9. ASSUME DeleteNamespace PROVE Goal
  BY <1>9 DEF DeleteNamespace
<1>10. ASSUME ResetEnvironments PROVE Goal
  BY <1>10 DEF ResetEnvironments
<1>11. ASSUME ResetStatus PROVE Goal
  BY <1>11 DEF ResetStatus
<1>12. ASSUME PauseInstances PROVE Goal
  BY <1>12 DEF PauseInstances
<1>13. ASSUME DeprovisionFails PROVE Goal
  BY <1>13 DEF DeprovisionFails, Fault
<1>14. ASSUME Expire PROVE Goal
  BY <1>14 DEF Expire
<1>15. ASSUME NEW j \in Jobs, Promote(j) PROVE Goal
  BY <1>15 DEF Promote
<1>16. ASSUME NEW j \in Jobs, Stalled(j) PROVE Goal
  BY <1>16 DEF Stalled
<1>17. ASSUME NEW r \in Runs, NEW j \in Jobs, Take(r, j) PROVE Goal
  BY <1>17 DEF Take
<1>18. ASSUME NEW r \in Runs, Acquire(r) PROVE Goal
  BY <1>18 DEF Acquire, Goto
<1>19. ASSUME NEW r \in Runs, Skip(r) PROVE Goal
  BY <1>19 DEF Skip, Stop
<1>20. ASSUME NEW r \in Runs, FailOpen(r) PROVE Goal
  BY <1>20 DEF FailOpen, Goto, Outage
<1>21. ASSUME NEW r \in Runs, Release(r) PROVE Goal
  BY <1>21 DEF Release, Freed, Orphaned
<1>22. ASSUME NEW r \in Runs, BeginProvision(r) PROVE Goal
  BY <1>22 DEF BeginProvision, Goto
<1>23. ASSUME NEW r \in Runs, MarkEnvironments(r) PROVE Goal
  BY <1>23 DEF MarkEnvironments, SetEnvironments, Goto
<1>24. ASSUME NEW r \in Runs, BuildSpec(r) PROVE Goal
  BY <1>24 DEF BuildSpec, ChoosePassword, Fresh, Goto
<1>25. ASSUME NEW r \in Runs, EnsureDatabase(r) PROVE Goal
  BY <1>25 DEF EnsureDatabase, Goto
<1>26. ASSUME NEW r \in Runs, ApplyManifests(r) PROVE Goal
  BY <1>26 DEF ApplyManifests, Goto
<1>27. ASSUME NEW r \in Runs, PodsReady(r) PROVE Goal
  BY <1>27 DEF PodsReady, Goto
<1>28. ASSUME NEW r \in Runs, ProvisionInstance(r) PROVE Goal
  BY <1>28 DEF ProvisionInstance, Goto
<1>29. ASSUME NEW r \in Runs, ActivateEnvironments(r) PROVE Goal
  BY <1>29 DEF ActivateEnvironments, SetEnvironments, Goto
<1>30. ASSUME NEW r \in Runs, Complete(r) PROVE Goal
  BY <1>30 DEF Complete, Goto
<1>31. ASSUME NEW r \in Runs, RegisterInstance(r) PROVE Goal
  BY <1>31 DEF RegisterInstance, Goto
<1>32. ASSUME NEW r \in Runs, FirstSync(r) PROVE Goal
  BY <1>32 DEF FirstSync, Goto
<1>33. ASSUME NEW r \in Runs, AttemptFails(r) PROVE Goal
  BY <1>33 DEF AttemptFails, Goto, Fault
<1>34. ASSUME NEW r \in Runs, RecordFailure(r) PROVE Goal
  BY <1>34 DEF RecordFailure, Goto
<1>35. ASSUME NEW r \in Runs, FailEnvironments(r) PROVE Goal
  BY <1>35 DEF FailEnvironments, SetEnvironments, Goto
<1>36. ASSUME NEW r \in Runs, WriteFails(r) PROVE Goal
  BY <1>36 DEF WriteFails, Goto, Fault
<1>37. ASSUME NEW r \in Runs, Crash(r) PROVE Goal
  BY <1>37 DEF Crash, Orphaned, Stop, Fault
<1>38. ASSUME UNCHANGED vars PROVE Goal
  BY <1>38 DEF vars
<1> HIDE DEF Goal
<1>39. ASSUME Console PROVE Goal
  BY <1>1, <1>2, <1>3, <1>4, <1>5, <1>6, <1>7, <1>8, <1>39 DEF Console
<1>40. ASSUME HandleTenantDeprovision PROVE Goal
  BY <1>9, <1>10, <1>11, <1>12, <1>13, <1>40 DEF HandleTenantDeprovision
<1>41. ASSUME NEW r \in Runs, HandleTenantProvision(r) PROVE Goal
  BY <1>18, <1>19, <1>21, <1>22, <1>23, <1>24, <1>25, <1>26, <1>27, <1>28, <1>29, <1>30, <1>31,
     <1>32, <1>33, <1>34, <1>35, <1>41
     DEF HandleTenantProvision
<1>42. Goal
  BY <1>14, <1>15, <1>16, <1>17, <1>20, <1>36, <1>37, <1>38, <1>39, <1>40, <1>41 DEF Next
<1> QED
  BY <1>42 DEF Goal

(* Two runs that both acquired the lock (lock.ts:28-50) are never in flight  *)
(* while both leases last, for any number of slots and any Redis outages.    *)
THEOREM LockSerializes == Spec => []OneLeaseAtATime
<1>1. Init => LeaseInv
  BY DEF Init, LeaseInv
<1>2. TypeOK /\ LeaseInv /\ [Next]_vars => LeaseInv'
  BY LeaseStep
<1>3. LeaseInv => OneLeaseAtATime
  BY DEF LeaseInv, OneLeaseAtATime
<1> QED
  BY <1>1, <1>2, <1>3, RunsWellFormed, PTL DEF Spec

\* Whatever does not touch the leases, grants one to a run that found the key
\* free, or ends the one that lasts, is a step of the abstract lease.
LEMMA LeaseSimulation ==
  ASSUME TypeOK, LeaseInv, [Next]_vars
  PROVE  [Granted!Next]_leased
<1> DEFINE Sim == [Granted!Next]_leased
<1>1. ASSUME UNCHANGED leased PROVE Sim
  BY <1>1
<1>2. ASSUME NEW r \in Runs, leased' = leased \ {r} PROVE Sim
  <2>1. leased' = leased \/ (leased = {r} /\ leased' = {})
    BY <1>2 DEF LeaseInv
  <2> QED
    BY <2>1 DEF Granted!Next, Granted!End
<1>3. ASSUME NEW r \in Runs, Acquire(r) PROVE Sim
  <2>1. leased = {} /\ leased' = {r}
    BY <1>3, ProvisionAssumption DEF Acquire, LeaseInv, TypeOK
  <2> QED
    BY <2>1 DEF Granted!Next, Granted!Grant
<1>4. ASSUME NEW r \in Runs, Release(r) \/ Crash(r) PROVE Sim
  BY <1>1, <1>2, <1>4 DEF Release, Crash
<1>5. ASSUME Expire PROVE Sim
  <2>1. CASE lock \in Runs
    BY <1>2, <1>5, <2>1 DEF Expire
  <2>2. CASE lock = Orphan
    BY <1>1, <1>5, <2>2, ProvisionAssumption DEF Expire, TypeOK
  <2> QED
    BY <1>5, <2>1, <2>2 DEF Expire
<1> HIDE DEF Sim
<1>6. ASSUME Console PROVE Sim
  BY <1>1, <1>6 DEF Console, CreateTenant, RequestProvision, RequestEnvironments, EnqueueProvision,
       DeleteTenant, EnqueueDeprovision, Reinstate, RequestDies, lease
<1>7. ASSUME HandleTenantDeprovision PROVE Sim
  BY <1>1, <1>7 DEF HandleTenantDeprovision, DeleteNamespace, ResetEnvironments, ResetStatus,
       PauseInstances, DeprovisionFails, lease
<1>8. ASSUME NEW r \in Runs, HandleTenantProvision(r) PROVE Sim
  <2>1. CASE \/ Skip(r) \/ BeginProvision(r) \/ MarkEnvironments(r) \/ BuildSpec(r)
             \/ EnsureDatabase(r) \/ ApplyManifests(r) \/ PodsReady(r)
    BY <1>1, <2>1 DEF Skip, BeginProvision, MarkEnvironments, BuildSpec, EnsureDatabase,
         ApplyManifests, PodsReady, lease
  <2>2. CASE \/ ProvisionInstance(r) \/ ActivateEnvironments(r) \/ Complete(r) \/ RegisterInstance(r)
             \/ FirstSync(r) \/ AttemptFails(r) \/ RecordFailure(r) \/ FailEnvironments(r)
    BY <1>1, <2>2 DEF ProvisionInstance, ActivateEnvironments, Complete, RegisterInstance, FirstSync,
         AttemptFails, RecordFailure, FailEnvironments, lease
  <2> QED
    BY <1>3, <1>4, <1>8, <2>1, <2>2 DEF HandleTenantProvision
<1>9. ASSUME NEW j \in Jobs, Promote(j) \/ Stalled(j) PROVE Sim
  BY <1>1, <1>9 DEF Promote, Stalled, lease
<1>10. ASSUME NEW r \in Runs, FailOpen(r) \/ WriteFails(r) PROVE Sim
  BY <1>1, <1>10 DEF FailOpen, WriteFails, lease
<1>11. ASSUME NEW r \in Runs, NEW j \in Jobs, Take(r, j) PROVE Sim
  BY <1>1, <1>11 DEF Take, lease
<1>12. ASSUME UNCHANGED vars PROVE Sim
  BY <1>1, <1>12 DEF vars, lease
<1>13. Sim
  BY <1>4, <1>5, <1>6, <1>7, <1>8, <1>9, <1>10, <1>11, <1>12 DEF Next
<1> QED
  BY <1>13 DEF Sim

(* The key with its token, TTL and release script implements the abstract    *)
(* lease (lock.ts:28-50), for any number of slots and any Redis outages.     *)
THEOREM ImplementsLease == Spec => LeaseSpec
<1>1. Init => Granted!Init
  BY DEF Init, Granted!Init
<1>2. Init => LeaseInv
  BY DEF Init, LeaseInv
<1>3. TypeOK /\ LeaseInv /\ [Next]_vars => LeaseInv' /\ [Granted!Next]_leased
  BY LeaseStep, LeaseSimulation
<1> QED
  BY <1>1, <1>2, <1>3, RunsWellFormed, PTL DEF Spec, LeaseSpec, Granted!Spec

-----------------------------------------------------------------------------
\* Without outages only the holder of the lock writes the password.
LEMMA CredentialStep ==
  ASSUME NoOutages, TypeOK, RunOK, CredentialInv, [Next]_vars
  PROVE  CredentialInv'
<1> USE ProvisionAssumption DEF NoOutages, TypeOK, RunOK, CredentialInv, BuildersHoldLock,
      SpecMatches,
        CredentialsAgree, Building, rows, stack, lease, web, slots, counts
<1> DEFINE Goal == CredentialInv'
<1>1. ASSUME NEW e \in Environments, CreateTenant(e) PROVE Goal
  BY <1>1 DEF CreateTenant, Request, Fault
<1>2. ASSUME NEW envs \in SUBSET Environments, RequestProvision(envs) PROVE Goal
  BY <1>2 DEF RequestProvision, Request
<1>3. ASSUME RequestEnvironments PROVE Goal
  BY <1>3 DEF RequestEnvironments, SetEnvironments
<1>4. ASSUME EnqueueProvision PROVE Goal
  BY <1>4 DEF EnqueueProvision
<1>5. ASSUME DeleteTenant PROVE Goal
  BY <1>5 DEF DeleteTenant, Request
<1>6. ASSUME EnqueueDeprovision PROVE Goal
  BY <1>6 DEF EnqueueDeprovision
<1>7. ASSUME Reinstate PROVE Goal
  BY <1>7 DEF Reinstate, Request
<1>8. ASSUME RequestDies PROVE Goal
  BY <1>8 DEF RequestDies, Fault
<1>9. ASSUME DeleteNamespace PROVE Goal
  BY <1>9 DEF DeleteNamespace
<1>10. ASSUME ResetEnvironments PROVE Goal
  BY <1>10 DEF ResetEnvironments
<1>11. ASSUME ResetStatus PROVE Goal
  BY <1>11 DEF ResetStatus
<1>12. ASSUME PauseInstances PROVE Goal
  BY <1>12 DEF PauseInstances
<1>13. ASSUME DeprovisionFails PROVE Goal
  BY <1>13 DEF DeprovisionFails, Fault
<1>14. ASSUME Expire PROVE Goal
  BY <1>14 DEF Expire
<1>15. ASSUME NEW j \in Jobs, Promote(j) PROVE Goal
  BY <1>15 DEF Promote
<1>16. ASSUME NEW j \in Jobs, Stalled(j) PROVE Goal
  BY <1>16 DEF Stalled
<1>17. ASSUME NEW r \in Runs, NEW j \in Jobs, Take(r, j) PROVE Goal
  BY <1>17 DEF Take
<1>18. ASSUME NEW r \in Runs, Acquire(r) PROVE Goal
  BY <1>18 DEF Acquire, Goto
<1>19. ASSUME NEW r \in Runs, Skip(r) PROVE Goal
  BY <1>19 DEF Skip, Stop
<1>20. ASSUME NEW r \in Runs, FailOpen(r) PROVE Goal
  BY <1>20 DEF FailOpen, Goto, Outage
<1>21. ASSUME NEW r \in Runs, Release(r) PROVE Goal
  BY <1>21 DEF Release, Freed, Orphaned, Stop
<1>22. ASSUME NEW r \in Runs, BeginProvision(r) PROVE Goal
  BY <1>22 DEF BeginProvision, Goto
<1>23. ASSUME NEW r \in Runs, MarkEnvironments(r) PROVE Goal
  BY <1>23 DEF MarkEnvironments, SetEnvironments, Goto
<1>24. ASSUME NEW r \in Runs, BuildSpec(r) PROVE Goal
  BY <1>24 DEF BuildSpec, ChoosePassword, Fresh, Goto
<1>25. ASSUME NEW r \in Runs, EnsureDatabase(r) PROVE Goal
  BY <1>25 DEF EnsureDatabase, Goto
<1>26. ASSUME NEW r \in Runs, ApplyManifests(r) PROVE Goal
  BY <1>26 DEF ApplyManifests, Goto
<1>27. ASSUME NEW r \in Runs, PodsReady(r) PROVE Goal
  BY <1>27 DEF PodsReady, Goto
<1>28. ASSUME NEW r \in Runs, ProvisionInstance(r) PROVE Goal
  BY <1>28 DEF ProvisionInstance, Goto
<1>29. ASSUME NEW r \in Runs, ActivateEnvironments(r) PROVE Goal
  BY <1>29 DEF ActivateEnvironments, SetEnvironments, Goto
<1>30. ASSUME NEW r \in Runs, Complete(r) PROVE Goal
  BY <1>30 DEF Complete, Goto
<1>31. ASSUME NEW r \in Runs, RegisterInstance(r) PROVE Goal
  BY <1>31 DEF RegisterInstance, Goto
<1>32. ASSUME NEW r \in Runs, FirstSync(r) PROVE Goal
  BY <1>32 DEF FirstSync, Goto
<1>33. ASSUME NEW r \in Runs, AttemptFails(r) PROVE Goal
  BY <1>33 DEF AttemptFails, Goto, Fault
<1>34. ASSUME NEW r \in Runs, RecordFailure(r) PROVE Goal
  BY <1>34 DEF RecordFailure, Goto
<1>35. ASSUME NEW r \in Runs, FailEnvironments(r) PROVE Goal
  BY <1>35 DEF FailEnvironments, SetEnvironments, Goto
<1>36. ASSUME NEW r \in Runs, WriteFails(r) PROVE Goal
  BY <1>36 DEF WriteFails, Goto, Fault
<1>37. ASSUME NEW r \in Runs, Crash(r) PROVE Goal
  BY <1>37 DEF Crash, Orphaned, Stop, Fault
<1>38. ASSUME UNCHANGED vars PROVE Goal
  BY <1>38 DEF vars
<1> HIDE DEF Goal
<1>39. ASSUME Console PROVE Goal
  BY <1>1, <1>2, <1>3, <1>4, <1>5, <1>6, <1>7, <1>8, <1>39 DEF Console
<1>40. ASSUME HandleTenantDeprovision PROVE Goal
  BY <1>9, <1>10, <1>11, <1>12, <1>13, <1>40 DEF HandleTenantDeprovision
<1>41. ASSUME NEW r \in Runs, HandleTenantProvision(r) PROVE Goal
  BY <1>18, <1>19, <1>21, <1>22, <1>23, <1>24, <1>25, <1>26, <1>27, <1>28, <1>29, <1>30, <1>31,
     <1>32, <1>33, <1>34, <1>35, <1>41
     DEF HandleTenantProvision
<1>42. Goal
  BY <1>14, <1>15, <1>16, <1>17, <1>20, <1>36, <1>37, <1>38, <1>39, <1>40, <1>41 DEF Next
<1> QED
  BY <1>42 DEF Goal

(* The password of the role and the one in the Secret agree at every moment  *)
(* (kubernetes-driver.ts:57-90), whatever fails or crashes and whenever the  *)
(* tenant is torn down, as long as Redis answers: only the lock prevents two *)
(* runs from drawing a password each.                                        *)
THEOREM RoleMatchesSecret ==
  ASSUME NoOutages
  PROVE  Spec => []CredentialsAgree
<1>1. Init => CredentialInv
  BY DEF Init, CredentialInv, BuildersHoldLock, SpecMatches, CredentialsAgree, Building
<1>2. TypeOK /\ RunOK /\ CredentialInv /\ [Next]_vars => CredentialInv'
  BY CredentialStep
<1>3. CredentialInv => CredentialsAgree
  BY DEF CredentialInv
<1> QED
  BY <1>1, <1>2, <1>3, RunsWellFormed, PTL DEF Spec

(***************************************************************************)
(* TenantDirectory                                                         *)
(***************************************************************************)

(* A lookup that is not late has read the row as it is.                       *)
LookupKnows ==
  \A r \in Lookups :
    /\ lookup[r].step # "none" => lookup[r].slug \in Slugs
    /\ lookup[r].step = "fill" => lookup[r].context \in Context
    /\ lookup[r].step = "fill" /\ r \notin late =>
         \E t \in Living(lookup[r].slug) : lookup[r].context = ContextOf(t)

(* A settings request is about a tenant, its slug and the slug it had.        *)
SavesKnow ==
  \A w \in Saves : save[w].step # "none" =>
    save[w].tenant \in Tenants /\ save[w].slug \in Slugs /\ save[w].old \in Slugs

(* A row has as many versions as there were changes at most.                  *)
VersionsCount == \A t \in Tenants : place[t].version <= changes

(* The slugs whose entries a settings request has still to delete.            *)
ToDrop(w) ==
  CASE save[w].step = "old" -> {save[w].old, save[w].slug}
    [] save[w].step = "new" -> {save[w].slug}
    [] OTHER -> {}

(* An entry that was not left behind is the row that has its slug, or a       *)
(* request is about to delete it.                                             *)
EntryKnows ==
  \A s \in Slugs \ left :
    \/ entry[s] = Nothing
    \/ \E t \in Living(s) : entry[s] = ContextOf(t)
    \/ \E w \in Saves : s \in ToDrop(w)

DirInv == DirTypeOK /\ LookupKnows /\ SavesKnow /\ VersionsCount /\ EntryKnows

-----------------------------------------------------------------------------
(* A lookup finds no row, or reads one that holds its slug and is not deleted. *)
LEMMA ReadPlaceReads ==
  ASSUME DirTypeOK, NEW r \in Lookups, ReadPlace(r)
  PROVE  \/ lookup' = [lookup EXCEPT ![r] = NoLookup]
         \/ \E t \in Living(lookup[r].slug) :
              /\ ContextOf(t) \in Context
              /\ lookup' = [lookup EXCEPT ![r] =
                   [lookup[r] EXCEPT !.step = "fill", !.context = ContextOf(t)]]
<1>1. CASE Living(lookup[r].slug) = {}
  BY <1>1 DEF ReadPlace
<1>2. CASE Living(lookup[r].slug) # {}
  <2>1. PICK t \in Living(lookup[r].slug) : t = CHOOSE u \in Living(lookup[r].slug) : TRUE
    BY <1>2
  <2>2. ContextOf(t) \in Context
    BY <2>1 DEF Living, Holders, ContextOf, Context, DirTypeOK, Place
  <2>3. lookup' = [lookup EXCEPT ![r] = [lookup[r] EXCEPT !.step = "fill", !.context = ContextOf(t)]]
    BY <1>2, <2>1 DEF ReadPlace, DirTypeOK
  <2> QED
    BY <2>1, <2>2, <2>3
<1> QED
  BY <1>1, <1>2

(* A change of one row does not touch what a lookup has read of the others.   *)
LEMMA ChangesSpareOthers ==
  ASSUME DirTypeOK, DirTypeOK', LookupKnows, NEW t \in Tenants, NEW row,
         Changes(t, row), UNCHANGED lookup
  PROVE  LookupKnows'
<1>1. SUFFICES ASSUME NEW r \in Lookups, lookup[r].step = "fill", r \notin late'
               PROVE  \E u \in Living(lookup[r].slug)' : lookup[r].context = ContextOf(u)'
  BY DEF LookupKnows
<1>2. r \notin late /\ lookup[r].context.tenant # t
  BY <1>1 DEF Changes
<1>3. PICK u \in Living(lookup[r].slug) : lookup[r].context = ContextOf(u)
  BY <1>1, <1>2 DEF LookupKnows
<1>4. u \in Tenants /\ u # t
  BY <1>2, <1>3 DEF ContextOf, Living, Holders
<1>5. place'[u] = place[u]
  BY <1>4 DEF Changes, DirTypeOK
<1>6. u \in Living(lookup[r].slug)'
  BY <1>3, <1>4, <1>5 DEF Living, Holders
<1>7. lookup[r].context = ContextOf(u)'
  BY <1>3, <1>5 DEF ContextOf
<1> QED
  BY <1>6, <1>7

\* Every request of the directory keeps the types.
LEMMA DirTypeStep ==
  ASSUME DirTypeOK, LookupKnows, SavesKnow, VersionsCount, DirNext \/ UNCHANGED dirVars
  PROVE  DirTypeOK'
<1> USE DirAssumption
<1>1. ASSUME NEW r \in Lookups, ReadPlace(r) PROVE DirTypeOK'
  <2>1. lookup' \in [Lookups -> LookupState]
    <3>1. NoLookup \in LookupState
      BY DEF LookupState, NoLookup
    <3>2. \A c \in Context : [lookup[r] EXCEPT !.step = "fill", !.context = c] \in LookupState
      BY DEF DirTypeOK, LookupState
    <3>3. CASE lookup' = [lookup EXCEPT ![r] = NoLookup]
      BY <3>1, <3>3 DEF DirTypeOK
    <3>4. ASSUME NEW c \in Context,
                 lookup' = [lookup EXCEPT ![r] = [lookup[r] EXCEPT !.step = "fill", !.context = c]]
          PROVE  lookup' \in [Lookups -> LookupState]
      BY <3>2, <3>4 DEF DirTypeOK
    <3> QED
      BY <1>1, <3>3, <3>4, ReadPlaceReads
  <2> QED
    BY <1>1, <2>1 DEF ReadPlace, DirTypeOK
<1>2. ASSUME NEW r \in Lookups, Fill(r) PROVE DirTypeOK'
  BY <1>2 DEF Fill, NoLookup, DirTypeOK, LookupState, LookupKnows
<1>3. ASSUME NEW r \in Lookups, FillFails(r) PROVE DirTypeOK'
  BY <1>3 DEF FillFails, NoLookup, DirTypeOK, LookupState
<1>4. ASSUME NEW r \in Lookups, NEW s \in Slugs, MissCache(r, s) PROVE DirTypeOK'
  BY <1>4 DEF MissCache, NoLookup, DirTypeOK, LookupState
<1>5. ASSUME NEW s \in Slugs, EntryExpires(s) PROVE DirTypeOK'
  BY <1>5 DEF EntryExpires, Drops, DirTypeOK
<1>6. ASSUME NEW t \in Tenants, NEW s \in Slugs, SignUp(t, s) PROVE DirTypeOK'
  BY <1>6 DEF SignUp, Changes, DirTypeOK, Place, LookupKnows
<1>7. ASSUME NEW t \in Tenants, NEW status \in {"ACTIVE", "SUSPENDED", "DELETED"}, SetStatus(t, status)
      PROVE DirTypeOK'
  BY <1>7 DEF SetStatus, Changes, DirTypeOK, Place
<1>8. ASSUME NEW t \in Tenants, ChangeUnseen(t) PROVE DirTypeOK'
  <2>1. place[t].version + 1 \in 0..MaxChanges
    BY <1>8, DirAssumption DEF ChangeUnseen, Changes, DirTypeOK, Place, VersionsCount
  <2>2. [place[t] EXCEPT !.version = @ + 1] \in Place
    BY <2>1 DEF DirTypeOK, Place
  <2> QED
    BY <1>8, <2>2 DEF ChangeUnseen, Changes, DirTypeOK
<1>9. ASSUME NEW w \in Saves, NEW t \in Tenants, NEW s \in Slugs, ReadSlug(w, t, s)
      PROVE DirTypeOK'
  BY <1>9 DEF ReadSlug, DirTypeOK, Place, SaveState
<1>10. ASSUME NEW w \in Saves, WriteRow(w) PROVE DirTypeOK'
  <2>1. save[w].tenant \in Tenants /\ save[w].slug \in Slugs
    BY <1>10 DEF WriteRow, SavesKnow
  <2>2. place[save[w].tenant].version + 1 \in 0..MaxChanges /\ changes + 1 \in 0..MaxChanges
    BY <1>10, <2>1 DEF WriteRow, Changes, VersionsCount, DirTypeOK, Place
  <2>3. [place[save[w].tenant] EXCEPT !.slug = save[w].slug, !.version = @ + 1] \in Place
    BY <2>1, <2>2 DEF DirTypeOK, Place
  <2>4. place' \in [Tenants -> Place] /\ changes' \in 0..MaxChanges /\ late' \in SUBSET Lookups
    BY <1>10, <2>2, <2>3 DEF WriteRow, Changes, DirTypeOK
  <2>5. save' \in [Saves -> SaveState]
    BY <1>10 DEF WriteRow, DirTypeOK, SaveState
  <2>6. left' \in SUBSET Slugs /\ UNCHANGED <<entry, lookup>>
    BY <1>10 DEF WriteRow, DirTypeOK
  <2> QED
    BY <2>4, <2>5, <2>6 DEF DirTypeOK
<1>11. ASSUME NEW w \in Saves, RowWriteFails(w) PROVE DirTypeOK'
  BY <1>11 DEF RowWriteFails, NoSave, DirTypeOK, SaveState
<1>12. ASSUME NEW w \in Saves, DropOld(w) PROVE DirTypeOK'
  BY <1>12 DEF DropOld, Drops, NoSave, DirTypeOK, SaveState, SavesKnow
<1>13. ASSUME NEW w \in Saves, DropNew(w) PROVE DirTypeOK'
  BY <1>13 DEF DropNew, Drops, NoSave, DirTypeOK, SaveState
<1>14. ASSUME NEW w \in Saves, DropFails(w) PROVE DirTypeOK'
  BY <1>14 DEF DropFails, NoSave, DirTypeOK, SaveState
<1>15. ASSUME UNCHANGED dirVars PROVE DirTypeOK'
  BY <1>15 DEF dirVars, DirTypeOK
<1> QED
  BY <1>1, <1>2, <1>3, <1>4, <1>5, <1>6, <1>7, <1>8, <1>9, <1>10, <1>11, <1>12, <1>13, <1>14,
     <1>15 DEF DirNext, LookupSteps, SaveSteps

\* A lookup that nothing overtakes goes on with the row as it is.
LEMMA LookupKnowsStep ==
  ASSUME DirTypeOK, DirTypeOK', LookupKnows, SavesKnow, DirNext \/ UNCHANGED dirVars
  PROVE  LookupKnows'
<1> USE DirAssumption
<1>1. ASSUME NEW r \in Lookups, ReadPlace(r) PROVE LookupKnows'
  <2>1. CASE lookup' = [lookup EXCEPT ![r] = NoLookup]
    <3>1. lookup'[r] = NoLookup
      BY <2>1 DEF DirTypeOK
    <3>2. \A q \in Lookups \ {r} : lookup'[q] = lookup[q] /\ (q \in late' <=> q \in late)
      BY <1>1, <2>1 DEF ReadPlace, DirTypeOK
    <3>3. \A s : Living(s)' = Living(s)
      BY <1>1 DEF ReadPlace, Living, Holders
    <3>4. \A u : ContextOf(u)' = ContextOf(u)
      BY <1>1 DEF ReadPlace, ContextOf
    <3> QED
      BY <3>1, <3>2, <3>3, <3>4 DEF LookupKnows, NoLookup
  <2>2. ASSUME NEW t \in Living(lookup[r].slug), ContextOf(t) \in Context,
               lookup' = [lookup EXCEPT ![r] =
                 [lookup[r] EXCEPT !.step = "fill", !.context = ContextOf(t)]]
        PROVE  LookupKnows'
    <3>0. lookup[r] \in LookupState /\ lookup[r].slug \in Slugs
      BY <1>1 DEF DirTypeOK, ReadPlace, LookupKnows
    <3>1. /\ lookup'[r].step = "fill" /\ lookup'[r].context = ContextOf(t)
          /\ lookup'[r].slug = lookup[r].slug
      BY <2>2, <3>0 DEF DirTypeOK, LookupState
    <3>2. \A q \in Lookups \ {r} : lookup'[q] = lookup[q] /\ (q \in late' <=> q \in late)
      BY <1>1, <2>2 DEF ReadPlace, DirTypeOK
    <3>3. \A s : Living(s)' = Living(s)
      BY <1>1 DEF ReadPlace, Living, Holders
    <3>4. \A u : ContextOf(u)' = ContextOf(u)
      BY <1>1 DEF ReadPlace, ContextOf
    <3> QED
      BY <2>2, <3>0, <3>1, <3>2, <3>3, <3>4 DEF LookupKnows
  <2> QED
    BY <1>1, <2>1, <2>2, ReadPlaceReads
<1>2. ASSUME NEW r \in Lookups, Fill(r) PROVE LookupKnows'
  BY <1>2 DEF Fill, Holders, Living, ContextOf, NoLookup, DirTypeOK, LookupState, LookupKnows
<1>3. ASSUME NEW r \in Lookups, FillFails(r) PROVE LookupKnows'
  BY <1>3 DEF FillFails, Holders, Living, ContextOf, NoLookup, DirTypeOK, LookupKnows
<1>4. ASSUME NEW r \in Lookups, NEW s \in Slugs, MissCache(r, s) PROVE LookupKnows'
  BY <1>4 DEF MissCache, Holders, Living, ContextOf, LookupKnows
<1>5. ASSUME NEW s \in Slugs, EntryExpires(s) PROVE LookupKnows'
  BY <1>5 DEF EntryExpires, Holders, Living, ContextOf, LookupKnows
<1>6. ASSUME NEW t \in Tenants, NEW s \in Slugs, SignUp(t, s) PROVE LookupKnows'
  BY <1>6, ChangesSpareOthers DEF SignUp
<1>7. ASSUME NEW t \in Tenants, NEW status \in {"ACTIVE", "SUSPENDED", "DELETED"}, SetStatus(t, status)
      PROVE LookupKnows'
  BY <1>7, ChangesSpareOthers DEF SetStatus
<1>8. ASSUME NEW t \in Tenants, ChangeUnseen(t) PROVE LookupKnows'
  BY <1>8, ChangesSpareOthers DEF ChangeUnseen
<1>9. ASSUME NEW w \in Saves, NEW t \in Tenants, NEW s \in Slugs, ReadSlug(w, t, s)
      PROVE LookupKnows'
  BY <1>9 DEF ReadSlug, Holders, Living, ContextOf, LookupState, LookupKnows
<1>10. ASSUME NEW w \in Saves, WriteRow(w) PROVE LookupKnows'
  <2>1. save[w].tenant \in Tenants
    BY <1>10 DEF WriteRow, SavesKnow
  <2> QED
    BY <1>10, <2>1, ChangesSpareOthers DEF WriteRow
<1>11. ASSUME NEW w \in Saves, RowWriteFails(w) PROVE LookupKnows'
  BY <1>11 DEF RowWriteFails, Holders, Living, ContextOf, LookupKnows
<1>12. ASSUME NEW w \in Saves, DropOld(w) PROVE LookupKnows'
  BY <1>12 DEF DropOld, Holders, Living, ContextOf, LookupKnows
<1>13. ASSUME NEW w \in Saves, DropNew(w) PROVE LookupKnows'
  BY <1>13 DEF DropNew, Holders, Living, ContextOf, LookupKnows
<1>14. ASSUME NEW w \in Saves, DropFails(w) PROVE LookupKnows'
  BY <1>14 DEF DropFails, Holders, Living, ContextOf, LookupKnows
<1>15. ASSUME UNCHANGED dirVars PROVE LookupKnows'
  BY <1>15 DEF dirVars, Holders, Living, ContextOf, LookupKnows
<1> QED
  BY <1>1, <1>2, <1>3, <1>4, <1>5, <1>6, <1>7, <1>8, <1>9, <1>10, <1>11, <1>12, <1>13, <1>14,
     <1>15 DEF DirNext, LookupSteps, SaveSteps

\* A settings request keeps the slugs it has to drop.
LEMMA SavesKnowStep ==
  ASSUME DirTypeOK, DirTypeOK', SavesKnow, DirNext \/ UNCHANGED dirVars
  PROVE  SavesKnow'
<1> USE DirAssumption
<1>1. ASSUME NEW r \in Lookups, ReadPlace(r) PROVE SavesKnow'
  BY <1>1 DEF ReadPlace, SavesKnow
<1>2. ASSUME NEW r \in Lookups, Fill(r) PROVE SavesKnow'
  BY <1>2 DEF Fill, SavesKnow
<1>3. ASSUME NEW r \in Lookups, FillFails(r) PROVE SavesKnow'
  BY <1>3 DEF FillFails, SavesKnow
<1>4. ASSUME NEW r \in Lookups, NEW s \in Slugs, MissCache(r, s) PROVE SavesKnow'
  BY <1>4 DEF MissCache, SavesKnow
<1>5. ASSUME NEW s \in Slugs, EntryExpires(s) PROVE SavesKnow'
  BY <1>5 DEF EntryExpires, SavesKnow
<1>6. ASSUME NEW t \in Tenants, NEW s \in Slugs, SignUp(t, s) PROVE SavesKnow'
  BY <1>6 DEF SignUp, SavesKnow
<1>7. ASSUME NEW t \in Tenants, NEW status \in {"ACTIVE", "SUSPENDED", "DELETED"}, SetStatus(t, status)
      PROVE SavesKnow'
  BY <1>7 DEF SetStatus, SavesKnow
<1>8. ASSUME NEW t \in Tenants, ChangeUnseen(t) PROVE SavesKnow'
  BY <1>8 DEF ChangeUnseen, SavesKnow
<1>9. ASSUME NEW w \in Saves, NEW t \in Tenants, NEW s \in Slugs, ReadSlug(w, t, s)
      PROVE SavesKnow'
  BY <1>9 DEF ReadSlug, DirTypeOK, Place, SavesKnow
<1>10. ASSUME NEW w \in Saves, WriteRow(w) PROVE SavesKnow'
  BY <1>10 DEF WriteRow, SavesKnow
<1>11. ASSUME NEW w \in Saves, RowWriteFails(w) PROVE SavesKnow'
  BY <1>11 DEF RowWriteFails, NoSave, SavesKnow
<1>12. ASSUME NEW w \in Saves, DropOld(w) PROVE SavesKnow'
  BY <1>12 DEF DropOld, NoSave, SavesKnow
<1>13. ASSUME NEW w \in Saves, DropNew(w) PROVE SavesKnow'
  BY <1>13 DEF DropNew, NoSave, SavesKnow
<1>14. ASSUME NEW w \in Saves, DropFails(w) PROVE SavesKnow'
  BY <1>14 DEF DropFails, NoSave, SavesKnow
<1>15. ASSUME UNCHANGED dirVars PROVE SavesKnow'
  BY <1>15 DEF dirVars, SavesKnow
<1> QED
  BY <1>1, <1>2, <1>3, <1>4, <1>5, <1>6, <1>7, <1>8, <1>9, <1>10, <1>11, <1>12, <1>13, <1>14,
     <1>15 DEF DirNext, LookupSteps, SaveSteps

\* Every new version of a row is one of the counted changes.
LEMMA VersionsCountStep ==
  ASSUME DirTypeOK, DirTypeOK', VersionsCount, DirNext \/ UNCHANGED dirVars
  PROVE  VersionsCount'
<1> USE DirAssumption
<1>1. ASSUME NEW r \in Lookups, ReadPlace(r) PROVE VersionsCount'
  BY <1>1 DEF ReadPlace, VersionsCount
<1>2. ASSUME NEW r \in Lookups, Fill(r) PROVE VersionsCount'
  BY <1>2 DEF Fill, VersionsCount
<1>3. ASSUME NEW r \in Lookups, FillFails(r) PROVE VersionsCount'
  BY <1>3 DEF FillFails, VersionsCount
<1>4. ASSUME NEW r \in Lookups, NEW s \in Slugs, MissCache(r, s) PROVE VersionsCount'
  BY <1>4 DEF MissCache, VersionsCount
<1>5. ASSUME NEW s \in Slugs, EntryExpires(s) PROVE VersionsCount'
  BY <1>5 DEF EntryExpires, VersionsCount
<1>6. ASSUME NEW t \in Tenants, NEW s \in Slugs, SignUp(t, s) PROVE VersionsCount'
  BY <1>6 DEF SignUp, Changes, DirTypeOK, Place, VersionsCount
<1>7. ASSUME NEW t \in Tenants, NEW status \in {"ACTIVE", "SUSPENDED", "DELETED"}, SetStatus(t, status)
      PROVE VersionsCount'
  BY <1>7 DEF SetStatus, Changes, DirTypeOK, Place, VersionsCount
<1>8. ASSUME NEW t \in Tenants, ChangeUnseen(t) PROVE VersionsCount'
  BY <1>8 DEF ChangeUnseen, Changes, DirTypeOK, Place, VersionsCount
<1>9. ASSUME NEW w \in Saves, NEW t \in Tenants, NEW s \in Slugs, ReadSlug(w, t, s)
      PROVE VersionsCount'
  BY <1>9 DEF ReadSlug, VersionsCount
<1>10. ASSUME NEW w \in Saves, WriteRow(w) PROVE VersionsCount'
  BY <1>10 DEF WriteRow, Changes, Holders, DirTypeOK, Place, VersionsCount
<1>11. ASSUME NEW w \in Saves, RowWriteFails(w) PROVE VersionsCount'
  BY <1>11 DEF RowWriteFails, VersionsCount
<1>12. ASSUME NEW w \in Saves, DropOld(w) PROVE VersionsCount'
  BY <1>12 DEF DropOld, VersionsCount
<1>13. ASSUME NEW w \in Saves, DropNew(w) PROVE VersionsCount'
  BY <1>13 DEF DropNew, VersionsCount
<1>14. ASSUME NEW w \in Saves, DropFails(w) PROVE VersionsCount'
  BY <1>14 DEF DropFails, VersionsCount
<1>15. ASSUME UNCHANGED dirVars PROVE VersionsCount'
  BY <1>15 DEF dirVars, VersionsCount
<1> QED
  BY <1>1, <1>2, <1>3, <1>4, <1>5, <1>6, <1>7, <1>8, <1>9, <1>10, <1>11, <1>12, <1>13, <1>14,
     <1>15 DEF DirNext, LookupSteps, SaveSteps

\* An entry that differs from its row is excused or still to be dropped.
LEMMA EntryKnowsStep ==
  ASSUME DirTypeOK, DirTypeOK', LookupKnows, SavesKnow, EntryKnows, DirNext \/ UNCHANGED dirVars
  PROVE  EntryKnows'
<1> USE DirAssumption
<1>1. ASSUME NEW r \in Lookups, ReadPlace(r) PROVE EntryKnows'
  BY <1>1 DEF ReadPlace, Holders, Living, ContextOf, SaveState, Context, LookupKnows, SavesKnow,
     EntryKnows, ToDrop
<1>2. ASSUME NEW r \in Lookups, Fill(r) PROVE EntryKnows'
  <2>1. \A s : Living(s)' = Living(s)
    BY <1>2 DEF Fill, Living, Holders
  <2>2. \A t : ContextOf(t)' = ContextOf(t)
    BY <1>2 DEF Fill, ContextOf
  <2>3. \A w \in Saves : ToDrop(w)' = ToDrop(w)
    BY <1>2 DEF Fill, ToDrop
  <2>4. lookup[r].slug \in Slugs
    BY <1>2 DEF Fill, LookupKnows
  <2>5. \A s \in Slugs \ {lookup[r].slug} : entry'[s] = entry[s] /\ (s \in left' <=> s \in left)
    BY <1>2 DEF Fill, DirTypeOK
  <2>6. CASE r \in late
    <3>1. lookup[r].slug \in left'
      BY <1>2, <2>6 DEF Fill
    <3> QED
      BY <2>1, <2>2, <2>3, <2>5, <3>1 DEF EntryKnows
  <2>7. CASE r \notin late
    <3>1. \E t \in Living(lookup[r].slug) : lookup[r].context = ContextOf(t)
      BY <1>2, <2>7 DEF Fill, LookupKnows
    <3>2. entry'[lookup[r].slug] = lookup[r].context
      BY <1>2, <2>4 DEF Fill, DirTypeOK
    <3> QED
      BY <2>1, <2>2, <2>3, <2>5, <3>1, <3>2 DEF EntryKnows
  <2> QED
    BY <2>6, <2>7
<1>3. ASSUME NEW r \in Lookups, FillFails(r) PROVE EntryKnows'
  BY <1>3 DEF FillFails, Holders, Living, ContextOf, EntryKnows, ToDrop
<1>4. ASSUME NEW r \in Lookups, NEW s \in Slugs, MissCache(r, s) PROVE EntryKnows'
  BY <1>4 DEF MissCache, Holders, Living, ContextOf, EntryKnows, ToDrop
<1>5. ASSUME NEW s \in Slugs, EntryExpires(s) PROVE EntryKnows'
  <2>1. \A x \in Slugs : x \in left' <=> x \in left /\ x # s
    BY <1>5 DEF EntryExpires, Drops
  <2>2. \A x \in Slugs : entry'[x] = IF x = s THEN Nothing ELSE entry[x]
    BY <1>5 DEF EntryExpires, Drops, DirTypeOK
  <2>3. \A x : Living(x)' = Living(x) /\ ContextOf(x)' = ContextOf(x) /\ ToDrop(x)' = ToDrop(x)
    BY <1>5 DEF EntryExpires, Living, Holders, ContextOf, ToDrop
  <2>4. ASSUME NEW x \in Slugs \ left', x # s
        PROVE  \/ entry'[x] = Nothing
               \/ \E t \in Living(x)' : entry'[x] = ContextOf(t)'
               \/ \E w \in Saves : x \in ToDrop(w)'
    <3>1. x \in Slugs \ left /\ entry'[x] = entry[x]
      BY <2>1, <2>2, <2>4
    <3> QED
      BY <2>3, <3>1 DEF EntryKnows
  <2> QED
    BY <2>2, <2>4 DEF EntryKnows
<1>6. ASSUME NEW t \in Tenants, NEW s \in Slugs, SignUp(t, s) PROVE EntryKnows'
  BY <1>6 DEF SignUp, Changes, Holders, Living, ContextOf, DirTypeOK, EntryKnows, ToDrop
<1>7. ASSUME NEW t \in Tenants, NEW status \in {"ACTIVE", "SUSPENDED", "DELETED"}, SetStatus(t, status)
      PROVE EntryKnows'
  BY <1>7 DEF SetStatus, Changes, Holders, Living, ContextOf, DirTypeOK, EntryKnows, ToDrop
<1>8. ASSUME NEW t \in Tenants, ChangeUnseen(t) PROVE EntryKnows'
  BY <1>8 DEF ChangeUnseen, Changes, Holders, Living, ContextOf, DirTypeOK, EntryKnows, ToDrop
<1>9. ASSUME NEW w \in Saves, NEW t \in Tenants, NEW s \in Slugs, ReadSlug(w, t, s)
      PROVE EntryKnows'
  BY <1>9 DEF ReadSlug, Holders, Living, ContextOf, EntryKnows, ToDrop
<1>10. ASSUME NEW w \in Saves, WriteRow(w) PROVE EntryKnows'
  <2> DEFINE t == save[w].tenant
  <2>1. t \in Tenants /\ save[w].step = "write"
    BY <1>10 DEF WriteRow, SavesKnow
  <2>2. entry' = entry /\ \A u \in Tenants \ {t} : place'[u] = place[u]
    BY <1>10 DEF WriteRow, Changes, DirTypeOK
  <2>3. ToDrop(w) = {} /\ \A o \in Saves \ {w} : ToDrop(o)' = ToDrop(o)
    BY <1>10 DEF WriteRow, ToDrop, DirTypeOK
  <2>4. save'[w] = [save[w] EXCEPT !.step = "old"]
    BY <1>10 DEF WriteRow, DirTypeOK
  <2>5. ToDrop(w)' = {save[w].old, save[w].slug}
    BY <2>1, <2>4 DEF ToDrop, DirTypeOK, SaveState
  <2>6. left' = left \cup (({place[t].slug} \ {save[w].old, save[w].slug})
                             \cap {s \in Slugs : entry[s] # Nothing})
    BY <1>10 DEF WriteRow
  <2>7. ASSUME NEW s \in Slugs \ left', entry[s] # Nothing
        PROVE  \/ \E u \in Living(s)' : entry[s] = ContextOf(u)'
               \/ \E o \in Saves : s \in ToDrop(o)'
    <3>1. s \notin left
      BY <2>6, <2>7
    <3>2. CASE \E o \in Saves : s \in ToDrop(o)
      BY <2>3, <3>2
    <3>3. ASSUME NEW u \in Living(s), entry[s] = ContextOf(u), u # t
          PROVE  u \in Living(s)' /\ entry[s] = ContextOf(u)'
      BY <2>2, <3>3 DEF Living, Holders, ContextOf
    <3>4. ASSUME t \in Living(s) PROVE s \in ToDrop(w)'
      BY <2>5, <2>6, <2>7, <3>4 DEF Living, Holders
    <3> QED
      BY <2>7, <3>1, <3>2, <3>3, <3>4 DEF EntryKnows
  <2> QED
    BY <2>2, <2>7 DEF EntryKnows
<1>11. ASSUME NEW w \in Saves, RowWriteFails(w) PROVE EntryKnows'
  BY <1>11 DEF RowWriteFails, Holders, Living, ContextOf, EntryKnows, ToDrop
<1>12. ASSUME NEW w \in Saves, DropOld(w) PROVE EntryKnows'
  <2>1. \A s : Living(s)' = Living(s)
    BY <1>12 DEF DropOld, Living, Holders
  <2>2. \A t : ContextOf(t)' = ContextOf(t)
    BY <1>12 DEF DropOld, ContextOf
  <2>3. \A o \in Saves \ {w} : ToDrop(o)' = ToDrop(o)
    BY <1>12 DEF DropOld, ToDrop, DirTypeOK
  <2>4. save[w].slug \in Slugs /\ save[w].old \in Slugs
    BY <1>12 DEF DropOld, SavesKnow
  <2>5. entry'[save[w].old] = Nothing
    BY <1>12, <2>4 DEF DropOld, Drops, DirTypeOK
  <2>6. \A s \in Slugs \ {save[w].old} : entry'[s] = entry[s] /\ (s \in left' <=> s \in left)
    BY <1>12 DEF DropOld, Drops, DirTypeOK
  <2>7. ToDrop(w) \ {save[w].old} \subseteq ToDrop(w)'
    <3>1. CASE save[w].slug = save[w].old
      BY <1>12, <3>1 DEF DropOld, ToDrop
    <3>2. CASE save[w].slug # save[w].old
      <4>1. save'[w].step = "new" /\ save'[w].slug = save[w].slug
        BY <1>12, <3>2 DEF DropOld, DirTypeOK, SaveState
      <4> QED
        BY <1>12, <4>1 DEF DropOld, ToDrop
    <3> QED
      BY <3>1, <3>2
  <2> QED
    BY <2>1, <2>2, <2>3, <2>5, <2>6, <2>7 DEF EntryKnows
<1>13. ASSUME NEW w \in Saves, DropNew(w) PROVE EntryKnows'
  <2>1. \A s : Living(s)' = Living(s)
    BY <1>13 DEF DropNew, Living, Holders
  <2>2. \A t : ContextOf(t)' = ContextOf(t)
    BY <1>13 DEF DropNew, ContextOf
  <2>3. \A o \in Saves \ {w} : ToDrop(o)' = ToDrop(o)
    BY <1>13 DEF DropNew, ToDrop, DirTypeOK
  <2>4. save[w].slug \in Slugs /\ save[w].old \in Slugs
    BY <1>13 DEF DropNew, SavesKnow
  <2>5. entry'[save[w].slug] = Nothing
    BY <1>13, <2>4 DEF DropNew, Drops, DirTypeOK
  <2>6. \A s \in Slugs \ {save[w].slug} : entry'[s] = entry[s] /\ (s \in left' <=> s \in left)
    BY <1>13 DEF DropNew, Drops, DirTypeOK
  <2>7. ToDrop(w) \ {save[w].slug} \subseteq ToDrop(w)'
    BY <1>13 DEF DropNew, ToDrop
  <2> QED
    BY <2>1, <2>2, <2>3, <2>5, <2>6, <2>7 DEF EntryKnows
<1>14. ASSUME NEW w \in Saves, DropFails(w) PROVE EntryKnows'
  <2>1. \A s : Living(s)' = Living(s)
    BY <1>14 DEF DropFails, Living, Holders
  <2>2. \A t : ContextOf(t)' = ContextOf(t)
    BY <1>14 DEF DropFails, ContextOf
  <2>3. \A o \in Saves \ {w} : ToDrop(o)' = ToDrop(o)
    BY <1>14 DEF DropFails, ToDrop, DirTypeOK
  <2>4. \A s \in ToDrop(w) : s \in Slugs => s \in left' \/ entry[s] = Nothing
    BY <1>14 DEF DropFails, ToDrop
  <2>5. entry' = entry /\ left \subseteq left'
    BY <1>14 DEF DropFails
  <2> QED
    BY <2>1, <2>2, <2>3, <2>4, <2>5 DEF EntryKnows
<1>15. ASSUME UNCHANGED dirVars PROVE EntryKnows'
  BY <1>15 DEF dirVars, Holders, Living, ContextOf, EntryKnows, ToDrop
<1> QED
  BY <1>1, <1>2, <1>3, <1>4, <1>5, <1>6, <1>7, <1>8, <1>9, <1>10, <1>11, <1>12, <1>13, <1>14,
     <1>15 DEF DirNext, LookupSteps, SaveSteps

\* The inductive invariant of the directory.
LEMMA DirInvariant == DirSpec => []DirInv
<1>1. DirInit => DirInv
  <2> SUFFICES ASSUME DirInit PROVE DirInv
    OBVIOUS
  <2> USE DirAssumption
  <2>1. NoLookup \in LookupState /\ NoSave \in SaveState
    BY DEF NoLookup, NoSave, LookupState, SaveState
  <2>2. [slug |-> Nothing, status |-> "ACTIVE", version |-> 0] \in Place
    BY DEF Place
  <2>3. DirTypeOK
    BY <2>1, <2>2 DEF DirInit, DirTypeOK
  <2>4. LookupKnows /\ SavesKnow /\ VersionsCount /\ EntryKnows
    BY DEF DirInit, LookupKnows, SavesKnow, VersionsCount, EntryKnows, NoLookup, NoSave
  <2> QED
    BY <2>3, <2>4 DEF DirInv
<1>2. DirInv /\ [DirNext]_dirVars => DirInv'
  BY DirTypeStep, LookupKnowsStep, SavesKnowStep, VersionsCountStep, EntryKnowsStep DEF DirInv
<1> QED
  BY <1>1, <1>2, PTL DEF DirSpec

\* Every variable of the directory keeps its type (DirTypeOK).
THEOREM DirTypeCorrect == DirSpec => []DirTypeOK
<1>1. DirInv => DirTypeOK
  BY DEF DirInv
<1> QED
  BY <1>1, DirInvariant, PTL

\* For any number of tenants, lookups and settings requests: what the cache has
\* for a slug is what the row says, unless a change left the entry to expire or a
\* late lookup filled it (resolver.ts).
THEOREM EntriesAreCurrent == DirSpec => []EntryIsCurrent
<1>1. DirInv => EntryIsCurrent
  BY DEF DirInv, EntryIsCurrent, EntryKnows, ToDrop
<1> QED
  BY <1>1, DirInvariant, PTL
=============================================================================
