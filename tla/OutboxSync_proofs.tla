-------------------------- MODULE OutboxSync_proofs --------------------------
(***************************************************************************)
(* Proofs about OutboxSync for any number of rows, jobs, requests and      *)
(* instances.  A run reads the identity state after it claimed its markers *)
(* (SnapshotCoversClaim, with any number of workers); if a single process  *)
(* drains the outbox, apps never go back, so what was reported DONE stays  *)
(* true (AckedIsReflected) and the outbox implements IdentityDelivery.     *)
(* GroupSync: passes that overlap may leave two groups for a role, and the *)
(* next one that runs alone still leaves what it read.                     *)
(***************************************************************************)
EXTENDS OutboxSync, GroupSync, TLAPS

(* Markers, reads and apps never run ahead of what is committed. *)
NothingFromTheFuture ==
  /\ \A e \in Events : wrote[e] <= version
  /\ \A w \in Workers, p \in Parts : snap[w][p] = Unread \/ snap[w][p] <= version
  /\ \A a \in Apps, p \in Parts : app[a][p] <= version

(* Outside a converge nothing has been read. *)
ReadsBelongToConverge ==
  \A w \in Workers :
    /\ pc[w] \in {"idle", "find", "claim", "instances", "next"} =>
         \A p \in Parts : snap[w][p] = Unread
    /\ pc[w] \in {"users", "groups"} => \A p \in Parts : snap[w][p] <= version

SnapInv == NothingFromTheFuture /\ ReadsBelongToConverge /\ SnapshotCoversClaim

(* Nothing is served before the instances were read, and the instance being *)
(* converged is one of those still to do.                                   *)
RunShape ==
  \A w \in Workers :
    /\ pc[w] \in {"idle", "find", "claim", "instances"} => served[w] = {}
    /\ pc[w] \in Converging => target[w] \in todo[w]

(* No app is ahead of what a running converge is about to write. *)
AppsBehindRun ==
  \A w \in Workers, a \in Apps, p \in Parts : app[a][p] <= Desired(w, p)

(* What the run has already converged contains its markers. *)
ServedIsReflected ==
  \A w \in Workers :
    /\ \A a \in served[w] \ todo[w], e \in claimed[w], p \in Parts : wrote[e] <= app[a][p]
    /\ pc[w] = "groups" => \A e \in claimed[w] : wrote[e] <= app[target[w]]["users"]

DrainInv ==
  RunShape /\ AppsBehindRun /\ ServedIsReflected /\ AckedIsReflected

-----------------------------------------------------------------------------
(* Every way the queue is updated puts a well-formed job in its place. *)
LEMMA QueueUpdates ==
  ASSUME queue \in [Jobs -> JobRecord], NEW j \in Jobs
  PROVE  /\ Free \in JobRecord
         /\ Entry("waiting", 0, 0) \in JobRecord
         /\ Entry("active", queue[j].attempts, queue[j].stalls) \in JobRecord
         /\ Entry("waiting", queue[j].attempts, queue[j].stalls) \in JobRecord
         /\ Entry("waiting", queue[j].attempts, 1) \in JobRecord
         /\ RetryOf(j) \in [Jobs -> JobRecord]
<1>1. queue[j] \in JobRecord
  OBVIOUS
<1>2. /\ Free \in JobRecord
      /\ Entry("waiting", 0, 0) \in JobRecord
      /\ Entry("active", queue[j].attempts, queue[j].stalls) \in JobRecord
      /\ Entry("waiting", queue[j].attempts, queue[j].stalls) \in JobRecord
      /\ Entry("waiting", queue[j].attempts, 1) \in JobRecord
  BY <1>1, OutboxAssumption DEF JobRecord, Entry, Free
<1>3. queue[j].attempts + 1 < MaxAttempts =>
        Entry("delayed", queue[j].attempts + 1, queue[j].stalls) \in JobRecord
  BY <1>1, OutboxAssumption DEF JobRecord, Entry
<1> QED
  BY <1>2, <1>3 DEF RetryOf

(* A working worker has a job, a converging one an instance, and a writing   *)
(* one both of its reads.                                                    *)
RunOK ==
  \A w \in Workers :
    /\ pc[w] # "idle" => job[w] \in Jobs
    /\ pc[w] \in Converging => target[w] \in Apps
    /\ pc[w] \in {"users", "groups"} => \A p \in Parts : snap[w][p] \in 0..MaxVersion

\* What an update two levels deep changes.
LEMMA NestedUpdate ==
  ASSUME NEW S, NEW T, NEW V, NEW f \in [S -> [T -> V]], NEW s \in S, NEW t \in T, NEW v \in V
  PROVE  [f EXCEPT ![s][t] = v] \in [S -> [T -> V]]
OBVIOUS

(* What a run writes, and what an interrupted write leaves, is a version. *)
LEMMA Writes ==
  ASSUME TypeOK, RunOK, NEW w \in Workers
  PROVE  /\ pc[w] \in {"users", "groups"} => \A p \in Parts : Desired(w, p) \in 0..MaxVersion
         /\ Interrupted(w) => app' \in [Apps -> [Parts -> 0..MaxVersion]]
<1>1. ASSUME pc[w] \in {"users", "groups"}, NEW p \in Parts
      PROVE  Desired(w, p) \in 0..MaxVersion
  BY <1>1 DEF RunOK, Desired, Min2, Parts
<1>2. ASSUME Interrupted(w) PROVE app' \in [Apps -> [Parts -> 0..MaxVersion]]
  <2>1. CASE UNCHANGED app
    BY <2>1 DEF TypeOK
  <2>2. ASSUME pc[w] \in {"users", "groups"},
               NEW done \in {Min2(app[target[w]][pc[w]], Desired(w, pc[w])), Desired(w, pc[w])},
               app' = [app EXCEPT ![target[w]][pc[w]] = done]
        PROVE  app' \in [Apps -> [Parts -> 0..MaxVersion]]
    <3>1. target[w] \in Apps /\ pc[w] \in Parts
      BY <2>2 DEF RunOK, Converging, Parts
    <3>2. app \in [Apps -> [Parts -> 0..MaxVersion]] /\ app[target[w]][pc[w]] \in 0..MaxVersion
      BY <3>1 DEF TypeOK
    <3>3. done \in 0..MaxVersion
      BY <1>1, <2>2, <3>1, <3>2 DEF Min2
    <3> QED
      BY <2>2, <3>1, <3>2, <3>3, NestedUpdate
  <2> QED
    BY <1>2, <2>1, <2>2 DEF Interrupted
<1> QED
  BY <1>1, <1>2

\* And what it leaves.
LEMMA NestedRead ==
  ASSUME NEW S, NEW T, NEW V, NEW f \in [S -> [T -> V]], NEW s \in S, NEW t \in T, NEW v,
         NEW x \in S, NEW y \in T
  PROVE  [f EXCEPT ![s][t] = v][x][y] = IF x = s /\ y = t THEN v ELSE f[x][y]
OBVIOUS

(* A step that writes to an app leaves each part as it was, or as the run    *)
(* wants it, and only in the part it is writing.                             *)
LEMMA Overwrites ==
  ASSUME TypeOK, RunOK, NEW w \in Workers, NEW a \in Apps, NEW p \in Parts,
         WriteUsers(w) \/ WriteGroups(w) \/ Interrupted(w)
  PROVE  \/ app'[a][p] = app[a][p]
         \/ /\ pc[w] = p /\ target[w] = a /\ pc[w] \in {"users", "groups"}
            /\ app'[a][p] = Desired(w, p)
<1> USE DEF TypeOK
<1>1. CASE UNCHANGED app
  BY <1>1
<1>2. ASSUME pc[w] \in {"users", "groups"},
             NEW done,
             done = app[target[w]][pc[w]] \/ done = Desired(w, pc[w]),
             app' = [app EXCEPT ![target[w]][pc[w]] = done]
      PROVE  \/ app'[a][p] = app[a][p]
             \/ /\ pc[w] = p /\ target[w] = a /\ pc[w] \in {"users", "groups"}
                /\ app'[a][p] = Desired(w, p)
  <2>1. target[w] \in Apps /\ pc[w] \in Parts
    BY <1>2 DEF RunOK, Converging, Parts
  <2>2. app'[a][p] = IF a = target[w] /\ p = pc[w] THEN done ELSE app[a][p]
    BY <1>2, <2>1, NestedRead
  <2> QED
    BY <1>2, <2>2
<1>3. CASE WriteUsers(w)
  BY <1>2, <1>3 DEF WriteUsers
<1>4. CASE WriteGroups(w)
  BY <1>2, <1>4 DEF WriteGroups
<1>5. CASE Interrupted(w)
  BY <1>1, <1>2, <1>5 DEF Interrupted, Min2
<1> QED
  BY <1>3, <1>4, <1>5

\* Types, and what every run of the queue carries.
LEMMA RunsWellFormed == Spec => [](TypeOK /\ RunOK)
<1> USE OutboxAssumption DEF TypeOK, RunOK, Labels, Converging, Producers, Unread, Parts
<1>1. Init => TypeOK /\ RunOK
  BY DEF Init, Free, Entry, JobRecord
<1>2. TypeOK /\ RunOK /\ [Next]_vars => TypeOK' /\ RunOK'
  <2> SUFFICES ASSUME TypeOK, RunOK, [Next]_vars PROVE TypeOK' /\ RunOK'
    OBVIOUS
  <2> USE DEF database, remote, local
  <2>1. ASSUME NEW r \in Requests, Mutate(r) PROVE TypeOK' /\ RunOK'
    BY <2>1 DEF Mutate, AppendEvent
  <2>2. CASE MutateUnmarked
    BY <2>2 DEF MutateUnmarked
  <2>3. ASSUME NEW r \in Producers, Mark(r) PROVE TypeOK' /\ RunOK'
    BY <2>3 DEF Mark, AppendEvent
  <2>4. ASSUME NEW r \in Producers, Enqueue(r) PROVE TypeOK' /\ RunOK'
    BY QueueUpdates, <2>4 DEF Enqueue
  <2>5. ASSUME NEW r \in Producers, Abandon(r) PROVE TypeOK' /\ RunOK'
    BY <2>5 DEF Abandon
  <2>6. CASE ReconcileTick
    BY <2>6 DEF ReconcileTick
  <2>7. ASSUME NEW a \in Apps, SetInstanceStatus(a) PROVE TypeOK' /\ RunOK'
    BY <2>7 DEF SetInstanceStatus
  <2>8. ASSUME NEW j \in Jobs, Promote(j) PROVE TypeOK' /\ RunOK'
    BY QueueUpdates, <2>8 DEF Promote
  <2>9. ASSUME NEW j \in Jobs, Stalled(j) PROVE TypeOK' /\ RunOK'
    BY QueueUpdates, <2>9 DEF Stalled
  <2>10. ASSUME NEW w \in Workers, NEW j \in Jobs, Take(w, j) PROVE TypeOK' /\ RunOK'
    BY QueueUpdates, <2>10 DEF Take
  <2>11. ASSUME NEW w \in Workers, Find(w) PROVE TypeOK' /\ RunOK'
    <3> DEFINE pending == {e \in Events : status[e] \in {"PENDING", "FAILED"}}
    <3>1. pending \in SUBSET Events
      OBVIOUS
    <3> HIDE DEF pending
    <3>2. CASE queue' = [queue EXCEPT ![job[w]] = Free] /\ Stop(w)
      BY QueueUpdates, <2>11, <3>2 DEF Find, Stop
    <3>3. CASE /\ claimed' = [claimed EXCEPT ![w] = pending]
               /\ pc' = [pc EXCEPT ![w] = "claim"]
               /\ UNCHANGED <<queue, job, served, todo, target, snap>>
      BY <2>11, <3>1, <3>3 DEF Find
    <3> QED
      BY <2>11, <3>2, <3>3 DEF Find, pending
  <2>12. ASSUME NEW w \in Workers, Claim(w) PROVE TypeOK' /\ RunOK'
    BY <2>12 DEF Claim, SetStatus
  <2>13. ASSUME NEW w \in Workers, ReadInstances(w) PROVE TypeOK' /\ RunOK'
    BY <2>13 DEF ReadInstances
  <2>14. ASSUME NEW w \in Workers, NEW a \in Apps, StartConverge(w, a) PROVE TypeOK' /\ RunOK'
    BY <2>14 DEF StartConverge
  <2>15. ASSUME NEW w \in Workers, NEW p \in Parts, ReadPart(w, p)
         PROVE  TypeOK' /\ RunOK'
    <3>1. snap' \in [Workers -> [Parts -> 0..Unread]]
      BY <2>15, NestedUpdate DEF ReadPart
    <3>2. \A q \in Parts \ {p} : snap'[w][q] = snap[w][q]
      BY <2>15 DEF ReadPart
    <3>3. snap'[w][p] = version /\ \A v \in Workers \ {w} : snap'[v] = snap[v]
      BY <2>15 DEF ReadPart
    <3>4. pc' \in [Workers -> Labels] /\ pc'[w] \in {"read", "users"}
      BY <2>15 DEF ReadPart
    <3>5. pc'[w] = "users" => \A q \in Parts : snap'[w][q] \in 0..MaxVersion
      BY <2>15, <3>1, <3>2, <3>3 DEF ReadPart
    <3>6. TypeOK'
      BY <2>15, <3>1, <3>4 DEF ReadPart
    <3>7. \A v \in Workers \ {w} : pc'[v] = pc[v]
      BY <2>15 DEF ReadPart
    <3>8. RunOK'
      BY <2>15, <3>3, <3>4, <3>5, <3>7 DEF ReadPart
    <3> QED
      BY <3>6, <3>8
  <2>16. ASSUME NEW w \in Workers, WriteUsers(w) PROVE TypeOK' /\ RunOK'
    <3>1. app' \in [Apps -> [Parts -> 0..MaxVersion]]
      BY <2>16, Writes, NestedUpdate DEF WriteUsers
    <3> QED
      BY <2>16, <3>1 DEF WriteUsers
  <2>17. ASSUME NEW w \in Workers, WriteGroups(w) PROVE TypeOK' /\ RunOK'
    <3>1. app' \in [Apps -> [Parts -> 0..MaxVersion]]
      BY <2>17, Writes, NestedUpdate DEF WriteGroups
    <3> QED
      BY <2>17, <3>1 DEF WriteGroups
  <2>18. ASSUME NEW w \in Workers, Settle(w) PROVE TypeOK' /\ RunOK'
    BY QueueUpdates, <2>18 DEF Settle, SettleRows, SetStatus, Stop
  <2>19. ASSUME NEW w \in Workers, MarkFailed(w) PROVE TypeOK' /\ RunOK'
    BY QueueUpdates, <2>19 DEF MarkFailed, SetStatus, Stop
  <2>20. ASSUME NEW w \in Workers, QueryFails(w) PROVE TypeOK' /\ RunOK'
    BY SMTT(40), QueueUpdates, <2>20 DEF QueryFails, Stop
  <2>21. ASSUME NEW w \in Workers, Crash(w) PROVE TypeOK' /\ RunOK'
    BY <2>21, Writes DEF Crash, Stop
  <2>22. ASSUME NEW w \in Workers, ConvergeFails(w) PROVE TypeOK' /\ RunOK'
    BY <2>22, Writes DEF ConvergeFails
  <2>23. CASE UNCHANGED vars
    BY <2>23 DEF vars
  <2>24. CASE Environment
    BY <2>1, <2>2, <2>5, <2>7, <2>20, <2>21, <2>22, <2>24 DEF Environment
  <2>25. ASSUME NEW w \in Workers, HandleAppSync(w) PROVE TypeOK' /\ RunOK'
    BY <2>11, <2>12, <2>13, <2>14, <2>15, <2>16, <2>17, <2>18, <2>19, <2>25 DEF HandleAppSync
  <2> HIDE DEF TypeOK, RunOK
  <2>26. QED
    BY <2>3, <2>4, <2>6, <2>8, <2>9, <2>10, <2>23, <2>24, <2>25 DEF Next
<1>3. QED
  BY <1>1, <1>2, PTL DEF Spec

(* Every variable keeps its type: rows, runs and jobs stay well formed       *)
(* through every step, failure and crash of app-sync.ts and role-sync.ts.    *)
THEOREM TypeCorrect == Spec => []TypeOK
BY RunsWellFormed, PTL

(* What a run writes is committed. *)
LEMMA WritesAreCommitted ==
  ASSUME TypeOK, RunOK, SnapInv, NEW w \in Workers,
         WriteUsers(w) \/ WriteGroups(w) \/ Interrupted(w)
  PROVE  \A a \in Apps, p \in Parts : app'[a][p] <= version
<1>1. ASSUME pc[w] \in {"users", "groups"}, NEW p \in Parts
      PROVE  Desired(w, p) <= version
  BY <1>1 DEF TypeOK, RunOK, SnapInv, ReadsBelongToConverge, Desired, Min2, Parts
<1>2. \A a \in Apps, p \in Parts : app[a][p] <= version
  BY DEF SnapInv, NothingFromTheFuture
<1> QED
  BY <1>1, <1>2, Overwrites

(* A run reads after it claimed: the state it is about to write contains     *)
(* every change it is about to report DONE, whatever the other workers do.   *)
LEMMA SnapshotInvariant == Spec => []SnapInv
<1> USE OutboxAssumption DEF SnapInv, NothingFromTheFuture, ReadsBelongToConverge,
      SnapshotCoversClaim
<1>1. Init => SnapInv
  BY DEF Init, Unread
<1>2. TypeOK /\ RunOK /\ SnapInv /\ [Next]_vars => SnapInv'
  <2> SUFFICES ASSUME TypeOK, RunOK, SnapInv, [Next]_vars PROVE SnapInv'
    OBVIOUS
  <2> USE DEF database, remote, local, TypeOK, RunOK, Converging, Unread, Labels
  <2>1. ASSUME NEW r \in Requests, Mutate(r) PROVE SnapInv'
    BY <2>1 DEF Mutate, AppendEvent, Reusable, Spent, Unheld
  <2>2. CASE MutateUnmarked
    BY <2>2 DEF MutateUnmarked
  <2>3. ASSUME NEW r \in Producers, Mark(r) PROVE SnapInv'
    BY <2>3 DEF Mark, AppendEvent, Reusable, Spent, Unheld
  <2>4. ASSUME NEW r \in Producers, Enqueue(r) PROVE SnapInv'
    BY <2>4 DEF Enqueue
  <2>5. ASSUME NEW r \in Producers, Abandon(r) PROVE SnapInv'
    BY <2>5 DEF Abandon
  <2>6. CASE ReconcileTick
    BY <2>6 DEF ReconcileTick
  <2>7. ASSUME NEW a \in Apps, SetInstanceStatus(a) PROVE SnapInv'
    BY <2>7 DEF SetInstanceStatus
  <2>8. ASSUME NEW j \in Jobs, Promote(j) PROVE SnapInv'
    BY <2>8 DEF Promote
  <2>9. ASSUME NEW j \in Jobs, Stalled(j) PROVE SnapInv'
    BY <2>9 DEF Stalled
  <2>10. ASSUME NEW w \in Workers, NEW j \in Jobs, Take(w, j) PROVE SnapInv'
    BY <2>10 DEF Take
  <2>11. ASSUME NEW w \in Workers, Find(w) PROVE SnapInv'
    <3>1. /\ claimed'[w] \subseteq Events /\ \A p \in Parts : snap'[w][p] = Unread
          /\ \A v \in Workers \ {w} : claimed'[v] = claimed[v] /\ snap'[v] = snap[v] /\ pc'[v] = pc[v]
          /\ pc'[w] \in {"idle", "claim"}
      BY <2>11 DEF Find, Stop
    <3>2. UNCHANGED <<version, wrote, app>>
      BY <2>11 DEF Find
    <3>3. NothingFromTheFuture'
      BY <3>1, <3>2
    <3>4. ReadsBelongToConverge'
      <4> SUFFICES ASSUME NEW v \in Workers, NEW p \in Parts
                   PROVE  /\ pc'[v] \in {"idle", "find", "claim", "instances", "next"} =>
                               snap'[v][p] = Unread
                          /\ pc'[v] \in {"users", "groups"} => snap'[v][p] <= version
        BY <3>2
      <4>1. CASE v = w
        BY <3>1, <4>1
      <4>2. CASE v # w
        BY <3>1, <4>2
      <4> QED
        BY <4>1, <4>2
    <3>5. \A e \in Events : wrote[e] <= MaxVersion + 1
      OBVIOUS
    <3>6. SnapshotCoversClaim'
      <4> SUFFICES ASSUME NEW v \in Workers, NEW p \in Parts, NEW e \in claimed'[v]
                   PROVE  wrote[e] <= snap'[v][p]
        BY <3>2
      <4>1. CASE v = w
        BY <3>1, <3>5, <4>1
      <4>2. CASE v # w
        BY <3>1, <4>2
      <4> QED
        BY <4>1, <4>2
    <3> QED
      BY <3>3, <3>4, <3>6
  <2>12. ASSUME NEW w \in Workers, Claim(w) PROVE SnapInv'
    BY <2>12 DEF Claim, SetStatus
  <2>13. ASSUME NEW w \in Workers, ReadInstances(w) PROVE SnapInv'
    BY <2>13 DEF ReadInstances
  <2>14. ASSUME NEW w \in Workers, NEW a \in Apps, StartConverge(w, a) PROVE SnapInv'
    BY <2>14 DEF StartConverge
  <2>15. ASSUME NEW w \in Workers, NEW p \in Parts, ReadPart(w, p) PROVE SnapInv'
    BY <2>15 DEF ReadPart
  <2>16. ASSUME NEW w \in Workers, WriteUsers(w) PROVE SnapInv'
    <3>1. /\ UNCHANGED <<version, wrote, claimed, snap>>
          /\ pc[w] = "users" /\ pc' = [pc EXCEPT ![w] = "groups"]
      BY <2>16 DEF WriteUsers
    <3>2. NothingFromTheFuture'
      BY <2>16, <3>1, WritesAreCommitted
    <3>3. ReadsBelongToConverge' /\ SnapshotCoversClaim'
      BY <3>1
    <3> QED
      BY <3>2, <3>3
  <2>17. ASSUME NEW w \in Workers, WriteGroups(w) PROVE SnapInv'
    <3>1. /\ \A p \in Parts : snap'[w][p] = Unread
          /\ \A v \in Workers \ {w} : snap'[v] = snap[v] /\ pc'[v] = pc[v]
          /\ pc'[w] = "next"
          /\ UNCHANGED <<version, wrote, claimed>>
      BY <2>17 DEF WriteGroups
    <3>2. \A e \in Events : wrote[e] <= MaxVersion + 1
      OBVIOUS
    <3>3. NothingFromTheFuture'
      BY <2>17, <3>1, WritesAreCommitted
    <3>4. ReadsBelongToConverge'
      <4> SUFFICES ASSUME NEW v \in Workers, NEW p \in Parts
                   PROVE  /\ pc'[v] \in {"idle", "find", "claim", "instances", "next"} =>
                               snap'[v][p] = Unread
                          /\ pc'[v] \in {"users", "groups"} => snap'[v][p] <= version
        BY <3>1
      <4>1. CASE v = w
        BY <3>1, <4>1
      <4>2. CASE v # w
        BY <3>1, <4>2
      <4> QED
        BY <4>1, <4>2
    <3>5. SnapshotCoversClaim'
      <4> SUFFICES ASSUME NEW v \in Workers, NEW p \in Parts, NEW e \in claimed[v]
                   PROVE  wrote[e] <= snap'[v][p]
        BY <3>1
      <4>1. CASE v = w
        BY <3>1, <3>2, <4>1
      <4>2. CASE v # w
        BY <3>1, <4>2
      <4> QED
        BY <4>1, <4>2
    <3> QED
      BY <3>3, <3>4, <3>5
  <2>18. ASSUME NEW w \in Workers, Settle(w) PROVE SnapInv'
    BY <2>18 DEF Settle, SettleRows, SetStatus, Stop
  <2>19. ASSUME NEW w \in Workers, MarkFailed(w) PROVE SnapInv'
    BY <2>19 DEF MarkFailed, SetStatus, Stop
  <2>20. ASSUME NEW w \in Workers, QueryFails(w) PROVE SnapInv'
    BY <2>20 DEF QueryFails, Stop
  <2>21. ASSUME NEW w \in Workers, Crash(w) PROVE SnapInv'
    BY <2>21, WritesAreCommitted DEF Crash, Stop
  <2>22. ASSUME NEW w \in Workers, ConvergeFails(w) PROVE SnapInv'
    BY <2>22, WritesAreCommitted DEF ConvergeFails
  <2>23. CASE UNCHANGED vars
    BY <2>23 DEF vars
  <2>24. CASE Environment
    BY <2>1, <2>2, <2>5, <2>7, <2>20, <2>21, <2>22, <2>24 DEF Environment
  <2>25. ASSUME NEW w \in Workers, HandleAppSync(w) PROVE SnapInv'
    BY <2>11, <2>12, <2>13, <2>14, <2>15, <2>16, <2>17, <2>18, <2>19, <2>25 DEF HandleAppSync
  <2> HIDE DEF TypeOK, RunOK, SnapInv
  <2>26. QED
    BY <2>3, <2>4, <2>6, <2>8, <2>9, <2>10, <2>23, <2>24, <2>25 DEF Next
<1>3. QED
  BY <1>1, <1>2, RunsWellFormed, PTL DEF Spec

(* A run reads after it claimed: the state it is about to write contains     *)
(* every change it is about to report DONE (app-sync.ts:18-44), whatever the *)
(* console and the other workers do between the two.                         *)
THEOREM SnapshotAlwaysCovers == Spec => []SnapshotCoversClaim
BY SnapshotInvariant, PTL DEF SnapInv

-----------------------------------------------------------------------------
(* With one draining process no write takes an app back. *)
LEMMA AppsMoveForward ==
  ASSUME TypeOK, RunOK, AppsBehindRun, NEW w \in Workers,
         WriteUsers(w) \/ WriteGroups(w) \/ Interrupted(w)
  PROVE  \A a \in Apps, p \in Parts : app[a][p] <= app'[a][p] /\ app'[a][p] <= Desired(w, p)
<1>1. ASSUME NEW a \in Apps, NEW p \in Parts
      PROVE  app[a][p] <= app'[a][p] /\ app'[a][p] <= Desired(w, p)
  <2>1. app[a][p] \in Nat /\ app[a][p] <= Desired(w, p)
    BY DEF TypeOK, AppsBehindRun
  <2>2. Desired(w, p) \in Nat
    BY OutboxAssumption DEF TypeOK, Desired, Min2, Parts, Unread
  <2> QED
    BY <2>1, <2>2, Overwrites
<1> QED
  BY <1>1

(* A run that is over leaves an empty worker behind. *)
LEMMA RunOver ==
  ASSUME SingleDrainer, TypeOK', NEW w \in Workers, Stop(w), pc \in [Workers -> Labels],
         served \in [Workers -> SUBSET Apps], claimed \in [Workers -> SUBSET Events],
         snap \in [Workers -> [Parts -> 0..Unread]],
         AckedIsReflected'
  PROVE  DrainInv'
<1>1. /\ pc'[w] = "idle" /\ served'[w] = {} /\ claimed'[w] = {}
      /\ \A p \in Parts : snap'[w][p] = Unread
  BY DEF Stop
<1>2. \A p \in Parts : Desired(w, p)' = Unread
  BY <1>1 DEF Desired, Min2, Parts
<1>3. \A a \in Apps, p \in Parts : app'[a][p] <= Unread
  BY OutboxAssumption DEF TypeOK, Unread
<1>4. RunShape' /\ ServedIsReflected'
  BY <1>1 DEF RunShape, ServedIsReflected, SingleDrainer, Converging
<1>5. AppsBehindRun'
  <2> SUFFICES ASSUME NEW v \in Workers, NEW a \in Apps, NEW p \in Parts
               PROVE  app'[a][p] <= Desired(v, p)'
    BY DEF AppsBehindRun
  <2>1. v = w
    BY DEF SingleDrainer
  <2> QED
    BY <1>2, <1>3, <2>1
<1> QED
  BY <1>4, <1>5 DEF DrainInv

\* With one drainer, markers done are reflected in every app.
LEMMA DrainInvariant ==
  ASSUME SingleDrainer
  PROVE  Spec => []DrainInv
<1> USE OutboxAssumption, SingleDrainer DEF SingleDrainer, DrainInv, RunShape, AppsBehindRun,
      ServedIsReflected,
        AckedIsReflected
<1>1. Init => DrainInv
  BY DEF Init, Converging, Desired, Unread, Min2, Parts
<1>2. TypeOK /\ TypeOK' /\ RunOK /\ SnapInv /\ DrainInv /\ [Next]_vars => DrainInv'
  <2> SUFFICES ASSUME TypeOK, TypeOK', RunOK, SnapInv, DrainInv, [Next]_vars PROVE DrainInv'
    OBVIOUS
  <2> USE DEF database, remote, local, TypeOK, RunOK, Converging, Labels
  <2>1. ASSUME NEW r \in Requests, Mutate(r) PROVE DrainInv'
    BY <2>1 DEF Mutate, AppendEvent, Reusable, Spent, Unheld, Desired
  <2>2. CASE MutateUnmarked
    BY <2>2 DEF MutateUnmarked, Desired
  <2>3. ASSUME NEW r \in Producers, Mark(r) PROVE DrainInv'
    BY <2>3 DEF Mark, AppendEvent, Reusable, Spent, Unheld, Desired
  <2>4. ASSUME NEW r \in Producers, Enqueue(r) PROVE DrainInv'
    BY <2>4 DEF Enqueue, Desired
  <2>5. ASSUME NEW r \in Producers, Abandon(r) PROVE DrainInv'
    BY <2>5 DEF Abandon, Desired
  <2>6. CASE ReconcileTick
    BY <2>6 DEF ReconcileTick, Desired
  <2>7. ASSUME NEW a \in Apps, SetInstanceStatus(a) PROVE DrainInv'
    BY <2>7 DEF SetInstanceStatus, Desired
  <2>8. ASSUME NEW j \in Jobs, Promote(j) PROVE DrainInv'
    BY <2>8 DEF Promote, Desired
  <2>9. ASSUME NEW j \in Jobs, Stalled(j) PROVE DrainInv'
    BY <2>9 DEF Stalled, Desired
  <2>10. ASSUME NEW w \in Workers, NEW j \in Jobs, Take(w, j) PROVE DrainInv'
    BY <2>10 DEF Take, Desired
  <2>11. ASSUME NEW w \in Workers, Find(w) PROVE DrainInv'
    <3>1. CASE Stop(w)
      BY <2>11, <3>1, RunOver DEF Find
    <3>2. CASE UNCHANGED <<served, todo, target, snap>> /\ pc' = [pc EXCEPT ![w] = "claim"]
      <4>1. UNCHANGED <<app, acked>> /\ pc[w] = "find"
        BY <2>11 DEF Find
      <4>2. \A v \in Workers, p \in Parts : Desired(v, p)' = Desired(v, p)
        BY <3>2 DEF Desired
      <4>3. RunShape' /\ ServedIsReflected'
        BY <3>2, <4>1
      <4> QED
        BY <4>1, <4>2, <4>3
    <3> QED
      BY <2>11, <3>1, <3>2 DEF Find
  <2>12. ASSUME NEW w \in Workers, Claim(w) PROVE DrainInv'
    BY <2>12 DEF Claim, SetStatus, Desired
  <2>13. ASSUME NEW w \in Workers, ReadInstances(w) PROVE DrainInv'
    BY <2>13 DEF ReadInstances, Desired
  <2>14. ASSUME NEW w \in Workers, NEW a \in Apps, StartConverge(w, a) PROVE DrainInv'
    BY <2>14 DEF StartConverge, Desired
  <2>15. ASSUME NEW w \in Workers, NEW p \in Parts, ReadPart(w, p) PROVE DrainInv'
    <3>1. /\ pc[w] = "read" /\ pc'[w] \in {"read", "users"}
          /\ UNCHANGED <<app, acked, wrote, claimed, served, todo, target>>
      BY <2>15 DEF ReadPart
    <3>2. \A q \in Parts : snap'[w][q] = snap[w][q] \/ snap'[w][q] = version
      BY <2>15 DEF ReadPart
    <3>3. RunShape' /\ ServedIsReflected' /\ AckedIsReflected'
      BY <3>1
    <3>4. ASSUME NEW a \in Apps, NEW q \in Parts
          PROVE  app[a][q] <= Desired(w, q)'
      <4>1. app[a][q] <= version /\ app[a][q] <= Desired(w, q)
        BY DEF SnapInv, NothingFromTheFuture
      <4>2. CASE q = "users"
        BY <3>2, <4>1, <4>2 DEF Desired, Parts
      <4>3. CASE q = "groups"
        <5>1. app[a][q] <= snap[w]["users"] /\ app[a][q] <= snap[w]["groups"]
          BY <4>1, <4>3 DEF Desired, Min2, Parts, Unread
        <5>2. app[a][q] <= snap'[w]["users"] /\ app[a][q] <= snap'[w]["groups"]
          BY <3>2, <4>1, <5>1 DEF Parts
        <5> QED
          BY <4>3, <5>2 DEF Desired, Min2
      <4> QED
        BY <4>2, <4>3 DEF Parts
    <3>5. AppsBehindRun'
      <4> SUFFICES ASSUME NEW v \in Workers, NEW a \in Apps, NEW q \in Parts
                   PROVE  app[a][q] <= Desired(v, q)'
        BY <3>1
      <4>1. v = w
        OBVIOUS
      <4> QED
        BY <3>4, <4>1
    <3> QED
      BY <3>3, <3>5
  <2>16. ASSUME NEW w \in Workers, WriteUsers(w) PROVE DrainInv'
    <3>1. /\ pc[w] = "users" /\ pc'[w] = "groups" /\ target[w] \in Apps
          /\ app' = [app EXCEPT ![target[w]]["users"] = Desired(w, "users")]
          /\ UNCHANGED <<acked, wrote, claimed, served, todo, target, snap>>
      BY <2>16 DEF WriteUsers
    <3>2. \A a \in Apps, p \in Parts : app[a][p] <= app'[a][p] /\ app'[a][p] <= Desired(w, p)
      BY <2>16, AppsMoveForward
    <3>3. app'[target[w]]["users"] = snap[w]["users"]
      BY <3>1, NestedRead DEF Desired, Parts
    <3>4. \A e \in claimed[w] : wrote'[e] <= app'[target[w]]["users"]
      BY <3>1, <3>3 DEF SnapInv, SnapshotCoversClaim, Parts
    <3>5. RunShape'
      BY <3>1
    <3>6. AppsBehindRun'
      <4> SUFFICES ASSUME NEW v \in Workers, NEW a \in Apps, NEW q \in Parts
                   PROVE  app'[a][q] <= Desired(v, q)'
        OBVIOUS
      <4>1. v = w /\ Desired(v, q)' = Desired(v, q)
        BY <3>1 DEF Desired
      <4> QED
        BY <3>2, <4>1
    <3>7. ASSUME NEW a \in served[w] \ todo[w], NEW e \in claimed[w], NEW p \in Parts
          PROVE  wrote[e] <= app'[a][p]
      <4>1. /\ a \in Apps /\ e \in Events
            /\ wrote[e] \in Nat /\ app[a][p] \in Nat /\ app'[a][p] \in Nat
            /\ wrote[e] <= app[a][p] /\ app[a][p] <= app'[a][p]
        BY <3>2
      <4> QED
        BY <4>1
    <3>8. ServedIsReflected'
      BY <3>1, <3>4, <3>7
    <3>9. AckedIsReflected'
      <4> SUFFICES ASSUME NEW a \in Apps, NEW p \in Parts PROVE acked[a] <= app'[a][p]
        BY <3>1
      <4> QED
        BY <3>2
    <3> QED
      BY <3>5, <3>6, <3>8, <3>9
  <2>17. ASSUME NEW w \in Workers, WriteGroups(w) PROVE DrainInv'
    <3>1. /\ pc[w] = "groups" /\ pc'[w] = "next" /\ target[w] \in Apps
          /\ app' = [app EXCEPT ![target[w]]["groups"] = Desired(w, "groups")]
          /\ todo'[w] = todo[w] \ {target[w]}
          /\ \A p \in Parts : snap'[w][p] = Unread
          /\ UNCHANGED <<acked, wrote, claimed, served>>
      BY <2>17 DEF WriteGroups
    <3>2. \A a \in Apps, p \in Parts : app[a][p] <= app'[a][p]
      BY <2>17, AppsMoveForward
    <3>3. ASSUME NEW e \in claimed[w], NEW p \in Parts PROVE wrote[e] <= app'[target[w]][p]
      <4>1. CASE p = "users"
        <5>1. app'[target[w]][p] = app[target[w]][p]
          BY <3>1, <4>1, NestedRead DEF Parts
        <5> QED
          BY <3>1, <4>1, <5>1
      <4>2. CASE p = "groups"
        <5>1. app'[target[w]][p] = Desired(w, "groups")
          BY <3>1, <4>2, NestedRead DEF Parts
        <5>2. wrote[e] <= snap[w]["users"] /\ wrote[e] <= snap[w]["groups"]
          BY DEF SnapInv, SnapshotCoversClaim, Parts
        <5> QED
          BY <5>1, <5>2 DEF Desired, Min2
      <4> QED
        BY <4>1, <4>2 DEF Parts
    <3>4. RunShape'
      BY <3>1
    <3>5. AppsBehindRun'
      <4> SUFFICES ASSUME NEW v \in Workers, NEW a \in Apps, NEW q \in Parts
                   PROVE  app'[a][q] <= Desired(v, q)'
        OBVIOUS
      <4>1. v = w /\ app'[a][q] \in Nat /\ app'[a][q] <= Unread
        BY DEF Unread
      <4>2. Desired(w, q)' = Unread
        BY <3>1 DEF Desired, Min2, Parts
      <4> QED
        BY <4>1, <4>2
    <3>6. ASSUME NEW a \in served[w], a \notin todo[w] \/ a = target[w], NEW e \in claimed[w], NEW p \in Parts
          PROVE  wrote[e] <= app'[a][p]
      <4>1. CASE a = target[w]
        BY <3>3, <4>1
      <4>2. CASE a \notin todo[w]
        <5>1. /\ a \in Apps /\ e \in Events
              /\ wrote[e] \in Nat /\ app[a][p] \in Nat /\ app'[a][p] \in Nat
              /\ wrote[e] <= app[a][p] /\ app[a][p] <= app'[a][p]
          BY <3>2, <4>2
        <5> QED
          BY <5>1
      <4> QED
        BY <3>6, <4>1, <4>2
    <3>7. ServedIsReflected'
      <4> SUFFICES ASSUME NEW v \in Workers
                   PROVE  /\ \A a \in served[v] \ todo'[v], e \in claimed[v], p \in Parts :
                               wrote[e] <= app'[a][p]
                          /\ pc'[v] # "groups"
        BY <3>1
      <4>1. v = w
        OBVIOUS
      <4> QED
        BY <3>1, <3>6, <4>1
    <3>8. AckedIsReflected'
      <4> SUFFICES ASSUME NEW a \in Apps, NEW p \in Parts PROVE acked[a] <= app'[a][p]
        BY <3>1
      <4> QED
        BY <3>2
    <3> QED
      BY <3>4, <3>5, <3>7, <3>8
  <2>18. ASSUME NEW w \in Workers, Settle(w) PROVE DrainInv'
    <3>1. \A a \in Apps, p \in Parts, e \in claimed[w] : a \in served[w] => wrote[e] <= app[a][p]
      BY <2>18 DEF Settle, SettleRows, SetStatus
    <3>2. UNCHANGED app
      BY <2>18 DEF Settle, SettleRows, SetStatus
    <3>3. AckedIsReflected'
      <4> SUFFICES ASSUME NEW a \in Apps, NEW p \in Parts PROVE acked'[a] <= app[a][p]
        BY <3>2
      <4>1. acked'[a] = acked[a] \/ (a \in served[w] /\ \E e \in claimed[w] : acked'[a] = wrote[e])
        BY <2>18 DEF Settle, SettleRows, SetStatus
      <4> QED
        BY <3>1, <4>1
    <3> QED
      BY <2>18, <3>3, RunOver DEF Settle, SettleRows, SetStatus
  <2>19. ASSUME NEW w \in Workers, MarkFailed(w) PROVE DrainInv'
    BY <2>19, RunOver DEF MarkFailed, SetStatus
  <2>20. ASSUME NEW w \in Workers, QueryFails(w) PROVE DrainInv'
    BY <2>20, RunOver DEF QueryFails
  <2>21. ASSUME NEW w \in Workers, Crash(w) PROVE DrainInv'
    <3>1. \A a \in Apps, p \in Parts : app[a][p] <= app'[a][p]
      BY <2>21, AppsMoveForward DEF Crash
    <3>2. UNCHANGED acked
      BY <2>21 DEF Crash
    <3>3. AckedIsReflected'
      <4> SUFFICES ASSUME NEW a \in Apps, NEW p \in Parts PROVE acked[a] <= app'[a][p]
        BY <3>2
      <4> QED
        BY <3>1
    <3> QED
      BY <2>21, <3>3, RunOver DEF Crash
  <2>22. ASSUME NEW w \in Workers, ConvergeFails(w) PROVE DrainInv'
    <3>1. /\ pc[w] \in Converging /\ pc'[w] = "failed"
          /\ UNCHANGED <<acked, wrote, claimed, served, todo, snap, target>>
      BY <2>22 DEF ConvergeFails
    <3>2. \A a \in Apps, p \in Parts : app[a][p] <= app'[a][p] /\ app'[a][p] <= Desired(w, p)
      BY <2>22, AppsMoveForward DEF ConvergeFails
    <3>3. RunShape'
      BY <3>1
    <3>4. AppsBehindRun'
      <4> SUFFICES ASSUME NEW v \in Workers, NEW a \in Apps, NEW q \in Parts
                   PROVE  app'[a][q] <= Desired(v, q)'
        OBVIOUS
      <4>1. v = w /\ Desired(v, q)' = Desired(v, q)
        BY <3>1 DEF Desired
      <4> QED
        BY <3>2, <4>1
    <3>5. ASSUME NEW a \in served[w] \ todo[w], NEW e \in claimed[w], NEW p \in Parts
          PROVE  wrote[e] <= app'[a][p]
      <4>1. /\ a \in Apps /\ e \in Events
            /\ wrote[e] \in Nat /\ app[a][p] \in Nat /\ app'[a][p] \in Nat
            /\ wrote[e] <= app[a][p] /\ app[a][p] <= app'[a][p]
        BY <3>2
      <4> QED
        BY <4>1
    <3>6. ServedIsReflected'
      BY <3>1, <3>5
    <3>7. AckedIsReflected'
      <4> SUFFICES ASSUME NEW a \in Apps, NEW p \in Parts PROVE acked[a] <= app'[a][p]
        BY <3>1
      <4> QED
        BY <3>2
    <3> QED
      BY <3>3, <3>4, <3>6, <3>7
  <2>23. CASE UNCHANGED vars
    BY <2>23 DEF vars, Desired
  <2>24. CASE Environment
    BY <2>1, <2>2, <2>5, <2>7, <2>20, <2>21, <2>22, <2>24 DEF Environment
  <2>25. ASSUME NEW w \in Workers, HandleAppSync(w) PROVE DrainInv'
    BY <2>11, <2>12, <2>13, <2>14, <2>15, <2>16, <2>17, <2>18, <2>19, <2>25 DEF HandleAppSync
  <2> HIDE DEF TypeOK, RunOK, DrainInv
  <2>26. QED
    BY <2>3, <2>4, <2>6, <2>8, <2>9, <2>10, <2>23, <2>24, <2>25 DEF Next
<1>3. QED
  BY <1>1, <1>2, RunsWellFormed, SnapshotInvariant, PTL DEF Spec

(* What was reported DONE stays true (app-sync.ts:59-67): every instance a   *)
(* settled run served reflects the changes it settled, through every later   *)
(* failure, crash and retry, if one process drains the outbox.               *)
THEOREM AcksAreTrue ==
  ASSUME SingleDrainer
  PROVE  Spec => []AckedIsReflected
BY DrainInvariant, PTL DEF DrainInv

-----------------------------------------------------------------------------
(* Refinement of IdentityDelivery. *)
Whole == [a \in Apps |-> Min2(app[a]["users"], app[a]["groups"])]

(* A step of the outbox is a commit, a delivery, an acknowledgement or none. *)
LEMMA Simulation ==
  ASSUME SingleDrainer, TypeOK, TypeOK', RunOK, SnapInv, DrainInv, DrainInv', [Next]_vars
  PROVE  [Delivery!Next]_(Delivery!vars)
<1> USE OutboxAssumption DEF database, remote, local
<1> DEFINE Sim == [Delivery!Next]_(Delivery!vars)
<1>1. ASSUME UNCHANGED <<version, app, acked>> PROVE Sim
  BY <1>1 DEF Delivery!vars
<1>2. ASSUME version' = version + 1, UNCHANGED <<app, acked>> PROVE Sim
  BY <1>2 DEF Delivery!Next, Delivery!Commit
<1>3. ASSUME NEW w \in Workers, WriteUsers(w) \/ WriteGroups(w) \/ Interrupted(w),
             UNCHANGED <<version, acked>>
      PROVE  Sim
  <2>1. ASSUME NEW a \in Apps PROVE Whole[a] <= Whole'[a] /\ Whole'[a] <= version
    <3>1. \A p \in Parts : /\ app[a][p] \in Nat /\ app'[a][p] \in Nat /\ app[a][p] <= app'[a][p]
                           /\ app'[a][p] <= version /\ version \in Nat
      BY <1>3, AppsMoveForward, WritesAreCommitted DEF DrainInv, TypeOK
    <3> QED
      BY <3>1 DEF Whole, Min2, Parts
  <2> QED
    BY <1>3, <2>1 DEF Delivery!Next, Delivery!Deliver, Whole
<1>4. ASSUME NEW w \in Workers, Settle(w) PROVE Sim
  <2>1. UNCHANGED <<version, app>> /\ DOMAIN acked' = Apps
    BY <1>4 DEF Settle, SettleRows, SetStatus
  <2>2. ASSUME NEW a \in Apps PROVE acked[a] <= acked'[a] /\ acked'[a] <= Whole[a]
    <3>1. acked'[a] = acked[a] \/ (acked[a] < acked'[a])
      BY <1>4, <2>2 DEF Settle, SettleRows, SetStatus
    <3>2. /\ acked[a] \in Nat /\ acked'[a] \in Nat
          /\ acked'[a] <= app[a]["users"] /\ acked'[a] <= app[a]["groups"]
      BY <2>1 DEF TypeOK, DrainInv, AckedIsReflected, Parts
    <3> QED
      BY <3>1, <3>2 DEF Whole, Min2
  <2> QED
    BY <2>1, <2>2 DEF Delivery!Next, Delivery!Acknowledge, Whole
<1> HIDE DEF Sim
<1>5. ASSUME NEW r \in Requests, Mutate(r) PROVE Sim
  BY <1>2, <1>5 DEF Mutate
<1>6. ASSUME MutateUnmarked PROVE Sim
  BY <1>2, <1>6 DEF MutateUnmarked
<1>7. ASSUME NEW r \in Producers, Mark(r) \/ Enqueue(r) \/ Abandon(r) PROVE Sim
  BY <1>1, <1>7 DEF Mark, Enqueue, Abandon
<1>8. ASSUME ReconcileTick PROVE Sim
  BY <1>1, <1>8 DEF ReconcileTick
<1>9. ASSUME NEW a \in Apps, SetInstanceStatus(a) PROVE Sim
  BY <1>1, <1>9 DEF SetInstanceStatus
<1>10. ASSUME NEW j \in Jobs, Promote(j) \/ Stalled(j) PROVE Sim
  BY <1>1, <1>10 DEF Promote, Stalled
<1>11. ASSUME NEW w \in Workers, NEW j \in Jobs, Take(w, j) PROVE Sim
  BY <1>1, <1>11 DEF Take
<1>12. ASSUME NEW w \in Workers, Find(w) \/ Claim(w) \/ ReadInstances(w) \/ MarkFailed(w) \/ QueryFails(w)
       PROVE  Sim
  BY <1>1, <1>12 DEF Find, Claim, ReadInstances, MarkFailed, QueryFails
<1>13. ASSUME NEW w \in Workers, NEW a \in Apps, StartConverge(w, a) PROVE Sim
  BY <1>1, <1>13 DEF StartConverge
<1>14. ASSUME NEW w \in Workers, NEW p \in Parts, ReadPart(w, p) PROVE Sim
  BY <1>1, <1>14 DEF ReadPart
<1>15. ASSUME NEW w \in Workers, WriteUsers(w) \/ WriteGroups(w) PROVE Sim
  BY <1>3, <1>15 DEF WriteUsers, WriteGroups
<1>16. ASSUME NEW w \in Workers, ConvergeFails(w) \/ Crash(w) PROVE Sim
  BY <1>3, <1>16 DEF ConvergeFails, Crash
<1>17. ASSUME UNCHANGED vars PROVE Sim
  BY <1>1, <1>17 DEF vars
<1>18. ASSUME NEW w \in Workers, HandleAppSync(w) PROVE Sim
  BY <1>4, <1>12, <1>13, <1>14, <1>15, <1>18 DEF HandleAppSync
<1>19. ASSUME Environment PROVE Sim
  BY <1>5, <1>6, <1>7, <1>9, <1>12, <1>16, <1>19 DEF Environment
<1>20. Sim
  BY <1>7, <1>8, <1>10, <1>11, <1>17, <1>18, <1>19 DEF Next
<1> QED
  BY <1>20 DEF Sim

(* The whole machinery of rows, jobs, retries and replays delivers changes   *)
(* in order and acknowledges only delivered ones, if one process drains it.  *)
THEOREM ImplementsDelivery ==
  ASSUME SingleDrainer
  PROVE  Spec => DeliverySpec
<1>1. Init => Delivery!Init
  BY DEF Init, Delivery!Init, Min2, Parts
<1>2. TypeOK /\ TypeOK' /\ RunOK /\ SnapInv /\ DrainInv /\ DrainInv' /\ [Next]_vars
        => [Delivery!Next]_(Delivery!vars)
  BY Simulation
<1> QED
  BY <1>1, <1>2, RunsWellFormed, SnapshotInvariant, DrainInvariant, PTL DEF Spec, DeliverySpec, Delivery!Spec

-----------------------------------------------------------------------------
(* The rows a run holds are not settled. *)
HeldAreUnsettled == \A w \in Workers : \A e \in claimed[w] : status[e] # "DONE"

Settled(e) == status[e] = "DONE" => status'[e] \in {"DONE", "PENDING"}

\* A marker that a worker holds was not settled.
LEMMA HeldStep ==
  ASSUME SingleDrainer, TypeOK, HeldAreUnsettled, [Next]_vars
  PROVE  HeldAreUnsettled' /\ \A e \in Events : Settled(e)
<1> USE DEF database, remote, local, SingleDrainer, HeldAreUnsettled, Settled, TypeOK
<1> DEFINE Goal == HeldAreUnsettled' /\ \A e \in Events : Settled(e)
<1>1. ASSUME NEW r \in Requests, Mutate(r) PROVE Goal
  BY <1>1 DEF Mutate, AppendEvent, Reusable, Spent, Unheld
<1>2. ASSUME MutateUnmarked PROVE Goal
  BY <1>2 DEF MutateUnmarked
<1>3. ASSUME NEW r \in Producers, Mark(r) PROVE Goal
  BY <1>3 DEF Mark, AppendEvent, Reusable, Spent, Unheld
<1>4. ASSUME NEW r \in Producers, Enqueue(r) PROVE Goal
  BY <1>4 DEF Enqueue
<1>5. ASSUME NEW r \in Producers, Abandon(r) PROVE Goal
  BY <1>5 DEF Abandon
<1>6. ASSUME ReconcileTick PROVE Goal
  BY <1>6 DEF ReconcileTick
<1>7. ASSUME NEW a \in Apps, SetInstanceStatus(a) PROVE Goal
  BY <1>7 DEF SetInstanceStatus
<1>8. ASSUME NEW j \in Jobs, Promote(j) PROVE Goal
  BY <1>8 DEF Promote
<1>9. ASSUME NEW j \in Jobs, Stalled(j) PROVE Goal
  BY <1>9 DEF Stalled
<1>10. ASSUME NEW w \in Workers, NEW j \in Jobs, Take(w, j) PROVE Goal
  BY <1>10 DEF Take
<1>11. ASSUME NEW w \in Workers, Find(w) PROVE Goal
  BY <1>11 DEF Find, Stop
<1>12. ASSUME NEW w \in Workers, Claim(w) PROVE Goal
  BY <1>12 DEF Claim, SetStatus
<1>13. ASSUME NEW w \in Workers, ReadInstances(w) PROVE Goal
  BY <1>13 DEF ReadInstances
<1>14. ASSUME NEW w \in Workers, NEW a \in Apps, StartConverge(w, a) PROVE Goal
  BY <1>14 DEF StartConverge
<1>15. ASSUME NEW w \in Workers, NEW p \in Parts, ReadPart(w, p) PROVE Goal
  BY <1>15 DEF ReadPart
<1>16. ASSUME NEW w \in Workers, WriteUsers(w) PROVE Goal
  BY <1>16 DEF WriteUsers
<1>17. ASSUME NEW w \in Workers, WriteGroups(w) PROVE Goal
  BY <1>17 DEF WriteGroups
<1>18. ASSUME NEW w \in Workers, Settle(w) PROVE Goal
  BY <1>18 DEF Settle, SettleRows, SetStatus, Stop
<1>19. ASSUME NEW w \in Workers, MarkFailed(w) PROVE Goal
  BY <1>19 DEF MarkFailed, SetStatus, Stop
<1>20. ASSUME NEW w \in Workers, QueryFails(w) PROVE Goal
  BY <1>20 DEF QueryFails, Stop
<1>21. ASSUME NEW w \in Workers, Crash(w) PROVE Goal
  BY <1>21 DEF Crash, Stop
<1>22. ASSUME NEW w \in Workers, ConvergeFails(w) PROVE Goal
  BY <1>22 DEF ConvergeFails
<1>23. ASSUME UNCHANGED vars PROVE Goal
  BY <1>23 DEF vars
<1> HIDE DEF Goal
<1>24. ASSUME Environment PROVE Goal
  BY <1>1, <1>2, <1>5, <1>7, <1>20, <1>21, <1>22, <1>24 DEF Environment
<1>25. ASSUME NEW w \in Workers, HandleAppSync(w) PROVE Goal
  BY <1>11, <1>12, <1>13, <1>14, <1>15, <1>16, <1>17, <1>18, <1>19, <1>25 DEF HandleAppSync
<1>26. Goal
  BY <1>3, <1>4, <1>6, <1>8, <1>9, <1>10, <1>23, <1>24, <1>25 DEF Next
<1> QED
  BY <1>26 DEF Goal

(* A settled marker is settled for good (app-sync.ts:22-35, 50-67): no retry, *)
(* replay or later run claims or fails it again, if one process drains.       *)
THEOREM SettledForGood ==
  ASSUME SingleDrainer
  PROVE  Spec => SettledStaysSettled
<1>1. Init => HeldAreUnsettled
  BY DEF Init, HeldAreUnsettled
<1>2. TypeOK /\ HeldAreUnsettled /\ [Next]_vars => HeldAreUnsettled'
  BY HeldStep
<1>3. TypeOK /\ HeldAreUnsettled /\ [Next]_vars
        => [\A e \in Events : status[e] = "DONE" => status'[e] \in {"DONE", "PENDING"}]_vars
  BY HeldStep DEF Settled
<1> QED
  BY <1>1, <1>2, <1>3, RunsWellFormed, PTL DEF Spec, SettledStaysSettled

(***************************************************************************)
(* GroupSync                                                               *)
(***************************************************************************)

\* Nothing came between a pass and the app: it is alone, or nothing ever has.
Undisturbed(p) == run[p].alone \/ ~overlapped

\* A pass that is undisturbed is the only one under way, and one that is alone
\* has no call of an earlier one behind it.
AloneKnows ==
  /\ \A p \in UnderWay, q \in UnderWay : Undisturbed(p) => p = q
  /\ \A p \in Passes : run[p].alone =>
       run[p].step # "idle" /\ late = {} /\ \A q \in UnderWay : q = p

\* What a pass has still to do is for the roles it read.
TodoKnows ==
  \A p \in Passes :
    /\ run[p].todo \subseteq Wanted(p)
    /\ \A g \in run[p].stale : g[1] \notin Wanted(p)

\* What an undisturbed pass has seen is still so, but for what it did.
SeenKnows ==
  \A p \in Passes : run[p].step = "put" /\ (run[p].alone \/ (~overlapped /\ p \in UnderWay)) =>
    \A r \in Roles :
      IF r \in run[p].todo
      THEN \/ There(r) = {} /\ run[p].existing[r] = {}
           \/ \E n \in There(r) : run[p].existing[r] = {n}
      ELSE IF r \in Wanted(p) THEN \E n \in There(r) : copy[r][n] = run[p].wants[r]
      ELSE \A n \in There(r) : <<r, n>> \in run[p].stale

OnlyOne == ~overlapped => \A r \in Roles : \A m, n \in There(r) : m = n


GroupInv == GroupTypeOK /\ AloneKnows /\ TodoKnows /\ SeenKnows /\ OnlyOne

\* The record of a pass, and how a call changes the groups.
LEMMA GroupTypeStep ==
  ASSUME GroupTypeOK, [GroupNext]_groupVars
  PROVE  GroupTypeOK'
<1> USE GroupAssumption DEF GroupTypeOK, Bindings, Blank, Copies
<1> DEFINE Records == [step : {"idle", "list", "put"}, wants : Bindings, todo : SUBSET Roles,
                       existing : [Roles -> SUBSET Copies], stale : SUBSET (Roles \X Copies),
                       alone : BOOLEAN]
<1>1. ASSUME NEW r \in Roles, NEW ms \in Members \cup {NoOne}, BindTo(r, ms) PROVE GroupTypeOK'
  BY <1>1 DEF BindTo
<1>2. ASSUME NEW p \in Passes, StartGroups(p) PROVE GroupTypeOK'
  <2>1. (UnderWay = {} /\ late = {}) \in BOOLEAN /\ (overlapped \/ UnderWay # {}) \in BOOLEAN
    OBVIOUS
  <2>2. PICK b \in BOOLEAN : b = (UnderWay = {} /\ late = {})
    BY <2>1
  <2>3. ASSUME NEW q \in Passes
        PROVE  run'[q] = [Blank EXCEPT !.step = "list", !.wants = bound, !.alone = b]
               \/ run'[q] = [run[q] EXCEPT !.alone = FALSE] \/ run'[q] = Blank
    BY <1>2, <2>2 DEF StartGroups
  <2>4. ASSUME NEW q \in Passes PROVE run'[q] \in Records
    <3>1. CASE run'[q] = Blank
      BY <3>1
    <3>2. CASE run'[q] = [run[q] EXCEPT !.alone = FALSE]
      BY <3>2
    <3>3. CASE run'[q] = [Blank EXCEPT !.step = "list", !.wants = bound, !.alone = b]
      BY <3>3
    <3> QED
      BY <2>3, <3>1, <3>2, <3>3
  <2>5. run' = [q \in Passes |-> run'[q]]
    BY <1>2 DEF StartGroups
  <2>6. run' \in [Passes -> Records]
    BY <2>4, <2>5
  <2> QED
    BY <1>2, <2>1, <2>6 DEF StartGroups
<1>3. ASSUME NEW p \in Passes, ListGroups(p) PROVE GroupTypeOK'
  <2>1. PICK pick \in [Roles -> SUBSET Copies] :
          run' = [run EXCEPT ![p].step = "put", ![p].todo = Wanted(p), ![p].existing = pick,
            ![p].stale = {g \in (Roles \ Wanted(p)) \X Copies : g[2] \in There(g[1])}]
    BY <1>3 DEF ListGroups
  <2>2. /\ Wanted(p) \in SUBSET Roles
        /\ {g \in (Roles \ Wanted(p)) \X Copies : g[2] \in There(g[1])} \in SUBSET (Roles \X Copies)
    BY DEF Wanted
  <2>3. run[p] \in Records /\ run' = [run EXCEPT ![p] = run'[p]]
    BY <2>1
  <2>4. run'[p] \in Records
    BY <2>1, <2>2, <2>3
  <2>5. run' \in [Passes -> Records]
    BY <2>3, <2>4
  <2> QED
    BY <1>3, <2>5 DEF ListGroups
<1>4. ASSUME NEW p \in Passes, FailsPass(p) PROVE GroupTypeOK'
  BY <1>4 DEF FailsPass
<1>5. ASSUME NEW p \in Passes, NEW c \in NextCalls(p) PROVE c \in Call
  BY <1>5 DEF NextCalls, Puts, Drops, Call
<1>6. ASSUME NEW c \in Call, TakesEffect(c)
      PROVE  copy' \in [Roles -> [Copies -> Members \cup {NoOne}]] /\ made' \in [Roles -> 0..MaxCopies]
  <2>1. CASE c.id = {}
    <3>1. made[c.role] \in 0..MaxCopies /\ c.to \in Members \cup {NoOne} /\ c.role \in Roles
      BY <1>6 DEF Call
    <3>2. made[c.role] < MaxCopies /\ made' = [made EXCEPT ![c.role] = made[c.role] + 1]
      BY <1>6, <2>1 DEF TakesEffect
    <3>3. made[c.role] + 1 \in 0..MaxCopies /\ made[c.role] + 1 \in 1..MaxCopies
      BY <3>1, <3>2
    <3>4. made' \in [Roles -> 0..MaxCopies] /\ made'[c.role] \in Copies
      BY <3>1, <3>2, <3>3
    <3>5. copy' = [copy EXCEPT ![c.role] = [copy[c.role] EXCEPT ![made'[c.role]] = c.to]]
      BY <1>6, <2>1 DEF TakesEffect
    <3>6. [copy[c.role] EXCEPT ![made'[c.role]] = c.to] \in [Copies -> Members \cup {NoOne}]
      BY <3>1, <3>4
    <3> QED
      BY <3>1, <3>4, <3>5, <3>6
  <2>2. CASE c.id # {}
    <3>1. /\ made' = made /\ c.role \in Roles /\ c.to \in Members \cup {NoOne}
          /\ copy' = [copy EXCEPT ![c.role] =
               [n \in Copies |-> IF n \in c.id \cap There(c.role) THEN c.to ELSE copy[c.role][n]]]
      BY <1>6, <2>2 DEF TakesEffect, Call
    <3>2. [n \in Copies |-> IF n \in c.id \cap There(c.role) THEN c.to ELSE copy[c.role][n]]
            \in [Copies -> Members \cup {NoOne}]
      BY <3>1
    <3> QED
      BY <3>1, <3>2
  <2> QED
    BY <2>1, <2>2
<1>7. ASSUME NEW p \in Passes, NEW c \in NextCalls(p), CallsApp(p, c) PROVE GroupTypeOK'
  <2>1. copy' \in [Roles -> [Copies -> Members \cup {NoOne}]] /\ made' \in [Roles -> 0..MaxCopies]
    BY <1>5, <1>6, <1>7 DEF CallsApp
  <2> QED
    <3>1. /\ run[p] \in Records /\ Blank \in Records /\ run' = [run EXCEPT ![p] = run'[p]]
          /\ \/ run'[p] = Blank
             \/ run'[p] = [run[p] EXCEPT !.todo = run[p].todo \ {c.role},
                                        !.stale = run[p].stale \ ({c.role} \X c.id)]
      BY <1>7 DEF CallsApp
    <3>2. run' \in [Passes -> Records]
      <4>1. CASE run'[p] = Blank
        BY <3>1, <4>1
      <4>2. CASE run'[p] = [run[p] EXCEPT !.todo = run[p].todo \ {c.role},
                                          !.stale = run[p].stale \ ({c.role} \X c.id)]
        <5>1. /\ run[p].todo \ {c.role} \in SUBSET Roles
              /\ run[p].stale \ ({c.role} \X c.id) \in SUBSET (Roles \X Copies)
          BY <3>1
        <5>2. /\ run'[p] = [step |-> run[p].step, wants |-> run[p].wants, todo |-> run'[p].todo,
                            existing |-> run[p].existing, stale |-> run'[p].stale,
                            alone |-> run[p].alone]
              /\ run'[p].todo = run[p].todo \ {c.role}
              /\ run'[p].stale = run[p].stale \ ({c.role} \X c.id)
          BY <3>1, <4>2
        <5>3. run'[p] \in Records
          BY <3>1, <5>1, <5>2
        <5> QED
          BY <3>1, <5>3
      <4> QED
        BY <3>1, <4>1, <4>2
    <3> QED
      BY <1>7, <2>1, <3>2 DEF CallsApp
<1>8. ASSUME NEW p \in Passes, NEW c \in NextCalls(p), TimesOut(p, c) PROVE GroupTypeOK'
  <2>1. c \in Call /\ lost' \in 1..MaxLost
    BY <1>5, <1>8 DEF TimesOut
  <2>2. late' = late \cup {<<c, lost'>>} /\ <<c, lost'>> \in Call \X (1..MaxLost)
    BY <1>8, <2>1 DEF TimesOut
  <2>3. late' \subseteq Call \X (1..MaxLost)
    BY <2>2
  <2>4. run' \in [Passes -> Records]
    BY <1>8 DEF TimesOut
  <2> QED
    BY <1>8, <2>1, <2>3, <2>4 DEF TimesOut
<1>9. ASSUME NEW l \in late, ArrivesLate(l) PROVE GroupTypeOK'
  <2>1. l[1] \in Call
    BY <1>9
  <2>2. copy' \in [Roles -> [Copies -> Members \cup {NoOne}]] /\ made' \in [Roles -> 0..MaxCopies]
    BY <1>6, <1>9, <2>1 DEF ArrivesLate
  <2> QED
    BY <1>9, <2>2 DEF ArrivesLate
<1>10. ASSUME UNCHANGED groupVars PROVE GroupTypeOK'
  BY <1>10 DEF groupVars
<1> QED
  BY <1>1, <1>2, <1>3, <1>4, <1>7, <1>8, <1>9, <1>10 DEF GroupNext

\* A pass that is no longer under way is over or has not begun, and what another
\* one does leaves it as it is.
LEMMA AloneStep ==
  ASSUME GroupTypeOK, AloneKnows, [GroupNext]_groupVars
  PROVE  AloneKnows'
<1> USE DEF GroupTypeOK, AloneKnows, Undisturbed, UnderWay, GroupsDone
<1>1. ASSUME NEW r \in Roles, NEW ms \in Members \cup {NoOne}, BindTo(r, ms) PROVE AloneKnows'
  BY <1>1 DEF BindTo
<1>2. ASSUME NEW p \in Passes, StartGroups(p) PROVE AloneKnows'
  <2>1. /\ run'[p].step = "list" /\ (run'[p].alone => UnderWay = {} /\ late = {})
        /\ late' = late /\ (~overlapped' => UnderWay = {})
    BY <1>2 DEF StartGroups, Blank
  <2>2. ASSUME NEW q \in Passes \ {p}
        PROVE  /\ ~run'[q].alone
               /\ IF q \in UnderWay THEN run'[q] = [run[q] EXCEPT !.alone = FALSE]
                  ELSE run'[q].step = "idle"
    BY <1>2 DEF StartGroups, Blank
  <2>3. ASSUME NEW q \in Passes \ {p}, UnderWay = {} PROVE run'[q].step = "idle"
    BY <2>2, <2>3
  <2> QED
    BY <2>1, <2>2, <2>3
<1>3. ASSUME NEW p \in Passes, ListGroups(p) PROVE AloneKnows'
  BY <1>3 DEF ListGroups
<1>4. ASSUME NEW p \in Passes, FailsPass(p) PROVE AloneKnows'
  BY <1>4 DEF FailsPass, Blank
<1>5. ASSUME NEW p \in Passes, NEW c \in NextCalls(p), CallsApp(p, c) PROVE AloneKnows'
  BY <1>5 DEF CallsApp, Blank, NextCalls, Puts, Drops
<1>6. ASSUME NEW p \in Passes, NEW c \in NextCalls(p), TimesOut(p, c) PROVE AloneKnows'
  BY <1>6 DEF TimesOut, Blank, NextCalls, Puts, Drops
<1>7. ASSUME NEW l \in late, ArrivesLate(l) PROVE AloneKnows'
  BY <1>7 DEF ArrivesLate
<1>8. ASSUME UNCHANGED groupVars PROVE AloneKnows'
  BY <1>8 DEF groupVars
<1> QED
  BY <1>1, <1>2, <1>3, <1>4, <1>5, <1>6, <1>7, <1>8 DEF GroupNext

LEMMA TodoStep ==
  ASSUME GroupTypeOK, TodoKnows, [GroupNext]_groupVars
  PROVE  TodoKnows'
<1> DEFINE Knows(q) == /\ run[q].todo \subseteq Wanted(q)
                       /\ \A g \in run[q].stale : g[1] \notin Wanted(q)
<1>0. TodoKnows <=> \A q \in Passes : Knows(q)
  BY DEF TodoKnows
<1>1. ASSUME NEW q \in Passes, run'[q].wants = run[q].wants,
             run'[q].todo \subseteq run[q].todo, run'[q].stale \subseteq run[q].stale
      PROVE  Knows(q)'
  BY <1>0, <1>1 DEF TodoKnows, Wanted
<1>2. ASSUME NEW q \in Passes, run'[q].todo = {}, run'[q].stale = {} PROVE Knows(q)'
  BY <1>2
<1>3. ASSUME UNCHANGED run PROVE \A q \in Passes : Knows(q)'
  BY <1>1, <1>3
<1>4. ASSUME NEW p \in Passes, StartGroups(p) PROVE \A q \in Passes : Knows(q)'
  <2> TAKE q \in Passes
  <2>1. CASE q # p /\ q \in UnderWay
    <3>1. run'[q] = [run[q] EXCEPT !.alone = FALSE]
      BY <1>4, <2>1 DEF StartGroups
    <3>2. run'[q].wants = run[q].wants /\ run'[q].todo = run[q].todo /\ run'[q].stale = run[q].stale
      BY <3>1 DEF GroupTypeOK
    <3> QED
      BY <1>1, <3>2
  <2>2. CASE ~(q # p /\ q \in UnderWay)
    BY <1>2, <1>4, <2>2 DEF StartGroups, Blank
  <2> QED
    BY <2>1, <2>2
<1>5. ASSUME NEW p \in Passes, run' = [run EXCEPT ![p] = Blank] PROVE \A q \in Passes : Knows(q)'
  <2> TAKE q \in Passes
  <2>1. run'[q] = run[q] \/ (run'[q].todo = {} /\ run'[q].stale = {})
    BY <1>5 DEF GroupTypeOK, Blank
  <2> QED
    BY <1>1, <1>2, <2>1
<1>6. ASSUME NEW p \in Passes, ListGroups(p) PROVE \A q \in Passes : Knows(q)'
  <2> TAKE q \in Passes
  <2>1. CASE q # p
    BY <1>1, <1>6, <2>1 DEF ListGroups, GroupTypeOK
  <2>2. CASE q = p
    <3>1. /\ run'[p].wants = run[p].wants /\ run'[p].todo = Wanted(p)
          /\ run'[p].stale = {g \in (Roles \ Wanted(p)) \X Copies : g[2] \in There(g[1])}
      BY <1>6 DEF ListGroups, GroupTypeOK
    <3>2. Wanted(p)' = Wanted(p)
      BY <3>1 DEF Wanted
    <3> QED
      BY <2>2, <3>1, <3>2
  <2> QED
    BY <2>1, <2>2
<1>7. ASSUME NEW p \in Passes, NEW c \in NextCalls(p), CallsApp(p, c) PROVE \A q \in Passes : Knows(q)'
  <2>1. CASE run' = [run EXCEPT ![p] = Blank]
    BY <1>5, <2>1
  <2>2. CASE run' = [run EXCEPT ![p].todo = @ \ {c.role}, ![p].stale = @ \ ({c.role} \X c.id)]
    <3>1. ASSUME NEW q \in Passes
          PROVE  /\ run'[q].wants = run[q].wants
                 /\ run'[q].todo \subseteq run[q].todo /\ run'[q].stale \subseteq run[q].stale
      BY <2>2 DEF GroupTypeOK
    <3> QED
      BY <1>1, <3>1
  <2> QED
    BY <1>7, <2>1, <2>2 DEF CallsApp
<1>8. \A q \in Passes : Knows(q)'
  BY <1>3, <1>4, <1>5, <1>6, <1>7
     DEF GroupNext, BindTo, FailsPass, TimesOut, ArrivesLate, groupVars
<1> QED
  BY <1>8 DEF TodoKnows

\* A call changes groups of its role only: one more, or the one it names.
LEMMA CallEffect ==
  ASSUME GroupTypeOK, NEW c \in Call, TakesEffect(c)
  PROVE  /\ \A r \in Roles \ {c.role} : copy'[r] = copy[r]
         /\ c.id = {} => \E k \in Copies : \A n \in Copies :
                           copy'[c.role][n] = IF n = k THEN c.to ELSE copy[c.role][n]
         /\ c.id # {} => \A n \in Copies :
                           copy'[c.role][n] = IF n \in c.id \cap There(c.role) THEN c.to
                                              ELSE copy[c.role][n]
<1>1. c.role \in Roles
  BY DEF Call
<1>2. CASE c.id = {}
  <2>1. made[c.role] \in 0..MaxCopies
    BY <1>1 DEF GroupTypeOK
  <2>2. made'[c.role] = made[c.role] + 1 /\ made'[c.role] \in Copies
    BY <1>1, <1>2, <2>1, GroupAssumption DEF TakesEffect, Copies, GroupTypeOK
  <2>3. copy' = [copy EXCEPT ![c.role] = [copy[c.role] EXCEPT ![made'[c.role]] = c.to]]
    BY <1>2 DEF TakesEffect
  <2> QED
    BY <1>1, <1>2, <2>2, <2>3 DEF GroupTypeOK
<1>3. CASE c.id # {}
  BY <1>1, <1>3 DEF TakesEffect, GroupTypeOK
<1> QED
  BY <1>2, <1>3

\* The calls a pass makes next: it puts what it read, or drops what it saw.
LEMMA CallsKnown ==
  ASSUME GroupTypeOK, NEW p \in Passes, NEW c \in NextCalls(p)
  PROVE  /\ c \in Call /\ p \in UnderWay /\ run[p].step = "put"
         /\ \/ /\ c.role \in run[p].todo /\ c.id = run[p].existing[c.role]
               /\ c.to = run[p].wants[c.role]
            \/ /\ run[p].todo = {} /\ c.to = NoOne
               /\ \E n \in Copies : c.id = {n} /\ <<c.role, n>> \in run[p].stale
<1>1. CASE run[p].todo # {}
  BY <1>1 DEF NextCalls, Puts, GroupTypeOK, Call, Bindings, UnderWay, GroupsDone
<1>2. CASE run[p].todo = {}
  <2>1. PICK g \in run[p].stale : c = [role |-> g[1], id |-> {g[2]}, to |-> NoOne]
    BY <1>2 DEF NextCalls, Drops
  <2>2. g \in Roles \X Copies /\ run[p].step = "put" /\ g = <<g[1], g[2]>>
    BY <1>2 DEF NextCalls, GroupTypeOK
  <2> QED
    BY <1>2, <2>1, <2>2 DEF Call, UnderWay, GroupsDone
<1> QED
  BY <1>1, <1>2

LEMMA SeenStep ==
  ASSUME GroupTypeOK, AloneKnows, TodoKnows, SeenKnows, [GroupNext]_groupVars
  PROVE  SeenKnows'
<1> DEFINE Clear(q) == run[q].step = "put" /\ (run[q].alone \/ (~overlapped /\ q \in UnderWay))
           Seen(q, r) == IF r \in run[q].todo
                         THEN \/ There(r) = {} /\ run[q].existing[r] = {}
                              \/ \E n \in There(r) : run[q].existing[r] = {n}
                         ELSE IF r \in Wanted(q) THEN \E n \in There(r) : copy[r][n] = run[q].wants[r]
                         ELSE \A n \in There(r) : <<r, n>> \in run[q].stale
           Goal == \A q \in Passes : Clear(q)' => \A r \in Roles : Seen(q, r)'
<1>0. \A q \in Passes : Clear(q) => \A r \in Roles : Seen(q, r)
  BY DEF SeenKnows
<1>1. ASSUME NEW q \in Passes, run'[q] = run[q], UNCHANGED <<copy, overlapped>>
      PROVE  Clear(q)' => \A r \in Roles : Seen(q, r)'
  <2>1. (q \in UnderWay)' <=> q \in UnderWay
    BY <1>1 DEF UnderWay, GroupsDone
  <2>2. Clear(q)' <=> Clear(q)
    BY <1>1, <2>1
  <2>3. \A r \in Roles : There(r)' = There(r) /\ Wanted(q)' = Wanted(q)
    BY <1>1 DEF There, Wanted
  <2>4. \A r \in Roles : Seen(q, r)' <=> Seen(q, r)
    BY <1>1, <2>3
  <2> QED
    BY <1>0, <2>2, <2>4
<1>2. ASSUME UNCHANGED <<run, copy, overlapped>> PROVE Goal
  BY <1>1, <1>2
<1>3. ASSUME NEW p \in Passes, run' = [run EXCEPT ![p] = Blank], UNCHANGED <<copy, overlapped>>
      PROVE  Goal
  <2> TAKE q \in Passes
  <2>1. CASE q = p
    BY <1>3, <2>1 DEF GroupTypeOK, Blank
  <2>2. CASE q # p
    <3>1. run'[q] = run[q]
      BY <1>3, <2>2 DEF GroupTypeOK
    <3> QED
      BY <1>1, <1>3, <3>1
  <2> QED
    BY <2>1, <2>2
<1>4. ASSUME NEW p \in Passes, StartGroups(p) PROVE Goal
  <2> TAKE q \in Passes
  <2>1. CASE q = p
    BY <1>4, <2>1 DEF StartGroups, Blank
  <2>2. CASE q # p /\ q \notin UnderWay
    BY <1>4, <2>2 DEF StartGroups, Blank
  <2>3. CASE q # p /\ q \in UnderWay
    <3>1. run'[q].alone = FALSE /\ overlapped'
      BY <1>4, <2>3 DEF StartGroups, GroupTypeOK
    <3> QED
      BY <3>1
  <2> QED
    BY <2>1, <2>2, <2>3
<1>5. ASSUME NEW p \in Passes, ListGroups(p) PROVE Goal
  <2> TAKE q \in Passes
  <2>1. CASE q # p
    <3>1. run'[q] = run[q]
      BY <1>5, <2>1 DEF ListGroups, GroupTypeOK
    <3> QED
      BY <1>1, <1>5, <3>1 DEF ListGroups
  <2>2. CASE q = p
    <3>1. PICK pick \in [Roles -> SUBSET Copies] :
            /\ OneOfEach(p, pick)
            /\ run' = [run EXCEPT ![p].step = "put", ![p].todo = Wanted(p), ![p].existing = pick,
                 ![p].stale = {g \in (Roles \ Wanted(p)) \X Copies : g[2] \in There(g[1])}]
      BY <1>5 DEF ListGroups
    <3>2. /\ run'[p].wants = run[p].wants /\ run'[p].todo = Wanted(p) /\ run'[p].existing = pick
          /\ run'[p].stale = {g \in (Roles \ Wanted(p)) \X Copies : g[2] \in There(g[1])}
      BY <3>1 DEF GroupTypeOK
    <3>3. Wanted(p)' = Wanted(p) /\ \A r \in Roles : There(r)' = There(r) /\ There(r) \subseteq Copies
      BY <1>5, <3>2 DEF Wanted, There, ListGroups
    <3>4. ASSUME NEW r \in Roles PROVE Seen(p, r)'
      <4>1. CASE r \in Wanted(p)
        <5>1. (There(r) = {} /\ pick[r] = {}) \/ \E n \in There(r) : pick[r] = {n}
          BY <3>1, <4>1 DEF OneOfEach
        <5> QED
          BY <3>2, <3>3, <4>1, <5>1
      <4>2. CASE r \notin Wanted(p)
        BY <3>2, <3>3, <4>2
      <4> QED
        BY <4>1, <4>2
    <3> QED
      BY <2>2, <3>4
  <2> QED
    BY <2>1, <2>2
<1>6. ASSUME NEW p \in Passes, NEW c \in NextCalls(p), CallsApp(p, c) PROVE Goal
  <2>1. CASE run' = [run EXCEPT ![p] = Blank]
    <3> TAKE q \in Passes
    <3>1. CASE q = p
      BY <2>1, <3>1 DEF GroupTypeOK, Blank
    <3>2. CASE q # p
      <4>1. run'[q] = run[q] /\ overlapped' = overlapped
        BY <1>6, <2>1, <3>2 DEF GroupTypeOK, CallsApp
      <4>2. (q \in UnderWay)' <=> q \in UnderWay
        BY <4>1 DEF UnderWay, GroupsDone
      <4>3. ~Clear(q)
        BY <3>2, CallsKnown DEF AloneKnows, Undisturbed
      <4> QED
        BY <4>1, <4>2, <4>3
    <3> QED
      BY <3>1, <3>2
  <2>2. CASE run' = [run EXCEPT ![p].todo = @ \ {c.role}, ![p].stale = @ \ ({c.role} \X c.id)]
    <3> TAKE q \in Passes
    <3>1. CASE q # p
      <4>1. run'[q] = run[q] /\ overlapped' = overlapped
        BY <1>6, <2>2, <3>1 DEF GroupTypeOK, CallsApp
      <4>2. (q \in UnderWay)' <=> q \in UnderWay
        BY <4>1 DEF UnderWay, GroupsDone
      <4>3. ~Clear(q)
        BY <3>1, CallsKnown DEF AloneKnows, Undisturbed
      <4> QED
        BY <4>1, <4>2, <4>3
    <3>2. CASE q = p
      <4>1. /\ run'[p].wants = run[p].wants /\ run'[p].existing = run[p].existing
            /\ run'[p].alone = run[p].alone /\ overlapped' = overlapped
            /\ run'[p].todo = run[p].todo \ {c.role}
            /\ run'[p].stale = run[p].stale \ ({c.role} \X c.id)
        BY <1>6, <2>2 DEF GroupTypeOK, CallsApp
      <4>2. Wanted(p)' = Wanted(p)
        BY <4>1 DEF Wanted
      <4>3. SUFFICES ASSUME run[p].alone \/ ~overlapped, NEW r \in Roles PROVE Seen(p, r)'
        BY <3>2, <4>1
      <4>4. Seen(p, r) /\ Seen(p, c.role) /\ c \in Call /\ TakesEffect(c) /\ c.role \in Roles
        BY <1>0, <1>6, <4>3, CallsKnown DEF CallsApp, Call
      <4>5. CASE r # c.role
        <5>1. copy'[r] = copy[r]
          BY <4>4, <4>5, CallEffect
        <5>2. There(r)' = There(r)
          BY <5>1 DEF There
        <5> QED
          BY <4>1, <4>2, <4>4, <4>5, <5>1, <5>2
      <4>6. CASE r = c.role /\ c.role \in run[p].todo
        <5>1. /\ c.id = run[p].existing[r] /\ c.to = run[p].wants[r] /\ r \in Wanted(p) /\ c.to # NoOne
          BY <4>6, CallsKnown DEF TodoKnows, Wanted
        <5>2. \E n \in Copies : copy'[r][n] = c.to
          <6>1. CASE c.id = {}
            BY <4>4, <4>6, <6>1, CallEffect
          <6>2. CASE c.id # {}
            <7>1. PICK n \in There(r) : c.id = {n}
              BY <4>4, <4>6, <5>1, <6>2
            <7> QED
              BY <4>4, <4>6, <6>2, <7>1, CallEffect DEF There
          <6> QED
            BY <6>1, <6>2
        <5> QED
          BY <4>1, <4>2, <4>6, <5>1, <5>2 DEF There
      <4>7. CASE r = c.role /\ c.role \notin run[p].todo
        <5>1. PICK n \in Copies : c.id = {n} /\ <<r, n>> \in run[p].stale /\ c.to = NoOne
          BY <4>7, CallsKnown
        <5>2. r \notin Wanted(p)
          BY <5>1 DEF TodoKnows
        <5>3. There(r)' \subseteq There(r) \ {n}
          BY <4>4, <4>7, <5>1, CallEffect DEF There
        <5>4. ASSUME NEW m \in There(r)' PROVE <<r, m>> \in run'[p].stale
          BY <4>1, <4>4, <4>7, <5>1, <5>2, <5>3, <5>4
        <5> QED
          BY <4>1, <4>2, <4>7, <5>2, <5>4
      <4> QED
        BY <4>5, <4>6, <4>7
    <3> QED
      BY <3>1, <3>2
  <2> QED
    BY <1>6, <2>1, <2>2 DEF CallsApp
<1>7. ASSUME NEW l \in late, ArrivesLate(l) PROVE Goal
  BY <1>7 DEF ArrivesLate, AloneKnows
<1>8. Goal
  <2>1. CASE \E p \in Passes : FailsPass(p) \/ \E c \in NextCalls(p) : TimesOut(p, c)
    BY <1>3, <2>1 DEF FailsPass, TimesOut
  <2>2. CASE UNCHANGED groupVars \/ \E r \in Roles, ms \in Members \cup {NoOne} : BindTo(r, ms)
    BY <1>2, <2>2 DEF groupVars, BindTo
  <2> QED
    BY <1>4, <1>5, <1>6, <1>7, <2>1, <2>2 DEF GroupNext
<1> QED
  BY <1>8 DEF SeenKnows

LEMMA OnlyOneStep ==
  ASSUME GroupTypeOK, AloneKnows, SeenKnows, OnlyOne, [GroupNext]_groupVars
  PROVE  OnlyOne'
<1>1. ASSUME UNCHANGED copy, overlapped \in BOOLEAN, overlapped => overlapped' PROVE OnlyOne'
  BY <1>1 DEF OnlyOne, There
<1>2. ASSUME NEW p \in Passes, NEW c \in NextCalls(p), CallsApp(p, c) PROVE OnlyOne'
  <2> SUFFICES ASSUME ~overlapped, NEW r \in Roles, NEW m \in There(r)', NEW n \in There(r)'
               PROVE  m = n
    BY <1>2 DEF OnlyOne, CallsApp
  <2>1. c \in Call /\ TakesEffect(c) /\ p \in UnderWay /\ run[p].step = "put"
    BY <1>2, CallsKnown DEF CallsApp
  <2>2. CASE r # c.role
    BY <2>1, <2>2, CallEffect DEF OnlyOne, There
  <2>3. CASE r = c.role /\ c.id # {}
    <3>1. There(r)' \subseteq There(r)
      BY <2>1, <2>3, CallEffect DEF There
    <3> QED
      BY <3>1 DEF OnlyOne
  <2>4. CASE r = c.role /\ c.id = {}
    <3>1. r \in run[p].todo /\ run[p].existing[r] = {}
      BY <2>4, CallsKnown
    <3>2. There(r) = {}
      BY <2>1, <3>1 DEF SeenKnows
    <3> QED
      BY <2>1, <2>4, <3>2, CallEffect DEF There
  <2> QED
    BY <2>2, <2>3, <2>4
<1>3. ASSUME NEW l \in late, ArrivesLate(l) PROVE OnlyOne'
  BY <1>3 DEF ArrivesLate, OnlyOne
<1>4. overlapped \in BOOLEAN
  BY DEF GroupTypeOK
<1>5. ASSUME NEW p \in Passes, StartGroups(p) \/ ListGroups(p) \/ FailsPass(p)
                                \/ \E c \in NextCalls(p) : TimesOut(p, c)
      PROVE  OnlyOne'
  BY <1>1, <1>4, <1>5 DEF StartGroups, ListGroups, FailsPass, TimesOut
<1>6. ASSUME UNCHANGED groupVars \/ \E r \in Roles, ms \in Members \cup {NoOne} : BindTo(r, ms)
      PROVE  OnlyOne'
  BY <1>1, <1>4, <1>6 DEF groupVars, BindTo
<1> QED
  BY <1>2, <1>3, <1>5, <1>6 DEF GroupNext

\* The inductive invariant of the groups.
LEMMA GroupInvariant == GroupSpec => []GroupInv
<1>1. GroupInit => GroupInv
  <2> SUFFICES ASSUME GroupInit PROVE GroupInv
    OBVIOUS
  <2>1. GroupTypeOK
    <3>1. Blank \in [step : {"idle", "list", "put"}, wants : Bindings, todo : SUBSET Roles,
                      existing : [Roles -> SUBSET Copies], stale : SUBSET (Roles \X Copies),
                      alone : BOOLEAN]
      BY DEF Blank, Bindings
    <3>2. run \in [Passes -> [step : {"idle", "list", "put"}, wants : Bindings, todo : SUBSET Roles,
                      existing : [Roles -> SUBSET Copies], stale : SUBSET (Roles \X Copies),
                      alone : BOOLEAN]]
      BY <3>1 DEF GroupInit
    <3>4. 0 \in 0..MaxCopies /\ 0 \in 0..MaxLost
      BY GroupAssumption
    <3>3. late = {} /\ lost = 0 /\ overlapped = FALSE
      BY DEF GroupInit
    <3>5. /\ bound \in Bindings /\ copy \in [Roles -> [Copies -> Members \cup {NoOne}]]
          /\ made \in [Roles -> 0..MaxCopies]
      BY <3>4 DEF GroupInit, Bindings
    <3> QED
      BY <3>2, <3>3, <3>4, <3>5 DEF GroupTypeOK
  <2>2. \A p \in Passes : run[p].step = "idle" /\ ~run[p].alone /\ run[p].todo = {} /\ run[p].stale = {}
    BY DEF GroupInit, Blank
  <2>3. \A r \in Roles : There(r) = {}
    BY DEF GroupInit, There
  <2> QED
    BY <2>1, <2>2, <2>3 DEF GroupInv, AloneKnows, UnderWay, TodoKnows, SeenKnows, OnlyOne
<1>2. GroupInv /\ [GroupNext]_groupVars => GroupInv'
  BY GroupTypeStep, AloneStep, TodoStep, SeenStep, OnlyOneStep DEF GroupInv
<1> QED
  BY <1>1, <1>2, PTL DEF GroupSpec

\* Every variable of the groups keeps its type (ScimClient's calls and passes).
THEOREM GroupTypeCorrect == GroupSpec => []GroupTypeOK
<1>1. GroupInv => GroupTypeOK
  BY DEF GroupInv
<1> QED
  BY <1>1, GroupInvariant, PTL

\* For any passes, roles, groups and late calls: a role has one group at most
\* until passes overlap or a call is late, and a pass that runs alone leaves
\* what it read (convergeAppInstance).
THEOREM GroupsAreAsRead == GroupSpec => []GroupsAsRead
<1>1. GroupInv => GroupsAsRead
  <2> SUFFICES ASSUME GroupInv PROVE GroupsAsRead
    OBVIOUS
  <2>1. ASSUME NEW p \in Passes, GroupsDone(p), run[p].alone, NEW r \in Roles
        PROVE  IF r \in Wanted(p) THEN \E n \in There(r) : copy[r][n] = run[p].wants[r]
               ELSE There(r) = {}
    <3>1. run[p].step = "put" /\ run[p].todo = {} /\ run[p].stale = {}
      BY <2>1 DEF GroupsDone
    <3> QED
      BY <2>1, <3>1 DEF GroupInv, SeenKnows
  <2> QED
    BY <2>1 DEF GroupsAsRead, GroupInv, OnlyOne
<1> QED
  BY <1>1, GroupInvariant, PTL
=============================================================================
