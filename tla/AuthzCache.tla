------------------------------ MODULE AuthzCache ------------------------------
(***************************************************************************)
(* The permissions of one member in one tenant, cached in Redis under      *)
(* authz:<tenant>:<user>.  Requests read through the cache; changes of the *)
(* member's roles commit to Postgres, and only some of them delete the     *)
(* entry afterwards.                                                       *)
(*                                                                         *)
(* A version counts the committed changes of the rows getUserAuthz reads:  *)
(* role_bindings, roles and their permissions.  An answer that mixes rows  *)
(* from before and after a commit counts as the older version.             *)
(***************************************************************************)
EXTENDS Naturals

CONSTANTS
  Readers,    \* requests behind withAuthz
  Writers,    \* requests that change the member's role
  TTL,        \* CACHE_TTL of an entry, 120 s
  Gap,        \* longest time from reading the rows to writing the entry
  MaxVersion, \* bound on changes
  MaxTime,    \* bound on the clock
  MaxRedisFaults   \* bound on failed Redis calls

ASSUME CacheAssumption ==
  /\ TTL \in Nat \ {0} /\ Gap \in Nat
  /\ MaxVersion \in Nat /\ MaxTime \in Nat /\ MaxRedisFaults \in Nat

VARIABLES
  now,
  version,    \* changes committed so far
  superseded, \* when each older version was replaced
  cache,      \* the version in the entry
  expires,    \* when the entry is gone
  spoilt,     \* versions written to it after their replacement was reported (history)
  stage,         \* progress of each request in getUserAuthz
  val,        \* the version it decides on
  readAt,     \* when it read the rows
  floor,      \* the changes reported as done when it started (history)
  writer,     \* progress of each role change
  own,        \* the version it committed
  reported,   \* the newest change whose PATCH has answered ok (history)
  redisFaults

rows     == <<version, superseded>>
entry    == <<cache, expires, spoilt>>
requests == <<stage, val, readAt, floor>>
changes  == <<writer, own, reported>>
cacheVars     == <<now, rows, entry, requests, changes, redisFaults>>

Versions == 0..MaxVersion

CacheTypeOK ==
  /\ now \in 0..MaxTime
  /\ version \in Versions
  /\ superseded \in [Versions -> 0..MaxTime]
  /\ cache \in Versions
  /\ expires \in 0..MaxTime + TTL
  /\ spoilt \in SUBSET Versions
  /\ stage \in [Readers -> {"idle", "read", "fill", "decided"}]
  /\ val \in [Readers -> Versions]
  /\ readAt \in [Readers -> 0..MaxTime]
  /\ floor \in [Readers -> Versions]
  /\ writer \in [Writers -> {"idle", "invalidate"}]
  /\ own \in [Writers -> Versions]
  /\ reported \in Versions
  /\ redisFaults \in 0..MaxRedisFaults

CacheInit ==
  /\ now = 0
  /\ version = 0
  /\ superseded = [v \in Versions |-> 0]
  /\ cache = 0
  /\ expires = 0
  /\ spoilt = {}
  /\ stage = [r \in Readers |-> "idle"]
  /\ val = [r \in Readers |-> 0]
  /\ readAt = [r \in Readers |-> 0]
  /\ floor = [r \in Readers |-> 0]
  /\ writer = [w \in Writers |-> "idle"]
  /\ own = [w \in Writers |-> 0]
  /\ reported = 0
  /\ redisFaults = 0

RedisFails == redisFaults < MaxRedisFaults /\ redisFaults' = redisFaults + 1

(* The entry exists and has not expired. *)
Live == now < expires

-----------------------------------------------------------------------------
(* getUserAuthz *)

GoesTo(r, label) == stage' = [stage EXCEPT ![r] = label]

(* A mutant of Lookup: a hit renews the entry. *)
LookupAndRenew(r) ==
  /\ stage[r] = "idle"
  /\ floor' = [floor EXCEPT ![r] = reported]
  /\ \/ /\ Live
        /\ val' = [val EXCEPT ![r] = cache]
        /\ expires' = now + TTL
        /\ GoesTo(r, "decided")
     \/ ~Live /\ GoesTo(r, "read") /\ UNCHANGED <<val, expires>>
  /\ UNCHANGED <<now, rows, cache, spoilt, readAt, changes, redisFaults>>

(* The entry decides if there is one; a failed GET is a miss. *)
Lookup(r) ==
  /\ stage[r] = "idle"
  /\ floor' = [floor EXCEPT ![r] = reported]
  /\ \/ /\ Live
        /\ val' = [val EXCEPT ![r] = cache]
        /\ GoesTo(r, "decided")
        /\ UNCHANGED redisFaults
     \/ ~Live /\ GoesTo(r, "read") /\ UNCHANGED <<val, redisFaults>>
     \/ Live /\ RedisFails /\ GoesTo(r, "read") /\ UNCHANGED val
  /\ UNCHANGED <<now, rows, entry, readAt, changes>>

ReadRows(r) ==
  /\ stage[r] = "read"
  /\ val' = [val EXCEPT ![r] = version]
  /\ readAt' = [readAt EXCEPT ![r] = now]
  /\ GoesTo(r, "fill")
  /\ UNCHANGED <<now, rows, entry, floor, changes, redisFaults>>

(* SETEX overwrites whatever the entry holds; its failure is ignored. *)
Fill(r) ==
  /\ stage[r] = "fill"
  /\ \/ /\ cache' = val[r] /\ expires' = now + TTL
        /\ spoilt' = IF val[r] < reported THEN spoilt \cup {val[r]} ELSE spoilt
        /\ UNCHANGED redisFaults
     \/ RedisFails /\ UNCHANGED entry
  /\ GoesTo(r, "decided")
  /\ UNCHANGED <<now, rows, val, readAt, floor, changes>>

(* The request is over. *)
Respond(r) ==
  /\ stage[r] = "decided"
  /\ GoesTo(r, "idle")
  /\ UNCHANGED <<now, rows, entry, val, readAt, floor, changes, redisFaults>>

-----------------------------------------------------------------------------
(* Writers *)

NewVersion ==
  /\ version < MaxVersion
  /\ version' = version + 1
  /\ superseded' = [superseded EXCEPT ![version] = now]

(* PATCH /api/team/members/<user>/role: the transaction commits. *)
ChangeRole(w) ==
  /\ writer[w] = "idle"
  /\ NewVersion
  /\ writer' = [writer EXCEPT ![w] = "invalidate"]
  /\ own' = [own EXCEPT ![w] = version']
  /\ UNCHANGED <<now, entry, requests, reported, redisFaults>>

(* A mutant of Invalidate: nothing is deleted from the cache. *)
AnswerAtOnce(w) ==
  /\ writer[w] = "invalidate"
  /\ reported' = IF reported < own[w] THEN own[w] ELSE reported
  /\ writer' = [writer EXCEPT ![w] = "idle"]
  /\ UNCHANGED <<now, rows, entry, requests, own, redisFaults>>

(* Then the entry is deleted and the PATCH answers. *)
Invalidate(w) ==
  /\ writer[w] = "invalidate"
  /\ expires' = 0
  /\ reported' = IF reported < own[w] THEN own[w] ELSE reported
  /\ writer' = [writer EXCEPT ![w] = "idle"]
  /\ UNCHANGED <<now, rows, cache, spoilt, requests, own, redisFaults>>

(* Redis refuses the DEL, or the process dies: the change stays committed. *)
InvalidateFails(w) ==
  /\ writer[w] = "invalidate"
  /\ RedisFails
  /\ writer' = [writer EXCEPT ![w] = "idle"]
  /\ UNCHANGED <<now, rows, entry, requests, own, reported>>

(* PATCH and DELETE /api/team/roles/<id> leave the entries of the role's     *)
(* members alone.                                                            *)
EditRole ==
  /\ NewVersion
  /\ UNCHANGED <<now, entry, requests, changes, redisFaults>>

(* A plan-changed job deletes all entries of the tenant. *)
Flush ==
  /\ Live
  /\ expires' = 0
  /\ UNCHANGED <<now, rows, cache, spoilt, requests, changes, redisFaults>>

(* Time passes, but no request takes longer than Gap to write what it read. *)
Tick ==
  /\ now < MaxTime
  /\ \A r \in Readers : stage[r] = "fill" => now < readAt[r] + Gap
  /\ now' = now + 1
  /\ UNCHANGED <<rows, entry, requests, changes, redisFaults>>

-----------------------------------------------------------------------------
GetUserAuthz(r) == Lookup(r) \/ ReadRows(r) \/ Fill(r) \/ Respond(r)

CacheNext ==
  \/ \E r \in Readers : GetUserAuthz(r)
  \/ \E w \in Writers : ChangeRole(w) \/ Invalidate(w) \/ InvalidateFails(w)
  \/ EditRole \/ Flush \/ Tick

CacheSpec == CacheInit /\ [][CacheNext]_cacheVars

-----------------------------------------------------------------------------
(* Properties. *)

(* A request is never decided on roles replaced TTL + Gap or more ago, even  *)
(* when nothing invalidates the entry, when Redis fails, and when an old     *)
(* answer is written over a new one or after an invalidation.                *)
BoundedStaleness ==
  [][\A r \in Readers :
       stage[r] # "decided" /\ stage'[r] = "decided" =>
         val'[r] = version \/ now < superseded[val'[r]] + Gap + TTL]_cacheVars

(* A role change (a downgrade above all) holds for every request that starts *)
(* after the PATCH has answered, unless a request that had read the old      *)
(* roles put them back into the cache (members/[userId]/role/route.ts).      *)
ChangeTakesEffect ==
  \A r \in Readers : stage[r] = "decided" => val[r] >= floor[r] \/ val[r] \in spoilt

=============================================================================
