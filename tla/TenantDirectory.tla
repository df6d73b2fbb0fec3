---------------------------- MODULE TenantDirectory ----------------------------
(***************************************************************************)
(* How a request finds its tenant: by the slug of its host, through a cache *)
(* in Redis whose entries live for a minute.  The settings routes delete    *)
(* the entries of a tenant they have changed; suspending and deleting one,  *)
(* its security settings and its plan leave them to expire.                 *)
(***************************************************************************)
EXTENDS Integers

CONSTANTS
  Tenants, Slugs,
  Lookups,     \* requests that look a tenant up, at most so many at once
  Saves,       \* settings requests at once
  Nothing,     \* no slug, no entry, no tenant
  MaxChanges   \* bound on the changes of the tenants

VARIABLES
  place,    \* the slug, status and version of each tenant's row
  entry,    \* what the cache has for each slug
  lookup,   \* where each lookup is, and the context it has read
  save,     \* where each settings request is
  changes,
  late,     \* lookups whose context has changed since they read it (history)
  left      \* slugs whose entry was left to expire (history)

dirVars == <<place, entry, lookup, save, changes, late, left>>

\* A context names the tenant; its plan, name and branding are a version.
Context == [tenant : Tenants, status : {"ACTIVE", "SUSPENDED"}, version : 0..MaxChanges]
NoLookup == [step |-> "none", slug |-> Nothing, context |-> Nothing]
NoSave   == [step |-> "none", tenant |-> Nothing, slug |-> Nothing, old |-> Nothing]

ASSUME DirAssumption ==
  Nothing \notin Slugs \cup Tenants \cup Context /\ MaxChanges \in Nat

Place == [slug : Slugs \cup {Nothing}, status : {"ACTIVE", "SUSPENDED", "DELETED"}, version : 0..MaxChanges]
LookupState == [step : {"none", "read", "fill"}, slug : Slugs \cup {Nothing}, context : Context \cup {Nothing}]
SaveState == [step : {"none", "write", "old", "new"}, tenant : Tenants \cup {Nothing},
              slug : Slugs \cup {Nothing}, old : Slugs \cup {Nothing}]

DirTypeOK ==
  /\ place \in [Tenants -> Place]
  /\ entry \in [Slugs -> Context \cup {Nothing}]
  /\ lookup \in [Lookups -> LookupState]
  /\ save \in [Saves -> SaveState]
  /\ changes \in 0..MaxChanges
  /\ late \in SUBSET Lookups /\ left \in SUBSET Slugs

DirInit ==
  /\ place = [t \in Tenants |-> [slug |-> Nothing, status |-> "ACTIVE", version |-> 0]]
  /\ entry = [s \in Slugs |-> Nothing]
  /\ lookup = [r \in Lookups |-> NoLookup] /\ save = [w \in Saves |-> NoSave]
  /\ changes = 0 /\ late = {} /\ left = {}

-------------------------------------------------------------------------------
\* The rows a lookup of the slug finds: slugs are unique.
Holders(s) == {t \in Tenants : place[t].slug = s}
Living(s) == {t \in Holders(s) : place[t].status # "DELETED"}
ContextOf(t) == [tenant |-> t, status |-> place[t].status, version |-> place[t].version]

\* A row changes: lookups that have read it, or its slug's, are late.
Changes(t, row) ==
  /\ changes < MaxChanges /\ changes' = changes + 1
  /\ place' = [place EXCEPT ![t] = row]
  /\ late' = late \cup {r \in Lookups :
       lookup[r].step = "fill" /\ lookup[r].context.tenant = t}

Drops(s) == entry' = [entry EXCEPT ![s] = Nothing] /\ left' = left \ {s}

-------------------------------------------------------------------------------
(* resolveTenant *)

\* The cache has no entry, or Redis does not answer.  (An entry answers the
\* request, and nothing changes.)
MissCache(r, s) ==
  /\ lookup[r].step = "none"
  /\ lookup' = [lookup EXCEPT ![r] = [NoLookup EXCEPT !.step = "read", !.slug = s]]
  /\ UNCHANGED <<place, entry, save, changes, late, left>>

\* No row, or a deleted one: nothing is cached.
ReadPlace(r) ==
  /\ lookup[r].step = "read"
  /\ lookup' = [lookup EXCEPT ![r] =
       IF Living(lookup[r].slug) = {} THEN NoLookup
       ELSE [@ EXCEPT !.step = "fill",
                      !.context = ContextOf(CHOOSE t \in Living(lookup[r].slug) : TRUE)]]
  /\ late' = late \ {r}
  /\ UNCHANGED <<place, entry, save, changes, left>>

Fill(r) ==
  LET s == lookup[r].slug IN
  /\ lookup[r].step = "fill"
  /\ entry' = [entry EXCEPT ![s] = lookup[r].context]
  /\ left' = IF r \in late THEN left \cup {s} ELSE left \ {s}
  /\ late' = late \ {r}
  /\ lookup' = [lookup EXCEPT ![r] = NoLookup]
  /\ UNCHANGED <<place, save, changes>>

\* Redis is unreachable: the context is used and not cached.
FillFails(r) ==
  /\ lookup[r].step = "fill"
  /\ late' = late \ {r}
  /\ lookup' = [lookup EXCEPT ![r] = NoLookup]
  /\ UNCHANGED <<place, entry, save, changes, left>>

\* Mutant of EntryExpires: entries are set without a time to live.
EntryNeverExpires(s) == FALSE /\ Drops(s) /\ UNCHANGED <<place, lookup, save, changes, late>>

EntryExpires(s) ==
  /\ entry[s] # Nothing
  /\ Drops(s)
  /\ UNCHANGED <<place, lookup, save, changes, late>>

-------------------------------------------------------------------------------
(* Changes of the rows *)

\* POST /api/signup, POST /api/tenants
SignUp(t, s) ==
  /\ place[t].slug = Nothing /\ Holders(s) = {}
  /\ Changes(t, [place[t] EXCEPT !.slug = s])
  /\ UNCHANGED <<entry, lookup, save, left>>

\* Suspending, reinstating or deleting a tenant does not touch the cache.  The
\* first two also bring a deleted tenant back.
SetStatus(t, status) ==
  /\ place[t].slug # Nothing /\ place[t].status # status
  /\ Changes(t, [place[t] EXCEPT !.status = status])
  /\ left' = left \cup ({place[t].slug} \cap {s \in Slugs : entry[s] # Nothing})
  /\ UNCHANGED <<entry, lookup, save>>

\* Nor do the security settings, and a new plan deletes a key there never is.
ChangeUnseen(t) ==
  /\ place[t].slug # Nothing
  /\ Changes(t, [place[t] EXCEPT !.version = @ + 1])
  /\ left' = left \cup ({place[t].slug} \cap {s \in Slugs : entry[s] # Nothing})
  /\ UNCHANGED <<entry, lookup, save>>

\* PATCH /api/settings/general reads the slug there is before it writes the
\* row; PATCH /api/settings/branding keeps the slug.
ReadSlug(w, t, s) ==
  /\ save[w].step = "none" /\ place[t].slug # Nothing /\ place[t].status = "ACTIVE"
  /\ Holders(s) \subseteq {t}
  /\ save' = [save EXCEPT ![w] = [step |-> "write", tenant |-> t, slug |-> s, old |-> place[t].slug]]
  /\ UNCHANGED <<place, entry, lookup, changes, late, left>>

\* Another rename between the two leaves the entry of the slug it gave.
WriteRow(w) ==
  LET t == save[w].tenant IN
  /\ save[w].step = "write" /\ Holders(save[w].slug) \subseteq {t}
  /\ Changes(t, [place[t] EXCEPT !.slug = save[w].slug, !.version = @ + 1])
  /\ save' = [save EXCEPT ![w].step = "old"]
  /\ left' = left \cup (({place[t].slug} \ {save[w].old, save[w].slug})
                          \cap {s \in Slugs : entry[s] # Nothing})
  /\ UNCHANGED <<entry, lookup>>

\* The slug was taken meanwhile, or the database fails.
RowWriteFails(w) ==
  /\ save[w].step = "write"
  /\ save' = [save EXCEPT ![w] = NoSave]
  /\ UNCHANGED <<place, entry, lookup, changes, late, left>>

\* Mutant of DropOld: only the entry of the new slug is deleted.
DropNewOnly(w) ==
  /\ save[w].step = "old"
  /\ save' = [save EXCEPT ![w].step = "new"]
  /\ UNCHANGED <<place, entry, lookup, changes, late, left>>

DropOld(w) ==
  /\ save[w].step = "old"
  /\ Drops(save[w].old)
  /\ save' = [save EXCEPT ![w] =
       IF save[w].slug = save[w].old THEN NoSave ELSE [@ EXCEPT !.step = "new"]]
  /\ UNCHANGED <<place, lookup, changes, late>>

DropNew(w) ==
  /\ save[w].step = "new"
  /\ Drops(save[w].slug)
  /\ save' = [save EXCEPT ![w] = NoSave]
  /\ UNCHANGED <<place, lookup, changes, late>>

\* Redis is unreachable: the request fails, with the row written.
DropFails(w) ==
  /\ save[w].step \in {"old", "new"}
  /\ left' = left \cup ({save[w].old, save[w].slug} \cap {s \in Slugs : entry[s] # Nothing})
  /\ save' = [save EXCEPT ![w] = NoSave]
  /\ UNCHANGED <<place, entry, lookup, changes, late>>

-------------------------------------------------------------------------------
LookupSteps(r) == ReadPlace(r) \/ Fill(r) \/ FillFails(r)
SaveSteps(w) == WriteRow(w) \/ RowWriteFails(w) \/ DropOld(w) \/ DropNew(w) \/ DropFails(w)

DirNext ==
  \/ \E r \in Lookups : LookupSteps(r) \/ \E s \in Slugs : MissCache(r, s)
  \/ \E s \in Slugs : EntryExpires(s)
  \/ \E t \in Tenants :
       \/ \E s \in Slugs : SignUp(t, s)
       \/ \E status \in {"ACTIVE", "SUSPENDED", "DELETED"} : SetStatus(t, status)
       \/ ChangeUnseen(t)
       \/ \E w \in Saves, s \in Slugs : ReadSlug(w, t, s)
  \/ \E w \in Saves : SaveSteps(w)

\* A request goes on, and Redis lets an entry live for a minute.
DirFairness ==
  /\ \A r \in Lookups : WF_dirVars(LookupSteps(r))
  /\ \A w \in Saves : WF_dirVars(SaveSteps(w))
  /\ \A s \in Slugs : WF_dirVars(EntryExpires(s))

DirSpec == DirInit /\ [][DirNext]_dirVars /\ DirFairness

-------------------------------------------------------------------------------
(* Properties *)

\* What the cache has for a slug is what the row says, once the settings
\* request that changed it has deleted the entry; unless the change was one
\* that leaves the entry to expire, or a lookup that had read the row before
\* the change filled the entry after (resolver.ts).
EntryIsCurrent ==
  \A s \in Slugs \ left :
    \/ entry[s] = Nothing
    \/ \E t \in Living(s) : entry[s] = ContextOf(t)
    \/ \E w \in Saves : save[w].step \in {"old", "new"} /\ s \in {save[w].old, save[w].slug}

\* A tenant that stays suspended is shut out of every route before long: no
\* entry keeps calling it active (resolver.ts, server-tenant.ts).
SuspendedIsShutOut ==
  \A t \in Tenants :
    <>[](place[t].status = "SUSPENDED") =>
      <>[](\A s \in Slugs : entry[s] # Nothing /\ entry[s].tenant = t
                              => entry[s].status = "SUSPENDED")
===============================================================================
