# A TLA+ model of the SaaS control plane

The repository is a multi-tenant SaaS control plane: a Next.js console and its API
routes, BullMQ worker processes, and packages they share, over Postgres (Prisma),
Redis, Keycloak, Kubernetes, Stripe, and the SCIM servers of the connected apps. The
program's own logic is in the API routes, the middleware, the workers and a handful of
packages; the hard part of it is that browsers, requests and jobs share rows, cache
entries, cookies and queues without ever holding a transaction across an `await` on
another system.

This directory models that part. Paths below are relative to the repository's root.

- [Inventory](#inventory)
- [Modules](#modules)
- [What the runs show](#what-the-runs-show)
- [What is proved](#what-is-proved)
- [Disagreements between the code and what it says](#disagreements-between-the-code-and-what-it-says)
- [Not modelled](#not-modelled)
- [Plan](#plan)

Everything runs from this directory: `tlc -workers 2 -config X.cfg MCModule` checks a
run, `tlapm M_proofs.tla` checks the proofs of a module.

## Inventory

### Processes and what they share

| Process | Runs | Shares |
| --- | --- | --- |
| Browser tabs | one page each | the session, the `tenant_slug` cookie |
| Console and API routes (`apps/web`) | requests, any number at a time | Postgres rows, Redis entries, Keycloak, the job queues |
| Workers (`apps/workers`, several processes) | BullMQ jobs, per queue and process 1, 2 or 5 at a time | the same, and the apps, the cluster and Stripe's events |
| BullMQ (external, in Redis) | attempts, backoff, replay of stalled jobs, the repeatable tick | the queues |

A request or a job is a sequence of `await`s. Between any two of them every other
process may take steps, the call may fail, or the process may die. The models take one
action per `await`, or per Prisma `$transaction`, and let everything else happen in
between. Where two awaits only read, or write the same row twice with nothing visible in
between, they are one action, and the comment on the action says so. Navigation is
coarser: one action is one HTTP request with everything that answers it.

### Components

| Component, and its code | State | What is hard | Correct when |
| --- | --- | --- | --- |
| **Identity-sync outbox**: `packages/db/src/outbox.ts`, `lib/role-sync.ts`, `handlers/app-sync.ts`, `app-sync-reconcile.ts` | rows of `sync_outbox_events`, `app-sync` jobs, `lastSyncedAt` per instance | changes commit between claim and reads; crashes between claim and settle; two drains of one tenant | a settled marker is true of every app served and stays settled; every app that stays ACTIVE converges, lost markers or not |
| **App convergence**: `handlers/app-sync-targets.ts`, `packages/scim`, `packages/riogentix` | accounts, groups and assignments at the app | partial passes, changes under a pass, accounts the app makes itself, overlapping passes, calls that arrive late | a pass that ends leaves the app whole; a role has one group unless passes overlapped |
| **Tenant provisioning**: `handlers/tenant-provision.ts`, `provisioning/*`, `packages/db/src/lock.ts`, the admin routes | status rows, environments, the role's password, the namespace's Secret, the lock | the TTL equals the longest wait under the lock; the lock fails open; replayed jobs; teardown beside provisioning | leases never overlap; role and Secret agree; the lock is freed; every job ends |
| **Stripe billing events**: `api/billing/webhook`, `packages/billing/src/webhooks.ts` | subscription row, audit rows, idempotency keys, jobs | at-least-once delivery in any order; the key is written after the effects | a key means full effect; a redelivery changes nothing; every update is recorded in the end |
| **Plan propagation**: `handlers/plan-changed.ts`, `update-plan`, `usage-rollup.ts` | `tenants.plan`, the row's plan, the instance's plan and usage lock | four writers, three copies, five jobs at once, calls that arrive late | at rest the copies agree; locked only over the limit |
| **Checkout and portal**: `api/billing/checkout`, `portal` | Stripe customers, the customer on the row | check-then-create; the row may be missing | the portal opens the payer's bills |
| **Authorization cache**: `packages/authz/src/engine.ts`, the role routes | entry, its expiry, the rows behind it | a slow fill races an invalidation | bounded staleness; an answered change takes effect |
| **Tenant resolver cache**: `packages/tenant/src/resolver.ts` and every writer of a tenant's row | entry per slug | renames, status changes that delete nothing, slow fills | an entry is current or left to expire; a suspended tenant is shut out |
| **Rate limiter**: `packages/db/src/ratelimit.ts` | a sorted set per caller | both edges of the window, late requests, lost answers | never more than the limit; a refused caller has room when told |
| **Team membership**: `api/team/*`, `lib/accept-invite.ts`, `api/scim`, sign-in | memberships, bindings, custom roles, permissions | check-then-act everywhere; SCIM and sign-ins beside the console | seats bounded; one base role; one role per name |
| **Signup and accounts**: `api/signup`, its page, `api/admin/users`, `api/admin/roles`, sign-in events | Keycloak users and group, rows, tenants, sessions | a saga with compensation over two systems | a welcomed visitor has all of it; a refused one nothing; one super admin remains |
| **Keycloak client**: `keycloak-sync.ts`, `keycloak-admin.ts` | redirect URIs and attributes of the one client | read-modify-write by provision runs and the console; a cleared path is not sent | registered hosts and the saved path stay |
| **Tenant settings**: `api/settings/*` and their forms | one JSON column, the branding at the apps | merge of sections, commit without push | what a form says is saved is there; branding reaches the apps |
| **Resource limits**: `update-resource-limits`, `plan-limits-panel.tsx`, `convergeResourceLimits` | one JSON column, the panel's inputs, the overrides at the instance | a save that fails half way, drains that read early and push late, fields that a push leaves out | a limit that is set is the instance's or on its way |
| **Connected apps**: `api/admin/connected-apps`, the hub, their forms | the app's row, the tenant's instance of it, the inputs of the forms | inputs outlive a refresh of their page; forms beside provisioning; count-then-delete | a save changes what its admin changed; a delete spares live instances |
| **Tenant wizard**: `onboarding-wizard.tsx`, `POST api/tenants` | the wizard's step and tenant | going back while calls are under way | no tenant is left half made |
| **Outbound webhooks**: `api/webhooks/*`, `webhooks-client.tsx`, `webhook-outbound.ts` | endpoints, pages, deliveries | lists that come late, time-outs, answers that are not recorded, dead workers | a page shows the row; a delivery's row tells what became of it |
| **Forms of the console**: nineteen forms in `settings/_components`, `components/admin`, `team/roles`, `profile`, `hub`, `admin/billing` | the inputs and messages of a page, the row behind it | inputs outlive a refresh, and stand for unset fields; a call that is half done, refused, or never answered; buttons that do not wait | what a page says of a save is so; a page at rest shows the row; a save changes what was edited |
| **App roles of a member**: `app-role-assignments.tsx`, `roles/[id]/members/[userId]` | bindings, the select of each page | a change is two calls on a set of rows; calls of other pages, late calls, failures after the commit | a select shows the role that the member holds, and the only one |
| **Navigation**: `middleware.ts`, sign-in, `auth/redirect`, the layouts, the invite page, sign-out | session, cookie, pages of the tabs, memberships, standing | three kinds of host rewrite one tree; relative redirects; one cookie for all tabs | redirects end; a page acts on the tenant it shows; an invitation is reached |

Not modelled: Kubernetes manifests, DNS and Traefik, vault, API keys, compliance, notes,
notifications, pages that only render; see [Not modelled](#not-modelled).

### How they interact

- Console to worker, always through a queue: `app-sync`, `tenant-provision`,
  `tenant-deprovision`, `webhook-inbound`, `plan-changed`. The row is committed before the
  job is added, so a crash in between leaves a row without a job.
- Worker to worker: a provision run enqueues the first `app-sync`; a billing event
  enqueues `plan-changed`, which flushes the authorization cache of the tenant.
- Through rows: deprovisioning pauses the instances that the drain reads; a provision run
  registers the instance that the reconcile tick looks for and pushes `tenants.plan` to
  it; invites, SCIM and sign-ins write the bindings that the cache and the apps reflect.
- Through Redis: the provision lock, the two caches, the limiter.
- Through Keycloak: accounts, the group of the super admins, the one client.
- Through the browser: the session of all hosts and the cookie of the root host.

Each of these links carries one fact (a job exists, an instance is ACTIVE, the entries are
gone), and the module at its end has that fact as an action of its environment:
`SetInstanceStatus` in OutboxSync stands for deprovisioning and for the admin's pause,
`Flush` in AuthzCache for the plan-changed job, `InviteRow` in Accounts for the team's
invitations, `SetLimit` in TeamMembership for a change of the plan, `PushBranding` in
TenantSettings for a drain of the outbox. Where a link is itself hard, the two ends are in
one module: PlanSync holds Stripe's handler, the override, provisioning, the jobs and the
rollup together, and Accounts the page, the route, Keycloak and the sign-in.

## Modules

| Module | Models | Proofs |
| --- | --- | --- |
| `IdentityDelivery` | abstract: changes are committed, delivered, acknowledged | |
| `OutboxSync` | outbox, drain, convergence as versions, reconcile tick | `OutboxSync_proofs` |
| `Convergence` | one pass over one app, call by call | `Site_proofs` |
| `GroupSync` | the groups at one app under overlapping passes | `OutboxSync_proofs` |
| `Lease` | abstract: a lock with a TTL | |
| `TenantProvision` | provision and deprovision, lock, console requests | `Tenants_proofs` |
| `StripeEvents` | billing events, keys, plan-changed jobs | `StripeEvents_proofs` |
| `PlanSync` | a plan and its usage lock in three places | `Plans_proofs` |
| `Checkout` | the Stripe customer from checkout to portal | `Onboarding_proofs` |
| `AuthzCache` | the authorization cache and its writers | `Plans_proofs` |
| `TenantDirectory` | the tenant resolver's cache and its writers | `Tenants_proofs` |
| `RateLimit` | the sliding window | `Administration_proofs` |
| `TeamMembership` | seats, invitations, roles, permissions | `Workspace_proofs` |
| `Accounts` | signup, platform users, sign-ins, super admins | `Onboarding_proofs` |
| `KeycloakClient` | the one client that all tenants share | `Onboarding_proofs` |
| `TenantSettings` | settings forms, routes, and the branding push | `Administration_proofs` |
| `ResourceLimits` | a tenant's limits from the panel to the instance | `Administration_proofs` |
| `AppRegistry` | an app, a tenant's instance of it, and their forms | `Administration_proofs` |
| `ConsoleForms` | any form that edits a row, on several pages | `Administration_proofs` |
| `AppRoleSelect` | the select of a member's role in an app, on several pages | `Administration_proofs` |
| `TenantWizard` | the wizard that sets up a tenant | `Onboarding_proofs` |
| `Webhooks` | endpoints, pages and deliveries | `Workspace_proofs` |
| `Navigation` | hosts, paths, session, cookie, every redirect | `Site_proofs` |

Components that concern the same part of the product have their proofs in one module; no
proof of one component uses the state of another.

`MC*` modules extend these for TLC and add the symmetry sets. `MCIdentitySync`,
`MCStripeEvents`, `MCPlanSync`, `MCTenantSite`, `MCWorkspace`, `MCConsole` and `MCLive`
put several components into one run: they share no state, a variable `part` names the
one a behaviour is of, and the others stay in one initial state. Every run of a suite is
therefore a full exploration of each of its components, one after the other, and not of
their product. A definition whose comment calls it a mutant is not part of a
specification: it is a plausible bug, kept beside the definition it replaces to show
which property notices it.

*History* variables record what happened and guard nothing. Most of the properties need
them to name their exceptions: where two requests really can disturb each other, the
property says exactly which overlap excuses what, and holds of everything else. An
exception is not a way out of checking: the mutants show that each property still notices
a bug outside it.

The modules with queues model BullMQ the same way, as the code uses it: a job is
waiting, active or delayed; a failed attempt is delayed until the attempts are used up; a
job whose worker died is found stalled, replayed once, and failed if it stalls again
(`maxStalledCount` is 1 by default). Nothing else of a job is kept, and a job that is done
frees its place.

### OutboxSync

One tenant. The identity data is a version number: `version` counts committed changes,
`app[a][p]` is the oldest version any resource in part `p` (users or groups) of app `a`
reflects, and `wrote[e]` the version committed with row `e`. `acked` is history: the
newest change that was reported DONE for an app.

| Code | Model |
| --- | --- |
| identity route: `$transaction` with `appendSyncOutbox` | `Mutate` |
| routes that change identity without a marker (`api/admin/users`) | `MutateUnmarked` |
| `enqueueRoleSync`: second marker, then the job, errors swallowed | `Mark`, `Enqueue`, `Abandon` |
| `handleAppSyncReconcile` | `ReconcileTick`, then `Mark`, `Enqueue` |
| `handleAppSync`: select, claim, read the instances | `Find`, `Claim`, `ReadInstances` |
| `convergeAppInstance`: the two queries, users, groups | `StartConverge`, `ReadPart`, `WriteUsers`, `WriteGroups` |
| settle; the catch block; errors outside it | `Settle`; `ConvergeFails`, `MarkFailed`; `QueryFails` |
| process death at any point | `Crash`, then `Stalled` |

Every action that talks to an app may be cut short: `Interrupted` leaves the part as it
was, partly overwritten or fully overwritten. `Desired` carries the rule that a binding of
a user who is not among the memberships is skipped, so a run's groups are as old as the
older of its two queries.

The table has finitely many rows. A row that no run can select any more (DONE, or
stranded in PROCESSING) is reused; when there is none, a new marker joins a row that no
run holds, which any later `Find` selects either way.

### Convergence

One pass of `convergeAppInstance`, which OutboxSync has as a version written per part. The
team is a place (in the team, suspended, deleted) and role bindings per person; the app is
accounts, groups and, on Riogentix, assignments of its own catalog. `StartPass` and
`Reads` are the two queries, which do not share a transaction; `FindUser` and `WriteUser`
the lookup and the call for each user; `ListGroups`, `PutGroup` and `DeleteGroup` the
groups; `ListCatalog` and `Assign` `convergeRiogentixRoleAssignments`, with `Tier` and `Due`
as the mapping of platform roles to tiers. The catalog of the app is any set of roles: it
may lack the tier a member should have, and it is empty when the tenant has no instance to
ask (`saasTarget` is null); what it does not offer is skipped, and the pass ends well. `PassFails` ends a pass anywhere, `AppCreates` is a person who
signs in to the app first (the client then takes the account that the app says exists),
and `Moves` and `Binds` change the team under the pass.

### GroupSync

The calls for groups of several passes over one app. A role is bound to one of a few sets
of people; the app keeps groups under ids of its own (`copy`), and a pass knows them by
their `externalId`, of which it keeps one per role.

| Code | Model |
| --- | --- |
| `convergeAppInstance`: the queries, the list of groups | `StartGroups`, `ListGroups` with `OneOfEach` |
| `replaceGroup`, `createGroup`, then `deleteGroup` for stale groups | `CallsApp` |
| a call that fails, or gets no answer in 15 seconds | `FailsPass`; `TimesOut`, then `ArrivesLate` |
| changes of the bindings | `BindTo` |

`overlapped` is history: it becomes true when a pass starts beside another one, or a call
arrives after its pass. `alone` says that a pass has run by itself so far.

### TenantProvision

One tenant and the Kubernetes driver. The stack is its credentials: `role` is the password
of the database role, `secret` the one in the namespace's Secret, `None` without a
namespace. Each point of `runProvision` between two awaits is a label of `pc`; the
external calls that change nothing the properties see (DNS, Traefik, Keycloak, bootstrap)
are inside the step they belong to, and `AttemptFails` covers their failure.

| Code | Model |
| --- | --- |
| `POST api/tenants` and its failed enqueue | `CreateTenant` |
| `POST .../provision`: status, environments, job | `RequestProvision`, `RequestEnvironments`, `EnqueueProvision` |
| `PATCH` delete and reinstate | `DeleteTenant`, `EnqueueDeprovision`, `Reinstate` |
| `withLock` | `Acquire`, `Skip`, `FailOpen`, `Release`, `Expire` |
| `runProvision` | `BeginProvision` .. `FirstSync`, `AttemptFails`, `RecordFailure`, `FailEnvironments`, `WriteFails` |
| `handleTenantDeprovision` | `DeleteNamespace` .. `PauseInstances`, `DeprovisionFails` |

Time is abstracted at the lock. `PROVISION_LOCK_TTL_MS` and the readiness timeout are both
ten minutes, and the steps before the wait are API calls of seconds, so the lease may run
out only while the run waits for its pods or later (`Expire`). This is the one timing
assumption of the module; the credentials property rests on it. Deprovision jobs are
retried as long as they fail (the model has fewer faults than attempts), and only one
teardown is in flight at a time: deleting a deleted tenant is refused, and a second delete
after a reinstatement waits for the first teardown (a bound of the model).

`Lease` is what `withLock` is for: a set `held` of at most one holder, `Grant` when nobody
holds it, `End` when the holder releases it or its time is over. TenantProvision implements
it with `held <- leased`, the runs whose own lease has not run out: `Acquire` is a grant,
and `Release`, `Expire` and `Crash` are ends (the token of a dead run stays in Redis, and
nobody can be granted the lock until it expires). `FailOpen` grants
nothing, which is why LeaseSpec holds in spite of outages and CredentialsAgree does not.

### StripeEvents

One tenant. An event stands for its content; `subscription` is the update the row was last
written from, and `status` says whether a deletion canceled it. `sent` is what Stripe has
delivered, at least once, in any order. `planned` is history. Events without a tenant or
plan in their metadata return early and are left out, and so are subscription rows written
by the admin's override, which PlanSync has. An update whose plan is not in the table
(`FindNoPlan`) returns early too and gets its key: a redelivery after the plan was added
does nothing, and `planless` excepts it.

`Deliver` is the route, `Take` to `RecordKey` are `processStripeEvent` and
`handleStripeEvent` in their order, `CallFails` and `Crash` (the process dies) hit any of
the steps, and
`SyncPlan` is a plan-changed job. `RecordKey` fails for an invoice: its `tenantId` is
`''`, and `idempotency_keys.tenant_id` is a uuid with a foreign key.

### PlanSync

One tenant. A plan is held as the change that wrote it and `Carries` is its code, so that
two changes to one code can be told apart. `rev` numbers the writes of the row and
`instance.write` is the number the instance has.

| Code | Model |
| --- | --- |
| `handleStripeEvent`, its retries and the end of them | `ReadRow`, `UpsertRow`, `CancelRow`, `Enqueue`, `RecordKey`, `EventFails`, `Abandon` |
| `update-plan` of `api/admin/tenants/[id]` | `ReadTenant`, `WriteTenant`, `OverrideRow`, `Enqueue`, `RequestDies` |
| `handlePlanChanged` and the jobs console | `SyncPlan`, `LiftLock`, `AttemptFails`, `RetryJob`, `DiscardJob` |
| a provision run, for what it does to the plan | `ReadSetup`, `Provision` |
| `handleUsageRollup` | `Use`, `Count`, `Judge`, `SetLock`, `RollupFails` |
| a call that timed out here and arrives there | `ArriveLate`, `Vanish` |

`CancelRow` of a row that is missing throws, and the event is tried again. `ReadRow` is
where the job's `oldPlan` comes from: the handler hands over the row's
`planId`, a uuid, and the job compares it with a plan code, so they always differ and the
lock is lifted whenever there was a row. `mishaps` is history: what the two properties
except (a push overtaken by an older one, a provision run that resets the plan, a job or
handler given up, a lock put after an upgrade, an override that finds `tenants.plan`
already there).

### Checkout

`StartCheckout` reads the row, and the calls after it make a customer, keep it on the row
if there was one, and open the payment. `HandleSubscription` is an event of a subscription
that was paid, created or updated, which makes the row if there is none and otherwise
leaves its customer alone; events of all paid customers (`paid`) come in any order, as
often as Stripe likes. `GrantPlan` is an admin who makes the row meanwhile. A customer is
named after the checkout that made it. `told` are the tenants of which an event of the
customer that paid last was handled, and `unkept` records those for whom a customer was
made that no row could keep.

### AuthzCache

One member of one tenant. A version counts committed changes of the rows `getUserAuthz`
reads; an answer that mixes rows from before and after a commit counts as the older one.
`Lookup`, `ReadRows`, `Fill` and `Respond` are a request; `ChangeRole` and `Invalidate` the
PATCH of the member's role; `EditRole` the routes that change a role itself and leave its
members' entries alone; `Flush` the plan-changed job. `Tick` is the clock; `TTL` is
`CACHE_TTL`, and `Gap` bounds the time from reading the rows to the SETEX. The code has no
such bound of its own: it is the database and Redis client timeouts, and it is a parameter
so that the theorem says how the staleness depends on it.

### TenantDirectory

`MissCache`, `ReadPlace`, `Fill` are `resolveTenant`; a hit changes nothing. `ReadSlug`,
`WriteRow`, `DropOld`, `DropNew` are the settings routes, which read the slug, write the
row and delete the entries of the old and the new slug; `SetStatus` and `ChangeUnseen` are
the writers that delete nothing (suspension, deletion, either of them undone, security
settings, a plan, for which plan-changed deletes a key that is never set); `EntryExpires` is the minute's TTL.
Slugs are unique rows, so a slug given up can be taken by another tenant. `left` records
the slugs whose entry was left to expire.

### RateLimit

The key of one caller. The Lua script is one step (`Admit` or `Refuse`), as Redis runs it;
`AskLimiter` is the request reading its clock, at most `Delay` before. `Held` is the
expiry of the whole set, `Replied` a connection that breaks and a client that sends the
script again, `LetThrough` the fail-open path.

### TeamMembership

One tenant. The limit on seats is one of `Limits`; a plan without one is a limit of as
many seats as there are users, which no count reaches. `request` holds, per request, what
it has read. Each route is the read before
its transaction and the transaction; a transaction has a step of its own before its commit
for a statement whose reading decides the outcome (the count of the seats, the deletion of
the old rows), because the transactions run at READ COMMITTED.

| Code | Model |
| --- | --- |
| `api/team/invite` | `Invite`, `CountSeats`, `RejectSeat`, `AddMember` |
| `lib/accept-invite.ts` | `Accept`, `Activate` |
| `members/[userId]/role`, app roles | `ChangeRole`, `DropBindings`, `BindRole`; `Assign`, `Unassign`, `SetAppRole` |
| `api/team/roles`, `roles/[id]` | `CreateRole`, `InsertRole`; `EditRole`, `DropPermissions`, `WritePermissions`; `DeleteRole`, `RemoveRole` |
| SCIM `Users`, `Groups` | the `Scim*` actions |
| sign-in with the tenant's group | the actions of `SignIns` |

### Accounts

Keycloak accounts have an id per creation and one per email; `row`, `tenant` and
`recorded` are Postgres. `page` is the signup page with the request it waits for, so a
retry after a network error, and an answer that nobody reads, are visitors' steps.

| Code | Model |
| --- | --- |
| the signup page | `ChooseCompany`, `Submit`, `GoBack`, `NetworkError` |
| `POST api/signup` | `CreateAccount`, `StoreTenant`, `StoreFails`, `Enqueue`, `EnqueueFails`, `RecordFailure`, `RecordFails`, `Undo`, `UndoFails` |
| `POST api/admin/users` | `AddUser`, `LookUp`, `CreatePending`, `InsertRow`, `InsertFails`, `Undo` |
| the sign-in event | `SignIn`, `ClaimRow`, `SessionEnds` |
| `api/admin/roles/[role]/members` | `Grant`, `AddToGroup`, `Revoke`, `RemoveFromGroup` |
| a failed or lost call, a killed process | `Fails`, `AnswerLost`, `Crash` |

### KeycloakClient

A writer (a provision run with its host, or an administrator with a branding path) reads
the whole client, changes its part of the copy and puts the copy back. `overtaken` records
the writers whose copy is older than the client, and `lost` and `crossed` what they put
back. `SavePath` is a save with a path. `ClearPath` is one with a blank path: the form
leaves it out, the route commits the configuration without it, answers as for any save and
sends nothing, so that the client keeps the path `sent` last.

### TenantSettings

A form is a section on an open page and sends one value. The column is the function
`doc`; `ReadDocument` and `WriteDocument` are the route's two statements, `BustCache`,
`QueueSync` and `LogAndAnswer` what follows, `SaveFails` and `PageGivesUp` the failures.
`PushBranding` is a drain that pushes, `SkipBranding` one that finds no instance of the
tenant and counts as done.
`Sections` has one section of each kind: branding is pushed, sign-on does not delete the
cached context, and the notification preferences are sent by the form and read by no
route.

### ResourceLimits

`limits` is the JSON column of the tenant's row: a field is a number, `Unlimited` (null),
or `Inherited` (left out). `input` is what the panel's inputs hold, which are filled when
the panel is mounted and show an unlimited field as empty. `due` says that a marker of the
tenant is in the outbox; how a marker gets to a drain is in OutboxSync.

| Code | Model |
| --- | --- |
| the panel, and any other caller of the route | `OpenPanel`, `TypeLimit`, `SaveLimits`; `SendLimits` |
| `update-resource-limits`: the row, the audit log, `enqueueRoleSync` | `WriteLimits`, `LogLimits`, `QueueLimits`, `LimitSaveFails` |
| a drain: its claim, the query of the row, `convergeResourceLimits`; no instance to push to | `ClaimMarkers`, `ReadLimits`, `PushLimits`, `PushFails`; `SkipLimits` |

`PushLimits` is the conversion of the column to the request: `JSON.stringify` drops what is
left out, so the instance keeps its value. `outread` and `behind` are history: a drain
whose reading is older than a push, and the fields that such a drain, one without an
instance, or a save that failed after its write, left at the instance as they were.

### AppRegistry

One app and one tenant. `scimForm` is what a form keeps in the state of its component: the
row it is of, its props and its inputs, which a refresh of the page does not renew.
`asTaken` is history: the columns that neither the form's admin nor anyone else has
changed since the form took them over.

| Code | Model |
| --- | --- |
| the instances' table of the platform, the panel of the hub | `OpenForm`, `LeaveForm`, `RefreshForm`, `ChangeInput`, `Cancel`, `SaveForm` |
| PATCH of an instance, by id or by tenant | `FindInstance`, `Patch`, `LoadRefused`, `WriteRefused` |
| connect, disconnect | `Connect`, `Disconnect` |
| DELETE of an app | `DeleteApp`, `CountInstances`, `DeleteRow` |
| provisioning and deprovisioning, for what they do to the rows | `Register`, `Pause` |

### ConsoleForms

One row and one form of it, open on several pages. The forms of the console are one machine
with traits: a form copies the row into its inputs when it is mounted, sends its inputs,
and tells what it makes of the answer. `Form` lists the traits, and `Kinds` the nineteen
forms with theirs; a behaviour is one of any of them.

| Code | Model |
| --- | --- |
| `useState(initial...)` of a form, and what leaving the page does | `Mounted` with `Taken`, `Load` |
| an input, a select or button that sends at once | `EditInput`, `Choose` |
| `save...` up to its `fetch` | `Send`, with `MaySend` for `disabled={isPending}`, `SentOf` for what is sent, and `SaveInputs` |
| the route: its write; its error answers | `Commit`; `TurnDown` |
| the answer: `json.ok` or not, a message, `router.refresh()` | `Answer`, `TellSuccess`, `TellFailure` |
| a `fetch` that throws: a `catch`, none, or the error page | `LoseAnswer` |
| the page's new props after a refresh | `Refresh` |
| cancel, close, edit again | `CancelForm`, `Reopen`, `Retake` |

Mounting is a conversion. The pages of the branding, the security and the general settings
put a default for a field that is unset (`?? '#4F7BFF'`; `mounts = "preset"`), and a save
writes it; the panel of the limits shows an unlimited (null) limit as a blank
(`mounts = "blank"`), and a blank is left out of what it sends, so that a save which did
not touch it leaves the tenant with the tier's limit. `SavesOnlyEdits` therefore says of a field
that was not edited that a save leaves it, or makes it what the form had mounted for it,
and nothing else unless somebody wrote the field in between. `skips` are forms that send
no blanks (the Stripe prices), and `fromRow` is false of forms that start from constants.

The values are the numbers of the edits, so that two writes are told apart, `0` for unset
or blank, `Preset` for a default and `NoLimit` for null; they are compared after trimming.
What a route does to a row beyond the fields it is sent is in the module of that row.
`note` is history: `moved`, `behind`, `crossed` and `undone` are the fields that were
written since the form took over the row, since the page read it, by somebody else since
then, and by somebody else since the last save; `unsure` says that an answer was lost or
that the route failed after it had written.

### AppRoleSelect

The role that a member has in a connected app is a set of bindings, of which the page of the
roles shows one. Choosing another role is two calls: the one that removes the binding the
page knows, and the one that adds the new one; neither touches any other binding.

| Code | Model |
| --- | --- |
| the page's query, and a `Map` that keeps one binding per member | `LoadSelect` |
| `handleChange`, with the select disabled while it waits | `ChooseRole`, `CallOf` |
| `DELETE`, `POST` of `roles/[id]/members/[userId]` | `CarryOut` with `Carried`; `TurnAway` |
| the first answer, then the second call; the end | `HearDone` |
| the `catch`: the select falls back to the role before | `HearFailure` with `FallenBack` |
| a call of a page that has been left or has given up | `CarryOutLate` |
| `PATCH` of the member's role, which deletes all bindings | `ReplaceRoles` |

Two pages that choose different roles leave the member with both, although each says that
it gave one ("Assign one per member"). So does an assignment that took effect although its
page was told that it failed, since the page then falls back to the old role and its next
change removes that one. `disturbed` and `unaware` are history: pages whose last change
others have disturbed, and pages that do not know all the bindings. `SelectIsRight` says
that nothing else leads there: the role shown is held, the one before it is not, and there
is no third.

### TenantWizard

`wizard` is what the component keeps in its state, `creation` the call of
`POST api/tenants` for each slug, `batch` the invitations sent together. A call whose
answer is lost goes on without the wizard (`CreationUnheard`), which may ask again, for the same
slug or another one. `StepBack` is possible while
invitations are under way, since only the other steps lock the buttons, and
`InvitesOver` moves whichever tenant the wizard has by then.

### Webhooks

| Code | Model |
| --- | --- |
| the page's effect, `fetchEndpoints`, `GET api/webhooks` | `OpenPage`, `ListHooks`, `ShowList`, `FetchFails` |
| the modal, `toggleStatus`, `deleteEndpoint` | `AddHook`, `ToggleStatus`, `DeleteHook` |
| PATCH and DELETE of an endpoint | `ResolveEndpoint`, `UpdateHook`, then the audit log and the answer |
| what the page makes of the answer | `AnswerPage`; `AnswerCreated`, which asks for the list again |
| a failed step or a lost answer | `CallBreaks` |
| `handleWebhookOutbound`, and without the queue the test route | `FindActive`, `PostEvent`, `PostTimesOut`, `RecordAnswer`, `FinishJob` |
| the two calls of the database that may throw; a worker that dies | `LookUpFails`, `RecordFails`; `WorkerDies` |

Nothing waits for a list (`void fetchEndpoints()`): one that was read before a toggle or a
deletion of the same page may be shown after it. `stale` of a list and `behind` of a page
record that. A job whose lookup or record throws is tried again like one that was refused,
so a delivery may be given up with its row PENDING although it was received; `mute` records
that the last try told the row nothing. `QueueEvent` stands for the producer of deliveries,
which the repository does not have yet.

### Navigation

A tab loads or shows an address: a host (root, `<slug>`, `admin.<slug>`), a page, the
tenant of a path or parameter, and where the sign-in page returns to. `Served` is the
rewriting of the middleware, `HeaderSlug` the header it sets from host, path or cookie,
`Current` `getCurrentTenant`, `On` a relative redirect.

| Code | Model |
| --- | --- |
| middleware without a session | `AskToSignIn` |
| home page and `/dashboard` | `Forward`, `PlainPage` |
| sign-in page, its form, `keycloak-logout` | `SignInPage`, `LogIn`, `LogOut` |
| `auth/redirect` | `AfterSignIn` |
| `t/[slug]/layout`, `admin/layout`, their pages | `TenantPage` with `AdminTree` and `Remember` (the cookie) |
| platform console, invite page | `ConsolePage`, `InvitePage`, `AcceptLink`, `DeclineLink` |
| workspace switcher, a call of the page | `SwitchWorkspace`, `CallApi` |

`hops` counts the redirects of a tab in a row; anything a person does sets it back.
`SessionExpires`, `DropMember` and `ChangeStanding` happen meanwhile.

## What the runs show

Twelve runs. TLC explores each of them completely. Wherever a deadlock is possible it is
only because bounded requests run out; see [Fairness](#fairness).

| Run | Expect | Properties |
| --- | --- | --- |
| `outbox` | pass | AckedIsReflected, SettledStaysSettled, DeliverySpec; GroupsAsRead |
| `outbox_overlap` | pass | SnapshotCoversClaim, EventuallyConverged |
| `stripe` | pass | RecordedIsHandled, RedeliveryIsIdle, EveryUpdateIsRecorded; PageIsRight (OutcomeIsTold, ShownIsRow), SavesOnlyEdits |
| `plan` | pass | PlanAgrees, LockedIsOver; ChangeTakesEffect, BoundedStaleness |
| `site` | pass | LeaseSpec, CredentialsAgree; RedirectsEnd, ActsOnShown, InviteSurvives; PassIsWhole |
| `workspace` | pass | SeatsBounded, RolesHold (RoleHolds, NamesUnique, PermissionsAsAsked); HooksAreTold (PageShowsRow, RowTellsOutcome) |
| `console` | pass | WelcomedIsWhole, RefusedLeavesNothing, AdminRemains; ClientKeepsBoth; SettingsHold (SavedIsStored, BrandingIsPushed); NoneIsHalfMade; PortalShowsPayer; WindowBounded; LimitsArePushed; SaveKeepsRest, DeleteSparesLive; SelectIsRight |
| `live` | pass | LockIsFreed, JobsEnd; EntryIsCurrent, SuspendedIsShutOut |
| `outbox_stranded` | violation | NoStrandedMarker |
| `provision_skipped` | violation | EnvironmentsSettle |
| `provision_deleted` | violation | DeletedIsTornDown |
| `signin_brands` | violation | SignInBrandsPath |

In parentheses are the parts of a conjunction that one name stands for. The type invariant
of every component is a theorem and not among the runs.

### What is asked, and why the bounds are enough

- `outbox`: 1 drainer, 1 request, 1 app, 3 rows, 2 jobs, 2 changes, 2 attempts, 1 fault.
  Two versions and three rows let a change commit while another one's markers are claimed,
  and let a run claim a fresh row next to a FAILED one. One fault strands rows, fails a
  converge in the middle, or loses a marker or job; two jobs give the stranded rows a
  successor and the crashed job a replay. `DeliverySpec` is the refinement: every step of
  the outbox is a step of `IdentityDelivery` or a stutter, so apps never move back, even
  through partial writes and retries, with one drainer. Groups: 2 passes, 1 role, 2 sets of
  people, 2 groups for the role, 1 call without an answer. Two passes and two groups are a
  duplicate, which a third pass (any number follow one another) then meets; passes touch
  the groups of one role independently of another's.
- `outbox_overlap`: 2 drainers, 1 row, 1 change, 1 fault. Two drainers that both found the
  row converge the app with different readings in either order. An app can move *back*
  here; `EventuallyConverged` says it does not stay back. This is also the run for a change
  that wrote no marker (`MutateUnmarked`). One row is enough, since what matters is whether
  *a* marker is outstanding.
- `stripe`: 1 update, 1 deletion, 1 invoice, 3 deliveries, 2 workers, 2 jobs, 1 fault.
  Three deliveries are an event three times (two of them concurrent), or two of one and one
  of another in any order; with two attempts and one fault no job is given up because of a
  fault, which `EveryUpdateIsRecorded` needs. Deletions have no such promise: a deletion
  that comes before its subscription throws on every attempt. Forms: each of the nineteen
  on 2 pages, 2 inputs, one of which some forms do not send, 2 calls, 1 edit, or 2 for the
  permissions' form and those that send at once; the row starts with nothing, or no limit,
  in the other input where the form minds it. Two calls are two pages that save across each
  other, or one page that saves twice; the second edit is one made while a call is out.
  The fairness of this run asks nothing of the forms.
- `plan`, plan part: an update to a paid plan, a deletion, an override to the same paid
  plan, 2 of them handled, 2 jobs, a limit of 1 and usage up to it, 1 rollup, 1 fault. Two
  changes race each other, a provision run and a rollup; the fault fails or delays one
  call, which may then arrive after everything else. The sizes beyond this are what the
  theorems are for. Authorization part: 2 readers, 1 writer, TTL 2, Gap 1, 2 changes, clock
  to 4 (two TTLs, so an entry expires and is filled again), 1 Redis fault.
- `site`: 2 run slots, 2 jobs, 3 requests, 2 attempts, 1 fault (two provisions and a
  delete, or a delete, a reinstate and a provision; a fault crashes one of them or fails a
  step, and a lease may run out in any run; five passwords are more than the runs can
  draw). 2 tabs, 2 tenants, an invitee and a platform admin, every membership at the
  start, 3 acts of the visitor or of others: enough to open a page in each tab and change
  the session, a membership or a tenant between them; a sequence of redirects that needs a
  fourth act would start from a page that a first act can open. A loop shows at
  `MaxHops = 5`: no sequence of redirects that ends is longer than four, as the run shows.
  2 people, 4 roles of each kind, 2 edits, any number of passes that fail anywhere: an edit
  before and one under a pass.
- `workspace`: an owner and 2 users, 2 system and 2 custom roles, 1 app role, seat limits 1,
  2 and 3 (none), 3 requests, 2 at a time; 1 endpoint on 2 pages with 2 lists under way
  each, and 1 delivery, 2 tries, 1 stall.
  Two requests at a time are what a race needs, and the third changes the plan, or comes
  after the race.
- `console`: 2 emails, 2 slugs, 4 account ids, 3 requests, 2 at a time; 2 hosts and 2
  administrators, 3 paths, 4 saves; 2 pages, 3 sections, 2 saves; 2 slugs, 2 batches; 2
  tenants and 3 checkouts; 2 requesters, a limit of 2 in a window of 3 with a delay of 1,
  clock to 6 (two windows), 5 members, 1 broken connection; 1 field of 2 numbers, 1 panel, 2
  drains, 2 saves (one that overtakes, or fails beside, the other); 1 page of each kind, one
  open at a time, 2 URLs, 2 rows one after the other, 2 requests; 3 app roles on 2 pages,
  3 changes (two pages that change from one role across each other, and one more after it).
- `live`: provisioning with one fault (a worker that dies with the lock, a step that
  fails) or one outage of Redis (a run beside the lock, a release that was not answered);
  both together are left to the other runs; 2 tenants, 2 slugs, 1 lookup, 1 save, 4 changes, which is a sign-up of each
  and a rename or suspension of each.

The properties with exceptions (`unless ...`) are where the code really does lose
something, and the exception names the only way that it does. `SeatsBounded`, for
instance, is not "at most the limit", which is false; it is that the limit is exceeded by
at most the invitations that were handled at once, and by SCIM and sign-ins.

### Fairness

The liveness properties assume weak fairness of the workers (they run on and take waiting
jobs), of BullMQ (delayed jobs are promoted, stalled ones replayed), of the reconcile tick
(a repeatable job); in TenantProvision of Redis expiring a key and of the console
finishing an enqueue it has come to; and in TenantDirectory of requests going on and of
Redis letting an entry live for no longer than its TTL. This is what the processes do as
long as they run. Requests, deliveries, admin actions, teardown and all faults are not
fair. Faults are bounded, which is what "eventually" needs: no code converges under
endless failure.

`CHECK_DEADLOCK FALSE` stands in the runs where bounded requests, saves or deliveries run
out and the system then rests. OutboxSync never stops, and its runs check deadlock, and so
does `outbox_stranded`.

### Mutants

Every property of every passing run is shown to notice a bug: PROJECT.json names, per
property, a definition of the module and the mutated form beside it. Examples: settling
all rows instead of the claimed ones (`SettleEverything`) breaks AckedIsReflected; a
release that does not compare the token (`FreedAny`) breaks LeaseSpec; a key recorded
before the effects (`RecordEarly`) breaks RecordedIsHandled; a seat count with `>` for
`>=` (`CountSeatsLoosely`) breaks SeatsBounded; a role change that deletes only system
roles (`BindRoleBeside`) breaks RolesHold; a page that flips a status by what it shows
and not by the answer (`AnswerFlips`) breaks HooksAreTold; a save button that is never
disabled (`MaySendAgain`) breaks PageIsRight; a select
that keeps the choice that failed (`KeptChoice`) breaks SelectIsRight; a dialog that keeps what was typed before
it was closed (`RetakeStale`) breaks SavesOnlyEdits; groups that are not matched by
their `externalId` (`OneOfEachUnmatched`) break GroupsAsRead; a signup that leaves the
account behind (`StoreFailsAndAnswers`) breaks RefusedLeavesNothing; a paid event
without the customer (`HandleBare`) breaks PortalShowsPayer; an invitation bounced
like any other page (`AskAlike`) breaks InviteSurvives. One is instructive: comparing
plan codes with plan codes, as the plan-changed job intends (`ReadRowByCode`), would
break LockedIsOver, because a retry then finds its own write and no job lifts the lock.

## What is proved

The theorems hold for every value of the constants that satisfies the module's named
assumption: any number of workers, jobs, apps, rows, events, members, tabs, pages,
requests, attempts and faults. An assumption says that bounds are natural numbers, that
the markers for "none" are none of the things they stand beside, and that a distinguished
element (the owner, the invitee, the old path) is one of its set. Those that say more:
`RateLimitAssumption`, that a request reaches Redis in less than a window, and
`NavigationAssumption`, that `MaxHops` is more than 4.

Every safety property that a passing run checks is the statement of a theorem, under the
assumptions of the table.

| Theorem | Statement | Further assumption |
| --- | --- | --- |
| `OutboxSync_proofs!TypeCorrect` | `Spec => []TypeOK` | |
| `SnapshotAlwaysCovers` | `Spec => []SnapshotCoversClaim` | |
| `AcksAreTrue` | `Spec => []AckedIsReflected` | `SingleDrainer` |
| `ImplementsDelivery` | `Spec => DeliverySpec` | `SingleDrainer` |
| `SettledForGood` | `Spec => SettledStaysSettled` | `SingleDrainer` |
| `OutboxSync_proofs!GroupTypeCorrect` | `GroupSpec => []GroupTypeOK` | |
| `GroupsAreAsRead` | `GroupSpec => []GroupsAsRead` | |
| `Tenants_proofs!TypeCorrect` | `Spec => []TypeOK` | |
| `LockSerializes` | `Spec => []OneLeaseAtATime` | |
| `ImplementsLease` | `Spec => LeaseSpec` | |
| `RoleMatchesSecret` | `Spec => []CredentialsAgree` | `NoOutages` |
| `StripeEvents_proofs!TypeCorrect` | `Spec => []TypeOK` | |
| `RecordedEventsTookEffect` | `Spec => []RecordedIsHandled` | |
| `RedeliveryChangesNothing` | `Spec => RedeliveryIsIdle` | |
| `Plans_proofs!CacheTypeCorrect` | `CacheSpec => []CacheTypeOK` | |
| `StalenessIsBounded` | `CacheSpec => BoundedStaleness` | |
| `ChangesTakeEffect` | `CacheSpec => []ChangeTakesEffect` | |
| `Plans_proofs!TypeCorrect` | `Spec => []TypeOK` | |
| `PlanIsPushed` | `Spec => []PlanAgrees` | |
| `UpgradeUnlocks` | `Spec => []LockedIsOver` | |
| `Workspace_proofs!TypeCorrect` | `Spec => [](TypeOK /\ RequestOK)` | |
| `SeatsAreBounded` | `Spec => []SeatsBounded` | |
| `RolesAreKept`, from `RoleIsAsGiven`, `NamesFindOneRole`, `PermissionsAreAsked` | `Spec => []RolesHold` | |
| `Administration_proofs!LimiterTypeCorrect` | `LimiterSpec => [](LimiterTypeOK /\ LimiterInv)` | |
| `WindowIsBounded` | `LimiterSpec => []WindowBounded` | |
| `ResetIsEnough` | `LimiterSpec => []ResetHasRoom` | |
| `Administration_proofs!SettingsTypeCorrect` | `SettingsSpec => []SettingsTypeOK` | |
| `SettingsStay`, from `SavesStay`, `BrandingArrives` | `SettingsSpec => []SettingsHold` | |
| `Administration_proofs!LimitsTypeCorrect` | `LimitsSpec => []LimitsTypeOK` | |
| `LimitsArrive` | `LimitsSpec => []LimitsArePushed` | |
| `Administration_proofs!RegistryTypeCorrect` | `RegistrySpec => []RegistryTypeOK` | |
| `FormsKeepTheRest` | `RegistrySpec => SaveKeepsRest` | |
| `DeletesAreCounted` | `RegistrySpec => DeleteSparesLive` | |
| `Administration_proofs!FormTypeCorrect` | `FormSpec => []FormTypeOK` | |
| `PagesAreRight`, from `OutcomesAreTold`, `RowsAreShown` | `FormSpec => []PageIsRight` | |
| `SavesEditOnly` | `FormSpec => SavesOnlyEdits` | |
| `Administration_proofs!SelectTypeCorrect` | `SelectSpec => []SelectTypeOK` | |
| `SelectsAreRight` | `SelectSpec => []SelectIsRight` | |
| `Tenants_proofs!DirTypeCorrect` | `DirSpec => []DirTypeOK` | |
| `EntriesAreCurrent` | `DirSpec => []EntryIsCurrent` | |
| `Workspace_proofs!HookTypeCorrect` | `HookSpec => []HookTypeOK` | |
| `HooksTellTruth`, from `PagesShowRows`, `RowsTellOutcomes` | `HookSpec => []HooksAreTold` | |
| `Onboarding_proofs!AccountsTypeCorrect` | `AccountsSpec => []AccountsTypeOK` | |
| `WelcomesAreTrue` | `AccountsSpec => []WelcomedIsWhole` | |
| `RefusalsAreClean` | `AccountsSpec => []RefusedLeavesNothing` | |
| `OneAdminRemains` | `AccountsSpec => []AdminRemains` | |
| `Onboarding_proofs!ClientTypeCorrect` | `ClientSpec => []ClientTypeOK` | |
| `RegistrationsStay` | `ClientSpec => []ClientKeepsBoth` | |
| `Onboarding_proofs!WizardTypeCorrect` | `WizardSpec => []WizardTypeOK` | |
| `WizardsFinish` | `WizardSpec => []NoneIsHalfMade` | |
| `Onboarding_proofs!CheckoutTypeCorrect` | `CheckoutSpec => []CheckoutTypeOK` | |
| `PayersSeeTheirBills` | `CheckoutSpec => []PortalShowsPayer` | |
| `Site_proofs!NavTypeCorrect` | `NavSpec => []NavTypeOK` | |
| `RedirectsStop` | `NavSpec => []RedirectsEnd` | |
| `CallsActOnShown` | `NavSpec => []ActsOnShown` | |
| `InvitationsSurvive` | `NavSpec => []InviteSurvives` | |
| `Site_proofs!ConvTypeCorrect` | `ConvSpec => []ConvTypeOK` | |
| `PassesAreWhole` | `ConvSpec => []PassIsWhole` | |

The two further assumptions are the configurations the code's comments have in mind and
does not enforce: `SingleDrainer`, one process with `WORKER_ENABLE_APP_SYNC` (with two,
an older reading can be written over a newer one, so an acknowledgement is not true for
good); and `NoOutages`, Redis answers the lock's SET (without it `withLock` lets a run in
beside another, both find no Secret, and each draws a password).

How the proofs go. In the modules with queues each starts from `TypeOK /\ RunOK`, where
`RunOK` says that a busy worker runs an active job that no other worker has; it is what
makes `Complete` and `Fail` touch only their own job.

- *OutboxSync.* `SnapInv` adds that nothing is ahead of `version` and that a run has reads
  only while it converges; then a read taken after the claim is at least as new as the
  claimed rows, since a row that a run holds is never rewritten. `DrainInv` adds, for one
  drainer, that an app never is ahead of what the run is about to write, and that each
  instance the run served and has left behind reflects all of its claimed rows; this is
  what `Settle` turns into an acknowledgement. `Simulation` reads the refinement off both.
- *GroupSync.* `AloneKnows`: a pass that nothing came between is the only one under way.
  `SeenKnows`: what such a pass has seen is still so, but for what it did, role by role: a
  role still to be put has the one group it found, or none; a role that was put has a group
  with the people it read; any other group of it is still to be deleted. At the end nothing
  is left to do. The same induction gives `OnlyOne`, that a role has one group until passes
  overlap.
- *TenantProvision.* `LeaseInv`: a run with a lease is the one whose token the key holds.
  `LeaseSimulation` reads the refinement off it, action by action: whoever sets the key
  found it free, so by the invariant nobody's lease lasts, and the grant is one of `Lease`;
  a run that gives up a lease it has no longer is a stutter.
  `CredentialInv`: a run between reading the Secret and writing it (`Building`) holds the
  lock, and from its choice on either the Secret is empty or it holds the chosen password;
  after the role is altered the role has it too. Teardown only empties the Secret, which
  keeps this.
- *StripeEvents.* `ProgressInv`: at each step a run of a change has done the steps before
  it. `KeyInv` puts this together with the keys.
- *AuthzCache.* `ReadInv`, `EntryInv`, `ClockInv`: what a request holds was current when
  it read the rows, and the entry was current `Gap` before it was written. For
  `ChangeTakesEffect` the entry, while it is live, is as new as the last answered change
  or was spoilt by a slow fill.
- *PlanSync.* The properties speak of a system at rest, which says nothing step by step,
  so the invariants say what is still under way. `OrderOK`: the number of the row's last
  write is carried only by what pushes that write. `PushOK`: the instance has the last
  write, or its handler or its job has yet to run. `LockOK`: an instance that is locked
  within its limit has a handler or a job that will lift it; `HandlerOK` is why a handler
  that will not lift the lock is one that writes the free plan, whose limit is the lowest.
  At rest nothing is under way and the second disjuncts are false.
- *TeamMembership.* `SeatInv` counts invited members together with the requests that have
  found a seat and not yet used it: `Cardinality(Seated) + Cardinality(Counted)` stays
  below the peak plus the number of requests, which is inductive where the count of the
  members alone is not. `RoleInv` adds that a transaction about to replace a role has
  found all there is of an undisturbed member; `NameInv` and `PermissionInv` the same for
  a name about to be taken and for an edit.
- *RateLimit.* `Forgotten`: what was let through and is no longer in the set left the
  window by the clock, although each script forgets by its caller's clock; `ExpiresLate`:
  the set as a whole expires only after everything in it left. Hence a stretch `Delay`
  shorter than the window lies in one set at the time of its last admission, and the set
  is bounded by the limit. `ResetIsEnough` has no run: it is a statement about every later
  time, and the theorem says it for all of them.
- *TenantDirectory.* `EntryKnows`: an entry that was not left behind is the row that has
  its slug, or a settings request is about to delete it (`ToDrop`). This needs that a
  lookup which is not late has read the row as it is (`LookupKnows`).
- *Webhooks.* A page is right about an endpoint except where it is behind, so what is
  invariant is what is known meanwhile: `ListsKnow`, a list that was read has the row, but
  for the endpoints changed since; `AnswerKnows` for a request that has changed the row and
  not yet answered. `TriesCount` bounds the attempts of a delivery by its tries and the workers
  that died, without which a job could be run after it was given up.
- *Accounts.* `RequestKnows`: an account that a signup made is its own, and no other
  request would undo it; `PageKnows`: a page waits for the request that it sent, and the
  tenant it has welcomed is nobody's to undo any more. `RefusalKnows` says the same of what
  is left to undo. For the super admins, `GroupKnows`: a removal under way leaves someone,
  or two removals raced.
- *KeycloakClient.* `CopyKnows`: a copy that no other put has overtaken is the client as it
  is, so putting it back changes one field; and the path of the client is the one sent last,
  which is what the console shows unless it was cleared.
- *TenantSettings.* `SaveKnows`: a column that was read and not written since is the one
  there is; then `SectionKnows`, the column has each section's last save, is inductive.
  `BrandKnows`: branding that is not at the apps has a marker, or a save that will add one.
- *ResourceLimits.* `PushKnows`: a drain that pushes what is old already is followed by
  another push (`Fresh`), or was outread.
- *AppRegistry.* `TakenKnows`: what a form or its request took over unchanged is what the
  instance has; `CountKnows`: a deletion that has counted, and that no new instance has
  overtaken, finds none.
- *ConsoleForms.* `SendsKnow`: a call that was not sent is nobody's. `ShownKnows`: a field
  that a page does not show as it is was written since it read the row, and then the page
  has asked for the row, waits for a call that will make it ask, or was crossed.
  `InputsKnow`: an input that was not edited is what `Taken` makes of the row's, or its
  field was written since the form took it over, and the same of the inputs a call carries; SavesOnlyEdits is one
  step from it. `PageKnows`: a form that waits has one call, and until it is told, the row
  is as it was before the call, or has what the call sent. The proofs split on the trait
  where the forms differ and never on the form.
- *AppRoleSelect.* `StepIsBound`: at each step of an undisturbed change, the role it shows
  or had before is held, as far as its calls have come. `AllIsKnown`: a page that is not
  unaware shows, or is about to remove or add, every role that is held.
- *TenantWizard.* `WizardKnows`: the tenant that the wizard goes on with was committed and
  queued; `BatchKnows`: invitations that are answered gave it an admin.
- *Checkout.* `CustomerKnows`: a tenant for whom no customer was lost has one with which
  all its calls go on, the one on its row or the one that the payment will put there; as
  long as one call is making it (`Making`), no call has one (`Holders`).
- *Navigation.* `HopsCount` is a ranking: `Left` is the longest sequence of redirects that
  can still follow an address, every redirect lowers it, and its largest value is four,
  hence `MaxHops > 4`. `Lost` is the one exception, a member of a deleted tenant on an
  admin host. `ShownKnows`: a page that is shown is of the tenant that a call of it would
  act on, unless a login, a logout or another tab's cookie crossed it. `ErrandKnows`: a tab
  that follows the invitation is at it, or at a sign-in page that returns to it.
- *Convergence.* One part per stage of a pass. `MembersKnow`: the members it has read are
  those still to be looked for, the one it is at, and those whose account it knows;
  `AccountsKnow`: these accounts are as the team was; `GroupsKnow` and `GrantsKnow`: what
  the groups, or the assignments, lack is still to be done.

The proofs changed the model in two places. `ActsOnShown` once spoke of every tab that had
acted; in more acts than a run takes, a tab whose page is gone keeps its last `acted`, and
the property is about pages that are shown. The ranking showed that the bound on redirects
is a fact about the code, and `MaxHops > 4` is now stated as the assumption that it is.

Only model-checked: the liveness properties (EventuallyConverged, EveryUpdateIsRecorded,
LockIsFreed, JobsEnd, SuspendedIsShutOut), since the proof system handles neither fairness
nor ENABLED; and OutboxSync with two drainers beyond what `SnapshotAlwaysCovers` says.

## Disagreements between the code and what it says

Four have a run that expects a violation; PROJECT.json quotes the lines.

- `outbox_stranded`: "Failure leaves the claimed events FAILED". A failed query before the
  `try`, or a crash, leaves them PROCESSING, and no later run selects them. The apps still
  converge (EventuallyConverged), because each converge pushes the whole state; the
  markers and their errors are lost.
- `provision_skipped`: a request for other environments while a run holds the lock is
  completed as skipped, and its environments stay PROVISIONING.
- `provision_deleted`: a provision run in flight re-creates the namespace of a deleted
  tenant after its teardown.
- `signin_brands`: the middleware passes `?tenant=` "so the signin page brands correctly
  and the post-login redirect returns here"; the page prefers the header, which the
  middleware itself fills from the cookie, so another tenant's page is shown and returned
  to.

The others were met while modelling. The models contain them, as an exception of a
property or as a branch of an action.

*Jobs and billing*

- `apps/workers/src/index.ts:55-56` serializes the drains of a tenant "so two drains for
  the same tenant can't interleave SCIM writes"; concurrency 1 is per process. Two
  overlapping passes can also create two groups with one external id, of which later
  passes replace only one; so can a call that its pass gave up after 15 seconds.
  `packages/scim/src/client.ts:6-7` calls the writes "idempotent-by-construction", which
  `createGroup` is not: GroupsAsRead has the overlap as its exception.
- `packages/db/src/outbox.ts:12-14` has every identity change append a marker in its
  transaction; suspending a user through `api/admin/users`, SCIM writes and sign-ins
  append none. Their changes wait for the reconcile tick.
- A convergence pass deactivates suspended users; it does not touch the account of a
  member who was removed, and it only adds Riogentix assignments.
- A replayed provision job is skipped because of the lock of its own dead run; a run can
  register its instance as ACTIVE after a concurrent deprovision; the lock's fail-open path
  can leave the role and the Secret with different passwords.
- `packages/billing/src/webhooks.ts`: an invoice event's key is looked up (line 30) and can
  never be written, with `''` for a uuid that is a foreign key (45), so one delivery writes
  an audit row per attempt. Two concurrent deliveries of one event
  both pass the check and both enqueue `plan-changed`.
- The plan-changed job compares the old plan, a uuid, with a plan code; the result errs on
  the side of lifting the lock. `plan-changed.ts:18-19` deletes the literal key
  `tenant:slug:*`, which no entry has, so a new plan waits for the resolver's minute.
- The usage rollup takes the limit of a subscription row whatever its status, CANCELED
  included.
- The paid event does not put the customer on a row that exists, so the portal refuses a
  tenant whose row an admin made; two first checkouts make two customers, against the
  comment at `checkout/route.ts:47`.
- `plan-limits-panel.tsx:121-123` says that "an empty limit inherits the tier default". An
  empty input is left out of the column and of the request to the instance, which keeps
  its old override. And a limit that is unlimited (null) is shown as an empty input
  (58-59), so that saving the panel takes it away unedited.
- `connected-apps/[id]/route.ts:125-128` pushes the branding path to Keycloak "so saving
  here is the only step". A path that is cleared is saved, and answered as saved, and not
  pushed (132): Keycloak keeps the old one.
- `webhooks.ts:62-63`: an update whose plan is not in the table is recorded as processed,
  and no redelivery of it will write the subscription.
- `webhook-outbound.ts:32`: when the answer cannot be recorded the event is posted again,
  and if the tries are used up the delivery stays PENDING although it was received.
- `tenant-provision.ts:224` pauses a tenant's instances "so the sync worker skips them
  until re-provisioned"; a form that was open before sends ACTIVE back with its other
  inputs.
- `connected-apps/[id]/route.ts:152-153` counts the instances "so an admin can't
  accidentally sever a live SCIM sync"; an instance connected between the count and the
  delete goes with its app.
- The queues `webhook-outbound` and `usage-rollup` have workers, and nothing in the
  repository enqueues a job for them.

*Members and accounts*

- `members/[userId]/role/route.ts:76-77` says that a change "takes effect immediately"; a
  request that read the old roles before it can fill the entry after the invalidation, and
  they are served for up to another TTL. Routes that edit a role itself delete no entry.
- "Refuses to remove the last platform_super_admin" counts before it removes: two super
  admins who revoke each other both succeed.
- The signup route rolls back on any error; when the update that records a failed enqueue
  fails, the account of a tenant that is already committed is deleted.
- The notification preferences of `settings-form.tsx:60-79` are sent to a route that
  ignores them, and the form says that they are saved.
- The names of the SSO attributes (`security-form.tsx:335-337`) and the e-mail footer
  (`branding-form.tsx:675-677`) are inputs that their forms never send, and the forms say
  that they saved. `whole` is the trait.
- The page of the app roles says "Assign one per member"; a member can hold two, by two
  pages or by a call that took effect and was not heard of. If the second call of a change
  fails, the select goes back to the role that the member has no more
  (`app-role-assignments.tsx:53-62`) and shows an error. AppRoleSelect has both.
- `webhooks-client.tsx:184` does not wait for its list: one read before a toggle may be
  shown after it.
- `tenant-status-button.tsx:20-25` looks at no status: a refused suspension looks like one
  that is done, until the page is read again.
- The save buttons of `plan-limits-panel.tsx` and the reopened dialog of
  `change-role-modal.tsx` do not wait for the call before; their saves may land in either
  order.
- `profile/page.tsx:91,98` gives its forms an `onUpdate` that does nothing, and a function
  besides that a server component cannot pass to a client one: a saved name or picture is
  not shown until the page is loaded again.
- `webhooks-client.tsx:196` means to "trigger re-fetch next expand" after a test delivery;
  it keeps the list it has, and a list that is there is not fetched again.

*Navigation*

- `.env.example` has `AUTH_URL=https://app.lvh.me`, in which `auth/redirect` finds no
  `saas.` to replace: the address of a tenant's host is then the root host again, and the
  redirect repeats. The model has the deployed form.
- A member of a deleted tenant loops on `admin.<slug>`: the layout sends him to `/`, which
  that host rewrites to the admin tree. It is the exception of RedirectsEnd.
- On admin hosts `/suspended` and `/no-workspace` are rewritten into the admin tree and
  not found; so are the workspace switcher's paths. On a tenant's host the switcher shows
  the host's tenant. `admin/layout.tsx:21-25` says that a platform admin sees the panel of
  the admin host; the layout before it sends him to `/no-workspace` unless he is a member.
- The roles page redirects to `/admin/team`, which the root host does not have, and the
  Riogentix launch page leaves a path of the root host for the platform's own.
- `middleware.ts:61-63` says that `<slug>` hosts go to Riogentix at the edge;
  `auth/redirect` sends tenants' users there to land.

## Not modelled

Listed in PROJECT.json with the reason. In short:

- *DNS and Traefik registration* are idempotent calls to external services; in
  TenantProvision they are steps that only fail. *Kubernetes manifests* are a pure
  function from a spec to objects, of which the model keeps the password.
- *Vault, API keys, compliance, notes, notifications* read and write single rows, or are
  plain I/O, with no state that another component relies on.
- *Pages that only render*, and the rendering of those that are modelled, which is most of
  the repository's lines: the share of its code that these modules stand for is bounded by
  that, since markup and labels have no states to explore. The forms are modelled by their
  traits (ConsoleForms); what they check of an input before they send it, previews, and
  actions that save nothing (a test e-mail, an upload into the form) are left out.
- *Guards of the API routes* are checks without state around `getUserAuthz`; the one the
  models need, the tenant a call acts on, is in Navigation (`CallApi`).

Within the modelled components: `scimDeleteUser` and the routes of an app's roles and
details; `bootstrapTenantAdmin`, which is a step of a provision run that only fails; the
shared provisioning driver, which
keeps no credentials of its own; overlapping passes of one instance at the level of single
accounts and assignments (OutboxSync overlaps them as versions, GroupSync as groups,
Convergence not at all); more than one tenant
where tenants share only workers and queues; the values of TTLs and backoffs, of which
only the order matters. Formatting, validation of request bodies, audit wording, e-mail
and logging are left out everywhere.

## Plan

Done: every component in the table of modules, with its safety proved; the outbox and the
lock with their refinements.

Left, in the order of what it would add:

1. An abstract saga for Accounts, with the refinement proved as that of the outbox is.
2. Overlapping passes in Convergence for accounts and assignments too.
3. The removal of users over SCIM in TeamMembership.
4. What holds of OutboxSync with two drainers, as a theorem: an acknowledgement that was
   true when it was given.
5. The dialogs that add a row (invite a member, make a role, connect an app) as forms.
