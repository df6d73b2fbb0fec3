----------------------------- MODULE TenantWizard -----------------------------
(***************************************************************************)
(* The wizard with which a platform admin sets up a tenant: it creates the  *)
(* tenant, invites its team, sets its colours and starts the payment.       *)
(* After the first step everything goes to the tenant that was created.     *)
(*                                                                         *)
(* Invites are sent together, and while they are under way the wizard can   *)
(* still go back; the other steps lock it.  When an answer comes the wizard *)
(* moves to the step that followed when the request was made.  A request    *)
(* whose answer is lost goes on without the wizard.                         *)
(***************************************************************************)
EXTENDS Integers

CONSTANTS
  NewSlugs,    \* slugs of tenants to be created
  Batches,     \* invitations sent together, each used once
  Unset

ASSUME WizardAssumption == Unset \notin NewSlugs

VARIABLES
  wizard,      \* the step, the tenant it goes on with, what it waits for, the slug it asked for
  creation,    \* the call of POST /api/tenants for each slug
  made,        \* what became of each slug's tenant and its provisioning
  batch,       \* the invitations
  administered,\* tenants that have an admin
  cutShort,    \* tenants whose creation was cut short (history)
  excused      \* tenants where the admin's invitation was lost or passed over (history)

wizardHistory == <<cutShort, excused>>
wizardVars == <<wizard, creation, made, batch, administered, wizardHistory>>

WizardSteps == {"workspace", "invite", "branding", "billing", "done", "left"}

Wizard == [step : WizardSteps, tenant : NewSlugs \cup {Unset},
           waits : {"no", "create", "brand", "checkout"}, asked : NewSlugs \cup {Unset}]
CreationSteps == {"none", "insert", "enqueue", "record", "log"}
Batch == [to : NewSlugs \cup {Unset}, step : {"new", "sent", "over"}, admin : BOOLEAN, rest : BOOLEAN]

WizardTypeOK ==
  /\ wizard \in Wizard /\ creation \in [NewSlugs -> CreationSteps]
  /\ made \in [NewSlugs -> {"none", "other", "row", "queued", "failed"}]
  /\ batch \in [Batches -> Batch]
  /\ administered \in SUBSET NewSlugs
  /\ cutShort \in SUBSET NewSlugs /\ excused \in SUBSET NewSlugs

WizardInit ==
  /\ wizard = [step |-> "workspace", tenant |-> Unset, waits |-> "no", asked |-> Unset]
  /\ creation = [s \in NewSlugs |-> "none"] /\ made = [s \in NewSlugs |-> "none"]
  /\ batch = [b \in Batches |-> [to |-> Unset, step |-> "new", admin |-> FALSE, rest |-> FALSE]]
  /\ administered = {}
  /\ cutShort = {} /\ excused = {}

-------------------------------------------------------------------------------
(* Creating the tenant: POST /api/tenants *)

\* Of two calls that have yet to insert the same slug one is refused, so they
\* are one call; a call for a slug that is past that is refused at once.
CreateTenant(s) ==
  /\ wizard.step = "workspace" /\ wizard.waits = "no" /\ creation[s] \in {"none", "insert"}
  /\ wizard' = [wizard EXCEPT !.waits = "create", !.asked = s]
  /\ creation' = [creation EXCEPT ![s] = "insert"]
  /\ UNCHANGED <<made, batch, administered, wizardHistory>>

Creates(s, step, what) ==
  /\ creation' = [creation EXCEPT ![s] = step]
  /\ made' = [made EXCEPT ![s] = what]
  /\ UNCHANGED <<wizard, batch, administered, wizardHistory>>

\* A signup, or another admin, takes a slug.
TakeSlug(s) ==
  /\ made[s] = "none"
  /\ made' = [made EXCEPT ![s] = "other"]
  /\ UNCHANGED <<wizard, creation, batch, administered, wizardHistory>>

InsertTenant(s) == creation[s] = "insert" /\ made[s] = "none" /\ Creates(s, "enqueue", "row")
QueueTenant(s) == creation[s] = "enqueue" /\ Creates(s, "log", "queued")
QueueFails(s) == creation[s] = "enqueue" /\ Creates(s, "record", "row")
RecordFailed(s) == creation[s] = "record" /\ Creates(s, "log", "failed")

\* The wizard waits for the creation unless invitations have moved it on; the
\* answer moves it whatever step it shows.
TenantCreated(s) ==
  /\ wizard.waits = "create" /\ wizard.asked = s /\ creation[s] = "log"
  /\ creation' = [creation EXCEPT ![s] = "none"]
  /\ wizard' = [step |-> "invite", tenant |-> s, waits |-> "no", asked |-> Unset]
  /\ UNCHANGED <<made, batch, administered, wizardHistory>>

Released == [wizard EXCEPT !.waits = "no", !.asked = Unset]

\* No answer comes: the wizard stays, and the call goes on.
CreationUnheard ==
  /\ wizard.waits = "create" /\ wizard' = Released
  /\ UNCHANGED <<creation, made, batch, administered, wizardHistory>>

\* The slug is taken, a call fails, the process ends, or nobody waits: the
\* wizard stays.
CreationEnds(s) ==
  /\ creation[s] # "none" /\ creation' = [creation EXCEPT ![s] = "none"]
  /\ wizard' = IF wizard.asked = s THEN Released ELSE wizard
  /\ cutShort' = IF creation[s] \in {"enqueue", "record"} THEN cutShort \cup {s} ELSE cutShort
  /\ UNCHANGED <<made, batch, administered, excused>>

-------------------------------------------------------------------------------
(* Inviting the team *)

StepBack ==
  /\ wizard.waits = "no" /\ wizard.step \in {"invite", "branding"}
  /\ wizard' = [wizard EXCEPT !.step = IF @ = "invite" THEN "workspace" ELSE "invite"]
  /\ UNCHANGED <<creation, made, batch, administered, wizardHistory>>

\* Mutant of SendInvites: nobody among them is made an admin.
SendInvitesAlike(b) ==
  /\ wizard.step = "invite" /\ wizard.waits = "no" /\ batch[b].step = "new"
  /\ batch' = [batch EXCEPT ![b] = [to |-> wizard.tenant, step |-> "sent", admin |-> FALSE, rest |-> TRUE]]
  /\ UNCHANGED <<wizard, creation, made, administered, wizardHistory>>

\* The first address is invited as the tenant's admin.
SendInvites(b) ==
  /\ wizard.step = "invite" /\ wizard.waits = "no" /\ batch[b].step = "new"
  /\ batch' = [batch EXCEPT ![b] = [to |-> wizard.tenant, step |-> "sent", admin |-> TRUE, rest |-> TRUE]]
  /\ UNCHANGED <<wizard, creation, made, administered, wizardHistory>>

SkipInvites ==
  /\ wizard.step = "invite" /\ wizard.waits = "no"
  /\ wizard' = [wizard EXCEPT !.step = "branding"]
  /\ excused' = excused \cup {wizard.tenant}
  /\ UNCHANGED <<creation, made, batch, administered, cutShort>>

\* POST /api/team/invite, for the first address and for the others, in any
\* order; a failure is not noticed.
InviteAdmin(b) ==
  /\ batch[b].step = "sent" /\ batch[b].admin
  /\ batch' = [batch EXCEPT ![b].admin = FALSE]
  /\ \/ administered' = administered \cup {batch[b].to} /\ UNCHANGED excused
     \/ excused' = excused \cup {batch[b].to} /\ UNCHANGED administered
  /\ UNCHANGED <<wizard, creation, made, cutShort>>
InviteRest(b) ==
  /\ batch[b].step = "sent" /\ batch[b].rest
  /\ batch' = [batch EXCEPT ![b].rest = FALSE]
  /\ UNCHANGED <<wizard, creation, made, administered, wizardHistory>>

\* All are answered, and the wizard moves to the branding of the tenant it has
\* by now.
InvitesOver(b) ==
  /\ batch[b].step = "sent" /\ ~batch[b].admin /\ ~batch[b].rest
  /\ batch' = [batch EXCEPT ![b].step = "over"]
  /\ wizard' = IF wizard.step = "left" THEN wizard ELSE [wizard EXCEPT !.step = "branding"]
  /\ excused' = IF batch[b].to # wizard.tenant THEN excused \cup {wizard.tenant} ELSE excused
  /\ UNCHANGED <<creation, made, administered, cutShort>>

-------------------------------------------------------------------------------
(* Branding and billing *)

SaveColours ==
  /\ wizard.step = "branding" /\ wizard.waits = "no"
  /\ wizard' = [wizard EXCEPT !.waits = "brand"]
  /\ UNCHANGED <<creation, made, batch, administered, wizardHistory>>

\* Stored or not, the wizard goes on.
ColoursAnswered ==
  /\ wizard.waits = "brand"
  /\ wizard' = [wizard EXCEPT !.step = "billing", !.waits = "no"]
  /\ UNCHANGED <<creation, made, batch, administered, wizardHistory>>

\* The free plan, or a mail to the sales department.
ChooseUnpaid ==
  /\ wizard.step = "billing" /\ wizard.waits = "no"
  /\ wizard' = [wizard EXCEPT !.step = "done"]
  /\ UNCHANGED <<creation, made, batch, administered, wizardHistory>>

\* The page leaves for Stripe, or is done when the checkout fails.
StartPayment ==
  /\ wizard.step = "billing" /\ wizard.waits = "no"
  /\ wizard' = [wizard EXCEPT !.waits = "checkout"]
  /\ UNCHANGED <<creation, made, batch, administered, wizardHistory>>
CheckoutAnswered ==
  /\ wizard.waits = "checkout"
  /\ \E step \in {"left", "done"} : wizard' = [wizard EXCEPT !.step = step, !.waits = "no"]
  /\ UNCHANGED <<creation, made, batch, administered, wizardHistory>>

WizardNext ==
  \/ \E s \in NewSlugs :
       \/ CreateTenant(s) \/ TakeSlug(s) \/ InsertTenant(s) \/ QueueTenant(s) \/ QueueFails(s)
       \/ RecordFailed(s) \/ TenantCreated(s) \/ CreationEnds(s)
  \/ CreationUnheard
  \/ StepBack \/ SkipInvites \/ SaveColours \/ ColoursAnswered \/ ChooseUnpaid \/ StartPayment \/ CheckoutAnswered
  \/ \E b \in Batches : SendInvites(b) \/ InviteAdmin(b) \/ InviteRest(b) \/ InvitesOver(b)

WizardSpec == WizardInit /\ [][WizardNext]_wizardVars

-------------------------------------------------------------------------------
(* Properties *)

\* No tenant is left half made.  One that is committed has its provisioning
\* queued or recorded as failed, unless the request that made it was cut short;
\* past its first step the wizard has such a tenant; and past the invitations
\* that tenant has an admin, unless the invitation failed, none was sent, or
\* the invitations of another tenant moved the wizard on (onboarding-wizard.tsx,
\* tenants/route.ts).
NoneIsHalfMade ==
  /\ \A s \in NewSlugs \ cutShort :
       made[s] = "row" => creation[s] \in {"enqueue", "record"}
  /\ wizard.step \in {"invite", "branding", "billing", "done"} =>
       wizard.tenant # Unset /\ made[wizard.tenant] \in {"queued", "failed"}
  /\ wizard.step \in {"branding", "billing", "done"} =>
       wizard.tenant \in administered \cup excused
===============================================================================
