---------------------------- MODULE TenantSettings ----------------------------
(***************************************************************************)
(* The settings pages of a tenant.  General settings, branding, sign-on and *)
(* session policy are sections of one JSON column of the tenant's row: a    *)
(* save reads the column, changes its section and writes the column back.   *)
(* Branding is then pushed to the connected apps by the outbox.             *)
(*                                                                         *)
(* A form is a section on an open page; what it sends is one value.  Saves  *)
(* are numbered.  Each call of a route to the database or to Redis may      *)
(* fail, and so may the answer to the page.                                 *)
(***************************************************************************)
EXTENDS Integers

CONSTANTS
  Pages,          \* open settings pages
  Sections,
  BrandSections,  \* those that are pushed to the apps
  Unbusted,       \* those whose route leaves the cached context
  Prefs,          \* the notification preferences, which only the form has
  Values, Default,
  MaxPatches      \* bound on the saves

ASSUME SettingsAssumption ==
  /\ BrandSections \cup Unbusted \cup {Prefs} \subseteq Sections
  /\ Prefs \notin BrandSections /\ BrandSections \cap Unbusted = {} /\ Default \in Values /\ MaxPatches \in Nat

VARIABLES
  doc,       \* what a page shows of each section when it is loaded
  patch,     \* the saves
  patches,   \* how many there were
  form,      \* each page's last save of each section, and what it says of it
  marker,    \* the tenant is in the outbox
  pushed,    \* the branding that the apps have
  stale,     \* saves that have read the column before its last write (history)
  undone,    \* sections that such a save has put back (history)
  latest,    \* the last save of each section that wrote (history)
  unpushed   \* sections that changed without a marker, or one that pushed nothing (history)

docHistory  == <<stale, undone, latest, unpushed>>
settingsVars == <<doc, patch, patches, form, marker, pushed, docHistory>>

Documents == [Sections -> Values]
NoPatch == [step |-> "none", section |-> Prefs, value |-> Default, base |-> [s \in Sections |-> Default]]

SettingsSave == [step : {"none", "read", "write", "bust", "queue", "log"},
                 section : Sections, value : Values, base : Documents]
SettingsForm == [save : 0..MaxPatches, says : {"nothing", "saved", "error"}]

SettingsTypeOK ==
  /\ doc \in Documents
  /\ patch \in [1..MaxPatches -> SettingsSave] /\ patches \in 0..MaxPatches
  /\ form \in [Pages -> [Sections -> SettingsForm]]
  /\ marker \in BOOLEAN /\ pushed \in [BrandSections -> Values]
  /\ stale \in SUBSET (1..MaxPatches) /\ undone \in SUBSET Sections
  /\ latest \in [Sections -> 0..MaxPatches] /\ unpushed \in SUBSET BrandSections

SettingsInit ==
  /\ doc = [s \in Sections |-> Default]
  /\ patch = [n \in 1..MaxPatches |-> NoPatch] /\ patches = 0
  /\ form = [p \in Pages |-> [s \in Sections |-> [save |-> 0, says |-> "nothing"]]]
  /\ marker = FALSE /\ pushed = [s \in BrandSections |-> Default]
  /\ stale = {} /\ undone = {} /\ latest = [s \in Sections |-> 0] /\ unpushed = {}

-------------------------------------------------------------------------------
At(n, step) == patch[n].step = step
Moves(n, step) == patch' = [patch EXCEPT ![n].step = step]

\* The form that waits for the save n, if there is one, says how it ended.
Says(n, what) ==
  form' = [p \in Pages |-> [s \in Sections |->
             IF form[p][s].save = n /\ form[p][s].says = "nothing" THEN [form[p][s] EXCEPT !.says = what]
             ELSE form[p][s]]]

\* The button is disabled while a save of the form is under way.
Save(p, s, v) ==
  /\ patches < MaxPatches /\ patches' = patches + 1
  /\ form[p][s].save = 0 \/ form[p][s].says # "nothing"
  /\ patch' = [patch EXCEPT ![patches + 1] = [NoPatch EXCEPT !.step = "read", !.section = s, !.value = v]]
  /\ form' = [form EXCEPT ![p] = [@ EXCEPT ![s] = [save |-> patches + 1, says |-> "nothing"]]]
  /\ UNCHANGED <<doc, marker, pushed, docHistory>>

ReadDocument(n) ==
  /\ At(n, "read")
  /\ patch' = [patch EXCEPT ![n] = [@ EXCEPT !.step = "write", !.base = doc]]
  /\ UNCHANGED <<doc, patches, form, marker, pushed, docHistory>>

\* The column as save n writes it.  The route does not know the preferences.
Merged(n) == IF patch[n].section = Prefs THEN patch[n].base
             ELSE [patch[n].base EXCEPT ![patch[n].section] = patch[n].value]

Writes(n, new) ==
  LET s == patch[n].section
      others == {o \in Sections \ {s} : new[o] # doc[o]} IN
  /\ At(n, "write")
  /\ doc' = new
  /\ patch' = [patch EXCEPT ![n] = [@ EXCEPT !.step = IF s \in Unbusted THEN "log" ELSE "bust",
                                           !.base = NoPatch.base]]
  /\ stale' = {m \in 1..MaxPatches : At(m, "write")} \ {n}
  /\ undone' = IF n \in stale THEN (undone \ {s}) \cup others ELSE undone \ {s}
  /\ latest' = [latest EXCEPT ![s] = n]
  /\ unpushed' = IF n \in stale THEN unpushed \cup (others \cap BrandSections) ELSE unpushed
  /\ UNCHANGED <<patches, form, marker, pushed>>

\* Mutant of WriteDocument: the other sections are not copied.
WriteSectionOnly(n) ==
  Writes(n, [s \in Sections |-> IF s = patch[n].section THEN Merged(n)[s] ELSE Default])

WriteDocument(n) == Writes(n, Merged(n))

BustCache(n) ==
  /\ At(n, "bust")
  /\ Moves(n, IF patch[n].section \in BrandSections THEN "queue" ELSE "log")
  /\ UNCHANGED <<doc, patches, form, marker, pushed, docHistory>>

\* enqueueRoleSync
QueueSync(n) ==
  /\ At(n, "queue") /\ Moves(n, "log")
  /\ marker' = TRUE /\ unpushed' = {}
  /\ UNCHANGED <<doc, patches, form, pushed, stale, undone, latest>>

LogAndAnswer(n) ==
  /\ At(n, "log") /\ Moves(n, "none")
  /\ Says(n, "saved")
  /\ UNCHANGED <<doc, patches, marker, pushed, docHistory>>

\* A call fails, or the process is killed: what was done stays done.
SaveFails(n) ==
  /\ ~At(n, "none")
  /\ patch' = [patch EXCEPT ![n] = [@ EXCEPT !.step = "none", !.base = NoPatch.base]]
  /\ Says(n, "error")
  /\ stale' = stale \ {n}
  /\ unpushed' = IF At(n, "bust") \/ At(n, "queue")
                 THEN unpushed \cup ({patch[n].section} \cap BrandSections) ELSE unpushed
  /\ UNCHANGED <<doc, patches, marker, pushed, undone, latest>>

\* The connection breaks, and the route goes on.
PageGivesUp(n) ==
  /\ ~At(n, "none") /\ Says(n, "error") /\ form' # form
  /\ UNCHANGED <<doc, patch, patches, marker, pushed, docHistory>>

\* A drain of the outbox pushes the branding there is (convergeBranding).
PushBranding ==
  /\ marker /\ marker' = FALSE
  /\ pushed' = [s \in BrandSections |-> doc[s]] /\ unpushed' = {}
  /\ UNCHANGED <<doc, patch, patches, form, stale, undone, latest>>

\* The tenant's stack is not there, or Riogentix is not configured: there is
\* nothing to push to, and the drain counts as done.
SkipBranding ==
  /\ marker /\ marker' = FALSE
  /\ unpushed' = unpushed \cup {s \in BrandSections : pushed[s] # doc[s]}
  /\ UNCHANGED <<doc, patch, patches, form, pushed, stale, undone, latest>>

SettingsNext ==
  \/ \E p \in Pages, s \in Sections, v \in Values : Save(p, s, v)
  \/ \E n \in 1..MaxPatches :
       \/ ReadDocument(n) \/ WriteDocument(n) \/ BustCache(n) \/ QueueSync(n) \/ LogAndAnswer(n)
       \/ SaveFails(n) \/ PageGivesUp(n)
  \/ PushBranding \/ SkipBranding

SettingsSpec == SettingsInit /\ [][SettingsNext]_settingsVars

-------------------------------------------------------------------------------
(* Properties *)

\* What a form says is saved is there until the section is saved again: no
\* save of another section loses it, unless the two overlapped and the other
\* had read the column before (settings/general, branding and security).
SavedIsStored ==
  \A p \in Pages, s \in Sections \ ({Prefs} \cup undone) :
    form[p][s].says = "saved" /\ latest[s] = form[p][s].save => doc[s] = patch[form[p][s].save].value

\* The apps have the tenant's branding or will be given it, unless a save was
\* cut short after its write, an overlapping save put old branding back, or a
\* drain found no instance to push it to (settings/branding/route.ts).
BrandingIsPushed ==
  \A s \in BrandSections \ unpushed :
    \/ pushed[s] = doc[s] \/ marker
    \/ \E n \in 1..MaxPatches :
         patch[n].section \in BrandSections /\ (At(n, "bust") \/ At(n, "queue"))

\* What a form says is saved stays, and branding that is saved reaches the apps.
SettingsHold == SavedIsStored /\ BrandingIsPushed
===============================================================================
