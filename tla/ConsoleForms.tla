---------------------------- MODULE ConsoleForms ----------------------------
(***************************************************************************)
(* The forms of the console that edit a row, each on the pages of several  *)
(* people.  A form copies what it edits into its inputs when it is         *)
(* mounted, with defaults for what is unset, and no refresh renews them;   *)
(* saving sends the inputs, and what the page says of it depends on the    *)
(* answer, if one comes.  The forms differ in a handful of traits, and a   *)
(* behaviour is one of any of them.  How routes write what they are sent   *)
(* is in the modules of their rows; values are compared after trimming.    *)
(***************************************************************************)
EXTENDS Naturals

CONSTANTS
  Views,    \* pages that show the form
  Inputs,   \* of the form, each a field of the row
  Odd,      \* the input that some forms do not send, that others save on its own, and
            \* that all take over as the row has it
  Preset,   \* what a form puts for a field that is unset, or starts from
  NoLimit,  \* what an input cannot show
  NoPage,   \* no page waits for a call
  MaxEdits, \* bound on edits, whose numbers are the values
  MaxSends  \* bound on calls

ASSUME FormAssumption ==
  /\ Odd \in Inputs /\ NoPage \notin Views /\ MaxEdits \in Nat \ {0} /\ MaxSends \in Nat
  /\ {Preset, NoLimit} \cap (0..MaxEdits) = {} /\ Preset # NoLimit

VARIABLES
  kind,      \* the form, which does not change
  stored,    \* the row
  edits,     \* how many edits there were
  view,      \* the pages
  callCount, \* how many calls there were
  call,      \* the calls
  note       \* what became of the row since a page read it, or sent a call (history)

formVars == <<kind, stored, edits, view, callCount, call, note>>

-------------------------------------------------------------------------------
(* The forms *)

Form == [
  fromRow : BOOLEAN,   \* the inputs start as the row, and not as constants
  guarded : BOOLEAN,   \* the button is disabled until the call is answered
  locked : BOOLEAN,    \* and so are the inputs
  mounts : {"same", "preset", "blank"},  \* how, as the row has it; a default for what
                                         \* is unset; or a blank for what is unlimited
  apart : BOOLEAN,     \* in two parts, saved on their own, with one message for both
  instant : BOOLEAN,   \* choosing a value sends it
  kept : BOOLEAN,      \* the route knows the fields
  whole : BOOLEAN,     \* every input is sent
  skips : BOOLEAN,     \* but for blank ones
  judges : BOOLEAN,    \* the page looks at the status of the answer
  says : BOOLEAN,      \* a success is told
  shuts : BOOLEAN,     \* a success shuts the form, and the row is shown
  refreshes : BOOLEAN, \* a success has the page read the row again
  anyway : BOOLEAN,    \* and so does a failure
  retakes : BOOLEAN,   \* the form is mounted anew whenever it is opened
  loss : {"told", "untold", "page"}]  \* a call that throws: caught, not caught, or
                                      \* caught by the error page, which mounts anew

Plain ==
  [fromRow |-> TRUE, mounts |-> "same", guarded |-> TRUE, locked |-> FALSE, apart |-> FALSE,
   instant |-> FALSE, kept |-> TRUE, whole |-> TRUE, skips |-> FALSE, judges |-> TRUE,
   says |-> TRUE, shuts |-> FALSE, refreshes |-> TRUE, anyway |-> FALSE, retakes |-> FALSE,
   loss |-> "told"]

Defaulted == [Plain EXCEPT !.mounts = "preset"]
Company == Defaulted   \* the time zone
AppConfig == Plain   \* an answer "saved, but not in Keycloak" is a success
\* Sent to a route that does not know them.
Preferences == [Plain EXCEPT !.fromRow = FALSE, !.refreshes = FALSE, !.kept = FALSE]
\* The names of the attributes are inputs, and not sent.
Sso == [Defaulted EXCEPT !.refreshes = FALSE, !.whole = FALSE]
SessionPolicy == [Defaulted EXCEPT !.refreshes = FALSE]
\* Four tabs of one form: one button waits for the call of another.
BrandingTab == [Defaulted EXCEPT !.apart = TRUE]
Colors == BrandingTab
Logos == BrandingTab
LoginPage == BrandingTab
EmailLook == [Defaulted EXCEPT !.whole = FALSE]   \* the footer is not sent
\* Plan and limits are saved by two buttons that do not wait for their calls.  A blank
\* limit is sent as no limit of the tenant's own.
PlanLimits == [Plain EXCEPT !.mounts = "blank", !.guarded = FALSE, !.apart = TRUE,
                            !.anyway = TRUE, !.loss = "untold"]
\* The secrets, which are emptied by a success, are not among the inputs here.
StripeSetup == [Plain EXCEPT !.fromRow = FALSE, !.skips = TRUE]
RolePermissions == [Plain EXCEPT !.locked = TRUE, !.says = FALSE]
StatusButton == [Plain EXCEPT !.locked = TRUE, !.instant = TRUE, !.judges = FALSE, !.says = FALSE,
                              !.loss = "page"]
DeleteButton == StatusButton
\* The profile is not read again.
Avatar == [Plain EXCEPT !.locked = TRUE, !.instant = TRUE, !.says = FALSE, !.refreshes = FALSE]
DisplayName == [Plain EXCEPT !.says = FALSE, !.shuts = TRUE, !.refreshes = FALSE]
InstanceRow == [Plain EXCEPT !.says = FALSE, !.shuts = TRUE, !.loss = "page"]
ScimPanel == [Plain EXCEPT !.shuts = TRUE, !.loss = "page"]
\* A dialog of the team's table, or of the hub's, that can be closed while it waits.
ChangeRoleDialog == [Plain EXCEPT !.says = FALSE, !.shuts = TRUE, !.retakes = TRUE]

Kinds == {Company, AppConfig, Preferences, Sso, SessionPolicy, Colors, Logos, LoginPage,
          EmailLook, PlanLimits, StripeSetup, RolePermissions, StatusButton,
          DeleteButton, Avatar, DisplayName, InstanceRow, ScimPanel, ChangeRoleDialog}

-------------------------------------------------------------------------------

Contents == 0..MaxEdits \cup {Preset, NoLimit}   \* 0 is unset, or blank
Rows == [Inputs -> Contents]
Sends == 1..MaxSends
Start == [f \in Inputs |-> Preset]   \* of a form that does not read the row

View == [open : BOOLEAN, inputs : Rows, shown : Rows, asks : BOOLEAN,
         said : {"nothing", "saved", "failed"}, about : SUBSET Inputs,
         touched : SUBSET Inputs, dirty : SUBSET Inputs, own : SUBSET Sends]
FormCall == [by : Views \cup {NoPage}, of : SUBSET Inputs, to : Rows, was : Rows,
         stage : {"none", "sent", "done", "refused", "half"},
         touched : SUBSET Inputs, moved : SUBSET Inputs]
Note == [moved : SUBSET Inputs, behind : SUBSET Inputs, crossed : SUBSET Inputs,
         undone : SUBSET Inputs, overlapped : BOOLEAN, unsure : BOOLEAN, before : Rows]

FormTypeOK ==
  /\ kind \in Kinds /\ stored \in Rows /\ edits \in 0..MaxEdits /\ callCount \in 0..MaxSends
  /\ view \in [Views -> View] /\ call \in [Sends -> FormCall] /\ note \in [Views -> Note]

Waits(p) == {n \in Sends : call[n].by = p}
Awaited(p) == view[p].own \cap Waits(p)
Parts == IF kind.apart THEN {Inputs \ {Odd}, {Odd}} ELSE {Inputs}
SentOf(part, ins) == {f \in part : (kind.whole \/ f # Odd) /\ (kind.skips => ins[f] # 0)}

\* What a form of kind k mounts the input of field f with, where the row has v.
Taken(k, f, v) ==
  CASE f # Odd /\ k.mounts = "preset" /\ v = 0 -> Preset
    [] f # Odd /\ k.mounts = "blank" /\ v = NoLimit -> 0
    [] OTHER -> v

Mounted(r) == [open |-> ~kind.shuts,
               inputs |-> IF kind.fromRow THEN [f \in Inputs |-> Taken(kind, f, r[f])] ELSE Start,
               shown |-> r, asks |-> FALSE, said |-> "nothing", about |-> {}, touched |-> {},
               dirty |-> {}, own |-> {}]
Unmoved == [moved |-> {}, behind |-> {}, crossed |-> {}, undone |-> {}, overlapped |-> FALSE,
            unsure |-> FALSE, before |-> Start]

\* Some rows have nothing, or no limit, where the form of the kind minds it.
Special == CASE kind.mounts = "preset" -> 0 [] kind.mounts = "blank" -> NoLimit [] OTHER -> 1

FormInit ==
  /\ kind \in Kinds /\ edits = 1 /\ callCount = 0
  /\ \E v \in {1, Special} : stored = [f \in Inputs |-> IF f = Odd THEN 1 ELSE v]
  /\ view = [p \in Views |-> Mounted(stored)] /\ note = [p \in Views |-> Unmoved]
  /\ call = [n \in Sends |->
       [by |-> NoPage, of |-> {}, to |-> Start, was |-> Start, stage |-> "none", touched |-> {},
        moved |-> {}]]

Renders(p, v) == view' = [view EXCEPT ![p] = v]
Notes(p, k) == note' = [note EXCEPT ![p] = k]

\* The page is left and loaded again; it hears of its calls no more.
Load(p) ==
  /\ Renders(p, Mounted(stored)) /\ Notes(p, Unmoved)
  /\ call' = [n \in Sends |-> IF n \in Waits(p) THEN [call[n] EXCEPT !.by = NoPage] ELSE call[n]]
  /\ UNCHANGED <<kind, stored, edits, callCount>>

\* A new value is put into an input.  Where it matters, a blank is one.
EditInput(p, f) ==
  /\ view[p].open /\ ~kind.instant /\ (kind.locked => Awaited(p) = {}) /\ edits < MaxEdits
  /\ edits' = edits + 1
  /\ \E v \in {edits', 0} :
       /\ v = 0 => f # Odd /\ (kind.skips \/ kind.mounts = "blank")
       /\ Renders(p, [view[p] EXCEPT !.inputs[f] = v, !.touched = @ \cup {f}, !.dirty = @ \cup {f}])
  /\ UNCHANGED <<kind, stored, callCount, call, note>>

\* Mutant of MaySend: the button is never disabled.
MaySendAgain(p) == view[p].open

MaySend(p) == view[p].open /\ (kind.guarded => Awaited(p) = {})

Send(p, part, ins, touched) ==
  /\ MaySend(p) /\ callCount < MaxSends /\ callCount' = callCount + 1
  /\ call' = [call EXCEPT ![callCount'] =
       [by |-> p, of |-> SentOf(part, ins), to |-> ins, was |-> view[p].inputs, stage |-> "sent",
        touched |-> touched, moved |-> note[p].moved]]
  /\ Renders(p, [view[p] EXCEPT !.inputs = ins, !.touched = touched, !.said = "nothing",
                                !.about = SentOf(part, ins), !.dirty = @ \ part,
                                !.own = @ \cup {callCount'}])
  /\ Notes(p, [note[p] EXCEPT !.undone = {}, !.overlapped = Awaited(p) # {}, !.unsure = FALSE,
                              !.before = stored])
  /\ UNCHANGED <<kind, stored>>

SaveInputs(p, part) ==
  /\ ~kind.instant /\ part \in Parts
  /\ kind.retakes => view[p].touched # {}   \* a role that was not changed is not sent
  /\ Send(p, part, view[p].inputs, view[p].touched)
  /\ UNCHANGED edits

Choose(p, f) ==
  /\ kind.instant /\ edits < MaxEdits /\ edits' = edits + 1
  /\ Send(p, {f}, [view[p].inputs EXCEPT ![f] = edits'], view[p].touched \cup {f})

Altered(new) == {f \in Inputs : new[f] # stored[f]}

Write(n, new) ==
  /\ stored' = new
  /\ call' = [m \in Sends |-> [call[m] EXCEPT !.moved = @ \cup Altered(new),
                                              !.stage = IF m = n THEN "done" ELSE @]]
  /\ note' = [p \in Views |-> [note[p] EXCEPT
       !.moved = @ \cup Altered(new), !.behind = @ \cup Altered(new),
       !.crossed = IF n \in Waits(p) THEN @ ELSE @ \cup Altered(new),
       !.undone = IF n \in Awaited(p) THEN @ ELSE @ \cup Altered(new)]]
  /\ UNCHANGED <<kind, edits, view, callCount>>

Commit(n) ==
  /\ call[n].stage = "sent"
  /\ Write(n, [f \in Inputs |-> IF kind.kept /\ f \in call[n].of THEN call[n].to[f] ELSE stored[f]])

\* The route refuses, or it fails, which it may after it has written.
TurnDown(n) ==
  /\ call[n].stage \in {"sent", "done"} /\ call[n].by # NoPage
  /\ call' = [call EXCEPT ![n].stage = IF @ = "sent" THEN "refused" ELSE "half"]
  /\ UNCHANGED <<kind, stored, edits, view, callCount, note>>

\* A form that has been unmounted hears nothing, but its page does.
TellSuccess(p, n) ==
  Renders(p, [view[p] EXCEPT !.said = IF kind.says /\ n \in view[p].own THEN "saved" ELSE @,
                             !.open = @ /\ ~kind.shuts, !.asks = @ \/ kind.refreshes])

\* An input that was sent at once falls back to what it was.
Fallback(p, n) == [f \in Inputs |-> IF f \in call[n].of THEN call[n].was[f] ELSE view[p].inputs[f]]

TellFailure(p, n) ==
  Renders(p,
    IF n \in view[p].own
    THEN [view[p] EXCEPT !.said = "failed", !.asks = @ \/ kind.anyway,
                         !.inputs = IF kind.instant THEN Fallback(p, n) ELSE @]
    ELSE view[p])

HearsNoMore(n) == call' = [call EXCEPT ![n].by = NoPage]

\* What is not shown yet will not be, by this call.
Unsure(p) == Notes(p, [note[p] EXCEPT !.unsure = TRUE, !.crossed = @ \cup note[p].behind])

Answer(p, n) ==
  /\ n \in Waits(p) /\ HearsNoMore(n)
  /\ \/ call[n].stage = "done" /\ TellSuccess(p, n) /\ UNCHANGED note
     \/ /\ call[n].stage \in {"refused", "half"}
        /\ IF kind.judges THEN TellFailure(p, n) ELSE TellSuccess(p, n)
        /\ IF call[n].stage = "half" THEN Unsure(p) ELSE UNCHANGED note
  /\ UNCHANGED <<kind, stored, edits, callCount>>

\* The inputs are those of the row that the page shows.
Retaken(p) == [note[p] EXCEPT !.moved = note[p].behind]

\* The fetch throws, whatever becomes of the call.
LoseAnswer(p, n) ==
  /\ n \in Waits(p) /\ HearsNoMore(n)
  /\ \/ kind.loss = "told" /\ TellFailure(p, n) /\ Unsure(p)
     \/ kind.loss = "untold" /\ UNCHANGED view /\ Unsure(p)
     \/ kind.loss = "page" /\ Renders(p, Mounted(view[p].shown))
        /\ Notes(p, [Retaken(p) EXCEPT !.crossed = @ \cup note[p].behind])
  /\ UNCHANGED <<kind, stored, edits, callCount>>

Refresh(p) ==
  /\ view[p].asks
  /\ Renders(p, [view[p] EXCEPT !.shown = stored, !.asks = FALSE])
  /\ Notes(p, [note[p] EXCEPT !.behind = {}, !.crossed = {}])
  /\ UNCHANGED <<kind, stored, edits, callCount, call>>

\* Mutant of Retake: a form that is opened again keeps what was typed, as if it were new.
RetakeStale(p, open) ==
  /\ Renders(p, [Mounted(view[p].shown) EXCEPT !.open = open, !.asks = view[p].asks,
                                               !.inputs = view[p].inputs, !.own = view[p].own])
  /\ Notes(p, Retaken(p))
  /\ UNCHANGED <<kind, stored, edits, callCount, call>>

Retake(p, open) ==
  /\ Renders(p, [Mounted(view[p].shown) EXCEPT !.open = open, !.asks = view[p].asks,
                                               !.own = IF kind.retakes THEN {} ELSE view[p].own])
  /\ Notes(p, Retaken(p))
  /\ UNCHANGED <<kind, stored, edits, callCount, call>>

CancelForm(p) == kind.shuts /\ view[p].open /\ Retake(p, FALSE)

Reopen(p) ==
  /\ kind.shuts /\ ~view[p].open
  /\ \/ kind.retakes /\ Retake(p, TRUE)
     \/ ~kind.retakes /\ Renders(p, [view[p] EXCEPT !.open = TRUE])
        /\ UNCHANGED <<kind, stored, edits, callCount, call, note>>

FormNext ==
  \/ \E p \in Views :
       \/ Load(p) \/ Refresh(p) \/ CancelForm(p) \/ Reopen(p)
       \/ \E f \in Inputs : EditInput(p, f) \/ Choose(p, f)
       \/ \E part \in Parts : SaveInputs(p, part)
       \/ \E n \in Waits(p) : Answer(p, n) \/ LoseAnswer(p, n)
  \/ \E n \in Sends : Commit(n) \/ TurnDown(n)

FormSpec == FormInit /\ [][FormNext]_formVars

-------------------------------------------------------------------------------
(* Properties *)

\* What a form says became of its call is so: if it says that it saved, the row
\* has its inputs, but for those that were edited since; if it says that it
\* failed, the row is as it was.  Excepted are a field that somebody else wrote
\* since, a page that cannot know (the answer was lost, or the route failed
\* after it had written), saves of a form that does not wait for the one before,
\* and a form whose route ignores what it sends.
OutcomeIsTold ==
  \A p \in Views : kind.kept /\ (kind.guarded \/ ~note[p].overlapped) =>
    /\ view[p].said = "saved" =>
         \A f \in view[p].about \ (view[p].dirty \cup note[p].undone) : stored[f] = view[p].inputs[f]
    /\ view[p].said = "failed" /\ ~note[p].unsure =>
         \A f \in view[p].about \ note[p].undone : stored[f] = note[p].before[f]

\* Where a success makes the page read the row again, a page at rest shows the
\* row as it is, but for what others have written since, or a call of its own
\* of which it heard nothing.
ShownIsRow ==
  \A p \in Views : kind.refreshes /\ Waits(p) = {} /\ ~view[p].asks =>
    \A f \in Inputs \ note[p].crossed : view[p].shown[f] = stored[f]

\* What a page says of its saves is so, and what it shows is the row
\* (settings-form.tsx and the other forms of the console).
PageIsRight == OutcomeIsTold /\ ShownIsRow

\* A save of a form that starts from the row leaves a field that was not edited
\* as it is, or makes it what the form had mounted in its place: a default where
\* it was unset, nothing where it was unlimited.  It puts another value there
\* only if somebody changed the field after the form had taken it over: then
\* that is the older value, for every input is sent.
SavesOnlyEdits ==
  [][\A n \in Sends : kind.fromRow /\ call[n].stage # "done" /\ call'[n].stage = "done" =>
       \A f \in Inputs \ (call[n].touched \cup call[n].moved) :
         stored'[f] \in {stored[f], Taken(kind, f, stored[f])}]_formVars
==============================================================================
