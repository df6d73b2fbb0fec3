------------------------------- MODULE Webhooks -------------------------------
(***************************************************************************)
(* Outbound webhooks: the endpoints a tenant registers, the pages that show *)
(* and change them, test deliveries, and the worker that delivers events.   *)
(*                                                                         *)
(* A page makes one change at a time and never waits for a list: one that   *)
(* was read before a change may be shown after it.  The routes find the     *)
(* endpoint, change its row and log it, one step each, and any step may     *)
(* fail.  So may every step of a job; a worker may be killed between        *)
(* posting an event, recording the answer and finishing the job.            *)
(***************************************************************************)
EXTENDS Integers

CONSTANTS
  Hooks,       \* webhook endpoints
  HookPages,   \* open pages
  Fetches,     \* the lists that a page waits for at once (a bound)
  Deliveries,
  NoHook,
  Tries,       \* how often the queue runs a job
  MaxStalls    \* bound on the jobs that are run again because a worker died

VARIABLES
  hook,      \* the status of each endpoint's row
  shows,     \* the status that each page shows of each endpoint
  fetch,     \* the lists each page has asked for, and what changed since they were read
  call,      \* the change each page is making
  delivery,  \* the deliveries: their row, their job and what was received
  stalls,
  behind     \* endpoints of which each page does not show the last change (history)

hookVars == <<hook, shows, fetch, call, delivery, stalls, behind>>

Quiet == [op |-> "none", step |-> "none", of |-> NoHook, status |-> "none"]
NoFetch == [step |-> "none", list |-> [e \in Hooks |-> "none"], stale |-> {}]
Unsent == [of |-> NoHook, step |-> "none", test |-> FALSE, row |-> "none", tries |-> 0,
           good |-> FALSE, worked |-> FALSE, mute |-> FALSE, rerun |-> FALSE]

ASSUME HookAssumption == Fetches # {} /\ NoHook \notin Hooks /\ Tries \in Nat \ {0} /\ MaxStalls \in Nat

HookLists == [Hooks -> {"none", "ACTIVE", "PAUSED"}]
Fetch == [step : {"none", "asked", "read"}, list : HookLists, stale : SUBSET Hooks]
HookCall == [op : {"none", "create", "patch", "delete"}, step : {"none", "find", "update", "log"},
             of : Hooks \cup {NoHook}, status : {"none", "ACTIVE", "PAUSED", "DELETED"}]
Delivery == [of : Hooks \cup {NoHook}, test : BOOLEAN,
             step : {"none", "waiting", "post", "record", "finish", "done", "failed"},
             row : {"none", "PENDING", "SUCCESS", "FAILED"}, tries : 0..(Tries + MaxStalls),
             good : BOOLEAN, worked : BOOLEAN, mute : BOOLEAN, rerun : BOOLEAN]

HookTypeOK ==
  /\ hook \in [Hooks -> {"none", "ACTIVE", "PAUSED", "DELETED"}]
  /\ shows \in [HookPages -> HookLists] /\ fetch \in [HookPages -> [Fetches -> Fetch]]
  /\ call \in [HookPages -> HookCall] /\ delivery \in [Deliveries -> Delivery]
  /\ stalls \in 0..MaxStalls
  /\ behind \in [HookPages -> SUBSET Hooks]

HookInit ==
  /\ hook = [e \in Hooks |-> "none"] /\ shows = [p \in HookPages |-> NoFetch.list]
  /\ fetch = [p \in HookPages |-> [f \in Fetches |-> NoFetch]]
  /\ call = [p \in HookPages |-> Quiet] /\ delivery = [d \in Deliveries |-> Unsent]
  /\ stalls = 0 /\ behind = [p \in HookPages |-> {}]

-------------------------------------------------------------------------------
(* The pages and the routes *)

Asked(p, f) == [fetch EXCEPT ![p][f] = [NoFetch EXCEPT !.step = "asked"]]

\* A page that is opened has no list yet and asks for one; the answers to what
\* it asked before have nowhere to go.
OpenPage(p, f) ==
  /\ call[p] = Quiet
  /\ shows' = [shows EXCEPT ![p] = NoFetch.list] /\ behind' = [behind EXCEPT ![p] = Hooks]
  /\ fetch' = [fetch EXCEPT ![p] = [[g \in Fetches |-> NoFetch] EXCEPT ![f].step = "asked"]]
  /\ UNCHANGED <<hook, call, delivery, stalls>>

\* GET /api/webhooks has every endpoint that is not deleted.
Listed == [e \in Hooks |-> IF hook[e] = "DELETED" THEN "none" ELSE hook[e]]

ListHooks(p, f) ==
  /\ fetch[p][f].step = "asked"
  /\ fetch' = [fetch EXCEPT ![p][f] = [step |-> "read", list |-> Listed, stale |-> {}]]
  /\ UNCHANGED <<hook, shows, call, delivery, stalls, behind>>

\* A list replaces what the page shows, whatever has changed since it was read.
\* A change that is still to be answered is shown when it is.
ShowList(p, f) ==
  /\ fetch[p][f].step = "read"
  /\ shows' = [shows EXCEPT ![p] = fetch[p][f].list]
  /\ behind' = [behind EXCEPT ![p] =
       fetch[p][f].stale \cup IF call[p].step = "log" THEN behind[p] \cap {call[p].of} ELSE {}]
  /\ fetch' = [fetch EXCEPT ![p][f] = NoFetch]
  /\ UNCHANGED <<hook, call, delivery, stalls>>

\* A list that does not come leaves the page as it is.
FetchFails(p, f) ==
  /\ fetch[p][f].step # "none"
  /\ fetch' = [fetch EXCEPT ![p][f] = NoFetch]
  /\ UNCHANGED <<hook, shows, call, delivery, stalls, behind>>

Calls(p, op, step, e, status) ==
  /\ call[p] = Quiet
  /\ call' = [call EXCEPT ![p] = [op |-> op, step |-> step, of |-> e, status |-> status]]
  /\ UNCHANGED <<hook, shows, fetch, delivery, stalls, behind>>

AddHook(p, e) == hook[e] = "none" /\ Calls(p, "create", "update", e, "ACTIVE")
ToggleStatus(p, e) ==
  /\ shows[p][e] # "none"
  /\ Calls(p, "patch", "find", e, IF shows[p][e] = "ACTIVE" THEN "PAUSED" ELSE "ACTIVE")
DeleteHook(p, e) == shows[p][e] # "none" /\ Calls(p, "delete", "find", e, "DELETED")

\* A deleted endpoint is not found.
ResolveEndpoint(p) ==
  /\ call[p].step = "find"
  /\ call' = [call EXCEPT ![p] = IF hook[@.of] = "DELETED" THEN Quiet ELSE [call[p] EXCEPT !.step = "update"]]
  /\ UNCHANGED <<hook, shows, fetch, delivery, stalls, behind>>

\* The row is found by its id, whatever its status is by now: an endpoint deleted
\* since it was found comes back.
UpdateHook(p) ==
  LET e == call[p].of IN
  /\ call[p].step = "update" /\ (call[p].op = "create" => hook[e] = "none")
  /\ hook' = [hook EXCEPT ![e] = call[p].status]
  /\ call' = [call EXCEPT ![p].step = "log"]
  /\ behind' = [o \in HookPages |-> IF o = p /\ (call[p].op = "patch" => shows[p][e] # "none")
                                    THEN behind[o] \ {e} ELSE behind[o] \cup {e}]
  /\ fetch' = [o \in HookPages |-> [f \in Fetches |->
       IF fetch[o][f].step = "read" THEN [fetch[o][f] EXCEPT !.stale = @ \cup {e}] ELSE fetch[o][f]]]
  /\ UNCHANGED <<shows, delivery, stalls>>

\* The page shows what became of an endpoint it shows.
RouteAnswers(p, status) ==
  LET e == call[p].of IN
  /\ call[p].step = "log" /\ call[p].op # "create"
  /\ call' = [call EXCEPT ![p] = Quiet]
  /\ shows' = [shows EXCEPT ![p][e] =
       IF call[p].op = "delete" \/ @ = "none" THEN "none" ELSE status]
  /\ UNCHANGED <<hook, fetch, delivery, stalls, behind>>

\* Mutant of AnswerPage: the page flips what it shows by now.
AnswerFlips(p) == RouteAnswers(p, IF shows[p][call[p].of] = "ACTIVE" THEN "PAUSED" ELSE "ACTIVE")

AnswerPage(p) == RouteAnswers(p, call[p].status)

\* After adding an endpoint the page asks for the list, and has nothing to show
\* of the endpoint until then.
AnswerCreated(p, f) ==
  /\ call[p].step = "log" /\ call[p].op = "create" /\ fetch[p][f].step = "none"
  /\ call' = [call EXCEPT ![p] = Quiet] /\ fetch' = Asked(p, f)
  /\ behind' = [behind EXCEPT ![p] = @ \cup {call[p].of}]
  /\ UNCHANGED <<hook, shows, delivery, stalls>>

\* An error, or no answer: the page shows what it showed.
CallBreaks(p) ==
  /\ call[p] # Quiet
  /\ call' = [call EXCEPT ![p] = Quiet]
  /\ behind' = IF call[p].step = "log" THEN [behind EXCEPT ![p] = @ \cup {call[p].of}] ELSE behind
  /\ UNCHANGED <<hook, shows, fetch, delivery, stalls>>

-------------------------------------------------------------------------------
(* Deliveries *)

Delivers(d, r) ==
  /\ delivery' = [delivery EXCEPT ![d] = r]
  /\ UNCHANGED <<hook, shows, fetch, call, behind>>

\* A delivery's row and its job, for an endpoint that is active.
QueueEvent(d, e) ==
  /\ delivery[d] = Unsent /\ hook[e] = "ACTIVE"
  /\ Delivers(d, [Unsent EXCEPT !.of = e, !.step = "waiting", !.row = "PENDING"])
  /\ UNCHANGED stalls

\* POST /api/webhooks/[id]/test has no job, and no row before the answer.
SendTest(d, e) ==
  /\ delivery[d] = Unsent /\ hook[e] \in {"ACTIVE", "PAUSED"}
  /\ Delivers(d, [Unsent EXCEPT !.of = e, !.step = "post", !.test = TRUE])
  /\ UNCHANGED stalls

\* handleWebhookOutbound drops an event whose endpoint is not active.
FindActive(d) ==
  /\ delivery[d].step = "waiting"
  /\ Delivers(d, IF hook[delivery[d].of] = "ACTIVE"
                 THEN [delivery[d] EXCEPT !.step = "post", !.tries = @ + 1]
                 ELSE [delivery[d] EXCEPT !.step = "done"])
  /\ UNCHANGED stalls

\* A job that fails is run again while it has tries left.
Retried(r) == [r EXCEPT !.step = IF r.tries >= Tries THEN "failed" ELSE "waiting", !.good = FALSE]

\* The endpoint could not be looked up: a try is used up and nothing is posted.
LookUpFails(d) ==
  /\ delivery[d].step = "waiting"
  /\ Delivers(d, Retried([delivery[d] EXCEPT !.tries = @ + 1, !.mute = TRUE]))
  /\ UNCHANGED stalls

\* Whoever receives the event answers, well or not.
PostEvent(d, good) ==
  /\ delivery[d].step = "post"
  /\ Delivers(d, [delivery[d] EXCEPT !.step = "record", !.good = good, !.mute = FALSE])
  /\ UNCHANGED stalls

\* No answer in ten seconds, or none at all: the job fails with nothing
\* recorded, and a test records a failure.
PostTimesOut(d) ==
  LET r == delivery[d] IN
  /\ r.step = "post"
  /\ Delivers(d, IF r.test THEN [r EXCEPT !.step = "record", !.good = FALSE]
                 ELSE Retried([r EXCEPT !.mute = TRUE]))
  /\ UNCHANGED stalls

Recorded(r) == [r EXCEPT !.row = IF r.good THEN "SUCCESS" ELSE "FAILED",
                         !.worked = @ \/ r.good, !.good = FALSE]

RecordAnswer(d) ==
  LET r == delivery[d] IN
  /\ r.step = "record"
  /\ Delivers(d, CASE r.test -> [Recorded(r) EXCEPT !.step = "done"]
                   [] r.good -> [Recorded(r) EXCEPT !.step = "finish"]
                   [] OTHER -> Retried(Recorded(r)))
  /\ UNCHANGED stalls

\* The answer could not be recorded: the job fails whatever the answer was, and a
\* test leaves no row.
RecordFails(d) ==
  LET r == delivery[d] IN
  /\ r.step = "record"
  /\ Delivers(d, IF r.test THEN [r EXCEPT !.step = "done", !.good = FALSE]
                 ELSE Retried([r EXCEPT !.mute = TRUE]))
  /\ UNCHANGED stalls

FinishJob(d) ==
  /\ delivery[d].step = "finish"
  /\ Delivers(d, [delivery[d] EXCEPT !.step = "done"])
  /\ UNCHANGED stalls

\* The worker dies and the job stalls; a test dies with its request.
WorkerDies(d) ==
  LET r == delivery[d] IN
  /\ r.step \in {"post", "record", "finish"} /\ stalls < MaxStalls /\ stalls' = stalls + 1
  /\ Delivers(d, IF r.test THEN [r EXCEPT !.step = "done", !.good = FALSE]
                 ELSE [r EXCEPT !.step = "waiting", !.good = FALSE, !.mute = TRUE, !.rerun = TRUE])

HookNext ==
  \/ \E p \in HookPages :
       \/ ResolveEndpoint(p) \/ UpdateHook(p) \/ AnswerPage(p) \/ CallBreaks(p)
       \/ \E f \in Fetches : OpenPage(p, f) \/ ListHooks(p, f) \/ ShowList(p, f) \/ FetchFails(p, f) \/ AnswerCreated(p, f)
       \/ \E e \in Hooks : AddHook(p, e) \/ ToggleStatus(p, e) \/ DeleteHook(p, e)
  \/ \E d \in Deliveries :
       \/ FindActive(d) \/ LookUpFails(d) \/ PostTimesOut(d)
       \/ RecordAnswer(d) \/ RecordFails(d) \/ FinishJob(d) \/ WorkerDies(d)
       \/ \E good \in BOOLEAN : PostEvent(d, good)
       \/ \E e \in Hooks : QueueEvent(d, e) \/ SendTest(d, e)

HookSpec == HookInit /\ [][HookNext]_hookVars

-------------------------------------------------------------------------------
(* Properties *)

\* The status a page shows of an endpoint is its row's, unless the page is known to
\* be behind: it was changed by another page, or by this one without an answer or
\* after the list it shows had been read; or the list with it is still to come
\* (webhooks-client.tsx).
PageShowsRow ==
  \A p \in HookPages, e \in Hooks :
    e \notin behind[p] /\ ~(call[p].step = "log" /\ call[p].of = e) => shows[p][e] = Listed[e]

\* The row of a delivery tells what became of it: one that succeeded says so
\* and is not posted again, unless its worker died before the job was finished;
\* one that was given up says that it failed, unless the last try told the row
\* nothing: the endpoint was not looked up, there was no answer, or the answer,
\* well or not, was not recorded (webhook-outbound.ts).
RowTellsOutcome ==
  \A d \in Deliveries :
    /\ delivery[d].worked /\ ~delivery[d].rerun =>
         delivery[d].row = "SUCCESS" /\ delivery[d].step \in {"finish", "done"}
    /\ delivery[d].step = "failed" => delivery[d].row = "FAILED" \/ delivery[d].mute

\* What a tenant is told of its endpoints and of their deliveries is so
\* (webhooks-client.tsx, webhook-outbound.ts).
HooksAreTold == PageShowsRow /\ RowTellsOutcome
===============================================================================
