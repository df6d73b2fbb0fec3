---------------------------- MODULE KeycloakClient ----------------------------
(***************************************************************************)
(* The one Keycloak client, "web", through which every tenant signs in.     *)
(* Provisioning a tenant adds its host to the client's redirect URIs, and   *)
(* the console puts an app's branding path into the client's attributes.    *)
(* Both read the whole client, change their part of the copy and write the  *)
(* whole copy back; Keycloak takes the last one.  A path that is cleared in  *)
(* the console is cleared in the app's row only: Keycloak keeps what it has. *)
(***************************************************************************)
EXTENDS Integers

CONSTANTS
  Hosts,      \* the tenants' hosts, each with its provisioning job
  Editors,    \* administrators who save the app's configuration
  Paths, OldPath, \* branding paths, none of them blank; the one at the start
  BlankPath,      \* no path
  NoCopy,
  MaxSaves    \* bound on the saves and on the runs of provisioning

ASSUME ClientAssumption ==
  /\ Hosts \cap Editors = {} /\ OldPath \in Paths /\ BlankPath \notin Paths /\ MaxSaves \in Nat
  /\ NoCopy \notin [hosts : SUBSET Hosts, path : Paths]

Hands == Hosts \cup Editors

VARIABLES
  client,     \* the hosts and the branding path that Keycloak has
  config,     \* the branding path in the app's row
  copy,       \* what each writer has read of the client, and what it was given
  registered, \* hosts whose registration was reported as done
  reportedLate, \* the last save of a path told its administrator that Keycloak was not reached
  saves,
  sent,       \* the last path that was saved and not blank (history)
  overtaken,  \* writers whose copy is older than the client (history)
  lost,       \* hosts that an overtaken writer removed (history)
  crossed     \* an overtaken writer wrote, or two saves overlapped (history)

marks      == <<sent, overtaken, lost, crossed>>
clientVars == <<client, config, copy, registered, reportedLate, saves, marks>>

Client == [hosts : SUBSET Hosts, path : Paths]
Free == [step |-> "free", read |-> NoCopy, path |-> OldPath]

Copy == [step : {"free", "get", "put"}, read : Client \cup {NoCopy}, path : Paths]

ClientTypeOK ==
  /\ client \in Client /\ config \in Paths \cup {BlankPath} /\ sent \in Paths
  /\ copy \in [Hands -> Copy]
  /\ registered \in SUBSET Hosts /\ reportedLate \in BOOLEAN /\ saves \in 0..MaxSaves
  /\ overtaken \in SUBSET Hands /\ lost \in SUBSET Hosts /\ crossed \in BOOLEAN

ClientInit ==
  /\ client = [hosts |-> {}, path |-> OldPath] /\ config = OldPath /\ sent = OldPath
  /\ copy = [w \in Hands |-> Free]
  /\ registered = {} /\ reportedLate = FALSE /\ saves = 0
  /\ overtaken = {} /\ lost = {} /\ crossed = FALSE

-------------------------------------------------------------------------------
Starts(w, path) ==
  /\ copy[w].step = "free" /\ saves < MaxSaves /\ saves' = saves + 1
  /\ copy' = [copy EXCEPT ![w] = [step |-> "get", read |-> NoCopy, path |-> path]]
Ends(w) == copy' = [copy EXCEPT ![w] = Free]

\* A run of the tenant's provisioning, the first one or a retry.
Provisioning(h) ==
  /\ Starts(h, OldPath)
  /\ registered' = registered \ {h}
  /\ UNCHANGED <<client, config, reportedLate, marks>>

\* PATCH /api/admin/connected-apps/[id] commits the row first.
SavePath(e, path) ==
  /\ Starts(e, path)
  /\ config' = path /\ sent' = path /\ reportedLate' = FALSE
  /\ crossed' = (crossed \/ \E o \in Editors : copy[o].step # "free")
  /\ UNCHANGED <<client, registered, overtaken, lost>>

\* A blank path is left out of the configuration: the row is saved without it, and
\* nothing is sent.
ClearPath(e) ==
  /\ copy[e].step = "free" /\ saves < MaxSaves /\ saves' = saves + 1
  /\ config' = BlankPath
  /\ UNCHANGED <<client, copy, registered, reportedLate, marks>>

\* What a writer changes of the client.
Changed(w, c) ==
  IF w \in Hosts THEN [c EXCEPT !.hosts = @ \cup {w}] ELSE [c EXCEPT !.path = copy[w].path]

\* Mutant of GetClient: the hosts that are there are not read.
GetClientAfresh(w) ==
  /\ copy[w].step = "get" /\ Changed(w, client) # client
  /\ copy' = [copy EXCEPT ![w].step = "put", ![w].read = [client EXCEPT !.hosts = {}]]
  /\ overtaken' = overtaken \ {w}
  /\ UNCHANGED <<client, config, registered, reportedLate, saves, sent, lost, crossed>>

GetClient(w) ==
  /\ copy[w].step = "get" /\ Changed(w, client) # client
  /\ copy' = [copy EXCEPT ![w].step = "put", ![w].read = client]
  /\ overtaken' = overtaken \ {w}
  /\ UNCHANGED <<client, config, registered, reportedLate, saves, sent, lost, crossed>>

\* A client that has it all already is not written.
UpToDate(w) ==
  /\ copy[w].step = "get" /\ Changed(w, client) = client
  /\ registered' = registered \cup ({w} \cap Hosts)
  /\ Ends(w)
  /\ UNCHANGED <<client, config, reportedLate, saves, marks>>

\* What an answer, and one that is lost or an error, means to the writer.
HostDone(w) == registered' = registered \cup ({w} \cap Hosts) /\ UNCHANGED reportedLate
HandFailed(w) == reportedLate' = (reportedLate \/ w \in Editors) /\ UNCHANGED registered

Written(w) ==
  /\ overtaken' = {o \in Hands \ {w} : copy[o].step = "put"}
  /\ lost' = IF w \in overtaken THEN lost \cup (client.hosts \ client'.hosts) ELSE lost \ {w}
  /\ crossed' = (crossed \/ w \in overtaken)
  /\ HostDone(w) \/ HandFailed(w)
  /\ Ends(w)
  /\ UNCHANGED <<config, saves, sent>>

PutClient(w) ==
  /\ copy[w].step = "put"
  /\ client' = Changed(w, copy[w].read)
  /\ Written(w)

\* A call fails: provisioning is retried, and the console says so.
CallFails(w) ==
  /\ copy[w].step \in {"get", "put"}
  /\ HandFailed(w) /\ Ends(w)
  /\ overtaken' = overtaken \ {w}
  /\ UNCHANGED <<client, config, saves, sent, lost, crossed>>

ClientNext ==
  \/ \E h \in Hosts : Provisioning(h)
  \/ \E e \in Editors : ClearPath(e) \/ \E path \in Paths : SavePath(e, path)
  \/ \E w \in Hands : GetClient(w) \/ UpToDate(w) \/ PutClient(w) \/ CallFails(w)

ClientSpec == ClientInit /\ [][ClientNext]_clientVars

-------------------------------------------------------------------------------
(* Properties *)

\* What was put into the client stays there: the host of a tenant whose
\* provisioning has registered it, and, when no save is under way, the path
\* that the console shows; when that is none, the path saved last before it was
\* cleared, which nothing takes out of the client.  The exceptions are a host that
\* a writer with an older copy removed, and a path that the console said was not
\* sent, or that overlapping saves or such a writer put back (keycloak-sync.ts,
\* keycloak-admin.ts).
ClientKeepsBoth ==
  /\ registered \subseteq client.hosts \cup lost
  /\ (\A e \in Editors : copy[e].step = "free") =>
       client.path = (IF config = BlankPath THEN sent ELSE config) \/ reportedLate \/ crossed
===============================================================================
