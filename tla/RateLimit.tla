------------------------------- MODULE RateLimit ------------------------------
(***************************************************************************)
(* The sliding-window rate limiter: a request takes the time, and a script  *)
(* that Redis runs as one step forgets the times that left the window,      *)
(* counts the rest and adds the request's own time while there are fewer    *)
(* than Limit.  A request may take up to Delay from reading its clock to    *)
(* the script, so times reach Redis out of order.                           *)
(*                                                                         *)
(* The module follows the key of one caller (a tenant, a user or an         *)
(* address).  Where Redis cannot be reached the request is let through.     *)
(***************************************************************************)
EXTENDS Integers, FiniteSets

CONSTANTS
  Requesters,  \* requests under way at one time
  Limit, Window,
  Delay,       \* the longest from a request's clock to the script
  LastTime, LastMember, MaxOutages  \* bounds of the model-checked instance

ASSUME RateLimitAssumption ==
  /\ Limit \in Nat \ {0} /\ Window \in Nat \ {0}
  /\ Delay \in Nat /\ Delay < Window
  /\ LastTime \in Nat /\ LastMember \in Nat /\ MaxOutages \in Nat

VARIABLES
  clock,
  scores,    \* the sorted set: members with their time, and what makes them unique
  expiry,    \* when Redis drops the whole set
  asked,     \* the member of each request between its clock and the script
  members,   \* how many members were made
  admitted,  \* the members the script let through (history)
  refusal,   \* the last refusal: its reset time, and what was let through before (history)
  outages    \* connections that broke

limiterVars == <<clock, scores, expiry, asked, members, admitted, refusal, outages>>

Members == [at : 0..LastTime, id : 1..LastMember]
NoMember == [at |-> 0, id |-> 0]

LimiterTypeOK ==
  /\ clock \in 0..LastTime
  /\ scores \in SUBSET Members
  /\ expiry \in Nat
  /\ asked \in [Requesters -> Members \cup {NoMember}]
  /\ members \in 0..LastMember
  /\ admitted \in SUBSET Members
  /\ refusal \in [reset : Nat, admitted : SUBSET Members]
  /\ outages \in 0..MaxOutages

LimiterInit ==
  /\ clock = 0
  /\ scores = {} /\ expiry = 0
  /\ asked = [r \in Requesters |-> NoMember]
  /\ members = 0 /\ admitted = {}
  /\ refusal = [reset |-> 0, admitted |-> {}]
  /\ outages = 0

-------------------------------------------------------------------------------
(* The script *)

\* What Redis still holds: the set is dropped once Window passed since the last addition.
Held == IF clock >= expiry THEN {} ELSE scores

\* The members inside the window that ends at now.
Inside(now) == {m \in Held : m.at > now - Window}

\* Mutant of HasRoom: one request more than the limit.
HasRoomForOneMore(now) == Cardinality(Inside(now)) <= Limit
HasRoom(now) == Cardinality(Inside(now)) < Limit

\* The answer arrives, or the connection breaks and the client sends the
\* script again; whether the request is let through when no answer ever comes
\* is left out.
Replied(r) ==
  \/ asked' = [asked EXCEPT ![r] = NoMember] /\ UNCHANGED outages
  \/ outages < MaxOutages /\ outages' = outages + 1 /\ UNCHANGED asked

Admit(r) ==
  /\ asked[r] # NoMember /\ HasRoom(asked[r].at)
  /\ scores' = Inside(asked[r].at) \cup {asked[r]}
  /\ expiry' = clock + Window
  /\ admitted' = admitted \cup {asked[r]}
  /\ Replied(r)
  /\ UNCHANGED <<clock, members, refusal>>

Refuse(r) ==
  /\ asked[r] # NoMember /\ ~ HasRoom(asked[r].at)
  /\ scores' = Inside(asked[r].at)
  /\ \E oldest \in Inside(asked[r].at) :
       /\ \A m \in Inside(asked[r].at) : oldest.at <= m.at
       /\ refusal' = [reset |-> oldest.at + Window, admitted |-> admitted]
  /\ Replied(r)
  /\ UNCHANGED <<clock, expiry, members, admitted>>

-------------------------------------------------------------------------------
(* Requests and time *)

AskLimiter(r) ==
  /\ asked[r] = NoMember /\ members < LastMember
  /\ members' = members + 1
  /\ asked' = [asked EXCEPT ![r] = [at |-> clock, id |-> members + 1]]
  /\ UNCHANGED <<clock, scores, expiry, admitted, refusal, outages>>

\* Redis cannot be reached: the request is let through and not counted.
LetThrough(r) ==
  /\ asked[r] # NoMember /\ outages < MaxOutages
  /\ outages' = outages + 1
  /\ asked' = [asked EXCEPT ![r] = NoMember]
  /\ UNCHANGED <<clock, scores, expiry, members, admitted, refusal>>

\* No request is under way for longer than Delay.
PassTime ==
  /\ clock < LastTime
  /\ \A r \in Requesters : asked[r] = NoMember \/ clock < asked[r].at + Delay
  /\ clock' = clock + 1
  /\ UNCHANGED <<scores, expiry, asked, members, admitted, refusal, outages>>

LimiterNext ==
  \/ \E r \in Requesters : AskLimiter(r) \/ Admit(r) \/ Refuse(r) \/ LetThrough(r)
  \/ PassTime

LimiterSpec == LimiterInit /\ [][LimiterNext]_limiterVars

-------------------------------------------------------------------------------
(* However late the requests reach Redis, whatever is sent twice and although
   the set expires, the script lets at most Limit of them through in any
   stretch that is Delay shorter than the window.  (In a whole window it can
   let more through: a late request forgets by its own clock.) *)
Stretch(t) == {m \in admitted : t <= m.at /\ m.at < t + Window - Delay}
WindowBounded == \A t \in 0..LastTime : Cardinality(Stretch(t)) <= Limit

(* A refusal tells its caller when to come back: if nothing was let through
   since, a request made at that time, to the millisecond, has room. *)
ResetHasRoom == refusal.reset > 0 /\ refusal.admitted = admitted => HasRoom(refusal.reset)
===============================================================================
