------------------------------- MODULE Checkout -------------------------------
(***************************************************************************)
(* Paying for a plan: POST /api/billing/checkout finds or makes the         *)
(* tenant's customer at Stripe and opens a payment page for it; the events  *)
(* Stripe sends once the plan is paid make the subscription row if it is    *)
(* missing; POST /api/billing/portal opens the bills of its customer.       *)
(*                                                                         *)
(* A customer is named after the checkout that made it.                     *)
(***************************************************************************)
EXTENDS Integers, FiniteSets

CONSTANTS
  Payers,     \* tenants that pay
  Checkouts,  \* calls of the checkout route, each made once
  NoRow, NoCustomer

ASSUME CheckoutAssumption ==
  /\ NoRow \notin Checkouts /\ NoCustomer \notin Checkouts /\ NoRow # NoCustomer

VARIABLES
  checkout,   \* each call: its tenant, the row and the customer it goes on with
  customers,  \* Stripe's customers
  billed,     \* each tenant's subscription row: missing, or the customer on it
  paid,       \* customers that have a subscription
  payer,      \* the customer that last paid for the tenant
  told,       \* tenants of which an event of its payer has been handled since
  unkept      \* tenants for whom a customer was made and not kept in time (history)

checkoutVars == <<checkout, customers, billed, paid, payer, told, unkept>>

CheckoutSteps == {"new", "create", "keep", "session", "pay", "over"}
RowCustomer == Checkouts \cup {NoRow, NoCustomer}
FreshCheckout == [step |-> "new", of |-> NoRow, row |-> NoRow, customer |-> NoCustomer]

CheckoutCall == [step : CheckoutSteps, of : Payers \cup {NoRow}, row : RowCustomer,
                 customer : Checkouts \cup {NoCustomer}]

CheckoutTypeOK ==
  /\ checkout \in [Checkouts -> CheckoutCall]
  /\ customers \in SUBSET Checkouts /\ paid \in SUBSET Checkouts
  /\ billed \in [Payers -> RowCustomer]
  /\ payer \in [Payers -> Checkouts \cup {NoCustomer}]
  /\ told \in SUBSET Payers /\ unkept \in SUBSET Payers

CheckoutInit ==
  /\ checkout = [c \in Checkouts |-> FreshCheckout]
  /\ customers = {} /\ paid = {} /\ payer = [s \in Payers |-> NoCustomer]
  /\ billed = [s \in Payers |-> NoRow]
  /\ told = {} /\ unkept = {}

\* Calls for s between their reading of the row and their writing of it.
Making(s) == {c \in Checkouts : checkout[c].of = s /\ checkout[c].step \in {"create", "keep"}}
MadeFor(s) == {c \in customers : checkout[c].of = s}
\* Customers that had no row to be kept on.
Unkeepable(s) == {c \in MadeFor(s) : checkout[c].row = NoRow}

-------------------------------------------------------------------------------
(* The call *)

\* It reads the tenant's row, and skips the customer when the row has one.
StartCheckout(c, s) ==
  /\ checkout[c].step = "new"
  /\ checkout' = [checkout EXCEPT ![c] =
       IF billed[s] \in Checkouts
       THEN [step |-> "session", of |-> s, row |-> billed[s], customer |-> billed[s]]
       ELSE [step |-> "create", of |-> s, row |-> billed[s], customer |-> NoCustomer]]
  /\ unkept' = IF Making(s) # {} \/ (Unkeepable(s) # {} /\ billed[s] \notin Checkouts)
               THEN unkept \cup {s} ELSE unkept
  /\ UNCHANGED <<customers, billed, paid, payer, told>>

\* Only a row that was there when the call began can keep the customer.
CreateCustomer(c) ==
  /\ checkout[c].step = "create"
  /\ customers' = customers \cup {c}
  /\ checkout' = [checkout EXCEPT ![c] =
       [@ EXCEPT !.customer = c, !.step = IF checkout[c].row = NoRow THEN "session" ELSE "keep"]]
  /\ UNCHANGED <<billed, paid, payer, told, unkept>>

KeepCustomer(c) ==
  /\ checkout[c].step = "keep"
  /\ billed' = [billed EXCEPT ![checkout[c].of] = c]
  /\ checkout' = [checkout EXCEPT ![c].step = "session"]
  /\ UNCHANGED <<customers, paid, payer, told, unkept>>

OpenSession(c) ==
  /\ checkout[c].step = "session"
  /\ checkout' = [checkout EXCEPT ![c].step = "pay"]
  /\ UNCHANGED <<customers, billed, paid, payer, told, unkept>>

\* Stripe or the database fails, or the process ends; or the page is left unpaid.
AbandonCheckout(c) ==
  /\ checkout[c].step \in {"create", "keep", "session", "pay"}
  /\ checkout' = [checkout EXCEPT ![c].step = "over"]
  /\ unkept' = IF checkout[c].step = "keep" THEN unkept \cup {checkout[c].of} ELSE unkept
  /\ UNCHANGED <<customers, billed, paid, payer, told>>

-------------------------------------------------------------------------------
(* Stripe, the console and the portal *)

\* Stripe takes the payment and will send its event.
Pay(c) ==
  /\ checkout[c].step = "pay"
  /\ checkout' = [checkout EXCEPT ![c].step = "over"]
  /\ paid' = paid \cup {checkout[c].customer}
  /\ payer' = [payer EXCEPT ![checkout[c].of] = checkout[c].customer]
  /\ told' = told \ {checkout[c].of}
  /\ UNCHANGED <<customers, billed, unkept>>

\* A subscription's event, handled, makes a missing row; it leaves the customer
\* of a row that is there.
Handled(s, k, customer) ==
  /\ k \in paid /\ checkout[k].of = s
  /\ billed' = [billed EXCEPT ![s] = IF @ = NoRow THEN customer ELSE @]
  /\ told' = IF k = payer[s] THEN told \cup {s} ELSE told
  /\ UNCHANGED <<checkout, customers, paid, payer, unkept>>

\* Mutant of HandleSubscription: the row is made without its customer.
HandleBare(s, k) == Handled(s, k, NoCustomer)

\* Stripe sends an event when the subscription is made and at each change of
\* it, and sends it again when it must: any that was paid may be told of, in
\* any order and many times.
HandleSubscription(s, k) == Handled(s, k, k)

\* An admin gives the tenant a plan: the row is made without a customer.
GrantPlan(s) ==
  /\ billed[s] = NoRow
  /\ billed' = [billed EXCEPT ![s] = NoCustomer]
  /\ unkept' = IF Making(s) \cup Unkeepable(s) # {} THEN unkept \cup {s} ELSE unkept
  /\ UNCHANGED <<checkout, customers, paid, payer, told>>

CheckoutNext ==
  \/ \E c \in Checkouts :
       \/ \E s \in Payers : StartCheckout(c, s)
       \/ CreateCustomer(c) \/ KeepCustomer(c) \/ OpenSession(c) \/ AbandonCheckout(c) \/ Pay(c)
  \/ \E s \in Payers : GrantPlan(s) \/ \E k \in Checkouts : HandleSubscription(s, k)

CheckoutSpec == CheckoutInit /\ [][CheckoutNext]_checkoutVars

-------------------------------------------------------------------------------
(* The customers that POST /api/billing/portal can open for a tenant: it
   refuses one whose row is missing or bare. *)
PortalOpens(s) == {billed[s]} \cap Checkouts

(* Once an event of a payment is handled the portal opens the bills of the
   customer that paid, unless several customers were made, or an admin made
   the row after a call had found none. *)
PortalShowsPayer == \A s \in told \ unkept : PortalOpens(s) = {payer[s]}
===============================================================================
