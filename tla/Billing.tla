-------------------------------- MODULE Billing --------------------------------
(***************************************************************************)
(* The licence of one tenant.  Stripe reports what happens to the tenant's  *)
(* subscriptions by webhook, at least once and in no guaranteed order; a    *)
(* payment through Khalti or eSewa and the platform administrator write the *)
(* same row.  Every webhook handler is one UPDATE, made from what the event *)
(* says and not from what Stripe says now.                                  *)
(***************************************************************************)
EXTENDS Naturals, Sequences

CONSTANTS
  Subs,       \* Stripe subscriptions
  Plans,      \* SaaSPlan
  Payments,   \* rows of the Payment table
  Tokens,     \* what Khalti gives the browser for a payment
  MaxEvents,  \* bound on the events Stripe creates
  None

ASSUME BillingAssumption ==
  /\ MaxEvents \in Nat
  /\ None \notin Subs \cup Plans \cup Tokens
                 \cup {"none", "active", "past_due", "canceled", "khalti", "esewa"}

VARIABLES
  tenant,      \* the Tenant row
  payment,     \* payment[k]: a Payment row
  verifying,   \* payments and tokens whose verifyKhalti awaits Khalti
  stripe,      \* stripe[x]: the subscription at Stripe
  log,         \* the events Stripe has created, oldest first
  acked,       \* the events answered 200, by index
  current,     \* the subscription started last
  told,        \* the event of a subscription that was handled last, by index
  stale,       \* an invoice of an older event has set the licence since
  overlapped,  \* a subscription was started while another one ran
  manual       \* the row was last licensed by a payment or the administrator

row == <<tenant, payment, verifying>>
cloud == <<stripe, log, current, overlapped>>
delivery == <<acked, told, stale>>
vars == <<row, cloud, delivery, manual>>

NoPayment == [status |-> "none", provider |-> None, plan |-> None, ref |-> None]

SubStatuses == {"none", "active", "past_due", "canceled"}
Live(x) == stripe[x].status \in {"active", "past_due"}

Init ==
  /\ \E p \in Plans : tenant = [plan |-> p, license |-> "ACTIVE", sub |-> None, status |-> None]
  /\ payment = [k \in Payments |-> NoPayment]
  /\ verifying = {}
  /\ stripe = [x \in Subs |-> [status |-> "none", plan |-> None]]
  /\ log = <<>>
  /\ acked = {}
  /\ current = None
  /\ told = 0
  /\ stale = FALSE
  /\ overlapped = FALSE
  /\ manual = FALSE

-----------------------------------------------------------------------------
(* Stripe.                                                                  *)

Checkout(x, p) == [type |-> "checkout", sub |-> x, status |-> "active", plan |-> p]
Subscription(x, status, p) == [type |-> "subscription", sub |-> x, status |-> status, plan |-> p]
Invoice(type, x) == [type |-> type, sub |-> x, status |-> None, plan |-> None]

Becomes(x, status, p, events) ==
  /\ Len(log) + Len(events) <= MaxEvents
  /\ stripe' = [stripe EXCEPT ![x] = [status |-> status, plan |-> p]]
  /\ log' = log \o events
  /\ UNCHANGED <<row, delivery, manual>>

\* The owner completes a checkout session that createCheckoutSession has made: a
\* new subscription, also when the tenant has one.
CheckoutPaid(x, p) ==
  /\ stripe[x].status = "none"
  /\ Becomes(x, "active", p, <<Invoice("paid", x), Checkout(x, p)>>)
  /\ current' = x
  /\ overlapped' = (overlapped \/ \E y \in Subs : Live(y))

RenewalFails(x) ==
  /\ stripe[x].status = "active"
  /\ Becomes(x, "past_due", stripe[x].plan,
             <<Subscription(x, "past_due", stripe[x].plan), Invoice("failed", x)>>)
  /\ UNCHANGED <<current, overlapped>>

RenewalPaid(x) ==
  /\ Live(x)
  /\ Becomes(x, "active", stripe[x].plan,
             <<Subscription(x, "active", stripe[x].plan), Invoice("paid", x)>>)
  /\ UNCHANGED <<current, overlapped>>

\* In the customer portal, or by Stripe after the last retry of an invoice.
SwitchPlan(x, p) ==
  /\ stripe[x].status = "active"
  /\ Becomes(x, "active", p, <<Subscription(x, "active", p)>>)
  /\ UNCHANGED <<current, overlapped>>

Cancel(x) ==
  /\ Live(x)
  /\ Becomes(x, "canceled", stripe[x].plan, <<Subscription(x, "canceled", stripe[x].plan)>>)
  /\ UNCHANGED <<current, overlapped>>

-----------------------------------------------------------------------------
(* handleWebhook.                                                           *)

\* A slip: no status of Stripe is mapped to EXPIRED.
LicenseForUnended(status) == IF status \in {"past_due", "unpaid"} THEN "GRACE" ELSE "ACTIVE"
LicenseFor(status) ==
  CASE status \in {"canceled", "incomplete_expired"} -> "EXPIRED"
    [] status \in {"past_due", "unpaid"} -> "GRACE"
    [] OTHER -> "ACTIVE"

\* A slip: the subscription of the checkout is not stored.
OnCheckoutCompletedWithoutSub(e) ==
  [tenant EXCEPT !.plan = e.plan, !.license = "ACTIVE", !.status = "active"]
OnCheckoutCompleted(e) ==
  [plan |-> e.plan, license |-> "ACTIVE", sub |-> e.sub, status |-> "active"]

\* The event's metadata names the tenant, whatever subscription the row has.
ApplySubscription(e) ==
  [plan |-> e.plan, license |-> LicenseFor(e.status), sub |-> e.sub, status |-> e.status]

\* updateMany WHERE stripeSubscriptionId = the invoice's subscription.
Invoiced(e, license, status) ==
  IF tenant.sub = e.sub THEN [tenant EXCEPT !.license = license, !.status = status] ELSE tenant

\* A slip: a failed payment ends the licence at once.
OnPaymentFailedForGood(e) == Invoiced(e, "EXPIRED", "past_due")
OnPaymentFailed(e) == Invoiced(e, "GRACE", "past_due")
OnInvoicePaid(e) == Invoiced(e, "ACTIVE", "active")

Handled(e) ==
  CASE e.type = "checkout" -> OnCheckoutCompleted(e)
    [] e.type = "subscription" -> ApplySubscription(e)
    [] e.type = "failed" -> OnPaymentFailed(e)
    [] e.type = "paid" -> OnInvoicePaid(e)

Invoices == {"paid", "failed"}

\* The event that says what the subscription is when its i-th event, an invoice, is made.
OwnEvent(i) ==
  IF log[i].type = "paid" /\ i < Len(log) /\ log[i + 1].type = "checkout"
     /\ log[i + 1].sub = log[i].sub
  THEN i + 1 ELSE i - 1

\* Stripe sends an event until it is answered; an answer may get lost.
HandleWebhook(i) ==
  /\ i \in 1..Len(log) \ acked
  /\ tenant' = Handled(log[i])
  /\ acked' \in {acked, acked \cup {i}}
  /\ told' = IF log[i].type \in Invoices THEN told ELSE i
  /\ stale' = CASE log[i].type \notin Invoices -> FALSE
                [] log[i].type \in Invoices /\ tenant.sub = log[i].sub -> told # OwnEvent(i)
                [] OTHER -> stale
  /\ manual' = (manual /\ log[i].type \in Invoices)
  /\ UNCHANGED <<cloud, payment, verifying>>

-----------------------------------------------------------------------------
(* Khalti, eSewa and the administrator.                                     *)

Initiate(k, provider, p) ==
  /\ payment[k] = NoPayment
  /\ payment' = [payment EXCEPT ![k] = [status |-> "pending", provider |-> provider,
                                          plan |-> p, ref |-> None]]
  /\ UNCHANGED <<tenant, verifying, cloud, delivery, manual>>

CompletePayment(k, ref) ==
  /\ payment' = [payment EXCEPT ![k].status = "completed", ![k].ref = ref]
  /\ tenant' = [tenant EXCEPT !.plan = payment[k].plan, !.license = "ACTIVE"]
  /\ manual' = TRUE

\* The pending payment is read, then Khalti is asked about the token.
VerifyKhalti(k, t) ==
  /\ payment[k].provider = "khalti" /\ payment[k].status = "pending"
  /\ verifying' = verifying \cup {<<k, t>>}
  /\ UNCHANGED <<tenant, payment, cloud, delivery, manual>>

\* Khalti confirms: the payment is not read again.  The same call may be made twice.
KhaltiConfirms(k, t) ==
  /\ <<k, t>> \in verifying
  /\ CompletePayment(k, t)
  /\ verifying' \in {verifying, verifying \ {<<k, t>>}}
  /\ UNCHANGED <<cloud, delivery>>

\* A slip: a refused verification marks the payment, as a failed callback of eSewa does.
KhaltiRefusesMarking(k, t) ==
  /\ <<k, t>> \in verifying
  /\ verifying' = verifying \ {<<k, t>>}
  /\ payment' = [payment EXCEPT ![k].status = "failed"]
  /\ UNCHANGED <<tenant, cloud, delivery, manual>>
KhaltiRefuses(k, t) ==
  /\ <<k, t>> \in verifying
  /\ verifying' = verifying \ {<<k, t>>}
  /\ UNCHANGED <<tenant, payment, cloud, delivery, manual>>

EsewaCallback(k) ==
  /\ payment[k].provider = "esewa"
  /\ \/ CompletePayment(k, "esewa")
     \/ /\ payment' = [payment EXCEPT ![k].status = "failed"]
        /\ UNCHANGED <<tenant, manual>>
  /\ UNCHANGED <<verifying, cloud, delivery>>

NepalPayments ==
  \/ \E k \in Payments, p \in Plans, provider \in {"khalti", "esewa"} : Initiate(k, provider, p)
  \/ \E k \in Payments, t \in Tokens : VerifyKhalti(k, t) \/ KhaltiConfirms(k, t) \/ KhaltiRefuses(k, t)
  \/ \E k \in Payments : EsewaCallback(k)

\* TenantsService.update.
AdminUpdate(p, license) ==
  /\ tenant' = [tenant EXCEPT !.plan = p, !.license = license]
  /\ manual' = TRUE
  /\ UNCHANGED <<payment, verifying, cloud, delivery>>

Licenses == {"ACTIVE", "GRACE", "EXPIRED"}

Next ==
  \/ \E x \in Subs : RenewalFails(x) \/ RenewalPaid(x) \/ Cancel(x)
  \/ \E x \in Subs, p \in Plans : CheckoutPaid(x, p) \/ SwitchPlan(x, p)
  \/ \E i \in 1..MaxEvents : HandleWebhook(i)
  \/ NepalPayments
  \/ \E p \in Plans, license \in Licenses : AdminUpdate(p, license)

Spec == Init /\ [][Next]_vars

-----------------------------------------------------------------------------
(* Properties.                                                              *)

Events ==
  [type : {"checkout", "subscription"}, sub : Subs, status : SubStatuses, plan : Plans]
    \cup [type : {"paid", "failed"}, sub : Subs, status : {None}, plan : {None}]

PaymentRow ==
  [status : {"none", "pending", "completed", "failed"}, provider : {"khalti", "esewa", None},
   plan : Plans \cup {None}, ref : Tokens \cup {"esewa", None}]

\* Every variable holds a value of its type; a tenant with a subscription has its
\* status too (schema.prisma:40-51, 164-173).
TypeOK ==
  /\ tenant \in [plan : Plans, license : Licenses, sub : Subs \cup {None},
                 status : SubStatuses \cup {None}]
  /\ tenant.sub = None <=> tenant.status = None
  /\ payment \in [Payments -> PaymentRow]
  /\ verifying \subseteq Payments \X Tokens
  /\ stripe \in [Subs -> [status : SubStatuses, plan : Plans \cup {None}]]
  /\ log \in Seq(Events) /\ Len(log) <= MaxEvents
  /\ acked \subseteq 1..Len(log)
  /\ current \in Subs \cup {None}
  /\ told \in 0..Len(log)
  /\ {stale, overlapped, manual} \subseteq BOOLEAN

Settled == acked = 1..Len(log)
\* The newest event of a subscription was handled last, whatever came before.
ToldNewest == told > 0 /\ \A i \in 1..Len(log) : i > told => log[i].type \in Invoices
\* stripe-live-setup.md:139-145.
LicenseTable == [active |-> "ACTIVE", past_due |-> "GRACE", canceled |-> "EXPIRED"]
FollowsStripe ==
  /\ tenant.sub = current
  /\ tenant.plan = stripe[current].plan
  /\ tenant.license = LicenseTable[stripe[current].status]

\* In whatever order events come, and whichever of them are repeated or never arrive: when the
\* newest event of the tenant's subscription is handled, plan and licence become those of
\* the subscription, and they stay so until an older event is handled: repeats in a row change
\* nothing, a late one puts the old licence back, though stripe-live-setup.md:167 calls every
\* double processing safe (billing.service.ts:148-251; the table of stripe-live-setup.md:139-145).
LicenseFollowsStripe ==
  ToldNewest /\ ~stale /\ ~manual /\ ~overlapped => FollowsStripe

\* A tenant is not cut off while the subscription in its row is paid or being retried, in whatever
\* order its events are handled, unless the administrator does it
\* (billing.service.ts:205-240).
PaidIsNeverCutOff ==
  tenant.sub # None /\ Live(tenant.sub) /\ ~manual => tenant.license # "EXPIRED"

\* A Khalti payment that was verified stays so, with its plan, and no verification of it
\* begins any more; those that had begun before, while it was pending, may still end and
\* put their token in place of the first (nepal-payments.service.ts:95-120, 140-157).
VerifiedStays ==
  \A k \in Payments : payment[k].provider = "khalti" /\ payment[k].status = "completed" =>
    /\ payment'[k] = [payment[k] EXCEPT !.ref = payment'[k].ref]
    /\ payment'[k].ref # payment[k].ref => <<k, payment'[k].ref>> \in verifying
    /\ \A t \in Tokens : <<k, t>> \in verifying' => <<k, t>> \in verifying
VerifiedPaymentStays == [][VerifiedStays]_vars

\* A tenant with an active subscription is licensed, also after it bought a second
\* one to upgrade ("active -> ACTIVE", stripe-live-setup.md:143).
UpgradeKeepsLicense ==
  Settled /\ ToldNewest /\ ~stale /\ ~manual /\ (\E x \in Subs : stripe[x].status = "active")
    => tenant.license = "ACTIVE"
=============================================================================
