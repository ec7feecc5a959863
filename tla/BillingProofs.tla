----------------------------- MODULE BillingProofs -----------------------------
(***************************************************************************)
(* Theorems about Billing, for any number of subscriptions, plans, payments  *)
(* and events.                                                               *)
(***************************************************************************)
EXTENDS Billing, TLAPS

\* A renewal is reported by two events: what the subscription has become, then the
\* invoice.  A checkout begins with a paid invoice.
Renewed(events, i, status) ==
  /\ i > 1
  /\ events[i - 1].type = "subscription"
  /\ events[i - 1].sub = events[i].sub
  /\ events[i - 1].status = status
Begins(events, i) ==
  i < Len(events) /\ events[i + 1].type = "checkout" /\ events[i + 1].sub = events[i].sub

LogShape ==
  /\ \A i \in 1..Len(log) : log[i].type = "failed" => Renewed(log, i, "past_due")
  /\ \A i \in 1..Len(log) : log[i].type = "paid" => Renewed(log, i, "active") \/ Begins(log, i)
  /\ \A i, j \in 1..Len(log) :
       /\ log[i].type = "checkout" /\ log[j].type = "checkout"
       /\ log[i].sub = log[j].sub
       => i = j
  /\ \A i \in 1..Len(log) : log[i].type = "checkout" => log[i].status = "active"
  /\ \A i \in 1..Len(log) : stripe[log[i].sub].status # "none"
  /\ \A i \in 1..Len(log) : log[i].status = "canceled" => stripe[log[i].sub].status = "canceled"

\* The event that told what the subscription is, when the i-th is the last one; the
\* invoice that comes before its checkout has none.
Telling(events, i) == events[i].type = "paid" => Renewed(events, i, "active")
Told(events, i) ==
  IF events[i].type \in {"checkout", "subscription"} THEN events[i] ELSE events[i - 1]

\* While subscriptions do not overlap, the log ends with what the current one is.
LogIsCurrent ==
  /\ current # None => Len(log) > 0
  /\ ~overlapped => \A x \in Subs : Live(x) => x = current
  /\ ~overlapped /\ Len(log) > 0 =>
       /\ log[Len(log)].sub = current /\ Telling(log, Len(log))
       /\ Told(log, Len(log)).plan = stripe[current].plan
       /\ Told(log, Len(log)).status = stripe[current].status

\* The row is what the event of a subscription handled last has told, as far as no payment, no
\* administrator and no invoice of another event has written it since.
RowFollowsLog ==
  /\ told = 0 <=> tenant.sub = None
  /\ told > 0 =>
       /\ log[told].type \in {"checkout", "subscription"} /\ tenant.sub = log[told].sub
       /\ ~manual => tenant.plan = log[told].plan
       /\ ~manual /\ ~stale => tenant.license = LicenseFor(log[told].status)
       /\ ~manual /\ log[told].status # "canceled" => tenant.license # "EXPIRED"

\* A subscription that was started has a plan.
PlansKnown == \A x \in Subs : stripe[x].status # "none" => stripe[x].plan \in Plans

\* So has a payment that was begun, and Khalti is asked about its own.
PaymentsKnown ==
  /\ \A k \in Payments : payment[k].provider # None => payment[k].plan \in Plans
  /\ \A v \in verifying : payment[v[1]].provider = "khalti"

BillingInv == TypeOK /\ PlansKnown /\ PaymentsKnown /\ LogShape /\ LogIsCurrent /\ RowFollowsLog

-----------------------------------------------------------------------------
(* Events and rows.                                                         *)

LEMMA EventFacts ==
  ASSUME NEW e \in Events
  PROVE  /\ e.type \in {"checkout", "subscription", "paid", "failed"} /\ e.sub \in Subs
         /\ e.type \in {"checkout", "subscription"} => e.status \in SubStatuses /\ e.plan \in Plans
         /\ e.type \in {"paid", "failed"} => e.status = None
  BY DEF Events

LEMMA NoneFacts ==
  None \notin Subs /\ None \notin Plans /\ None \notin Tokens /\ None # "none" /\ None # "active" /\ None # "past_due"
    /\ None # "canceled" /\ None # "khalti" /\ None # "esewa"
  BY BillingAssumption

LEMMA NewEvents ==
  ASSUME NEW x \in Subs, NEW status \in SubStatuses, NEW p \in Plans
  PROVE  /\ Checkout(x, p) \in Events /\ Checkout(x, p).type = "checkout" /\ Checkout(x, p).sub = x
         /\ Checkout(x, p).status = "active" /\ Checkout(x, p).plan = p
         /\ Subscription(x, status, p) \in Events /\ Subscription(x, status, p).type = "subscription"
         /\ Subscription(x, status, p).sub = x /\ Subscription(x, status, p).status = status
         /\ Subscription(x, status, p).plan = p
  BY DEF Checkout, Subscription, Events, SubStatuses

LEMMA NewInvoices ==
  ASSUME NEW x \in Subs, NEW type \in {"paid", "failed"}
  PROVE  /\ Invoice(type, x) \in Events /\ Invoice(type, x).type = type
         /\ Invoice(type, x).sub = x /\ Invoice(type, x).status = None
  BY DEF Invoice, Events

LEMMA LicenseFacts ==
  /\ LicenseFor("active") = "ACTIVE" /\ LicenseFor("past_due") = "GRACE"
  /\ LicenseFor("canceled") = "EXPIRED"
  /\ \A s \in SubStatuses : LicenseFor(s) \in Licenses /\ (LicenseFor(s) = "EXPIRED" => s = "canceled")
  BY DEF LicenseFor, Licenses, SubStatuses

\* The log has grown by one event, or by two.
GrownBy(n) ==
  /\ log' \in Seq(Events) /\ Len(log') = Len(log) + n /\ Len(log') <= MaxEvents
  /\ \A i \in 1..Len(log) : log'[i] = log[i]

LEMMA OneMore ==
  ASSUME TypeOK, NEW e \in Events, Len(log) + Len(<<e>>) <= MaxEvents, log' = log \o <<e>>
  PROVE  GrownBy(1) /\ log'[Len(log) + 1] = e
<1>1. log \in Seq(Events) /\ <<e>> \in Seq(Events) /\ Len(<<e>>) = 1
  BY DEF TypeOK
<1> QED
  BY <1>1 DEF GrownBy

LEMMA TwoMore ==
  ASSUME TypeOK, NEW e \in Events, NEW f \in Events, Len(log) + Len(<<e, f>>) <= MaxEvents,
         log' = log \o <<e, f>>
  PROVE  GrownBy(2) /\ log'[Len(log) + 1] = e /\ log'[Len(log) + 2] = f
<1>1. log \in Seq(Events) /\ <<e, f>> \in Seq(Events) /\ Len(<<e, f>>) = 2
  BY DEF TypeOK
<1> QED
  BY <1>1 DEF GrownBy

\* The three ways Stripe reports: a checkout, a renewal with its invoice, a change.
Bought(x, p) ==
  /\ stripe[x].status = "none"
  /\ stripe' = [stripe EXCEPT ![x] = [status |-> "active", plan |-> p]]
  /\ GrownBy(2) /\ log'[Len(log) + 1] = Invoice("paid", x) /\ log'[Len(log) + 2] = Checkout(x, p)
  /\ current' = x
  /\ overlapped' = (overlapped \/ \E y \in Subs : Live(y))
Renews(x, status, p, type) ==
  /\ Live(x)
  /\ stripe' = [stripe EXCEPT ![x] = [status |-> status, plan |-> p]]
  /\ GrownBy(2) /\ log'[Len(log) + 1] = Subscription(x, status, p)
  /\ log'[Len(log) + 2] = Invoice(type, x)
  /\ UNCHANGED <<current, overlapped>>
Changes(x, status, p) ==
  /\ Live(x)
  /\ stripe' = [stripe EXCEPT ![x] = [status |-> status, plan |-> p]]
  /\ GrownBy(1) /\ log'[Len(log) + 1] = Subscription(x, status, p)
  /\ UNCHANGED <<current, overlapped>>

RowAndDelivery == <<row, delivery, manual>>

StripeStep ==
  \/ \E x \in Subs : RenewalFails(x) \/ RenewalPaid(x) \/ Cancel(x)
  \/ \E x \in Subs, p \in Plans : CheckoutPaid(x, p) \/ SwitchPlan(x, p)

LEMMA StripeKinds ==
  ASSUME TypeOK, PlansKnown, StripeStep
  PROVE  /\ UNCHANGED RowAndDelivery
         /\ \/ \E x \in Subs, p \in Plans : Bought(x, p)
            \/ \E x \in Subs, p \in Plans : Renews(x, "past_due", p, "failed")
            \/ \E x \in Subs, p \in Plans : Renews(x, "active", p, "paid")
            \/ \E x \in Subs, p \in Plans, s \in {"active", "canceled"} : Changes(x, s, p)
<1>1. ASSUME NEW x \in Subs, NEW p \in Plans, CheckoutPaid(x, p)
      PROVE  UNCHANGED RowAndDelivery /\ Bought(x, p)
  <2>1. Invoice("paid", x) \in Events /\ Checkout(x, p) \in Events
    BY NewInvoices, NewEvents DEF SubStatuses
  <2>2. Becomes(x, "active", p, <<Invoice("paid", x), Checkout(x, p)>>)
    BY <1>1 DEF CheckoutPaid
  <2>3. /\ GrownBy(2) /\ log'[Len(log) + 1] = Invoice("paid", x)
        /\ log'[Len(log) + 2] = Checkout(x, p)
    BY <2>1, <2>2, TwoMore DEF Becomes
  <2> QED
    BY <1>1, <2>2, <2>3 DEF CheckoutPaid, Becomes, Bought, RowAndDelivery
<1>2. ASSUME NEW x \in Subs, RenewalFails(x)
      PROVE  UNCHANGED RowAndDelivery /\ \E p \in Plans : Renews(x, "past_due", p, "failed")
  <2> DEFINE p == stripe[x].plan
  <2>1. p \in Plans /\ Live(x)
    BY <1>2 DEF RenewalFails, PlansKnown, Live
  <2>2. Subscription(x, "past_due", p) \in Events /\ Invoice("failed", x) \in Events
    BY <2>1, NewInvoices, NewEvents DEF SubStatuses
  <2>3. Becomes(x, "past_due", p, <<Subscription(x, "past_due", p), Invoice("failed", x)>>)
    BY <1>2 DEF RenewalFails
  <2>4. /\ GrownBy(2) /\ log'[Len(log) + 1] = Subscription(x, "past_due", p)
        /\ log'[Len(log) + 2] = Invoice("failed", x)
    BY <2>2, <2>3, TwoMore DEF Becomes
  <2> QED
    BY <1>2, <2>1, <2>3, <2>4 DEF RenewalFails, Becomes, Renews, RowAndDelivery
<1>3. ASSUME NEW x \in Subs, RenewalPaid(x)
      PROVE  UNCHANGED RowAndDelivery /\ \E p \in Plans : Renews(x, "active", p, "paid")
  <2> DEFINE p == stripe[x].plan
  <2>1. p \in Plans /\ Live(x)
    BY <1>3 DEF RenewalPaid, PlansKnown, Live
  <2>2. Subscription(x, "active", p) \in Events /\ Invoice("paid", x) \in Events
    BY <2>1, NewInvoices, NewEvents DEF SubStatuses
  <2>3. Becomes(x, "active", p, <<Subscription(x, "active", p), Invoice("paid", x)>>)
    BY <1>3 DEF RenewalPaid
  <2>4. /\ GrownBy(2) /\ log'[Len(log) + 1] = Subscription(x, "active", p)
        /\ log'[Len(log) + 2] = Invoice("paid", x)
    BY <2>2, <2>3, TwoMore DEF Becomes
  <2> QED
    BY <1>3, <2>1, <2>3, <2>4 DEF RenewalPaid, Becomes, Renews, RowAndDelivery
<1>4. ASSUME NEW x \in Subs, NEW p \in Plans, NEW s \in {"active", "canceled"}, Live(x),
             Becomes(x, s, p, <<Subscription(x, s, p)>>), UNCHANGED <<current, overlapped>>
      PROVE  UNCHANGED RowAndDelivery /\ Changes(x, s, p)
  <2>1. Subscription(x, s, p) \in Events
    BY NewEvents DEF SubStatuses
  <2>2. GrownBy(1) /\ log'[Len(log) + 1] = Subscription(x, s, p)
    BY <1>4, <2>1, OneMore DEF Becomes
  <2> QED
    BY <1>4, <2>2 DEF Becomes, Changes, RowAndDelivery
<1>5. ASSUME NEW x \in Subs, Cancel(x)
      PROVE  UNCHANGED RowAndDelivery /\ \E p \in Plans : Changes(x, "canceled", p)
  BY <1>4, <1>5 DEF Cancel, PlansKnown, Live
<1>6. ASSUME NEW x \in Subs, NEW p \in Plans, SwitchPlan(x, p)
      PROVE  UNCHANGED RowAndDelivery /\ Changes(x, "active", p)
  BY <1>4, <1>6 DEF SwitchPlan, Live
<1> QED
  BY <1>1, <1>2, <1>3, <1>5, <1>6 DEF StripeStep

-----------------------------------------------------------------------------
(* What Stripe does.                                                        *)

LEMMA LogFacts ==
  ASSUME TypeOK
  PROVE  /\ log \in Seq(Events) /\ Len(log) \in Nat
         /\ \A i \in 1..Len(log) : log[i] \in Events
  BY DEF TypeOK

\* A subscription that changes: the others stay, and none goes back to "none".
LEMMA StripeFacts ==
  ASSUME TypeOK, NEW x \in Subs, NEW status \in SubStatuses, NEW p \in Plans,
         stripe' = [stripe EXCEPT ![x] = [status |-> status, plan |-> p]]
  PROVE  /\ stripe' \in [Subs -> [status : SubStatuses, plan : Plans \cup {None}]]
         /\ stripe'[x].status = status /\ stripe'[x].plan = p
         /\ \A y \in Subs : y # x => stripe'[y] = stripe[y]
<1> DEFINE new == [status |-> status, plan |-> p]
<1>1. new \in [status : SubStatuses, plan : Plans \cup {None}] /\ new.status = status /\ new.plan = p
  OBVIOUS
<1> HIDE DEF new
<1> QED
  BY <1>1 DEF TypeOK

LEMMA TypesGrow ==
  ASSUME TypeOK, UNCHANGED RowAndDelivery, NEW n \in {1, 2}, GrownBy(n),
         stripe' \in [Subs -> [status : SubStatuses, plan : Plans \cup {None}]],
         current' \in Subs \cup {None}, overlapped' \in BOOLEAN
  PROVE  TypeOK'
<1>1. Len(log) \in Nat /\ Len(log') = Len(log) + n
  BY LogFacts DEF GrownBy
<1>2. 1..Len(log) \subseteq 1..Len(log') /\ 0..Len(log) \subseteq 0..Len(log')
  BY <1>1
<1>3. UNCHANGED <<tenant, payment, verifying, acked, told, stale, manual>>
  BY DEF RowAndDelivery, row, delivery
<1>4. acked' \subseteq 1..Len(log') /\ told' \in 0..Len(log')
  BY <1>2, <1>3 DEF TypeOK
<1> QED
  BY <1>3, <1>4 DEF TypeOK, GrownBy

\* Where an event of the longer log is.
LEMMA Places ==
  ASSUME TypeOK, NEW n \in {1, 2}, GrownBy(n)
  PROVE  /\ Len(log) \in Nat /\ Len(log') = Len(log) + n
         /\ \A i \in 1..Len(log') :
              \/ i \in 1..Len(log)
              \/ i = Len(log) + 1
              \/ n = 2 /\ i = Len(log) + 2
         /\ \A i \in 1..Len(log) : i \in 1..Len(log') /\ log'[i] = log[i]
  BY LogFacts DEF GrownBy

\* A longer log leaves what was told.
LEMMA RowStays ==
  ASSUME TypeOK, RowFollowsLog, UNCHANGED RowAndDelivery, NEW n \in {1, 2}, GrownBy(n)
  PROVE  RowFollowsLog'
<1>1. UNCHANGED <<tenant, told, stale, manual>>
  BY DEF RowAndDelivery, row, delivery
<1>2. told \in 0..Len(log) /\ Len(log) \in Nat
  BY LogFacts DEF TypeOK
<1>3. told > 0 => log'[told] = log[told]
  BY <1>2 DEF GrownBy
<1> QED
  BY <1>1, <1>3 DEF RowFollowsLog

LEMMA BoughtStep ==
  ASSUME BillingInv, UNCHANGED RowAndDelivery, NEW x \in Subs, NEW p \in Plans, Bought(x, p)
  PROVE  BillingInv'
<1>0. TypeOK /\ PlansKnown /\ PaymentsKnown /\ LogShape /\ LogIsCurrent /\ RowFollowsLog /\ GrownBy(2)
  BY DEF BillingInv, Bought
<1> DEFINE n == Len(log)
<1>1. /\ stripe' \in [Subs -> [status : SubStatuses, plan : Plans \cup {None}]]
      /\ stripe'[x].status = "active" /\ stripe'[x].plan = p
      /\ \A y \in Subs : y # x => stripe'[y] = stripe[y]
  BY <1>0, StripeFacts DEF Bought, SubStatuses
<1>2. TypeOK'
  BY <1>0, <1>1, TypesGrow DEF Bought, TypeOK
<1>3. PlansKnown' /\ PaymentsKnown'
  BY <1>0, <1>1 DEF PlansKnown, PaymentsKnown, RowAndDelivery, row
<1>4. /\ n \in Nat /\ Len(log') = n + 2
      /\ \A i \in 1..Len(log') : i \in 1..n \/ i = n + 1 \/ i = n + 2
      /\ \A i \in 1..n : i \in 1..Len(log') /\ log'[i] = log[i]
  BY <1>0, Places
<1>5. /\ log'[n + 1].type = "paid" /\ log'[n + 1].sub = x /\ log'[n + 1].status = None
      /\ log'[n + 2].type = "checkout" /\ log'[n + 2].sub = x /\ log'[n + 2].status = "active"
      /\ log'[n + 2].plan = p
  BY NewInvoices, NewEvents DEF Bought, SubStatuses
<1>6. \A i \in 1..n : log[i] \in Events /\ log[i].sub \in Subs /\ log[i].sub # x
  BY <1>0, LogFacts, EventFacts DEF LogShape, Bought
<1>7. LogShape'
  <2>1. \A i \in 1..Len(log') : log'[i].type = "failed" => Renewed(log', i, "past_due")
    <3>1. SUFFICES ASSUME NEW i \in 1..n, log[i].type = "failed" PROVE Renewed(log', i, "past_due")
      BY <1>4, <1>5
    <3>2. Renewed(log, i, "past_due") /\ i - 1 \in 1..n
      BY <1>0, <1>4, <3>1 DEF LogShape, Renewed
    <3> QED
      BY <1>4, <3>1, <3>2 DEF Renewed
  <2>2. \A i \in 1..Len(log') : log'[i].type = "paid" => Renewed(log', i, "active") \/ Begins(log', i)
    <3>1. CASE n + 1 \in 1..Len(log')
      <4>1. Begins(log', n + 1)
        BY <1>4, <1>5 DEF Begins
      <4>2. ASSUME NEW i \in 1..n, log[i].type = "paid" PROVE Renewed(log', i, "active") \/ Begins(log', i)
        <5>1. CASE Renewed(log, i, "active")
          <6>1. i - 1 \in 1..n
            BY <1>4, <5>1 DEF Renewed
          <6> QED
            BY <1>4, <5>1, <6>1 DEF Renewed
        <5>2. CASE Begins(log, i)
          <6>1. i + 1 \in 1..n /\ i < Len(log')
            BY <1>4, <5>2 DEF Begins
          <6> QED
            BY <1>4, <5>2, <6>1 DEF Begins
        <5> QED
          BY <1>0, <4>2, <5>1, <5>2 DEF LogShape
      <4> QED
        BY <1>4, <1>5, <4>1, <4>2
    <3> QED
      BY <1>4, <3>1
  <2>3. \A i, j \in 1..Len(log') :
          /\ log'[i].type = "checkout" /\ log'[j].type = "checkout"
          /\ log'[i].sub = log'[j].sub
          => i = j
    BY <1>0, <1>4, <1>5, <1>6 DEF LogShape
  <2>6. \A i \in 1..Len(log') : log'[i].type = "checkout" => log'[i].status = "active"
    BY <1>0, <1>4, <1>5 DEF LogShape
  <2>4. \A i \in 1..Len(log') : stripe'[log'[i].sub].status # "none"
    BY <1>0, <1>1, <1>4, <1>5, <1>6 DEF LogShape
  <2>5. \A i \in 1..Len(log') : log'[i].status = "canceled" => stripe'[log'[i].sub].status = "canceled"
    BY <1>0, <1>1, <1>4, <1>5, <1>6, NoneFacts DEF LogShape
  <2> QED
    BY <2>1, <2>2, <2>3, <2>4, <2>5, <2>6 DEF LogShape
<1>8. LogIsCurrent'
  <2>1. Len(log') > 0 /\ current' = x
    BY <1>4 DEF Bought
  <2>2. ASSUME ~overlapped'
        PROVE  /\ \A y \in Subs : Live(y)' => y = x
               /\ Told(log', Len(log')) = log'[n + 2] /\ Telling(log', Len(log'))
    <3>1. \A y \in Subs : Live(y)' => y = x
      BY <1>1, <2>2 DEF Bought, Live
    <3>2. Told(log', Len(log')) = log'[n + 2] /\ Telling(log', Len(log'))
      BY <1>4, <1>5 DEF Told, Telling
    <3> QED
      BY <3>1, <3>2
  <2> QED
    BY <1>1, <1>4, <1>5, <2>1, <2>2 DEF LogIsCurrent
<1>9. RowFollowsLog'
  BY <1>0, RowStays
<1> QED
  BY <1>2, <1>3, <1>7, <1>8, <1>9 DEF BillingInv

\* A renewal or a change of a subscription that runs: both begin with the event that
\* tells what it has become.
LEMMA ReportStep ==
  ASSUME BillingInv, UNCHANGED RowAndDelivery, NEW x \in Subs, NEW p \in Plans,
         NEW status \in {"active", "past_due", "canceled"}, NEW n \in {1, 2},
         Live(x), stripe' = [stripe EXCEPT ![x] = [status |-> status, plan |-> p]],
         GrownBy(n), log'[Len(log) + 1] = Subscription(x, status, p),
         n = 2 => \/ status = "past_due" /\ log'[Len(log) + 2] = Invoice("failed", x)
                  \/ status = "active" /\ log'[Len(log) + 2] = Invoice("paid", x),
         UNCHANGED <<current, overlapped>>
  PROVE  BillingInv'
<1>0. TypeOK /\ PlansKnown /\ PaymentsKnown /\ LogShape /\ LogIsCurrent /\ RowFollowsLog
  BY DEF BillingInv
<1> DEFINE l == Len(log)
<1>1. /\ stripe' \in [Subs -> [status : SubStatuses, plan : Plans \cup {None}]]
      /\ stripe'[x].status = status /\ stripe'[x].plan = p
      /\ \A y \in Subs : y # x => stripe'[y] = stripe[y]
  BY <1>0, StripeFacts DEF SubStatuses
<1>2. TypeOK'
  BY <1>0, <1>1, TypesGrow DEF TypeOK
<1>3. PlansKnown' /\ PaymentsKnown'
  BY <1>0, <1>1 DEF PlansKnown, PaymentsKnown, RowAndDelivery, row
<1>4. /\ l \in Nat /\ Len(log') = l + n
      /\ \A i \in 1..Len(log') : i \in 1..l \/ i = l + 1 \/ (n = 2 /\ i = l + 2)
      /\ \A i \in 1..l : i \in 1..Len(log') /\ log'[i] = log[i]
  BY <1>0, Places
<1>5. /\ log'[l + 1].type = "subscription" /\ log'[l + 1].sub = x
      /\ log'[l + 1].status = status /\ log'[l + 1].plan = p
  BY NewEvents DEF SubStatuses
<1>6. n = 2 => /\ log'[l + 2].sub = x /\ log'[l + 2].status = None
               /\ \/ status = "past_due" /\ log'[l + 2].type = "failed"
                  \/ status = "active" /\ log'[l + 2].type = "paid"
  BY NewInvoices
<1>7. \A i \in 1..l : log[i] \in Events /\ log[i].sub \in Subs
  BY <1>0, LogFacts, EventFacts
<1>8. n = 2 => Renewed(log', l + 2, status)
  <2>1. l + 2 > 1 /\ (l + 2) - 1 = l + 1
    BY <1>4
  <2> QED
    BY <1>5, <1>6, <2>1 DEF Renewed
<1>9. LogShape'
  <2>1. \A i \in 1..Len(log') : log'[i].type = "failed" => Renewed(log', i, "past_due")
    <3>1. ASSUME NEW i \in 1..l, log[i].type = "failed" PROVE Renewed(log', i, "past_due")
      <4>1. Renewed(log, i, "past_due") /\ i - 1 \in 1..l
        BY <1>0, <1>4, <3>1 DEF LogShape, Renewed
      <4> QED
        BY <1>4, <3>1, <4>1 DEF Renewed
    <3> QED
      BY <1>4, <1>5, <1>6, <1>8, <3>1
  <2>2. \A i \in 1..Len(log') : log'[i].type = "paid" => Renewed(log', i, "active") \/ Begins(log', i)
    <3>1. ASSUME NEW i \in 1..l, log[i].type = "paid" PROVE Renewed(log', i, "active") \/ Begins(log', i)
      <4>1. CASE Renewed(log, i, "active")
        <5>1. i - 1 \in 1..l
          BY <1>4, <4>1 DEF Renewed
        <5> QED
          BY <1>4, <4>1, <5>1 DEF Renewed
      <4>2. CASE Begins(log, i)
        <5>1. i + 1 \in 1..l /\ i < Len(log')
          BY <1>4, <4>2 DEF Begins
        <5> QED
          BY <1>4, <4>2, <5>1 DEF Begins
      <4> QED
        BY <1>0, <3>1, <4>1, <4>2 DEF LogShape
    <3> QED
      BY <1>4, <1>5, <1>6, <1>8, <3>1
  <2>3. \A i \in 1..Len(log') : log'[i].type = "checkout" => i \in 1..l /\ log'[i] = log[i]
    BY <1>4, <1>5, <1>6
  <2>4. \A i, j \in 1..Len(log') :
          /\ log'[i].type = "checkout" /\ log'[j].type = "checkout"
          /\ log'[i].sub = log'[j].sub
          => i = j
    BY <1>0, <2>3 DEF LogShape
  <2>5. \A i \in 1..Len(log') : stripe'[log'[i].sub].status # "none"
    BY <1>0, <1>1, <1>4, <1>5, <1>6, <1>7 DEF LogShape
  <2>6. \A i \in 1..l : log[i].status = "canceled" => log[i].sub # x
    BY <1>0 DEF LogShape, Live
  <2>7. \A i \in 1..Len(log') : log'[i].status = "canceled" => stripe'[log'[i].sub].status = "canceled"
    BY <1>0, <1>1, <1>4, <1>5, <1>6, <1>7, <2>6, NoneFacts DEF LogShape
  <2> QED
    BY <1>0, <2>1, <2>2, <2>3, <2>4, <2>5, <2>7 DEF LogShape
<1>10. LogIsCurrent'
  <2>1. Len(log') > 0
    BY <1>4
  <2>2. ASSUME ~overlapped'
        PROVE  /\ current = x
               /\ \A y \in Subs : Live(y)' => y = x
               /\ log'[Len(log')].sub = x /\ Telling(log', Len(log'))
               /\ Told(log', Len(log')) = log'[l + 1]
    <3>1. current = x /\ \A y \in Subs : Live(y)' => y = x
      BY <1>0, <1>1, <2>2 DEF LogIsCurrent, Live
    <3>2. CASE n = 1
      <4>1. Len(log') = l + 1
        BY <1>4, <3>2
      <4> QED
        BY <1>5, <4>1, <3>1, <3>2, <1>0, <1>4, <2>2 DEF Told, Telling, LogIsCurrent
    <3>3. CASE n = 2
      <4>1. Len(log') = l + 2 /\ (l + 2) - 1 = l + 1
        BY <1>4, <3>3
      <4>2. Telling(log', Len(log')) /\ Told(log', Len(log')) = log'[l + 1]
        BY <1>6, <1>8, <3>3, <4>1 DEF Told, Telling
      <4> QED
        BY <1>6, <3>1, <3>3, <4>1, <4>2
    <3> QED
      BY <3>2, <3>3
  <2> QED
    BY <1>1, <1>5, <2>1, <2>2 DEF LogIsCurrent
<1>11. RowFollowsLog'
  BY <1>0, RowStays
<1> QED
  BY <1>2, <1>3, <1>9, <1>10, <1>11 DEF BillingInv

-----------------------------------------------------------------------------
(* What the API does.                                                       *)

\* A row that is written: it keeps the log, and what follows it while nobody has
\* overruled Stripe.
TenantRow == [plan : Plans, license : Licenses, sub : Subs \cup {None},
              status : SubStatuses \cup {None}]

\* What handleWebhook writes, kind by kind.
LEMMA HandledFacts ==
  ASSUME TypeOK, NEW e \in Events
  PROVE  /\ Handled(e) \in TenantRow /\ (Handled(e).sub = None <=> Handled(e).status = None)
         /\ e.type \in {"checkout", "subscription"} /\ (e.type = "checkout" => e.status = "active") =>
              /\ Handled(e).plan = e.plan /\ Handled(e).sub = e.sub
              /\ Handled(e).license = LicenseFor(e.status)
         /\ e.type \in {"paid", "failed"} /\ tenant.sub = e.sub =>
              /\ Handled(e).plan = tenant.plan /\ Handled(e).sub = tenant.sub
              /\ Handled(e).license = IF e.type = "paid" THEN "ACTIVE" ELSE "GRACE"
         /\ e.type \in {"paid", "failed"} /\ tenant.sub # e.sub => Handled(e) = tenant
<1>0. tenant \in TenantRow /\ (tenant.sub = None <=> tenant.status = None)
  BY DEF TypeOK, TenantRow
<1>1. e.type \in {"checkout", "subscription", "paid", "failed"} /\ e.sub \in Subs /\ e.sub # None
  BY EventFacts, NoneFacts
<1>2. CASE e.type = "checkout"
  <2>1. e.plan \in Plans
    BY <1>2, EventFacts
  <2> DEFINE new == [plan |-> e.plan, license |-> "ACTIVE", sub |-> e.sub, status |-> "active"]
  <2>2. Handled(e) = new
    BY <1>2 DEF Handled, OnCheckoutCompleted
  <2>3. /\ new \in TenantRow /\ new.plan = e.plan /\ new.sub = e.sub /\ new.license = "ACTIVE"
        /\ new.status = "active"
    BY <1>1, <2>1 DEF TenantRow, Licenses, SubStatuses
  <2> HIDE DEF new
  <2> QED
    BY <1>1, <1>2, <2>2, <2>3, NoneFacts, LicenseFacts
<1>3. CASE e.type = "subscription"
  <2>1. e.plan \in Plans /\ e.status \in SubStatuses
    BY <1>3, EventFacts
  <2> DEFINE new == [plan |-> e.plan, license |-> LicenseFor(e.status), sub |-> e.sub,
                     status |-> e.status]
  <2>2. Handled(e) = new
    BY <1>3 DEF Handled, ApplySubscription
  <2>3. LicenseFor(e.status) \in Licenses
    BY <2>1, LicenseFacts
  <2>4. /\ new \in TenantRow /\ new.plan = e.plan /\ new.sub = e.sub
        /\ new.license = LicenseFor(e.status) /\ new.status = e.status
    BY <1>1, <2>1, <2>3 DEF TenantRow
  <2>5. e.status # None
    BY <2>1, NoneFacts DEF SubStatuses
  <2> HIDE DEF new
  <2> QED
    BY <1>1, <1>3, <2>2, <2>4, <2>5
<1>4. ASSUME NEW license \in Licenses, NEW status \in {"active", "past_due"},
             Handled(e) = Invoiced(e, license, status)
      PROVE  /\ Handled(e) \in TenantRow /\ (Handled(e).sub = None <=> Handled(e).status = None)
             /\ tenant.sub = e.sub => /\ Handled(e).plan = tenant.plan /\ Handled(e).sub = tenant.sub
                                      /\ Handled(e).license = license
             /\ tenant.sub # e.sub => Handled(e) = tenant
  <2> DEFINE new == [tenant EXCEPT !.license = license, !.status = status]
  <2>1. /\ new \in TenantRow /\ new.plan = tenant.plan /\ new.sub = tenant.sub
        /\ new.license = license /\ new.status = status
    BY <1>0 DEF TenantRow, SubStatuses
  <2>2. Handled(e) = IF tenant.sub = e.sub THEN new ELSE tenant
    BY <1>4 DEF Invoiced
  <2> HIDE DEF new
  <2> QED
    BY <1>0, <1>1, <2>1, <2>2, NoneFacts
<1>5. CASE e.type = "failed"
  <2>1. Handled(e) = Invoiced(e, "GRACE", "past_due")
    BY <1>5 DEF Handled, OnPaymentFailed
  <2> QED
    BY <1>4, <1>5, <2>1 DEF Licenses
<1>6. CASE e.type = "paid"
  <2>1. Handled(e) = Invoiced(e, "ACTIVE", "active")
    BY <1>6 DEF Handled, OnInvoicePaid
  <2> QED
    BY <1>4, <1>6, <2>1 DEF Licenses
<1> QED
  BY <1>1, <1>2, <1>3, <1>5, <1>6

LEMMA WebhookStep ==
  ASSUME BillingInv, NEW i \in 1..MaxEvents, HandleWebhook(i)
  PROVE  BillingInv'
<1>0. TypeOK /\ PlansKnown /\ PaymentsKnown /\ LogShape /\ LogIsCurrent /\ RowFollowsLog
  BY DEF BillingInv
<1>1. /\ i \in 1..Len(log) /\ tenant' = Handled(log[i]) /\ acked' \subseteq acked \cup {i}
      /\ UNCHANGED <<stripe, log, current, overlapped, payment, verifying>>
      /\ manual' = (manual /\ log[i].type \in {"paid", "failed"})
  BY DEF HandleWebhook, cloud, Invoices
<1>2. log[i] \in Events /\ Len(log) \in Nat
  BY <1>0, <1>1, LogFacts
<1>3. /\ told \in 0..Len(log) /\ i \in Nat /\ i > 0
      /\ told' = IF log[i].type \in {"paid", "failed"} THEN told ELSE i
  <2>1. told' = IF log[i].type \in Invoices THEN told ELSE i
    BY DEF HandleWebhook
  <2> QED
    BY <1>0, <1>1, <1>2, <2>1 DEF TypeOK, Invoices
<1>4. /\ stale' = CASE log[i].type \notin {"paid", "failed"} -> FALSE
                   [] log[i].type \in {"paid", "failed"} /\ tenant.sub = log[i].sub ->
                        told # OwnEvent(i)
                   [] OTHER -> stale
      /\ stale' \in BOOLEAN
  <2>1. stale' = CASE log[i].type \notin {"paid", "failed"} -> FALSE
                   [] log[i].type \in {"paid", "failed"} /\ tenant.sub = log[i].sub ->
                        told # OwnEvent(i)
                   [] OTHER -> stale
    BY DEF HandleWebhook, Invoices
  <2>2. stale \in BOOLEAN
    BY <1>0 DEF TypeOK
  <2> QED
    BY <2>1, <2>2
<1>5. TypeOK'
  <2>1. told' \in 0..Len(log) /\ acked' \subseteq 1..Len(log)
    <3>1. acked \subseteq 1..Len(log) /\ i \in 0..Len(log)
      BY <1>0, <1>1, <1>2 DEF TypeOK
    <3> QED
      BY <1>1, <1>3, <3>1
  <2>2. manual' \in BOOLEAN
    BY <1>1
  <2>3. /\ tenant' \in TenantRow /\ (tenant'.sub = None <=> tenant'.status = None)
    BY <1>0, <1>1, <1>2, HandledFacts
  <2> QED
    BY <1>0, <1>1, <1>4, <2>1, <2>2, <2>3 DEF TypeOK, TenantRow
<1>6. PlansKnown' /\ PaymentsKnown' /\ LogShape' /\ LogIsCurrent'
  BY <1>0, <1>1 DEF PlansKnown, PaymentsKnown, LogShape, LogIsCurrent, Live
<1>7. RowFollowsLog'
  <2>1. CASE log[i].type \in {"checkout", "subscription"}
    <3>1. log[i].type = "checkout" => log[i].status = "active"
      BY <1>0, <1>1 DEF LogShape
    <3>2. /\ tenant'.plan = log[i].plan /\ tenant'.sub = log[i].sub
          /\ tenant'.license = LicenseFor(log[i].status)
      BY <1>0, <1>1, <1>2, <2>1, <3>1, HandledFacts
    <3>3. log[i].sub # None /\ log[i].status \in SubStatuses
      BY <1>2, <2>1, EventFacts, NoneFacts
    <3>4. told' = i /\ log' = log
      BY <1>1, <1>3, <2>1
    <3> QED
      BY <1>3, <2>1, <3>2, <3>3, <3>4, LicenseFacts DEF RowFollowsLog
  <2>2. CASE log[i].type \in {"paid", "failed"} /\ tenant.sub # log[i].sub
    <3>1. tenant' = tenant /\ told' = told /\ log' = log
      BY <1>0, <1>1, <1>2, <1>3, <2>2, HandledFacts
    <3>2. stale' = stale
      BY <1>4, <2>2
    <3>3. ~manual' => ~manual
      BY <1>1, <2>2
    <3> QED
      BY <1>0, <3>1, <3>2, <3>3 DEF RowFollowsLog
  <2>3. CASE log[i].type \in {"paid", "failed"} /\ tenant.sub = log[i].sub
    <3>1. /\ tenant'.plan = tenant.plan /\ tenant'.sub = tenant.sub
          /\ tenant'.license = IF log[i].type = "paid" THEN "ACTIVE" ELSE "GRACE"
          /\ told' = told /\ log' = log
      BY <1>0, <1>1, <1>2, <1>3, <2>3, HandledFacts
    <3>2. ~stale' => told = OwnEvent(i)
      BY <1>4, <2>3
    <3>3. tenant.sub # None /\ told > 0
      BY <1>0, <1>2, <1>3, <2>3, EventFacts, NoneFacts DEF RowFollowsLog
    <3>4. log[i].type = "failed" => log[OwnEvent(i)].status = "past_due"
      BY <1>0, <1>1 DEF OwnEvent, LogShape, Renewed
    <3>5. log[i].type = "paid" => log[OwnEvent(i)].status = "active"
      <4>1. CASE Begins(log, i)
        <5>1. i + 1 \in 1..Len(log) /\ log[i + 1].type = "checkout"
          BY <1>1, <1>2, <4>1 DEF Begins
        <5> QED
          BY <1>0, <4>1, <5>1 DEF OwnEvent, LogShape, Begins
      <4>2. CASE ~Begins(log, i)
        BY <1>0, <1>1, <4>2 DEF OwnEvent, LogShape, Renewed, Begins
      <4> QED
        BY <4>1, <4>2
    <3>6. ~stale' => tenant'.license = LicenseFor(log[told].status)
      BY <2>3, <3>1, <3>2, <3>4, <3>5, LicenseFacts
    <3>7. ~manual' => ~manual
      BY <1>1, <2>3
    <3> QED
      BY <1>0, <3>1, <3>3, <3>6, <3>7 DEF RowFollowsLog
  <2> QED
    BY <1>2, <2>1, <2>2, <2>3, EventFacts
<1> QED
  BY <1>5, <1>6, <1>7 DEF BillingInv

\* A payment or the administrator overrules Stripe.
LEMMA OverruleStep ==
  ASSUME BillingInv, NepalPayments \/ \E p \in Plans, license \in Licenses : AdminUpdate(p, license)
  PROVE  BillingInv'
<1>0. TypeOK /\ PlansKnown /\ PaymentsKnown /\ LogShape /\ LogIsCurrent /\ RowFollowsLog
  BY DEF BillingInv
<1>1. UNCHANGED <<stripe, log, current, overlapped, acked, told, stale>>
  BY DEF NepalPayments, Initiate, VerifyKhalti, KhaltiConfirms, KhaltiRefuses, EsewaCallback,
         AdminUpdate, cloud, delivery
<1>2. /\ payment \in [Payments -> PaymentRow] /\ tenant \in TenantRow
      /\ verifying \subseteq Payments \X Tokens
  BY <1>0 DEF TypeOK, TenantRow
<1>3. ASSUME tenant' = tenant, manual' = manual, payment' \in [Payments -> PaymentRow],
             verifying' \subseteq Payments \X Tokens, PaymentsKnown'
      PROVE  BillingInv'
  <2>1. TypeOK'
    BY <1>0, <1>1, <1>3 DEF TypeOK
  <2> QED
    BY <1>0, <1>1, <1>3, <2>1
    DEF BillingInv, PlansKnown, LogShape, LogIsCurrent, RowFollowsLog, Live
<1>4. ASSUME NEW p \in Plans, NEW license \in Licenses,
             tenant' = [tenant EXCEPT !.plan = p, !.license = license], manual' = TRUE,
             payment' \in [Payments -> PaymentRow], verifying' \subseteq Payments \X Tokens, PaymentsKnown'
      PROVE  BillingInv'
  <2>1. tenant' \in TenantRow /\ tenant'.sub = tenant.sub /\ tenant'.status = tenant.status
    BY <1>2, <1>4 DEF TenantRow
  <2>2. TypeOK'
    BY <1>0, <1>1, <1>4, <2>1 DEF TypeOK, TenantRow
  <2> QED
    BY <1>0, <1>1, <1>4, <2>2
    DEF BillingInv, PlansKnown, LogShape, LogIsCurrent, RowFollowsLog, Live
\* A payment that gets another status, or another reference.
<1>5. ASSUME NEW k \in Payments, NEW status \in {"completed", "failed"},
             NEW ref \in Tokens \cup {"esewa", None},
             payment' = [payment EXCEPT ![k].status = status, ![k].ref = ref],
             verifying' \subseteq verifying
      PROVE  payment' \in [Payments -> PaymentRow] /\ PaymentsKnown'
  <2>1. /\ payment' \in [Payments -> PaymentRow]
        /\ \A j \in Payments : /\ payment'[j].plan = payment[j].plan
                               /\ payment'[j].provider = payment[j].provider
    BY <1>2, <1>5 DEF PaymentRow
  <2> QED
    BY <1>0, <1>2, <1>5, <2>1 DEF PaymentsKnown
<1>6. ASSUME NEW k \in Payments, NEW p \in Plans, NEW provider \in {"khalti", "esewa"},
             Initiate(k, provider, p)
      PROVE  BillingInv'
  <2> DEFINE new == [status |-> "pending", provider |-> provider, plan |-> p, ref |-> None]
  <2>1. new \in PaymentRow /\ new.provider = provider /\ new.plan = p
    BY DEF PaymentRow
  <2>2. payment' = [payment EXCEPT ![k] = new] /\ payment[k] = NoPayment /\ verifying' = verifying
    BY <1>6 DEF Initiate
  <2> HIDE DEF new
  <2>3. \A v \in verifying : v[1] \in Payments /\ v[1] # k
    BY <1>2, <1>0, <2>2, NoneFacts DEF PaymentsKnown, NoPayment
  <2>4. payment' \in [Payments -> PaymentRow] /\ PaymentsKnown'
    BY <1>0, <1>2, <2>1, <2>2, <2>3 DEF PaymentsKnown
  <2> QED
    BY <1>2, <1>3, <1>6, <2>4 DEF Initiate
<1>7. ASSUME NEW k \in Payments, NEW t \in Tokens, VerifyKhalti(k, t) \/ KhaltiRefuses(k, t)
      PROVE  BillingInv'
  <2>1. PaymentsKnown'
    BY <1>0, <1>7 DEF VerifyKhalti, KhaltiRefuses, PaymentsKnown
  <2> QED
    BY <1>2, <1>3, <1>7, <2>1 DEF VerifyKhalti, KhaltiRefuses
<1>8. ASSUME NEW k \in Payments, NEW ref \in Tokens \cup {"esewa", None}, CompletePayment(k, ref),
             verifying' \subseteq verifying, payment[k].provider # None
      PROVE  BillingInv'
  <2>1. payment[k].plan \in Plans
    BY <1>0, <1>8 DEF PaymentsKnown
  <2>2. /\ payment' = [payment EXCEPT ![k].status = "completed", ![k].ref = ref] /\ manual' = TRUE
        /\ tenant' = [tenant EXCEPT !.plan = payment[k].plan, !.license = "ACTIVE"]
    BY <1>8 DEF CompletePayment
  <2>3. payment' \in [Payments -> PaymentRow] /\ PaymentsKnown'
    BY <1>5, <1>8, <2>2
  <2>4. "ACTIVE" \in Licenses
    BY DEF Licenses
  <2> QED
    BY <1>2, <1>4, <1>8, <2>1, <2>2, <2>3, <2>4
<1>9. ASSUME NEW k \in Payments, NEW t \in Tokens, KhaltiConfirms(k, t) PROVE BillingInv'
  <2>1. payment[k].provider # None
    <3>1. <<k, t>>[1] = k
      OBVIOUS
    <3> QED
      BY <1>0, <1>9, <3>1, NoneFacts DEF KhaltiConfirms, PaymentsKnown
  <2>2. verifying' \subseteq verifying /\ CompletePayment(k, t)
    BY <1>9 DEF KhaltiConfirms
  <2> QED
    BY <1>8, <2>1, <2>2
<1>11. ASSUME NEW k \in Payments, EsewaCallback(k) PROVE BillingInv'
  <2>1. verifying' \subseteq verifying /\ payment[k].provider # None
    BY <1>11, NoneFacts DEF EsewaCallback
  <2>2. CASE CompletePayment(k, "esewa")
    BY <1>8, <2>1, <2>2
  <2>3. CASE ~CompletePayment(k, "esewa")
    <3>1. /\ payment' = [payment EXCEPT ![k].status = "failed"]
          /\ UNCHANGED <<tenant, manual, verifying>>
      BY <1>11, <2>3 DEF EsewaCallback
    <3>2. payment' = [payment EXCEPT ![k].status = "failed", ![k].ref = payment[k].ref]
      BY <1>2, <3>1 DEF PaymentRow
    <3>3. payment[k].ref \in Tokens \cup {"esewa", None}
      BY <1>2 DEF PaymentRow
    <3>4. payment' \in [Payments -> PaymentRow] /\ PaymentsKnown'
      BY <1>5, <2>1, <3>2, <3>3
    <3> QED
      BY <1>2, <1>3, <3>1, <3>4
  <2> QED
    BY <2>2, <2>3
<1>10. ASSUME NEW p \in Plans, NEW license \in Licenses, AdminUpdate(p, license)
       PROVE  BillingInv'
  <2>1. PaymentsKnown'
    BY <1>0, <1>10 DEF AdminUpdate, PaymentsKnown
  <2> QED
    BY <1>2, <1>4, <1>10, <2>1 DEF AdminUpdate
<1> QED
  BY <1>6, <1>7, <1>9, <1>10, <1>11 DEF NepalPayments

-----------------------------------------------------------------------------
LEMMA InvInit == Init => BillingInv
<1> SUFFICES ASSUME Init PROVE BillingInv
  OBVIOUS
<1>1. /\ log = <<>> /\ acked = {} /\ told = 0 /\ current = None /\ verifying = {}
      /\ \A k \in Payments : payment[k] = NoPayment
      /\ \A x \in Subs : stripe[x].status = "none"
  BY DEF Init
<1>2. log \in Seq(Events) /\ Len(log) = 0 /\ 1..0 = {}
  BY <1>1
<1>3. TypeOK
  <2>1. /\ tenant.sub = None /\ tenant.status = None
        /\ tenant \in [plan : Plans, license : Licenses, sub : Subs \cup {None},
                       status : SubStatuses \cup {None}]
    BY DEF Init, Licenses
  <2>2. payment \in [Payments -> PaymentRow]
    BY DEF Init, NoPayment, PaymentRow
  <2>3. stripe \in [Subs -> [status : SubStatuses, plan : Plans \cup {None}]]
    BY DEF Init, SubStatuses
  <2>4. Len(log) <= MaxEvents /\ told \in 0..Len(log)
    BY <1>1, <1>2, BillingAssumption
  <2> QED
    BY <1>1, <1>2, <2>1, <2>2, <2>3, <2>4 DEF Init, TypeOK
<1>4. PlansKnown /\ PaymentsKnown
  BY <1>1 DEF PlansKnown, PaymentsKnown, NoPayment
<1>5. LogShape
  BY <1>2 DEF LogShape
<1>6. LogIsCurrent
  BY <1>1, <1>2 DEF LogIsCurrent, Live
<1>7. RowFollowsLog
  BY <1>1 DEF Init, RowFollowsLog
<1> QED
  BY <1>3, <1>4, <1>5, <1>6, <1>7 DEF BillingInv

LEMMA InvStep == BillingInv /\ [Next]_vars => BillingInv'
<1> SUFFICES ASSUME BillingInv, [Next]_vars PROVE BillingInv'
  OBVIOUS
<1>1. CASE StripeStep
  <2>0. TypeOK /\ PlansKnown
    BY DEF BillingInv
  <2>1. /\ UNCHANGED RowAndDelivery
        /\ \/ \E x \in Subs, p \in Plans : Bought(x, p)
           \/ \E x \in Subs, p \in Plans : Renews(x, "past_due", p, "failed")
           \/ \E x \in Subs, p \in Plans : Renews(x, "active", p, "paid")
           \/ \E x \in Subs, p \in Plans, s \in {"active", "canceled"} : Changes(x, s, p)
    BY <1>1, <2>0, StripeKinds
  <2>2. ASSUME NEW x \in Subs, NEW p \in Plans, Bought(x, p) PROVE BillingInv'
    BY <2>1, <2>2, BoughtStep
  <2>3. ASSUME NEW x \in Subs, NEW p \in Plans,
               Renews(x, "past_due", p, "failed") \/ Renews(x, "active", p, "paid")
        PROVE  BillingInv'
    BY <2>1, <2>3, ReportStep DEF Renews
  <2>4. ASSUME NEW x \in Subs, NEW p \in Plans, NEW s \in {"active", "canceled"}, Changes(x, s, p)
        PROVE  BillingInv'
    <3>1. /\ Live(x) /\ stripe' = [stripe EXCEPT ![x] = [status |-> s, plan |-> p]]
          /\ GrownBy(1) /\ log'[Len(log) + 1] = Subscription(x, s, p)
          /\ UNCHANGED <<current, overlapped>>
      BY <2>4 DEF Changes
    <3>2. 1 \in {1, 2} /\ s \in {"active", "past_due", "canceled"} /\ 1 # 2
      OBVIOUS
    <3> QED
      BY <2>1, <3>1, <3>2, ReportStep
  <2> QED
    BY <2>1, <2>2, <2>3, <2>4
<1>2. CASE UNCHANGED vars
  BY <1>2 DEF vars, row, cloud, delivery, BillingInv, TypeOK, PlansKnown, PaymentsKnown, LogShape,
     LogIsCurrent, RowFollowsLog, Live
<1> QED
  BY <1>1, <1>2, WebhookStep, OverruleStep DEF Next, StripeStep

LEMMA BillingInvariant == Spec => []BillingInv
  BY InvInit, InvStep, PTL DEF Spec

-----------------------------------------------------------------------------
(* What it means.                                                           *)

\* Types hold of the tenant, its payments and the events, for any number of them
\* (schema.prisma:40-51, 164-173).
THEOREM BillingTypeCorrect == Spec => []TypeOK
<1>1. BillingInv => TypeOK
  BY DEF BillingInv
<1> QED
  BY <1>1, BillingInvariant, PTL

\* The event told last, when it is the newest of its kind, is what Stripe says now.
LEMMA FollowsHolds == BillingInv => LicenseFollowsStripe
<1> SUFFICES ASSUME BillingInv, ToldNewest, ~stale, ~manual, ~overlapped
             PROVE  FollowsStripe
  BY DEF LicenseFollowsStripe
<1>0. TypeOK /\ LogShape /\ LogIsCurrent /\ RowFollowsLog
  BY DEF BillingInv
<1> DEFINE n == Len(log)
<1>1. /\ n \in Nat /\ told \in 1..n /\ log[told].type \in {"checkout", "subscription"}
      /\ n > 0 /\ \A i \in 1..n : log[i] \in Events
  BY <1>0, LogFacts DEF ToldNewest, TypeOK, RowFollowsLog
<1>2. /\ log[n].sub = current /\ Telling(log, n) /\ Told(log, n).plan = stripe[current].plan
      /\ Told(log, n).status = stripe[current].status
  BY <1>0, <1>1 DEF LogIsCurrent
<1>3. \A i \in 1..n : log[i].type \in {"checkout", "subscription"} => i <= told
  BY <1>1 DEF ToldNewest, Invoices
<1>4. Told(log, n) = log[told] /\ log[told].sub = current
  <2>1. CASE log[n].type \in {"checkout", "subscription"}
    <3>1. told = n
      BY <1>1, <1>3, <2>1
    <3> QED
      BY <1>2, <2>1, <3>1 DEF Told
  <2>2. CASE log[n].type \notin {"checkout", "subscription"}
    <3>1. /\ n > 1 /\ log[n - 1].type = "subscription" /\ log[n - 1].sub = log[n].sub
      BY <1>0, <1>1, <1>2, <2>2, EventFacts DEF Telling, LogShape, Renewed
    <3>2. told = n - 1
      BY <1>1, <1>3, <2>2, <3>1
    <3> QED
      BY <1>2, <2>2, <3>1, <3>2 DEF Told
  <2> QED
    BY <2>1, <2>2
<1>5. /\ tenant.sub = current /\ tenant.plan = log[told].plan
      /\ tenant.license = LicenseFor(log[told].status)
  BY <1>0, <1>1, <1>4 DEF RowFollowsLog
<1>6. stripe[current].status \in SubStatuses \ {"none"}
  BY <1>0, <1>1, <1>2, EventFacts DEF LogShape, TypeOK
<1>7. \A s \in SubStatuses \ {"none"} : LicenseFor(s) = LicenseTable[s]
  BY LicenseFacts DEF SubStatuses, LicenseTable
<1> QED
  BY <1>2, <1>4, <1>5, <1>6, <1>7 DEF FollowsStripe

\* The newest event of the subscription makes the tenant what Stripe says, for any number of
\* subscriptions and plans and whatever was handled before, in any order and any number of
\* times (billing.service.ts:148-251).
THEOREM LicenseFollows == Spec => []LicenseFollowsStripe
  BY FollowsHolds, BillingInvariant, PTL

\* No event says the end of a subscription that runs.
LEMMA NotCutOff == BillingInv => PaidIsNeverCutOff
<1> SUFFICES ASSUME BillingInv, tenant.sub # None, Live(tenant.sub), ~manual
             PROVE  tenant.license # "EXPIRED"
  BY DEF PaidIsNeverCutOff
<1>0. TypeOK /\ LogShape /\ RowFollowsLog
  BY DEF BillingInv
<1>1. told \in 1..Len(log) /\ log[told].sub = tenant.sub
  BY <1>0, LogFacts DEF TypeOK, RowFollowsLog
<1>2. log[told].status # "canceled"
  BY <1>0, <1>1 DEF LogShape, Live
<1> QED
  BY <1>0, <1>1, <1>2 DEF RowFollowsLog

\* A tenant keeps its licence while the subscription in its row runs, through failed payments
\* and events in any order, for any number of them, unless the administrator takes it
\* (billing.service.ts:205-240).
THEOREM PaidIsKept == Spec => []PaidIsNeverCutOff
  BY NotCutOff, BillingInvariant, PTL

\* A verified payment keeps its status and plan, and its reference only gives way to the token
\* of a verification that had begun before, for any number of payments, tokens and
\* verifications that overlap (nepal-payments.service.ts:95-120, 140-157).
THEOREM VerifiedIsKept == Spec => VerifiedPaymentStays
<1> DEFINE Keeps(k) ==
      /\ payment'[k] = [payment[k] EXCEPT !.ref = payment'[k].ref]
      /\ payment'[k].ref # payment[k].ref => <<k, payment'[k].ref>> \in verifying
      /\ \A t \in Tokens : <<k, t>> \in verifying' => <<k, t>> \in verifying
<1>1. ASSUME TypeOK, Next PROVE VerifiedStays
  <2> SUFFICES ASSUME NEW k \in Payments, payment[k].provider = "khalti",
                      payment[k].status = "completed"
               PROVE  Keeps(k)
    BY DEF VerifiedStays
  <2>0. payment \in [Payments -> PaymentRow]
    BY <1>1 DEF TypeOK
  <2>1. payment'[k] = payment[k] /\ verifying' \subseteq verifying => Keeps(k)
    BY <2>0 DEF PaymentRow
  <2>2. ASSUME NEW i \in Payments, NEW p \in Plans, NEW provider \in {"khalti", "esewa"},
               Initiate(i, provider, p)
        PROVE  Keeps(k)
    BY <2>0, <2>1, <2>2 DEF Initiate, NoPayment
  <2>3. ASSUME NEW i \in Payments, NEW t \in Tokens, VerifyKhalti(i, t) PROVE Keeps(k)
    <3>1. i # k /\ payment' = payment /\ verifying' = verifying \cup {<<i, t>>}
      BY <2>3 DEF VerifyKhalti
    <3>2. payment'[k] = [payment[k] EXCEPT !.ref = payment'[k].ref]
      BY <2>0, <3>1 DEF PaymentRow
    <3> QED
      BY <3>1, <3>2
  <2>4. ASSUME NEW i \in Payments, NEW t \in Tokens, KhaltiConfirms(i, t) PROVE Keeps(k)
    <3>1. /\ payment' = [payment EXCEPT ![i].status = "completed", ![i].ref = t]
          /\ verifying' \subseteq verifying /\ <<i, t>> \in verifying
      BY <2>4 DEF KhaltiConfirms, CompletePayment
    <3>2. i # k => payment'[k] = payment[k]
      BY <2>0, <3>1
    <3>3. i = k => /\ payment'[k].ref = t
                   /\ payment'[k] = [payment[k] EXCEPT !.ref = payment'[k].ref]
      BY <2>0, <3>1 DEF PaymentRow
    <3> QED
      BY <2>1, <3>1, <3>2, <3>3
  <2>5. ASSUME NEW i \in Payments, NEW t \in Tokens, KhaltiRefuses(i, t) PROVE Keeps(k)
    BY <2>1, <2>5 DEF KhaltiRefuses
  <2>6. ASSUME NEW i \in Payments, EsewaCallback(i) PROVE Keeps(k)
    <3>1. i # k /\ verifying' = verifying /\ payment'[k] = payment[k]
      BY <2>0, <2>6 DEF EsewaCallback, CompletePayment
    <3> QED
      BY <2>1, <3>1
  <2>7. CASE UNCHANGED <<payment, verifying>>
    BY <2>1, <2>7
  <2> QED
    BY <1>1, <2>2, <2>3, <2>4, <2>5, <2>6, <2>7
    DEF Next, NepalPayments, RenewalFails, RenewalPaid, Cancel, CheckoutPaid, SwitchPlan, Becomes,
        row, HandleWebhook, AdminUpdate
<1>2. TypeOK /\ [Next]_vars => [VerifiedStays]_vars
  BY <1>1
<1> QED
  BY <1>2, BillingTypeCorrect, PTL DEF Spec, VerifiedPaymentStays
=============================================================================
