----------------------------- MODULE PaymentProofs -----------------------------
(***************************************************************************)
(* The properties of Payment, for any customers with any subscriptions,    *)
(* any lifetime and billing period, any number of events under way, and    *)
(* any order of their arrival.                                             *)
(***************************************************************************)
EXTENDS Payment, SequenceTheorems, TLAPS

\* The latest end of access that markPaid or Stripe can have granted.
Grants == 0..(Horizon + Ttl + Period)

Events == [sub : Subs, kind : {"completed", "subscription", "deleted"},
           status : {"none", "incomplete", "active", "past_due"}, end : Grants]
States == {"none", "incomplete", "active", "past_due", "deleted"}
Tokens == [sub : Customers, iat : Nat, until : Nat, exp : Times]

PaymentTypes ==
  /\ now \in 1..Horizon
  /\ stripeEnabled \in BOOLEAN
  /\ paidUntil \in [Customers -> Grants]
  /\ stripe \in [Customers -> [Subs -> States]]
  /\ periodEnd \in [Customers -> [Subs -> Grants]]
  /\ pending \in [Customers -> Seq(Events)]
  /\ \A c \in Customers : Len(pending[c]) <= MaxPending
  /\ paidOnce \cup reordered \cup forgotten \cup collided \subseteq Customers
  /\ issued \in Tokens \cup {NoToken}

\* Without Stripe nobody has a subscription at Stripe.
MockMode == ~stripeEnabled => \A c \in Customers, s \in Subs : stripe[c][s] = "none"

\* An entry, a subscription that has run and an event that grants access all go back
\* to a payment.
GrantsArePaid(c) ==
  /\ paidUntil[c] # 0 => c \in paidOnce
  /\ \A s \in Subs : stripe[c][s] \in {"active", "past_due"} => c \in paidOnce
  /\ \A i \in 1..Len(pending[c]) : ~Clears(pending[c][i]) => c \in paidOnce

PeriodKnown(c) == \A s \in Subs : stripe[c][s] = "active" => periodEnd[c][s] # 0

\* From place i on, the queue q holds nothing that ends s.
NoEnd(q, s, i) == \A j \in i..Len(q) : Clears(q[j]) => q[j].sub # s

\* The queue q says that s runs until `end`, and nothing against it after that.
Announced(q, s, end) ==
  \E i \in 1..Len(q) : q[i] = Subscription(s, "active", end) /\ NoEnd(q, s, i + 1)

\* What Stripe knows of an active subscription is on its way, or has arrived: then only
\* an event of another subscription, or a restart, can have undone it.
Known(c, s) ==
  stripe[c][s] = "active" =>
    \/ Announced(pending[c], s, periodEnd[c][s])
    \/ /\ NoEnd(pending[c], s, 1)
       /\ c \notin forgotten \cup collided /\ now < periodEnd[c][s] =>
            paidUntil[c] >= periodEnd[c][s]

Idle(c) == \A s \in Subs : stripe[c][s] # "active"

\* Of a customer with none, the event sent last says so.
LastWord(c) ==
  Idle(c) => IF pending[c] = <<>> THEN stripeEnabled => paidUntil[c] = 0
             ELSE Clears(pending[c][Len(pending[c])])

CustomerInv(c) ==
  /\ GrantsArePaid(c) /\ PeriodKnown(c)
  /\ c \notin reordered => LastWord(c) /\ \A s \in Subs : Known(c, s)

IInv ==
  /\ PaymentTypes
  /\ MockMode
  /\ \A c \in Customers : CustomerInv(c)
  /\ TokenOnlyAfterPayment

------------------------------------------------------------------------------
(* Operators *)

\* Taking one element out of a sequence leaves elements of the sequence, in their
\* order; the last one stays the last unless it is the one taken.
LEMMA RemoveAtProperties ==
  ASSUME NEW S, NEW s \in Seq(S), NEW i \in 1..Len(s)
  PROVE  /\ RemoveAt(s, i) \in Seq(S)
         /\ Len(RemoveAt(s, i)) = Len(s) - 1
         /\ \A j \in 1..Len(s) - 1 : RemoveAt(s, i)[j] = IF j < i THEN s[j] ELSE s[j + 1]
<1> DEFINE a == SubSeq(s, 1, i - 1)
           b == SubSeq(s, i + 1, Len(s))
<1>1. /\ a \in Seq(S) /\ Len(a) = i - 1
      /\ \A j \in 1..(i - 1) : a[j] = s[j]
  OBVIOUS
<1>2. /\ b \in Seq(S) /\ Len(b) = Len(s) - i
      /\ \A j \in 1..(Len(s) - i) : b[j] = s[i + j]
  OBVIOUS
<1>3. RemoveAt(s, i) = a \o b
  BY DEF RemoveAt
<1> HIDE DEF a, b
<1>4. /\ a \o b \in Seq(S) /\ Len(a \o b) = Len(a) + Len(b)
      /\ \A j \in 1..Len(a) + Len(b) :
           (a \o b)[j] = IF j <= Len(a) THEN a[j] ELSE b[j - Len(a)]
  BY <1>1, <1>2, ConcatProperties
<1>5. Len(s) \in Nat /\ i \in Nat
  OBVIOUS
<1> QED
  BY <1>1, <1>2, <1>3, <1>4, <1>5

\* Handling an event clears the entry or extends it, at least to the end that the
\* event names.
LEMMA HandledProperties ==
  ASSUME PaymentTypes, NEW c \in Customers, NEW e \in Events
  PROVE  /\ Handled(c, e) \in Grants
         /\ Clears(e) => Handled(c, e) = 0
         /\ ~Clears(e) => Handled(c, e) >= paidUntil[c]
         /\ \A s \in Subs, end \in Grants \ {0} :
              e = Subscription(s, "active", end) => ~Clears(e) /\ Handled(c, e) >= end
<1> USE PaymentAssumption DEF PaymentAssumption
<1>1. /\ paidUntil[c] \in Grants /\ e.end \in Grants /\ now + Ttl \in Grants
  BY DEF PaymentTypes, Events, Grants
<1> QED
  BY <1>1 DEF Handled, Extended, Clears, Subscription, Grants

\* A token names who asked and runs to the end of what is paid, or a minute.
LEMMA TokenProperties ==
  ASSUME PaymentTypes, NEW c \in Customers, NEW until \in Grants, until >= now
  PROVE  Token(c, until) \in Tokens
<1> USE PaymentAssumption DEF PaymentAssumption
<1>1. now \in 1..Horizon
  BY DEF PaymentTypes
<1> QED
  BY <1>1 DEF Token, Tokens, Times, Grants

LEMMA ConstructorTypes ==
  \A s \in Subs :
    /\ Completed(s) \in Events /\ ~Clears(Completed(s)) /\ Completed(s).sub = s
    /\ Deleted(s) \in Events /\ Clears(Deleted(s)) /\ Deleted(s).sub = s
    /\ \A status \in {"incomplete", "active", "past_due"}, end \in Grants :
         /\ Subscription(s, status, end) \in Events /\ Subscription(s, status, end).sub = s
         /\ status # "active" => Clears(Subscription(s, status, end))
BY PaymentAssumption
   DEF PaymentAssumption, Completed, Deleted, Subscription, Events, Grants, Clears

\* Events about other subscriptions are appended: what is said of s still is.
LEMMA QueueGrows ==
  ASSUME NEW q \in Seq(Events), NEW events \in Seq(Events), NEW s, NEW end,
         \A i \in 1..Len(events) : events[i].sub # s
  PROVE  /\ NoEnd(q, s, 1) => NoEnd(q \o events, s, 1)
         /\ Announced(q, s, end) => Announced(q \o events, s, end)
<1> DEFINE both == q \o events
<1>1. /\ Len(both) = Len(q) + Len(events) /\ Len(q) \in Nat /\ Len(events) \in Nat
      /\ \A i \in 1..Len(q) + Len(events) :
           both[i] = IF i <= Len(q) THEN q[i] ELSE events[i - Len(q)]
  BY ConcatProperties
<1> HIDE DEF both
<1>2. ASSUME NEW i \in Nat \ {0}, NoEnd(q, s, i) PROVE NoEnd(both, s, i)
  <2> SUFFICES ASSUME NEW j \in i..Len(both), Clears(both[j]) PROVE both[j].sub # s
    BY DEF NoEnd
  <2>1. j \in 1..Len(q) + Len(events)
    BY <1>1
  <2>2. CASE j <= Len(q)
    <3>1. both[j] = q[j] /\ j \in i..Len(q)
      BY <1>1, <2>1, <2>2
    <3> QED
      BY <1>2, <3>1 DEF NoEnd
  <2>3. CASE j > Len(q)
    <3>1. both[j] = events[j - Len(q)] /\ j - Len(q) \in 1..Len(events)
      BY <1>1, <2>1, <2>3
    <3> QED
      BY <3>1
  <2> QED
    BY <1>1, <2>1, <2>2, <2>3
<1>3. ASSUME Announced(q, s, end) PROVE Announced(both, s, end)
  <2>1. PICK i \in 1..Len(q) : q[i] = Subscription(s, "active", end) /\ NoEnd(q, s, i + 1)
    BY <1>3 DEF Announced
  <2>2. i \in 1..Len(both) /\ both[i] = q[i] /\ i + 1 \in Nat \ {0}
    BY <1>1
  <2>3. NoEnd(both, s, i + 1)
    BY <1>2, <2>1, <2>2
  <2> QED
    BY <2>1, <2>2, <2>3 DEF Announced
<1> QED
  BY <1>2, <1>3 DEF both

\* An event arrives in order: what was said of s still is, or it was this event.
LEMMA QueueShrinks ==
  ASSUME NEW q \in Seq(Events), Len(q) # 0, NEW s, NEW end
  PROVE  /\ NoEnd(q, s, 1) => NoEnd(RemoveAt(q, 1), s, 1)
         /\ Announced(q, s, end) =>
              \/ Announced(RemoveAt(q, 1), s, end)
              \/ /\ q[1] = Subscription(s, "active", end) /\ NoEnd(q, s, 2)
                 /\ NoEnd(RemoveAt(q, 1), s, 1)
<1> DEFINE rest == RemoveAt(q, 1)
<1>1. /\ Len(q) \in Nat \ {0} /\ 1 \in 1..Len(q)
      /\ Len(rest) = Len(q) - 1
      /\ \A j \in 1..Len(q) - 1 : rest[j] = IF j < 1 THEN q[j] ELSE q[j + 1]
  BY RemoveAtProperties
<1> HIDE DEF rest
<1>2. ASSUME NEW i \in Nat \ {0}, NoEnd(q, s, i + 1) PROVE NoEnd(rest, s, i)
  <2> SUFFICES ASSUME NEW j \in i..Len(rest), Clears(rest[j]) PROVE rest[j].sub # s
    BY DEF NoEnd
  <2>1. rest[j] = q[j + 1] /\ j + 1 \in (i + 1)..Len(q)
    BY <1>1
  <2> QED
    BY <1>2, <2>1 DEF NoEnd
<1>3. NoEnd(q, s, 1) => NoEnd(q, s, 2)
  BY <1>1 DEF NoEnd
<1>4. ASSUME Announced(q, s, end)
      PROVE  \/ Announced(rest, s, end)
             \/ q[1] = Subscription(s, "active", end) /\ NoEnd(q, s, 2)
  <2>1. PICK i \in 1..Len(q) : q[i] = Subscription(s, "active", end) /\ NoEnd(q, s, i + 1)
    BY <1>4 DEF Announced
  <2>2. CASE i # 1
    <3>1. i - 1 \in 1..Len(rest) /\ rest[i - 1] = q[i] /\ i \in Nat \ {0}
      BY <1>1, <2>2
    <3>2. NoEnd(rest, s, (i - 1) + 1)
      BY <1>2, <2>1, <3>1
    <3> QED
      BY <2>1, <3>1, <3>2 DEF Announced
  <2> QED
    BY <2>1, <2>2
<1>5. NoEnd(q, s, 2) => NoEnd(rest, s, 1)
  BY <1>2
<1> QED
  BY <1>3, <1>4, <1>5 DEF rest

------------------------------------------------------------------------------
(* Steps *)

\* Whoever a step is not about keeps the invariant; time may pass.
LEMMA OthersKeep ==
  ASSUME PaymentTypes, NEW c \in Customers, CustomerInv(c),
         paidUntil'[c] = paidUntil[c], stripe'[c] = stripe[c],
         periodEnd'[c] = periodEnd[c], pending'[c] = pending[c],
         now' \in Nat, now' >= now, stripeEnabled' = stripeEnabled,
         paidOnce \subseteq paidOnce', c \in reordered => c \in reordered',
         c \in forgotten => c \in forgotten', c \in collided => c \in collided'
  PROVE  CustomerInv(c)'
<1>1. now \in Nat /\ \A s \in Subs : periodEnd[c][s] \in Nat
  BY PaymentAssumption DEF PaymentAssumption, PaymentTypes, Grants
<1>2. GrantsArePaid(c)' /\ PeriodKnown(c)'
  BY DEF CustomerInv, GrantsArePaid, PeriodKnown
<1>3. ASSUME NEW s \in Subs, Known(c, s) PROVE Known(c, s)'
  BY <1>1, <1>3 DEF Known, Announced, NoEnd
<1>4. LastWord(c) => LastWord(c)'
  BY DEF LastWord, Idle
<1> QED
  BY <1>2, <1>3, <1>4 DEF CustomerInv

LEMMA InitIInv == Init => IInv
<1> SUFFICES ASSUME Init PROVE IInv
  OBVIOUS
<1>1. 0 \in Grants /\ 1 \in 1..Horizon /\ 0 <= MaxPending
  BY PaymentAssumption DEF PaymentAssumption, Grants
<1>2. pending \in [Customers -> Seq(Events)] /\ \A c \in Customers : pending[c] = <<>>
  BY DEF Init
<1>3. PaymentTypes
  BY <1>1, <1>2 DEF Init, PaymentTypes, States
<1>4. ASSUME NEW c \in Customers PROVE CustomerInv(c)
  BY <1>2 DEF Init, CustomerInv, GrantsArePaid, LastWord, Known, PeriodKnown
<1> QED
  BY <1>3, <1>4 DEF Init, IInv, MockMode, TokenOnlyAfterPayment

\* Stripe changes its mind about one subscription and says so.
LEMMA NotifyKeeps ==
  ASSUME IInv, stripeEnabled, NEW c \in Customers, NEW s \in Subs,
         NEW status \in {"incomplete", "active", "past_due", "deleted"}, NEW end \in Grants,
         NEW events \in Seq(Events), events # <<>>, Notify(c, events),
         stripe' = [stripe EXCEPT ![c][s] = status],
         periodEnd' = [periodEnd EXCEPT ![c][s] = end],
         paidOnce' \in {paidOnce, paidOnce \cup {c}},
         status \in {"active", "past_due"} => c \in paidOnce',
         \A i \in 1..Len(events) : /\ ~Clears(events[i]) => c \in paidOnce'
                                  /\ events[i].sub = s,
         IF status = "active"
         THEN end # 0 /\ events[Len(events)] = Subscription(s, "active", end)
         ELSE Clears(events[Len(events)])
  PROVE  IInv'
<1>1. /\ pending' = [pending EXCEPT ![c] = pending[c] \o events]
      /\ Len(pending[c]) + Len(events) <= MaxPending
      /\ UNCHANGED <<now, stripeEnabled, paidUntil, reordered, forgotten, collided, issued>>
  BY DEF Notify
<1>2. /\ PaymentTypes /\ pending[c] \in Seq(Events) /\ now \in Nat
      /\ Len(events) \in Nat \ {0} /\ Len(pending[c]) \in Nat
      /\ stripe[c] \in [Subs -> States] /\ periodEnd[c] \in [Subs -> Grants]
  BY PaymentAssumption DEF PaymentAssumption, IInv, PaymentTypes
<1>3. /\ pending[c] \o events \in Seq(Events)
      /\ Len(pending[c] \o events) = Len(pending[c]) + Len(events)
      /\ \A i \in 1..Len(pending[c]) + Len(events) :
           (pending[c] \o events)[i] = IF i <= Len(pending[c]) THEN pending[c][i]
                                       ELSE events[i - Len(pending[c])]
  BY <1>2, ConcatProperties
<1>4. PaymentTypes'
  <2>1. /\ stripe' \in [Customers -> [Subs -> States]]
        /\ periodEnd' \in [Customers -> [Subs -> Grants]]
    BY <1>2 DEF PaymentTypes, States
  <2>2. pending' \in [Customers -> Seq(Events)]
    BY <1>1, <1>2, <1>3 DEF PaymentTypes
  <2>3. \A d \in Customers : Len(pending'[d]) <= MaxPending
    BY <1>1, <1>2, <1>3 DEF PaymentTypes
  <2> QED
    BY <1>1, <1>2, <2>1, <2>2, <2>3 DEF PaymentTypes
<1>5. /\ pending'[c] = pending[c] \o events /\ paidUntil'[c] = paidUntil[c]
      /\ stripe'[c][s] = status /\ periodEnd'[c][s] = end
      /\ \A t \in Subs \ {s} :
           stripe'[c][t] = stripe[c][t] /\ periodEnd'[c][t] = periodEnd[c][t]
  BY <1>1, <1>2 DEF PaymentTypes
<1>6. /\ pending'[c] # <<>> /\ Len(pending'[c]) \in 1..Len(pending'[c])
      /\ pending'[c][Len(pending'[c])] = events[Len(events)]
  BY <1>2, <1>3, <1>5
<1>7. GrantsArePaid(c)'
  <2>1. \A i \in 1..Len(pending'[c]) :
          \/ \E j \in 1..Len(pending[c]) : pending'[c][i] = pending[c][j]
          \/ \E j \in 1..Len(events) : pending'[c][i] = events[j]
    <3> SUFFICES ASSUME NEW i \in 1..Len(pending[c]) + Len(events),
                        ~ \E j \in 1..Len(pending[c]) : pending'[c][i] = pending[c][j]
                 PROVE  \E j \in 1..Len(events) : pending'[c][i] = events[j]
      BY <1>3, <1>5
    <3>1. i > Len(pending[c]) /\ i \in Nat
      BY <1>2, <1>3, <1>5
    <3>2. i - Len(pending[c]) \in 1..Len(events)
      BY <1>2, <3>1
    <3> QED
      BY <1>2, <1>3, <1>5, <3>1, <3>2
  <2>2. \A i \in 1..Len(pending[c]) : ~Clears(pending[c][i]) => c \in paidOnce
    BY DEF IInv, CustomerInv, GrantsArePaid
  <2>3. \A i \in 1..Len(pending'[c]) : ~Clears(pending'[c][i]) => c \in paidOnce'
    BY <2>1, <2>2
  <2>4. \A i \in 1..Len(pending'[c]) : ~Clears(pending[c][i])' => c \in paidOnce'
    BY <2>3 DEF Clears
  <2> QED
    BY <1>5, <2>4 DEF IInv, CustomerInv, GrantsArePaid
<1>8. PeriodKnown(c)'
  BY <1>5 DEF IInv, CustomerInv, PeriodKnown
<1>9. ASSUME NEW t \in Subs, Known(c, t) PROVE Known(c, t)'
  <2>1. CASE t = s
    <3>1. ASSUME status = "active" PROVE Announced(pending'[c], s, end)
      <4> DEFINE last == Len(pending'[c])
      <4>1. last \in 1..last /\ pending'[c][last] = Subscription(s, "active", end)
        BY <1>6, <3>1
      <4>2. NoEnd(pending'[c], s, last + 1)
        BY <4>1 DEF NoEnd
      <4> QED
        BY <4>1, <4>2 DEF Announced
    <3> QED
      BY <1>5, <2>1, <3>1 DEF Known, Announced, NoEnd, Clears, Subscription
  <2>2. CASE t # s
    <3>1. \A i \in 1..Len(events) : events[i].sub # t
      BY <2>2
    <3>2. /\ NoEnd(pending[c], t, 1) => NoEnd(pending'[c], t, 1)
          /\ Announced(pending[c], t, periodEnd[c][t]) =>
               Announced(pending'[c], t, periodEnd[c][t])
      BY <1>2, <1>5, <3>1, QueueGrows
    <3>3. Known(c, t) =>
            (stripe[c][t] = "active" =>
              \/ Announced(pending'[c], t, periodEnd[c][t])
              \/ /\ NoEnd(pending'[c], t, 1)
                 /\ c \notin forgotten \cup collided /\ now < periodEnd[c][t] =>
                      paidUntil[c] >= periodEnd[c][t])
      BY <3>2 DEF Known
    <3> QED
      BY <1>1, <1>5, <1>9, <2>2, <3>3 DEF Known, Announced, NoEnd, Clears, Subscription
  <2> QED
    BY <2>1, <2>2
<1>10. LastWord(c)'
  BY <1>5, <1>6 DEF LastWord, Idle, Clears
<1>11. CustomerInv(c)'
  BY <1>1, <1>7, <1>8, <1>9, <1>10 DEF IInv, CustomerInv
<1>12. ASSUME NEW d \in Customers \ {c} PROVE CustomerInv(d)'
  <2>1. /\ paidUntil'[d] = paidUntil[d] /\ stripe'[d] = stripe[d]
        /\ periodEnd'[d] = periodEnd[d] /\ pending'[d] = pending[d]
    BY <1>1, <1>2 DEF PaymentTypes
  <2> QED
    BY <1>1, <1>2, <2>1, OthersKeep DEF IInv
<1>13. MockMode' /\ TokenOnlyAfterPayment'
  BY <1>1 DEF IInv, MockMode, TokenOnlyAfterPayment
<1> QED
  BY <1>4, <1>11, <1>12, <1>13 DEF IInv

LEMMA NotifyOneKeeps ==
  ASSUME IInv, stripeEnabled, NEW c \in Customers, NEW s \in Subs,
         NEW status \in {"incomplete", "active", "past_due", "deleted"}, NEW end \in Grants,
         NEW e \in Events, e.sub = s, Notify(c, <<e>>),
         stripe' = [stripe EXCEPT ![c][s] = status],
         periodEnd' = [periodEnd EXCEPT ![c][s] = end], paidOnce' = paidOnce,
         status \in {"active", "past_due"} => c \in paidOnce,
         IF status = "active" THEN end # 0 /\ e = Subscription(s, "active", end)
                              ELSE Clears(e)
  PROVE  IInv'
<1>1. <<e>> \in Seq(Events) /\ <<e>> # <<>> /\ Len(<<e>>) = 1 /\ <<e>>[1] = e
  OBVIOUS
<1>2. ~Clears(e) => c \in paidOnce'
  OBVIOUS
<1>3. \A i \in 1..Len(<<e>>) : /\ ~Clears(<<e>>[i]) => c \in paidOnce'
                              /\ <<e>>[i].sub = s
  BY <1>1, <1>2
<1> QED
  BY <1>1, <1>3, NotifyKeeps

LEMMA StripeStep ==
  ASSUME IInv, NEW c \in Customers, NEW s \in Subs,
         Checkout(c, s) \/ FirstPayment(c, s) \/ Renew(c, s) \/ RenewFails(c, s)
           \/ Cancel(c, s)
  PROVE  IInv'
<1>1. PaymentTypes /\ now + Period \in Grants \ {0} /\ periodEnd[c][s] \in Grants
  BY PaymentAssumption DEF PaymentAssumption, IInv, PaymentTypes, Grants
<1>2. stripeEnabled
  BY DEF IInv, MockMode, PaymentTypes, Checkout, FirstPayment, Renew, RenewFails, Cancel
<1>3. stripe[c][s] \in {"active", "past_due"} => c \in paidOnce
  BY DEF IInv, CustomerInv, GrantsArePaid
<1>4. periodEnd' = periodEnd => periodEnd' = [periodEnd EXCEPT ![c][s] = periodEnd[c][s]]
  BY <1>1 DEF PaymentTypes
<1>5. CASE Checkout(c, s)
  <2>1. /\ Notify(c, <<Subscription(s, "incomplete", now + Period)>>)
        /\ stripe' = [stripe EXCEPT ![c][s] = "incomplete"]
        /\ periodEnd' = periodEnd /\ paidOnce' = paidOnce
    BY <1>5 DEF Checkout
  <2> QED
    BY <1>1, <1>2, <1>4, <2>1, ConstructorTypes, NotifyOneKeeps
<1>6. CASE FirstPayment(c, s)
  <2> DEFINE events == <<Completed(s), Subscription(s, "active", now + Period)>>
  <2>1. /\ events \in Seq(Events) /\ events # <<>> /\ Len(events) = 2
        /\ events[2] = Subscription(s, "active", now + Period)
        /\ \A i \in 1..Len(events) : events[i].sub = s
    BY <1>1, ConstructorTypes
  <2>2. /\ Notify(c, events) /\ stripe' = [stripe EXCEPT ![c][s] = "active"]
        /\ periodEnd' = [periodEnd EXCEPT ![c][s] = now + Period]
        /\ paidOnce' = paidOnce \cup {c}
    BY <1>6 DEF FirstPayment
  <2> HIDE DEF events
  <2> QED
    BY <1>1, <1>2, <2>1, <2>2, NotifyKeeps
<1>7. CASE Renew(c, s)
  <2>1. /\ Notify(c, <<Subscription(s, "active", now + Period)>>)
        /\ stripe' = [stripe EXCEPT ![c][s] = "active"]
        /\ periodEnd' = [periodEnd EXCEPT ![c][s] = now + Period] /\ paidOnce' = paidOnce
        /\ c \in paidOnce
    BY <1>3, <1>7 DEF Renew
  <2> QED
    BY <1>1, <1>2, <2>1, ConstructorTypes, NotifyOneKeeps
<1>8. CASE RenewFails(c, s)
  <2>1. /\ Notify(c, <<Subscription(s, "past_due", periodEnd[c][s])>>)
        /\ stripe' = [stripe EXCEPT ![c][s] = "past_due"]
        /\ periodEnd' = periodEnd /\ paidOnce' = paidOnce /\ c \in paidOnce
    BY <1>3, <1>8 DEF RenewFails
  <2> DEFINE e == Subscription(s, "past_due", periodEnd[c][s])
  <2>2. e \in Events /\ e.sub = s /\ Clears(e)
    BY <1>1, ConstructorTypes
  <2> HIDE DEF e
  <2>3. Notify(c, <<e>>)
    BY <2>1 DEF e
  <2> QED
    BY <1>1, <1>2, <1>4, <2>1, <2>2, <2>3, NotifyOneKeeps
<1>9. CASE Cancel(c, s)
  <2>1. /\ Notify(c, <<Deleted(s)>>) /\ stripe' = [stripe EXCEPT ![c][s] = "deleted"]
        /\ periodEnd' = periodEnd /\ paidOnce' = paidOnce
    BY <1>9 DEF Cancel
  <2> QED
    BY <1>1, <1>2, <1>4, <2>1, ConstructorTypes, NotifyOneKeeps
<1> QED
  BY <1>5, <1>6, <1>7, <1>8, <1>9

\* An event is handled: in order, the store catches up with it, unless it ends another
\* subscription than one that runs; out of order, the customer is none of ours.
LEMMA WebhookStep ==
  ASSUME IInv, NEW c \in Customers, NEW i \in 1..Len(pending[c]), NEW again \in BOOLEAN,
         Webhook(c, i, again)
  PROVE  IInv'
<1> DEFINE e == pending[c][i]
<1>1. /\ paidUntil' = [paidUntil EXCEPT ![c] = Handled(c, e)]
      /\ pending' = IF again THEN pending ELSE [pending EXCEPT ![c] = RemoveAt(@, i)]
      /\ reordered' = IF i = 1 THEN reordered ELSE reordered \cup {c}
      /\ collided' = IF Clears(e) /\ \E s \in Subs \ {e.sub} : stripe[c][s] = "active"
                    THEN collided \cup {c} ELSE collided
      /\ UNCHANGED <<now, stripeEnabled, stripe, periodEnd, paidOnce, forgotten, issued>>
  BY DEF Webhook
<1>2. /\ PaymentTypes /\ pending[c] \in Seq(Events) /\ e \in Events /\ now \in Nat
      /\ paidUntil[c] \in Nat /\ \A s \in Subs : periodEnd[c][s] \in Grants
  BY PaymentAssumption DEF PaymentAssumption, IInv, PaymentTypes, Grants
<1> HIDE DEF e
<1>3. /\ Handled(c, e) \in Grants
      /\ Clears(e) => Handled(c, e) = 0
      /\ ~Clears(e) => Handled(c, e) >= paidUntil[c]
      /\ \A s \in Subs, end \in Grants \ {0} :
           e = Subscription(s, "active", end) => ~Clears(e) /\ Handled(c, e) >= end
  BY <1>2, HandledProperties
<1>4. /\ paidUntil'[c] = Handled(c, e) /\ stripe'[c] = stripe[c]
      /\ periodEnd'[c] = periodEnd[c]
      /\ pending'[c] = IF again THEN pending[c] ELSE RemoveAt(pending[c], i)
  BY <1>1, <1>2 DEF PaymentTypes
<1>5. /\ RemoveAt(pending[c], i) \in Seq(Events)
      /\ Len(RemoveAt(pending[c], i)) = Len(pending[c]) - 1
      /\ \A j \in 1..Len(pending[c]) - 1 :
           RemoveAt(pending[c], i)[j] = IF j < i THEN pending[c][j] ELSE pending[c][j + 1]
  BY <1>2, RemoveAtProperties
<1>6. PaymentTypes'
  <2>1. paidUntil' \in [Customers -> Grants]
    BY <1>1, <1>2, <1>3 DEF PaymentTypes
  <2>2. pending' \in [Customers -> Seq(Events)]
    BY <1>1, <1>2, <1>5 DEF PaymentTypes
  <2>3. \A d \in Customers : Len(pending'[d]) <= Len(pending[d])
    BY <1>1, <1>2, <1>5 DEF PaymentTypes
  <2>4. \A d \in Customers : Len(pending'[d]) <= MaxPending
    BY <1>2, <2>2, <2>3, PaymentAssumption DEF PaymentAssumption, PaymentTypes
  <2>5. reordered' \cup collided' \subseteq Customers
    BY <1>1, <1>2 DEF PaymentTypes
  <2> QED
    BY <1>1, <1>2, <2>1, <2>2, <2>4, <2>5 DEF PaymentTypes
<1>7. GrantsArePaid(c)'
  <2>1. \A j \in 1..Len(pending'[c]) : \E k \in 1..Len(pending[c]) :
          pending'[c][j] = pending[c][k]
    BY <1>2, <1>4, <1>5
  <2>2. \A j \in 1..Len(pending[c]) : ~Clears(pending[c][j]) => c \in paidOnce
    BY DEF IInv, CustomerInv, GrantsArePaid
  <2>3. Handled(c, e) # 0 => c \in paidOnce
    BY <1>3, <2>2 DEF e
  <2> QED
    BY <1>1, <1>4, <2>1, <2>2, <2>3 DEF IInv, CustomerInv, GrantsArePaid, Clears
<1>8. PeriodKnown(c)'
  BY <1>4 DEF IInv, CustomerInv, PeriodKnown
<1>9. ASSUME c \notin reordered' PROVE LastWord(c)' /\ \A s \in Subs : Known(c, s)'
  <2>1. /\ i = 1 /\ LastWord(c) /\ \A s \in Subs : Known(c, s) /\ PeriodKnown(c)
    BY <1>1, <1>9 DEF IInv, CustomerInv
  <2>2. Len(pending[c]) \in Nat \ {0} /\ pending[c] # <<>>
    BY <1>2
  <2>3. ASSUME NEW s \in Subs PROVE Known(c, s)'
    <3> SUFFICES ASSUME stripe[c][s] = "active"
                 PROVE  Known(c, s)'
      BY <1>4 DEF Known
    <3> DEFINE end == periodEnd[c][s]
               Reached ==
                 c \notin forgotten \cup collided' /\ now < end => Handled(c, e) >= end
    <3>1. end \in Grants \ {0}
      BY <1>2, <2>1 DEF PeriodKnown
    <3>2. CASE Announced(pending[c], s, end)
      <4>1. \/ Announced(RemoveAt(pending[c], 1), s, end)
            \/ /\ e = Subscription(s, "active", end)
               /\ NoEnd(RemoveAt(pending[c], 1), s, 1)
        BY <1>2, <2>1, <2>2, <3>2, QueueShrinks DEF e
      <4>2. e = Subscription(s, "active", end) => Handled(c, e) >= end
        BY <1>3, <3>1
      <4>3. \/ Announced(pending'[c], s, end)
            \/ NoEnd(pending'[c], s, 1) /\ Reached
        BY <1>4, <2>1, <3>2, <4>1, <4>2
      <4> QED
        BY <1>1, <1>4, <4>3 DEF Known, Announced, NoEnd, Clears, Subscription
    <3>3. CASE /\ NoEnd(pending[c], s, 1)
               /\ c \notin forgotten \cup collided /\ now < end => paidUntil[c] >= end
      <4>1. NoEnd(pending'[c], s, 1)
        BY <1>2, <1>4, <2>1, <2>2, <3>3, QueueShrinks
      <4>2. Reached
        <5>1. CASE Clears(e)
          <6>1. 1 \in 1..Len(pending[c]) /\ e = pending[c][1]
            BY <2>1, <2>2 DEF e
          <6>2. e.sub # s
            BY <3>3, <5>1, <6>1 DEF NoEnd
          <6> QED
            BY <1>1, <5>1, <6>2
        <5>2. CASE ~Clears(e)
          <6>1. Handled(c, e) >= paidUntil[c] /\ Handled(c, e) \in Nat /\ end \in Nat
            BY <1>3, <3>1, <5>2, PaymentAssumption DEF PaymentAssumption, Grants
          <6> QED
            BY <1>1, <1>2, <3>3, <5>2, <6>1
        <5> QED
          BY <5>1, <5>2
      <4> QED
        BY <1>1, <1>4, <4>1, <4>2 DEF Known, Announced, NoEnd, Clears, Subscription
    <3> QED
      BY <2>1, <3>2, <3>3 DEF Known
  <2>4. LastWord(c)'
    <3>1. CASE again
      BY <1>1, <1>4, <2>1, <2>2, <3>1 DEF LastWord, Idle, Clears
    <3>2. CASE ~again /\ Len(pending[c]) = 1
      <4>1. pending'[c] = <<>>
        BY <1>4, <1>5, <3>2
      <4>2. Idle(c) => Clears(e)
        BY <2>1, <2>2, <3>2 DEF LastWord, e
      <4> QED
        BY <1>3, <1>4, <4>1, <4>2 DEF LastWord, Idle
    <3>3. CASE ~again /\ Len(pending[c]) # 1
      <4> DEFINE n == Len(pending[c])
      <4>0. n \in Nat \ {0} /\ n # 1
        BY <2>2, <3>3
      <4>1. Idle(c) => Clears(pending[c][n])
        BY <2>1, <2>2 DEF LastWord
      <4> HIDE DEF n
      <4>2. n - 1 \in 1..n - 1
        BY <4>0
      <4>3. /\ pending'[c] = RemoveAt(pending[c], i)
            /\ Len(pending'[c]) = n - 1
        BY <1>4, <1>5, <3>3 DEF n
      <4>4. RemoveAt(pending[c], i)[n - 1] = pending[c][n]
        BY <1>5, <2>1, <4>0, <4>2 DEF n
      <4>5. Len(pending'[c]) # 0
        BY <4>0, <4>3
      <4>6. pending'[c] # <<>>
        BY <4>5
      <4>7. pending'[c][Len(pending'[c])] = pending[c][n]
        BY <4>3, <4>4, Zenon
      <4> QED
        BY <1>4, <4>1, <4>6, <4>7 DEF LastWord, Idle, Clears
    <3> QED
      BY <3>1, <3>2, <3>3
  <2> QED
    BY <2>3, <2>4
<1>10. ASSUME NEW d \in Customers \ {c} PROVE CustomerInv(d)'
  <2>1. /\ paidUntil'[d] = paidUntil[d] /\ stripe'[d] = stripe[d]
        /\ periodEnd'[d] = periodEnd[d] /\ pending'[d] = pending[d]
    BY <1>1, <1>2 DEF PaymentTypes
  <2> QED
    BY <1>1, <1>2, <2>1, OthersKeep DEF IInv
<1>11. MockMode' /\ TokenOnlyAfterPayment'
  BY <1>1 DEF IInv, MockMode, TokenOnlyAfterPayment
<1> QED
  BY <1>6, <1>7, <1>8, <1>9, <1>10, <1>11 DEF IInv, CustomerInv

\* The store is asked: a lapsed entry goes, and a token is issued for one that has not.
LEMMA TokenRequestStep ==
  ASSUME IInv, NEW c \in Customers, TokenRequest(c)
  PROVE  IInv'
<1>1. /\ paidUntil' = [paidUntil EXCEPT ![c] = Current(c)]
      /\ issued' = IF Current(c) = 0 THEN issued ELSE Token(c, Current(c))
      /\ UNCHANGED <<now, stripeEnabled, stripe, periodEnd, pending, paidOnce, reordered,
                     forgotten, collided>>
  BY DEF TokenRequest
<1>2. PaymentTypes /\ now \in Nat \ {0} /\ paidUntil[c] \in Grants /\ 0 \in Grants
  BY PaymentAssumption DEF PaymentAssumption, IInv, PaymentTypes, Grants
<1>3. Current(c) = IF paidUntil[c] < now THEN 0 ELSE paidUntil[c]
  BY DEF Current
<1>4. Current(c) # 0 => Token(c, Current(c)) \in Tokens /\ c \in paidOnce
  BY <1>2, <1>3, TokenProperties DEF IInv, CustomerInv, GrantsArePaid, Grants
<1>5. PaymentTypes'
  BY <1>1, <1>2, <1>3, <1>4 DEF PaymentTypes
<1>6. /\ paidUntil'[c] = Current(c) /\ stripe'[c] = stripe[c]
      /\ periodEnd'[c] = periodEnd[c] /\ pending'[c] = pending[c]
      /\ \A s \in Subs : periodEnd[c][s] \in Nat
      /\ paidUntil[c] \in Nat
  BY <1>1, <1>2, PaymentAssumption DEF PaymentAssumption, PaymentTypes, Grants
<1>7. ASSUME NEW s \in Subs, Known(c, s) PROVE Known(c, s)'
  BY <1>1, <1>2, <1>3, <1>6, <1>7 DEF Known, Announced, NoEnd
<1>8. CustomerInv(c)'
  BY <1>1, <1>3, <1>6, <1>7
     DEF IInv, CustomerInv, GrantsArePaid, LastWord, Idle, PeriodKnown, Clears
<1>9. ASSUME NEW d \in Customers \ {c} PROVE CustomerInv(d)'
  <2>1. paidUntil'[d] = paidUntil[d]
    BY <1>1, <1>2 DEF PaymentTypes
  <2> QED
    BY <1>1, <1>2, <2>1, OthersKeep DEF IInv
<1>10. TokenOnlyAfterPayment'
  BY <1>1, <1>2, <1>3, <1>4 DEF IInv, TokenOnlyAfterPayment, Token, Grants
<1> QED
  BY <1>1, <1>5, <1>8, <1>9, <1>10 DEF IInv, MockMode

LEMMA MockSubscribeStep ==
  ASSUME IInv, NEW c \in Customers, MockSubscribe(c)
  PROVE  IInv'
<1>1. /\ ~stripeEnabled
      /\ paidUntil' = [paidUntil EXCEPT ![c] = Extended(paidUntil[c], now + Ttl)]
      /\ issued' = Token(c, now + Ttl)
      /\ paidOnce' = paidOnce \cup {c}
      /\ UNCHANGED <<now, stripeEnabled, stripe, periodEnd, pending, reordered, forgotten,
                     collided>>
  BY DEF MockSubscribe
<1>2. /\ PaymentTypes /\ now \in Nat /\ paidUntil[c] \in Grants
      /\ now + Ttl \in Grants /\ now + Ttl >= now
  BY PaymentAssumption DEF PaymentAssumption, IInv, PaymentTypes, Grants
<1>3. Token(c, now + Ttl) \in Tokens
  BY <1>2, TokenProperties
<1>4. PaymentTypes'
  BY <1>1, <1>2, <1>3 DEF PaymentTypes, Extended
<1>5. \A s \in Subs : stripe[c][s] = "none"
  BY <1>1 DEF IInv, MockMode
<1>6. CustomerInv(c)'
  <2>1. /\ c \in paidOnce' /\ stripe'[c] = stripe[c] /\ pending'[c] = pending[c]
        /\ c \notin reordered' => LastWord(c)
    BY <1>1 DEF IInv, CustomerInv
  <2>2. LastWord(c) => LastWord(c)'
    BY <1>1 DEF LastWord, Idle, Clears
  <2> QED
    BY <1>5, <2>1, <2>2 DEF CustomerInv, GrantsArePaid, Known, PeriodKnown
<1>7. ASSUME NEW d \in Customers \ {c} PROVE CustomerInv(d)'
  <2>1. paidUntil'[d] = paidUntil[d]
    BY <1>1, <1>2 DEF PaymentTypes
  <2> QED
    BY <1>1, <1>2, <2>1, OthersKeep DEF IInv
<1>8. TokenOnlyAfterPayment'
  BY <1>1, <1>2 DEF TokenOnlyAfterPayment, Token
<1> QED
  BY <1>1, <1>4, <1>6, <1>7, <1>8 DEF IInv, MockMode

\* A restart forgets every entry; whoever had one is known to have been forgotten.
LEMMA RestartStep == IInv /\ Restart => IInv'
<1> SUFFICES ASSUME IInv, Restart PROVE IInv'
  OBVIOUS
<1>1. /\ paidUntil' = [c \in Customers |-> 0]
      /\ forgotten' = forgotten \cup {c \in Customers : paidUntil[c] # 0}
      /\ UNCHANGED <<now, stripeEnabled, stripe, periodEnd, pending, paidOnce, reordered,
                     collided, issued>>
  BY DEF Restart
<1>2. PaymentTypes'
  BY <1>1, PaymentAssumption DEF PaymentAssumption, IInv, PaymentTypes, Grants
<1>3. ASSUME NEW c \in Customers PROVE CustomerInv(c)'
  <2>1. /\ paidUntil'[c] = 0 /\ now \in Nat
        /\ c \notin forgotten' => c \notin forgotten /\ paidUntil[c] = 0
    BY <1>1, PaymentAssumption DEF PaymentAssumption, IInv, PaymentTypes
  <2>2. GrantsArePaid(c)' /\ PeriodKnown(c)'
    BY <1>1, <2>1 DEF IInv, CustomerInv, GrantsArePaid, PeriodKnown, Clears
  <2>3. ASSUME NEW s \in Subs, Known(c, s) PROVE Known(c, s)'
    BY <1>1, <2>1, <2>3 DEF Known, Announced, NoEnd
  <2>4. LastWord(c) => LastWord(c)'
    BY <1>1, <2>1 DEF LastWord, Idle, Clears
  <2> QED
    BY <1>1, <2>2, <2>3, <2>4 DEF IInv, CustomerInv
<1> QED
  BY <1>1, <1>2, <1>3 DEF IInv, MockMode, TokenOnlyAfterPayment

LEMMA NextIInv == IInv /\ [Next]_vars => IInv'
<1> SUFFICES ASSUME IInv, [Next]_vars PROVE IInv'
  OBVIOUS
<1>1. CASE Tick
  <2>1. /\ now \in Nat /\ now' = now + 1 /\ now' \in 1..Horizon
        /\ UNCHANGED <<stripeEnabled, paidUntil, stripe, periodEnd, pending, paidOnce,
                       reordered, forgotten, collided, issued>>
    BY <1>1, PaymentAssumption DEF PaymentAssumption, Tick, IInv, PaymentTypes
  <2>2. PaymentTypes'
    BY <2>1 DEF IInv, PaymentTypes
  <2>3. ASSUME NEW c \in Customers PROVE CustomerInv(c)'
    BY <2>1, OthersKeep DEF IInv
  <2> QED
    BY <2>1, <2>2, <2>3 DEF IInv, MockMode, TokenOnlyAfterPayment
<1>2. CASE UNCHANGED vars
  <2>1. PaymentTypes /\ PaymentTypes' /\ now \in Nat /\ now' = now
    BY <1>2, PaymentAssumption DEF PaymentAssumption, vars, IInv, PaymentTypes
  <2>2. ASSUME NEW c \in Customers PROVE CustomerInv(c)'
    BY <1>2, <2>1, OthersKeep DEF IInv, vars
  <2> QED
    BY <1>2, <2>1, <2>2 DEF vars, IInv, MockMode, TokenOnlyAfterPayment
<1>3. CASE Restart
  BY <1>3, RestartStep
<1> QED
  BY <1>1, <1>2, <1>3, TokenRequestStep, MockSubscribeStep, StripeStep, WebhookStep DEF Next

LEMMA SpecIInv == Spec => []IInv
BY InitIInv, NextIInv, PTL DEF Spec

------------------------------------------------------------------------------

\* markPaid takes the later expiry instead of adding: through any repeats no entry, no
\* period and no token goes further than one payment can take it.
THEOREM TypeCorrect == Spec => []TypeOK
<1>1. IInv => TypeOK
  BY PaymentAssumption DEF PaymentAssumption, IInv, PaymentTypes, Grants, Times, Tokens,
     States, TypeOK
<1> QED
  BY <1>1, SpecIInv, PTL

\* A paying customer whose events came in order has access to the end of the period,
\* unless an event of another subscription of the same customer cleared the entry.
THEOREM PayingCustomersHaveAccess == Spec => []PayingKeepsAccessInOrder
<1>1. IInv => PayingKeepsAccessInOrder
  BY DEF IInv, CustomerInv, Known, Announced, HasAccess, PayingKeepsAccessInOrder
<1> QED
  BY <1>1, SpecIInv, PTL

\* A customer who pays no subscription any more and whose events came in order has no
\* entry.
THEOREM LapsedCustomersAreCleared == Spec => []LapsedLosesAccess
<1>1. IInv => LapsedLosesAccess
  BY DEF IInv, CustomerInv, LastWord, Idle, LapsedLosesAccess
<1> QED
  BY <1>1, SpecIInv, PTL

\* No token without a payment, in whatever order events arrive and however often.
THEOREM TokensArePaid == Spec => []TokenOnlyAfterPayment
<1>1. IInv => TokenOnlyAfterPayment
  BY DEF IInv
<1> QED
  BY <1>1, SpecIInv, PTL

\* An entry ends early for one of three reasons only.
THEOREM EntriesEndForCause == Spec => OnlyEndedForCause
<1> DEFINE Cause(c) ==
      paidUntil'[c] < paidUntil[c] =>
        /\ paidUntil'[c] = 0
        /\ \/ paidUntil[c] < now
           \/ \E i \in 1..Len(pending[c]) : Clears(pending[c][i])
           \/ c \in forgotten'
<1>1. ASSUME IInv, [Next]_vars PROVE [\A c \in Customers : Cause(c)]_vars
  <2> SUFFICES ASSUME Next, NEW c \in Customers PROVE Cause(c)
    BY <1>1
  <2>1. /\ PaymentTypes /\ paidUntil \in [Customers -> Grants] /\ paidUntil[c] \in Nat
        /\ now \in Nat /\ now + Ttl \in Nat
    BY <1>1, PaymentAssumption DEF PaymentAssumption, IInv, PaymentTypes, Grants
  <2>2. ASSUME NEW d \in Customers, MockSubscribe(d) PROVE Cause(c)
    BY <2>1, <2>2 DEF MockSubscribe, Extended
  <2>3. ASSUME NEW d \in Customers, TokenRequest(d) PROVE Cause(c)
    BY <2>1, <2>3 DEF TokenRequest, Current
  <2>4. ASSUME NEW d \in Customers, NEW i \in 1..Len(pending[d]), NEW again \in BOOLEAN,
               Webhook(d, i, again)
        PROVE  Cause(c)
    <3>1. pending[d][i] \in Events
      BY <2>1 DEF PaymentTypes
    <3>2. paidUntil' = [paidUntil EXCEPT ![d] = Handled(d, pending[d][i])]
      BY <2>4 DEF Webhook
    <3>3. /\ Handled(d, pending[d][i]) \in Nat
          /\ \/ Clears(pending[d][i]) /\ Handled(d, pending[d][i]) = 0
             \/ Handled(d, pending[d][i]) >= paidUntil[d]
      BY <2>1, <3>1, HandledProperties, PaymentAssumption DEF PaymentAssumption, Grants
    <3>4. CASE c = d
      BY <2>1, <3>2, <3>3, <3>4
    <3>5. CASE c # d
      BY <2>1, <3>2, <3>5
    <3> QED
      BY <3>4, <3>5
  <2>5. CASE Restart
    BY <2>1, <2>5 DEF Restart
  <2>6. CASE UNCHANGED paidUntil
    BY <2>1, <2>6
  <2> QED
    BY <2>2, <2>3, <2>4, <2>5, <2>6
       DEF Next, Checkout, FirstPayment, Renew, RenewFails, Cancel, Notify, Tick
<1> QED
  BY <1>1, SpecIInv, PTL DEF Spec, OnlyEndedForCause
================================================================================
