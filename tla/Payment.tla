-------------------------------- MODULE Payment --------------------------------
(***************************************************************************)
(* Who has paid until when, and the tokens that prove it: the store and    *)
(* the webhook of server/src/payment.js, issueToken of                     *)
(* server/src/subscription.js, and the routes of server/server.js that     *)
(* call them.  Stripe is the environment: it knows the true state of each  *)
(* subscription and sends an event for every change; an event may be       *)
(* delivered late, more than once and out of order.  Nothing keeps a       *)
(* customer from a second checkout, and the store has one entry for all    *)
(* the subscriptions of an anonymous id.                                   *)
(***************************************************************************)
EXTENDS Integers, Sequences, SequencesExt

CONSTANTS Customers,
          Subs,           \* bound: the subscriptions a customer can have at once
          NoToken,
          Ttl,            \* subscriptionTtlDays
          Period,         \* environment: the billing period of the Stripe price
          MinTtl,         \* the 60 seconds a token lives at least
          Horizon,        \* bound: the last tick of the clock
          MaxPending      \* bound: events under way per customer

ASSUME PaymentAssumption ==
  {Ttl, Period, MinTtl, Horizon, MaxPending} \subseteq Nat \ {0}

VARIABLES now,        \* Date.now()
          stripeEnabled, \* config.stripeEnabled, decided when the process loads
          paidUntil,  \* paidUntilByAnonId; 0: no entry
          stripe,     \* environment: none, incomplete, active, past_due, deleted, per subscription
          periodEnd,  \* environment: current_period_end, per subscription
          pending,    \* webhook events on their way, per customer, oldest first
          paidOnce,   \* history: who has made a payment
          reordered,  \* history: who had an event arrive before an older one
          forgotten,  \* history: whose entry a restart dropped
          collided,   \* history: who was cleared for one subscription with another active
          issued      \* history: the token issued last, or NoToken

vars == <<now, stripeEnabled, paidUntil, stripe, periodEnd, pending, paidOnce,
          reordered, forgotten, collided, issued>>

\* An event about the subscription s: completed (checkout.session.completed),
\* subscription (created or updated, with its status and period end) or deleted.
Completed(s) == [sub |-> s, kind |-> "completed", status |-> "none", end |-> 0]
Subscription(s, status, end) ==
  [sub |-> s, kind |-> "subscription", status |-> status, end |-> end]
Deleted(s) == [sub |-> s, kind |-> "deleted", status |-> "none", end |-> 0]

Init ==
  /\ now = 1
  /\ stripeEnabled \in BOOLEAN
  /\ paidUntil = [c \in Customers |-> 0]
  /\ stripe = [c \in Customers |-> [s \in Subs |-> "none"]]
  /\ periodEnd = [c \in Customers |-> [s \in Subs |-> 0]]
  /\ pending = [c \in Customers |-> <<>>]
  /\ paidOnce = {}
  /\ reordered = {} /\ forgotten = {} /\ collided = {}
  /\ issued = NoToken

------------------------------------------------------------------------------
(* server/src/payment.js and subscription.js *)

BugExtendedOverwrites(current, until) == until

\* markPaid: the entry after a payment until `until`; it only ever extends.
Extended(current, until) == IF until > current THEN until ELSE current

BugCurrent(c) == paidUntil[c]

\* paidUntil(): what it returns, and leaves in the store; a lapsed entry is purged.
Current(c) == IF paidUntil[c] < now THEN 0 ELSE paidUntil[c]

\* issueToken: at least 60 seconds, else up to the end of the subscription.
Token(c, until) ==
  [sub |-> c, iat |-> now, until |-> until,
   exp |-> now + (IF until - now < MinTtl THEN MinTtl ELSE until - now)]

\* Whether handleStripeEvent calls clearPaid; "active" also stands for trialing.
Clears(e) == \/ e.kind = "deleted"
             \/ e.kind = "subscription" /\ ~(e.status = "active" /\ e.end # 0)

BugHandledIgnoresStatus(c, e) ==
  IF e.kind = "deleted" THEN 0
  ELSE Extended(paidUntil[c], IF e.kind = "completed" THEN now + Ttl ELSE e.end)
BugHandledOnlyCompleted(c, e) ==
  IF Clears(e) THEN 0
  ELSE IF e.kind = "completed" THEN Extended(paidUntil[c], now + Ttl) ELSE paidUntil[c]

\* handleStripeEvent: the entry of the event's customer afterwards.
Handled(c, e) ==
  IF Clears(e) THEN 0
  ELSE Extended(paidUntil[c], IF e.kind = "completed" THEN now + Ttl ELSE e.end)

------------------------------------------------------------------------------
(* server/server.js *)

\* POST /api/subscribe in mock mode: paid at once, token in the answer.
MockSubscribe(c) ==
  /\ ~stripeEnabled
  /\ paidUntil' = [paidUntil EXCEPT ![c] = Extended(@, now + Ttl)]
  /\ issued' = Token(c, now + Ttl)
  /\ paidOnce' = paidOnce \cup {c}
  /\ UNCHANGED <<now, stripeEnabled, stripe, periodEnd, pending, reordered, forgotten,
                 collided>>

\* POST /api/token: the lapsed entry is purged, or a token is issued; an entry
\* that ends this very tick still counts.
TokenRequest(c) ==
  /\ paidUntil' = [paidUntil EXCEPT ![c] = Current(c)]
  /\ issued' = IF Current(c) = 0 THEN issued ELSE Token(c, Current(c))
  /\ UNCHANGED <<now, stripeEnabled, stripe, periodEnd, pending, paidOnce,
                 reordered, forgotten, collided>>

\* POST /api/stripe/webhook: the i-th event under way is handled; Stripe delivers
\* it `again` when it missed the 200.
Webhook(c, i, again) ==
  /\ LET e == pending[c][i] IN
       collided' = IF Clears(e) /\ \E s \in Subs \ {e.sub} : stripe[c][s] = "active"
                  THEN collided \cup {c} ELSE collided
  /\ paidUntil' = [paidUntil EXCEPT ![c] = Handled(c, pending[c][i])]
  /\ pending' = IF again THEN pending ELSE [pending EXCEPT ![c] = RemoveAt(@, i)]
  /\ reordered' = IF i = 1 THEN reordered ELSE reordered \cup {c}
  /\ UNCHANGED <<now, stripeEnabled, stripe, periodEnd, paidOnce, forgotten, issued>>

\* The process restarts: the Map is empty again.
Restart ==
  /\ paidUntil' = [c \in Customers |-> 0]
  /\ forgotten' = forgotten \cup {c \in Customers : paidUntil[c] # 0}
  /\ UNCHANGED <<now, stripeEnabled, stripe, periodEnd, pending, paidOnce, reordered,
                 collided, issued>>
------------------------------------------------------------------------------
(* Stripe and time *)

Notify(c, events) ==
  /\ Len(pending[c]) + Len(events) <= MaxPending
  /\ pending' = [pending EXCEPT ![c] = @ \o events]
  /\ UNCHANGED <<now, stripeEnabled, paidUntil, reordered, forgotten, collided, issued>>

\* createCheckout refuses nobody.  The customer tries to pay on the page it opens:
\* subscription.created, not paid yet.
Checkout(c, s) ==
  /\ stripeEnabled
  /\ stripe[c][s] \in {"none", "deleted"}
  /\ stripe' = [stripe EXCEPT ![c][s] = "incomplete"]
  /\ Notify(c, <<Subscription(s, "incomplete", now + Period)>>)
  /\ UNCHANGED <<periodEnd, paidOnce>>

\* The first payment succeeds.
FirstPayment(c, s) ==
  /\ stripe[c][s] = "incomplete"
  /\ stripe' = [stripe EXCEPT ![c][s] = "active"]
  /\ periodEnd' = [periodEnd EXCEPT ![c][s] = now + Period]
  /\ paidOnce' = paidOnce \cup {c}
  /\ Notify(c, <<Completed(s), Subscription(s, "active", now + Period)>>)

\* A period ends and is paid for, or is not; a payment that is due may come later.
Renew(c, s) ==
  /\ stripe[c][s] \in {"active", "past_due"} /\ now >= periodEnd[c][s]
  /\ stripe' = [stripe EXCEPT ![c][s] = "active"]
  /\ periodEnd' = [periodEnd EXCEPT ![c][s] = now + Period]
  /\ Notify(c, <<Subscription(s, "active", now + Period)>>)
  /\ UNCHANGED paidOnce

RenewFails(c, s) ==
  /\ stripe[c][s] = "active" /\ now >= periodEnd[c][s]
  /\ stripe' = [stripe EXCEPT ![c][s] = "past_due"]
  /\ Notify(c, <<Subscription(s, "past_due", periodEnd[c][s])>>)
  /\ UNCHANGED <<periodEnd, paidOnce>>

Cancel(c, s) ==
  /\ stripe[c][s] \in {"incomplete", "active", "past_due"}
  /\ stripe' = [stripe EXCEPT ![c][s] = "deleted"]
  /\ Notify(c, <<Deleted(s)>>)
  /\ UNCHANGED <<periodEnd, paidOnce>>

Tick == /\ now < Horizon
        /\ now' = now + 1
        /\ UNCHANGED <<stripeEnabled, paidUntil, stripe, periodEnd, pending, paidOnce,
                        reordered, forgotten, collided, issued>>

Next ==
  \/ \E c \in Customers :
       \/ MockSubscribe(c) \/ TokenRequest(c)
       \/ \E s \in Subs :
            \/ Checkout(c, s) \/ FirstPayment(c, s) \/ Renew(c, s) \/ RenewFails(c, s)
            \/ Cancel(c, s)
       \/ \E i \in 1..Len(pending[c]), again \in BOOLEAN :
            Webhook(c, i, again)
  \/ Restart
  \/ Tick

Spec == Init /\ [][Next]_vars

------------------------------------------------------------------------------
(* Properties *)

Times == 0..(Horizon + Ttl + Period + MinTtl)

\* No paid-until lies beyond the last period Stripe can have granted (markPaid
\* takes the later expiry instead of adding), and the retry queue is bounded.
TypeOK ==
  /\ now \in 1..Horizon
  /\ paidUntil \in [Customers -> Times]
  /\ stripe \in [Customers ->
                    [Subs -> {"none", "incomplete", "active", "past_due", "deleted"}]]
  /\ periodEnd \in [Customers -> [Subs -> Times]]
  /\ \A c \in Customers : Len(pending[c]) <= MaxPending
  /\ paidOnce \cup reordered \cup forgotten \cup collided \subseteq Customers
  /\ issued = NoToken \/ (issued.sub \in Customers /\ issued.exp \in Times)

HasAccess(c) ==
  pending[c] = <<>> =>
    \A s \in Subs : stripe[c][s] = "active" /\ now < periodEnd[c][s] =>
                    paidUntil[c] >= periodEnd[c][s]

\* markPaid "only ever extends to the later expiry so out-of-order webhooks can't
\* shorten a subscription": once its events have arrived in order, however late or
\* often, a customer whose paid period is running has access until its end, of the
\* subscription that ends last if there are several.  Out of order, an event that says
\* incomplete does clear a paying customer; and in order, so does an event that says
\* incomplete, past due or deleted of another subscription of the same id, because a
\* second checkout is not refused and both share an entry.  No other event does.
PayingKeepsAccessInOrder ==
  \A c \in Customers \ (reordered \cup forgotten \cup collided) : HasAccess(c)

\* Once all its events have arrived, in order, a customer who has cancelled or not paid
\* every subscription it had has no entry left, through repeats and restarts.
LapsedLosesAccess ==
  \A c \in Customers \ reordered :
    pending[c] = <<>> /\ (\A s \in Subs : stripe[c][s] # "active") /\ stripeEnabled =>
      paidUntil[c] = 0

\* An entry never gets shorter: it is removed when it has lapsed, when an event
\* under way says so, or with the whole store by a restart.
OnlyEndedForCause ==
  [][\A c \in Customers :
       paidUntil'[c] < paidUntil[c] =>
         /\ paidUntil'[c] = 0
         /\ \/ paidUntil[c] < now
            \/ \E i \in 1..Len(pending[c]) : Clears(pending[c][i])
            \/ c \in forgotten']_vars

\* A token is issued only to someone who has paid, for time not yet over, through
\* restarts, repeated and reordered events.
TokenOnlyAfterPayment ==
  issued # NoToken => issued.sub \in paidOnce /\ issued.iat <= issued.until
================================================================================
