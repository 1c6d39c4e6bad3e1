------------------------------- MODULE TextLife -------------------------------
(***************************************************************************)
(* The life of text messages on one device: _onText and sendText of        *)
(* js/messaging.js, whose handlers wait for the free-tier gate and the     *)
(* counter, then the registry and the sweeper of js/ephemeral.js.  A text  *)
(* is on the screen exactly while it is in textRegistry.                   *)
(*                                                                         *)
(* One unit of time is the period of the sweeper.                          *)
(***************************************************************************)
EXTENDS Integers

CONSTANTS Texts,
          TextTtl,    \* TEXT_TTL_MS, in periods of the sweeper
          MaxSkew,    \* bound: how far the clock of the contact is off
          MaxNow      \* bound: how long a behaviour is

ASSUME TextAssumption ==
  /\ TextTtl \in Nat \ {0}
  /\ MaxSkew \in Nat
  /\ MaxNow \in Nat

VARIABLES now,        \* Date.now()
          text,       \* where each text is
          expiresAt,  \* expiresAt of its registry entry, once it has one
          sweeper,    \* the interval timer is set
          due,        \* the timer has run out and sweep() is about to run
          locked,     \* the VPN gate is locked: no session, no input
          shownAt,    \* history: when each bubble appeared
          underWay    \* history: texts whose handler was waiting at the lock

textVars == <<now, text, expiresAt, sweeper, due, locked, shownAt, underWay>>

Shown == {t \in Texts : text[t] = "shown"}

TextInit ==
  /\ now = 0
  /\ text = [t \in Texts |-> "none"]
  /\ expiresAt = [t \in Texts |-> 0]
  /\ sweeper = FALSE /\ due = FALSE
  /\ shownAt = [t \in Texts |-> 0]
  /\ locked = FALSE /\ underWay = {}

\* A text frame arrives, or the user sends one, and the gate is asked.  `ts` is
\* the clock of whoever wrote it, and the frame may have taken a while.
TextStarts(t) ==
  /\ text[t] = "none" /\ ~locked
  /\ text' = [text EXCEPT ![t] = "asking"]
  /\ \E ts \in (now - MaxSkew)..(now + MaxSkew) :
       expiresAt' = [expiresAt EXCEPT ![t] = ts + TextTtl]
  /\ UNCHANGED <<now, sweeper, due, locked, shownAt, underWay>>

\* The gate answers; a text that passes is counted before it is shown.
TextAnswered(t) ==
  /\ text[t] = "asking"
  /\ \E to \in {"counting", "refused"} : text' = [text EXCEPT ![t] = to]
  /\ UNCHANGED <<now, expiresAt, sweeper, due, locked, shownAt, underWay>>

\* _emitLocalText, renderMessage, trackText: the bubble appears, whatever has
\* happened to the chat meanwhile, and the sweeper is set unless it is.
TextShown(t) ==
  /\ text[t] = "counting"
  /\ text' = [text EXCEPT ![t] = "shown"]
  /\ shownAt' = [shownAt EXCEPT ![t] = now]
  /\ sweeper' = TRUE
  /\ UNCHANGED <<now, expiresAt, due, locked, underWay>>

Tick ==
  /\ now < MaxNow
  /\ ~due
  /\ now' = now + 1
  /\ due' = sweeper
  /\ UNCHANGED <<text, expiresAt, sweeper, locked, shownAt, underWay>>

Expired == {t \in Shown : expiresAt[t] <= now}

BugSweep ==
  /\ due
  /\ due' = FALSE
  /\ text' = [t \in Texts |-> IF t \in Expired THEN "gone" ELSE text[t]]
  /\ sweeper' = (Expired = {})
  /\ UNCHANGED <<now, expiresAt, locked, shownAt, underWay>>

\* sweep: expired bubbles go; the timer is cleared once none is left.
Sweep ==
  /\ due
  /\ due' = FALSE
  /\ text' = [t \in Texts |-> IF t \in Expired THEN "gone" ELSE text[t]]
  /\ sweeper' = (Shown # Expired)
  /\ UNCHANGED <<now, expiresAt, locked, shownAt, underWay>>

BugLock ==
  /\ locked' = TRUE
  /\ text' = [t \in Texts |-> IF t \in Expired THEN "gone" ELSE text[t]]
  /\ underWay' = {t \in Texts : text[t] \in {"asking", "counting"}}
  /\ UNCHANGED <<now, expiresAt, sweeper, due, shownAt>>

\* lockForVpn, purgeAll: every bubble goes and the session ends.  The sweeper stays
\* set, and handlers that wait are not told.  The re-check button may do it again.
Lock ==
  /\ locked' = TRUE
  /\ text' = [t \in Texts |-> IF t \in Shown THEN "gone" ELSE text[t]]
  /\ underWay' = {t \in Texts : text[t] \in {"asking", "counting"}}
  /\ UNCHANGED <<now, expiresAt, sweeper, due, shownAt>>

\* unlockFromVpn; texts flow again once somebody calls.
Unlock ==
  /\ locked
  /\ locked' = FALSE
  /\ UNCHANGED <<now, text, expiresAt, sweeper, due, shownAt, underWay>>

TextNext ==
  \/ \E t \in Texts : TextStarts(t) \/ TextAnswered(t) \/ TextShown(t)
  \/ Tick \/ Sweep \/ Lock \/ Unlock

TextSpec == TextInit /\ [][TextNext]_textVars

------------------------------------------------------------------------------
(* Properties *)

\* A text on the screen has a sweeper that will look at it.
TextTypeOK ==
  /\ now \in 0..MaxNow
  /\ text \in [Texts -> {"none", "asking", "counting", "refused", "shown", "gone"}]
  /\ expiresAt \in [Texts -> Int]
  /\ shownAt \in [Texts -> 0..MaxNow]
  /\ sweeper \in BOOLEAN /\ due \in BOOLEAN
  /\ locked \in BOOLEAN /\ underWay \subseteq Texts
  /\ Shown # {} => sweeper

\* No text stays longer than one period of the sweeper after its deadline, or after it
\* appeared if it was past its deadline by then, however often the sweeper was stopped
\* and set again.  The deadline is by the clock of whoever wrote it: "the 12h TTL is the
\* *maximum* lifetime" (ephemeral.js:7) is kept but for the sweeper's period and for as
\* much as that clock is ahead, and by no more than the two.
TextGoneInTime ==
  \A t \in Shown :
    /\ now <= expiresAt[t] + 1 \/ now <= shownAt[t] + 1
    /\ now <= shownAt[t] + TextTtl + MaxSkew + 1

\* "If it drops at any time, we purge ephemeral data": behind the lock no text is on
\* the screen but one whose handler was waiting when the gate locked.
OnlyWaitingTextsAppear == locked => Shown \subseteq underWay
================================================================================
