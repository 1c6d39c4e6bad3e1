------------------------------- MODULE Freemium -------------------------------
(***************************************************************************)
(* The free-message limit, enforced by both ends of one conversation:      *)
(* js/messaging.js (the gates), js/subscription.js (the counter and the    *)
(* cached token) and the paywall of js/app.js, over the ordered encrypted  *)
(* channel of js/e2ee.js and js/webrtc.js.                                 *)
(*                                                                         *)
(* Every handler is an async function, and neither the data channel nor    *)
(* the send button waits for the one before it: several run at once, each  *)
(* a task that holds what it read from the store across its awaits.  A     *)
(* message gives rise to two tasks, one "out" at its sender and one "in"   *)
(* at the other peer; an action is a task from one await to the next.      *)
(* Whether a media file's chunks arrive whole is not modelled here: a media *)
(* message is its media-meta frame.                                        *)
(***************************************************************************)
EXTENDS Naturals, Sequences, FiniteSets, SequencesExt

CONSTANTS Peers,      \* the two ends
          NoPeer,
          Msgs,       \* bound: messages of the conversation, numbered as they are sent
          Media,      \* those sent with sendMedia
          Gate,       \* the { t: 'gate' } frame
          FreeLimit,  \* freeMessagesPerContact
          Subscribers,\* peers whose subscription is in force throughout
          MaxTasks,   \* bound: tasks a peer runs at once (JavaScript has none)
          MaxKills    \* bound: how often each application is killed amid a task

ASSUME FreemiumAssumption ==
  /\ \E p, q \in Peers : p # q /\ Peers = {p, q}
  /\ NoPeer \notin Peers
  /\ Media \subseteq Msgs
  /\ Subscribers \subseteq Peers
  /\ Msgs \subseteq Nat /\ IsFiniteSet(Msgs) /\ Gate \notin Msgs
  /\ FreeLimit \in Nat \ {0}
  /\ MaxTasks \in Nat \ {0}
  /\ MaxKills \in Nat

VARIABLES count,    \* the durable counter each peer keeps for the other
          token,    \* whether getToken() finds a token
          paywall,  \* whether the paywall is shown
          up,       \* the data channel is open
          chan,     \* frames on their way to each peer, in order
          from,     \* the sender of each message
          paid,     \* messages that get a token on their frame
          stage,    \* where each task stands
          snap,     \* the count a task read in bumpCount and is about to store
          overlapped,\* history: peers that have run two tasks at once
          stale,    \* tasks of an earlier call that were under way when this one began
          kills     \* history: how often each application was killed amid a task

vars == <<count, token, paywall, up, chan, from, paid, stage, snap, overlapped,
          stale, kills>>

Tasks == Msgs \X {"out", "in"}
Other(p) == CHOOSE q \in Peers : q # p
Owner(t) == IF from[t[1]] = NoPeer THEN NoPeer
            ELSE IF t[2] = "out" THEN from[t[1]] ELSE Other(from[t[1]])

\* none, then: free/token/paid (sending), checking (receiving), charge (about to
\* count), bump (counting); ended as done, walled, refused, failed (not sent, or killed
\* with the application) or, killed between the gate and the stored count, uncounted.
Stages == {"none", "free", "token", "paid", "checking", "charge", "bump",
           "done", "walled", "failed", "refused", "uncounted"}
Running == {"free", "token", "paid", "checking", "charge", "bump"}
\* The session a task holds is the one whose channel is open.
InCall(t) == up /\ t \notin stale
Busy(p) == Cardinality({t \in Tasks : Owner(t) = p /\ stage[t] \in Running})

Init ==
  /\ count = [p \in Peers |-> 0]
  /\ token = [p \in Peers |-> p \in Subscribers]
  /\ paywall = [p \in Peers |-> FALSE]
  /\ up = TRUE
  /\ chan = [p \in Peers |-> <<>>]
  /\ from = [m \in Msgs |-> NoPeer]
  /\ paid = {}
  /\ stage = [t \in Tasks |-> "none"]
  /\ snap = [t \in Tasks |-> 0]
  /\ overlapped = {}
  /\ stale = {}
  /\ kills = [p \in Peers |-> 0]

------------------------------------------------------------------------------
(* js/subscription.js *)

BugFreeTooEarly(p) == count[p] + 1 < FreeLimit
BugFreeTooLong(p) == count[p] <= FreeLimit

\* isWithinFreeTier: true while count < limit.
WithinFreeTier(p) == count[p] < FreeLimit

\* bumpCount, first half: the stored counter is read.
BumpReads(t) ==
  /\ stage[t] = "charge"
  /\ snap' = [snap EXCEPT ![t] = count[Owner(t)]]
  /\ stage' = [stage EXCEPT ![t] = "bump"]
  /\ UNCHANGED <<count, token, paywall, up, chan, from, paid, overlapped, stale, kills>>

BugBumpWrites(t) ==
  /\ stage[t] = "bump"
  /\ count' = [count EXCEPT ![Owner(t)] = snap[t] + 1]
  /\ snap' = [snap EXCEPT ![t] = 0]
  /\ stage' = [stage EXCEPT ![t] = "charge"]
  /\ UNCHANGED <<token, paywall, up, chan, from, paid, overlapped, stale, kills>>

\* bumpCount, second half: what was read, plus one, is stored.
BumpWrites(t) ==
  /\ stage[t] = "bump"
  /\ count' = [count EXCEPT ![Owner(t)] = snap[t] + 1]
  /\ snap' = [snap EXCEPT ![t] = 0]
  /\ stage' = [stage EXCEPT ![t] = "done"]
  /\ UNCHANGED <<token, paywall, up, chan, from, paid, overlapped, stale, kills>>

\* subscribe(): the paywall's button; the token is cached and attached from now on.
Subscribe(p) ==
  /\ paywall[p]
  /\ token' = [token EXCEPT ![p] = TRUE]
  /\ paywall' = [paywall EXCEPT ![p] = FALSE]
  /\ UNCHANGED <<count, up, chan, from, paid, stage, snap, overlapped, stale, kills>>

\* The cached token reaches its expiresAt.
Expire(p) ==
  /\ token[p] /\ p \notin Subscribers
  /\ token' = [token EXCEPT ![p] = FALSE]
  /\ UNCHANGED <<count, paywall, up, chan, from, paid, stage, snap, overlapped, stale, kills>>
------------------------------------------------------------------------------
(* js/messaging.js, sending *)

\* The send button or the file picker: sendText or sendMedia runs _gateOutgoing
\* up to the answer of isWithinFreeTier.
Send(p, m) ==
  /\ from[m] = NoPeer
  /\ \A k \in Msgs : k < m => from[k] # NoPeer
  /\ up
  /\ Busy(p) < MaxTasks
  /\ from' = [from EXCEPT ![m] = p]
  /\ stage' = [stage EXCEPT ![<<m, "out">>] = IF WithinFreeTier(p) THEN "free" ELSE "token"]
  /\ overlapped' = IF Busy(p) > 0 THEN overlapped \cup {p} ELSE overlapped
  /\ UNCHANGED <<count, token, paywall, up, chan, paid, snap, stale, kills>>

\* _gateOutgoing, second half: getToken, or { gated: true } and the paywall.
ReadsToken(m) ==
  LET t == <<m, "out">>
      p == from[m]
  IN  /\ stage[t] = "token"
      /\ stage' = [stage EXCEPT ![t] = IF token[p] THEN "paid" ELSE "walled"]
      /\ paid' = IF token[p] THEN paid \cup {m} ELSE paid
      /\ paywall' = IF token[p] THEN paywall ELSE [paywall EXCEPT ![p] = TRUE]
      /\ UNCHANGED <<count, token, up, chan, from, snap, overlapped, stale, kills>>

\* sendJson on an open channel; _afterSend follows.
Transmit(m) ==
  LET t == <<m, "out">> IN
  /\ stage[t] \in {"free", "paid"}
  /\ InCall(t)
  /\ chan' = [chan EXCEPT ![Other(from[m])] = Append(@, m)]
  /\ stage' = [stage EXCEPT ![t] = "charge"]
  /\ UNCHANGED <<count, token, paywall, up, from, paid, snap, overlapped, stale, kills>>

\* The task holds the session it was started on. sendJson on its closed channel is
\* false, or throws once the session is destroyed, also when a new call has begun:
\* sendText stops, sendMedia ignores the false and counts anyway.
TransmitFails(m) ==
  LET t == <<m, "out">> IN
  /\ stage[t] \in {"free", "paid"}
  /\ ~InCall(t)
  /\ \E s \in IF m \in Media THEN {"failed", "charge"} ELSE {"failed"} :
       stage' = [stage EXCEPT ![t] = s]
  /\ UNCHANGED <<count, token, paywall, up, chan, from, paid, snap, overlapped, stale, kills>>

------------------------------------------------------------------------------
(* js/messaging.js, receiving *)

\* A message frame arrives: _acceptIncoming up to the answer of isWithinFreeTier.
\* The count is read as the frame arrives; the handler goes on later.
Arrives(p) ==
  /\ chan[p] # <<>>
  /\ Head(chan[p]) # Gate
  /\ Busy(p) < MaxTasks
  /\ LET t == <<Head(chan[p]), "in">> IN
       stage' = [stage EXCEPT ![t] = IF WithinFreeTier(p) THEN "charge" ELSE "checking"]
  /\ chan' = [chan EXCEPT ![p] = Tail(@)]
  /\ overlapped' = IF Busy(p) > 0 THEN overlapped \cup {p} ELSE overlapped
  /\ UNCHANGED <<count, token, paywall, up, from, paid, snap, stale, kills>>

BugVerifies(m) ==
  LET t == <<m, "in">> IN
  /\ stage[t] = "checking"
  /\ \E ok \in IF m \in paid THEN BOOLEAN ELSE {FALSE} :
       stage' = [stage EXCEPT ![t] = IF ok THEN "charge" ELSE "refused"]
  /\ UNCHANGED <<count, token, paywall, up, chan, from, paid, snap, overlapped, stale, kills>>

\* verifyPeerToken: true or false of an attached token (a key of before a rotation,
\* a clock, no answer), false without one; a refused message is dropped and a gate
\* frame goes back, unless the call it came from is over.
Verifies(m) ==
  LET t == <<m, "in">> IN
  /\ stage[t] = "checking"
  /\ \E ok \in IF m \in paid THEN BOOLEAN ELSE {FALSE} :
       /\ stage' = [stage EXCEPT ![t] = IF ok THEN "charge" ELSE "refused"]
       /\ chan' = IF ~ok /\ InCall(t)
                  THEN [chan EXCEPT ![from[m]] = Append(@, Gate)] ELSE chan
  /\ UNCHANGED <<count, token, paywall, up, from, paid, snap, overlapped, stale, kills>>

\* A gate frame arrives: 'gated', the paywall is shown.
GateArrives(p) ==
  /\ chan[p] # <<>>
  /\ Head(chan[p]) = Gate
  /\ paywall' = [paywall EXCEPT ![p] = TRUE]
  /\ chan' = [chan EXCEPT ![p] = Tail(@)]
  /\ UNCHANGED <<count, token, up, from, paid, stage, snap, overlapped, stale, kills>>

------------------------------------------------------------------------------
(* Failures *)

\* The data channel closes; frames on their way are lost, tasks go on.
ChannelCloses ==
  /\ up
  /\ up' = FALSE
  /\ chan' = [p \in Peers |-> <<>>]
  /\ stale' = {}
  /\ UNCHANGED <<count, token, paywall, from, paid, stage, snap, overlapped, kills>>

\* The same two contacts talk again in a new call; the stored counters go on.
Reopens ==
  /\ ~up
  /\ up' = TRUE
  /\ stale' = {t \in Tasks : stage[t] \in Running}
  /\ UNCHANGED <<count, token, paywall, chan, from, paid, stage, snap, overlapped, kills>>

\* Where a task of a killed application stands: past the gate and not yet counted,
\* the message went through and the stored counter will never know.
KilledAt(s) == IF s \in {"charge", "bump"} THEN "uncounted"
               ELSE IF s \in Running THEN "failed" ELSE s

\* A peer's application is killed, with tasks under way or idle: its tasks end where
\* they stand, the store stays.
Killed(p) ==
  /\ Busy(p) > 0 => kills[p] < MaxKills
  /\ kills' = IF Busy(p) > 0 THEN [kills EXCEPT ![p] = @ + 1] ELSE kills
  /\ up' = FALSE
  /\ chan' = [q \in Peers |-> <<>>]
  /\ stage' = [t \in Tasks |-> IF Owner(t) = p THEN KilledAt(stage[t]) ELSE stage[t]]
  /\ stale' = {}
  /\ paywall' = [paywall EXCEPT ![p] = FALSE]
  /\ snap' = [t \in Tasks |-> IF Owner(t) = p THEN 0 ELSE snap[t]]
  /\ UNCHANGED <<count, token, from, paid, overlapped>>

Steps(m) == \/ ReadsToken(m) \/ Transmit(m) \/ TransmitFails(m) \/ Verifies(m)
            \/ \E d \in {"out", "in"} : BumpReads(<<m, d>>) \/ BumpWrites(<<m, d>>)

Next == \/ \E p \in Peers, m \in Msgs : Send(p, m)
        \/ \E m \in Msgs : Steps(m)
        \/ \E p \in Peers : Arrives(p) \/ GateArrives(p)
        \/ \E p \in Peers : Subscribe(p) \/ Expire(p) \/ Killed(p)
        \/ ChannelCloses \/ Reopens

Spec == Init /\ [][Next]_vars

Progress == \/ \E m \in Msgs : Steps(m)
            \/ \E p \in Peers : Arrives(p) \/ GateArrives(p)

\* Promises resolve and an open channel delivers; nothing is assumed of the user, of
\* the channel staying open or of the application. One condition is enough, as what
\* the messages of a conversation set going is finite.
FairSpec == Spec /\ WF_vars(Progress)

------------------------------------------------------------------------------
(* Properties *)

\* Counters stay within what two peers can count, a channel holds only messages
\* and paywall notices, and a handler is always between two of its awaits.
TypeOK ==
  /\ count \in [Peers -> 0..2 * Cardinality(Msgs)]
  /\ token \in [Peers -> BOOLEAN]
  /\ paywall \in [Peers -> BOOLEAN]
  /\ up \in BOOLEAN
  /\ \A p \in Peers : chan[p] \in Seq(Msgs \cup {Gate})
  /\ from \in [Msgs -> Peers \cup {NoPeer}]
  /\ paid \subseteq Msgs
  /\ stage \in [Tasks -> Stages]
  /\ snap \in [Tasks -> 0..2 * Cardinality(Msgs)]
  /\ overlapped \subseteq Peers
  /\ stale \subseteq Tasks
  /\ kills \in [Peers -> 0..MaxKills]

Counted(p) == {t \in Tasks : Owner(t) = p /\ stage[t] = "done"}
FreeTasks(p) == {t \in Tasks : /\ Owner(t) = p /\ t[1] \notin paid
                              /\ stage[t] \in {"charge", "bump", "done", "uncounted"}}

\* A counter never runs ahead of the messages its owner sent or rendered: lost
\* updates of overlapping bumps only ever favour the user.
CounterNeverOverstates == \A p \in Peers : count[p] <= Cardinality(Counted(p))

\* Nobody is asked to pay, at either end, before FreeLimit messages went through.
NoEarlyGate ==
  \A t \in Tasks :
    stage[t] \in {"token", "paid", "walled", "checking", "refused"}
    => Cardinality(Counted(Owner(t))) >= FreeLimit

\* Over all the calls of two contacts, neither end lets more than FreeLimit messages
\* without a token through, and one more for each time its application was killed in
\* the middle of one: a message is let through before it is counted, and a kill
\* between the two leaves the stored counter one short for good. A closing channel
\* costs nothing. This is so for a peer whose handlers never overlap; where they do,
\* all of them pass the gate before the first one counts.
FreeMessagesCappedSerially ==
  \A p \in Peers \ overlapped : Cardinality(FreeTasks(p)) <= FreeLimit + kills[p]

\* A message that starts on its way is rendered, or its sender meets the paywall,
\* or the call ends: a refused sender always gets to know, also when the token it
\* attached does not verify. A task left over from a call that ended is not owed one.
EverySendAnswered ==
  \A m \in Msgs :
    /\ stage[<<m, "out">>] \in {"free", "token", "paid"}
    /\ InCall(<<m, "out">>)
    ~>
      \/ stage[<<m, "in">>] = "done"
      \/ stage[<<m, "out">>] = "walled" /\ paywall[from[m]]
      \/ stage[<<m, "in">>] = "refused" /\ paywall[from[m]]
      \/ ~up
================================================================================
