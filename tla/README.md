# Text Me Secretly — TLA+ models, TLC runs and TLAPS proofs

A formal companion to this repository: models of its server and client logic
in TLA+, small instances checked with TLC, and theorems proved with TLAPS.
Every definition is translated from the JavaScript, not from the documents;
`PROJECT.json` maps each one to its lines.

## 1. The system

Two clients talk over a WebRTC data channel, end-to-end encrypted with Noise
XX. A Node server relays the signaling, takes payments and signs subscription
tokens. The client runs only behind a VPN, and each contact gets 20 free
messages.

```
   vpn.js ──onChange──▶ app.js ──connect/disconnect──▶ js/signaling.js
                          │  ▲                             │ WebSocket
          dial/teardown   │  │ 'signal'                    ▼
                          ▼  │                    server/src/signaling.js
   messaging.js ◀─ e2ee.js ◀─ webrtc.js ◀═ data channel ═▶ the other client
        │
        └─ subscription.js ──HTTP──▶ server.js ─▶ payment.js, subscription.js
```

| Component | State it keeps | Operations | Hard behaviour |
|---|---|---|---|
| Relay `server/src/signaling.js` | `peers` (id → socket), `ipConns`, per socket `anonId`, `isAlive`, `_ipCounted`, rate fields | connection, message, pong, close, error, sweep | id takeover against late closes; close and error of one socket; half-open peers; window boundary |
| Payment `server/src/payment.js`, `server.js` | `paidUntilByAnonId`, in memory | `markPaid`, `clearPaid`, `paidUntil`, webhook, `/api/subscribe`, `/api/token` | late, repeated, reordered events; several subscriptions of one id; restart; lapsing |
| Tokens `server/src/subscription.js`, keys `keys.js` | key pair on disk | `issueToken`, `verifyToken`, `loadOrCreate` | minimum lifetime; crash between two writes |
| VPN gate `js/vpn.js`, `js/app.js` | `lastActive`, the poll, the overlay, `sessionStarted` | `check`, `emit`, lock, unlock, re-check button, `startSession` | answers that overtake each other; work that goes on across awaits after a lock |
| Signaling link `js/signaling.js` (client) | `ws`, `myId`, `_shouldReconnect`, `setTimeout`s | `connect`, `_open`, `disconnect`, listeners | reconnect against disconnect; listeners of a replaced socket |
| Call control `js/app.js`, `js/webrtc.js` | `state.peer`, `state.peerId`, `state.session`, `state.messaging` | dial, offer, answer, ice, bye, teardown, channel and connection events | listeners of an earlier call read the state of a later one |
| End-to-end session `js/e2ee.js` | `hs`, `established`, `failed`, `_recvChain` | start, handshake, `_finalize`, seal, destroy | await between the last message and the decision |
| Freemium `js/messaging.js`, `js/subscription.js` | a durable counter per contact, the cached token, the paywall | `_gateOutgoing`, `_acceptIncoming`, `bumpCount`, `subscribe` | check and bump are awaits apart; two independent counters; kill between them and a new call |
| Media `js/messaging.js`, `js/app.js` | `_incomingMedia`, the bubbles | `sendMedia`, `_onMediaMeta`, `_onChunk`, `_onMediaEnd`, the tap | frames that arrive during the gate's await; overlapping sends |
| Ephemeral store `js/ephemeral.js` | texts with a deadline, the sweeper, view-once media | add, sweep, reveal, burn, purge | sender's clock, sweeper stopped and set again, handlers that wait across the purge |
| Key and token cache `js/subscription.js` | `verifyKeyPromise`, stored key and token | `getVerifyKey`, `getToken`, `subscribe`, `verifyPeerToken` | a failed first fetch that is remembered; an answer without a token; one slot for the tokens of all identities; device clocks |
| Identity `js/identity.js` | the stored key pair, the live one | restore, passphrase, boot | a switch while a purchase is in flight; a kill between store and switch |
| Crypto, storage, VPN plugin, UI, TURN | — | pure functions, native code, markup | — |

`PROJECT.json` lists every component with its status, and under `hazards` the
places in the code where steps can meet in an order no test exercises.

What makes each component correct, in a phrase: *the relay* never routes to a
dead or foreign socket and counts connections exactly; *payment* gives access
to those and only those who paid, in the end; *the gate* re-locks after every
drop and cuts the link; *the link* heals and speaks for the current identity;
*a call's* chat reaches the person it names; *the free tier* charges nobody
too early, gives nobody too much, and leaves no message unanswered; *a medium* that
can be viewed is what was sent, and none is revealed after a lock; *a text* is gone in time;
*the channel* delivers in order what it reported as sent, to the owner of the
dialled id only; *a token*, the one bought last, is accepted while it runs, offline too.

## 2. Modules

| Module | What it models |
|---|---|
| `RateWindow` | `rateLimitOk` as operators on a record (age of the window, count, notified). Only `now - _rlStart` matters, so the age saturates at the window and the count one above the limit. |
| `RateBurst` | One connection under any pattern of frames, with the frames of the last interval as long as the window. |
| `Presence` | Abstract specification: the directory the relay promises. |
| `SignalingRelay` | The whole relay. One action per Node callback; `Handlers(ws)` are those of one connection. Uses `RateWindow`. |
| `SignalingRelayProofs`, `CallControlProofs`, `VpnLinkProofs`, `TokenTrustProofs`, `PaymentProofs`, `MediaTransferProofs`, `SecureChannelProofs` | The theorems about the module each is named after. |
| `MessagingProofs` | The theorems about `Freemium` and `TextLife`, the two halves of what `js/messaging.js` does with a message. The names that both need (`TextInit`, `TextNext`, `TextSpec`) carry a prefix in `TextLife` for that. |
| `VpnLink` | Gate, session start, identity switch and reconnecting WebSocket of one client — the components that share `gate`, `ws` and the timers. |
| `CallControl`, `MCCallControl` | Calls of one client: `state.peer/session/messaging/peerId`, each `PeerConnection` and each `E2EESession`, with the listeners of earlier calls still armed. The `MC` module adds symmetry. |
| `Freemium` | Both ends of one conversation, over any number of calls, each running overlapping async handlers over an ordered channel. |
| `Payment`, `MCPayment` | The paid-until store, the webhook, token issue, and Stripe as the environment, with several subscriptions of one customer. The `MC` module adds symmetry. |
| `MediaTransfer` | View-once files from one peer to the other: sender, ordered channel, reassembly, vault, bubble. |
| `TextLife` | Text bubbles of one device from the gate to the sweep, across locks. |
| `FramePipe` | Abstract specification: what `e2ee.js` promises to `messaging.js` at the two ends. |
| `SecureChannel` | Both ends of one call: handshake, receive chain, `_finalize`, sealed frames, over the data channel with its bounded send buffer. Implements `FramePipe`. |
| `TokenTrust`, `MCTokenTrust` | From the key files of the server over the token and the identity of a sender to the verdict of a receiver, with crashes, lost files, lost answers, restarts and three clocks. The `MC` module adds symmetry. |

How state and actions correspond to the code:

* An action is one callback up to its next `await`; JavaScript runs nothing
  else in between. What an async function carries across an await is a
  variable (`session`, `switchTo`, `pollAns`, `snap`, `stage`).
* `SignalingRelay!phase` is the `ws` library's `readyState` as the callbacks
  see it; `closing` is the time between leaving OPEN and the close event.
  `Receive` is the common prefix of the message handler (budget first), and
  `Register`, `Unavailable`, `Forward`, `Ignored` its outcomes. `Discard`
  forgets the fields of a dead socket so that its name can be taken again; a
  name is only taken again when nothing refers to it.
* `VpnLink!sock` holds every WebSocket object, `ws` the one in `this.ws`. A
  replaced object keeps its listeners, as in the code. `timers` counts
  pending reconnects, which `disconnect()` does not cancel.
* `CallControl!stage` is the life of each `PeerConnection`; `Begin` replaces
  `state.peer` and closes nothing. `Teardown` works on whatever the state
  holds now, whoever calls it: `teardownPeer`, the second half of
  `lockForVpn`, the `insecure` listener, late channel events.
* `Freemium!stage` is one task per message and direction, moved from await to
  await; `BumpReads` and `BumpWrites` are the two halves of `bumpCount`. The channel
  closes and opens again with the next call (`Reopens`), and the stored counters go
  on; `stale` are the tasks that still hold the session of an earlier call. `Killed`
  ends the tasks of one application where they stand: one that has let its message
  through and not stored its count ends as `uncounted`.
* `MediaTransfer!gate` is the await in `_onMediaMeta` of each file, `incoming` is
  `_incomingMedia`. A frame names its file so that a property can tell where a
  chunk came from; `ChunkArrives` never looks at it, as chunks carry no id in the
  code. Texts, counters and the direction back are `Freemium`'s. `Lock` leaves alone
  what `purgeAll` leaves alone: a bubble that shows its medium, and `incoming`.
* `TextLife!text` follows a text through the two awaits before it is shown (the
  gate, the counter); `due` is the interval timer that has run out. One tick is
  one period of the sweeper.
* `SecureChannel`: a Noise message is its nonce; `sealed` and `opening` are the
  counters of Noise, and sealing takes a nonce whether or not `channel.send()`
  then throws. `out` is the send buffer, `chain` is `_recvChain`. The data
  channel itself is ordered and reliable until an end goes away.
* `TokenTrust!boot` is where `loadOrCreate` stands; a crash in a write may leave
  that file torn. `stored` and `live` are the two places an identity is kept;
  `buying` is the one `subscribe()` in flight; `memo` is `verifyKeyPromise`. `now` is
  the server's clock; the sender (`GetToken`) and the receiver (`VerifyJwt`) each
  read a clock of their own (`Clocks`).
* `Payment!pending` are webhook events under way. `Webhook(c, i, again)`
  handles the i-th (`i > 1` is a reordering) and keeps it when Stripe is to
  repeat it. `stripeEnabled` is fixed when the process starts, so `Init`
  chooses it. `Restart` empties the store. Stripe keeps each subscription apart
  (`stripe[c][s]`), the code one entry per customer: `Checkout` is refused to nobody.

Variables marked *history* (`inbox`, `regs`, `gateBy`, `crossed`, `overlapped`,
`reordered`, `forgotten`, `collided`, `paidOnce`, `issued`, `late`, `shownAt`, `underWay`,
`sent`, `received` and `overrun` of `SecureChannel`, `served`, `lone`, `paid`, `latest`,
`msg.paid` and `msg.newest` of `TokenTrust`, `kills` of `Freemium`, the frames of
`RateBurst`) are read by no guard, but for the bound that `kills` serves as well; they let
a property speak about the past. Operators named `Bug…` are not part of any model: each is
a plausible slip in the definition that follows it, listed under `mutants` with the property it breaks.

## 3. Runs

| Run | Configuration | Shows |
|---|---|---|
| `rate_burst` | limit 3, window 4 ticks, up to 6 frames a tick | Any interval as long as the window passes at most twice the limit, and nobody who keeps to the budget is refused. |
| `relay` | 2 sockets, 2 ids, 2 addresses, cap 1, limit 1, fairness | Slots and routes exact, frames only to their addressee, a takeover survives the loser's close, the relay implements `Presence`, half-open sockets are reaped. |
| `vpn_link` | 2 WebSockets, 2 identities, 2 timers, fairness | The link speaks for the current identity, never registers a socket twice, is never stranded and heals; the overlay mirrors the monitor, and an unlock by the monitor is undone when the tunnel drops. |
| `link_locked` | 2 WebSockets, 1 identity, 1 timer, no fairness | **Violation** of `LockedLinkCut`. |
| `call_control` | 2 contacts, 3 calls, 2 sessions alive, symmetry | A chat never outlives its session; with one call at a time it reaches whom it names and no connection is left behind. |
| `freemium` | 3 messages (one a media file), limit 1, 2 handlers at once per peer, 1 kill amid a message per peer, any number of calls, fairness | Counters never overstate, nobody is gated early; over all calls a peer whose handlers never overlapped lets the limit through, and one more per kill amid a message; every message is rendered or answered. |
| `payment` | 1 customer with 2 subscriptions, horizon 4, period 2, token life 1, 3 events under way, both modes, symmetry | With events in order a customer has access until the end of each active subscription, unless an event of another of its own cleared it; a lapsed one has none; entries end only for cause; no token without payment. |
| `media` | 2 files of 3 chunks | From a sender who does not overlap, what is revealed is a tail of the file sent; the whole of it if no frame comes during the gate's await; from a lock on the vault is empty and nothing more is revealed. |
| `text_life` | 2 texts, 2 sweeps of life, clocks off by 1, 7 sweeps | No text outlives its deadline by more than a sweep, nor stays longer than the TTL, the contact's skew and a sweep; behind the lock only a text appears whose handler was waiting. |
| `secure_channel` | 4 frames each way, send buffer of 2, fairness | The ends implement `FramePipe` whatever happens; without overruns they stay in step and lose no frame to a running `_finalize`; a handshake ends the same way at both ends. |
| `token_trust` | mock mode, 2 ids, 2 key pairs, token life 2, device clocks off by 1, horizon 3, symmetry | The server never signs with one key and serves another (but for a lost private file); a fetched key serves offline for good; offline and server verdicts agree while keys do not rotate and the clocks do not stand on either side of the token's end; of the ids that are paid for, the one bought for last is accepted and an earlier one refused. |
| `paid_no_token` | the same with Stripe, token life 1, no skew, horizon 2 | **Violation** of `ActiveMeansToken`. |

Deadlock is checked everywhere except in `freemium`, `media`, `text_life`,
`secure_channel`, `token_trust` and `paid_no_token`, where a finished
conversation, a closed call or the end of the modelled time really stops.

### Bounds, and why they are enough

* **Relay.** Two sockets are the least that can take an id over from each
  other, two ids the least for a misrouted frame, cap 1 makes the cap bite at
  once, and two addresses give a release its chance to hit the wrong counter.
  Safety does not rest on these numbers: section 5 proves it for all of them.
* **`VpnLink`.** `Socks` bounds the WebSocket objects alive at once (`Open` waits
  for a free name) and `MaxTimers` the pending reconnects (a close that would
  arm one more waits). Two of each give the races of the code: a replaced
  socket whose listener still fires, and a timer beside a live socket. At most
  one poll and one native event are under way; the code polls every four seconds.
  Re-checks overlap as they like, since the button stays enabled while it asks:
  `recheckAns` is the set of answers under way.
* **`CallControl`.** `Calls` and `Sessions` bound what is alive at once;
  three calls let a third one meet an earlier one's late events. Names are
  taken again after `Discard`, so histories are unbounded.
* **`Freemium`.** `Msgs` bounds the conversation and `MaxTasks` the handlers a
  peer runs at once. With limit 1, three messages reach below, at and beyond
  the limit; two handlers suffice to lose an update. Messages are numbered as they
  are sent. `MaxKills` bounds how often each application is killed in the middle of a
  message (once is enough to leave a counter short and to go on in a later call);
  idle it is killed, and calls end and begin, any number of times.
* **`Payment`.** Customers never interact, so one is enough; two subscriptions are the
  least that can share its entry. The horizon covers a first period, a renewal or
  its failure and the end after it; three pending events let an event arrive before
  two older ones.
* **`MediaTransfer`.** Two files let one transfer replace another, and three
  chunks give a file a beginning, a middle and an end to lose (a gap needs all
  three). A third file was tried with one chunk and changes nothing.
* **`TextLife`.** Two texts let the sweeper stop for one and be set again for the
  other; the horizon holds two lives and more. A clock off by one sweep gives
  texts that are past their deadline when they appear.
* **`SecureChannel`.** Both ends are the system. With a buffer of two a frame can
  wait behind another or overrun, and four frames let frames follow a lost one.
* **`TokenTrust`.** One device on each side, since devices share nothing but the
  server. Two ids make a switch and a switch back, two key pairs a rotation or a
  regeneration after a crash; further crashes find no third pair and stay down.
  With a life of two ticks and clocks off by one, a subscription runs in every clock,
  in some and in none; the horizon lets it expire and be bought again.
* **`RateBurst`.** `MaxPerTick` is twice the limit, so a whole burst fits into a
  tick on each side of a window boundary.

### Fairness

Only what the code or its platform schedules:

* Relay: `setInterval` keeps calling the sweep, and `ws` delivers the close event
  of a socket that left OPEN. Nothing is assumed of clients: `HalfOpenReaped` needs
  only these two.
* `VpnLink`: the poll fires, promises resolve (a fetch fails rather than hangs),
  a close completes, timers fire, and a network that is tried again and again
  connects in the end — strong fairness, since a connection under way can be
  replaced. Nothing is assumed of the tunnel, native events or the user.
* `Freemium`: promises resolve and an open channel delivers, as one condition over
  all of it (`Progress`), which is enough as a conversation has finitely many
  messages. Nothing is assumed of either user or of a call lasting; a channel may
  close and an application be killed at any time.
* `SecureChannel`: a channel opens or fails, the network carries what a live
  channel took, promises resolve, and an end learns that the other is gone.
  Nothing is assumed of users, who may close at any time and send or not.

`CallControl`, `Payment`, `MediaTransfer`, `TextLife` and `TokenTrust` state safety
only.

## 4. Findings

Two disagreements between the code and what is written beside it are shown by
runs of their own.

1. `link_locked` — `client/www/js/app.js:148`: the tunnel drops during the first
   fetches, and the session connects behind the overlay. The same property
   also fails through a reconnect timer that outlives `disconnect()`
   (`js/signaling.js:44`), a WebSocket replaced while connecting (`:23`) and an
   identity switch that ends after the lock (`app.js:450`).
2. `paid_no_token` — `client/www/js/subscription.js:146`: with Stripe the answer of
   `/api/subscribe` carries a checkout address and no token; `subscribe()` saves
   the missing token and the paywall says "Subscription active. You can keep
   chatting." Nothing opens the address, and nothing calls `/api/token`, which
   `README.md:367-369` and `server/server.js:96-97` say the client does.
   In mock mode `SubscriberAccepted` holds.

Others have a property that states the part the code keeps, and fail as soon as
its condition is dropped:

* `client/www/js/app.js:561`: an unlock by the re-check button is unknown to
  `vpn.js`, so the drop that follows is no change and never locks
  (`MonitorRelocksOnDrop` without `gateBy`).
* `client/www/js/app.js:226`: the `established` listener reads `state.session` and
  `state.peerId` of that moment; a call begun during another's handshake puts
  its name on the other's chat (`ChatReachesItsContactAlone` without `crossed`).
* `server/src/payment.js:190`: a `created` event with status `incomplete` that
  arrives after the first payment's events clears a paying customer
  (`PayingKeepsAccessInOrder` without `reordered`).
* `server/src/payment.js:77`: `createCheckout` refuses nobody, and all subscriptions of
  an id share one entry. A second checkout that is not paid, or a second subscription
  that is cancelled or past due, clears a customer whose other subscription is paid
  for, with every event in order (`:190`, `:194`; `PayingKeepsAccessInOrder` without
  `collided`).
* `client/www/js/messaging.js:71`: a message is let through before it is counted, so an
  application that is killed in between has a stored counter one short for good, and
  the next call goes on from it (`FreeMessagesCappedSerially` without `kills`).
* `client/www/js/ephemeral.js:25`: the 12 hours of a text run from the clock of whoever
  wrote it. Where that clock is ahead, the text stays longer than the "12-hour local TTL"
  and "*maximum* lifetime" of `:3-8` (`TextGoneInTime` without `MaxSkew`).
* `client/www/js/ephemeral.js:84-85`: "Wipe everything" leaves what is not in the vault: a
  medium that is on the screen, and the chunks of a transfer that has not ended
  (`messaging.js`'s `_incomingMedia`). `NothingRevealedAfterLock` says what the lock does
  keep: nothing more comes to the screen, and the vault stays empty.
* `client/www/js/crypto.js:129`: a token's end is compared with the device's own clock, so
  near it the verdict of a device whose clock is off is not the one "the server would"
  reach (`VerdictsAgree` without `Expiring`).
* `client/www/js/messaging.js:137`: chunks that come while `_onMediaMeta` awaits its
  gate are dropped, and `_onMediaEnd` shows what is left without comparing `size` or
  `chunks` (`WholeWhenPrompt` without `late`).
* `client/www/js/messaging.js:155`: a text whose gate is asked while the VPN gate
  locks is shown after the purge (`OnlyWaitingTextsAppear` without `underWay`).
* `client/www/js/messaging.js:103`: `sendMedia` applies no back-pressure. A
  `channel.send()` that throws on a full buffer has used up a Noise nonce, and the
  other end silently drops every later frame (`e2ee.js:126-129`), while they are
  reported as sent (`InStep` and `SentArrives` without `overrun`).
* `client/www/js/subscription.js:171-173`: "would only reach the same verdict" is
  wrong once the server has changed keys: a receiver that fetched the old one
  refuses every new token until it restarts (`VerdictsAgree` without its
  condition on `served`).
* `server/src/keys.js:22`: a public key file left without its private one, and a
  crash between the two writes, and the server signs with one key and serves
  another (`ServedKeyVerifies` without `lone`). A public key torn by a crash, beside a
  private one, keeps it from booting until somebody removes either file.
* `client/www/js/subscription.js:78-79`: the store keeps one token. A purchase under a
  second id overwrites the token of the first (`:146`), and who switches back is refused
  although that subscription runs; the same when the identity is switched while
  `subscribe()` is in flight, as the token is then the old id's (`SubscriberAccepted`
  without `newest`).

Seen while modelling, without a property: a second `register` on one socket overwrites
`ws.anonId`, and the close handler leaves the first entry in the map
(`server/src/signaling.js:149` against `:12`) — `OneIdPerSocket` shows that this
repository's client never does it; free-tier handlers that overlap all pass the gate
on one reading (`js/messaging.js:224`), so a burst gets more than 20 through; two
clients that dial each other each replace their own call by the incoming one, and
neither completes (`js/app.js:162`); an image
that never loads is never burnt (`js/app.js:331`); `ephemeral.js:85` speaks of a purge
on blur that `app.js` never asks for; messages that cross at the limit make a
receiver refuse even a subscriber, whose own counter had not reached the limit
and who attached no token (`README.md:80-81` of the repository); a token lives a
minute also when its subscription ends sooner (`server/src/subscription.js:28`
against `:51`); a late answer is applied to whatever call waits for one
(`CallControl!AnswerArrives`, stage `mixed`); TURN credentials are fetched once per
session (`app.js:138`), not "just before opening a peer connection"
(`server/server.js:143`), and are not renewed when they expire.

## 5. Proofs

`SignalingRelayProofs` proves, for every set of sockets, ids and addresses, every
cap and every rate limit (assumptions `RelayAssumption` and `RateAssumption`: the
markers for "none" are not elements, the limits are positive, the set of sockets
is finite):

| Theorem | States |
|---|---|
| `TypeCorrect` | `Spec => []TypeOK`; in particular no address is over its cap |
| `SlotsAreExact` | `Spec => []SlotsExact` |
| `RoutesAreSound` | `~MayRename` gives `Spec => []RoutesSound` |
| `FramesReachTheirAddressee` | `~MayRename` gives `Spec => []OnlyOwnFrames` |
| `TakeoverSurvives` | `Spec => RouteLostOnlyToOwnClose` |
| `RelayImplementsDirectory` | `~MayRename` gives `Spec => ImplementsDirectory` |

The argument. `TypeOK` is inductive by itself; the conjunct that takes work is
`ipConns[ip] <= MaxConnsPerIp`, which `Room` guards. `SlotsExact` is inductive with
`TypeOK`: each action leaves `ipCounted` alone (`SlotsUntouched`), adds one socket to
one address (`AcceptKeepsCounts`) or releases one (`ReleaseKeepsCounts`, where the
idempotent `_ipCounted = null` is what makes close after error harmless).
`RoutesSound` and `OnlyOwnFrames` are not inductive apart: a frame goes to the socket
a route names, so the second needs the first, and a socket that registers its id must
have got no frame under another, hence

    RouteInv == NoIdUntilOpen /\ RoutesSound /\ OnlyOwnFrames

where `NoIdUntilOpen` says that a socket that is absent or was refused has no id (and then,
by `OnlyOwnFrames`, no frames).
The refinement maps `holder` to `peers` and `inbox` to itself; `DirectoryStep`
shows under the invariant that `Register`, `Forward` and `OnClose` are `Announce`,
`Deliver` and `Depart`, and everything else stutters. `~MayRename` is needed —
a socket that registers twice leaves an entry behind when it closes — and is what `OneIdPerSocket`
states of this repository's client; `SocketsHaveOneId` below proves it.

The budget of one connection has a second model, `RateBurst`, and two theorems of its
own in that module, for any budget, any window and any pattern of frames (assumptions
`RateAssumption` and `BurstAssumption`). Its names carry a prefix for that.

| Theorem | States |
|---|---|
| `BurstsAreBounded` | `BurstSpec => []BurstBound` |
| `DropsAreDeserved` | `BurstSpec => NoFalseDrop` |

A frame of the last interval was counted either by the window of now (`Counted`) or by
a window before it (`Before`). A window has let through no more than it counted and no more
than the budget, and of the windows before only one can reach into an interval that
short, since a window stays open for as long as the interval is. That
is `BurstInv`; it also says that what an unexpired window has counted is all recent, so
that the frame it refuses ends an over-full interval, and that a window which has expired
has seen no frame of this tick, which is why a new window starts with one. The history
is a set of frames rather than a count per tick: the cardinality of a set can be
reasoned about, a sum over a function of any length cannot.

`CallControlProofs` proves, for any contacts and any number of calls and sessions
alive at once (assumption `CallAssumption`: the markers for "none" are not elements):

| Theorem | States |
|---|---|
| `CallTypeCorrect` | `Spec => []TypeOK` |
| `ChatNeverOutlivesSession` | `Spec => []ChatOverLiveSession`, calls crossing or not |
| `ChatReachesContactAlone` | `Spec => []ChatReachesItsContactAlone` |
| `CallsAreSevered` | `Spec => []NoCallLeftBehind` |

The first two follow from `CallInv`: the session of now has not been destroyed, and a
call or session of now is for somebody. It is inductive because whatever ends a call
goes through `Teardown`, which resets peer, session and chat together
(`TeardownKeeps`); nothing about the order of events is needed. The other two need
`AloneInv` as well. The claim about a chat alone is not inductive: `Finalized` labels
the chat with the `peerId` of now, so one must know that the session that
finalizes is the session of now (`NoStrayFinalize`, which in turn needs
`OthersDestroyed`, since a destroyed session cannot finish its handshake), that
this session was made for the `peerId` of now (`SessionOfNow`), and that no earlier
connection can open its channel (`NothingLeft`). All of it is under `~crossed`,
and without it the claim fails.

`VpnLinkProofs` proves, for any identities and any number of sockets and reconnect
timers (assumption `LinkAssumption`: the markers are not elements, the first
identity is one, at least one timer can be pending):

| Theorem | States |
|---|---|
| `TypeCorrect` | `Spec => []TypeOK`; no more timers fire than were armed |
| `LinkSpeaks` | `Spec => []LinkSpeaksForMyId` |
| `SocketsHaveOneId` | `Spec => []OneIdPerSocket` |
| `LinkIsNeverStranded` | `Spec => []NeverStranded` |
| `OverlayMirrorsMonitor` | `Spec => []GateFollowsMonitor` |

`OneIdPerSocket` is not inductive: the `open` listener of a replaced socket registers
over the socket in use, a second time if that one is open already. One must know
that the socket in use was registered under the id of the link alone (`InUse`), which
every change of that id keeps because it comes with a fresh socket (`OpenKeeps`);
sockets that were replaced are never registered again. That a link is never stranded
rests on `InUse` too: the socket in use is never a closing one. `NoIdBeforeConnect`
says that no timer is pending before the link has an id.

`MessagingProofs` proves of the free-tier gates, for any limit, any finite set of
messages, any number of calls, of handlers at once and of kills (assumption
`FreemiumAssumption`: there are two peers, the limit is positive, messages are numbered, a
paywall notice is not one):

| Theorem | States |
|---|---|
| `GatesTypeCorrect` | `Spec => []TypeOK`; counters stay within two per message |
| `CountersNeverOverstate` | `Spec => []CounterNeverOverstates` |
| `NobodyGatedEarly` | `Spec => []NoEarlyGate` |
| `SerialPeersCapFreeMessages` | `Spec => []FreeMessagesCappedSerially` |

None of the three invariants is inductive. A counter does not overstate because what a
handler has read of it does not either (`Counting`), and what it counts is there for
good: a task that has begun keeps its owner and one that is done stays so
(`TasksKept`). That is false for a frame that comes in twice, so the invariant has to follow
messages on their way (`OnItsWay`): each is carried once, after its sender let it go
and before its receiver has begun (`MessageInOrder`). `NoEarlyGate` then follows from
`CounterNeverOverstates`: who is asked to pay was asked at a counter that had reached
the limit, and `Counted` only grows. The cap needs more, and only of peers that never
overlapped (`Serial`): at most one handler runs, the counter and what that handler
has read of it are exact, and if it is to let a message through without a token the
counter is still below the limit; the message it may add is then within it
(`SerialAtWork`). That is said of the messages that were counted or still may be
(`LetThrough`). Those that a kill left uncounted are apart: each has cost a kill, as a
peer that never overlapped has one task to lose (`UncountedNext`), and the theorem
adds the two. Calls that end and begin change nothing here: a task left over from an
earlier one counts at the same store. `StepKinds` sorts the actions by what they do
to the tasks, so that the proofs above go over six kinds of step instead of fourteen
actions.

Of the texts that passed, for any texts, any TTL and any skew of the clocks
(assumption `TextAssumption`):

| Theorem | States |
|---|---|
| `TextsTypeCorrect` | `TextSpec => []TextTypeOK`; a bubble on the screen has its sweeper set |
| `TextsGoInTime` | `TextSpec => []TextGoneInTime` |
| `LockedScreenHoldsWaitingTexts` | `TextSpec => []OnlyWaitingTextsAppear` |

`Fresh` strengthens `TextGoneInTime` by when the sweeper runs: between two runs a
bubble is within its deadline or has just appeared, and only while a run is due it
may be one period past that. `DeadlineNear` bounds the deadline by the moment it was
set, the TTL and the skew, which gives the bound on the time since a text appeared.
`WaitingIsKnown` says the same of handlers that
`OnlyWaitingTextsAppear` says of bubbles.

`TokenTrustProofs` proves, for any identities, any number of key pairs, any lifetime of
a subscription and any difference of the clocks (assumption `TrustAssumption`: the
markers are no keys, identities or tokens, a subscription runs for a while):

| Theorem | States |
|---|---|
| `TypeCorrect` | `Spec => []TypeOK` |
| `ServerSignsWithServedKey` | `Spec => []ServedKeyVerifies` |
| `StoredKeyIsUsed` | `Spec => []OfflineAfterFirstFetch` |
| `OfflineVerdictIsServers` | `Spec => VerdictsAgree` |
| `PaidMessagesPass` | `Spec => SubscriberAccepted` |

The invariant has a part per party. `FilesInStep`: unless a public key was left
alone, one that can be read has its private key beside it, and while a pair is being
written there is no public key, so a crash never leaves two halves that do not
belong together. `SenderInv`: the token in the store is the one of the latest purchase,
and every token was signed with a key that is served. `ReceiverInv`: the receiver's
keys were served, and a message from an id whose subscription runs in every clock
carries the token of the latest purchase: its own, which no clock has run out on, if it
was bought for last, and else another id's or none. While one key has been served, the
receiver's key is therefore the one the token was signed with.

`PaymentProofs` proves, for any customers and subscriptions, any lifetimes and billing periods, any
horizon and any number of events under way, with Stripe and without (assumption
`PaymentAssumption`: the lengths of time and the bounds are positive):

| Theorem | States |
|---|---|
| `TypeCorrect` | `Spec => []TypeOK`; no entry, period or token goes further than one payment can take it |
| `PayingCustomersHaveAccess` | `Spec => []PayingKeepsAccessInOrder` |
| `LapsedCustomersAreCleared` | `Spec => []LapsedLosesAccess` |
| `TokensArePaid` | `Spec => []TokenOnlyAfterPayment` |
| `EntriesEndForCause` | `Spec => OnlyEndedForCause` |

Access after the last event says nothing about the events before it. The invariant
therefore speaks of the queue, as long as nothing was reordered. Of each active
subscription (`Known`) the queue holds the event that grants its period and nothing
against it after that (`Announced`), or the event has arrived and the entry reaches to
the end of the period, unless an event of another subscription has undone it
(`collided`) or a restart. Of a customer with no active subscription the event sent last
clears the entry (`LastWord`). Sending appends to the queue (`QueueGrows`); taking an
event out of the middle marks the customer as reordered, and taking the first one
keeps what the rest of the queue says (`QueueShrinks`). What a handled event does to
an entry is `HandledProperties`. That no token goes out unpaid needs no order: every entry, every
subscription that has run and every event that grants go back to a payment
(`GrantsArePaid`), and without Stripe nobody has a subscription there (`MockMode`). The
bound in `TypeCorrect` is `markPaid` taking the later of two expiries: repeats of an event
do not add up.

`MediaTransferProofs` proves, for any files of any length (assumption `MediaAssumption`:
a file has a chunk, and the marker for no transfer is not a transfer):

| Theorem | States |
|---|---|
| `TypeCorrect` | `Spec => []TypeOK` |
| `ViewedIsTail` | `Spec => []RenderedIsTail` |
| `PromptIsWhole` | `Spec => []WholeWhenPrompt` |
| `PurgedForGood` | `Spec => NothingRevealedAfterLock` |

The code keeps no count of the parts that have come in, so the invariant has to say
that there is one: `Arrivals` holds of some function `next`, the part of each file
that the receiver gets next, and each handler moves it on. `OnTheWire` is the channel:
what has been sent and has not come in is on the wire, each file's parts in order.
While senders do not overlap the files follow one another there (`OneByOne`), and a
file that has begun to come in is the first of the wire (`ArrivingFirst`); what is
assembled is then always the stretch of chunks that ends just before `next`
(`TailSoFar`), as long as it must be if no frame met a gate that was asking (`Prompt`).
`VaultTail` keeps that for the stashed file, whose transfer is over.
`NothingRevealedAfterLock` rests on `Severed`, the lock having closed the channel, so that
nothing can come in and be stashed after the purge, and on `VaultPurged`: a bubble that
is tapped later finds nothing.

`SecureChannelProofs` proves, for any number of frames and any size of the send buffer
(assumption `ChannelAssumption`: there are two ends, and a buffer takes a message):

| Theorem | States |
|---|---|
| `TypeCorrect` | `Spec => []TypeOK` |
| `NoNonceLeftOut` | `Spec => []InStep` |
| `ChannelImplementsPipe` | `Spec => ImplementsPipe` |

The two theorems rest on different parts of the invariant. `InStep` is about what is
in flight, chain and send buffer put end to end (`Coming`). While no channel has gone
and no buffer has overrun (`Intact`, which speaks of channels that are not open yet as
well), the handshake takes turns (`Turns`), so that an end is at most one handshake
message ahead, and what comes to an end is that message and then every sealed
one in order (`InLine`). `Lifecycle` gives the two facts that keep it so: nothing is sealed
before the third message, so a handshake message finds its queue empty and its
buffer with room (`RoomForHandshake`); and a live end with all three messages is
established or finalizing, so a transport message that is handled is one that opens.
The refinement holds without `Intact`, when nonces have been lost, and needs an
argument from the other side (`Piped`): a message in flight carries a frame that was
reported as sent, and the i-th frame reported is numbered at least i - 1. So if e has
opened n frames, the first n reported ones, and the next to open is numbered n, then it
is the one reported next (`NextFrame`), which is what `Deliver` of `FramePipe` takes.
`PipeStep` maps `Finalized` to `Open` when the key fits, `Send` to `Send` when the
channel took the frame, and every other step to a stutter.

### Only model-checked

Liveness (`HalfOpenReaped`, `LinkHeals`, `MonitorRelocksOnDrop`, `EverySendAnswered`,
`SentArrives`, `HandshakeAgrees`) stays with TLC: the prover does not handle fairness
and `ENABLED`. Everything else the passing runs check is a theorem as well.

## 6. Not modelled

Two whole clients over the relay (glare) are planned below. Noise, libsodium, Web
Crypto and JWT signatures are taken to do what they promise. `SecureChannel` starts a
session in one step: `start()` awaits `cryptoReady`, which `boot()` has awaited before any
call (`app.js:573`), so that nothing comes in between. `config.js` and `turn.js` are functions of the environment
without state. The native VPN plugin, markup, bundling and deployment are
outside; `VpnLink` takes from the plugin that it knows whether a tunnel is up,
and lets it send events when it likes. A chunk's content and the decoding of an
image are not modelled: a burn may come at any time after the tap, or never.
The server's express rate limits, body parsing and the check of the Stripe
signature guard routes and change none of the modelled state. Key pinning
(`EXPECTED_JWT_KID`, off by default), the migration of an older identity record and
the HTTP cache in front of `/api/pubkey` are left out of `TokenTrust`, as are two
identity switches that overlap. The messages
`displaced`, `registered`, `bad-id` and the like carry no state.

## 7. Plan

Done, in this order: relay (with its abstraction and proofs), gate and link,
freemium, payment, call control, media transfer, text life, secure channel (with its
abstraction), token trust; then the proofs of all of these and of the two refinements.

Next:

1. Two `CallControl` clients over `Presence`: glare, and a call to a contact
   that is taken over by a second device.

The MC modules, configurations and mutants follow each module; parameters stay
CONSTANTS with named assumptions, and no module uses a RECURSIVE operator, so
that all of them can be proved about.
