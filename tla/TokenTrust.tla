------------------------------ MODULE TokenTrust ------------------------------
(***************************************************************************)
(* From the signing key to the verdict on a message: the key files of      *)
(* src/keys.js across crashes, the tokens of src/subscription.js, the      *)
(* identity and the token cache of a sending device (js/identity.js,       *)
(* js/subscription.js, js/app.js), and the key cache of a receiving one.   *)
(* A message is one past the free limit on both sides.  The clock of either *)
(* device may differ from the server's.                                    *)
(***************************************************************************)
EXTENDS Integers, FiniteSets

CONSTANTS Ids,       \* anonymous ids the sending device can have, by phrase and passphrase
          Keys,      \* bound: key pairs the server generates; each names both its halves
          None, Torn,\* no file, no value; a file whose writing was cut off
          Stripe,    \* stripeEnabled: payment goes through Stripe's checkout
          Ttl,       \* how long a subscription runs
          MaxSkew,   \* bound: how far a device's clock is off the server's, either way
          MaxNow     \* bound: how long a behaviour is

ASSUME TrustAssumption ==
  /\ Torn # None /\ {Torn, None} \cap (Keys \cup Ids) = {}
  /\ None \notin [sub : Ids, key : Keys \cup {None, Torn}, exp : Nat]
  /\ {"unset", "fetching", "null"} \cap Keys = {}
  /\ Stripe \in BOOLEAN
  /\ Ttl \in Nat \ {0} /\ MaxSkew \in Nat /\ MaxNow \in Nat

VARIABLES now,      \* Date.now() at the server
          files,    \* the key files: [priv, pub]
          boot,     \* the server: down, private (writing it), public (writing it), up
          sign, serve, \* config.jwtPrivatePem, config.jwtPublicPem
          made,     \* key pairs generated so far
          served,   \* history: public keys a server that was up has given out
          lone,     \* history: a whole public key was left without its private one
          stored, live, \* the identity in the store, and state.myId
          token,    \* tms.subToken of the store
          buying,   \* the subscribe() in flight: for whom, and its answer
          paid,     \* history: for each id, until when the user was told it is paid for
          latest,   \* history: the id of the latest "Subscription active"
          msg,      \* the message at the receiver that awaits its verdict
          verdict,  \* what the receiver answered last
          jwk,      \* the key in the receiver's store
          memo      \* verifyKeyPromise: unset, fetching, null, or a key

server == <<files, boot, sign, serve, made, served, lone>>
sender == <<stored, live, token, buying, paid, latest>>
receiver == <<msg, verdict, jwk, memo>>
vars == <<now, server, sender, receiver>>

Init ==
  /\ now = 0
  /\ files = [priv |-> None, pub |-> None]
  /\ boot = "down" /\ sign = None /\ serve = None
  /\ made = {} /\ served = {} /\ lone = FALSE
  /\ stored \in Ids /\ live = stored
  /\ token = None /\ buying = None
  /\ paid = [id \in Ids |-> 0] /\ latest = None
  /\ msg = None /\ verdict = "none"
  /\ jwk = None /\ memo = "unset"

------------------------------------------------------------------------------
(* src/keys.js *)

BugLoadOrCreate ==
  \/ /\ files.priv # None /\ files.pub \in Keys
     /\ sign' = files.priv /\ serve' = files.pub
     /\ boot' = "up"
     /\ UNCHANGED made
  \/ /\ files.priv = None \/ files.pub = None
     /\ \E k \in Keys \ made :
          /\ sign' = IF files.priv = None THEN k ELSE files.priv
          /\ serve' = IF files.pub = None THEN k ELSE files.pub
          /\ made' = made \cup {k}
     /\ boot' = "private"

\* loadOrCreate: both files are read, or a new pair replaces whatever is there.
LoadOrCreate ==
  \/ /\ files.priv # None /\ files.pub \in Keys
     /\ sign' = files.priv /\ serve' = files.pub
     /\ boot' = "up"
     /\ UNCHANGED made
  \/ /\ files.priv = None \/ files.pub = None
     /\ \E k \in Keys \ made :
          sign' = k /\ serve' = k /\ made' = made \cup {k}
     /\ boot' = "private"

\* buildKeyMaterial: a public key that is read and cannot be parsed keeps the server down.
Boot ==
  /\ boot = "down"
  /\ LoadOrCreate
  /\ served' = IF boot' = "up" THEN served \cup {serve'} ELSE served
  /\ UNCHANGED <<now, files, lone, sender, receiver>>

WritePrivate ==
  /\ boot = "private" /\ boot' = "public"
  /\ files' = [files EXCEPT !.priv = sign]
  /\ UNCHANGED <<now, sign, serve, made, served, lone, sender, receiver>>

WritePublic ==
  /\ boot = "public" /\ boot' = "up"
  /\ files' = [files EXCEPT !.pub = serve]
  /\ served' = served \cup {serve}
  /\ UNCHANGED <<now, sign, serve, made, lone, sender, receiver>>

\* The process ends anywhere, in the middle of a write too.
Crash ==
  /\ boot # "down" /\ boot' = "down"
  /\ sign' = None /\ serve' = None
  /\ files' \in {files} \cup
       CASE boot = "private" -> {[files EXCEPT !.priv = Torn]}
         [] boot = "public" -> {[files EXCEPT !.pub = Torn]}
         [] OTHER -> {}
  /\ UNCHANGED <<now, made, served, lone, sender, receiver>>

\* The operator removes the key files, or one of them.
Remove ==
  /\ boot = "down"
  /\ files' \in {[priv |-> None, pub |-> None],
                 [files EXCEPT !.priv = None], [files EXCEPT !.pub = None]}
  /\ lone' = (lone \/ (files'.priv = None /\ files'.pub \in Keys))
  /\ UNCHANGED <<now, boot, sign, serve, made, served, sender, receiver>>

------------------------------------------------------------------------------
(* src/subscription.js, server.js *)

\* issueToken; a private key that cannot be parsed makes it throw.
IssueToken(id) == [sub |-> id, key |-> sign, exp |-> now + Ttl]

\* verifyToken with the public key k.
VerifyToken(t, k, id) ==
  /\ t # None
  /\ t.key = k /\ now < t.exp /\ t.sub = id

\* POST /api/subscribe: a token, or no token but the address of Stripe's checkout.
Subscribe ==
  /\ boot = "up" /\ buying # None /\ buying.answer = "none"
  /\ buying' = [buying EXCEPT !.answer = IF ~Stripe /\ sign = Torn THEN "500" ELSE "200",
                              !.token = IF Stripe \/ sign = Torn THEN None
                                        ELSE IssueToken(buying.id)]
  /\ UNCHANGED <<now, server, stored, live, token, paid, latest, receiver>>

------------------------------------------------------------------------------
(* The sending device *)

\* restoreFromMnemonic, setPassphrase: deriveAndStore has stored the new identity.
DeriveAndStore(id) ==
  /\ stored = live
  /\ stored' = id
  /\ UNCHANGED <<now, server, live, token, buying, paid, latest, receiver>>

\* switchIdentity.
SwitchIdentity ==
  /\ stored # live
  /\ live' = stored
  /\ UNCHANGED <<now, server, stored, token, buying, paid, latest, receiver>>

\* doSubscribe: the button is disabled until the answer.
DoSubscribe ==
  /\ buying = None
  /\ buying' = [id |-> live, answer |-> "none", token |-> None]
  /\ UNCHANGED <<now, server, stored, live, token, paid, latest, receiver>>

BugSubscribeAnswers ==
  /\ buying # None
  /\ buying' = None
  /\ token' = buying.token
  /\ IF buying.token = None THEN UNCHANGED <<paid, latest>>
     ELSE /\ paid' = [paid EXCEPT ![buying.id] = buying.token.exp]
          /\ latest' = buying.id
  /\ UNCHANGED <<now, server, stored, live, receiver>>

\* subscribe() saves what a 200 carries for a token over the one before, whoever's that
\* was; an error or a lost answer is "Payment failed".
SubscribeAnswers ==
  /\ buying # None
  /\ buying' = None
  /\ \/ /\ buying.answer = "200"
        /\ token' = buying.token
        /\ paid' = IF buying.token = None THEN paid
                   ELSE [paid EXCEPT ![buying.id] = buying.token.exp]
        /\ latest' = buying.id
     \/ UNCHANGED <<token, paid, latest>>
  /\ UNCHANGED <<now, server, stored, live, receiver>>

\* The application is killed and starts again: boot() reads the stored identity.
SenderRestarts ==
  /\ live' = stored
  /\ buying' = None
  /\ UNCHANGED <<now, server, stored, token, paid, latest, receiver>>

\* What a device's own clock may read.
Clocks == (now - MaxSkew)..(now + MaxSkew)

\* getToken: whoever's it is, until it expires by the sender's clock.
GetToken(clock) == IF token # None /\ clock < token.exp THEN token ELSE None

\* _gateOutgoing and sendText past the limit, to a contact that knows this end by
\* the identity of now.
Send ==
  /\ msg = None
  /\ \E clock \in Clocks :
       msg' = [from |-> live, token |-> GetToken(clock),
               paid |-> paid[live], newest |-> latest = live]
  /\ verdict' = "none"
  /\ UNCHANGED <<now, server, sender, jwk, memo>>

------------------------------------------------------------------------------
(* The receiving device *)

\* getVerifyKey, from preloadVerifyKey or a verdict: one fetch for a whole run.
GetVerifyKey ==
  /\ memo = "unset"
  /\ memo' = "fetching"
  /\ UNCHANGED <<now, server, sender, msg, verdict, jwk>>

BugPubkeyAnswers ==
  /\ memo = "fetching"
  /\ \/ /\ boot = "up"
        /\ jwk' = serve /\ memo' = serve
     \/ /\ memo' = "null"
        /\ UNCHANGED jwk
  /\ UNCHANGED <<now, server, sender, msg, verdict>>

\* The server's key is stored; or there is no answer, and the stored key is used.
PubkeyAnswers ==
  /\ memo = "fetching"
  /\ \/ /\ boot = "up"
        /\ jwk' = serve /\ memo' = serve
     \/ /\ memo' = IF jwk = None THEN "null" ELSE jwk
        /\ UNCHANGED jwk
  /\ UNCHANGED <<now, server, sender, msg, verdict>>

BugVerifyJwt(t, k, id, clock) ==
  /\ t # None
  /\ t.key = k
  /\ ~(clock > t.exp)
  /\ t.sub = id

\* verifyJwtRs256 with the key k, by the receiver's clock.
VerifyJwt(t, k, id, clock) ==
  /\ t # None
  /\ t.key = k
  /\ ~(clock >= t.exp)
  /\ t.sub = id

Answered(ok) == verdict' = (IF ok THEN "valid" ELSE "invalid") /\ msg' = None

\* verifyPeerToken with a key: decided here.
VerifyOffline ==
  /\ msg # None /\ memo \in Keys
  /\ \E clock \in Clocks : Answered(VerifyJwt(msg.token, memo, msg.from, clock))
  /\ UNCHANGED <<now, server, sender, jwk, memo>>

\* verifyPeerToken without one: the server decides, if it answers.
VerifyOnline ==
  /\ msg # None /\ memo = "null"
  /\ \/ boot = "up" /\ Answered(VerifyToken(msg.token, serve, msg.from))
     \/ Answered(FALSE)
  /\ UNCHANGED <<now, server, sender, jwk, memo>>

\* The application is killed and starts again.
ReceiverRestarts ==
  /\ memo' = "unset" /\ msg' = None /\ verdict' = "none"
  /\ UNCHANGED <<now, server, sender, jwk>>

Tick == now < MaxNow /\ now' = now + 1 /\ UNCHANGED <<server, sender, receiver>>

Next ==
  \/ Boot \/ WritePrivate \/ WritePublic \/ Crash \/ Remove \/ Subscribe
  \/ \E id \in Ids : DeriveAndStore(id)
  \/ SwitchIdentity \/ DoSubscribe \/ SubscribeAnswers \/ SenderRestarts \/ Send
  \/ GetVerifyKey \/ PubkeyAnswers \/ VerifyOffline \/ VerifyOnline \/ ReceiverRestarts
  \/ Tick

Spec == Init /\ [][Next]_vars

------------------------------------------------------------------------------
(* Properties *)

\* The store never holds a torn key, and nothing but key pairs is generated.
TypeOK ==
  /\ now \in 0..MaxNow
  /\ boot \in {"down", "private", "public", "up"}
  /\ {files.priv, files.pub, sign, serve} \subseteq Keys \cup {None, Torn}
  /\ made \subseteq Keys /\ served \subseteq Keys /\ lone \in BOOLEAN
  /\ stored \in Ids /\ live \in Ids
  /\ token = None \/ token.sub \in Ids
  /\ latest \in Ids \cup {None}
  /\ jwk \in Keys \cup {None}
  /\ memo \in Keys \cup {"unset", "fetching", "null"}
  /\ verdict \in {"none", "valid", "invalid"}

\* The server never signs with one key and serves another, wherever it crashed
\* while it made its keys and whatever file was lost; the one exception is a loss
\* that leaves a public key without its private one.
ServedKeyVerifies == boot = "up" /\ ~lone => sign = serve /\ sign \in Keys

\* "Verification keeps working offline after the first successful fetch": a device
\* that has stored the key never asks the server about a token, in this run of the
\* application or any later one.
OfflineAfterFirstFetch == memo = "null" => jwk = None

Decided == msg # None /\ memo \in Keys /\ verdict' # "none"

\* The device's clock and the server's may stand on either side of the token's end.
Expiring(t) == t # None /\ t.exp \in (now - MaxSkew + 1)..(now + MaxSkew)

\* "A well-formed key that rejects the token is authoritative" (the server "would only
\* reach the same verdict"): while the server has served one key only, through any
\* crashes and restarts, a verdict reached offline is the one the server would reach,
\* except within the clocks' difference of the token's end.
VerdictsAgree ==
  [][Decided /\ Cardinality(served) = 1 /\ ~Expiring(msg.token) =>
       (verdict' = "valid" <=> \E k \in served : VerifyToken(msg.token, k, msg.from))]_vars

\* "Subscription active. You can keep chatting": of the ids whose subscription runs, in
\* every clock, the one bought for last passes at a receiver that has the key, and an
\* earlier one does not, because saveToken keeps one token for all.  So through restarts
\* of either device, purchases that fail, and switches of identity back and forth and
\* during a purchase.
SubscriberAccepted ==
  [][Decided /\ Cardinality(served) = 1 /\ ~lone /\ now + MaxSkew < msg.paid =>
       (verdict' = "valid" <=> msg.newest)]_vars

\* The same line of the paywall in any mode: whoever reads it has a token.
ActiveMeansToken == latest # None => token # None
================================================================================
