--------------------------- MODULE TokenTrustProofs ---------------------------
(***************************************************************************)
(* The properties of TokenTrust, for any identities, any number of key     *)
(* pairs, any lifetime of a subscription and behaviours of any length.     *)
(***************************************************************************)
EXTENDS TokenTrust, FiniteSetTheorems, TLAPS

KeyFiles == Keys \cup {None, Torn}
Tokens == [sub : Ids, key : KeyFiles, exp : Nat]
Purchases == [id : Ids, answer : {"none", "200", "500"}, token : Tokens \cup {None}]
Messages == [from : Ids, token : Tokens \cup {None}, paid : Nat, newest : BOOLEAN]

(* The server.  The files are in step until a public key is left alone: a public *)
(* key that can be read has its private key next to it, so whatever a crash tore *)
(* or a loss left, the next boot takes a whole pair or makes one.                *)
ServerTypes ==
  /\ boot \in {"down", "private", "public", "up"}
  /\ files \in [priv : KeyFiles, pub : KeyFiles]
  /\ sign \in KeyFiles /\ serve \in KeyFiles
  /\ made \subseteq Keys /\ served \subseteq Keys
  /\ lone \in BOOLEAN
FilesInStep ==
  /\ files.pub \in Keys => files.priv = files.pub
  /\ files.priv = None => files.pub \notin Keys
  /\ boot \in {"private", "public"} => files.pub \notin Keys
  /\ boot = "up" => sign = serve
ServerInv ==
  /\ ServerTypes
  /\ boot \in {"private", "public"} => sign \in Keys /\ serve = sign
  /\ boot = "public" => files.priv = sign
  /\ boot = "up" => serve \in served
  /\ ~lone => FilesInStep
  /\ IsFiniteSet(served)

(* The sender.  The token in the store is the one of the latest purchase, for as    *)
(* long as that id is paid for; only Stripe's checkout leaves none, and there no    *)
(* id is ever paid for by it.  Every token was signed with a key that is served.   *)
SenderTypes ==
  /\ stored \in Ids /\ live \in Ids
  /\ token \in Tokens \cup {None}
  /\ buying \in Purchases \cup {None}
  /\ paid \in [Ids -> Nat] /\ latest \in Ids \cup {None}
SignedByServed(t) == t # None /\ ~lone => t.key \in served
SenderInv ==
  /\ SenderTypes
  /\ buying # None /\ buying.token # None => buying.token.sub = buying.id
  /\ buying # None => SignedByServed(buying.token)
  /\ SignedByServed(token)
  /\ buying # None /\ buying.answer = "200" => (buying.token = None <=> Stripe)
  /\ Stripe => \A id \in Ids : paid[id] = 0
  /\ latest # None /\ ~Stripe =>
       token # None /\ token.exp = paid[latest] /\ token.sub = latest
  /\ \A id \in Ids : 0 < paid[id] => latest # None

(* The receiver.  Its keys were served, and a message from an id that is paid for *)
(* carries the token of the latest purchase, whose ever it is.                    *)
ReceiverTypes ==
  /\ now \in 0..MaxNow
  /\ msg \in Messages \cup {None}
  /\ verdict \in {"none", "valid", "invalid"}
  /\ jwk \in Keys \cup {None}
  /\ memo \in Keys \cup {"unset", "fetching", "null"}
ReceiverInv ==
  /\ ReceiverTypes
  /\ jwk # None => jwk \in served
  /\ memo \in Keys => memo \in served
  /\ memo = "null" => jwk = None
  /\ msg # None =>
       /\ verdict = "none"
       /\ SignedByServed(msg.token)
       /\ now + MaxSkew < msg.paid =>
            IF msg.newest THEN /\ msg.token # None
                               /\ msg.token.exp = msg.paid
                               /\ msg.token.sub = msg.from
            ELSE msg.token # None => msg.token.sub # msg.from

IInv == ServerInv /\ SenderInv /\ ReceiverInv

------------------------------------------------------------------------------

LEMMA InitIInv == Init => IInv
<1> SUFFICES ASSUME Init PROVE IInv
  OBVIOUS
<1> USE TrustAssumption DEF TrustAssumption
<1>1. ServerInv
  BY FS_EmptySet DEF Init, ServerInv, ServerTypes, FilesInStep, KeyFiles
<1>2. SenderInv
  BY DEF Init, SenderInv, SenderTypes, SignedByServed
<1>3. ReceiverInv
  BY DEF Init, ReceiverInv, ReceiverTypes
<1> QED
  BY <1>1, <1>2, <1>3 DEF IInv

\* A key that was served stays served, and a public key left alone is remembered.
LEMMA ServedGrows == Next => served \subseteq served' /\ (lone => lone')
<1> SUFFICES ASSUME Next PROVE served \subseteq served' /\ (lone => lone')
  OBVIOUS
<1>1. CASE Boot \/ WritePrivate \/ WritePublic
  BY <1>1 DEF Boot, WritePrivate, WritePublic
<1>3. CASE Crash
  BY <1>3 DEF Crash
<1>4. CASE Remove
  BY <1>4, Zenon DEF Remove
<1>2. CASE UNCHANGED server
  BY <1>2 DEF server
<1> QED
  BY <1>1, <1>2, <1>3, <1>4 DEF Next, Subscribe, DeriveAndStore, SwitchIdentity, DoSubscribe,
     SubscribeAnswers, SenderRestarts, Send, GetVerifyKey, PubkeyAnswers, VerifyOffline,
     VerifyOnline, ReceiverRestarts, Tick

LEMMA ServerUnchanged == ServerInv /\ UNCHANGED server => ServerInv'
BY DEF server, ServerInv, ServerTypes, FilesInStep

\* The server, where the crashes and the losses are.
LEMMA ServerStep == ServerInv /\ Next => ServerInv'
<1> SUFFICES ASSUME ServerInv, Next PROVE ServerInv'
  OBVIOUS
<1> USE TrustAssumption DEF TrustAssumption, KeyFiles
<1>1. CASE Boot
  <2>1. CASE files.priv # None /\ files.pub \in Keys
    <3>1. /\ sign' = files.priv /\ serve' = files.pub /\ boot' = "up" /\ made' = made
          /\ served' = served \cup {serve'} /\ files' = files /\ lone' = lone
      BY <1>1, <2>1 DEF Boot, LoadOrCreate
    <3>2. files.pub \in Keys
      BY <2>1
    <3>3. IsFiniteSet(served')
      BY <3>1, FS_AddElement DEF ServerInv
    <3>4. ServerTypes'
      BY <3>1, <3>2 DEF ServerInv, ServerTypes
    <3> QED
      BY <3>1, <3>2, <3>3, <3>4 DEF ServerInv, FilesInStep
  <2>2. CASE files.priv = None \/ files.pub = None
    <3>1. PICK k \in Keys : sign' = k /\ serve' = k /\ made' = made \cup {k}
      BY <1>1, <2>2 DEF Boot, LoadOrCreate
    <3>2. boot' = "private" /\ served' = served /\ files' = files /\ lone' = lone
      BY <1>1, <2>2 DEF Boot, LoadOrCreate
    <3>3. ServerTypes'
      BY <3>1, <3>2 DEF ServerInv, ServerTypes
    <3> QED
      BY <2>2, <3>1, <3>2, <3>3 DEF ServerInv, FilesInStep
  <2> QED
    BY <1>1, <2>1, <2>2 DEF Boot, LoadOrCreate
<1>2. CASE WritePrivate
  BY <1>2 DEF WritePrivate, ServerInv, ServerTypes, FilesInStep
<1>3. CASE WritePublic
  <2>1. IsFiniteSet(served')
    BY <1>3, FS_AddElement DEF WritePublic, ServerInv
  <2> QED
    BY <1>3, <2>1 DEF WritePublic, ServerInv, ServerTypes, FilesInStep
<1>4. CASE Crash
  <2>1. /\ boot' = "down" /\ sign' = None /\ serve' = None
        /\ made' = made /\ served' = served /\ lone' = lone
    BY <1>4 DEF Crash
  <2>2. \/ files' = files
        \/ boot = "private" /\ files' = [files EXCEPT !.priv = Torn]
        \/ boot = "public" /\ files' = [files EXCEPT !.pub = Torn]
    BY <1>4 DEF Crash
  <2>3. CASE files' = files
    BY <2>1, <2>3 DEF ServerInv, ServerTypes, FilesInStep
  <2>4. CASE boot = "private" /\ files' = [files EXCEPT !.priv = Torn]
    BY <2>1, <2>4 DEF ServerInv, ServerTypes, FilesInStep
  <2>5. CASE boot = "public" /\ files' = [files EXCEPT !.pub = Torn]
    BY <2>1, <2>5 DEF ServerInv, ServerTypes, FilesInStep
  <2> QED
    BY <2>2, <2>3, <2>4, <2>5
<1>5. CASE Remove
  <2>1. /\ boot = "down" /\ boot' = "down" /\ sign' = sign /\ serve' = serve
        /\ made' = made /\ served' = served
    BY <1>5 DEF Remove
  <2>2. \/ files' = [priv |-> None, pub |-> None]
        \/ files' = [files EXCEPT !.priv = None]
        \/ files' = [files EXCEPT !.pub = None]
    BY <1>5 DEF Remove
  <2>3. lone' = (lone \/ (files'.priv = None /\ files'.pub \in Keys))
    BY <1>5 DEF Remove
  <2>4. /\ lone' \in BOOLEAN
        /\ ~lone' => ~lone
        /\ ~lone' => (files'.priv = None => files'.pub \notin Keys)
    BY <2>3, Zenon DEF ServerInv, ServerTypes
  <2>5. ServerTypes'
    BY <2>1, <2>2, <2>4 DEF ServerInv, ServerTypes
  <2>6. ASSUME ~lone' PROVE FilesInStep'
    BY <2>1, <2>2, <2>4, <2>6 DEF ServerInv, ServerTypes, FilesInStep
  <2> QED
    BY <2>1, <2>5, <2>6 DEF ServerInv
<1>6. CASE UNCHANGED server
  BY <1>6, ServerUnchanged
<1> QED
  BY <1>1, <1>2, <1>3, <1>4, <1>5, <1>6
     DEF Next, Subscribe, DeriveAndStore, SwitchIdentity, DoSubscribe, SubscribeAnswers,
         SenderRestarts, Send, GetVerifyKey, PubkeyAnswers, VerifyOffline, VerifyOnline,
         ReceiverRestarts, Tick

LEMMA SenderUnchanged ==
  ASSUME SenderInv, UNCHANGED sender, served \subseteq served', lone => lone',
         lone' \in BOOLEAN
  PROVE  SenderInv'
BY DEF sender, SenderInv, SenderTypes, SignedByServed

\* No token that is issued is taken for a missing one.
LEMMA IssuedTokens == None \notin Tokens
BY TrustAssumption DEF TrustAssumption, Tokens, KeyFiles

LEMMA SenderStep == IInv /\ Next => SenderInv'
<1> SUFFICES ASSUME IInv, Next PROVE SenderInv'
  OBVIOUS
<1> USE TrustAssumption DEF TrustAssumption
<1>1. CASE Subscribe
  <2>1. /\ boot = "up" /\ served' = served /\ lone' = lone
        /\ stored' = stored /\ live' = live /\ token' = token
        /\ paid' = paid /\ latest' = latest /\ buying \in Purchases
    BY <1>1 DEF Subscribe, server, IInv, SenderInv, SenderTypes
  <2>2. IssueToken(buying.id) \in Tokens
    BY <2>1 DEF IssueToken, Tokens, Purchases, IInv, ServerInv, ServerTypes, ReceiverInv,
       ReceiverTypes
  <2>3. ~lone => IssueToken(buying.id).key \in served
    BY <2>1 DEF IssueToken, IInv, ServerInv, FilesInStep
  <2>4. IssueToken(buying.id).sub = buying.id
    BY DEF IssueToken
  <2>5. /\ buying' \in Purchases /\ buying'.id = buying.id
        /\ buying'.token \in {None, IssueToken(buying.id)}
        /\ buying'.answer = "200" => (buying'.token = None <=> Stripe)
    BY <1>1, <2>1, <2>2, IssuedTokens DEF Subscribe, Purchases
  <2> QED
    BY <2>1, <2>3, <2>4, <2>5 DEF IInv, SenderInv, SenderTypes, SignedByServed
<1>2. ASSUME NEW id \in Ids, DeriveAndStore(id) PROVE SenderInv'
  BY <1>2 DEF DeriveAndStore, server, IInv, SenderInv, SenderTypes, SignedByServed
<1>3. CASE SwitchIdentity
  BY <1>3 DEF SwitchIdentity, server, IInv, SenderInv, SenderTypes, SignedByServed
<1>4. CASE DoSubscribe
  <2>1. buying' \in Purchases /\ buying'.token = None
    BY <1>4 DEF DoSubscribe, Purchases, IInv, SenderInv, SenderTypes
  <2> QED
    BY <1>4, <2>1 DEF DoSubscribe, server, IInv, SenderInv, SenderTypes, SignedByServed
<1>5. CASE SubscribeAnswers
  <2>1. /\ buying \in Purchases /\ buying # None /\ buying' = None
        /\ served' = served /\ lone' = lone /\ stored' = stored /\ live' = live
    BY <1>5 DEF SubscribeAnswers, server, IInv, SenderInv, SenderTypes
  <2>2. CASE UNCHANGED <<token, paid, latest>>
    BY <2>1, <2>2 DEF IInv, SenderInv, SenderTypes, SignedByServed
  <2>3. CASE /\ buying.answer = "200" /\ token' = buying.token
             /\ paid' = IF buying.token = None THEN paid
                        ELSE [paid EXCEPT ![buying.id] = buying.token.exp]
             /\ latest' = buying.id
    <3>1. buying.id \in Ids /\ paid \in [Ids -> Nat] /\ (buying.token = None <=> Stripe)
      BY <2>1, <2>3 DEF Purchases, IInv, SenderInv, SenderTypes
    <3>2. CASE Stripe
      <4>1. paid' = paid /\ token' = None /\ latest' \in Ids
        BY <2>3, <3>1, <3>2
      <4> QED
        BY <2>1, <3>1, <3>2, <4>1 DEF IInv, SenderInv, SenderTypes, SignedByServed
    <3>3. CASE ~Stripe
      <4>1. buying.token \in Tokens /\ buying.token.exp \in Nat
            /\ buying.token.sub = buying.id
        BY <2>1, <3>1, <3>3 DEF Purchases, Tokens, IInv, SenderInv
      <4>2. paid' = [paid EXCEPT ![buying.id] = buying.token.exp]
        BY <2>3, <3>1, <3>3
      <4>3. paid' \in [Ids -> Nat] /\ paid'[buying.id] = buying.token.exp
        BY <3>1, <4>1, <4>2
      <4>4. latest' # None
        BY <2>3, <3>1
      <4>5. SenderTypes' /\ SignedByServed(token)'
        BY <2>1, <2>3, <3>1, <4>1, <4>3 DEF IInv, SenderInv, SenderTypes, SignedByServed
      <4>6. token' # None /\ token'.exp = paid'[latest'] /\ token'.sub = latest'
        BY <2>3, <3>1, <3>3, <4>1, <4>3
      <4> QED
        BY <2>1, <3>3, <4>4, <4>5, <4>6 DEF SenderInv
    <3> QED
      BY <3>2, <3>3
  <2> QED
    BY <1>5, <2>2, <2>3 DEF SubscribeAnswers
<1>6. CASE SenderRestarts
  BY <1>6 DEF SenderRestarts, server, IInv, SenderInv, SenderTypes, SignedByServed
<1>7. CASE UNCHANGED sender
  <2>1. lone' \in BOOLEAN
    BY ServerStep DEF IInv, ServerInv, ServerTypes
  <2> QED
    BY <1>7, <2>1, ServedGrows, SenderUnchanged DEF IInv
<1> QED
  BY <1>1, <1>2, <1>3, <1>4, <1>5, <1>6, <1>7
     DEF Next, Boot, WritePrivate, WritePublic, Crash, Remove, Send, GetVerifyKey,
         PubkeyAnswers, VerifyOffline, VerifyOnline, ReceiverRestarts, Tick

LEMMA ReceiverUnchanged ==
  ASSUME ReceiverInv, UNCHANGED <<now, receiver>>, served \subseteq served',
         lone => lone', lone' \in BOOLEAN
  PROVE  ReceiverInv'
BY DEF receiver, ReceiverInv, ReceiverTypes, SignedByServed

LEMMA ReceiverStep == IInv /\ Next => ReceiverInv'
<1> SUFFICES ASSUME IInv, Next PROVE ReceiverInv'
  OBVIOUS
<1> USE TrustAssumption DEF TrustAssumption
<1>1. CASE Send
  <2>1. /\ served' = served /\ lone' = lone /\ now' = now /\ jwk' = jwk /\ memo' = memo
        /\ verdict' = "none"
    BY <1>1 DEF Send, server
  <2>2. PICK clock \in Clocks :
          msg' = [from |-> live, token |-> GetToken(clock),
                  paid |-> paid[live], newest |-> latest = live]
    BY <1>1 DEF Send
  <2>3. now \in Nat /\ clock \in Int /\ clock <= now + MaxSkew
    BY DEF Clocks, IInv, ReceiverInv, ReceiverTypes
  <2>4. GetToken(clock) \in Tokens \cup {None} /\ SignedByServed(GetToken(clock))
    BY DEF GetToken, SignedByServed, IInv, SenderInv, SenderTypes
  <2>5. paid[live] \in Nat /\ live \in Ids /\ (latest = live) \in BOOLEAN
    BY DEF IInv, SenderInv, SenderTypes
  <2>6. msg' \in Messages
    BY <2>2, <2>4, <2>5 DEF Messages
  <2>7. ASSUME now + MaxSkew < paid[live]
        PROVE  IF latest = live
               THEN /\ GetToken(clock) # None
                    /\ GetToken(clock).exp = paid[live] /\ GetToken(clock).sub = live
               ELSE GetToken(clock) # None => GetToken(clock).sub # live
    <3>1. 0 < paid[live] /\ clock < paid[live]
      BY <2>3, <2>5, <2>7
    <3>2. ~Stripe /\ latest # None /\ latest \in Ids
      BY <2>5, <3>1 DEF IInv, SenderInv, SenderTypes
    <3>3. token # None /\ token.exp = paid[latest] /\ token.sub = latest
      BY <3>2 DEF IInv, SenderInv
    <3> QED
      BY <3>1, <3>3 DEF GetToken
  <2> QED
    BY <2>1, <2>2, <2>4, <2>6, <2>7 DEF IInv, ReceiverInv, ReceiverTypes, SignedByServed
<1>2. CASE GetVerifyKey
  BY <1>2 DEF GetVerifyKey, server, IInv, ReceiverInv, ReceiverTypes, SignedByServed
<1>3. CASE PubkeyAnswers
  <2>1. boot = "up" => serve \in served /\ serve \in Keys
    BY DEF IInv, ServerInv, ServerTypes
  <2> QED
    BY <1>3, <2>1 DEF PubkeyAnswers, server, IInv, ReceiverInv, ReceiverTypes,
       SignedByServed
<1>4. CASE VerifyOffline
  BY <1>4 DEF VerifyOffline, Answered, server, IInv, ReceiverInv, ReceiverTypes
<1>5. CASE VerifyOnline
  BY <1>5 DEF VerifyOnline, Answered, server, IInv, ReceiverInv, ReceiverTypes
<1>6. CASE ReceiverRestarts
  BY <1>6 DEF ReceiverRestarts, server, IInv, ReceiverInv, ReceiverTypes
<1>7. CASE Tick
  <2>1. /\ now' \in 0..MaxNow /\ now \in Nat /\ now' = now + 1
        /\ msg # None => msg.paid \in Nat
    BY <1>7 DEF Tick, Messages, IInv, ReceiverInv, ReceiverTypes
  <2>2. served' = served /\ lone' = lone /\ msg' = msg /\ verdict' = verdict
        /\ jwk' = jwk /\ memo' = memo
    BY <1>7 DEF Tick, server, receiver
  <2>3. msg # None /\ now' + MaxSkew < msg.paid => now + MaxSkew < msg.paid
    BY <2>1
  <2> QED
    BY <2>1, <2>2, <2>3 DEF IInv, ReceiverInv, ReceiverTypes, SignedByServed
<1>8. CASE UNCHANGED <<now, receiver>>
  <2>1. lone' \in BOOLEAN
    BY ServerStep DEF IInv, ServerInv, ServerTypes
  <2> QED
    BY <1>8, <2>1, ServedGrows, ReceiverUnchanged DEF IInv
<1> QED
  BY <1>1, <1>2, <1>3, <1>4, <1>5, <1>6, <1>7, <1>8
     DEF Next, Boot, WritePrivate, WritePublic, Crash, Remove, Subscribe, DeriveAndStore,
         SwitchIdentity, DoSubscribe, SubscribeAnswers, SenderRestarts, receiver

LEMMA NextIInv == IInv /\ [Next]_vars => IInv'
<1>1. ASSUME IInv, Next PROVE IInv'
  BY <1>1, ServerStep, SenderStep, ReceiverStep DEF IInv
<1>2. ASSUME IInv, UNCHANGED vars PROVE IInv'
  BY <1>2 DEF vars, server, sender, receiver, IInv, ServerInv, ServerTypes, FilesInStep,
     SenderInv, SenderTypes, SignedByServed, ReceiverInv, ReceiverTypes
<1> QED
  BY <1>1, <1>2

LEMMA SpecIInv == Spec => []IInv
BY InitIInv, NextIInv, PTL DEF Spec

------------------------------------------------------------------------------

\* Keys, tokens, purchases and verdicts are what they are declared to be; a device
\* never stores a torn key.
THEOREM TypeCorrect == Spec => []TypeOK
<1>1. IInv => TypeOK
  BY DEF IInv, ServerInv, ServerTypes, SenderInv, SenderTypes, ReceiverInv, ReceiverTypes,
     KeyFiles, Tokens, TypeOK
<1> QED
  BY <1>1, SpecIInv, PTL

\* Whatever the server was writing when it crashed and whatever files were lost, it
\* comes up signing with the key it serves, unless a public key was left alone.
THEOREM ServerSignsWithServedKey == Spec => []ServedKeyVerifies
<1>1. IInv => ServedKeyVerifies
  BY DEF IInv, ServerInv, ServerTypes, FilesInStep, ServedKeyVerifies
<1> QED
  BY <1>1, SpecIInv, PTL

\* A device that has stored the key decides without the server ever after.
THEOREM StoredKeyIsUsed == Spec => []OfflineAfterFirstFetch
<1>1. IInv => OfflineAfterFirstFetch
  BY DEF IInv, ReceiverInv, OfflineAfterFirstFetch
<1> QED
  BY <1>1, SpecIInv, PTL

\* A verdict reached by the device itself is reached with a key the server serves,
\* on the message that waits for it.
LEMMA OfflineVerdict ==
  ASSUME IInv, Next, Decided, Cardinality(served) = 1
  PROVE  /\ served = {memo} /\ now \in Nat
         /\ msg \in Messages /\ VerifyOffline
<1>1. PICK k : served = {k}
  BY FS_Singleton DEF IInv, ServerInv
<1>2. served = {memo} /\ memo \in Keys /\ msg # None /\ verdict' # "none"
  BY <1>1 DEF Decided, IInv, ReceiverInv
<1>3. verdict = "none" /\ msg \in Messages /\ now \in Nat
  BY <1>2 DEF IInv, ReceiverInv, ReceiverTypes
<1>4. memo # "null"
  BY <1>2, TrustAssumption DEF TrustAssumption
<1>5. CASE UNCHANGED verdict
  BY <1>2, <1>3, <1>5
<1>6. CASE Send \/ VerifyOnline \/ ReceiverRestarts
  BY <1>2, <1>4, <1>6 DEF Send, VerifyOnline, ReceiverRestarts
<1> QED
  BY <1>2, <1>3, <1>5, <1>6
     DEF Next, Boot, WritePrivate, WritePublic, Crash, Remove, Subscribe, DeriveAndStore,
         SwitchIdentity, DoSubscribe, SubscribeAnswers, SenderRestarts, GetVerifyKey,
         PubkeyAnswers, Tick, receiver

\* While one key has been served, a device decides offline what the server would, except
\* within the clocks' difference of the token's end.
THEOREM OfflineVerdictIsServers == Spec => VerdictsAgree
<1> DEFINE Agree == Decided /\ Cardinality(served) = 1 /\ ~Expiring(msg.token) =>
       (verdict' = "valid" <=> \E k \in served : VerifyToken(msg.token, k, msg.from))
<1>1. ASSUME IInv, [Next]_vars PROVE [Agree]_vars
  <2> SUFFICES ASSUME Next, Decided, Cardinality(served) = 1, ~Expiring(msg.token)
               PROVE  verdict' = "valid" <=>
                        \E k \in served : VerifyToken(msg.token, k, msg.from)
    BY <1>1
  <2>1. /\ served = {memo} /\ now \in Nat
        /\ msg \in Messages /\ VerifyOffline
    BY <1>1, OfflineVerdict
  <2>2. PICK clock \in Clocks :
          verdict' = "valid" <=> VerifyJwt(msg.token, memo, msg.from, clock)
    BY <2>1 DEF VerifyOffline, Answered
  <2>3. ASSUME msg.token # None PROVE clock < msg.token.exp <=> now < msg.token.exp
    <3>1. /\ msg.token.exp \in Nat /\ clock \in Int
          /\ now - MaxSkew <= clock /\ clock <= now + MaxSkew
      BY <2>1, <2>3, TrustAssumption DEF Messages, Tokens, Clocks, TrustAssumption
    <3>2. msg.token.exp <= now - MaxSkew \/ now + MaxSkew < msg.token.exp
      BY <2>1, <2>3, <3>1, TrustAssumption DEF Expiring, TrustAssumption
    <3> QED
      BY <2>1, <3>1, <3>2, TrustAssumption DEF TrustAssumption
  <2>4. msg.token # None => msg.token.exp \in Nat
    BY <2>1 DEF Messages, Tokens
  <2>5. clock \in Int
    BY <2>1, TrustAssumption DEF Clocks, TrustAssumption
  <2> QED
    BY <2>1, <2>2, <2>3, <2>4, <2>5 DEF VerifyJwt, VerifyToken
<1> QED
  BY <1>1, SpecIInv, PTL DEF Spec, VerdictsAgree

\* Of the ids whose subscription runs in every clock, the one bought for last passes at a
\* receiver with the key, and an earlier one does not.
THEOREM PaidMessagesPass == Spec => SubscriberAccepted
<1> DEFINE Accepted ==
       Decided /\ Cardinality(served) = 1 /\ ~lone /\ now + MaxSkew < msg.paid =>
         (verdict' = "valid" <=> msg.newest)
<1>1. ASSUME IInv, [Next]_vars PROVE [Accepted]_vars
  <2> SUFFICES ASSUME Next, Decided, Cardinality(served) = 1, ~lone,
                      now + MaxSkew < msg.paid
               PROVE  verdict' = "valid" <=> msg.newest
    BY <1>1
  <2>1. /\ served = {memo} /\ now \in Nat
        /\ msg \in Messages /\ VerifyOffline
    BY <1>1, OfflineVerdict
  <2>2. PICK clock \in Clocks :
          verdict' = "valid" <=> VerifyJwt(msg.token, memo, msg.from, clock)
    BY <2>1 DEF VerifyOffline, Answered
  <2>3. CASE msg.newest
    <3>1. /\ msg.token # None /\ msg.token.exp = msg.paid
          /\ msg.token.sub = msg.from /\ msg.token.key = memo
      BY <1>1, <2>1, <2>3 DEF IInv, ReceiverInv, SignedByServed, VerifyOffline
    <3>2. clock < msg.paid /\ clock \in Int /\ msg.paid \in Nat
      BY <2>1, TrustAssumption DEF Clocks, Messages, TrustAssumption
    <3> QED
      BY <2>2, <2>3, <3>1, <3>2 DEF VerifyJwt
  <2>4. CASE ~msg.newest
    <3>1. msg.token # None => msg.token.sub # msg.from
      BY <1>1, <2>1, <2>4 DEF IInv, ReceiverInv, VerifyOffline
    <3> QED
      BY <2>2, <2>4, <3>1 DEF VerifyJwt
  <2> QED
    BY <2>3, <2>4
<1> QED
  BY <1>1, SpecIInv, PTL DEF Spec, SubscriberAccepted
================================================================================
