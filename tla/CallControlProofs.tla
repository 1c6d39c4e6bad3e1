--------------------------- MODULE CallControlProofs ---------------------------
(* Proofs that the safety properties of CallControl hold for any contacts and  *)
(* any number of calls and sessions alive at once.                             *)
EXTENDS CallControl, TLAPS

\* What TypeOK leaves open of the variables the proofs read, and what `state`
\* owes to the calls: a call or a session is for somebody, and the session of
\* now has not been destroyed.
CallTypes ==
  /\ over \in [Sessions -> Calls \cup {NoCall}]
  /\ speaks \in [Sessions -> Peers \cup {NoPeer}]
  /\ key \in [Sessions -> Peers \cup {NoPeer}]
  /\ alive \in [Sessions -> BOOLEAN]
  /\ crossed \in BOOLEAN

SomebodyCalled == peer # NoCall \/ session # NoSession => peerId \in Peers
SessionAlive == session # NoSession => alive[session]

\* The first inductive invariant: nothing about crossing calls is needed.
CallInv == TypeOK /\ CallTypes /\ SomebodyCalled /\ SessionAlive /\ ChatOverLiveSession

\* With one call at a time: the session of now belongs to the open call of now and
\* is the only one not destroyed, a fingerprint is computed for that session or for
\* one nobody follows, and the chat runs over the session of now.
SessionOfNow ==
  session # NoSession =>
    /\ peer # NoCall /\ stage[peer] = "open"
    /\ speaks[session] = peerId
NoStrayFinalize ==
  \A s \in Sessions :
    noise[s] = "finalizing" => s = session \/ (session = NoSession /\ peer = NoCall)
ChatOfNow ==
  chat # NoChat => /\ session # NoSession /\ chat.session = session
                   /\ Reaches
OthersDestroyed == \A s \in Sessions : alive[s] => s = session
NothingLeft == \A c \in Calls : stage[c] \in {"free", "closing", "closed"} \/ c = peer

\* The second inductive invariant, on top of the first.
Alone == SessionOfNow /\ OthersDestroyed /\ NoStrayFinalize /\ ChatOfNow /\ NothingLeft
AloneInv == ~crossed => Alone

------------------------------------------------------------------------------
(* The first invariant *)

LEMMA CallInit == Init => CallInv
BY CallAssumption
   DEF Init, CallInv, TypeOK, CallTypes, SomebodyCalled, SessionAlive,
       ChatOverLiveSession, CallStages, NoiseStages

(* Whatever ends a call leaves neither peer nor session nor chat behind, so the *)
(* invariant is left with the types.                                            *)
LEMMA TeardownKeeps ==
  ASSUME CallInv, NEW table \in [Calls -> CallStages], Teardown(table),
         asked' = asked, noise' \in [Sessions -> NoiseStages],
         over' = over, speaks' = speaks, key' = key, crossed' = crossed
  PROVE  CallInv'
BY DEF CallInv, TypeOK, CallTypes, SomebodyCalled, SessionAlive, ChatOverLiveSession,
       Teardown, CallStages

LEMMA CallStep == CallInv /\ [Next]_vars => CallInv'
<1> SUFFICES ASSUME CallInv, [Next]_vars PROVE CallInv'
  OBVIOUS
<1> USE CallAssumption
<1>1. ASSUME NEW p \in Peers, Dial(p) \/ OfferArrives(p) PROVE CallInv'
  BY <1>1 DEF Dial, OfferArrives, Begin, CallInv, TypeOK, CallTypes, SomebodyCalled,
     SessionAlive, ChatOverLiveSession, CallStages, sessionVars, Quiet
<1>2. CASE EndCall
  BY <1>2, TeardownKeeps DEF EndCall, CallInv, TypeOK
<1>3. ASSUME NEW c \in Calls, Described(c) PROVE CallInv'
  BY <1>3 DEF Described, CallInv, TypeOK, CallTypes, SomebodyCalled, SessionAlive,
     ChatOverLiveSession, CallStages, state, sessionVars
<1>4. ASSUME NEW c \in Calls, AnswerArrives(c) PROVE CallInv'
  BY <1>4 DEF AnswerArrives, CallInv, TypeOK, CallTypes, SomebodyCalled, SessionAlive,
     ChatOverLiveSession, CallStages, state, sessionVars
<1>5. ASSUME NEW c \in Calls, ChannelOpens(c) PROVE CallInv'
  <2>1. stage' = [stage EXCEPT ![c] = "open"] /\ stage' \in [Calls -> CallStages]
    BY <1>5 DEF ChannelOpens, CallInv, TypeOK, CallStages
  <2>2. CASE UNCHANGED <<session, sessionVars>>
    BY <1>5, <2>1, <2>2 DEF ChannelOpens, CallInv, TypeOK, CallTypes, SomebodyCalled,
       SessionAlive, ChatOverLiveSession, sessionVars
  <2>3. ASSUME NEW s \in Sessions, peer # NoCall, noise[s] = "free", session' = s,
               noise' = [noise EXCEPT ![s] = "handshake"],
               over' = [over EXCEPT ![s] = peer],
               speaks' = [speaks EXCEPT ![s] = peerId],
               alive' = [alive EXCEPT ![s] = TRUE], key' = key
        PROVE  CallInv'
    <3>1. TypeOK'
      BY <1>5, <2>1, <2>3 DEF ChannelOpens, CallInv, TypeOK, NoiseStages
    <3>2. CallTypes' /\ SomebodyCalled'
      BY <1>5, <2>3 DEF ChannelOpens, CallInv, TypeOK, CallTypes, SomebodyCalled
    <3>3. SessionAlive' /\ ChatOverLiveSession'
      BY <1>5, <2>3 DEF ChannelOpens, CallInv, CallTypes, TypeOK, SessionAlive,
         ChatOverLiveSession
    <3> QED BY <3>1, <3>2, <3>3 DEF CallInv
  <2> QED BY <1>5, <2>2, <2>3 DEF ChannelOpens
<1>6. ASSUME NEW c \in Calls, LateClose(c) PROVE CallInv'
  <2>1. [stage EXCEPT ![c] = "closed"] \in [Calls -> CallStages]
    BY DEF CallInv, TypeOK, CallStages
  <2> QED BY <1>6, <2>1, TeardownKeeps DEF LateClose, CallInv, TypeOK
<1>7. ASSUME NEW c \in Calls, NEW rest \in {stage[c], "closed"}, ConnectionDrops(c, rest)
      PROVE  CallInv'
  <2>1. [stage EXCEPT ![c] = rest] \in [Calls -> CallStages]
    BY DEF CallInv, TypeOK, CallStages
  <2> QED BY <1>7, <2>1, TeardownKeeps DEF ConnectionDrops, CallInv, TypeOK
<1>8. ASSUME NEW s \in Sessions, NEW k \in Peers, HandshakeDone(s, k) PROVE CallInv'
  BY <1>8 DEF HandshakeDone, CallInv, TypeOK, CallTypes, SomebodyCalled, SessionAlive,
     ChatOverLiveSession, NoiseStages, state, callVars
<1>9. ASSUME NEW s \in Sessions, HandshakeFails(s) PROVE CallInv'
  <2>1. noise' \in [Sessions -> NoiseStages]
    BY <1>9 DEF HandshakeFails, CallInv, TypeOK, NoiseStages
  <2> QED BY <1>9, <2>1, TeardownKeeps DEF HandshakeFails, CallInv, TypeOK
<1>10. ASSUME NEW s \in Sessions, Finalized(s) PROVE CallInv'
  <2>1. noise' \in [Sessions -> NoiseStages]
    BY <1>10 DEF Finalized, CallInv, TypeOK, NoiseStages
  <2>2. CASE key[s] = speaks[s]
    BY <1>10, <2>1, <2>2 DEF Finalized, CallInv, TypeOK, CallTypes, SomebodyCalled,
       SessionAlive, ChatOverLiveSession
  <2>3. CASE key[s] # speaks[s]
    BY <1>10, <2>1, <2>3, TeardownKeeps DEF Finalized, CallInv, TypeOK
  <2> QED BY <2>2, <2>3
<1>11. CASE Discard
  <2>1. ASSUME NEW c \in Calls, c # peer, stage' = [stage EXCEPT ![c] = "free"],
               asked' = asked \ {c}, UNCHANGED <<state, sessionVars, crossed>>
        PROVE  CallInv'
    BY <2>1 DEF CallInv, TypeOK, CallTypes, SomebodyCalled, SessionAlive,
       ChatOverLiveSession, CallStages, state, sessionVars
  <2>2. ASSUME NEW s \in Sessions, s # session, chat # NoChat => chat.session # s,
               noise' = [noise EXCEPT ![s] = "free"],
               over' = [over EXCEPT ![s] = NoCall],
               speaks' = [speaks EXCEPT ![s] = NoPeer],
               key' = [key EXCEPT ![s] = NoPeer],
               alive' = [alive EXCEPT ![s] = FALSE],
               UNCHANGED <<state, callVars, crossed>>
        PROVE  CallInv'
    <3>1. TypeOK'
      BY <2>2 DEF CallInv, TypeOK, NoiseStages, state, callVars
    <3>2. CallTypes' /\ SomebodyCalled'
      BY <2>2 DEF CallInv, CallTypes, SomebodyCalled, state
    <3>3. SessionAlive' /\ ChatOverLiveSession'
      BY <2>2 DEF CallInv, CallTypes, TypeOK, SessionAlive, ChatOverLiveSession, state
    <3> QED BY <3>1, <3>2, <3>3 DEF CallInv
  <2> QED BY <1>11, <2>1, <2>2 DEF Discard
<1>12. CASE UNCHANGED vars
  BY <1>12 DEF vars, state, callVars, sessionVars, CallInv, TypeOK, CallTypes,
     SomebodyCalled, SessionAlive, ChatOverLiveSession
<1> QED BY <1>1, <1>2, <1>3, <1>4, <1>5, <1>6, <1>7, <1>8, <1>9, <1>10, <1>11, <1>12
     DEF Next

LEMMA CallInvariant == Spec => []CallInv
<1> QED BY CallInit, CallStep, PTL DEF Spec

\* The state of app.js is well formed in every reachable state: state.peer is never
\* a call that has ended (teardownPeer resets it), state.session never one that is
\* gone, and an open chat is for a contact.
THEOREM CallTypeCorrect == Spec => []TypeOK
<1>1. CallInv => TypeOK
  BY DEF CallInv
<1> QED BY <1>1, CallInvariant, PTL

\* No chat outlives its session, however many calls cross and in whatever order
\* their channels open, fail and close: messaging.js never sends over a session
\* whose destroy() has run.
THEOREM ChatNeverOutlivesSession == Spec => []ChatOverLiveSession
<1>1. CallInv => ChatOverLiveSession
  BY DEF CallInv
<1> QED BY <1>1, CallInvariant, PTL

------------------------------------------------------------------------------
(* The second invariant: one call at a time *)

LEMMA AloneInit == Init => AloneInv
BY DEF Init, AloneInv, Alone, SessionOfNow, OthersDestroyed,
       NoStrayFinalize, ChatOfNow, NothingLeft

(* The end of the call of now, which is the only one alive, satisfies it: what  *)
(* the other calls were before, they are after.                                 *)
LEMMA TeardownAlone ==
  ASSUME CallInv, AloneInv, ~crossed, NEW table \in [Calls -> CallStages],
         \A c \in Calls : table[c] \in {stage[c], "closed"},
         Teardown(table)
  PROVE  Alone'
<1>1. session' = NoSession /\ peer' = NoCall /\ chat' = NoChat
  BY DEF Teardown
<1>2. NothingLeft'
  BY DEF Teardown, AloneInv, Alone, NothingLeft
<1>3. OthersDestroyed'
  BY <1>1 DEF Teardown, AloneInv, Alone, OthersDestroyed
<1> QED BY <1>1, <1>2, <1>3 DEF Alone, SessionOfNow, OthersDestroyed, NoStrayFinalize, ChatOfNow

LEMMA AloneStep == CallInv /\ AloneInv /\ [Next]_vars => AloneInv'
<1> SUFFICES ASSUME CallInv, AloneInv, [Next]_vars, ~crossed' PROVE Alone'
  BY DEF AloneInv
<1> USE CallAssumption
<1>a. ~crossed
  <2>1. crossed' = crossed \/ crossed' = (crossed \/ ~Quiet)
    BY DEF Next, Dial, OfferArrives, Begin, EndCall, Described, AnswerArrives,
       ChannelOpens, LateClose, ConnectionDrops, HandshakeDone, HandshakeFails,
       Finalized, Discard, vars
  <2> QED BY <2>1
<1>0. ~crossed /\ Alone /\ TypeOK /\ CallTypes
  BY <1>a DEF AloneInv, CallInv
<1> USE DEF Alone
<1>1. ASSUME NEW p \in Peers, Dial(p) \/ OfferArrives(p) PROVE Alone'
  <2>1. Quiet
    BY <1>1 DEF Dial, OfferArrives, Begin
  <2>2. peer = NoCall /\ session = NoSession /\ chat = NoChat
    BY <1>0, <2>1 DEF Quiet, TypeOK, SessionOfNow, ChatOfNow
  <2>3. SessionOfNow' /\ OthersDestroyed' /\ NoStrayFinalize' /\ ChatOfNow'
    BY <1>0, <1>1, <2>1, <2>2 DEF Dial, OfferArrives, Begin, Quiet, sessionVars,
       SessionOfNow, OthersDestroyed, NoStrayFinalize, ChatOfNow
  <2>4. NothingLeft'
    BY <1>0, <1>1, <2>1 DEF Dial, OfferArrives, Begin, Quiet, TypeOK, NothingLeft
  <2> QED BY <2>3, <2>4
<1>2. CASE EndCall
  BY <1>0, <1>2, TeardownAlone DEF EndCall, TypeOK
<1>3. ASSUME NEW c \in Calls, Described(c) PROVE Alone'
  <2>1. c = peer /\ session = NoSession /\ chat = NoChat
    BY <1>0, <1>3 DEF Described, NothingLeft, SessionOfNow, ChatOfNow
  <2> QED
    BY <1>0, <1>3, <2>1 DEF Described, state, sessionVars, TypeOK, SessionOfNow,
       OthersDestroyed, NoStrayFinalize, ChatOfNow, NothingLeft
<1>4. ASSUME NEW c \in Calls, AnswerArrives(c) PROVE Alone'
  <2>1. CASE peer # NoCall /\ stage[peer] = "offered"
    <3>1. session = NoSession /\ chat = NoChat
      BY <1>0, <2>1 DEF SessionOfNow, ChatOfNow
    <3> QED
      BY <1>0, <1>4, <2>1, <3>1 DEF AnswerArrives, state, sessionVars, TypeOK,
         SessionOfNow, OthersDestroyed, NoStrayFinalize, ChatOfNow, NothingLeft
  <2>2. CASE ~(peer # NoCall /\ stage[peer] = "offered")
    BY <1>0, <1>4, <2>2 DEF AnswerArrives, state, sessionVars, SessionOfNow,
       OthersDestroyed, NoStrayFinalize, ChatOfNow, NothingLeft, Reaches
  <2> QED BY <2>1, <2>2
<1>5. ASSUME NEW c \in Calls, ChannelOpens(c) PROVE Alone'
  <2>1. /\ c = peer /\ peer # NoCall
        /\ session = NoSession /\ chat = NoChat
        /\ \A s \in Sessions : noise[s] # "finalizing"
    BY <1>0, <1>5 DEF ChannelOpens, NothingLeft, SessionOfNow, ChatOfNow,
       NoStrayFinalize, TypeOK
  <2>2. PICK s \in Sessions : /\ session' = s
                              /\ noise' = [noise EXCEPT ![s] = "handshake"]
                              /\ speaks' = [speaks EXCEPT ![s] = peerId]
                              /\ alive' = [alive EXCEPT ![s] = TRUE]
    BY <1>5, <2>1 DEF ChannelOpens
  <2>3. SessionOfNow'
    BY <1>0, <1>5, <2>1, <2>2 DEF ChannelOpens, SessionOfNow, TypeOK, CallTypes
  <2>4. OthersDestroyed' /\ NoStrayFinalize' /\ ChatOfNow' /\ NothingLeft'
    BY <1>0, <1>5, <2>1, <2>2 DEF ChannelOpens, OthersDestroyed, NoStrayFinalize,
       ChatOfNow, NothingLeft, TypeOK, CallTypes
  <2> QED BY <2>3, <2>4
<1>6. ASSUME NEW c \in Calls, LateClose(c) PROVE Alone'
  <2>1. [stage EXCEPT ![c] = "closed"] \in [Calls -> CallStages]
    BY <1>0 DEF TypeOK, CallStages
  <2> QED BY <1>0, <1>6, <2>1, TeardownAlone DEF LateClose, TypeOK
<1>7. ASSUME NEW c \in Calls, NEW rest \in {stage[c], "closed"}, ConnectionDrops(c, rest)
      PROVE  Alone'
  <2>1. [stage EXCEPT ![c] = rest] \in [Calls -> CallStages]
    BY <1>0 DEF TypeOK, CallStages
  <2> QED BY <1>0, <1>7, <2>1, TeardownAlone DEF ConnectionDrops, TypeOK
<1>8. ASSUME NEW s \in Sessions, NEW k \in Peers, HandshakeDone(s, k) PROVE Alone'
  <2>1. s = session /\ noise[s] = "handshake"
    BY <1>0, <1>8 DEF HandshakeDone, OthersDestroyed
  <2>2. chat = NoChat
    BY <1>0, <2>1 DEF ChatOfNow, Reaches
  <2> QED
    BY <1>0, <1>8, <2>1, <2>2 DEF HandshakeDone, state, callVars, TypeOK, SessionOfNow,
       OthersDestroyed, NoStrayFinalize, ChatOfNow, NothingLeft
<1>9. ASSUME NEW s \in Sessions, HandshakeFails(s) PROVE Alone'
  BY <1>0, <1>9, TeardownAlone DEF HandshakeFails, TypeOK
<1>10. ASSUME NEW s \in Sessions, Finalized(s) PROVE Alone'
  <2>1. CASE key[s] = speaks[s] /\ session = NoSession
    BY <1>0, <1>10, <2>1 DEF Finalized, TypeOK, SessionOfNow, OthersDestroyed,
       NoStrayFinalize, ChatOfNow, NothingLeft
  <2>2. CASE key[s] = speaks[s] /\ session # NoSession
    <3>1. s = session /\ key[s] = peerId
      BY <1>0, <1>10, <2>2 DEF Finalized, NoStrayFinalize, SessionOfNow
    <3> QED
      BY <1>0, <1>10, <2>2, <3>1 DEF Finalized, TypeOK, SessionOfNow,
         OthersDestroyed, NoStrayFinalize, ChatOfNow, NothingLeft, Reaches
  <2>3. CASE key[s] # speaks[s]
    BY <1>0, <1>10, <2>3, TeardownAlone DEF Finalized, TypeOK
  <2> QED BY <2>1, <2>2, <2>3
<1>11. CASE Discard
  BY <1>0, <1>11 DEF Discard, state, callVars, sessionVars, TypeOK, CallTypes, SessionOfNow,
     OthersDestroyed, NoStrayFinalize, ChatOfNow, NothingLeft, Reaches
<1>12. CASE UNCHANGED vars
  BY <1>0, <1>12 DEF vars, state, callVars, sessionVars, SessionOfNow, OthersDestroyed,
     NoStrayFinalize, ChatOfNow, NothingLeft, Reaches
<1> QED BY <1>1, <1>2, <1>3, <1>4, <1>5, <1>6, <1>7, <1>8, <1>9, <1>10, <1>11, <1>12
     DEF Next

LEMMA AloneInvariant == Spec => [](CallInv /\ AloneInv)
<1>1. Init => CallInv /\ AloneInv
  BY CallInit, AloneInit
<1>2. (CallInv /\ AloneInv) /\ [Next]_vars => (CallInv /\ AloneInv)'
  BY CallStep, AloneStep
<1> QED BY <1>1, <1>2, PTL DEF Spec

\* While calls do not cross, a chat runs over an established session with the owner
\* of the id it is labelled with, whatever key a remote presents and however calls
\* end: the listeners of js/app.js that read `state` late read the right one.
THEOREM ChatReachesContactAlone == Spec => []ChatReachesItsContactAlone
<1>1. CallInv /\ AloneInv => ChatReachesItsContactAlone
  BY DEF AloneInv, Alone, ChatOfNow, ChatReachesItsContactAlone
<1> QED BY <1>1, AloneInvariant, PTL

\* While calls do not cross, teardownPeer and lockForVpn leave no connection open:
\* every call that `state.peer` is not has been closed.
THEOREM CallsAreSevered == Spec => []NoCallLeftBehind
<1>1. CallInv /\ AloneInv => NoCallLeftBehind
  BY DEF AloneInv, Alone, NothingLeft, NoCallLeftBehind
<1> QED BY <1>1, AloneInvariant, PTL
================================================================================
