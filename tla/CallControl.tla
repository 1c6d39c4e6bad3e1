------------------------------ MODULE CallControl ------------------------------
(***************************************************************************)
(* Calls of one client: js/app.js (dial, acceptIncomingCall, handleSignal, *)
(* wirePeer, teardownPeer), js/webrtc.js (the RTCPeerConnection and its    *)
(* channel) and js/e2ee.js (handshake, identity check, 'established').     *)
(*                                                                         *)
(* app.js keeps one peer, one session, one messaging object and one        *)
(* peerId in `state`; the listeners it hangs on a PeerConnection or an     *)
(* E2EESession read that `state` when they run, not when they were hung.   *)
(* An action is one callback up to its next await, so a callback of an     *)
(* earlier call can run when `state` already belongs to a later one.       *)
(* Session descriptions, candidates and Noise messages are abstracted to   *)
(* what they lead to; the remote end is the environment and may answer,    *)
(* close, fail, or present any static key.                                 *)
(***************************************************************************)
EXTENDS FiniteSets

CONSTANTS Peers,            \* ids of contacts
          Calls, NoCall,    \* bound: PeerConnection objects alive at once
          Sessions, NoSession, \* bound: E2EESession objects alive at once
          NoPeer, NoChat

ASSUME CallAssumption == /\ NoCall \notin Calls
                         /\ NoSession \notin Sessions
                         /\ NoPeer \notin Peers

VARIABLES peerId,   \* state.peerId
          peer,     \* state.peer
          session,  \* state.session
          chat,     \* state.messaging: the session it sends over, the id it is for
          stage,    \* life of each PeerConnection
          who,      \* its peerId
          dialer,   \* its initiator
          asked,    \* calls whose offer is out and may still be answered
          noise,    \* handshake of each E2EESession
          over,     \* its peer
          speaks,   \* its peerId
          key,      \* the id the remote's static key fingerprints to
          alive,    \* destroy() has not run: hs # null
          crossed   \* history: a call began before the one before it was over

state == <<peerId, peer, session, chat>>
callVars == <<stage, who, dialer, asked>>
sessionVars == <<noise, over, speaks, key, alive>>
vars == <<state, callVars, sessionVars, crossed>>

\* new: describing itself; offered: its offer is out; mixed: an answer to another
\* offer was applied; matched: both ends agree; open: the channel is open;
\* closing: closed here, its close event may still come; closed: nothing to come.
CallStages == {"free", "new", "offered", "mixed", "matched", "open", "closing", "closed"}
NoiseStages == {"free", "handshake", "finalizing", "established", "failed"}

Init ==
  /\ peerId = NoPeer /\ peer = NoCall /\ session = NoSession /\ chat = NoChat
  /\ stage = [c \in Calls |-> "free"]
  /\ who = [c \in Calls |-> NoPeer]
  /\ dialer = [c \in Calls |-> FALSE]
  /\ asked = {}
  /\ noise = [s \in Sessions |-> "free"]
  /\ over = [s \in Sessions |-> NoCall]
  /\ speaks = [s \in Sessions |-> NoPeer]
  /\ key = [s \in Sessions |-> NoPeer]
  /\ alive = [s \in Sessions |-> FALSE]
  /\ crossed = FALSE

------------------------------------------------------------------------------
(* js/app.js *)

BugTeardownKeepsChat(table) ==
  /\ alive' = [s \in Sessions |-> s # session /\ alive[s]]
  /\ stage' = [c \in Calls |-> IF c = peer /\ table[c] # "closed" THEN "closing" ELSE table[c]]
  /\ session' = NoSession
  /\ peer' = NoCall
  /\ UNCHANGED <<peerId, chat>>

BugTeardownKeepsPeer(table) ==
  /\ alive' = [s \in Sessions |-> s # session /\ alive[s]]
  /\ stage' = [c \in Calls |-> IF c = peer /\ table[c] # "closed" THEN "closing" ELSE table[c]]
  /\ session' = NoSession
  /\ chat' = NoChat
  /\ UNCHANGED <<peerId, peer>>

BugTeardownLeavesOpen(table) ==
  /\ alive' = [s \in Sessions |-> s # session /\ alive[s]]
  /\ stage' = table
  /\ session' = NoSession
  /\ peer' = NoCall
  /\ chat' = NoChat
  /\ UNCHANGED peerId

\* teardownPeer(), lockForVpn()'s second half, on top of the call stages `table`:
\* the session and the peer `state` holds now are ended, whoever asked for it.
Teardown(table) ==
  /\ alive' = [s \in Sessions |-> s # session /\ alive[s]]
  /\ stage' = [c \in Calls |-> IF c = peer /\ table[c] # "closed" THEN "closing" ELSE table[c]]
  /\ session' = NoSession
  /\ peer' = NoCall
  /\ chat' = NoChat
  /\ UNCHANGED peerId

\* Nothing of an earlier call can still call back.
Quiet == /\ \A c \in Calls : stage[c] \in {"free", "closed"}
         /\ \A s \in Sessions : noise[s] # "finalizing"

\* A new PeerConnection takes the place of the old one, which is not closed.
Begin(p, initiator) ==
  \E c \in Calls :
    /\ stage[c] = "free"
    /\ peerId' = p
    /\ peer' = c
    /\ stage' = [stage EXCEPT ![c] = "new"]
    /\ who' = [who EXCEPT ![c] = p]
    /\ dialer' = [dialer EXCEPT ![c] = initiator]
    /\ crossed' = (crossed \/ ~Quiet)
    /\ UNCHANGED <<session, chat, asked, sessionVars>>

\* dial: the connect button, which is there during a chat as well.
Dial(p) == Begin(p, TRUE)

\* acceptIncomingCall: an offer from anybody is accepted at once.
OfferArrives(p) == Begin(p, FALSE)

\* start() sends the offer; onOffer() sends the answer; close() stops both.
Described(c) ==
  /\ stage[c] = "new"
  /\ stage' = [stage EXCEPT ![c] = IF dialer[c] THEN "offered" ELSE "matched"]
  /\ asked' = IF dialer[c] THEN asked \cup {c} ELSE asked
  /\ UNCHANGED <<state, who, dialer, sessionVars, crossed>>

\* The answer to the offer of call c is applied to the call of now, which takes it
\* if it waits for one.
AnswerArrives(c) ==
  /\ c \in asked
  /\ asked' = asked \ {c}
  /\ stage' = IF peer # NoCall /\ stage[peer] = "offered"
              THEN [stage EXCEPT ![peer] = IF peer = c THEN "matched" ELSE "mixed"]
              ELSE stage
  /\ UNCHANGED <<state, who, dialer, sessionVars, crossed>>

\* 'bye' from anybody, an identity switch, the VPN gate.
EndCall == /\ Teardown(stage)
           /\ UNCHANGED <<who, dialer, asked, noise, over, speaks, key, crossed>>

------------------------------------------------------------------------------
(* js/webrtc.js *)

\* The channel of c opens: a session is made over the peer of now, for the peerId
\* of now, and starts its handshake; without a peer the listener throws.
ChannelOpens(c) ==
  /\ stage[c] = "matched"
  /\ stage' = [stage EXCEPT ![c] = "open"]
  /\ \/ /\ peer = NoCall
        /\ UNCHANGED <<session, sessionVars>>
     \/ \E s \in Sessions :
          /\ peer # NoCall
          /\ noise[s] = "free"
          /\ session' = s
          /\ noise' = [noise EXCEPT ![s] = "handshake"]
          /\ over' = [over EXCEPT ![s] = peer]
          /\ speaks' = [speaks EXCEPT ![s] = peerId]
          /\ alive' = [alive EXCEPT ![s] = TRUE]
          /\ UNCHANGED key
  /\ UNCHANGED <<peerId, peer, chat, who, dialer, asked, crossed>>

\* The remote closes the channel, or the connection fails, or is disconnected for
\* now: whichever call it was, the call of now is torn down.
ConnectionDrops(c, rest) ==
  /\ stage[c] \in {"mixed", "matched", "open"}
  /\ Teardown([stage EXCEPT ![c] = rest])
  /\ UNCHANGED <<who, dialer, asked, noise, over, speaks, key, crossed>>

\* The close event of a channel that was closed here.
LateClose(c) ==
  /\ stage[c] = "closing"
  /\ Teardown([stage EXCEPT ![c] = "closed"])
  /\ UNCHANGED <<who, dialer, asked, noise, over, speaks, key, crossed>>

\* A closed call or a session nobody refers to is gone, with the events it had left.
Discard ==
  \/ \E c \in Calls :
       /\ stage[c] \in {"closing", "closed"}
       /\ c # peer
       /\ \A s \in Sessions : noise[s] # "free" => over[s] # c
       /\ stage' = [stage EXCEPT ![c] = "free"]
       /\ who' = [who EXCEPT ![c] = NoPeer]
       /\ dialer' = [dialer EXCEPT ![c] = FALSE]
       /\ asked' = asked \ {c}
       /\ UNCHANGED <<state, sessionVars, crossed>>
  \/ \E s \in Sessions :
       /\ noise[s] \in {"handshake", "established", "failed"}
       /\ s # session
       /\ chat # NoChat => chat.session # s
       /\ stage[over[s]] \in {"closing", "closed"}
       /\ noise' = [noise EXCEPT ![s] = "free"]
       /\ over' = [over EXCEPT ![s] = NoCall]
       /\ speaks' = [speaks EXCEPT ![s] = NoPeer]
       /\ key' = [key EXCEPT ![s] = NoPeer]
       /\ alive' = [alive EXCEPT ![s] = FALSE]
       /\ UNCHANGED <<state, callVars, crossed>>

------------------------------------------------------------------------------
(* js/e2ee.js *)

\* The last Noise message: both ends are keyed, and the fingerprint of the remote's
\* static key is being computed.  One session of a call can get that far.
HandshakeDone(s, k) ==
  /\ noise[s] = "handshake"
  /\ alive[s]
  /\ stage[over[s]] = "open"
  /\ \A r \in Sessions : over[r] = over[s] => noise[r] \notin {"finalizing", "established"}
  /\ noise' = [noise EXCEPT ![s] = "finalizing"]
  /\ key' = [key EXCEPT ![s] = k]
  /\ UNCHANGED <<state, callVars, over, speaks, alive, crossed>>

\* A Noise message that does not fit, or one that reaches a destroyed session:
\* 'insecure', and the call of now is torn down.
HandshakeFails(s) ==
  /\ noise[s] = "handshake"
  /\ stage[over[s]] = "open"
  /\ noise' = [noise EXCEPT ![s] = "failed"]
  /\ Teardown(stage)
  /\ UNCHANGED <<who, dialer, asked, over, speaks, key, crossed>>

BugFinalized(s) ==
  /\ noise[s] = "finalizing"
  /\ noise' = [noise EXCEPT ![s] = "established"]
  /\ chat' = IF session = NoSession THEN chat
             ELSE [session |-> session, peerId |-> peerId]
  /\ UNCHANGED <<peerId, peer, session, stage, alive>>
  /\ UNCHANGED <<who, dialer, asked, over, speaks, key, crossed>>

\* _finalize after its await: 'established' opens a chat over the session of now,
\* for the peerId of now; another identity is 'insecure'.
Finalized(s) ==
  /\ noise[s] = "finalizing"
  /\ \/ /\ key[s] = speaks[s]
        /\ noise' = [noise EXCEPT ![s] = "established"]
        /\ chat' = IF session = NoSession THEN chat
                   ELSE [session |-> session, peerId |-> peerId]
        /\ UNCHANGED <<peerId, peer, session, stage, alive>>
     \/ /\ key[s] # speaks[s]
        /\ noise' = [noise EXCEPT ![s] = "failed"]
        /\ Teardown(stage)
  /\ UNCHANGED <<who, dialer, asked, over, speaks, key, crossed>>

Next ==
  \/ \E p \in Peers : Dial(p) \/ OfferArrives(p)
  \/ EndCall
  \/ \E c \in Calls :
       \/ Described(c) \/ AnswerArrives(c) \/ ChannelOpens(c) \/ LateClose(c)
       \/ \E rest \in {stage[c], "closed"} : ConnectionDrops(c, rest)
  \/ \E s \in Sessions :
       \/ \E k \in Peers : HandshakeDone(s, k)
       \/ HandshakeFails(s) \/ Finalized(s)
  \/ Discard

Spec == Init /\ [][Next]_vars

------------------------------------------------------------------------------
(* Properties *)

\* state.peer is never a call that has ended, state.session never one that is gone,
\* and a chat is for a contact.
TypeOK ==
  /\ peerId \in Peers \cup {NoPeer}
  /\ peer = NoCall \/ (peer \in Calls /\ stage[peer] \notin {"free", "closing", "closed"})
  /\ session = NoSession \/ (session \in Sessions /\ noise[session] # "free")
  /\ chat = NoChat \/ (chat.session \in Sessions /\ chat.peerId \in Peers)
  /\ stage \in [Calls -> CallStages]
  /\ noise \in [Sessions -> NoiseStages]
  /\ asked \subseteq Calls

\* A chat never outlives its session: whichever of the five ways a call ends, no
\* messaging object is left whose session was destroyed, where sending would throw.
ChatOverLiveSession == chat # NoChat => alive[chat.session]

\* What the user sees is who gets it: the chat runs over an established session
\* with the owner of the id the chat is labelled with.
Reaches == /\ noise[chat.session] = "established"
           /\ key[chat.session] = chat.peerId

\* "Chat opens only once the channel is authenticated and keyed", for the contact it
\* is opened for, with one call at a time, each over before the next begins, whatever
\* key the remote presents and whenever a call ends.  A call begun during another's
\* handshake gets its name on the other's chat.
ChatReachesItsContactAlone == chat # NoChat /\ ~crossed => Reaches

\* "Sever everything": with one call at a time, a call that `state` has let go of is
\* closed.
NoCallLeftBehind ==
  ~crossed => \A c \in Calls : stage[c] \in {"free", "closing", "closed"} \/ c = peer
================================================================================
