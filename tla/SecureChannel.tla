----------------------------- MODULE SecureChannel -----------------------------
(***************************************************************************)
(* Both ends of one call: the Noise XX handshake of js/e2ee.js, its        *)
(* receive chain and its sealed frames, over the ordered data channel of   *)
(* js/webrtc.js with its bounded send buffer.                              *)
(*                                                                         *)
(* Noise counts messages: seal() takes the next nonce whether or not the   *)
(* message then leaves, and a message opens only under the nonce that is   *)
(* next at the receiver.  A frame is named by its nonce.                   *)
(***************************************************************************)
EXTENDS Naturals, Sequences

CONSTANTS Initiator, Responder,
          MaxFrames,   \* bound: frames that an end seals
          Capacity     \* messages that fit into a channel's send buffer

ASSUME ChannelAssumption ==
  /\ Initiator # Responder
  /\ MaxFrames \in Nat
  /\ Capacity \in Nat \ {0}

Ends == {Initiator, Responder}
Other(e) == IF e = Initiator THEN Responder ELSE Initiator
Frames == 0..(MaxFrames - 1)

VARIABLES genuine,   \* the other end's static key fingerprints to the dialled id
          channel,   \* readyState of each end's RTCDataChannel
          out,       \* send buffer of each end
          chain,     \* _recvChain of each end: messages come in and not handled
          hs,        \* handshake messages that each end has sent or received
          alive,     \* this.hs is there: the session is started, not destroyed
          finalizing, \* _finalize awaits the fingerprint
          established, \* the key fits the id: messaging.js has the session
          sealed,    \* nonce of the next message this end seals
          opening,   \* nonce of the next message this end can open
          sent,      \* history: frames reported as sent
          received,  \* history: frames handed to messaging.js
          overrun    \* history: a send buffer was full, channel.send() threw

vars == <<genuine, channel, out, chain, hs, alive, finalizing, established,
          sealed, opening, sent, received, overrun>>

noise == <<hs, sealed, opening, sent, received, overrun>>

Handshake(n) == [kind |-> "handshake", n |-> n]
Transport(nonce) == [kind |-> "transport", n |-> nonce]

Init ==
  /\ genuine \in [Ends -> BOOLEAN]
  /\ channel = [e \in Ends |-> "connecting"]
  /\ out = [e \in Ends |-> <<>>]
  /\ chain = [e \in Ends |-> <<>>]
  /\ hs = [e \in Ends |-> 0]
  /\ alive = [e \in Ends |-> FALSE]
  /\ finalizing = [e \in Ends |-> FALSE]
  /\ established = [e \in Ends |-> FALSE]
  /\ sealed = [e \in Ends |-> 0]
  /\ opening = [e \in Ends |-> 0]
  /\ sent = [e \in Ends |-> <<>>]
  /\ received = [e \in Ends |-> <<>>]
  /\ overrun = FALSE

------------------------------------------------------------------------------
(* The data channel *)

\* The channel opens at e, which makes the session and starts it; the initiator
\* sends the first handshake message. start() awaits cryptoReady first, but boot() has
\* awaited it long before (app.js:573), so that await ends before any other event.
Start(e) ==
  /\ channel[e] = "connecting"
  /\ channel' = [channel EXCEPT ![e] = "open"]
  /\ alive' = [alive EXCEPT ![e] = TRUE]
  /\ IF e = Initiator
     THEN /\ hs' = [hs EXCEPT ![e] = 1]
          /\ out' = [out EXCEPT ![e] = <<Handshake(1)>>]
     ELSE UNCHANGED <<hs, out>>
  /\ UNCHANGED <<genuine, chain, finalizing, established, sealed, opening, sent,
                 received, overrun>>

\* The network takes a message from e's buffer to the other end, once that is open.
Transmit(e) ==
  /\ out[e] # <<>>
  /\ channel[Other(e)] = "open"
  /\ out' = [out EXCEPT ![e] = Tail(@)]
  /\ chain' = [chain EXCEPT ![Other(e)] = Append(@, Head(out[e]))]
  /\ UNCHANGED <<genuine, channel, alive, finalizing, established, noise>>

Full(e) == Len(out[e]) >= Capacity

\* sendBinary: an open channel takes the message, or throws when its buffer is full;
\* another channel returns false.
SendBinary(e, message) ==
  out' = IF channel[e] = "open" /\ ~Full(e) THEN [out EXCEPT ![e] = Append(@, message)]
         ELSE out

\* teardownPeer: the session is destroyed and the channel closed.  What was still
\* to be sent is lost, and what is in the chain finds no key.
Closed(e) ==
  /\ channel' = [channel EXCEPT ![e] = "closed"]
  /\ alive' = [alive EXCEPT ![e] = FALSE]
  /\ out' = [out EXCEPT ![e] = <<>>]
  /\ chain' = [chain EXCEPT ![e] = <<>>]

\* The user hangs up, the gate locks, the connection fails.
Close(e) ==
  /\ channel[e] # "closed"
  /\ Closed(e)
  /\ UNCHANGED <<genuine, finalizing, established, noise>>

\* The other end is gone: the channel stops taking messages...
Closing(e) ==
  /\ channel[e] \in {"connecting", "open"} /\ channel[Other(e)] = "closed"
  /\ channel' = [channel EXCEPT ![e] = "closing"]
  /\ UNCHANGED <<genuine, out, chain, alive, finalizing, established, noise>>

\* ... and its close event comes.
CloseEvent(e) == channel[e] = "closing" /\ Close(e)

------------------------------------------------------------------------------
(* The receive chain *)

BugNextMessage(e) == alive[e] /\ chain[e] # <<>>

\* The next message of the chain can be handled: the one before is done with.
NextMessage(e) == alive[e] /\ chain[e] # <<>> /\ ~finalizing[e]

\* _onHandshake: the answer goes out, and the last message starts _finalize.
OnHandshake(e) ==
  /\ NextMessage(e)
  /\ Head(chain[e]) = Handshake(hs[e] + 1)
  /\ chain' = [chain EXCEPT ![e] = Tail(@)]
  /\ LET answer == hs[e] + 2 <= 3 IN
       /\ hs' = [hs EXCEPT ![e] = IF answer THEN @ + 2 ELSE @ + 1]
       /\ IF answer THEN SendBinary(e, Handshake(hs[e] + 2)) ELSE UNCHANGED out
  /\ finalizing' = [finalizing EXCEPT ![e] = hs'[e] = 3]
  /\ UNCHANGED <<genuine, channel, alive, established, sealed, opening, sent,
                 received, overrun>>

BugFinalizedHangs(e) ==
  /\ finalizing[e]
  /\ finalizing' = [finalizing EXCEPT ![e] = FALSE]
  /\ established' = [established EXCEPT ![e] = genuine[e]]
  /\ UNCHANGED <<genuine, channel, out, chain, alive, noise>>

BugFinalizedTrusts(e) ==
  /\ finalizing[e]
  /\ finalizing' = [finalizing EXCEPT ![e] = FALSE]
  /\ established' = [established EXCEPT ![e] = TRUE]
  /\ UNCHANGED <<genuine, channel, out, chain, alive, noise>>

\* _finalize after its await: established, or 'insecure' and torn down.  Nobody has
\* told it that the session was destroyed meanwhile.
Finalized(e) ==
  /\ finalizing[e]
  /\ finalizing' = [finalizing EXCEPT ![e] = FALSE]
  /\ IF genuine[e]
     THEN /\ established' = [established EXCEPT ![e] = TRUE]
          /\ UNCHANGED <<channel, out, chain, alive>>
     ELSE Closed(e) /\ UNCHANGED established
  /\ UNCHANGED <<genuine, noise>>

\* _onTransport: a message that does not open under the next nonce is dropped.
OnTransport(e) ==
  /\ NextMessage(e)
  /\ Head(chain[e]).kind = "transport"
  /\ chain' = [chain EXCEPT ![e] = Tail(@)]
  /\ IF established[e] /\ Head(chain[e]).n = opening[e]
     THEN /\ opening' = [opening EXCEPT ![e] = @ + 1]
          /\ received' = [received EXCEPT ![e] = Append(@, Head(chain[e]).n)]
     ELSE UNCHANGED <<opening, received>>
  /\ UNCHANGED <<genuine, channel, out, hs, alive, finalizing, established,
                 sealed, sent, overrun>>

------------------------------------------------------------------------------
(* Sending *)

\* sendJson, sendChunk: _seal takes a nonce, and whether the message leaves is up to
\* sendBinary.
Send(e) ==
  /\ established[e] /\ alive[e]
  /\ sealed[e] < MaxFrames
  /\ sealed' = [sealed EXCEPT ![e] = @ + 1]
  /\ SendBinary(e, Transport(sealed[e]))
  /\ sent' = IF channel[e] = "open" /\ ~Full(e) THEN [sent EXCEPT ![e] = Append(@, sealed[e])]
             ELSE sent
  /\ overrun' = (overrun \/ (channel[e] = "open" /\ Full(e)))
  /\ UNCHANGED <<genuine, channel, chain, hs, alive, finalizing, established,
                 opening, received>>

Handlers(e) ==
  OnHandshake(e) \/ Finalized(e) \/ OnTransport(e)

Next ==
  \E e \in Ends :
    \/ Start(e) \/ Transmit(e) \/ Close(e) \/ Closing(e) \/ CloseEvent(e)
    \/ Handlers(e) \/ Send(e)

\* Channels that can open do, the network carries what it was given, promises
\* resolve and close events come.  Users and failures are free.
Fairness ==
  \A e \in Ends :
    /\ WF_vars(Start(e)) /\ WF_vars(Transmit(e))
    /\ WF_vars(Closing(e)) /\ WF_vars(CloseEvent(e))
    /\ WF_vars(OnHandshake(e)) /\ WF_vars(Finalized(e)) /\ WF_vars(OnTransport(e))

Spec == Init /\ [][Next]_vars /\ Fairness

------------------------------------------------------------------------------
(* Properties *)

MessageSet == [kind : {"handshake", "transport"}, n : Nat]

TypeOK ==
  /\ genuine \in [Ends -> BOOLEAN]
  /\ channel \in [Ends -> {"connecting", "open", "closing", "closed"}]
  /\ out \in [Ends -> Seq(MessageSet)] /\ chain \in [Ends -> Seq(MessageSet)]
  /\ hs \in [Ends -> 0..3]
  /\ alive \in [Ends -> BOOLEAN] /\ finalizing \in [Ends -> BOOLEAN]
  /\ established \in [Ends -> BOOLEAN]
  /\ sealed \in [Ends -> 0..MaxFrames] /\ opening \in [Ends -> 0..MaxFrames]
  /\ sent \in [Ends -> Seq(Frames)] /\ received \in [Ends -> Seq(Frames)]
  /\ overrun \in BOOLEAN

BothUp == \A e \in Ends : alive[e] /\ channel[e] = "open"

\* "Serialize incoming messages so the async finalize step can't be raced by a
\* transport message": while both ends are up and no buffer has overrun, the
\* messages between them open one after the other, with no nonce left out.
InStep ==
  BothUp /\ ~overrun =>
    \A e \in Ends :
      LET coming == chain[e] \o out[Other(e)] IN
      \E h \in 0..Len(coming) :
        /\ \A i \in 1..h : coming[i].kind = "handshake"
        /\ opening[e] + Len(coming) = sealed[Other(e)] + h
        /\ \A i \in (h + 1)..Len(coming) : coming[i] = Transport(opening[e] + (i - h) - 1)

\* The two ends implement the pipe, also when buffers overrun and sessions are
\* destroyed in the middle of anything.
Pipe == INSTANCE FramePipe WITH opened <- {e \in Ends : established[e]}
ImplementsPipe == Pipe!Spec

\* What was reported as sent arrives, unless an end goes away or a buffer overran:
\* no frame is lost to a finalize that is still running.
SentArrives ==
  \A e \in Ends, f \in Frames :
    (\E i \in 1..Len(sent[e]) : sent[e][i] = f) ~>
      \/ \E i \in 1..Len(received[Other(e)]) : received[Other(e)][i] = f
      \/ overrun \/ ~BothUp

\* A handshake ends the same way at both ends: both established, or both closed.
\* An end that rejects the other's key does not leave it waiting.
HandshakeAgrees ==
  (\E e \in Ends : alive[e]) ~>
    \/ \A e \in Ends : established[e]
    \/ \A e \in Ends : channel[e] = "closed"
================================================================================
