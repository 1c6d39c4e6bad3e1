---------------------------- MODULE SignalingRelay ----------------------------
(***************************************************************************)
(* The signaling relay (server/src/signaling.js): a directory from anonId  *)
(* to the one socket that registered it last, a cap on connections per IP, *)
(* a message budget per connection, and a sweep that reaps dead sockets.   *)
(*                                                                         *)
(* Node runs one callback at a time, so each callback is one action.  What *)
(* happens between callbacks is the environment's: sockets close from the  *)
(* remote side, break, or fall silent without closing (half-open).         *)
(*                                                                         *)
(* phase is the `ws` library's readyState seen from the callbacks:         *)
(*   open     handlers attached, readyState OPEN                           *)
(*   closing  readyState CLOSING or CLOSED, its 'close' event not yet run  *)
(*   refused  over the cap: close(1013) was called, no handler attached    *)
(*   absent   no such socket; a name is taken again by a later connection  *)
(*            once no entry of `peers` refers to it                        *)
(* A frame's contents are abstracted to its type, `from` and `to`; the     *)
(* relay reads nothing else.                                               *)
(***************************************************************************)
EXTENDS RateWindow, FiniteSets

CONSTANTS Sockets, Ids, Ips,
          NoSocket, NoId, NoIp,  \* Map.get of a missing key, null
          MaxConnsPerIp,
          MayRename   \* whether a client may register two ids on one socket:
                      \* the relay allows it, js/app.js never does it

ASSUME RelayAssumption ==
  /\ NoSocket \notin Sockets
  /\ NoId \notin Ids
  /\ NoIp \notin Ips
  /\ MaxConnsPerIp \in Nat \ {0}
  /\ MayRename \in BOOLEAN
  /\ IsFiniteSet(Sockets)

VARIABLES phase,      \* [Sockets -> Phases]
          anonId,     \* ws.anonId
          ipCounted,  \* ws._ipCounted
          isAlive,    \* ws.isAlive (TRUE also stands for undefined)
          rl,         \* ws._rlStart, _rlCount, _rlNotified
          peers,      \* the map anonId -> ws
          ipConns,    \* the map remoteAddress -> count; 0: no entry
          gone,       \* environment: sockets whose remote fell silent
          inbox       \* history: the ids addressed by the frames a socket got

vars == <<phase, anonId, ipCounted, isAlive, rl, peers, ipConns, gone, inbox>>

Phases == {"absent", "open", "closing", "refused"}

\* Sockets in wss.clients: `ws` drops a socket from the set at its close event.
Clients == {ws \in Sockets : phase[ws] # "absent"}
OpenSockets == {ws \in Sockets : phase[ws] = "open"}

Init ==
  /\ phase = [ws \in Sockets |-> "absent"]
  /\ anonId = [ws \in Sockets |-> NoId]
  /\ ipCounted = [ws \in Sockets |-> NoIp]
  /\ isAlive = [ws \in Sockets |-> TRUE]
  /\ rl = [ws \in Sockets |-> FreshWindow]
  /\ peers = [id \in Ids |-> NoSocket]
  /\ ipConns = [ip \in Ips |-> 0]
  /\ gone = {}
  /\ inbox = [ws \in Sockets |-> {}]

------------------------------------------------------------------------------
(* Connection slots *)

\* A name for a new connection: a socket object nobody refers to any more.
Unused(ws) == phase[ws] = "absent" /\ \A id \in Ids : peers[id] # ws

BugRoom(ip) == ipConns[ip] <= MaxConnsPerIp

\* `current >= maxConnsPerIp` is the refusal.
Room(ip) == ipConns[ip] < MaxConnsPerIp

\* wss.on('connection') under the cap: count the socket, attach the handlers.
Accept(ws, ip) ==
  /\ Unused(ws)
  /\ Room(ip)
  /\ phase' = [phase EXCEPT ![ws] = "open"]
  /\ ipConns' = [ipConns EXCEPT ![ip] = @ + 1]
  /\ ipCounted' = [ipCounted EXCEPT ![ws] = ip]
  /\ anonId' = [anonId EXCEPT ![ws] = NoId]
  /\ isAlive' = [isAlive EXCEPT ![ws] = TRUE]
  /\ rl' = [rl EXCEPT ![ws] = FreshWindow]
  /\ UNCHANGED <<peers, gone, inbox>>

\* wss.on('connection') at the cap: 'too-many-connections', close(1013), return.
Refuse(ws, ip) ==
  /\ Unused(ws)
  /\ ~Room(ip)
  /\ phase' = [phase EXCEPT ![ws] = "refused"]
  /\ UNCHANGED <<anonId, ipCounted, isAlive, rl, peers, ipConns, gone, inbox>>

BugReleaseTwice(ws) ==
  LET ip == ipCounted[ws]
  IN  /\ ipConns' = IF ip = NoIp THEN ipConns
                    ELSE [ipConns EXCEPT ![ip] = IF @ <= 1 THEN 0 ELSE @ - 1]
      /\ UNCHANGED ipCounted

\* releaseIp: give the slot back once; `_ipCounted = null` makes it idempotent.
ReleaseIp(ws) ==
  LET ip == ipCounted[ws]
  IN  IF ip = NoIp
      THEN UNCHANGED <<ipCounted, ipConns>>
      ELSE /\ ipCounted' = [ipCounted EXCEPT ![ws] = NoIp]
           /\ ipConns' = [ipConns EXCEPT ![ip] = IF @ <= 1 THEN 0 ELSE @ - 1]

------------------------------------------------------------------------------
(* ws.on('message'): every frame is counted first, whatever it holds *)

\* A frame arrives on an open socket and is within the budget.
Receive(ws) ==
  /\ phase[ws] = "open"
  /\ ws \notin gone
  /\ RateLimitOk(rl[ws])
  /\ rl' = [rl EXCEPT ![ws] = CountFrame(@)]
  /\ UNCHANGED <<phase, ipCounted, isAlive, ipConns, gone>>

\* Over the budget: `if (!rateLimitOk(ws)) return`.
OverBudget(ws) ==
  /\ phase[ws] = "open"
  /\ ws \notin gone
  /\ ~RateLimitOk(rl[ws])
  /\ rl' = [rl EXCEPT ![ws] = CountFrame(@)]
  /\ UNCHANGED <<phase, anonId, ipCounted, isAlive, peers, ipConns, gone, inbox>>

\* Not JSON, a type not in ALLOWED_TYPES, a malformed id ('bad-id'), a `from`
\* that is not the socket's own id ('not-registered'), or no string `to`.
Ignored(ws) == Receive(ws) /\ UNCHANGED <<anonId, peers, inbox>>

BugRegisterTakeover(ws, id) ==
  /\ Receive(ws)
  /\ MayRename \/ anonId[ws] \in {NoId, id}
  /\ anonId' = IF peers[id] = NoSocket THEN [anonId EXCEPT ![ws] = id] ELSE anonId
  /\ peers' = [peers EXCEPT ![id] = ws]
  /\ UNCHANGED inbox

\* { type: 'register', from: id }: the newest socket takes the id over.  The
\* 'displaced' and 'registered' answers carry no state.
Register(ws, id) ==
  /\ Receive(ws)
  /\ MayRename \/ anonId[ws] \in {NoId, id}
  /\ anonId' = [anonId EXCEPT ![ws] = id]
  /\ peers' = [peers EXCEPT ![id] = ws]
  /\ UNCHANGED inbox

\* offer, answer, ice or bye to an id with no entry: 'unavailable'.
Unavailable(ws, to) ==
  /\ Receive(ws)
  /\ anonId[ws] # NoId
  /\ peers[to] = NoSocket
  /\ UNCHANGED <<anonId, peers, inbox>>

\* offer, answer, ice or bye, forwarded verbatim; safeSend drops the frame in
\* silence when the target is no longer OPEN.
Forward(ws, to) ==
  /\ Receive(ws)
  /\ anonId[ws] # NoId
  /\ peers[to] # NoSocket
  /\ inbox' = IF phase[peers[to]] = "open"
              THEN [inbox EXCEPT ![peers[to]] = @ \cup {to}] ELSE inbox
  /\ UNCHANGED <<anonId, peers>>

------------------------------------------------------------------------------
(* Closing, failing, falling silent *)

\* The remote closes or the TCP connection is reset: readyState leaves OPEN and
\* the 'close' event is on its way.
PeerCloses(ws) ==
  /\ phase[ws] = "open"
  /\ ws \notin gone
  /\ phase' = [phase EXCEPT ![ws] = "closing"]
  /\ UNCHANGED <<anonId, ipCounted, isAlive, rl, peers, ipConns, gone, inbox>>

\* The remote host disappears without a FIN; nothing tells the relay.
Vanish(ws) ==
  /\ phase[ws] = "open"
  /\ ws \notin gone
  /\ gone' = gone \cup {ws}
  /\ UNCHANGED <<phase, anonId, ipCounted, isAlive, rl, peers, ipConns, inbox>>

\* ws.on('error'): an oversized or malformed frame, a socket error.  The library
\* is already closing the socket; only the slot is released here.
OnError(ws) ==
  /\ phase[ws] \in {"open", "closing"}
  /\ ReleaseIp(ws)
  /\ phase' = [phase EXCEPT ![ws] = "closing"]
  /\ UNCHANGED <<anonId, isAlive, rl, peers, gone, inbox>>

\* The socket object is garbage after its close event: forget its fields.
Discard(ws) ==
  /\ phase' = [phase EXCEPT ![ws] = "absent"]
  /\ anonId' = [anonId EXCEPT ![ws] = NoId]
  /\ isAlive' = [isAlive EXCEPT ![ws] = TRUE]
  /\ rl' = [rl EXCEPT ![ws] = FreshWindow]
  /\ gone' = gone \ {ws}
  /\ inbox' = [inbox EXCEPT ![ws] = {}]
BugCloseDropsRoute(ws) ==
  /\ phase[ws] = "closing"
  /\ ReleaseIp(ws)
  /\ peers' = IF anonId[ws] # NoId
              THEN [peers EXCEPT ![anonId[ws]] = NoSocket] ELSE peers
  /\ Discard(ws)
BugCloseKeepsRoute(ws) ==
  /\ phase[ws] = "closing"
  /\ ReleaseIp(ws)
  /\ Discard(ws)
  /\ UNCHANGED peers

\* ws.on('close'): release the slot; drop the route, unless a newer socket has
\* registered the id in the meantime.
OnClose(ws) ==
  /\ phase[ws] = "closing"
  /\ ReleaseIp(ws)
  /\ peers' = [id \in Ids |-> IF id = anonId[ws] /\ peers[id] = ws
                              THEN NoSocket ELSE peers[id]]
  /\ Discard(ws)

\* A refused socket is gone: no handler runs.
RefusedClose(ws) ==
  /\ phase[ws] = "refused"
  /\ Discard(ws)
  /\ UNCHANGED <<ipCounted, peers, ipConns>>

------------------------------------------------------------------------------
(* The liveness sweep and the clock *)

\* ws.on('pong')
Pong(ws) ==
  /\ phase[ws] = "open"
  /\ ws \notin gone
  /\ isAlive' = [isAlive EXCEPT ![ws] = TRUE]
  /\ UNCHANGED <<phase, anonId, ipCounted, rl, peers, ipConns, gone, inbox>>

BugSweep ==
  /\ Clients # {}
  /\ phase' = [ws \in Sockets |->
                 IF phase[ws] = "open" /\ ~isAlive[ws] THEN "closing" ELSE phase[ws]]
  /\ UNCHANGED <<anonId, ipCounted, isAlive, rl, peers, ipConns, gone, inbox>>

\* setInterval(..., 30000): terminate every client that did not answer the last
\* ping, mark and ping the others.  terminate() leads to a close event.
Sweep ==
  /\ Clients # {}
  /\ phase' = [ws \in Sockets |->
                 IF phase[ws] = "open" /\ ~isAlive[ws] THEN "closing" ELSE phase[ws]]
  /\ isAlive' = [ws \in Sockets |-> ws \notin Clients]
  /\ UNCHANGED <<anonId, ipCounted, rl, peers, ipConns, gone, inbox>>

\* Date.now() advances for every connection at once.
Tick ==
  /\ rl' = [ws \in Sockets |-> IF phase[ws] = "open" THEN Elapse(rl[ws]) ELSE rl[ws]]
  /\ UNCHANGED <<phase, anonId, ipCounted, isAlive, peers, ipConns, gone, inbox>>

Handlers(ws) ==
  \/ OverBudget(ws)
  \/ Ignored(ws)
  \/ \E id \in Ids : Register(ws, id)
  \/ \E to \in Ids : Unavailable(ws, to)
  \/ \E to \in Ids : Forward(ws, to)
  \/ Pong(ws)
  \/ OnError(ws)
  \/ OnClose(ws)
  \/ RefusedClose(ws)

Next ==
  \/ \E ws \in Sockets, ip \in Ips : Accept(ws, ip) \/ Refuse(ws, ip)
  \/ \E ws \in Sockets : Handlers(ws) \/ PeerCloses(ws) \/ Vanish(ws)
  \/ Sweep
  \/ Tick

Spec == Init /\ [][Next]_vars

\* The interval timer keeps firing, and the library delivers the close event of a
\* socket that left OPEN: terminate() destroys it, close() arms a timeout.
FairSpec == /\ Spec
            /\ WF_vars(Sweep)
            /\ \A ws \in Sockets : WF_vars(OnClose(ws))

------------------------------------------------------------------------------
(* Properties *)

\* No address ever counts more sockets than the cap admits, peers maps an id to a
\* socket or to nothing, and only a live socket's remote can be gone.
TypeOK ==
  /\ phase \in [Sockets -> Phases]
  /\ anonId \in [Sockets -> Ids \cup {NoId}]
  /\ ipCounted \in [Sockets -> Ips \cup {NoIp}]
  /\ isAlive \in [Sockets -> BOOLEAN]
  /\ rl \in [Sockets -> RateStates]
  /\ peers \in [Ids -> Sockets \cup {NoSocket}]
  /\ ipConns \in [Ips -> 0..MaxConnsPerIp]
  /\ gone \subseteq {ws \in Sockets : phase[ws] \in {"open", "closing"}}
  /\ inbox \in [Sockets -> SUBSET Ids]

CountedFor(ip) == {ws \in Sockets : ipCounted[ws] = ip}

\* The per-IP count is exactly the number of sockets that hold a slot, whatever
\* close and error events overlapped ("can't double-decrement or leak"); every
\* open socket holds one and none is held by a socket that is gone or was refused.
SlotsExact ==
  /\ \A ip \in Ips : ipConns[ip] = Cardinality(CountedFor(ip))
  /\ \A ws \in Sockets :
       /\ phase[ws] = "open" => ipCounted[ws] \in Ips
       /\ phase[ws] \in {"absent", "refused"} => ipCounted[ws] = NoIp

\* An entry of `peers` names a socket whose close event has not run and that is
\* registered under that very id, so nobody is routed to a dead or foreign
\* socket ("the map entry is deleted the instant a socket closes").
RoutesSound ==
  \A id \in Ids : LET ws == peers[id] IN
    ws # NoSocket => phase[ws] \in {"open", "closing"} /\ anonId[ws] = id

\* A client never gets a frame addressed to an id other than its own, even when
\* several sockets take the same id over from each other and close in any order.
OnlyOwnFrames == \A ws \in Sockets : inbox[ws] \subseteq {anonId[ws]}

\* A route disappears only when the socket it names closes: the close of a
\* displaced socket never cuts off the one that displaced it.
RouteLostOnlyToOwnClose ==
  [][\A id \in Ids :
       peers[id] # NoSocket /\ peers'[id] = NoSocket
       => phase[peers[id]] = "closing" /\ phase'[peers[id]] = "absent"]_vars

\* The relay implements the directory it promises.
Directory == INSTANCE Presence WITH holder <- peers
ImplementsDirectory == Directory!Spec

\* "Drop half-open sockets so the peer map stays accurate": a socket whose remote
\* fell silent is closed, with its route and its slot, without anybody's help.
HalfOpenReaped == \A ws \in Sockets : ws \in gone ~> phase[ws] = "absent"
================================================================================
