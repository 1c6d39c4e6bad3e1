------------------------- MODULE SignalingRelayProofs -------------------------
(***************************************************************************)
(* Proofs about the signaling relay, for any number of sockets, ids and    *)
(* addresses, any cap and any budget; at the end, what the budget of one   *)
(* connection (RateBurst) means for any interval of its length.            *)
(***************************************************************************)
EXTENDS SignalingRelay, RateBurst, FiniteSetTheorems, TLAPS

(* Counting a frame and letting time pass keep the budget fields in range. *)
LEMMA RateTypes ==
  ASSUME NEW r \in RateStates
  PROVE  /\ FreshWindow \in RateStates
         /\ CountFrame(r) \in RateStates
         /\ Elapse(r) \in RateStates
<1>1. FreshWindow \in RateStates
  BY RateAssumption DEF FreshWindow, RateStates
<1>2. Roll(r) \in RateStates
  BY <1>1 DEF Roll
<1>3. CountFrame(r) \in RateStates
  <2> DEFINE w == Roll(r)
             c == IF w.count > RateLimitMax THEN w.count ELSE w.count + 1
             n == w.notified \/ Warns(r)
  <2>1. CountFrame(r) = [age |-> w.age, count |-> c, notified |-> n]
    BY DEF CountFrame
  <2>2. n \in BOOLEAN
    OBVIOUS
  <2>3. w.age \in 0..RateLimitWindow /\ c \in 0..(RateLimitMax + 1)
    BY <1>2, RateAssumption DEF RateStates
  <2> HIDE DEF w, c, n
  <2> QED BY <2>1, <2>2, <2>3 DEF RateStates
<1>4. Elapse(r) \in RateStates
  BY RateAssumption DEF Elapse, RateStates
<1> QED BY <1>1, <1>3, <1>4

(* A release leaves the address fields and the counts in range. *)
LEMMA ReleaseTypes ==
  ASSUME TypeOK, NEW ws \in Sockets, ReleaseIp(ws)
  PROVE  /\ ipCounted' \in [Sockets -> Ips \cup {NoIp}]
         /\ ipConns' \in [Ips -> 0..MaxConnsPerIp]
BY RelayAssumption DEF TypeOK, ReleaseIp

(* A discarded socket's fields are those of a fresh one. *)
LEMMA DiscardTypes ==
  ASSUME TypeOK, NEW ws \in Sockets, Discard(ws)
  PROVE  /\ phase' \in [Sockets -> Phases]
         /\ anonId' \in [Sockets -> Ids \cup {NoId}]
         /\ isAlive' \in [Sockets -> BOOLEAN]
         /\ rl' \in [Sockets -> RateStates]
         /\ (gone \subseteq {s \in Sockets : phase[s] \in {"open", "closing"}})'
         /\ inbox' \in [Sockets -> SUBSET Ids]
<1>1. FreshWindow \in RateStates
  BY RateAssumption DEF FreshWindow, RateStates
<1> QED BY <1>1 DEF TypeOK, Discard, Phases

LEMMA ReceiveTypes ==
  ASSUME TypeOK, NEW ws \in Sockets, Receive(ws)
  PROVE  rl' \in [Sockets -> RateStates]
BY RateTypes DEF TypeOK, Receive

LEMMA TypeInit == Init => TypeOK
<1>1. FreshWindow \in RateStates
  BY RateAssumption DEF FreshWindow, RateStates
<1> QED BY <1>1, RelayAssumption DEF Init, TypeOK, Phases

LEMMA TypeStep == TypeOK /\ [Next]_vars => TypeOK'
<1> SUFFICES ASSUME TypeOK, [Next]_vars PROVE TypeOK'
  OBVIOUS
<1>1. ASSUME NEW ws \in Sockets, NEW ip \in Ips, Accept(ws, ip) PROVE TypeOK'
  <2>1. FreshWindow \in RateStates
    BY RateAssumption DEF FreshWindow, RateStates
  <2>2. ipConns' \in [Ips -> 0..MaxConnsPerIp]
    BY <1>1, RelayAssumption DEF TypeOK, Accept, Room
  <2> QED BY <1>1, <2>1, <2>2 DEF TypeOK, Accept, Phases
<1>2. ASSUME NEW ws \in Sockets, NEW ip \in Ips, Refuse(ws, ip) PROVE TypeOK'
  BY <1>2 DEF TypeOK, Refuse, Unused, Phases
<1>3. ASSUME NEW ws \in Sockets, OverBudget(ws) PROVE TypeOK'
  BY <1>3, RateTypes DEF TypeOK, OverBudget
<1>4. ASSUME NEW ws \in Sockets, Ignored(ws) PROVE TypeOK'
  BY <1>4, ReceiveTypes DEF TypeOK, Ignored, Receive
<1>5. ASSUME NEW ws \in Sockets, NEW id \in Ids, Register(ws, id) PROVE TypeOK'
  BY <1>5, ReceiveTypes DEF TypeOK, Register, Receive
<1>6. ASSUME NEW ws \in Sockets, NEW to \in Ids, Unavailable(ws, to) PROVE TypeOK'
  BY <1>6, ReceiveTypes DEF TypeOK, Unavailable, Receive
<1>7. ASSUME NEW ws \in Sockets, NEW to \in Ids, Forward(ws, to) PROVE TypeOK'
  BY <1>7, ReceiveTypes DEF TypeOK, Forward, Receive
<1>8. ASSUME NEW ws \in Sockets, Pong(ws) PROVE TypeOK'
  BY <1>8 DEF TypeOK, Pong
<1>9. ASSUME NEW ws \in Sockets, OnError(ws) PROVE TypeOK'
  BY <1>9, ReleaseTypes DEF TypeOK, OnError, Phases
<1>10. ASSUME NEW ws \in Sockets, OnClose(ws) PROVE TypeOK'
  <2>1. peers' \in [Ids -> Sockets \cup {NoSocket}]
    BY <1>10 DEF TypeOK, OnClose
  <2> QED BY <1>10, <2>1, ReleaseTypes, DiscardTypes DEF TypeOK, OnClose
<1>11. ASSUME NEW ws \in Sockets, RefusedClose(ws) PROVE TypeOK'
  BY <1>11, DiscardTypes DEF TypeOK, RefusedClose
<1>12. ASSUME NEW ws \in Sockets, PeerCloses(ws) PROVE TypeOK'
  BY <1>12 DEF TypeOK, PeerCloses, Phases
<1>13. ASSUME NEW ws \in Sockets, Vanish(ws) PROVE TypeOK'
  BY <1>13 DEF TypeOK, Vanish
<1>14. ASSUME Sweep PROVE TypeOK'
  BY <1>14 DEF TypeOK, Sweep, Phases
<1>15. ASSUME Tick PROVE TypeOK'
  BY <1>15, RateTypes DEF TypeOK, Tick
<1>16. ASSUME UNCHANGED vars PROVE TypeOK'
  BY <1>16 DEF TypeOK, vars
<1> QED
  BY <1>1, <1>2, <1>3, <1>4, <1>5, <1>6, <1>7, <1>8, <1>9, <1>10, <1>11, <1>12,
     <1>13, <1>14, <1>15, <1>16 DEF Next, Handlers

(* Every field of every socket and both maps stay in range; in particular no *)
(* address ever holds more than MaxConnsPerIp slots.                         *)
THEOREM TypeCorrect == Spec => []TypeOK
BY TypeInit, TypeStep, PTL DEF Spec

------------------------------------------------------------------------------
(* Connection slots *)

(* The three effects an action can have on the slots. *)
LEMMA SlotsUntouched ==
  ASSUME SlotsExact, UNCHANGED <<ipCounted, ipConns>>,
         \A ws \in Sockets : phase'[ws] = "open" => phase[ws] = "open",
         \A ws \in Sockets : phase'[ws] \in {"absent", "refused"}
                                => ipCounted[ws] = NoIp
  PROVE  SlotsExact'
BY DEF SlotsExact, CountedFor

(* Releasing a slot removes the socket from its address's set, and one from   *)
(* the count; a second release of the same socket does nothing.               *)
LEMMA ReleaseKeepsCounts ==
  ASSUME TypeOK, SlotsExact, NEW ws \in Sockets, ReleaseIp(ws)
  PROVE  /\ \A ip \in Ips : ipConns'[ip] = Cardinality(CountedFor(ip)')
         /\ ipCounted'[ws] = NoIp
         /\ \A other \in Sockets \ {ws} : ipCounted'[other] = ipCounted[other]
<1>1. CASE ipCounted[ws] = NoIp
  BY <1>1 DEF ReleaseIp, SlotsExact, CountedFor
<1>2. CASE ipCounted[ws] # NoIp
  <2>1. PICK ip \in Ips : ip = ipCounted[ws]
    BY <1>2 DEF TypeOK
  <2>2. /\ ipCounted' = [ipCounted EXCEPT ![ws] = NoIp]
        /\ ipConns' = [ipConns EXCEPT ![ip] = IF @ <= 1 THEN 0 ELSE @ - 1]
    BY <1>2, <2>1 DEF ReleaseIp
  <2>3. IsFiniteSet(CountedFor(ip))
    BY RelayAssumption, FS_Subset DEF CountedFor
  <2>4. CountedFor(ip)' = CountedFor(ip) \ {ws}
    BY <2>1, <2>2, RelayAssumption DEF CountedFor, TypeOK
  <2>5. ws \in CountedFor(ip)
    BY <2>1 DEF CountedFor
  <2>6. Cardinality(CountedFor(ip)') = Cardinality(CountedFor(ip)) - 1
    BY <2>3, <2>4, <2>5, FS_RemoveElement
  <2>7. Cardinality(CountedFor(ip)) = ipConns[ip] /\ ipConns[ip] \in Nat
    BY <2>1 DEF SlotsExact, TypeOK
  <2>8. Cardinality(CountedFor(ip)) # 0
    BY <2>3, <2>5, FS_EmptySet
  <2>9. ipConns'[ip] = Cardinality(CountedFor(ip)')
    BY <2>1, <2>2, <2>6, <2>7, <2>8 DEF TypeOK
  <2>10. ASSUME NEW i \in Ips, i # ip PROVE ipConns'[i] = Cardinality(CountedFor(i)')
    <3>1. CountedFor(i)' = CountedFor(i)
      BY <2>1, <2>2, <2>10, RelayAssumption DEF CountedFor, TypeOK
    <3> QED BY <2>2, <2>10, <3>1 DEF SlotsExact, TypeOK
  <2> QED BY <2>1, <2>2, <2>9, <2>10 DEF TypeOK
<1> QED BY <1>1, <1>2

(* Accepting a socket that held no slot adds it to the address's set. *)
LEMMA AcceptKeepsCounts ==
  ASSUME TypeOK, SlotsExact, NEW ws \in Sockets, NEW ip \in Ips, Accept(ws, ip)
  PROVE  SlotsExact'
<1>1. ipCounted[ws] = NoIp /\ phase[ws] = "absent"
  BY DEF Accept, Unused, SlotsExact
<1>2. IsFiniteSet(CountedFor(ip))
  BY RelayAssumption, FS_Subset DEF CountedFor
<1>3. CountedFor(ip)' = CountedFor(ip) \cup {ws}
  BY DEF CountedFor, Accept, TypeOK
<1>4. ws \notin CountedFor(ip)
  BY <1>1, RelayAssumption DEF CountedFor
<1>5. Cardinality(CountedFor(ip)') = Cardinality(CountedFor(ip)) + 1
  BY <1>2, <1>3, <1>4, FS_AddElement
<1>6. ipConns'[ip] = Cardinality(CountedFor(ip)')
  BY <1>5 DEF Accept, SlotsExact, TypeOK
<1>7. ASSUME NEW i \in Ips, i # ip PROVE ipConns'[i] = Cardinality(CountedFor(i)')
  <2>1. CountedFor(i)' = CountedFor(i)
    BY <1>1, <1>7, RelayAssumption DEF CountedFor, Accept, TypeOK
  <2> QED BY <1>7, <2>1 DEF Accept, SlotsExact, TypeOK
<1> QED BY <1>6, <1>7 DEF SlotsExact, Accept, TypeOK

LEMMA SlotsStep == TypeOK /\ SlotsExact /\ [Next]_vars => SlotsExact'
<1> SUFFICES ASSUME TypeOK, SlotsExact, [Next]_vars PROVE SlotsExact'
  OBVIOUS
<1>1. ASSUME NEW ws \in Sockets, NEW ip \in Ips, Accept(ws, ip) PROVE SlotsExact'
  BY <1>1, AcceptKeepsCounts
<1>2. ASSUME NEW ws \in Sockets, NEW ip \in Ips, Refuse(ws, ip) PROVE SlotsExact'
  BY <1>2, SlotsUntouched DEF Refuse, Unused, SlotsExact, TypeOK
<1>3. ASSUME NEW ws \in Sockets,
             \/ OverBudget(ws) \/ Ignored(ws) \/ Pong(ws) \/ Vanish(ws)
             \/ \E id \in Ids : Register(ws, id) \/ Unavailable(ws, id) \/ Forward(ws, id)
      PROVE  SlotsExact'
  BY <1>3 DEF OverBudget, Ignored, Pong, Vanish, Register, Unavailable, Forward,
              Receive, SlotsExact, CountedFor
<1>4. ASSUME NEW ws \in Sockets, OnError(ws) PROVE SlotsExact'
  <2>1. phase' = [phase EXCEPT ![ws] = "closing"] /\ ReleaseIp(ws)
    BY <1>4 DEF OnError
  <2> QED BY <2>1, ReleaseKeepsCounts DEF SlotsExact, TypeOK
<1>5. ASSUME NEW ws \in Sockets, OnClose(ws) PROVE SlotsExact'
  <2>1. phase' = [phase EXCEPT ![ws] = "absent"] /\ ReleaseIp(ws)
    BY <1>5 DEF OnClose, Discard
  <2> QED BY <2>1, ReleaseKeepsCounts DEF SlotsExact, TypeOK
<1>6. ASSUME NEW ws \in Sockets, RefusedClose(ws) PROVE SlotsExact'
  BY <1>6, SlotsUntouched DEF RefusedClose, Discard, SlotsExact, TypeOK
<1>7. ASSUME NEW ws \in Sockets, PeerCloses(ws) PROVE SlotsExact'
  BY <1>7, SlotsUntouched DEF PeerCloses, SlotsExact, TypeOK
<1>8. ASSUME Sweep PROVE SlotsExact'
  BY <1>8, SlotsUntouched DEF Sweep, SlotsExact, TypeOK
<1>9. ASSUME Tick \/ UNCHANGED vars PROVE SlotsExact'
  BY <1>9, SlotsUntouched DEF Tick, vars, SlotsExact
<1> QED
  BY <1>1, <1>2, <1>3, <1>4, <1>5, <1>6, <1>7, <1>8, <1>9 DEF Next, Handlers

LEMMA SlotsInit == Init => SlotsExact
<1> SUFFICES ASSUME Init PROVE SlotsExact
  OBVIOUS
<1>1. \A ip \in Ips : CountedFor(ip) = {}
  BY RelayAssumption DEF Init, CountedFor
<1> QED BY <1>1, FS_EmptySet DEF Init, SlotsExact

(* However close and error events overlap, the count kept for an address is   *)
(* the number of its sockets that hold a slot: none is released twice, none   *)
(* leaks.                                                                     *)
THEOREM SlotsAreExact == Spec => []SlotsExact
<1>1. Init => TypeOK /\ SlotsExact
  BY TypeInit, SlotsInit
<1>2. (TypeOK /\ SlotsExact) /\ [Next]_vars => (TypeOK /\ SlotsExact)'
  BY TypeStep, SlotsStep
<1> QED BY <1>1, <1>2, PTL DEF Spec

------------------------------------------------------------------------------
(* Routing, when every client registers one id per socket *)

(* A socket that does not exist, or was refused, has no id. *)
NoIdUntilOpen ==
  \A ws \in Sockets : phase[ws] \in {"absent", "refused"} => anonId[ws] = NoId

(* The inductive invariant: a route names a live socket with that id; a frame *)
(* in an inbox was addressed to the id of its socket.  NoIdUntilOpen is what  *)
(* makes a socket without an id one that got no frame.                        *)
RouteInv == NoIdUntilOpen /\ RoutesSound /\ OnlyOwnFrames

LEMMA RouteInit == Init => RouteInv
BY RelayAssumption
   DEF Init, RouteInv, NoIdUntilOpen, RoutesSound, OnlyOwnFrames, Phases

LEMMA RouteStep ==
  ASSUME ~MayRename, TypeOK, RouteInv, [Next]_vars
  PROVE  RouteInv'
<1> USE DEF RouteInv, NoIdUntilOpen, RoutesSound, OnlyOwnFrames
<1>1. ASSUME NEW ws \in Sockets, NEW ip \in Ips, Accept(ws, ip) PROVE RouteInv'
  BY <1>1 DEF Accept, Unused, TypeOK
<1>2. ASSUME NEW ws \in Sockets, NEW ip \in Ips, Refuse(ws, ip) PROVE RouteInv'
  BY <1>2 DEF Refuse, Unused, TypeOK
<1>3. ASSUME NEW ws \in Sockets,
             \/ OverBudget(ws) \/ Ignored(ws) \/ Pong(ws) \/ Vanish(ws)
             \/ \E id \in Ids : Unavailable(ws, id)
      PROVE  RouteInv'
  BY <1>3 DEF OverBudget, Ignored, Pong, Vanish, Unavailable, Receive
<1>4. ASSUME NEW ws \in Sockets, NEW id \in Ids, Register(ws, id) PROVE RouteInv'
  <2>1. /\ phase[ws] = "open"
        /\ anonId[ws] \in {NoId, id}
        /\ anonId' = [anonId EXCEPT ![ws] = id]
        /\ peers' = [peers EXCEPT ![id] = ws]
        /\ UNCHANGED <<phase, inbox>>
    BY <1>4 DEF Register, Receive
  <2>2. NoIdUntilOpen'
    BY <2>1 DEF TypeOK
  <2>3. RoutesSound'
    BY <2>1, RelayAssumption DEF TypeOK
  <2>4. OnlyOwnFrames'
    BY <2>1, RelayAssumption DEF TypeOK
  <2> QED BY <2>2, <2>3, <2>4
<1>5. ASSUME NEW ws \in Sockets, NEW to \in Ids, Forward(ws, to) PROVE RouteInv'
  <2>1. peers[to] \in Sockets /\ anonId[peers[to]] = to
    BY <1>5 DEF Forward, TypeOK
  <2>2. OnlyOwnFrames'
    BY <1>5, <2>1 DEF Forward, TypeOK
  <2> QED BY <1>5, <2>2 DEF Forward, Receive
<1>6. ASSUME NEW ws \in Sockets, OnError(ws) PROVE RouteInv'
  BY <1>6 DEF OnError, TypeOK
<1>7. ASSUME NEW ws \in Sockets, OnClose(ws) PROVE RouteInv'
  <2>1. NoIdUntilOpen'
    BY <1>7 DEF OnClose, Discard, TypeOK
  <2>2. RoutesSound'
    BY <1>7 DEF OnClose, Discard, TypeOK
  <2>3. OnlyOwnFrames'
    BY <1>7 DEF OnClose, Discard, TypeOK
  <2> QED BY <2>1, <2>2, <2>3
<1>8. ASSUME NEW ws \in Sockets, RefusedClose(ws) PROVE RouteInv'
  BY <1>8 DEF RefusedClose, Discard, TypeOK
<1>9. ASSUME NEW ws \in Sockets, PeerCloses(ws) PROVE RouteInv'
  BY <1>9 DEF PeerCloses, TypeOK
<1>10. ASSUME Sweep PROVE RouteInv'
  BY <1>10 DEF Sweep, TypeOK
<1>11. ASSUME Tick \/ UNCHANGED vars PROVE RouteInv'
  BY <1>11 DEF Tick, vars
<1> QED
  BY <1>1, <1>2, <1>3, <1>4, <1>5, <1>6, <1>7, <1>8, <1>9, <1>10, <1>11
     DEF Next, Handlers

LEMMA RouteInvariant == ASSUME ~MayRename PROVE Spec => [](TypeOK /\ RouteInv)
<1>1. Init => TypeOK /\ RouteInv
  BY TypeInit, RouteInit
<1>2. (TypeOK /\ RouteInv) /\ [Next]_vars => (TypeOK /\ RouteInv)'
  BY TypeStep, RouteStep
<1> QED BY <1>1, <1>2, PTL DEF Spec

(* As long as no client registers two ids on one socket, no entry of the peer *)
(* map outlives its socket or names a socket of another id.                   *)
THEOREM RoutesAreSound == ASSUME ~MayRename PROVE Spec => []RoutesSound
<1>1. RouteInv => RoutesSound
  BY DEF RouteInv
<1> QED BY <1>1, RouteInvariant, PTL

(* Under the same condition no client gets a frame addressed to another id,   *)
(* in whatever order sockets take an id over, fail and close.                 *)
THEOREM FramesReachTheirAddressee == ASSUME ~MayRename PROVE Spec => []OnlyOwnFrames
<1>1. RouteInv => OnlyOwnFrames
  BY DEF RouteInv
<1> QED BY <1>1, RouteInvariant, PTL

(* A route is only ever lost to the close of the socket it names. *)
THEOREM TakeoverSurvives == Spec => RouteLostOnlyToOwnClose
<1> DEFINE Lost == \A id \in Ids :
              peers[id] # NoSocket /\ peers'[id] = NoSocket
              => phase[peers[id]] = "closing" /\ phase'[peers[id]] = "absent"
<1>1. ASSUME TypeOK, [Next]_vars PROVE Lost
  <2>1. CASE UNCHANGED peers
    BY <2>1
  <2>2. ASSUME NEW ws \in Sockets, NEW id \in Ids, Register(ws, id) PROVE Lost
    BY <1>1, <2>2, RelayAssumption DEF Register, TypeOK
  <2>3. ASSUME NEW ws \in Sockets, OnClose(ws) PROVE Lost
    <3>1. phase[ws] = "closing" /\ phase'[ws] = "absent"
      BY <1>1, <2>3 DEF OnClose, Discard, TypeOK
    <3>2. \A id \in Ids : peers[id] # NoSocket /\ peers'[id] = NoSocket => peers[id] = ws
      BY <2>3 DEF OnClose
    <3> QED BY <3>1, <3>2
  <2>4. \/ UNCHANGED peers
        \/ \E ws \in Sockets, id \in Ids : Register(ws, id)
        \/ \E ws \in Sockets : OnClose(ws)
    BY <1>1 DEF Next, Handlers, vars, Accept, Refuse, OverBudget, Ignored, Unavailable,
       Forward, Pong, OnError, RefusedClose, PeerCloses, Vanish, Sweep, Tick
  <2> QED BY <2>1, <2>2, <2>3, <2>4
<1>2. TypeOK /\ [Next]_vars => [Lost]_vars
  BY <1>1
<1> QED BY <1>2, TypeCorrect, PTL DEF Spec, RouteLostOnlyToOwnClose

------------------------------------------------------------------------------
(* The relay implements the directory *)

LEMMA DirectoryStep ==
  ASSUME ~MayRename, TypeOK, RouteInv, [Next]_vars
  PROVE  [Directory!Next]_(Directory!vars)
<1> USE DEF Directory!vars
<1>1. CASE UNCHANGED <<peers, inbox>>
  BY <1>1
<1>2. ASSUME NEW ws \in Sockets, NEW id \in Ids, Register(ws, id)
      PROVE  Directory!Announce(ws, id)
  <2>1. \A other \in Ids \ {id} : peers[other] # ws
    BY <1>2, RelayAssumption DEF Register, RouteInv, RoutesSound
  <2> QED BY <1>2, <2>1 DEF Register, Directory!Announce
<1>3. ASSUME NEW ws \in Sockets, NEW to \in Ids, Forward(ws, to)
      PROVE  Directory!Deliver(to) \/ UNCHANGED <<peers, inbox>>
  BY <1>3 DEF Forward, Directory!Deliver
<1>4. ASSUME NEW ws \in Sockets, OnClose(ws) PROVE Directory!Depart(ws)
  <2>1. \A id \in Ids : peers[id] = ws => anonId[ws] = id
    BY RelayAssumption DEF RouteInv, RoutesSound
  <2>2. peers' = [id \in Ids |-> IF peers[id] = ws THEN NoSocket ELSE peers[id]]
    BY <1>4, <2>1 DEF OnClose
  <2> QED BY <1>4, <2>2 DEF OnClose, Discard, Directory!Depart
<1>5. ASSUME NEW ws \in Sockets, RefusedClose(ws) PROVE Directory!Depart(ws)
  <2>1. \A id \in Ids : peers[id] # ws
    BY <1>5, RelayAssumption DEF RefusedClose, RouteInv, RoutesSound
  <2>2. peers' = [id \in Ids |-> IF peers[id] = ws THEN NoSocket ELSE peers[id]]
    BY <1>5, <2>1 DEF RefusedClose, TypeOK
  <2> QED BY <1>5, <2>2 DEF RefusedClose, Discard, Directory!Depart
<1>6. \/ UNCHANGED <<peers, inbox>>
      \/ \E ws \in Sockets, id \in Ids : Register(ws, id) \/ Forward(ws, id)
      \/ \E ws \in Sockets : OnClose(ws) \/ RefusedClose(ws)
  BY DEF Next, Handlers, vars, Accept, Refuse, OverBudget, Ignored, Unavailable,
     Pong, OnError, PeerCloses, Vanish, Sweep, Tick
<1> QED BY <1>1, <1>2, <1>3, <1>4, <1>5, <1>6 DEF Directory!Next

(* With connections, budgets, errors and sweeps, the relay is still the       *)
(* directory of Presence: the last registration wins, frames reach the holder,*)
(* and a socket that is gone has left no id behind.                           *)
THEOREM RelayImplementsDirectory ==
  ASSUME ~MayRename PROVE Spec => ImplementsDirectory
<1>1. Init => Directory!Init
  BY DEF Init, Directory!Init
<1>2. (TypeOK /\ RouteInv) /\ [Next]_vars => [Directory!Next]_(Directory!vars)
  BY DirectoryStep
<1> QED BY <1>1, <1>2, RouteInvariant, PTL DEF Spec, ImplementsDirectory, Directory!Spec

------------------------------------------------------------------------------
(* The budget of a connection over a sliding interval *)

\* The frames of F that the window of now has counted, and those of windows before.
Counted(F) == {f \in F : f[1] <= budget.age}
Before(F) == {f \in F : f[1] > budget.age}

\* A window has let through no more than it counted, nor more than the budget, and
\* so did the one before; what an unexpired window counted is recent.
BurstInv ==
  /\ BurstTypeOK
  /\ budget.age = RateLimitWindow => \A f \in passed \cup dropped : f[1] # 0
  /\ Cardinality(Counted(passed)) <= budget.count
  /\ Cardinality(Counted(passed)) <= RateLimitMax
  /\ Cardinality(Before(passed)) <= RateLimitMax
  /\ budget.age < RateLimitWindow => budget.count <= Cardinality(Counted(passed \cup dropped))

\* What the fields of the budget range over.
LEMMA BudgetFacts ==
  ASSUME BurstTypeOK
  PROVE  /\ budget.age \in 0..RateLimitWindow /\ budget.count \in 0..(RateLimitMax + 1)
         /\ RateLimitMax \in Nat /\ RateLimitMax > 0 /\ RateLimitWindow \in Nat /\ RateLimitWindow > 0
BY RateAssumption DEF RateAssumption, BurstTypeOK, RateStates

\* Recent frames can be counted, and more of them count for more.
LEMMA FrameNumbers ==
  ASSUME NEW F \in SUBSET Recent
  PROVE  /\ IsFiniteSet(F) /\ Cardinality(F) \in Nat
         /\ \A G \in SUBSET F : Cardinality(G) <= Cardinality(F)
         /\ \A f \in Recent \ F : Cardinality(F \cup {f}) = Cardinality(F) + 1
         /\ \A f \in Recent : Cardinality(F \cup {f}) <= Cardinality(F) + 1
<1>1. IsFiniteSet(Recent)
  <2>1. IsFiniteSet(0..(RateLimitWindow - 1)) /\ IsFiniteSet(1..MaxPerTick)
    BY FS_Interval, RateAssumption, BurstAssumption DEF RateAssumption, BurstAssumption
  <2> QED
    BY <2>1, FS_Product DEF Recent
<1>2. IsFiniteSet(F) /\ Cardinality(F) \in Nat
  BY <1>1, FS_Subset, FS_CardinalityType
<1>3. \A G \in SUBSET F : Cardinality(G) <= Cardinality(F)
  BY <1>2, FS_Subset
<1>4. \A f \in Recent \ F : Cardinality(F \cup {f}) = Cardinality(F) + 1
  BY <1>2, FS_AddElement
<1>5. \A f \in Recent : Cardinality(F \cup {f}) <= Cardinality(F) + 1
  BY <1>2, FS_AddElement
<1> QED
  BY <1>2, <1>3, <1>4, <1>5

\* Frames that age are no more than they were, and as many while none is too old.
LEMMA AgedNumbers ==
  ASSUME NEW F \in SUBSET Recent
  PROVE  /\ Aged(F) \in SUBSET Recent /\ \A f \in Aged(F) : f[1] # 0
         /\ Cardinality(Aged(F)) <= Cardinality(F)
         /\ (\A f \in F : f[1] + 1 < RateLimitWindow) => Cardinality(F) <= Cardinality(Aged(F))
<1>0. /\ RateLimitWindow \in Nat
      /\ \A f \in F : f[1] \in Nat /\ f[1] \in Int /\ f[2] \in 1..MaxPerTick /\ f = <<f[1], f[2]>>
  BY RateAssumption DEF RateAssumption, Recent
<1>1. ASSUME NEW a \in Aged(F)
      PROVE  /\ a[1] \in Int /\ a[1] > 0 /\ a[1] <= RateLimitWindow - 1
             /\ a \in Recent
             /\ <<a[1] - 1, a[2]>> \in F
  <2>1. PICK f \in F : f[1] + 1 < RateLimitWindow /\ a = <<f[1] + 1, f[2]>>
    BY <1>1 DEF Aged
  <2>2. a[1] = f[1] + 1 /\ a[2] = f[2] /\ f[1] \in Nat /\ f[2] \in 1..MaxPerTick /\ f = <<f[1], f[2]>>
    BY <1>0, <2>1
  <2>3. a[1] \in Int /\ a[1] > 0 /\ a[1] <= RateLimitWindow - 1 /\ a[1] - 1 = f[1]
    BY <1>0, <2>1, <2>2
  <2>4. f[1] + 1 \in 0..(RateLimitWindow - 1)
    BY <1>0, <2>1, <2>2
  <2>5. a \in Recent
    BY <2>1, <2>2, <2>4 DEF Recent
  <2> QED
    BY <2>2, <2>3, <2>5
<1>2. Aged(F) \in SUBSET Recent /\ \A f \in Aged(F) : f[1] # 0
  <2>1. ASSUME NEW a \in Aged(F) PROVE a \in Recent /\ a[1] # 0
    <3>1. a \in Recent /\ a[1] \in Int /\ a[1] > 0
      BY <1>1
    <3> QED
      BY <3>1
  <2> QED
    BY <2>1
<1>3. IsFiniteSet(F) /\ IsFiniteSet(Aged(F))
  BY <1>2, FrameNumbers
<1>4. Cardinality(Aged(F)) <= Cardinality(F)
  <2> DEFINE g == [a \in Aged(F) |-> <<a[1] - 1, a[2]>>]
  <2>1. g \in [Aged(F) -> F]
    BY <1>1
  <2>2. ASSUME NEW a \in Aged(F), NEW b \in Aged(F), g[a] = g[b] PROVE a = b
    <3>1. a[1] - 1 = b[1] - 1 /\ a[2] = b[2]
      BY <2>2
    <3>2. a[1] \in Int /\ b[1] \in Int /\ a \in Recent /\ b \in Recent
      BY <1>1
    <3>3. a[1] = b[1]
      BY <3>1, <3>2
    <3> QED
      BY <3>1, <3>2, <3>3 DEF Recent
  <2>3. g \in Injection(Aged(F), F)
    BY <2>1, <2>2 DEF Injection, IsInjective
  <2> QED
    BY <1>3, <2>3, FS_Injection
<1>5. ASSUME \A f \in F : f[1] + 1 < RateLimitWindow PROVE Cardinality(F) <= Cardinality(Aged(F))
  <2> DEFINE g == [f \in F |-> <<f[1] + 1, f[2]>>]
  <2>1. g \in [F -> Aged(F)]
    BY <1>5 DEF Aged
  <2>2. ASSUME NEW a \in F, NEW b \in F, g[a] = g[b] PROVE a = b
    <3>1. a[1] + 1 = b[1] + 1 /\ a[2] = b[2]
      BY <2>2
    <3> QED
      BY <1>0, <3>1
  <2>3. g \in Injection(F, Aged(F))
    BY <2>1, <2>2 DEF Injection, IsInjective
  <2> QED
    BY <1>3, <2>3, FS_Injection
<1> QED
  BY <1>2, <1>4, <1>5

\* A frame that arrives is new and of this tick.
LEMMA NewFrame ==
  ASSUME BurstTypeOK, Unsent # {}
  PROVE  /\ NextFrame \in Recent /\ NextFrame \notin passed \cup dropped /\ NextFrame[1] = 0
<1>1. PICK n \in Unsent : NextFrame = <<0, n>>
  BY DEF NextFrame
<1>2. n \in 1..MaxPerTick /\ <<0, n>> \notin passed \cup dropped
  BY <1>1 DEF Unsent
<1>3. 0 \in 0..(RateLimitWindow - 1)
  BY BudgetFacts
<1> QED
  BY <1>1, <1>2, <1>3 DEF Recent

\* The three things rateLimitOk can do: count, open a window, refuse.
LEMMA FrameKinds ==
  ASSUME BurstTypeOK, Frame
  PROVE  LET f == NextFrame IN
         \/ /\ budget.age < RateLimitWindow /\ budget.count < RateLimitMax
            /\ budget' = [age |-> budget.age, count |-> budget.count + 1, notified |-> FALSE]
            /\ passed' = passed \cup {f} /\ dropped' = dropped
         \/ /\ budget.age = RateLimitWindow
            /\ budget' = [age |-> 0, count |-> 1, notified |-> FALSE]
            /\ passed' = passed \cup {f} /\ dropped' = dropped
         \/ /\ budget.age < RateLimitWindow /\ budget.count >= RateLimitMax
            /\ budget' = [age |-> budget.age, count |-> RateLimitMax + 1, notified |-> TRUE]
            /\ passed' = passed /\ dropped' = dropped \cup {f}
<1>0. /\ budget.notified \in BOOLEAN /\ (budget.notified <=> budget.count > RateLimitMax)
      /\ budget = [age |-> budget.age, count |-> budget.count, notified |-> budget.notified]
      /\ budget.age \in 0..RateLimitWindow /\ budget.count \in 0..(RateLimitMax + 1)
      /\ RateLimitMax \in Nat /\ RateLimitMax > 0 /\ RateLimitWindow \in Nat
  BY BudgetFacts DEF BurstTypeOK, RateStates
<1>1. /\ budget' = CountFrame(budget)
      /\ RateLimitOk(budget) => passed' = passed \cup {NextFrame} /\ dropped' = dropped
      /\ ~RateLimitOk(budget) => passed' = passed /\ dropped' = dropped \cup {NextFrame}
  BY DEF Frame
<1>2. CASE budget.age >= RateLimitWindow
  <2>1. Roll(budget) = [age |-> 0, count |-> 0, notified |-> FALSE]
    BY <1>2 DEF Roll, FreshWindow
  <2>2. RateLimitOk(budget)
    BY <1>0, <2>1 DEF RateLimitOk
  <2>3. CountFrame(budget) = [age |-> 0, count |-> 1, notified |-> FALSE]
    <3>1. (IF 0 > RateLimitMax THEN 0 ELSE 0 + 1) = 1
      BY <1>0
    <3>2. Roll(budget).age = 0 /\ Roll(budget).count = 0 /\ Roll(budget).notified = FALSE
      BY <2>1
    <3>3. (Roll(budget).notified \/ Warns(budget)) = FALSE
      BY <2>2, <3>2 DEF Warns
    <3> QED
      BY <3>1, <3>2, <3>3 DEF CountFrame
  <2> QED
    BY <1>0, <1>1, <1>2, <2>2, <2>3
<1>3. CASE budget.age < RateLimitWindow /\ budget.count < RateLimitMax
  <2>1. Roll(budget) = budget /\ ~budget.notified
    BY <1>0, <1>3 DEF Roll
  <2>2. RateLimitOk(budget)
    BY <1>0, <1>3, <2>1 DEF RateLimitOk
  <2>3. CountFrame(budget) = [age |-> budget.age, count |-> budget.count + 1, notified |-> FALSE]
    BY <1>0, <1>3, <2>1, <2>2 DEF CountFrame, Warns
  <2> QED
    BY <1>1, <1>3, <2>2, <2>3
<1>4. CASE budget.age < RateLimitWindow /\ budget.count >= RateLimitMax
  <2>1. Roll(budget) = budget
    BY <1>0, <1>4 DEF Roll
  <2>2. ~RateLimitOk(budget)
    BY <1>0, <1>4, <2>1 DEF RateLimitOk
  <2>3. CountFrame(budget) = [age |-> budget.age, count |-> RateLimitMax + 1, notified |-> TRUE]
    <3>1. (IF budget.count > RateLimitMax THEN budget.count ELSE budget.count + 1) = RateLimitMax + 1
      BY <1>0, <1>4
    <3>2. (budget.notified \/ (~RateLimitOk(budget) /\ ~budget.notified)) = TRUE
      BY <1>0, <2>2
    <3> QED
      BY <2>1, <3>1, <3>2 DEF CountFrame, Warns
  <2> QED
    BY <1>1, <1>4, <2>2, <2>3
<1> QED
  BY <1>0, <1>2, <1>3, <1>4

\* A connection starts with an empty window and no frames.
LEMMA InitBurstInv == BurstInit => BurstInv
<1> SUFFICES ASSUME BurstInit PROVE BurstInv
  OBVIOUS
<1>1. /\ passed = {} /\ dropped = {} /\ passed \cup dropped = {}
      /\ budget = [age |-> 0, count |-> 0, notified |-> FALSE]
      /\ budget.age = 0 /\ budget.count = 0 /\ budget.notified = FALSE
  BY DEF BurstInit, FreshWindow
<1>2. RateLimitMax \in Nat /\ RateLimitMax > 0 /\ RateLimitWindow \in Nat /\ RateLimitWindow > 0
  BY RateAssumption DEF RateAssumption
<1>3. BurstTypeOK
  <2>1. budget \in RateStates
    BY <1>1, <1>2 DEF RateStates
  <2> QED
    BY <1>1, <1>2, <2>1 DEF BurstTypeOK
<1>4. Cardinality({}) = 0
  BY FS_EmptySet
<1>5. Counted({}) = {} /\ Before({}) = {}
  BY DEF Counted, Before
<1>6. Cardinality(Counted(passed)) = 0 /\ Cardinality(Before(passed)) = 0
  BY <1>1, <1>4, <1>5
<1>7. Cardinality(Counted(passed \cup dropped)) = 0
  BY <1>1, <1>4, <1>5
<1> QED
  BY <1>1, <1>2, <1>3, <1>6, <1>7 DEF BurstInv

\* What a window counted, or the one before it, is recent.
LEMMA CountedIsRecent ==
  ASSUME BurstTypeOK
  PROVE  /\ passed \in SUBSET Recent /\ dropped \in SUBSET Recent /\ passed \cup dropped \in SUBSET Recent
         /\ \A F \in SUBSET Recent : Counted(F) \in SUBSET F /\ Before(F) \in SUBSET F
         /\ \A f \in Recent : f[1] \in Nat /\ f[1] < RateLimitWindow
BY RateAssumption DEF BurstTypeOK, Counted, Before, Recent, RateAssumption

\* A frame that is counted, opens a window or is refused keeps the invariant.
LEMMA FrameKeeps ==
  ASSUME BurstInv, Frame
  PROVE  BurstInv'
<1> DEFINE f == NextFrame
           P == passed
           D == dropped
<1>0. /\ BurstTypeOK
      /\ Cardinality(Counted(P)) <= budget.count /\ Cardinality(Counted(P)) <= RateLimitMax
      /\ Cardinality(Before(P)) <= RateLimitMax
      /\ budget.age < RateLimitWindow => budget.count <= Cardinality(Counted(P \cup D))
      /\ budget.age = RateLimitWindow => \A g \in P \cup D : g[1] # 0
  BY DEF BurstInv
<1>1. /\ budget.age \in 0..RateLimitWindow /\ budget.count \in 0..(RateLimitMax + 1)
      /\ RateLimitMax \in Nat /\ RateLimitMax > 0 /\ RateLimitWindow \in Nat /\ RateLimitWindow > 0
  BY <1>0, BudgetFacts
<1>2. f \in Recent /\ f \notin P \cup D /\ f[1] = 0
  BY <1>0, NewFrame DEF Frame
<1>3. /\ P \in SUBSET Recent /\ D \in SUBSET Recent /\ P \cup D \in SUBSET Recent /\ P \cap D = {}
      /\ \A F \in SUBSET Recent : Counted(F) \in SUBSET F /\ Before(F) \in SUBSET F
      /\ \A g \in Recent : g[1] \in Nat /\ g[1] < RateLimitWindow
  BY <1>0, CountedIsRecent DEF BurstTypeOK
<1>4. \A F \in SUBSET Recent : /\ IsFiniteSet(F) /\ Cardinality(F) \in Nat
                               /\ \A G \in SUBSET F : Cardinality(G) <= Cardinality(F)
                               /\ f \notin F => Cardinality(F \cup {f}) = Cardinality(F) + 1
  BY <1>2, FrameNumbers
<1> DEFINE c == Cardinality(Counted(P))
           a == Cardinality(Counted(P \cup D))
           b == Cardinality(Before(P))
<1>5. c \in Nat /\ a \in Nat /\ b \in Nat
  BY <1>3, <1>4
<1>6. f \notin Counted(P) /\ f \notin Counted(P \cup D)
      /\ Counted(P) \in SUBSET Recent /\ Counted(P \cup D) \in SUBSET Recent
  BY <1>2, <1>3
<1>7. Cardinality(Counted(P) \cup {f}) = c + 1 /\ Cardinality(Counted(P \cup D) \cup {f}) = a + 1
  BY <1>4, <1>6
<1>8. Cardinality({f}) = 1
  BY FS_Singleton
<1>9. \/ /\ budget.age < RateLimitWindow /\ budget.count < RateLimitMax
         /\ budget' = [age |-> budget.age, count |-> budget.count + 1, notified |-> FALSE]
         /\ passed' = P \cup {f} /\ dropped' = D
      \/ /\ budget.age = RateLimitWindow
         /\ budget' = [age |-> 0, count |-> 1, notified |-> FALSE]
         /\ passed' = P \cup {f} /\ dropped' = D
      \/ /\ budget.age < RateLimitWindow /\ budget.count >= RateLimitMax
         /\ budget' = [age |-> budget.age, count |-> RateLimitMax + 1, notified |-> TRUE]
         /\ passed' = P /\ dropped' = D \cup {f}
  BY <1>0, FrameKinds
<1>10. ASSUME NEW g \in 0..RateLimitWindow, NEW n \in 1..(RateLimitMax + 1), NEW x \in BOOLEAN,
              x <=> n > RateLimitMax, budget' = [age |-> g, count |-> n, notified |-> x],
              passed' \cup dropped' = P \cup D \cup {f}, passed' \cap dropped' = {}
       PROVE  BurstTypeOK' /\ budget'.age = g /\ budget'.count = n
  <2>1. budget'.age = g /\ budget'.count = n /\ budget'.notified = x /\ n \in 0..(RateLimitMax + 1)
    BY <1>1, <1>10
  <2>2. budget' \in RateStates
    BY <1>10, <2>1 DEF RateStates
  <2>3. passed' \subseteq Recent /\ dropped' \subseteq Recent
    BY <1>2, <1>3, <1>10
  <2> QED
    BY <1>10, <2>1, <2>2, <2>3 DEF BurstTypeOK
<1>11. ASSUME budget.age < RateLimitWindow, budget.count < RateLimitMax,
              budget' = [age |-> budget.age, count |-> budget.count + 1, notified |-> FALSE],
              passed' = P \cup {f}, dropped' = D
       PROVE  BurstInv'
  <2>1. BurstTypeOK' /\ budget'.age = budget.age /\ budget'.count = budget.count + 1
    <3>1. budget.count + 1 \in 1..(RateLimitMax + 1) /\ (FALSE <=> budget.count + 1 > RateLimitMax)
      BY <1>1, <1>11
    <3>2. passed' \cup dropped' = P \cup D \cup {f} /\ passed' \cap dropped' = {}
      BY <1>2, <1>3, <1>11
    <3> QED
      BY <1>1, <1>10, <1>11, <3>1, <3>2
  <2>2. /\ Counted(passed)' = Counted(P) \cup {f} /\ Before(passed)' = Before(P)
        /\ Counted(passed \cup dropped)' = Counted(P \cup D) \cup {f}
    BY <1>1, <1>2, <1>11, <2>1 DEF Counted, Before
  <2>3. /\ Cardinality(Counted(passed))' = c + 1 /\ Cardinality(Before(passed))' = b
        /\ Cardinality(Counted(passed \cup dropped))' = a + 1
    BY <1>7, <2>2
  <2>4. c <= budget.count /\ b <= RateLimitMax /\ budget.count <= a
    BY <1>0, <1>11
  <2> HIDE DEF a, b, c
  <2>5. /\ c + 1 <= budget.count + 1 /\ c + 1 <= RateLimitMax /\ b <= RateLimitMax
        /\ budget.count + 1 <= a + 1 /\ budget'.age # RateLimitWindow
    BY <1>1, <1>5, <1>11, <2>1, <2>4
  <2> QED
    BY <2>1, <2>3, <2>5 DEF BurstInv
<1>12. ASSUME budget.age = RateLimitWindow, budget' = [age |-> 0, count |-> 1, notified |-> FALSE],
              passed' = P \cup {f}, dropped' = D
       PROVE  BurstInv'
  <2>1. BurstTypeOK' /\ budget'.age = 0 /\ budget'.count = 1
    <3>1. 1 \in 1..(RateLimitMax + 1) /\ (FALSE <=> 1 > RateLimitMax) /\ 0 \in 0..RateLimitWindow
      BY <1>1
    <3>2. passed' \cup dropped' = P \cup D \cup {f} /\ passed' \cap dropped' = {}
      BY <1>2, <1>3, <1>12
    <3> QED
      BY <1>10, <1>12, <3>1, <3>2
  <2>2. \A g \in P \cup D : g[1] \in Nat /\ g[1] # 0 /\ g[1] <= budget.age
    BY <1>0, <1>1, <1>3, <1>12
  <2>3. Counted(passed)' = {f} /\ Counted(passed \cup dropped)' = {f} /\ Before(passed)' = Counted(P)
    BY <1>2, <1>12, <2>1, <2>2 DEF Counted, Before
  <2>4. /\ Cardinality(Counted(passed))' = 1 /\ Cardinality(Before(passed))' = c
        /\ Cardinality(Counted(passed \cup dropped))' = 1
    BY <1>8, <2>3
  <2>5. c <= RateLimitMax /\ 1 <= RateLimitMax /\ budget'.age # RateLimitWindow
    BY <1>0, <1>1, <2>1
  <2> HIDE DEF c
  <2> QED
    BY <2>1, <2>4, <2>5 DEF BurstInv
<1>13. ASSUME budget.age < RateLimitWindow, budget.count >= RateLimitMax,
              budget' = [age |-> budget.age, count |-> RateLimitMax + 1, notified |-> TRUE],
              passed' = P, dropped' = D \cup {f}
       PROVE  BurstInv'
  <2>1. BurstTypeOK' /\ budget'.age = budget.age /\ budget'.count = RateLimitMax + 1
    <3>1. RateLimitMax + 1 \in 1..(RateLimitMax + 1) /\ (TRUE <=> RateLimitMax + 1 > RateLimitMax)
      BY <1>1
    <3>2. passed' \cup dropped' = P \cup D \cup {f} /\ passed' \cap dropped' = {}
      BY <1>2, <1>3, <1>13
    <3> QED
      BY <1>1, <1>10, <1>13, <3>1, <3>2
  <2>2. /\ Counted(passed)' = Counted(P) /\ Before(passed)' = Before(P)
        /\ Counted(passed \cup dropped)' = Counted(P \cup D) \cup {f}
    BY <1>1, <1>2, <1>13, <2>1 DEF Counted, Before
  <2>3. /\ Cardinality(Counted(passed))' = c /\ Cardinality(Before(passed))' = b
        /\ Cardinality(Counted(passed \cup dropped))' = a + 1
    BY <1>7, <2>2
  <2>4. c <= RateLimitMax /\ b <= RateLimitMax /\ budget.count <= a
    BY <1>0, <1>13
  <2> HIDE DEF a, b, c
  <2>5. /\ c <= RateLimitMax + 1 /\ c <= RateLimitMax /\ b <= RateLimitMax
        /\ RateLimitMax + 1 <= a + 1 /\ budget'.age # RateLimitWindow
    BY <1>1, <1>5, <1>13, <2>1, <2>4
  <2> QED
    BY <2>1, <2>3, <2>5 DEF BurstInv
<1> QED
  BY <1>9, <1>11, <1>12, <1>13

\* So does a tick: frames that leave the interval make it emptier, and while the
\* window runs none of those it counted do.
LEMMA TimeKeeps ==
  ASSUME BurstInv, TimePasses
  PROVE  BurstInv'
<1> DEFINE P == passed
           A == passed \cup dropped
<1>0. /\ BurstTypeOK
      /\ Cardinality(Counted(P)) <= budget.count /\ Cardinality(Counted(P)) <= RateLimitMax
      /\ Cardinality(Before(P)) <= RateLimitMax
      /\ budget.age < RateLimitWindow => budget.count <= Cardinality(Counted(A))
  BY DEF BurstInv
<1>1. /\ budget.age \in 0..RateLimitWindow /\ budget.count \in 0..(RateLimitMax + 1)
      /\ RateLimitMax \in Nat /\ RateLimitMax > 0 /\ RateLimitWindow \in Nat /\ RateLimitWindow > 0
  BY <1>0, BudgetFacts
<1>2. /\ P \in SUBSET Recent /\ dropped \in SUBSET Recent /\ A \in SUBSET Recent /\ P \cap dropped = {}
      /\ \A F \in SUBSET Recent : Counted(F) \in SUBSET F /\ Before(F) \in SUBSET F
      /\ \A g \in Recent : g[1] \in Nat /\ g[1] < RateLimitWindow
  BY <1>0, CountedIsRecent DEF BurstTypeOK
<1>3. /\ passed' = Aged(P) /\ dropped' = Aged(dropped) /\ (passed \cup dropped)' = Aged(A)
      /\ budget' = [budget EXCEPT !.age = IF @ < RateLimitWindow THEN @ + 1 ELSE @]
  BY DEF TimePasses, Aged, Elapse
<1>4. /\ budget'.count = budget.count /\ budget'.notified = budget.notified
      /\ budget.age < RateLimitWindow => budget'.age = budget.age + 1
      /\ budget.age = RateLimitWindow => budget'.age = RateLimitWindow
      /\ budget' \in RateStates
  <2>1. budget \in [age : 0..RateLimitWindow, count : 0..(RateLimitMax + 1), notified : BOOLEAN]
    BY <1>0 DEF BurstTypeOK, RateStates
  <2> QED
    BY <1>1, <1>3, <2>1 DEF RateStates
<1>5. \A F \in SUBSET Recent : /\ Aged(F) \in SUBSET Recent /\ \A g \in Aged(F) : g[1] # 0
                               /\ Cardinality(Aged(F)) <= Cardinality(F)
                               /\ (\A g \in F : g[1] + 1 < RateLimitWindow)
                                  => Cardinality(F) <= Cardinality(Aged(F))
  BY AgedNumbers
<1>6. BurstTypeOK'
  <2>1. passed' \cap dropped' = {}
    <3>1. ASSUME NEW g \in P, NEW h \in dropped, <<g[1] + 1, g[2]>> = <<h[1] + 1, h[2]>> PROVE FALSE
      <4>1. g[1] + 1 = h[1] + 1 /\ g[2] = h[2] /\ g[1] \in Nat /\ h[1] \in Nat /\ g \in Recent /\ h \in Recent
        BY <1>2, <3>1
      <4>2. g[1] = h[1]
        BY <4>1
      <4>3. g = h
        BY <4>1, <4>2 DEF Recent
      <4> QED
        BY <1>2, <4>3
    <3> QED
      BY <1>3, <3>1 DEF Aged
  <2>2. passed' \subseteq Recent /\ dropped' \subseteq Recent
    BY <1>2, <1>3, <1>5
  <2>3. budget'.notified <=> budget'.count > RateLimitMax
    BY <1>0, <1>4 DEF BurstTypeOK
  <2> QED
    BY <1>4, <2>1, <2>2, <2>3 DEF BurstTypeOK
<1>7. ASSUME NEW F \in SUBSET Recent
      PROVE  /\ {g \in Aged(F) : g[1] <= budget'.age} \subseteq Aged(Counted(F))
             /\ {g \in Aged(F) : g[1] > budget'.age} \subseteq Aged(Before(F))
             /\ budget'.age < RateLimitWindow => Aged(Counted(F)) \subseteq {g \in Aged(F) : g[1] <= budget'.age}
  <2>1. \A g \in F : g[1] \in Nat /\ <<g[1] + 1, g[2]>>[1] = g[1] + 1
    BY <1>2
  <2>2. \A g \in F : g[1] + 1 <= budget'.age /\ g[1] + 1 < RateLimitWindow => g \in Counted(F)
    BY <1>1, <1>4, <2>1 DEF Counted
  <2>3. \A g \in F : g[1] + 1 > budget'.age /\ g[1] + 1 < RateLimitWindow => g \in Before(F)
    BY <1>1, <1>4, <2>1 DEF Before
  <2>4. \A g \in Counted(F) : g \in F /\ (budget'.age < RateLimitWindow => g[1] + 1 <= budget'.age)
    BY <1>1, <1>4, <2>1 DEF Counted
  <2> QED
    BY <2>1, <2>2, <2>3, <2>4 DEF Aged
<1>8. Cardinality(Counted(passed)') <= Cardinality(Counted(P))
      /\ Cardinality(Counted(passed)') \in Nat /\ Cardinality(Counted(P)) \in Nat
  <2>1. Counted(passed)' \subseteq Aged(Counted(P)) /\ Counted(P) \in SUBSET Recent
    BY <1>2, <1>3, <1>7 DEF Counted
  <2>2. Aged(Counted(P)) \in SUBSET Recent /\ Cardinality(Aged(Counted(P))) <= Cardinality(Counted(P))
    BY <1>5, <2>1
  <2> DEFINE x == Counted(passed)'
             y == Aged(Counted(P))
             z == Counted(P)
  <2>3. x \subseteq y /\ y \in SUBSET Recent /\ z \in SUBSET Recent /\ Cardinality(y) <= Cardinality(z)
    BY <2>1, <2>2
  <2> HIDE DEF x, y, z
  <2>4. Cardinality(x) <= Cardinality(y) /\ Cardinality(y) \in Nat /\ Cardinality(x) \in Nat /\ Cardinality(z) \in Nat
    BY <2>3, FrameNumbers
  <2>5. Cardinality(x) <= Cardinality(z)
    BY <2>3, <2>4
  <2> QED
    BY <2>4, <2>5 DEF x, z
<1>9. Cardinality(Before(passed)') <= Cardinality(Before(P))
      /\ Cardinality(Before(passed)') \in Nat /\ Cardinality(Before(P)) \in Nat
  <2>1. Before(passed)' \subseteq Aged(Before(P)) /\ Before(P) \in SUBSET Recent
    BY <1>2, <1>3, <1>7 DEF Before
  <2>2. Aged(Before(P)) \in SUBSET Recent /\ Cardinality(Aged(Before(P))) <= Cardinality(Before(P))
    BY <1>5, <2>1
  <2> DEFINE x == Before(passed)'
             y == Aged(Before(P))
             z == Before(P)
  <2>3. x \subseteq y /\ y \in SUBSET Recent /\ z \in SUBSET Recent /\ Cardinality(y) <= Cardinality(z)
    BY <2>1, <2>2
  <2> HIDE DEF x, y, z
  <2>4. Cardinality(x) <= Cardinality(y) /\ Cardinality(y) \in Nat /\ Cardinality(x) \in Nat /\ Cardinality(z) \in Nat
    BY <2>3, FrameNumbers
  <2>5. Cardinality(x) <= Cardinality(z)
    BY <2>3, <2>4
  <2> QED
    BY <2>4, <2>5 DEF x, z
<1>10. ASSUME budget'.age < RateLimitWindow
       PROVE  Cardinality(Counted(A)) <= Cardinality(Counted(passed \cup dropped)')
              /\ Cardinality(Counted(A)) \in Nat /\ Cardinality(Counted(passed \cup dropped)') \in Nat
  <2> DEFINE x == Counted(passed \cup dropped)'
             y == Aged(Counted(A))
             z == Counted(A)
  <2>1. y \subseteq x /\ x \in SUBSET Recent /\ z \in SUBSET Recent
    <3>1. Aged(A) \in SUBSET Recent
      BY <1>2, <1>5
    <3> QED
      BY <1>2, <1>3, <1>7, <1>10, <3>1 DEF Counted
  <2>2. \A g \in z : g[1] + 1 < RateLimitWindow
    <3>1. budget.age + 1 < RateLimitWindow
      BY <1>1, <1>4, <1>10
    <3> QED
      BY <1>1, <1>2, <3>1 DEF Counted
  <2>3. Cardinality(z) <= Cardinality(y)
    BY <1>5, <2>1, <2>2
  <2> HIDE DEF x, y, z
  <2>4. Cardinality(y) <= Cardinality(x) /\ Cardinality(y) \in Nat /\ Cardinality(x) \in Nat /\ Cardinality(z) \in Nat
    <3>1. y \in SUBSET Recent
      BY <2>1
    <3> QED
      BY <2>1, <3>1, FrameNumbers
  <2>5. Cardinality(z) <= Cardinality(x)
    BY <2>3, <2>4
  <2> QED
    BY <2>4, <2>5 DEF x, z
<1> DEFINE c == Cardinality(Counted(P))
           b == Cardinality(Before(P))
           a == Cardinality(Counted(A))
           c1 == Cardinality(Counted(passed)')
           b1 == Cardinality(Before(passed)')
           a1 == Cardinality(Counted(passed \cup dropped)')
<1>11. /\ c1 <= c /\ b1 <= b /\ (budget'.age < RateLimitWindow => a <= a1 /\ a \in Nat /\ a1 \in Nat)
       /\ c \in Nat /\ c1 \in Nat /\ b \in Nat /\ b1 \in Nat
       /\ c <= budget.count /\ c <= RateLimitMax /\ b <= RateLimitMax
       /\ (budget.age < RateLimitWindow => budget.count <= a)
  BY <1>0, <1>8, <1>9, <1>10
<1>12. \A g \in passed' \cup dropped' : g[1] # 0
  BY <1>2, <1>3, <1>5
<1> HIDE DEF a, b, c, a1, b1, c1
<1>13. c1 <= budget'.count /\ c1 <= RateLimitMax /\ b1 <= RateLimitMax
  BY <1>1, <1>4, <1>11
<1>14. budget'.age < RateLimitWindow => budget'.count <= a1
  BY <1>1, <1>4, <1>11
<1> QED
  BY <1>6, <1>12, <1>13, <1>14 DEF BurstInv, a1, b1, c1

\* Every step of the connection keeps the invariant.
LEMMA NextBurstInv == BurstInv /\ [BurstNext]_burstVars => BurstInv'
<1> SUFFICES ASSUME BurstInv, [BurstNext]_burstVars PROVE BurstInv'
  OBVIOUS
<1>1. CASE UNCHANGED burstVars
  BY <1>1 DEF burstVars, BurstInv, BurstTypeOK, Counted, Before
<1> QED
  BY <1>1, FrameKeeps, TimeKeeps DEF BurstNext

\* The invariant holds of every behaviour.
LEMMA SpecBurstInv == BurstSpec => []BurstInv
BY InitBurstInv, NextBurstInv, PTL DEF BurstSpec

\* For any budget, any window and any pattern of frames: an interval as long as the
\* window never carries more than two windows' worth of processed frames.
THEOREM BurstsAreBounded == BurstSpec => []BurstBound
<1>1. BurstInv => BurstBound
  <2> SUFFICES ASSUME BurstInv PROVE BurstBound
    OBVIOUS
  <2>1. /\ BurstTypeOK /\ Cardinality(Counted(passed)) <= RateLimitMax /\ Cardinality(Before(passed)) <= RateLimitMax
    BY DEF BurstInv
  <2> DEFINE x == Counted(passed)
             y == Before(passed)
  <2>2. passed = x \cup y /\ x \in SUBSET Recent /\ y \in SUBSET Recent /\ x \cap y = {}
    <3>1. \A f \in passed : f[1] \in Nat /\ budget.age \in Nat
      BY <2>1, BudgetFacts, CountedIsRecent
    <3>2. x \cup y = passed /\ x \cap y = {}
      BY <3>1 DEF Counted, Before
    <3> QED
      BY <2>1, <3>2, CountedIsRecent
  <2>3. Cardinality(x) <= RateLimitMax /\ Cardinality(y) <= RateLimitMax /\ RateLimitMax \in Nat
    BY <2>1, BudgetFacts
  <2> HIDE DEF x, y
  <2>4. /\ IsFiniteSet(x) /\ IsFiniteSet(y) /\ Cardinality(x) \in Nat /\ Cardinality(y) \in Nat
    BY <2>2, FrameNumbers
  <2>5. Cardinality(passed) = Cardinality(x) + Cardinality(y) - Cardinality({})
    BY <2>2, <2>4, FS_Union
  <2>6. Cardinality({}) = 0
    BY FS_EmptySet
  <2>7. Cardinality(passed) <= 2 * RateLimitMax
    BY <2>3, <2>4, <2>5, <2>6
  <2> QED
    BY <2>7 DEF BurstBound
<1> QED
  BY <1>1, SpecBurstInv, PTL

\* For any budget, any window and any pattern of frames: a frame is dropped only when
\* the interval that ends with it carries more frames than the budget.
THEOREM DropsAreDeserved == BurstSpec => NoFalseDrop
<1>1. BurstInv /\ [BurstNext]_burstVars
      => [Cardinality(dropped') > Cardinality(dropped)
            => Cardinality(passed' \cup dropped') > RateLimitMax]_burstVars
  <2> SUFFICES ASSUME BurstInv, BurstNext, Cardinality(dropped') > Cardinality(dropped)
               PROVE  Cardinality(passed' \cup dropped') > RateLimitMax
    OBVIOUS
  <2>0. BurstTypeOK /\ (budget.age < RateLimitWindow => budget.count <= Cardinality(Counted(passed \cup dropped)))
    BY DEF BurstInv
  <2>1. /\ dropped \in SUBSET Recent /\ passed \cup dropped \in SUBSET Recent
        /\ Counted(passed \cup dropped) \in SUBSET (passed \cup dropped)
    BY <2>0, CountedIsRecent
  <2>2. Cardinality(dropped) \in Nat
    BY <2>1, FrameNumbers
  <2>3. ~TimePasses
    <3> SUFFICES ASSUME TimePasses PROVE FALSE
      OBVIOUS
    <3>1. Cardinality(dropped') <= Cardinality(dropped) /\ Cardinality(dropped') \in Nat
      BY <2>1, AgedNumbers, FrameNumbers DEF TimePasses
    <3> DEFINE x == Cardinality(dropped')
               y == Cardinality(dropped)
    <3>2. x <= y /\ x > y /\ x \in Nat /\ y \in Nat
      BY <2>2, <3>1
    <3> HIDE DEF x, y
    <3> QED
      BY <3>2
  <2>4. Frame
    BY <2>3 DEF BurstNext
  <2>5. dropped' # dropped
    <3> DEFINE x == Cardinality(dropped')
               y == Cardinality(dropped)
    <3>1. x > y /\ y \in Nat
      BY <2>2
    <3>2. x # y
      <4> HIDE DEF x, y
      <4> QED
        BY <3>1
    <3> QED
      BY <3>2
  <2>6. budget.age < RateLimitWindow /\ budget.count >= RateLimitMax /\ passed' = passed
        /\ dropped' = dropped \cup {NextFrame}
    BY <2>0, <2>4, <2>5, FrameKinds
  <2>7. NextFrame \in Recent /\ NextFrame \notin passed \cup dropped
    BY <2>0, <2>4, NewFrame DEF Frame
  <2> DEFINE all == passed \cup dropped
             now == Counted(all)
  <2>8. /\ all \in SUBSET Recent /\ now \in SUBSET all /\ NextFrame \in Recent \ all
        /\ passed' \cup dropped' = all \cup {NextFrame} /\ budget.count <= Cardinality(now)
    BY <2>0, <2>1, <2>6, <2>7
  <2>9. RateLimitMax \in Nat /\ budget.count \in Nat
    BY <2>0, BudgetFacts
  <2> HIDE DEF all, now
  <2>10. /\ Cardinality(all \cup {NextFrame}) = Cardinality(all) + 1 /\ Cardinality(now) <= Cardinality(all)
         /\ Cardinality(all) \in Nat /\ Cardinality(now) \in Nat
    BY <2>8, FrameNumbers
  <2>11. Cardinality(all \cup {NextFrame}) > RateLimitMax
    BY <2>6, <2>8, <2>9, <2>10
  <2> QED
    BY <2>8, <2>11
<1> QED
  BY <1>1, SpecBurstInv, PTL DEF BurstSpec, NoFalseDrop
==============================================================================
