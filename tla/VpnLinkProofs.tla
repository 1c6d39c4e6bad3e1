----------------------------- MODULE VpnLinkProofs -----------------------------
(***************************************************************************)
(* The safety properties of VpnLink, for any identities and any number of  *)
(* WebSocket objects alive and reconnect timers pending at once.           *)
(***************************************************************************)
EXTENDS VpnLink, FiniteSetTheorems, TLAPS

(* The link.  The socket in use is on its way up or open, and it was registered *)
(* under the id of the link alone; whatever replaces it starts with no id.      *)
LinkTypes ==
  /\ sock \in [Socks -> SockStates]
  /\ ws \in Socks \cup {NoSock}
  /\ linkId \in Ids \cup {NoId}
  /\ should \in BOOLEAN
  /\ timers \in 0..MaxTimers
  /\ regs \in [Socks -> SUBSET Ids]
\* Nothing is under way before the first connect() has given the link an id.
NoIdBeforeConnect == linkId = NoId => ws = NoSock /\ timers = 0 /\ ~should
InUse ==
  ws # NoSock =>
    /\ sock[ws] \in {"connecting", "open"}
    /\ regs[ws] \subseteq {linkId}
    /\ sock[ws] = "open" => regs[ws] = {linkId}
OneId == \A s \in Socks : \A a, b \in regs[s] : a = b
LinkInv == LinkTypes /\ NoIdBeforeConnect /\ InUse /\ OneId /\ NeverStranded

(* The gate, its answers under way, and the session behind it. *)
GateTypes ==
  /\ vpn \in BOOLEAN
  /\ lastActive \in {"unknown", "up", "down"}
  /\ pollAns \in Answers /\ eventAns \in Answers
  /\ recheckAns \subseteq {"up", "down"}
  /\ gate \in {"boot", "locked", "unlocked"} /\ gateBy \in {"monitor", "button"}
  /\ session \in {"idle", "config", "ice", "started"}
  /\ myId \in Ids /\ switchTo \in Ids \cup {NoId}
SpeaksForMe == session = "started" => linkId = myId
GateInv == GateTypes /\ SpeaksForMe /\ GateFollowsMonitor

IInv == LinkInv /\ GateInv

------------------------------------------------------------------------------

LEMMA InitIInv == Init => IInv
<1> SUFFICES ASSUME Init PROVE IInv
  OBVIOUS
<1>1. LinkInv
  <2>1. sock \in [Socks -> SockStates] /\ regs \in [Socks -> SUBSET Ids]
    BY DEF Init, SockStates
  <2>2. 0 \in 0..MaxTimers
    BY LinkAssumption DEF LinkAssumption
  <2>3. LinkTypes
    BY <2>1, <2>2 DEF Init, LinkTypes
  <2>4. OneId
    BY DEF Init, OneId
  <2> QED
    BY <2>3, <2>4 DEF Init, LinkInv, NoIdBeforeConnect, InUse, NeverStranded
<1>2. GateInv
  BY LinkAssumption DEF LinkAssumption, Init, GateInv, GateTypes, SpeaksForMe,
     GateFollowsMonitor, Answers
<1> QED
  BY <1>1, <1>2 DEF IInv

\* A socket that replaces the one in use starts fresh, whatever becomes of the old one.
LEMMA OpenKeeps ==
  ASSUME LinkInv, NEW table \in [Socks -> SockStates], Open(table),
         linkId' \in Ids, should' \in BOOLEAN, timers' \in 0..MaxTimers
  PROVE  LinkInv'
<1>1. PICK s \in Socks :
        /\ sock' = [table EXCEPT ![s] = "connecting"]
        /\ ws' = s
        /\ regs' = [regs EXCEPT ![s] = {}]
  BY DEF Open
<1>2. ws' # NoSock /\ linkId' # NoId
  BY <1>1, LinkAssumption DEF LinkAssumption
<1>3. sock'[ws'] = "connecting" /\ regs'[ws'] = {}
  BY <1>1 DEF LinkInv, LinkTypes
<1>4. LinkTypes'
  BY <1>1 DEF LinkInv, LinkTypes, SockStates
<1>5. OneId'
  BY <1>1 DEF LinkInv, LinkTypes, OneId
<1> QED
  BY <1>1, <1>2, <1>3, <1>4, <1>5 DEF LinkInv, NoIdBeforeConnect, InUse, NeverStranded

LEMMA ConnectKeeps ==
  ASSUME LinkInv, NEW table \in {sock, Severed}, NEW id \in Ids, Connect(table, id)
  PROVE  LinkInv' /\ linkId' = id
<1>1. table \in [Socks -> SockStates]
  BY DEF LinkInv, LinkTypes, Severed, SockStates
<1>2. Open(table) /\ linkId' = id /\ should' = TRUE /\ timers' = timers
  BY DEF Connect
<1> QED
  BY <1>1, <1>2, OpenKeeps DEF LinkInv, LinkTypes

LEMMA DisconnectKeeps == LinkInv /\ Disconnect => LinkInv' /\ linkId' = linkId
<1> SUFFICES ASSUME LinkInv, Disconnect PROVE LinkInv' /\ linkId' = linkId
  OBVIOUS
<1>1. /\ ws' = NoSock /\ should' = FALSE /\ sock' = Severed
      /\ linkId' = linkId /\ timers' = timers /\ regs' = regs
  BY DEF Disconnect
<1>2. Severed \in [Socks -> SockStates]
  BY DEF LinkInv, LinkTypes, Severed, SockStates
<1> QED
  BY <1>1, <1>2 DEF LinkInv, LinkTypes, NoIdBeforeConnect, InUse, OneId, NeverStranded

LEMMA LinkUnchanged == LinkInv /\ UNCHANGED linkVars => LinkInv' /\ linkId' = linkId
BY DEF linkVars, LinkInv, LinkTypes, NoIdBeforeConnect, InUse, OneId, NeverStranded

\* 'open' registers the socket in use under the id of the link, be it the one that
\* opened or the one that replaced it.
LEMMA SockOpensKeeps ==
  ASSUME LinkInv, NEW s \in Socks, SockOpens(s)
  PROVE  LinkInv' /\ linkId' = linkId
<1>1. /\ sock[s] = "connecting" /\ sock' = [sock EXCEPT ![s] = "open"]
      /\ ws' = ws /\ linkId' = linkId /\ should' = should /\ timers' = timers
  BY DEF SockOpens
<1>2. sock' \in [Socks -> SockStates]
  BY <1>1 DEF LinkInv, LinkTypes, SockStates
<1>3. CASE ws # NoSock /\ sock'[ws] = "open"
  <2>1. regs' = [regs EXCEPT ![ws] = regs[ws] \cup {linkId}] /\ ws \in Socks
    BY <1>3 DEF SockOpens, LinkInv, LinkTypes
  <2>2. linkId \in Ids /\ regs[ws] \subseteq {linkId}
    BY <1>3 DEF LinkInv, LinkTypes, NoIdBeforeConnect, InUse
  <2>3. regs'[ws] = {linkId} /\ \A t \in Socks \ {ws} : regs'[t] = regs[t]
    BY <2>1, <2>2 DEF LinkInv, LinkTypes
  <2>4. regs' \in [Socks -> SUBSET Ids]
    BY <2>1, <2>2 DEF LinkInv, LinkTypes
  <2>5. OneId'
    BY <2>1, <2>3 DEF LinkInv, OneId
  <2>6. NeverStranded'
    BY <1>1, <1>3 DEF NeverStranded
  <2> QED
    BY <1>1, <1>2, <1>3, <2>2, <2>3, <2>4, <2>5, <2>6
       DEF LinkInv, LinkTypes, NoIdBeforeConnect, InUse
<1>4. CASE ~(ws # NoSock /\ sock'[ws] = "open")
  <2>1. regs' = regs
    BY <1>4 DEF SockOpens
  <2>2. ws # NoSock => sock'[ws] = sock[ws]
    BY <1>1, <1>4 DEF LinkInv, LinkTypes
  <2> QED
    BY <1>1, <1>2, <2>1, <2>2 DEF LinkInv, LinkTypes, NoIdBeforeConnect, InUse, OneId,
       NeverStranded
<1> QED
  BY <1>3, <1>4

\* 'close' of the socket in use arms a timer while the link should be up.
LEMMA SockClosesKeeps ==
  ASSUME LinkInv, NEW s \in Socks, SockCloses(s)
  PROVE  LinkInv' /\ linkId' = linkId
<1>1. /\ should => timers < MaxTimers
      /\ sock' = [sock EXCEPT ![s] = "free"]
      /\ timers' = IF should THEN timers + 1 ELSE timers
      /\ ws' = IF ws = s THEN NoSock ELSE ws
      /\ regs' = [regs EXCEPT ![s] = {}]
      /\ linkId' = linkId /\ should' = should
  BY DEF SockCloses
<1>2. timers \in Nat /\ timers' \in 0..MaxTimers /\ (should => timers' > 0)
  BY <1>1, LinkAssumption DEF LinkAssumption, LinkInv, LinkTypes
<1>3. LinkTypes'
  BY <1>1, <1>2 DEF LinkInv, LinkTypes, SockStates
<1>4. InUse'
  BY <1>1 DEF LinkInv, LinkTypes, InUse
<1>5. OneId'
  BY <1>1 DEF LinkInv, LinkTypes, OneId
<1>6. NoIdBeforeConnect'
  BY <1>1 DEF LinkInv, NoIdBeforeConnect
<1>7. NeverStranded'
  BY <1>1, <1>2 DEF NeverStranded
<1> QED
  BY <1>1, <1>3, <1>4, <1>5, <1>6, <1>7 DEF LinkInv

LEMMA TimerFiresKeeps == LinkInv /\ TimerFires => LinkInv' /\ linkId' = linkId
<1> SUFFICES ASSUME LinkInv, TimerFires PROVE LinkInv' /\ linkId' = linkId
  OBVIOUS
<1>1. timers > 0 /\ timers' = timers - 1 /\ Open(sock) /\ linkId' = linkId /\ should' = should
  BY DEF TimerFires
<1>2. timers' \in 0..MaxTimers /\ linkId \in Ids
  BY <1>1, LinkAssumption DEF LinkAssumption, LinkInv, LinkTypes, NoIdBeforeConnect
<1>3. should' \in BOOLEAN /\ sock \in [Socks -> SockStates]
  BY <1>1 DEF LinkInv, LinkTypes
<1> QED
  BY <1>1, <1>2, <1>3, OpenKeeps

------------------------------------------------------------------------------

\* Locking and unlocking keep the link sound, and a started session stays its owner's.
LEMMA LockKeeps ==
  ASSUME IInv, Lock
  PROVE  LinkInv' /\ linkId' = linkId /\ session' = session /\ gate' = "locked"
BY DisconnectKeeps, LinkUnchanged DEF Lock, IInv

LEMMA UnlockKeeps ==
  ASSUME IInv, Unlock
  PROVE  /\ LinkInv' /\ gate' = "unlocked"
         /\ session' \in {"idle", "config", "ice", "started"}
         /\ session' = "started" => session = "started" /\ linkId' = myId
<1>1. session' = IF session = "idle" THEN "config" ELSE session
  BY DEF Unlock
<1>2. CASE session = "started"
  BY <1>1, <1>2, ConnectKeeps DEF Unlock, IInv, GateInv, GateTypes
<1>3. CASE session # "started"
  BY <1>1, <1>3, LinkUnchanged DEF Unlock, IInv, GateInv, GateTypes
<1> QED
  BY <1>2, <1>3

\* emit() brings gate and monitor together, or leaves both alone.
LEMMA EmitKeeps ==
  ASSUME IInv, NEW answer \in {"up", "down"}, Emit(answer),
         vpn' = vpn, pollAns' \in Answers, eventAns' \in Answers, recheckAns' = recheckAns,
         myId' = myId, switchTo' = switchTo
  PROVE  IInv'
<1>1. CASE answer = lastActive
  <2>1. UNCHANGED <<lastActive, gate, gateBy, session, linkVars>>
    BY <1>1 DEF Emit
  <2> QED
    BY <2>1, LinkUnchanged DEF IInv, GateInv, GateTypes, SpeaksForMe, GateFollowsMonitor
<1>2. CASE answer # lastActive /\ answer = "up"
  <2>1. lastActive' = "up" /\ gateBy' = "monitor" /\ Unlock
    BY <1>2 DEF Emit
  <2> QED
    BY <2>1, UnlockKeeps DEF IInv, GateInv, GateTypes, SpeaksForMe, GateFollowsMonitor
<1>3. CASE answer # lastActive /\ answer = "down"
  <2>1. lastActive' = "down" /\ gateBy' = "monitor" /\ Lock
    BY <1>3 DEF Emit
  <2> QED
    BY <2>1, LockKeeps DEF IInv, GateInv, GateTypes, SpeaksForMe, GateFollowsMonitor
<1> QED
  BY <1>1, <1>2, <1>3

LEMMA NextIInv == IInv /\ [Next]_vars => IInv'
<1> SUFFICES ASSUME IInv, [Next]_vars PROVE IInv'
  OBVIOUS
<1> USE DEF GateInv, GateTypes, SpeaksForMe, GateFollowsMonitor, gateVars
<1>1. CASE VpnChanges
  BY <1>1, LinkUnchanged DEF VpnChanges, IInv
<1>2. CASE Poll
  <2>1. pollAns' \in Answers
    BY <1>2 DEF Poll, Status, Answers
  <2> QED
    BY <1>2, <2>1, LinkUnchanged DEF Poll, IInv
<1>3. CASE PollAnswers
  <2>1. pollAns \in {"up", "down"} /\ pollAns' \in Answers
    BY <1>3 DEF PollAnswers, IInv, Answers
  <2> QED
    BY <1>3, <2>1, EmitKeeps DEF PollAnswers, IInv
<1>4. CASE NativeEvent
  <2>1. eventAns' \in Answers
    BY <1>4 DEF NativeEvent, Status, Answers
  <2> QED
    BY <1>4, <2>1, LinkUnchanged DEF NativeEvent, IInv
<1>5. CASE EventArrives
  <2>1. eventAns \in {"up", "down"} /\ eventAns' \in Answers
    BY <1>5 DEF EventArrives, IInv, Answers
  <2> QED
    BY <1>5, <2>1, EmitKeeps DEF EventArrives, IInv
<1>6. CASE Recheck
  <2>1. recheckAns' \subseteq {"up", "down"}
    BY <1>6 DEF Recheck, Status, IInv
  <2> QED
    BY <1>6, <2>1, LinkUnchanged DEF Recheck, IInv
<1>7. CASE RecheckAnswers
  <2>1. /\ Unlock \/ Lock
        /\ gateBy' = "button" /\ recheckAns' \subseteq recheckAns
        /\ UNCHANGED <<vpn, lastActive, pollAns, eventAns, myId, switchTo>>
    BY <1>7 DEF RecheckAnswers
  <2>2. CASE Unlock
    BY <2>1, <2>2, UnlockKeeps DEF IInv, Answers
  <2>3. CASE Lock
    BY <2>1, <2>3, LockKeeps DEF IInv, Answers
  <2> QED
    BY <2>1, <2>2, <2>3
<1>8. CASE ConfigFetched
  BY <1>8, LinkUnchanged DEF ConfigFetched, IInv
<1>9. CASE IceFetched
  BY <1>9, ConnectKeeps DEF IceFetched, IInv
<1>10. ASSUME NEW id \in Ids, SwitchStarts(id) PROVE IInv'
  BY <1>10, LinkUnchanged DEF SwitchStarts, IInv
<1>11. CASE SwitchDone
  <2>1. switchTo \in Ids
    BY <1>11 DEF SwitchDone, IInv
  <2>2. CASE session = "started"
    BY <1>11, <2>1, <2>2, ConnectKeeps DEF SwitchDone, IInv
  <2>3. CASE session # "started"
    BY <1>11, <2>1, <2>3, LinkUnchanged DEF SwitchDone, IInv
  <2> QED
    BY <2>2, <2>3
<1>12. CASE TimerFires
  BY <1>12, TimerFiresKeeps DEF TimerFires, IInv
<1>13. ASSUME NEW s \in Socks, SockOpens(s) PROVE IInv'
  BY <1>13, SockOpensKeeps DEF SockOpens, IInv
<1>14. ASSUME NEW s \in Socks, SockCloses(s) PROVE IInv'
  BY <1>14, SockClosesKeeps DEF SockCloses, IInv
<1>15. CASE UNCHANGED vars
  BY <1>15, LinkUnchanged DEF vars, IInv
<1> QED
  BY <1>1, <1>2, <1>3, <1>4, <1>5, <1>6, <1>7, <1>8, <1>9, <1>10, <1>11, <1>12, <1>13,
     <1>14, <1>15 DEF Next

LEMMA SpecIInv == Spec => []IInv
BY InitIInv, NextIInv, PTL DEF Spec

------------------------------------------------------------------------------

\* Gate, session, link and answers under way stay in range, and no more reconnect
\* timers fire than were armed.
THEOREM TypeCorrect == Spec => []TypeOK
<1>1. IInv => TypeOK
  BY DEF IInv, LinkInv, LinkTypes, GateInv, GateTypes, TypeOK
<1> QED
  BY <1>1, SpecIInv, PTL

\* The socket in use is registered under the identity of now and no other, whatever
\* reconnects, replaced sockets and identity switches came before.
THEOREM LinkSpeaks == Spec => []LinkSpeaksForMyId
<1>1. IInv => LinkSpeaksForMyId
  BY LinkAssumption DEF LinkAssumption, IInv, LinkInv, InUse, GateInv, SpeaksForMe,
     LinkSpeaksForMyId
<1> QED
  BY <1>1, SpecIInv, PTL

\* No connection of this client registers a second id, which is what the relay's
\* theorems assume of its clients.
THEOREM SocketsHaveOneId == Spec => []OneIdPerSocket
<1>1. IInv => OneIdPerSocket
  <2> SUFFICES ASSUME IInv, NEW s \in Socks PROVE Cardinality(regs[s]) <= 1
    BY DEF OneIdPerSocket
  <2>1. CASE regs[s] = {}
    BY <2>1, FS_EmptySet
  <2>2. CASE regs[s] # {}
    <3>1. PICK a \in regs[s] : TRUE
      BY <2>2
    <3>2. regs[s] = {a}
      BY <3>1 DEF IInv, LinkInv, OneId
    <3>3. Cardinality({a}) = 1
      BY FS_Singleton
    <3> QED
      BY <3>2, <3>3
  <2> QED
    BY <2>1, <2>2
<1> QED
  BY <1>1, SpecIInv, PTL

\* A link that should be up is up, coming up, or has a timer that will try again.
THEOREM LinkIsNeverStranded == Spec => []NeverStranded
<1>1. IInv => NeverStranded
  BY DEF IInv, LinkInv
<1> QED
  BY <1>1, SpecIInv, PTL

\* Polls and events that overtake each other never part the overlay from the
\* monitor; only the re-check button does.
THEOREM OverlayMirrorsMonitor == Spec => []GateFollowsMonitor
<1>1. IInv => GateFollowsMonitor
  BY DEF IInv, GateInv
<1> QED
  BY <1>1, SpecIInv, PTL
================================================================================
