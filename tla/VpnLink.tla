-------------------------------- MODULE VpnLink --------------------------------
(***************************************************************************)
(* The VPN gate of the client and the link it guards: js/vpn.js (check,    *)
(* emit, polling and native events), js/app.js (lock, unlock, session      *)
(* start, re-check button, identity switch) and js/signaling.js (connect,  *)
(* reconnect after a back-off, disconnect).                                *)
(*                                                                         *)
(* JavaScript runs one callback at a time; each action is one callback up  *)
(* to its next await.  Answers in flight are variables of their own: a     *)
(* native call reads the VPN state at one moment and its promise resolves  *)
(* at a later one, with anything in between.                               *)
(***************************************************************************)
EXTENDS Naturals, FiniteSets

CONSTANTS Socks,       \* bound: WebSocket objects alive at once
          NoSock,
          Ids, NoId,   \* identities the user can switch between
          FirstId,     \* the identity loaded at boot
          MaxTimers    \* bound: reconnect timers pending at once

ASSUME LinkAssumption ==
  /\ NoSock \notin Socks
  /\ NoId \notin Ids
  /\ FirstId \in Ids
  /\ MaxTimers \in Nat \ {0}
  /\ IsFiniteSet(Ids)

VARIABLES vpn,        \* environment: the tunnel is up
          lastActive, \* vpn.js lastActive: "unknown" (null), "up" or "down"
          pollAns,    \* answer of a check() under way, or "none"
          eventAns,   \* a vpnStatusChanged event on its way, or "none"
          recheckAns, \* the answers of the isActive() calls behind the button under way
          gate,       \* "boot" (overlay, never locked), "locked", "unlocked"
          gateBy,     \* history: who set the gate last, "monitor" or "button"
          session,    \* startSession: "idle", "config", "ice", "started"
          myId,       \* state.myId
          switchTo,   \* the identity a restore under way will install, or NoId
          sock,       \* readyState of each WebSocket; "free": not created
          ws,         \* Signaling.ws, NoSock once it is null or closed
          linkId,     \* Signaling.myId
          should,     \* Signaling._shouldReconnect
          timers,     \* pending setTimeout(() => this._open())
          regs        \* history: ids registered over each WebSocket

gateVars == <<lastActive, pollAns, eventAns, recheckAns, gate, gateBy>>
linkVars == <<sock, ws, linkId, should, timers, regs>>
vars == <<vpn, gateVars, session, myId, switchTo, linkVars>>

Answers == {"none", "up", "down"}
SockStates == {"free", "connecting", "open", "closing"}
Status(up) == IF up THEN "up" ELSE "down"

Init ==
  /\ vpn \in BOOLEAN
  /\ lastActive = "unknown"
  /\ pollAns = "none" /\ eventAns = "none" /\ recheckAns = {}
  /\ gate = "boot" /\ gateBy = "monitor"
  /\ session = "idle"
  /\ myId = FirstId /\ switchTo = NoId
  /\ sock = [s \in Socks |-> "free"]
  /\ ws = NoSock
  /\ linkId = NoId
  /\ should = FALSE
  /\ timers = 0
  /\ regs = [s \in Socks |-> {}]

------------------------------------------------------------------------------
(* js/signaling.js *)

\* _open on top of the socket states `table`: a new WebSocket becomes this.ws,
\* whatever this.ws was; the object it replaces keeps its listeners.
Open(table) ==
  \E s \in Socks :
    /\ sock[s] = "free"
    /\ sock' = [table EXCEPT ![s] = "connecting"]
    /\ ws' = s
    /\ regs' = [regs EXCEPT ![s] = {}]

\* The socket states after `this.ws.close()`.
Severed == [s \in Socks |-> IF s = ws /\ sock[s] # "free" THEN "closing" ELSE sock[s]]

BugConnect(table, id) ==
  /\ should' = TRUE
  /\ linkId' = IF linkId = NoId THEN id ELSE linkId
  /\ Open(table)
  /\ UNCHANGED timers

\* connect(myId) on top of `table`.
Connect(table, id) ==
  /\ linkId' = id
  /\ should' = TRUE
  /\ Open(table)
  /\ UNCHANGED timers

\* disconnect(): pending reconnect timers are left alone.
Disconnect ==
  /\ should' = FALSE
  /\ sock' = Severed
  /\ ws' = NoSock
  /\ UNCHANGED <<linkId, timers, regs>>

\* The 'open' listener of s: registers over this.ws, which need not be s.
SockOpens(s) ==
  /\ sock[s] = "connecting"
  /\ sock' = [sock EXCEPT ![s] = "open"]
  /\ regs' = IF ws # NoSock /\ sock'[ws] = "open"
             THEN [regs EXCEPT ![ws] = @ \cup {linkId}] ELSE regs
  /\ UNCHANGED <<vpn, gateVars, session, myId, switchTo, ws, linkId, should, timers>>

BugSockCloses(s) ==
  /\ sock[s] # "free"
  /\ should => timers < MaxTimers
  /\ sock' = [sock EXCEPT ![s] = "free"]
  /\ timers' = IF should /\ sock[s] # "connecting" THEN timers + 1 ELSE timers
  /\ ws' = IF ws = s THEN NoSock ELSE ws
  /\ regs' = [regs EXCEPT ![s] = {}]
  /\ UNCHANGED <<vpn, gateVars, session, myId, switchTo, linkId, should>>

\* The 'close' listener of s: connection refused or lost, or close() completed.
SockCloses(s) ==
  /\ sock[s] # "free"
  /\ should => timers < MaxTimers
  /\ sock' = [sock EXCEPT ![s] = "free"]
  /\ timers' = IF should THEN timers + 1 ELSE timers
  /\ ws' = IF ws = s THEN NoSock ELSE ws
  /\ regs' = [regs EXCEPT ![s] = {}]
  /\ UNCHANGED <<vpn, gateVars, session, myId, switchTo, linkId, should>>

\* The back-off is over: `_open()`, without looking at _shouldReconnect.
TimerFires ==
  /\ timers > 0
  /\ timers' = timers - 1
  /\ Open(sock)
  /\ UNCHANGED <<vpn, gateVars, session, myId, switchTo, linkId, should>>
------------------------------------------------------------------------------
(* js/app.js: locking, unlocking, starting the session *)

\* lockForVpn: the overlay comes back and the link is cut, if there is one.
Lock ==
  /\ gate' = "locked"
  /\ IF session = "started" THEN Disconnect ELSE UNCHANGED linkVars
  /\ UNCHANGED session

\* unlockFromVpn, and startSession up to its first await: the first call fetches
\* the configuration, a call while that is under way does nothing, a later one
\* connects again.
Unlock ==
  /\ gate' = "unlocked"
  /\ session' = IF session = "idle" THEN "config" ELSE session
  /\ IF session = "started" THEN Connect(sock, myId) ELSE UNCHANGED linkVars

\* /api/config has answered, or failed: on to /api/turn.
ConfigFetched ==
  /\ session = "config"
  /\ session' = "ice"
  /\ UNCHANGED <<vpn, gateVars, myId, switchTo, linkVars>>

\* /api/turn has answered, or failed: build the Signaling object and connect.
IceFetched ==
  /\ session = "ice"
  /\ session' = "started"
  /\ Connect(sock, myId)
  /\ UNCHANGED <<vpn, gateVars, myId, switchTo>>

\* A restore or passphrase change starts; it takes a key derivation and a store.
SwitchStarts(id) ==
  /\ gate = "unlocked"
  /\ switchTo = NoId
  /\ switchTo' = id
  /\ UNCHANGED <<vpn, gateVars, session, myId, linkVars>>

BugSwitchDone ==
  /\ switchTo # NoId
  /\ switchTo' = NoId
  /\ myId' = switchTo
  /\ IF session = "started"
     THEN /\ linkId' = switchTo
          /\ regs' = [s \in Socks |-> IF s = ws /\ sock[s] = "open"
                                     THEN regs[s] \cup {switchTo} ELSE regs[s]]
          /\ UNCHANGED <<sock, ws, should, timers>>
     ELSE UNCHANGED linkVars
  /\ UNCHANGED <<vpn, gateVars, session>>

\* switchIdentity: new id, and the link is cut and made again if there is one.
SwitchDone ==
  /\ switchTo # NoId
  /\ switchTo' = NoId
  /\ myId' = switchTo
  /\ IF session = "started" THEN Connect(Severed, switchTo) ELSE UNCHANGED linkVars
  /\ UNCHANGED <<vpn, gateVars, session>>

------------------------------------------------------------------------------
(* js/vpn.js *)

\* The tunnel goes up or down.
VpnChanges ==
  /\ vpn' = ~vpn
  /\ UNCHANGED <<gateVars, session, myId, switchTo, linkVars>>

BugEmit(answer) ==
  IF answer = lastActive
  THEN UNCHANGED <<lastActive, gate, gateBy, session, linkVars>>
  ELSE /\ lastActive' = lastActive /\ gateBy' = "monitor"
       /\ IF answer = "up" THEN Unlock ELSE Lock

\* emit(active): only a change reaches the listener of boot().
Emit(answer) ==
  IF answer = lastActive
  THEN UNCHANGED <<lastActive, gate, gateBy, session, linkVars>>
  ELSE /\ lastActive' = answer /\ gateBy' = "monitor"
       /\ IF answer = "up" THEN Unlock ELSE Lock

BugPoll ==
  /\ pollAns = "none"
  /\ lastActive = "unknown"
  /\ \E fails \in BOOLEAN : pollAns' = Status(vpn /\ ~fails)
  /\ UNCHANGED <<vpn, lastActive, eventAns, recheckAns, gate, gateBy, session, myId,
                 switchTo, linkVars>>

\* check(), by start() and then by the poll: the plugin looks at the interfaces;
\* a failing call counts as no VPN.  The first answer comes before any event.
Poll ==
  /\ pollAns = "none"
  /\ \E fails \in BOOLEAN : pollAns' = Status(vpn /\ ~fails)
  /\ UNCHANGED <<vpn, lastActive, eventAns, recheckAns, gate, gateBy, session, myId,
                 switchTo, linkVars>>

PollAnswers ==
  /\ pollAns # "none"
  /\ Emit(pollAns)
  /\ pollAns' = "none"
  /\ UNCHANGED <<vpn, eventAns, recheckAns, myId, switchTo>>

\* The native side sends vpnStatusChanged; it may miss changes, and the event
\* takes a while to reach the web view.
NativeEvent ==
  /\ lastActive # "unknown"
  /\ eventAns = "none"
  /\ eventAns' = Status(vpn)
  /\ UNCHANGED <<vpn, lastActive, pollAns, recheckAns, gate, gateBy, session, myId,
                 switchTo, linkVars>>

EventArrives ==
  /\ eventAns # "none"
  /\ Emit(eventAns)
  /\ eventAns' = "none"
  /\ UNCHANGED <<vpn, pollAns, recheckAns, myId, switchTo>>

\* The re-check button of the locked overlay asks vpnGate.isActive(); nothing keeps the
\* user from pressing it again meanwhile.
Recheck ==
  /\ gate = "locked"
  /\ \E fails \in BOOLEAN : recheckAns' = recheckAns \cup {Status(vpn /\ ~fails)}
  /\ UNCHANGED <<vpn, lastActive, pollAns, eventAns, gate, gateBy, session, myId,
                 switchTo, linkVars>>

\* An answer locks or unlocks directly, without going through emit; another press may
\* have had the same answer, which is then still under way.
RecheckAnswers ==
  /\ \E answer \in recheckAns :
       /\ recheckAns' \in {recheckAns, recheckAns \ {answer}}
       /\ IF answer = "up" THEN Unlock ELSE Lock
  /\ gateBy' = "button"
  /\ UNCHANGED <<vpn, lastActive, pollAns, eventAns, myId, switchTo>>

Next ==
  \/ VpnChanges
  \/ Poll \/ PollAnswers \/ NativeEvent \/ EventArrives
  \/ Recheck \/ RecheckAnswers
  \/ ConfigFetched \/ IceFetched
  \/ \E id \in Ids : SwitchStarts(id)
  \/ SwitchDone
  \/ TimerFires
  \/ \E s \in Socks : SockOpens(s) \/ SockCloses(s)

Spec == Init /\ [][Next]_vars

\* Intervals fire, promises resolve (the fetches fail rather than hang), timers
\* fire, and a network that keeps being tried connects in the end.  Nothing is
\* assumed of the tunnel, of native events, or of the user.
FairSpec ==
  /\ Spec
  /\ WF_vars(Poll) /\ WF_vars(PollAnswers) /\ WF_vars(EventArrives)
  /\ WF_vars(RecheckAnswers)
  /\ WF_vars(ConfigFetched) /\ WF_vars(IceFetched)
  /\ WF_vars(SwitchDone)
  /\ WF_vars(TimerFires)
  /\ SF_vars(\E s \in Socks : s = ws /\ SockOpens(s))
  /\ \A s \in Socks : WF_vars(sock[s] = "closing" /\ SockCloses(s))

------------------------------------------------------------------------------
(* Properties *)

\* The state of app.js, vpn.js and signaling.js stays in range; above all, armed
\* reconnect timers never go below none.
TypeOK ==
  /\ vpn \in BOOLEAN
  /\ lastActive \in {"unknown", "up", "down"}
  /\ pollAns \in Answers /\ eventAns \in Answers
  /\ recheckAns \subseteq {"up", "down"}
  /\ gate \in {"boot", "locked", "unlocked"} /\ gateBy \in {"monitor", "button"}
  /\ session \in {"idle", "config", "ice", "started"}
  /\ myId \in Ids /\ switchTo \in Ids \cup {NoId} /\ linkId \in Ids \cup {NoId}
  /\ sock \in [Socks -> SockStates]
  /\ ws \in Socks \cup {NoSock}
  /\ should \in BOOLEAN
  /\ timers \in 0..MaxTimers
  /\ regs \in [Socks -> SUBSET Ids]

\* The link speaks for the current identity: the socket in use, once open, has
\* been registered under state.myId and nothing else, through reconnects,
\* identity switches and late 'open' events of sockets it replaced.
LinkSpeaksForMyId ==
  /\ session = "started" => linkId = myId
  /\ \A s \in Socks : sock[s] = "open" /\ s = ws => regs[s] = {linkId}

\* No WebSocket ever registers two ids, so the relay's routes stay sound (the
\* assumption ~MayRename of SignalingRelay).
OneIdPerSocket == \A s \in Socks : Cardinality(regs[s]) <= 1

\* A link that should be up is up, coming up, or about to be tried again: no
\* order of close events and timers strands the client offline.
NeverStranded ==
  should => timers > 0 \/ (ws # NoSock /\ sock[ws] \in {"connecting", "open"})

\* Unless the re-check button spoke last, the overlay mirrors the last answer of
\* the monitor, through polls and events that overtake each other.
GateFollowsMonitor ==
  gateBy = "monitor" => /\ gate = "unlocked" <=> lastActive = "up"
                        /\ gate = "boot" <=> lastActive = "unknown"

\* "If it drops at any time, we purge ephemeral data, cut signaling, and re-lock":
\* once the tunnel stays down, an application that the monitor unlocked ends up
\* locked for good, also if every native event is lost.  The re-check button unlocks
\* behind the monitor's back, and that unlock nobody undoes.
MonitorRelocksOnDrop == []<>vpn \/ <>[](gate # "unlocked" \/ gateBy = "button")

\* While a session runs behind an open gate the link is registered again and
\* again, whatever connections are lost: it heals.
LinkHeals ==
  []<>(gate # "unlocked" \/ session # "started")
  \/ []<>(ws # NoSock /\ sock[ws] = "open")

\* "Nothing else runs until a VPN is active"; disconnect() is the "hard disconnect
\* used by the VPN gate to sever the server link": behind the overlay no WebSocket
\* is open or coming up.
LockedLinkCut ==
  gate = "locked" => \A s \in Socks : sock[s] \in {"free", "closing"}
================================================================================
