------------------------------- MODULE Presence -------------------------------
(***************************************************************************)
(* What the signaling relay promises its clients, without connections,     *)
(* budgets or sweeps: an id is held by the socket that announced it last,  *)
(* a frame addressed to an id reaches the holder and nobody else, and a    *)
(* socket that departs leaves no id behind.  SignalingRelay implements it. *)
(***************************************************************************)
CONSTANTS Sockets, Ids, NoSocket

VARIABLES holder,  \* [Ids -> Sockets \cup {NoSocket}]
          inbox    \* the ids addressed by the frames each present socket got

vars == <<holder, inbox>>

Init == /\ holder = [id \in Ids |-> NoSocket]
        /\ inbox = [ws \in Sockets |-> {}]

\* The last announcement wins; a socket announces one id.
Announce(ws, id) ==
  /\ \A other \in Ids \ {id} : holder[other] # ws
  /\ holder' = [holder EXCEPT ![id] = ws]
  /\ UNCHANGED inbox

Deliver(id) ==
  /\ holder[id] # NoSocket
  /\ inbox' = [inbox EXCEPT ![holder[id]] = @ \cup {id}]
  /\ UNCHANGED holder

Depart(ws) ==
  /\ holder' = [id \in Ids |-> IF holder[id] = ws THEN NoSocket ELSE holder[id]]
  /\ inbox' = [inbox EXCEPT ![ws] = {}]

Next == \/ \E ws \in Sockets, id \in Ids : Announce(ws, id)
        \/ \E id \in Ids : Deliver(id)
        \/ \E ws \in Sockets : Depart(ws)

Spec == Init /\ [][Next]_vars
================================================================================
