------------------------------- MODULE FramePipe -------------------------------
(***************************************************************************)
(* What js/e2ee.js promises to js/messaging.js at the two ends of a call:  *)
(* once an end has opened, and it opens only towards the contact that was  *)
(* dialled, the frames the other end sends come out in order, none twice   *)
(* and none in the middle missing.                                         *)
(***************************************************************************)
EXTENDS Naturals, Sequences

CONSTANTS Ends, Frames

VARIABLES genuine,  \* the other end owns the id that this end dialled
          opened,   \* ends that may send and receive
          sent,     \* frames that each end has sent
          received  \* frames that have come out at each end

pipeVars == <<genuine, opened, sent, received>>

Init ==
  /\ genuine \in [Ends -> BOOLEAN]
  /\ opened = {}
  /\ sent = [e \in Ends |-> <<>>]
  /\ received = [e \in Ends |-> <<>>]

Open(e) ==
  /\ e \notin opened /\ genuine[e]
  /\ opened' = opened \cup {e}
  /\ UNCHANGED <<genuine, sent, received>>

Send(e) ==
  /\ e \in opened
  /\ \E f \in Frames : sent' = [sent EXCEPT ![e] = Append(@, f)]
  /\ UNCHANGED <<genuine, opened, received>>

\* The next frame of the other end comes out at e.
Deliver(e, other) ==
  /\ e \in opened
  /\ Len(received[e]) < Len(sent[other])
  /\ received' = [received EXCEPT ![e] = Append(@, sent[other][Len(@) + 1])]
  /\ UNCHANGED <<genuine, opened, sent>>

Next ==
  \/ \E e \in Ends : Open(e) \/ Send(e)
  \/ \E e, other \in Ends : e # other /\ Deliver(e, other)

Spec == Init /\ [][Next]_pipeVars
================================================================================
