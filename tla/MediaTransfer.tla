----------------------------- MODULE MediaTransfer -----------------------------
(***************************************************************************)
(* View-once media from one peer to the other: sendMedia and the receiving *)
(* half of js/messaging.js, the vault of js/ephemeral.js, and the bubble   *)
(* of js/app.js, over the ordered channel of js/e2ee.js.                   *)
(*                                                                         *)
(* A file goes out as a media-meta frame, its chunks and a media-end, each *)
(* after an await, so the frames of two files may mix.  The receiver asks  *)
(* its free-tier gate about a media-meta and goes on with the next frames  *)
(* meanwhile; only the answer makes the transfer the one chunks go to.     *)
(***************************************************************************)
EXTENDS Naturals, Sequences, SequencesExt

CONSTANTS Files,   \* bound: files sent in the conversation
          Chunks,  \* bound: chunks of a file
          NoBlob, Nothing

ASSUME MediaAssumption ==
  /\ Chunks \in Nat \ {0}
  /\ Nothing \notin [id : Files, discard : BOOLEAN,
                     received : Seq([file : Files, part : 1..Chunks])]

VARIABLES sent,      \* frames of each file that sendMedia has sent
          wire,      \* frames on their way, in order
          up,        \* the encrypted channel is open
          gate,      \* _acceptIncoming for each media-meta
          incoming,  \* _incomingMedia
          vault,     \* mediaVault: the chunks of each stashed file
          bubble,    \* what the chat shows of each file
          locked,    \* history: the VPN gate has locked
          overlapped, \* history: two sendMedia calls were under way at once
          late       \* history: a frame came while the gate was being asked

vars == <<sent, wire, up, gate, incoming, vault, bubble, locked, overlapped, late>>

\* The parts of a file: its media-meta, chunks 1..Chunks, its media-end.
Meta == 0
End == Chunks + 1
Frame(f, part) == [file |-> f, part |-> part]
ChunksOf(f) == [i \in 1..Chunks |-> Frame(f, i)]

Init ==
  /\ sent = [f \in Files |-> 0]
  /\ wire = <<>> /\ up = TRUE
  /\ gate = [f \in Files |-> "none"]
  /\ incoming = Nothing
  /\ vault = [f \in Files |-> NoBlob]
  /\ bubble = [f \in Files |-> "none"]
  /\ locked = FALSE /\ overlapped = FALSE /\ late = FALSE

------------------------------------------------------------------------------
(* Sending *)

UnderWay(f) == sent[f] \in 1..End

BugSendFrame(f) ==
  /\ sent[f] <= End
  /\ sent' = [sent EXCEPT ![f] = IF @ = Chunks - 1 THEN @ + 2 ELSE @ + 1]
  /\ wire' = IF up THEN Append(wire, Frame(f, sent[f])) ELSE wire
  /\ overlapped' = (overlapped \/ \E g \in Files \ {f} : UnderWay(g))
  /\ UNCHANGED <<up, gate, incoming, vault, bubble, locked, late>>

\* sendMedia from one await to the next; the file picker starts another whenever
\* the user likes.  On a closed channel the frame is lost and the loop goes on.
SendFrame(f) ==
  /\ sent[f] <= End
  /\ sent' = [sent EXCEPT ![f] = @ + 1]
  /\ wire' = IF up THEN Append(wire, Frame(f, sent[f])) ELSE wire
  /\ overlapped' = (overlapped \/ \E g \in Files \ {f} : UnderWay(g))
  /\ UNCHANGED <<up, gate, incoming, vault, bubble, locked, late>>

------------------------------------------------------------------------------
(* Receiving *)

\* The next frame is part `part` of f, and is taken off the wire.
Receive(f, part) ==
  /\ wire # <<>>
  /\ Head(wire) = Frame(f, part)
  /\ wire' = Tail(wire)
  /\ late' = (late \/ \E g \in Files : gate[g] = "asking")
  /\ UNCHANGED <<sent, up, locked, overlapped>>

\* _onMediaMeta up to its await.
MetaArrives(f) ==
  /\ Receive(f, Meta)
  /\ gate' = [gate EXCEPT ![f] = "asking"]
  /\ UNCHANGED <<incoming, vault, bubble>>

\* _onMediaMeta after its await: the transfer replaces whatever was incoming, as a
\* sink when it was refused.
GateAnswers(f) ==
  /\ gate[f] = "asking"
  /\ \E answer \in {"accepted", "refused"} :
       /\ gate' = [gate EXCEPT ![f] = answer]
       /\ incoming' = [id |-> f, discard |-> answer = "refused", received |-> <<>>]
  /\ UNCHANGED <<sent, wire, up, vault, bubble, locked, overlapped, late>>

\* _onChunk: a chunk goes to the transfer of now, or nowhere.
ChunkArrives(f, i) ==
  /\ Receive(f, i)
  /\ incoming' = IF incoming = Nothing THEN Nothing
                 ELSE [incoming EXCEPT !.received = Append(@, Frame(f, i))]
  /\ UNCHANGED <<gate, vault, bubble>>

BugEndArrives(f) ==
  /\ Receive(f, End)
  /\ incoming' = Nothing
  /\ IF incoming # Nothing /\ ~incoming.discard
     THEN /\ vault' = [vault EXCEPT ![incoming.id] = incoming.received]
          /\ bubble' = [bubble EXCEPT ![incoming.id] = "unseen"]
     ELSE UNCHANGED <<vault, bubble>>
  /\ UNCHANGED gate

\* _onMediaEnd, stashMedia: what has come in is put away under a bubble, whether
\* or not it is `size` bytes in `chunks` chunks.
EndArrives(f) ==
  /\ Receive(f, End)
  /\ incoming' = Nothing
  /\ IF incoming # Nothing /\ incoming.id = f /\ ~incoming.discard
     THEN /\ vault' = [vault EXCEPT ![f] = incoming.received]
          /\ bubble' = [bubble EXCEPT ![f] = "unseen"]
     ELSE UNCHANGED <<vault, bubble>>
  /\ UNCHANGED gate

------------------------------------------------------------------------------
(* Viewing, locking, closing *)

\* The one tap a bubble takes: consumeMedia gives a URL, or nothing any more.
Tap(f) ==
  /\ bubble[f] = "unseen"
  /\ bubble' = [bubble EXCEPT ![f] = IF vault[f] = NoBlob THEN "viewed" ELSE "shown"]
  /\ UNCHANGED <<sent, wire, up, gate, incoming, vault, locked, overlapped, late>>

\* burnMedia: the image has loaded, or the timer of a video or a recording is over.
Burn(f) ==
  /\ bubble[f] = "shown" /\ vault[f] # NoBlob
  /\ vault' = [vault EXCEPT ![f] = NoBlob]
  /\ UNCHANGED <<sent, wire, up, gate, incoming, bubble, locked, overlapped, late>>

BugLock ==
  /\ ~locked
  /\ locked' = TRUE
  /\ vault' = [f \in Files |-> NoBlob]
  /\ UNCHANGED <<sent, wire, up, gate, incoming, bubble, overlapped, late>>

\* lockForVpn: purgeAll, then the session is destroyed and the channel closed, so
\* that no frame still under way gets through.
Lock ==
  /\ ~locked
  /\ locked' = TRUE
  /\ vault' = [f \in Files |-> NoBlob]
  /\ up' = FALSE /\ wire' = <<>>
  /\ UNCHANGED <<sent, gate, incoming, bubble, overlapped, late>>

\* The connection ends in any other way; the vault stays.
ChannelCloses ==
  /\ up
  /\ up' = FALSE /\ wire' = <<>>
  /\ UNCHANGED <<sent, gate, incoming, vault, bubble, locked, overlapped, late>>

Next ==
  \/ \E f \in Files :
       \/ SendFrame(f)
       \/ MetaArrives(f) \/ GateAnswers(f) \/ EndArrives(f)
       \/ \E i \in 1..Chunks : ChunkArrives(f, i)
       \/ Tap(f) \/ Burn(f)
  \/ ChannelCloses
  \/ Lock

Spec == Init /\ [][Next]_vars

------------------------------------------------------------------------------
(* Properties *)

Parts == [file : Files, part : 1..Chunks]

\* A refused transfer is always a sink, and nothing is in the vault that was not
\* accepted and has no bubble to reveal it.
TypeOK ==
  /\ sent \in [Files -> 0..(End + 1)]
  /\ wire \in Seq([file : Files, part : 0..End])
  /\ gate \in [Files -> {"none", "asking", "accepted", "refused"}]
  /\ incoming # Nothing =>
       /\ gate[incoming.id] = IF incoming.discard THEN "refused" ELSE "accepted"
       /\ incoming.received \in Seq(Parts)
  /\ bubble \in [Files -> {"none", "unseen", "shown", "viewed"}]
  /\ \A f \in Files : vault[f] # NoBlob =>
       vault[f] \in Seq(Parts) /\ gate[f] = "accepted" /\ bubble[f] \in {"unseen", "shown"}

\* "binary chunk x N (ordered; belong to the most recent media-meta)", for a sender
\* who waits for one file to be sent before the next: however long the gate takes
\* and in whatever order it answers, a medium that can be viewed has no gap and
\* nothing of another file.  It can miss its beginning: the chunks that came while
\* the gate was being asked.
RenderedIsTail ==
  ~overlapped => \A f \in Files : vault[f] # NoBlob => IsSuffix(vault[f], ChunksOf(f))

Arrived(f) == sent[f] > End /\ \A i \in 1..Len(wire) : wire[i].file # f

\* A gate that answers before the next frame comes loses nothing: every accepted
\* file gets its bubble, and is whole.
WholeWhenPrompt ==
  ~overlapped /\ ~late =>
    \A f \in Files :
      /\ vault[f] # NoBlob => vault[f] = ChunksOf(f)
      /\ up /\ Arrived(f) /\ gate[f] = "accepted" => bubble[f] # "none"

\* A step that leaves the vault empty and reveals nothing.
StaysDark == \A f \in Files : vault'[f] = NoBlob /\ (bubble'[f] = "shown" => bubble[f] = "shown")

\* What the lock promises of view-once media: from the step that locks the gate on,
\* the vault is empty and stays so, and no medium is revealed that was not on the
\* screen already, whatever transfer, gate or bubble was under way.  It does not say
\* that nothing is left: purgeAll ends neither a medium that is on the screen, nor the
\* chunks of a transfer that has not ended, nor what its sender holds.
NothingRevealedAfterLock == [][locked' => StaysDark]_vars
================================================================================
