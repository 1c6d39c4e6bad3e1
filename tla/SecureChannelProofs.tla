-------------------------- MODULE SecureChannelProofs --------------------------
(***************************************************************************)
(* The handshake, the nonces and the refinement of SecureChannel, for any  *)
(* number of frames and any send buffer, whatever closes and whenever.     *)
(***************************************************************************)
EXTENDS SecureChannel, SequenceTheorems, TLAPS

Messages == {Handshake(n) : n \in 1..3} \cup {Transport(n) : n \in Frames}

ChannelTypes ==
  /\ genuine \in [Ends -> BOOLEAN]
  /\ channel \in [Ends -> {"connecting", "open", "closing", "closed"}]
  /\ out \in [Ends -> Seq(Messages)] /\ chain \in [Ends -> Seq(Messages)]
  /\ hs \in [Ends -> 0..3]
  /\ alive \in [Ends -> BOOLEAN] /\ finalizing \in [Ends -> BOOLEAN]
  /\ established \in [Ends -> BOOLEAN]
  /\ sealed \in [Ends -> 0..MaxFrames] /\ opening \in [Ends -> 0..MaxFrames]
  /\ sent \in [Ends -> Seq(Frames)] /\ received \in [Ends -> Seq(Frames)]
  /\ overrun \in BOOLEAN

\* How far the session of an end has come.
Lifecycle(e) ==
  /\ channel[e] = "open" => alive[e]
  /\ alive[e] => channel[e] \in {"open", "closing"}
  /\ channel[e] = "connecting" => hs[e] = 0 /\ chain[e] = <<>> /\ out[e] = <<>>
  /\ established[e] \/ finalizing[e] => hs[e] = 3
  /\ alive[e] /\ hs[e] = 3 => established[e] \/ finalizing[e]
  /\ sealed[e] > 0 => hs[e] = 3

Intact == ~overrun /\ \A e \in Ends : channel[e] \in {"connecting", "open"}

\* The handshake takes turns.
Turns == {<<0, 0>>, <<1, 0>>, <<1, 2>>, <<3, 2>>, <<3, 3>>}

(* A queue of h handshake messages, at most the one numbered n, and then the     *)
(* transport messages from nonce `from` up to `to`.                              *)
InLine(q, h, n, from, to) ==
  /\ from <= to
  /\ Len(q) = h + (to - from)
  /\ h = 1 => q[1] = Handshake(n)
  /\ \A i \in 1..(to - from) : q[h + i] = Transport(from + i - 1)

\* What is on its way to e, in the order in which e will handle it.
Coming(e) == chain[e] \o out[Other(e)]
Ahead(e) == IF hs[Other(e)] > hs[e] THEN 1 ELSE 0
ComingInLine(e) == InLine(Coming(e), Ahead(e), hs[Other(e)], opening[e], sealed[Other(e)])

InOrder ==
  Intact =>
    /\ <<hs[Initiator], hs[Responder]>> \in Turns
    /\ \A e \in Ends : ComingInLine(e)

\* Transport messages of q carry frames of s: what has left was reported as sent.
Reported(q, s) ==
  \A i \in 1..Len(q) : q[i].kind = "transport" => \E j \in 1..Len(s) : s[j] = q[i].n

\* The frames that have come out are the first ones that went in.
Piped(e) ==
  /\ Len(sent[e]) <= sealed[e]
  /\ \A i \in 1..Len(sent[e]) : i - 1 <= sent[e][i]
  /\ Reported(out[e], sent[e]) /\ Reported(chain[e], sent[Other(e)])
  /\ Len(received[e]) = opening[e] /\ opening[e] <= Len(sent[Other(e)])
  /\ \A i \in 1..opening[e] : sent[Other(e)][i] = i - 1 /\ received[e][i] = i - 1

IInv ==
  /\ ChannelTypes
  /\ \A e \in Ends : Lifecycle(e)
  /\ InOrder
  /\ \A e \in Ends : Piped(e)

------------------------------------------------------------------------------
(* Queues *)

LEMMA EmptyQueue == ASSUME NEW q, q = <<>> PROVE Len(q) = 0
OBVIOUS

LEMMA AppendFacts ==
  ASSUME NEW S, NEW q \in Seq(S), NEW m \in S
  PROVE  /\ Append(q, m) \in Seq(S) /\ Len(Append(q, m)) = Len(q) + 1
         /\ \A i \in 1..Len(q) : Append(q, m)[i] = q[i]
         /\ Append(q, m)[Len(q) + 1] = m
         /\ Len(q) \in Nat
OBVIOUS

LEMMA TailFacts ==
  ASSUME NEW S, NEW q \in Seq(S), q # <<>>
  PROVE  /\ Tail(q) \in Seq(S) /\ Len(Tail(q)) = Len(q) - 1
         /\ \A i \in 1..Len(q) - 1 : Tail(q)[i] = q[i + 1]
         /\ Head(q) = q[1] /\ Head(q) \in S /\ Len(q) \in Nat \ {0}
OBVIOUS

LEMMA FirstAndRest ==
  ASSUME NEW S, NEW q \in Seq(S), q # <<>>
  PROVE  /\ Head(q) \in S /\ Tail(q) \in Seq(S) /\ <<Head(q)>> \in Seq(S)
         /\ q = <<Head(q)>> \o Tail(q)
<1>1. /\ Tail(q) \in Seq(S) /\ Len(Tail(q)) = Len(q) - 1
      /\ \A i \in 1..Len(q) - 1 : Tail(q)[i] = q[i + 1]
      /\ Head(q) = q[1] /\ Head(q) \in S /\ Len(q) \in Nat \ {0}
  BY TailFacts
<1> DEFINE h == <<Head(q)>>
           t == Tail(q)
<1>2. h \in Seq(S) /\ Len(h) = 1 /\ h[1] = q[1]
  BY <1>1
<1>3. /\ t \in Seq(S) /\ Len(t) = Len(q) - 1
      /\ \A i \in 1..Len(q) - 1 : t[i] = q[i + 1]
  BY <1>1
<1> HIDE DEF h, t
<1>4. /\ h \o t \in Seq(S) /\ Len(h \o t) = Len(h) + Len(t)
      /\ \A i \in 1..Len(h) + Len(t) : (h \o t)[i] = IF i <= Len(h) THEN h[i] ELSE t[i - Len(h)]
  <2>1. h \in Seq(S) /\ t \in Seq(S)
    BY <1>2, <1>3
  <2> QED
    BY <2>1, ConcatProperties, Zenon
<1>5. Len(h) + Len(t) = Len(q)
  BY <1>1, <1>2, <1>3
<1>6. ASSUME NEW i \in 1..Len(q) PROVE q[i] = (h \o t)[i]
  <2>1. CASE i = 1
    BY <1>2, <1>4, <1>5, <2>1
  <2>2. CASE i # 1
    <3>1. ~(i <= Len(h)) /\ i - Len(h) = i - 1 /\ i - 1 \in 1..Len(q) - 1 /\ (i - 1) + 1 = i
      BY <1>1, <1>2, <2>2
    <3>2. (h \o t)[i] = t[i - 1]
      BY <1>4, <1>5, <3>1
    <3> QED
      BY <1>3, <3>1, <3>2
  <2> QED
    BY <2>1, <2>2
<1>7. q = h \o t
  BY <1>4, <1>5, <1>6, SeqEqual
<1> QED
  BY <1>1, <1>2, <1>7 DEF h, t

\* The first message of a queue, and what is left without it.
LEMMA RestOf ==
  ASSUME NEW S, NEW m \in S, NEW q \in Seq(S)
  PROVE  /\ <<m>> \o q \in Seq(S) /\ <<m>> \o q # <<>>
         /\ Head(<<m>> \o q) = m /\ Tail(<<m>> \o q) = q
<1> DEFINE h == <<m>>
           c == h \o q
<1>1. h \in Seq(S) /\ Len(h) = 1 /\ h[1] = m
  OBVIOUS
<1> HIDE DEF h
<1>2. /\ c \in Seq(S) /\ Len(c) = Len(h) + Len(q)
      /\ \A i \in 1..Len(h) + Len(q) : c[i] = IF i <= Len(h) THEN h[i] ELSE q[i - Len(h)]
  BY <1>1, ConcatProperties
<1> HIDE DEF c
<1>3. Len(q) \in Nat /\ Len(c) = Len(q) + 1
  BY <1>1, <1>2
<1>4. c # <<>> /\ c[1] = m
  BY <1>1, <1>2, <1>3
<1>5. /\ Tail(c) \in Seq(S) /\ Len(Tail(c)) = Len(q)
      /\ \A i \in 1..Len(q) : Tail(c)[i] = c[i + 1]
      /\ Head(c) = m
  BY <1>2, <1>3, <1>4, TailFacts
<1>6. ASSUME NEW i \in 1..Len(q) PROVE Tail(c)[i] = q[i]
  <2>1. ~(i + 1 <= Len(h)) /\ (i + 1) - Len(h) = i /\ i + 1 \in 1..Len(h) + Len(q)
    BY <1>1, <1>3
  <2> QED
    BY <1>2, <1>5, <2>1
<1>7. Tail(c) = q
  BY <1>5, <1>6, SeqEqual
<1> QED
  BY <1>2, <1>4, <1>5, <1>7 DEF c, h

\* A message that goes from the one part of a queue to the other stays in its place.
LEMMA PassedOn ==
  ASSUME NEW S, NEW q \in Seq(S), NEW r \in Seq(S), r # <<>>
  PROVE  Append(q, Head(r)) \o Tail(r) = q \o r
<1>1. /\ Head(r) \in S /\ Tail(r) \in Seq(S) /\ <<Head(r)>> \in Seq(S)
      /\ r = <<Head(r)>> \o Tail(r)
  BY FirstAndRest
<1>2. Append(q, Head(r)) = q \o <<Head(r)>>
  BY <1>1, AppendIsConcat
<1>3. (q \o <<Head(r)>>) \o Tail(r) = q \o (<<Head(r)>> \o Tail(r))
  BY <1>1, ConcatAssociative
<1> QED
  BY <1>1, <1>2, <1>3, Zenon

\* Taking from the front of a queue, and adding at its end.
LEMMA TakenOff ==
  ASSUME NEW S, NEW q \in Seq(S), NEW r \in Seq(S), q # <<>>
  PROVE  /\ Tail(q) \o r = Tail(q \o r) /\ Head(q \o r) = Head(q)
         /\ q \o r \in Seq(S) /\ q \o r # <<>>
<1>1. /\ Head(q) \in S /\ Tail(q) \in Seq(S) /\ <<Head(q)>> \in Seq(S)
      /\ q = <<Head(q)>> \o Tail(q)
  BY FirstAndRest
<1>2. (<<Head(q)>> \o Tail(q)) \o r = <<Head(q)>> \o (Tail(q) \o r)
  BY <1>1, ConcatAssociative
<1>3. q \o r = <<Head(q)>> \o (Tail(q) \o r)
  BY <1>1, <1>2, Zenon
<1>4. Tail(q) \o r \in Seq(S)
  BY <1>1, ConcatProperties
<1> DEFINE m == Head(q)
           t == Tail(q) \o r
<1>5. m \in S /\ t \in Seq(S) /\ q \o r = <<m>> \o t
  BY <1>1, <1>3, <1>4
<1> HIDE DEF m, t
<1>6. /\ <<m>> \o t \in Seq(S) /\ <<m>> \o t # <<>>
      /\ Head(<<m>> \o t) = m /\ Tail(<<m>> \o t) = t
  BY <1>5, RestOf
<1>7. q \o r \in Seq(S) /\ q \o r # <<>> /\ Head(q \o r) = m /\ Tail(q \o r) = t
  BY <1>5, <1>6, Zenon
<1> QED
  BY <1>7 DEF m, t

LEMMA AddedOn ==
  ASSUME NEW S, NEW q \in Seq(S), NEW r \in Seq(S), NEW m \in S
  PROVE  q \o Append(r, m) = Append(q \o r, m) /\ q \o r \in Seq(S)
<1>1. <<m>> \in Seq(S) /\ q \o r \in Seq(S)
  BY ConcatProperties
<1>2. Append(r, m) = r \o <<m>> /\ Append(q \o r, m) = (q \o r) \o <<m>>
  BY <1>1, AppendIsConcat
<1>3. (q \o r) \o <<m>> = q \o (r \o <<m>>)
  BY <1>1, ConcatAssociative
<1> QED
  BY <1>1, <1>2, <1>3, Zenon

------------------------------------------------------------------------------
(* Messages in line *)

LEMMA MessageKinds ==
  /\ \A n : Handshake(n).kind = "handshake" /\ Handshake(n).n = n
  /\ \A n : Transport(n).kind = "transport" /\ Transport(n).n = n
  /\ \A m, n : Handshake(m) = Handshake(n) => m = n
  /\ \A m, n : Handshake(m) # Transport(n)
<1>1. /\ \A n : Handshake(n).kind = "handshake" /\ Handshake(n).n = n
      /\ \A n : Transport(n).kind = "transport" /\ Transport(n).n = n
  BY DEF Handshake, Transport
<1>2. "handshake" # "transport"
  OBVIOUS
<1> QED
  BY <1>1, <1>2

\* A queue that begins with a handshake message goes on with transport messages.
LEMMA HandshakeTaken ==
  ASSUME NEW q \in Seq(Messages), q # <<>>, NEW n, NEW m, NEW from \in Nat, NEW to \in Nat,
         InLine(q, 1, n, from, to)
  PROVE  Head(q) = Handshake(n) /\ InLine(Tail(q), 0, m, from, to)
<1>1. /\ Tail(q) \in Seq(Messages) /\ Len(Tail(q)) = Len(q) - 1
      /\ \A i \in 1..Len(q) - 1 : Tail(q)[i] = q[i + 1]
      /\ Head(q) = q[1]
  BY TailFacts
<1>2. /\ from <= to /\ Len(q) = 1 + (to - from) /\ q[1] = Handshake(n)
      /\ \A i \in 1..(to - from) : q[1 + i] = Transport(from + i - 1)
  BY DEF InLine
<1> DEFINE t == Tail(q)
<1>3. /\ Len(t) = 0 + (to - from)
      /\ \A i \in 1..(to - from) : t[i] = q[i + 1]
  BY <1>1, <1>2
<1> HIDE DEF t
<1>4. ASSUME NEW i \in 1..(to - from) PROVE t[0 + i] = Transport(from + i - 1)
  <2>1. 0 + i = i /\ 1 + i = i + 1
    OBVIOUS
  <2> QED
    BY <1>2, <1>3, <2>1
<1>5. InLine(t, 0, m, from, to)
  BY <1>2, <1>3, <1>4 DEF InLine
<1> QED
  BY <1>1, <1>2, <1>5 DEF t

LEMMA TransportTaken ==
  ASSUME NEW q \in Seq(Messages), q # <<>>, NEW n, NEW m, NEW from \in Nat, NEW to \in Nat,
         InLine(q, 0, n, from, to)
  PROVE  Head(q) = Transport(from) /\ from < to /\ InLine(Tail(q), 0, m, from + 1, to)
<1>1. /\ Tail(q) \in Seq(Messages) /\ Len(Tail(q)) = Len(q) - 1
      /\ \A i \in 1..Len(q) - 1 : Tail(q)[i] = q[i + 1]
      /\ Head(q) = q[1] /\ Len(q) \in Nat \ {0}
  BY TailFacts
<1>2. /\ from <= to /\ Len(q) = to - from
      /\ \A i \in 1..(to - from) : q[0 + i] = Transport(from + i - 1)
  BY DEF InLine
<1>3. \A i \in 1..(to - from) : q[i] = Transport(from + i - 1)
  <2>1. \A i \in 1..(to - from) : 0 + i = i
    OBVIOUS
  <2> QED
    BY <1>2, <2>1
<1>4. from < to /\ from + 1 <= to
  BY <1>1, <1>2
<1>5. q[1] = Transport(from)
  <2>1. 1 \in 1..(to - from) /\ from + 1 - 1 = from
    BY <1>4
  <2> QED
    BY <1>3, <2>1
<1> DEFINE t == Tail(q)
<1>6. /\ Len(t) = 0 + (to - (from + 1))
      /\ \A i \in 1..(to - (from + 1)) : t[i] = q[i + 1]
  BY <1>1, <1>2
<1> HIDE DEF t
<1>7. ASSUME NEW i \in 1..(to - (from + 1)) PROVE t[0 + i] = Transport((from + 1) + i - 1)
  <2>1. i + 1 \in 1..(to - from) /\ from + (i + 1) - 1 = (from + 1) + i - 1 /\ 0 + i = i
    BY <1>4
  <2> QED
    BY <1>3, <1>6, <2>1
<1>8. InLine(t, 0, m, from + 1, to)
  BY <1>4, <1>6, <1>7 DEF InLine
<1> QED
  BY <1>1, <1>4, <1>5, <1>8 DEF t

LEMMA TransportAdded ==
  ASSUME NEW q \in Seq(Messages), NEW h \in {0, 1}, NEW n, NEW from \in Nat, NEW to \in Nat,
         InLine(q, h, n, from, to), Transport(to) \in Messages
  PROVE  InLine(Append(q, Transport(to)), h, n, from, to + 1)
<1> DEFINE a == Append(q, Transport(to))
<1>1. /\ Len(a) = Len(q) + 1 /\ \A i \in 1..Len(q) : a[i] = q[i]
      /\ a[Len(q) + 1] = Transport(to)
  BY AppendFacts
<1>2. /\ from <= to /\ Len(q) = h + (to - from) /\ (h = 1 => q[1] = Handshake(n))
      /\ \A i \in 1..(to - from) : q[h + i] = Transport(from + i - 1)
  BY DEF InLine
<1> HIDE DEF a
<1>3. from <= to + 1 /\ Len(a) = h + ((to + 1) - from)
  BY <1>1, <1>2
<1>4. h = 1 => a[1] = Handshake(n)
  BY <1>1, <1>2
<1>5. ASSUME NEW i \in 1..((to + 1) - from) PROVE a[h + i] = Transport(from + i - 1)
  <2>1. CASE i \in 1..(to - from)
    <3>1. h + i \in 1..Len(q)
      BY <1>2, <2>1
    <3> QED
      BY <1>1, <1>2, <2>1, <3>1
  <2>2. CASE i = (to + 1) - from
    <3>1. h + i = Len(q) + 1 /\ from + i - 1 = to
      BY <1>2, <2>2
    <3> QED
      BY <1>1, <3>1
  <2> QED
    BY <1>2, <2>1, <2>2
<1>6. InLine(a, h, n, from, to + 1)
  BY <1>3, <1>4, <1>5 DEF InLine
<1> QED
  BY <1>6 DEF a

\* A handshake message is only ever put into a queue that is empty.
LEMMA NothingInLine ==
  ASSUME NEW q \in Seq(Messages), NEW l, NEW from \in Nat, InLine(q, 0, l, from, 0)
  PROVE  q = <<>> /\ from = 0
<1>1. from <= 0 /\ Len(q) = 0 + (0 - from)
  BY DEF InLine
<1> QED
  BY <1>1

LEMMA HandshakeAdded ==
  ASSUME NEW q \in Seq(Messages), NEW l, NEW n \in 1..3, NEW from \in Nat,
         InLine(q, 0, l, from, 0)
  PROVE  InLine(Append(q, Handshake(n)), 1, n, from, 0)
<1>2. from = 0 /\ q = <<>>
  BY NothingInLine
<1> DEFINE a == Append(q, Handshake(n))
<1>3. Len(a) = 1 /\ a[1] = Handshake(n)
  BY <1>2
<1> HIDE DEF a
<1>4. InLine(a, 1, n, from, 0)
  BY <1>2, <1>3 DEF InLine
<1> QED
  BY <1>2, <1>4 DEF a

------------------------------------------------------------------------------
(* What was reported as sent *)

LEMMA ReportedTail ==
  ASSUME NEW S, NEW q \in Seq(S), NEW s, Reported(q, s), q # <<>>
  PROVE  Reported(Tail(q), s)
<1>1. /\ Len(Tail(q)) = Len(q) - 1 /\ Len(q) \in Nat \ {0}
      /\ \A i \in 1..Len(q) - 1 : Tail(q)[i] = q[i + 1]
  BY TailFacts
<1>2. ASSUME NEW i \in 1..Len(Tail(q)) PROVE Tail(q)[i] = q[i + 1] /\ i + 1 \in 1..Len(q)
  BY <1>1
<1> QED
  BY <1>2 DEF Reported

LEMMA ReportedAppend ==
  ASSUME NEW S, NEW q \in Seq(S), NEW m \in S, NEW s, Reported(q, s),
         m.kind = "transport" => \E j \in 1..Len(s) : s[j] = m.n
  PROVE  Reported(Append(q, m), s)
<1>1. /\ Len(Append(q, m)) = Len(q) + 1 /\ Len(q) \in Nat /\ Append(q, m)[Len(q) + 1] = m
      /\ \A i \in 1..Len(q) : Append(q, m)[i] = q[i]
  BY AppendFacts
<1>2. \A i \in 1..Len(Append(q, m)) : i \in 1..Len(q) \/ i = Len(q) + 1
  BY <1>1
<1> QED
  BY <1>1, <1>2 DEF Reported

LEMMA ReportedMore ==
  ASSUME NEW q, NEW S, NEW s \in Seq(S), NEW f \in S, Reported(q, s)
  PROVE  Reported(q, Append(s, f))
<1>1. /\ \A j \in 1..Len(s) : Append(s, f)[j] = s[j] /\ j \in 1..Len(Append(s, f))
  BY AppendFacts
<1> QED
  BY <1>1 DEF Reported

------------------------------------------------------------------------------
(* Types and lives of the sessions *)

LEMMA TwoEnds ==
  /\ Initiator \in Ends /\ Responder \in Ends /\ Initiator # Responder
  /\ Other(Initiator) = Responder /\ Other(Responder) = Initiator
  /\ \A e \in Ends : /\ e = Initiator \/ e = Responder
                     /\ Other(e) \in Ends /\ Other(e) # e /\ Other(Other(e)) = e
                     /\ \A g \in Ends : g = e \/ g = Other(e)
BY ChannelAssumption DEF ChannelAssumption, Ends, Other

LEMMA MessageTypes ==
  /\ \A n \in 1..3 : Handshake(n) \in Messages
  /\ \A f \in Frames : Transport(f) \in Messages
  /\ \A m \in Messages : /\ m.kind = "handshake" => m.n \in 1..3
                         /\ m.kind = "transport" => m.n \in Frames
  /\ \A n : Handshake(n) \in Messages => n \in 1..3
<1>1. \A m \in Messages : (\E n \in 1..3 : m = Handshake(n)) \/ (\E n \in Frames : m = Transport(n))
  BY DEF Messages
<1>2. "handshake" # "transport"
  OBVIOUS
<1> QED
  BY <1>1, <1>2, MessageKinds DEF Messages

LEMMA FrameNumbers ==
  /\ MaxFrames \in Nat /\ Capacity \in Nat \ {0}
  /\ \A f \in Frames : f \in Nat /\ f + 1 \in 0..MaxFrames
  /\ \A n \in 0..MaxFrames : n \in Nat /\ (n < MaxFrames => n \in Frames /\ n + 1 \in 0..MaxFrames)
BY ChannelAssumption DEF ChannelAssumption, Frames

\* The head of a queue that is not empty, and what stays behind.
LEMMA QueueTypes ==
  ASSUME ChannelTypes, NEW e \in Ends
  PROVE  /\ chain[e] # <<>> => Head(chain[e]) \in Messages /\ Tail(chain[e]) \in Seq(Messages)
         /\ out[e] # <<>> => Head(out[e]) \in Messages /\ Tail(out[e]) \in Seq(Messages)
BY DEF ChannelTypes

LEMMA SendBinaryTypes ==
  ASSUME ChannelTypes, NEW e \in Ends, NEW m \in Messages, SendBinary(e, m)
  PROVE  /\ out' \in [Ends -> Seq(Messages)]
         /\ out'[Other(e)] = out[Other(e)]
         /\ out'[e] = IF channel[e] = "open" /\ ~Full(e) THEN Append(out[e], m) ELSE out[e]
<1>1. out \in [Ends -> Seq(Messages)] /\ Append(out[e], m) \in Seq(Messages)
  BY DEF ChannelTypes
<1>2. CASE channel[e] = "open" /\ ~Full(e)
  <2>1. out' = [out EXCEPT ![e] = Append(@, m)]
    BY <1>2 DEF SendBinary
  <2> QED
    BY <1>1, <1>2, <2>1, TwoEnds
<1>3. CASE ~(channel[e] = "open" /\ ~Full(e))
  <2>1. out' = out
    BY <1>3 DEF SendBinary
  <2> QED
    BY <1>1, <1>3, <2>1
<1> QED
  BY <1>2, <1>3

\* A closed session is destroyed and its queues are gone.
LEMMA ClosedTypes ==
  ASSUME ChannelTypes, NEW e \in Ends, Closed(e)
  PROVE  /\ channel' \in [Ends -> {"connecting", "open", "closing", "closed"}]
         /\ alive' \in [Ends -> BOOLEAN]
         /\ out' \in [Ends -> Seq(Messages)] /\ chain' \in [Ends -> Seq(Messages)]
         /\ channel'[e] = "closed" /\ ~alive'[e] /\ out'[e] = <<>> /\ chain'[e] = <<>>
         /\ \A g \in Ends : g # e => /\ channel'[g] = channel[g] /\ alive'[g] = alive[g]
                                     /\ out'[g] = out[g] /\ chain'[g] = chain[g]
<1> DEFINE nothing == <<>>
<1>1. nothing \in Seq(Messages)
  OBVIOUS
<1>2. /\ channel' = [channel EXCEPT ![e] = "closed"] /\ alive' = [alive EXCEPT ![e] = FALSE]
      /\ out' = [out EXCEPT ![e] = nothing] /\ chain' = [chain EXCEPT ![e] = nothing]
  BY DEF Closed
<1> HIDE DEF nothing
<1>3. /\ channel' \in [Ends -> {"connecting", "open", "closing", "closed"}]
      /\ alive' \in [Ends -> BOOLEAN]
      /\ out' \in [Ends -> Seq(Messages)] /\ chain' \in [Ends -> Seq(Messages)]
  BY <1>1, <1>2 DEF ChannelTypes
<1>4. /\ channel'[e] = "closed" /\ ~alive'[e] /\ out'[e] = nothing /\ chain'[e] = nothing
      /\ \A g \in Ends : g # e => /\ channel'[g] = channel[g] /\ alive'[g] = alive[g]
                                  /\ out'[g] = out[g] /\ chain'[g] = chain[g]
  BY <1>2 DEF ChannelTypes
<1> QED
  BY <1>3, <1>4 DEF nothing

\* The nonce that a message is opened under is that of a frame.
LEMMA OpenedTypes ==
  ASSUME ChannelTypes, NEW e \in Ends, NextMessage(e), Head(chain[e]).kind = "transport"
  PROVE  Head(chain[e]).n \in Frames
BY QueueTypes, MessageTypes DEF NextMessage

LEMMA TypesInit == Init => ChannelTypes
<1> SUFFICES ASSUME Init PROVE ChannelTypes
  OBVIOUS
<1> DEFINE nothing == <<>>
<1>1. nothing \in Seq(Messages) /\ nothing \in Seq(Frames)
  OBVIOUS
<1>2. /\ out = [e \in Ends |-> nothing] /\ chain = [e \in Ends |-> nothing]
      /\ sent = [e \in Ends |-> nothing] /\ received = [e \in Ends |-> nothing]
  BY DEF Init
<1> HIDE DEF nothing
<1>3. 0 \in 0..MaxFrames
  BY FrameNumbers
<1>4. /\ out \in [Ends -> Seq(Messages)] /\ chain \in [Ends -> Seq(Messages)]
      /\ sent \in [Ends -> Seq(Frames)] /\ received \in [Ends -> Seq(Frames)]
  BY <1>1, <1>2
<1>5. /\ sealed \in [Ends -> 0..MaxFrames] /\ opening \in [Ends -> 0..MaxFrames]
      /\ hs \in [Ends -> 0..3]
  BY <1>3 DEF Init
<1> QED
  BY <1>4, <1>5 DEF Init, ChannelTypes

LEMMA TypesNext == ChannelTypes /\ [Next]_vars => ChannelTypes'
<1> SUFFICES ASSUME ChannelTypes, [Next]_vars PROVE ChannelTypes'
  OBVIOUS
<1>1. ASSUME NEW e \in Ends, Start(e) PROVE ChannelTypes'
  <2>1. /\ channel' = [channel EXCEPT ![e] = "open"] /\ alive' = [alive EXCEPT ![e] = TRUE]
        /\ UNCHANGED <<genuine, chain, finalizing, established, sealed, opening, sent, received, overrun>>
    BY <1>1 DEF Start
  <2>2. CASE e = Initiator
    <3>1. <<Handshake(1)>> \in Seq(Messages)
      BY MessageTypes
    <3> DEFINE m == <<Handshake(1)>>
    <3>2. hs' = [hs EXCEPT ![e] = 1] /\ out' = [out EXCEPT ![e] = m] /\ m \in Seq(Messages)
      BY <1>1, <2>2, <3>1 DEF Start
    <3> HIDE DEF m
    <3> QED
      BY <2>1, <3>2 DEF ChannelTypes
  <2>3. CASE e # Initiator
    <3>1. UNCHANGED <<hs, out>>
      BY <1>1, <2>3 DEF Start
    <3> QED
      BY <2>1, <3>1 DEF ChannelTypes
  <2> QED
    BY <2>2, <2>3
<1>2. ASSUME NEW e \in Ends, Transmit(e) PROVE ChannelTypes'
  <2>1. /\ out' = [out EXCEPT ![e] = Tail(@)]
        /\ chain' = [chain EXCEPT ![Other(e)] = Append(@, Head(out[e]))]
        /\ UNCHANGED <<genuine, channel, alive, finalizing, established, noise>>
        /\ out[e] # <<>>
    BY <1>2 DEF Transmit
  <2>2. Tail(out[e]) \in Seq(Messages) /\ Append(chain[Other(e)], Head(out[e])) \in Seq(Messages)
    <3>1. Tail(out[e]) \in Seq(Messages) /\ Head(out[e]) \in Messages
      BY <2>1, QueueTypes
    <3>2. chain[Other(e)] \in Seq(Messages)
      BY TwoEnds DEF ChannelTypes
    <3> QED
      BY <3>1, <3>2
  <2> QED
    BY <2>1, <2>2, TwoEnds DEF ChannelTypes, noise
<1>3. ASSUME NEW e \in Ends, Close(e) PROVE ChannelTypes'
  <2>1. Closed(e) /\ UNCHANGED <<genuine, finalizing, established, noise>>
    BY <1>3 DEF Close
  <2> QED
    BY <2>1, ClosedTypes DEF ChannelTypes, noise
<1>4. ASSUME NEW e \in Ends, Closing(e) PROVE ChannelTypes'
  BY <1>4 DEF Closing, ChannelTypes, noise
<1>5. ASSUME NEW e \in Ends, OnHandshake(e) PROVE ChannelTypes'
  <2>1. /\ NextMessage(e) /\ Head(chain[e]) = Handshake(hs[e] + 1)
        /\ chain' = [chain EXCEPT ![e] = Tail(@)]
        /\ hs' = [hs EXCEPT ![e] = IF hs[e] + 2 <= 3 THEN @ + 2 ELSE @ + 1]
        /\ finalizing' = [finalizing EXCEPT ![e] = hs'[e] = 3]
        /\ UNCHANGED <<genuine, channel, alive, established, sealed, opening, sent, received, overrun>>
    BY <1>5 DEF OnHandshake
  <2>2. chain[e] # <<>>
    BY <2>1 DEF NextMessage
  <2>3. Tail(chain[e]) \in Seq(Messages) /\ hs[e] + 1 \in 1..3
    BY <2>1, <2>2, QueueTypes, MessageTypes
  <2>4. chain' \in [Ends -> Seq(Messages)] /\ finalizing' \in [Ends -> BOOLEAN]
    BY <2>1, <2>3 DEF ChannelTypes
  <2>5. hs' \in [Ends -> 0..3]
    <3>1. hs[e] \in 0..2 /\ hs \in [Ends -> 0..3]
      BY <2>3 DEF ChannelTypes
    <3>2. (IF hs[e] + 2 <= 3 THEN hs[e] + 2 ELSE hs[e] + 1) \in 0..3
      BY <3>1
    <3> QED
      BY <2>1, <3>1, <3>2
  <2>6. out' \in [Ends -> Seq(Messages)]
    <3>1. CASE hs[e] + 2 <= 3
      <4>1. SendBinary(e, Handshake(hs[e] + 2)) /\ Handshake(hs[e] + 2) \in Messages
        <5>1. hs[e] + 2 \in 1..3
          <6>1. hs[e] \in 0..3
            BY DEF ChannelTypes
          <6> QED
            BY <3>1, <6>1
        <5> QED
          BY <1>5, <3>1, <5>1, MessageTypes DEF OnHandshake
      <4> QED
        BY <4>1, SendBinaryTypes
    <3>2. CASE ~(hs[e] + 2 <= 3)
      BY <1>5, <3>2 DEF OnHandshake, ChannelTypes
    <3> QED
      BY <3>1, <3>2
  <2> QED
    BY <2>1, <2>4, <2>5, <2>6 DEF ChannelTypes
<1>6. ASSUME NEW e \in Ends, Finalized(e) PROVE ChannelTypes'
  <2>1. finalizing' = [finalizing EXCEPT ![e] = FALSE] /\ UNCHANGED <<genuine, noise>>
    BY <1>6 DEF Finalized
  <2>2. CASE genuine[e]
    <3>1. established' = [established EXCEPT ![e] = TRUE] /\ UNCHANGED <<channel, out, chain, alive>>
      BY <1>6, <2>2 DEF Finalized
    <3> QED
      BY <2>1, <3>1 DEF ChannelTypes, noise
  <2>3. CASE ~genuine[e]
    <3>1. Closed(e) /\ UNCHANGED established
      BY <1>6, <2>3 DEF Finalized
    <3> QED
      BY <2>1, <3>1, ClosedTypes DEF ChannelTypes, noise
  <2> QED
    BY <2>2, <2>3
<1>7. ASSUME NEW e \in Ends, OnTransport(e) PROVE ChannelTypes'
  <2>1. /\ NextMessage(e) /\ Head(chain[e]).kind = "transport"
        /\ chain' = [chain EXCEPT ![e] = Tail(@)]
        /\ UNCHANGED <<genuine, channel, out, hs, alive, finalizing, established, sealed, sent, overrun>>
    BY <1>7 DEF OnTransport
  <2>2. chain' \in [Ends -> Seq(Messages)]
    <3>1. Tail(chain[e]) \in Seq(Messages)
      BY <2>1, QueueTypes DEF NextMessage
    <3> QED
      BY <2>1, <3>1 DEF ChannelTypes
  <2>3. CASE established[e] /\ Head(chain[e]).n = opening[e]
    <3>1. /\ opening' = [opening EXCEPT ![e] = @ + 1]
          /\ received' = [received EXCEPT ![e] = Append(@, Head(chain[e]).n)]
      BY <1>7, <2>3 DEF OnTransport
    <3>2. Head(chain[e]).n \in Frames
      BY <2>1, OpenedTypes
    <3>3. opening[e] + 1 \in 0..MaxFrames /\ Append(received[e], Head(chain[e]).n) \in Seq(Frames)
      BY <2>3, <3>2, FrameNumbers DEF ChannelTypes
    <3> QED
      BY <2>1, <2>2, <3>1, <3>3 DEF ChannelTypes
  <2>4. CASE ~(established[e] /\ Head(chain[e]).n = opening[e])
    <3>1. UNCHANGED <<opening, received>>
      BY <1>7, <2>4 DEF OnTransport
    <3> QED
      BY <2>1, <2>2, <3>1 DEF ChannelTypes
  <2> QED
    BY <2>3, <2>4
<1>8. ASSUME NEW e \in Ends, Send(e) PROVE ChannelTypes'
  <2>1. /\ sealed[e] < MaxFrames /\ sealed' = [sealed EXCEPT ![e] = @ + 1]
        /\ SendBinary(e, Transport(sealed[e]))
        /\ sent' = IF channel[e] = "open" /\ ~Full(e) THEN [sent EXCEPT ![e] = Append(@, sealed[e])]
                   ELSE sent
        /\ overrun' = (overrun \/ (channel[e] = "open" /\ Full(e)))
        /\ UNCHANGED <<genuine, channel, chain, hs, alive, finalizing, established, opening, received>>
    BY <1>8 DEF Send
  <2>2. sealed[e] \in Frames /\ sealed[e] + 1 \in 0..MaxFrames
    BY <2>1, FrameNumbers DEF ChannelTypes
  <2>3. sealed' \in [Ends -> 0..MaxFrames]
    BY <2>1, <2>2 DEF ChannelTypes
  <2>4. out' \in [Ends -> Seq(Messages)]
    BY <2>1, <2>2, MessageTypes, SendBinaryTypes
  <2>5. sent' \in [Ends -> Seq(Frames)]
    <3>1. Append(sent[e], sealed[e]) \in Seq(Frames) /\ sent \in [Ends -> Seq(Frames)]
      BY <2>2 DEF ChannelTypes
    <3> QED
      BY <2>1, <3>1
  <2>6. overrun' \in BOOLEAN
    BY <2>1
  <2> QED
    BY <2>1, <2>3, <2>4, <2>5, <2>6 DEF ChannelTypes
<1>9. CASE UNCHANGED vars
  BY <1>9 DEF ChannelTypes, vars
<1> QED
  BY <1>1, <1>2, <1>3, <1>4, <1>5, <1>6, <1>7, <1>8, <1>9 DEF Next, CloseEvent, Handlers

------------------------------------------------------------------------------
(* What the actions do at the two ends *)

LEMMA OnStart ==
  ASSUME ChannelTypes, NEW e \in Ends, Start(e)
  PROVE  /\ channel[e] = "connecting" /\ channel'[e] = "open" /\ channel'[Other(e)] = channel[Other(e)]
         /\ alive'[e] /\ alive'[Other(e)] = alive[Other(e)]
         /\ hs'[Other(e)] = hs[Other(e)] /\ out'[Other(e)] = out[Other(e)]
         /\ e = Initiator => hs'[e] = 1 /\ out'[e] = <<Handshake(1)>>
         /\ e # Initiator => UNCHANGED <<hs, out>>
         /\ UNCHANGED <<chain, finalizing, established, sealed, opening, sent, received, overrun>>
BY TwoEnds DEF Start, ChannelTypes

LEMMA OnTransmit ==
  ASSUME ChannelTypes, NEW e \in Ends, Transmit(e)
  PROVE  /\ out[e] # <<>> /\ channel[Other(e)] = "open"
         /\ out'[e] = Tail(out[e]) /\ out'[Other(e)] = out[Other(e)]
         /\ chain'[e] = chain[e] /\ chain'[Other(e)] = Append(chain[Other(e)], Head(out[e]))
         /\ UNCHANGED <<channel, alive, finalizing, established, hs, sealed, opening, sent,
                        received, overrun>>
BY TwoEnds DEF Transmit, ChannelTypes, noise

LEMMA OnHandshakeFacts ==
  ASSUME ChannelTypes, NEW e \in Ends, OnHandshake(e)
  PROVE  /\ alive[e] /\ ~finalizing[e] /\ chain[e] # <<>>
         /\ Head(chain[e]) = Handshake(hs[e] + 1) /\ hs[e] \in 0..2
         /\ chain'[e] = Tail(chain[e]) /\ chain'[Other(e)] = chain[Other(e)]
         /\ hs'[Other(e)] = hs[Other(e)] /\ out'[Other(e)] = out[Other(e)]
         /\ hs[e] < 2 =>
              /\ hs'[e] = hs[e] + 2
              /\ out'[e] = IF channel[e] = "open" /\ ~Full(e)
                           THEN Append(out[e], Handshake(hs[e] + 2)) ELSE out[e]
         /\ hs[e] = 2 => hs'[e] = 3 /\ out' = out
         /\ finalizing'[e] <=> hs'[e] = 3
         /\ finalizing'[Other(e)] = finalizing[Other(e)]
         /\ UNCHANGED <<channel, alive, established, sealed, opening, sent, received, overrun>>
<1>1. /\ NextMessage(e) /\ Head(chain[e]) = Handshake(hs[e] + 1)
      /\ chain' = [chain EXCEPT ![e] = Tail(@)]
      /\ hs' = [hs EXCEPT ![e] = IF hs[e] + 2 <= 3 THEN @ + 2 ELSE @ + 1]
      /\ finalizing' = [finalizing EXCEPT ![e] = hs'[e] = 3]
      /\ UNCHANGED <<channel, alive, established, sealed, opening, sent, received, overrun>>
  BY DEF OnHandshake
<1>2. alive[e] /\ ~finalizing[e] /\ chain[e] # <<>>
  BY <1>1 DEF NextMessage
<1>3. hs[e] \in 0..2
  <2>1. hs[e] \in 0..3
    BY DEF ChannelTypes
  <2>2. hs[e] + 1 \in 1..3
    BY <1>1, <1>2, QueueTypes, MessageTypes
  <2> QED
    BY <2>1, <2>2
<1>4. /\ chain'[e] = Tail(chain[e]) /\ chain'[Other(e)] = chain[Other(e)]
      /\ hs'[Other(e)] = hs[Other(e)]
      /\ hs'[e] = IF hs[e] + 2 <= 3 THEN hs[e] + 2 ELSE hs[e] + 1
      /\ finalizing'[e] <=> hs'[e] = 3
      /\ finalizing'[Other(e)] = finalizing[Other(e)]
  BY <1>1, TwoEnds DEF ChannelTypes
<1>5. CASE hs[e] < 2
  <2>1. hs[e] + 2 <= 3 /\ hs[e] + 2 \in 1..3
    BY <1>3, <1>5
  <2>2. SendBinary(e, Handshake(hs[e] + 2))
    BY <2>1 DEF OnHandshake
  <2>3. /\ out'[Other(e)] = out[Other(e)]
        /\ out'[e] = IF channel[e] = "open" /\ ~Full(e)
                     THEN Append(out[e], Handshake(hs[e] + 2)) ELSE out[e]
    BY <2>1, <2>2, MessageTypes, SendBinaryTypes
  <2>4. hs'[e] = hs[e] + 2 /\ hs[e] # 2
    BY <1>4, <1>5, <2>1
  <2> QED
    BY <1>1, <1>2, <1>3, <1>4, <2>3, <2>4
<1>6. CASE hs[e] = 2
  <2>1. ~(hs[e] + 2 <= 3) /\ hs[e] + 1 = 3 /\ ~(hs[e] < 2)
    BY <1>6
  <2>2. out' = out
    BY <2>1 DEF OnHandshake
  <2>3. hs'[e] = 3
    BY <1>4, <2>1
  <2> QED
    BY <1>1, <1>2, <1>3, <1>4, <2>1, <2>2, <2>3
<1> QED
  BY <1>3, <1>5, <1>6

LEMMA OnTransportFacts ==
  ASSUME ChannelTypes, NEW e \in Ends, OnTransport(e)
  PROVE  /\ alive[e] /\ ~finalizing[e] /\ chain[e] # <<>> /\ Head(chain[e]).kind = "transport"
         /\ chain'[e] = Tail(chain[e]) /\ chain'[Other(e)] = chain[Other(e)]
         /\ opening'[Other(e)] = opening[Other(e)] /\ received'[Other(e)] = received[Other(e)]
         /\ IF established[e] /\ Head(chain[e]).n = opening[e]
            THEN /\ opening'[e] = opening[e] + 1
                 /\ received'[e] = Append(received[e], Head(chain[e]).n)
            ELSE opening'[e] = opening[e] /\ received'[e] = received[e]
         /\ UNCHANGED <<channel, out, hs, alive, finalizing, established, sealed, sent, overrun>>
BY TwoEnds DEF OnTransport, NextMessage, ChannelTypes

LEMMA OnSend ==
  ASSUME ChannelTypes, NEW e \in Ends, Send(e)
  PROVE  /\ established[e] /\ alive[e] /\ sealed[e] \in Frames
         /\ sealed'[e] = sealed[e] + 1 /\ sealed'[Other(e)] = sealed[Other(e)]
         /\ out'[Other(e)] = out[Other(e)] /\ sent'[Other(e)] = sent[Other(e)]
         /\ IF channel[e] = "open" /\ ~Full(e)
            THEN /\ out'[e] = Append(out[e], Transport(sealed[e]))
                 /\ sent'[e] = Append(sent[e], sealed[e])
            ELSE out'[e] = out[e] /\ sent'[e] = sent[e]
         /\ ~overrun' => ~overrun /\ ~(channel[e] = "open" /\ Full(e))
         /\ UNCHANGED <<channel, chain, hs, alive, finalizing, established, opening, received>>
<1>1. /\ established[e] /\ alive[e]
      /\ sealed[e] < MaxFrames /\ sealed' = [sealed EXCEPT ![e] = @ + 1]
      /\ SendBinary(e, Transport(sealed[e]))
      /\ sent' = IF channel[e] = "open" /\ ~Full(e) THEN [sent EXCEPT ![e] = Append(@, sealed[e])]
                 ELSE sent
      /\ overrun' = (overrun \/ (channel[e] = "open" /\ Full(e)))
      /\ UNCHANGED <<channel, chain, hs, alive, finalizing, established, opening, received>>
  BY DEF Send
<1>2. sealed[e] \in Frames
  BY <1>1, FrameNumbers DEF ChannelTypes
<1>3. /\ out'[Other(e)] = out[Other(e)]
      /\ out'[e] = IF channel[e] = "open" /\ ~Full(e) THEN Append(out[e], Transport(sealed[e])) ELSE out[e]
  BY <1>1, <1>2, MessageTypes, SendBinaryTypes
<1>4. sealed'[e] = sealed[e] + 1 /\ sealed'[Other(e)] = sealed[Other(e)]
  BY <1>1, TwoEnds DEF ChannelTypes
<1>5. /\ sent'[Other(e)] = sent[Other(e)]
      /\ sent'[e] = IF channel[e] = "open" /\ ~Full(e) THEN Append(sent[e], sealed[e]) ELSE sent[e]
  BY <1>1, TwoEnds DEF ChannelTypes
<1> QED
  BY <1>1, <1>2, <1>3, <1>4, <1>5

LEMMA OnFinalized ==
  ASSUME ChannelTypes, NEW e \in Ends, Finalized(e)
  PROVE  /\ finalizing[e] /\ ~finalizing'[e] /\ finalizing'[Other(e)] = finalizing[Other(e)]
         /\ established'[Other(e)] = established[Other(e)]
         /\ \/ genuine[e] /\ established'[e] /\ UNCHANGED <<channel, out, chain, alive>>
            \/ Closed(e) /\ established'[e] = established[e]
         /\ UNCHANGED <<hs, sealed, opening, sent, received, overrun>>
<1>1. finalizing[e] /\ ~finalizing'[e] /\ finalizing'[Other(e)] = finalizing[Other(e)]
  BY TwoEnds DEF Finalized, ChannelTypes
<1>2. CASE genuine[e]
  <2>1. established' = [established EXCEPT ![e] = TRUE] /\ UNCHANGED <<channel, out, chain, alive>>
    BY <1>2 DEF Finalized
  <2>2. established'[e] /\ established'[Other(e)] = established[Other(e)]
    BY <2>1, TwoEnds DEF ChannelTypes
  <2> QED
    BY <1>1, <1>2, <2>1, <2>2 DEF Finalized, noise
<1>3. CASE ~genuine[e]
  <2>1. Closed(e) /\ established' = established
    BY <1>3 DEF Finalized
  <2> QED
    BY <1>1, <2>1 DEF Finalized, noise
<1> QED
  BY <1>2, <1>3

LEMMA OnClose ==
  ASSUME ChannelTypes, NEW e \in Ends, Close(e)
  PROVE  Closed(e) /\ UNCHANGED <<finalizing, established, hs, sealed, opening, sent, received, overrun>>
BY DEF Close, noise

LEMMA OnClosing ==
  ASSUME ChannelTypes, NEW e \in Ends, Closing(e)
  PROVE  /\ channel'[e] = "closing" /\ channel'[Other(e)] = channel[Other(e)]
         /\ UNCHANGED <<out, chain, alive, finalizing, established, hs, sealed, opening, sent,
                        received, overrun>>
BY TwoEnds DEF Closing, noise, ChannelTypes

------------------------------------------------------------------------------
(* The session of an end *)

LEMMA LifeNext ==
  ASSUME ChannelTypes, \A g \in Ends : Lifecycle(g), [Next]_vars
  PROVE  \A g \in Ends : Lifecycle(g)'
<1> SUFFICES ASSUME NEW g \in Ends PROVE Lifecycle(g)'
  OBVIOUS
<1>0. Lifecycle(g)
  OBVIOUS
<1>1. ASSUME /\ channel'[g] = channel[g] /\ hs'[g] = hs[g] /\ chain'[g] = chain[g]
             /\ out'[g] = out[g] /\ alive'[g] = alive[g] /\ sealed'[g] = sealed[g]
             /\ established'[g] = established[g] /\ finalizing'[g] = finalizing[g]
      PROVE  Lifecycle(g)'
  BY <1>0, <1>1 DEF Lifecycle
<1>2. ASSUME NEW e \in Ends, Start(e) PROVE Lifecycle(g)'
  <2>1. CASE g = e
    BY <1>0, <1>2, <2>1, OnStart DEF Lifecycle
  <2>2. CASE g = Other(e)
    BY <1>1, <1>2, <2>2, OnStart, TwoEnds
  <2> QED
    BY <2>1, <2>2, TwoEnds
<1>3. ASSUME NEW e \in Ends, Transmit(e) PROVE Lifecycle(g)'
  <2>1. CASE g = e
    <3>1. channel[g] # "connecting"
      BY <1>0, <1>3, <2>1, OnTransmit DEF Lifecycle
    <3> QED
      BY <1>0, <1>3, <2>1, <3>1, OnTransmit DEF Lifecycle
  <2>2. CASE g = Other(e)
    BY <1>0, <1>3, <2>2, OnTransmit DEF Lifecycle
  <2> QED
    BY <2>1, <2>2, TwoEnds
<1>4. ASSUME NEW e \in Ends, Closed(e),
             UNCHANGED <<hs, sealed>>, finalizing'[g] => finalizing[g], established'[g] = established[g],
             g # e => finalizing'[g] = finalizing[g]
      PROVE  Lifecycle(g)'
  <2>1. CASE g = e
    BY <1>0, <1>4, <2>1, ClosedTypes DEF Lifecycle
  <2>2. CASE g # e
    <3>1. channel'[g] = channel[g] /\ alive'[g] = alive[g] /\ out'[g] = out[g] /\ chain'[g] = chain[g]
      BY <1>4, <2>2, ClosedTypes
    <3> QED
      BY <1>1, <1>4, <2>2, <3>1
  <2> QED
    BY <2>1, <2>2
<1>5. ASSUME NEW e \in Ends, Close(e) PROVE Lifecycle(g)'
  BY <1>4, <1>5, OnClose
<1>6. ASSUME NEW e \in Ends, Closing(e) PROVE Lifecycle(g)'
  <2>1. CASE g = e
    BY <1>0, <1>6, <2>1, OnClosing DEF Lifecycle
  <2>2. CASE g = Other(e)
    BY <1>1, <1>6, <2>2, OnClosing
  <2> QED
    BY <2>1, <2>2, TwoEnds
<1>7. ASSUME NEW e \in Ends, OnHandshake(e) PROVE Lifecycle(g)'
  <2>1. CASE g = e
    <3>1. /\ channel'[g] = channel[g] /\ alive'[g] = alive[g] /\ alive[g]
          /\ established'[g] = established[g] /\ sealed'[g] = sealed[g]
          /\ hs[g] \in 0..2 /\ (finalizing'[g] <=> hs'[g] = 3)
      BY <1>7, <2>1, OnHandshakeFacts
    <3>2. channel[g] # "connecting" /\ hs[g] # 3
      BY <1>0, <3>1 DEF Lifecycle
    <3>3. ~established[g] /\ ~(sealed[g] > 0)
      BY <1>0, <3>2 DEF Lifecycle
    <3> QED
      BY <1>0, <3>1, <3>2, <3>3 DEF Lifecycle
  <2>2. CASE g = Other(e)
    BY <1>1, <1>7, <2>2, OnHandshakeFacts
  <2> QED
    BY <2>1, <2>2, TwoEnds
<1>8. ASSUME NEW e \in Ends, Finalized(e) PROVE Lifecycle(g)'
  <2>1. CASE Closed(e) /\ established'[e] = established[e]
    BY <1>4, <1>8, <2>1, OnFinalized, TwoEnds
  <2>2. CASE established'[e] /\ UNCHANGED <<channel, out, chain, alive>>
    <3>1. CASE g = e
      BY <1>0, <1>8, <2>2, <3>1, OnFinalized DEF Lifecycle
    <3>2. CASE g = Other(e)
      BY <1>1, <1>8, <2>2, <3>2, OnFinalized
    <3> QED
      BY <3>1, <3>2, TwoEnds
  <2> QED
    BY <1>8, <2>1, <2>2, OnFinalized
<1>9. ASSUME NEW e \in Ends, OnTransport(e) PROVE Lifecycle(g)'
  <2>1. CASE g = e
    BY <1>0, <1>9, <2>1, OnTransportFacts DEF Lifecycle
  <2>2. CASE g = Other(e)
    BY <1>1, <1>9, <2>2, OnTransportFacts
  <2> QED
    BY <2>1, <2>2, TwoEnds
<1>10. ASSUME NEW e \in Ends, Send(e) PROVE Lifecycle(g)'
  <2>1. CASE g = e
    BY <1>0, <1>10, <2>1, OnSend DEF Lifecycle
  <2>2. CASE g = Other(e)
    BY <1>1, <1>10, <2>2, OnSend
  <2> QED
    BY <2>1, <2>2, TwoEnds
<1>11. CASE UNCHANGED vars
  BY <1>1, <1>11 DEF vars
<1> QED
  BY <1>2, <1>3, <1>5, <1>6, <1>7, <1>8, <1>9, <1>10, <1>11 DEF Next, CloseEvent, Handlers

------------------------------------------------------------------------------
(* One message after the other *)

LEMMA ComingTypes ==
  ASSUME ChannelTypes, NEW e \in Ends
  PROVE  /\ Coming(e) \in Seq(Messages) /\ chain[e] \in Seq(Messages) /\ out[e] \in Seq(Messages)
         /\ out[Other(e)] \in Seq(Messages) /\ hs[e] \in 0..3 /\ Ahead(e) \in {0, 1}
         /\ opening[e] \in Nat /\ sealed[e] \in Nat /\ sealed[Other(e)] \in Nat
<1>1. /\ chain[e] \in Seq(Messages) /\ out[e] \in Seq(Messages) /\ out[Other(e)] \in Seq(Messages)
      /\ hs[e] \in 0..3
      /\ opening[e] \in 0..MaxFrames /\ sealed[e] \in 0..MaxFrames /\ sealed[Other(e)] \in 0..MaxFrames
  BY TwoEnds DEF ChannelTypes
<1>2. Coming(e) \in Seq(Messages)
  BY <1>1, ConcatProperties DEF Coming
<1> QED
  BY <1>1, <1>2, FrameNumbers DEF Ahead

\* Whoever is behind is so by one message, and both move on in turns.
LEMMA TakingTurns ==
  ASSUME <<hs[Initiator], hs[Responder]>> \in Turns, NEW e \in Ends
  PROVE  /\ hs[e] \in 0..3 /\ hs[Other(e)] \in 0..3
         /\ hs[Other(e)] > hs[e] => hs[Other(e)] = hs[e] + 1
         /\ hs[Other(e)] = 3 => hs[e] \in {2, 3}
         /\ \A to \in 0..3 :
              hs[Other(e)] = hs[e] + 1 /\ to = (IF hs[e] = 2 THEN 3 ELSE hs[e] + 2) =>
                /\ e = Initiator => <<to, hs[Responder]>> \in Turns
                /\ e = Responder => <<hs[Initiator], to>> \in Turns
<1> DEFINE i == hs[Initiator]
           r == hs[Responder]
<1>1. \/ (i = 0 /\ r = 0) \/ (i = 1 /\ r = 0) \/ (i = 1 /\ r = 2)
      \/ (i = 3 /\ r = 2) \/ (i = 3 /\ r = 3)
  BY DEF Turns
<1>2. \/ e = Initiator /\ hs[e] = i /\ hs[Other(e)] = r
      \/ e = Responder /\ hs[e] = r /\ hs[Other(e)] = i
  BY TwoEnds
<1> HIDE DEF i, r
<1>3. ASSUME NEW to \in 0..3, hs[Other(e)] = hs[e] + 1, to = (IF hs[e] = 2 THEN 3 ELSE hs[e] + 2)
      PROVE  /\ e = Initiator => <<to, r>> \in Turns
             /\ e = Responder => <<i, to>> \in Turns
  BY <1>1, <1>2, <1>3, TwoEnds DEF Turns
<1> QED
  BY <1>1, <1>2, <1>3 DEF i, r

LEMMA IntactKept == ASSUME ChannelTypes, [Next]_vars, Intact' PROVE Intact
<1>1. ASSUME channel' = channel, overrun' = overrun PROVE Intact
  BY <1>1 DEF Intact
<1>2. ASSUME NEW e \in Ends, channel'[e] \in {"closing", "closed"} PROVE FALSE
  BY <1>2 DEF Intact
<1>3. ASSUME NEW e \in Ends, Start(e) PROVE Intact
  <2>1. channel[e] = "connecting" /\ channel'[Other(e)] = channel[Other(e)] /\ overrun' = overrun
    BY <1>3, OnStart
  <2> QED
    BY <2>1, TwoEnds DEF Intact
<1>4. ASSUME NEW e \in Ends, Finalized(e) PROVE Intact
  BY <1>1, <1>2, <1>4, OnFinalized, ClosedTypes
<1>5. ASSUME NEW e \in Ends, Send(e) PROVE Intact
  BY <1>5, OnSend DEF Intact
<1>6. ASSUME NEW e \in Ends, Close(e) PROVE Intact
  BY <1>2, <1>6, OnClose, ClosedTypes
<1>7. ASSUME NEW e \in Ends, Closing(e) PROVE Intact
  BY <1>2, <1>7, OnClosing
<1>8. ASSUME NEW e \in Ends, Transmit(e) PROVE Intact
  BY <1>1, <1>8, OnTransmit
<1>9. ASSUME NEW e \in Ends, OnHandshake(e) PROVE Intact
  BY <1>1, <1>9, OnHandshakeFacts
<1>10. ASSUME NEW e \in Ends, OnTransport(e) PROVE Intact
  BY <1>1, <1>10, OnTransportFacts
<1>11. CASE UNCHANGED vars
  BY <1>1, <1>11 DEF vars
<1> QED
  BY <1>3, <1>4, <1>5, <1>6, <1>7, <1>8, <1>9, <1>10, <1>11 DEF Next, CloseEvent, Handlers

\* An end that sends a handshake message and has sealed nothing.
LEMMA HandshakeLeaves ==
  ASSUME ChannelTypes, NEW e \in Ends, NEW n \in 1..3, sealed[e] = 0,
         ComingInLine(Other(e)), Ahead(Other(e)) = 0, out'[e] = Append(out[e], Handshake(n)),
         chain'[Other(e)] = chain[Other(e)], hs'[e] = n, n > hs'[Other(e)], hs'[Other(e)] \in 0..3,
         UNCHANGED <<opening, sealed>>
  PROVE  ComingInLine(Other(e))'
<1> DEFINE o == Other(e)
           q == Coming(o)
<1>1. o \in Ends /\ Other(o) = e
  BY TwoEnds
<1>2. q \in Seq(Messages) /\ opening[o] \in Nat /\ chain[o] \in Seq(Messages) /\ out[e] \in Seq(Messages)
  BY <1>1, ComingTypes
<1>3. InLine(q, 0, hs[e], opening[o], 0) /\ q = chain[o] \o out[e]
  BY <1>1 DEF ComingInLine, Coming
<1>4. chain'[o] = chain[o] /\ hs'[e] > hs'[o] /\ opening'[o] = opening[o] /\ sealed'[e] = 0
  OBVIOUS
<1> HIDE DEF o, q
<1>5. InLine(Append(q, Handshake(n)), 1, n, opening[o], 0)
  BY <1>2, <1>3, HandshakeAdded
<1>6. chain'[o] \o out'[e] = Append(q, Handshake(n))
  <2>1. Handshake(n) \in Messages
    BY MessageTypes
  <2>2. chain[o] \o Append(out[e], Handshake(n)) = Append(chain[o] \o out[e], Handshake(n))
    <3> DEFINE c == chain[o]
               b == out[e]
               m == Handshake(n)
    <3>1. c \in Seq(Messages) /\ b \in Seq(Messages) /\ m \in Messages
      BY <1>2, <2>1
    <3> HIDE DEF c, b, m
    <3>2. c \o Append(b, m) = Append(c \o b, m)
      BY <3>1, AddedOn
    <3> QED
      BY <3>2 DEF c, b, m
  <2>3. out'[e] = Append(out[e], Handshake(n))
    OBVIOUS
  <2> QED
    BY <1>3, <1>4, <2>2, <2>3, Zenon
<1>7. ComingInLine(o)'
  BY <1>1, <1>4, <1>5, <1>6 DEF ComingInLine, Coming, Ahead
<1> QED
  BY <1>7 DEF o

\* Nothing waits in the buffer of an end before its first frame, but what it says.
LEMMA RoomForHandshake ==
  ASSUME ChannelTypes, NEW e \in Ends, sealed[e] = 0, ComingInLine(Other(e)), Ahead(Other(e)) = 0
  PROVE  out[e] = <<>> /\ ~Full(e)
<1> DEFINE q == Coming(Other(e))
<1>1. /\ q \in Seq(Messages) /\ opening[Other(e)] \in Nat /\ chain[Other(e)] \in Seq(Messages)
      /\ out[e] \in Seq(Messages) /\ q = chain[Other(e)] \o out[e]
      /\ InLine(q, 0, hs[e], opening[Other(e)], 0)
  BY ComingTypes, TwoEnds DEF ComingInLine, Coming
<1> HIDE DEF q
<1>2. q = <<>>
  BY <1>1, NothingInLine
<1>3. out[e] = <<>>
  <2>1. chain[Other(e)] \o out[e] = <<>>
    BY <1>1, <1>2, Zenon
  <2> QED
    BY <1>1, <2>1, ConcatEqualIffEmpty
<1> QED
  BY <1>3, FrameNumbers DEF Full

LEMMA FrontTaken ==
  ASSUME ChannelTypes, NEW e \in Ends, chain[e] # <<>>,
         chain'[e] = Tail(chain[e]), out'[Other(e)] = out[Other(e)]
  PROVE  /\ Coming(e)' = Tail(Coming(e)) /\ Coming(e) # <<>>
         /\ Head(Coming(e)) = Head(chain[e])
<1> DEFINE c == chain[e]
           r == out[Other(e)]
<1>1. c \in Seq(Messages) /\ r \in Seq(Messages) /\ c # <<>>
  BY ComingTypes
<1>2. /\ Coming(e) = c \o r /\ Coming(e)' = Tail(c) \o r /\ Head(chain[e]) = Head(c)
  BY DEF Coming
<1> HIDE DEF c, r
<1>3. /\ Tail(c) \o r = Tail(c \o r) /\ Head(c \o r) = Head(c)
      /\ c \o r # <<>>
  BY <1>1, TakenOff
<1> QED
  BY <1>2, <1>3, Zenon

\* What an end does to its own buffer only changes what comes to the other.
LEMMA Undisturbed ==
  ASSUME NEW e \in Ends, chain'[e] = chain[e], out'[Other(e)] = out[Other(e)],
         Ahead(e)' = Ahead(e), hs'[Other(e)] = hs[Other(e)] \/ Ahead(e) = 0,
         opening'[e] = opening[e], sealed'[Other(e)] = sealed[Other(e)], ComingInLine(e)
  PROVE  ComingInLine(e)'
<1>1. Coming(e)' = Coming(e)
  BY DEF Coming
<1>2. InLine(Coming(e), Ahead(e), hs[Other(e)], opening[e], sealed[Other(e)])
  BY DEF ComingInLine
<1>3. Ahead(e) = 0 =>
        InLine(Coming(e), Ahead(e), hs'[Other(e)], opening[e], sealed[Other(e)])
  BY <1>2 DEF InLine
<1>4. InLine(Coming(e), Ahead(e), hs'[Other(e)], opening[e], sealed[Other(e)])
  BY <1>2, <1>3
<1>5. InLine(Coming(e)', Ahead(e)', hs'[Other(e)], opening'[e], sealed'[Other(e)])
  BY <1>1, <1>4
<1> QED
  BY <1>5 DEF ComingInLine

LEMMA StartInOrder ==
  ASSUME ChannelTypes, \A g \in Ends : Lifecycle(g) /\ ComingInLine(g),
         <<hs[Initiator], hs[Responder]>> \in Turns, NEW e \in Ends, Start(e)
  PROVE  <<hs[Initiator], hs[Responder]>>' \in Turns /\ \A g \in Ends : ComingInLine(g)'
<1>1. CASE e # Initiator
  <2>1. UNCHANGED <<hs, out, chain, opening, sealed>>
    BY <1>1, OnStart
  <2>2. ASSUME NEW g \in Ends PROVE ComingInLine(g)'
    <3>1. Ahead(g)' = Ahead(g)
      BY <2>1 DEF Ahead
    <3> QED
      BY <2>1, <3>1, Undisturbed
  <2> QED
    BY <2>1, <2>2
<1>2. CASE e = Initiator
  <2>1. /\ channel[e] = "connecting" /\ hs'[e] = 1 /\ out'[e] = <<Handshake(1)>>
        /\ hs'[Other(e)] = hs[Other(e)] /\ out'[Other(e)] = out[Other(e)]
        /\ UNCHANGED <<chain, opening, sealed>>
    BY <1>2, OnStart
  <2>2. hs[e] = 0 /\ out[e] = <<>> /\ ~(sealed[e] > 0)
    BY <2>1 DEF Lifecycle
  <2>3. sealed[e] = 0
    BY <2>2, ComingTypes
  <2>4. hs[Other(e)] = 0 /\ Other(e) = Responder
    BY <1>2, <2>2, TakingTurns, TwoEnds DEF Turns
  <2>5. out'[e] = Append(out[e], Handshake(1))
    BY <2>1, <2>2
  <2>6. Ahead(Other(e)) = 0 /\ Ahead(e) = 0 /\ Ahead(e)' = 0
    BY <2>1, <2>2, <2>4, TwoEnds DEF Ahead
  <2>7. ComingInLine(Other(e))'
    BY <2>1, <2>3, <2>4, <2>5, <2>6, HandshakeLeaves, TwoEnds
  <2>8. ComingInLine(e)'
    BY <2>1, <2>6, Undisturbed
  <2>9. <<hs'[Initiator], hs'[Responder]>> \in Turns
    BY <1>2, <2>1, <2>4 DEF Turns
  <2> QED
    BY <2>7, <2>8, <2>9, TwoEnds
<1> QED
  BY <1>1, <1>2

LEMMA HandshakeInOrder ==
  ASSUME ChannelTypes, Intact, \A g \in Ends : Lifecycle(g) /\ ComingInLine(g),
         <<hs[Initiator], hs[Responder]>> \in Turns, NEW e \in Ends, OnHandshake(e)
  PROVE  <<hs[Initiator], hs[Responder]>>' \in Turns /\ \A g \in Ends : ComingInLine(g)'
<1> DEFINE o == Other(e)
<1>1. /\ alive[e] /\ chain[e] # <<>> /\ Head(chain[e]) = Handshake(hs[e] + 1) /\ hs[e] \in 0..2
      /\ chain'[e] = Tail(chain[e]) /\ chain'[o] = chain[o]
      /\ hs'[o] = hs[o] /\ out'[o] = out[o]
      /\ UNCHANGED <<channel, opening, sealed>>
  BY OnHandshakeFacts
<1>2. Coming(e)' = Tail(Coming(e)) /\ Coming(e) # <<>> /\ Head(Coming(e)) = Handshake(hs[e] + 1)
  BY <1>1, FrontTaken
<1>3. InLine(Coming(e), Ahead(e), hs[o], opening[e], sealed[o])
  BY DEF ComingInLine
<1>4. Ahead(e) = 1 /\ hs[o] = hs[e] + 1
  <2>1. CASE Ahead(e) = 0
    <3>1. Head(Coming(e)) = Transport(opening[e])
      BY <1>2, <1>3, <2>1, ComingTypes, TransportTaken
    <3> QED
      BY <1>2, <3>1, MessageKinds
  <2>2. CASE Ahead(e) = 1
    <3>1. Head(Coming(e)) = Handshake(hs[o])
      BY <1>2, <1>3, <2>2, ComingTypes, HandshakeTaken
    <3> QED
      BY <1>2, <2>2, <3>1, MessageKinds
  <2> QED
    BY <2>1, <2>2, ComingTypes
<1>5. hs'[e] = (IF hs[e] = 2 THEN 3 ELSE hs[e] + 2) /\ hs'[e] \in 2..3 /\ ~(hs'[o] > hs'[e])
  BY <1>1, <1>4, OnHandshakeFacts
<1>6. <<hs'[Initiator], hs'[Responder]>> \in Turns
  <2>1. hs'[e] \in 0..3
    BY <1>5
  <2>2. /\ e = Initiator => <<hs'[e], hs[Responder]>> \in Turns
        /\ e = Responder => <<hs[Initiator], hs'[e]>> \in Turns
    BY <1>4, <1>5, <2>1, TakingTurns
  <2> QED
    BY <1>1, <2>2, TwoEnds
<1>7. ComingInLine(e)'
  <2>1. InLine(Tail(Coming(e)), 0, hs[o], opening[e], sealed[o])
    BY <1>2, <1>3, <1>4, ComingTypes, HandshakeTaken
  <2>2. Ahead(e)' = 0
    BY <1>5 DEF Ahead
  <2> QED
    BY <1>1, <1>2, <2>1, <2>2 DEF ComingInLine
<1>8. ComingInLine(o)'
  <2>1. Ahead(o) = 0
    BY <1>1, <1>4, TwoEnds DEF Ahead
  <2>2. CASE hs[e] = 2
    <3>1. out' = out /\ hs'[e] = 3 /\ hs'[o] = 3
      BY <1>1, <1>4, <2>2, OnHandshakeFacts
    <3>2. Ahead(o)' = 0
      BY <3>1, TwoEnds DEF Ahead
    <3> QED
      BY <1>1, <2>1, <3>1, <3>2, Undisturbed, TwoEnds
  <2>3. CASE hs[e] < 2
    <3>1. sealed[e] = 0
      <4>1. ~(sealed[e] > 0)
        BY <2>3 DEF Lifecycle
      <4> QED
        BY <4>1, ComingTypes
    <3>2. channel[e] = "open"
      BY <1>1 DEF Lifecycle, Intact
    <3>3. ~Full(e)
      BY <2>1, <3>1, RoomForHandshake, TwoEnds
    <3>4. out'[e] = Append(out[e], Handshake(hs[e] + 2)) /\ hs'[e] = hs[e] + 2
      BY <2>3, <3>2, <3>3, OnHandshakeFacts
    <3>5. hs[e] + 2 \in 1..3 /\ hs[e] + 2 > hs'[o] /\ hs'[o] \in 0..3
      BY <1>1, <1>4, <2>3
    <3> QED
      BY <1>1, <2>1, <3>1, <3>4, <3>5, HandshakeLeaves, TwoEnds
  <2> QED
    BY <1>1, <2>2, <2>3
<1> QED
  BY <1>6, <1>7, <1>8, TwoEnds

LEMMA TransportInOrder ==
  ASSUME ChannelTypes, \A g \in Ends : Lifecycle(g) /\ ComingInLine(g),
         <<hs[Initiator], hs[Responder]>> \in Turns, NEW e \in Ends, OnTransport(e)
  PROVE  <<hs[Initiator], hs[Responder]>>' \in Turns /\ \A g \in Ends : ComingInLine(g)'
<1> DEFINE o == Other(e)
<1>1. /\ alive[e] /\ ~finalizing[e] /\ chain[e] # <<>> /\ Head(chain[e]).kind = "transport"
      /\ chain'[e] = Tail(chain[e]) /\ chain'[o] = chain[o]
      /\ opening'[o] = opening[o]
      /\ established[e] /\ Head(chain[e]).n = opening[e] => opening'[e] = opening[e] + 1
      /\ UNCHANGED <<out, hs, sealed>>
  BY OnTransportFacts
<1>2. Coming(e)' = Tail(Coming(e)) /\ Coming(e) # <<>> /\ Head(Coming(e)) = Head(chain[e])
  BY <1>1, FrontTaken
<1>3. InLine(Coming(e), Ahead(e), hs[o], opening[e], sealed[o])
  BY DEF ComingInLine
<1>4. Ahead(e) = 0
  <2>1. CASE Ahead(e) = 1
    <3>1. Head(Coming(e)) = Handshake(hs[o])
      BY <1>2, <1>3, <2>1, ComingTypes, HandshakeTaken
    <3>2. Head(Coming(e)).kind = "handshake"
      BY <3>1, MessageKinds
    <3> QED
      BY <1>1, <1>2, <3>2
  <2> QED
    BY <2>1, ComingTypes
<1>5. /\ Head(Coming(e)) = Transport(opening[e]) /\ opening[e] < sealed[o]
      /\ InLine(Tail(Coming(e)), 0, hs[o], opening[e] + 1, sealed[o])
  BY <1>2, <1>3, <1>4, ComingTypes, TransportTaken
<1>6. established[e]
  <2>1. sealed[o] > 0
    BY <1>5, ComingTypes
  <2>2. hs[o] = 3
    BY <2>1, TwoEnds DEF Lifecycle
  <2>3. hs[e] = 3
    <3>1. ~(hs[o] > hs[e])
      BY <1>4 DEF Ahead
    <3> QED
      BY <2>2, <3>1, ComingTypes
  <2> QED
    BY <1>1, <2>3 DEF Lifecycle
<1>7. opening'[e] = opening[e] + 1
  BY <1>1, <1>2, <1>5, <1>6, MessageKinds
<1>8. Ahead(e)' = 0 /\ Ahead(o)' = Ahead(o)
  BY <1>1, <1>4 DEF Ahead
<1>9. ComingInLine(e)'
  BY <1>1, <1>2, <1>5, <1>7, <1>8 DEF ComingInLine
<1>10. ComingInLine(o)'
  BY <1>1, <1>8, Undisturbed, TwoEnds
<1> QED
  BY <1>1, <1>9, <1>10, TwoEnds

LEMMA SendInOrder ==
  ASSUME ChannelTypes, Intact', \A g \in Ends : Lifecycle(g) /\ ComingInLine(g),
         <<hs[Initiator], hs[Responder]>> \in Turns, NEW e \in Ends, Send(e)
  PROVE  <<hs[Initiator], hs[Responder]>>' \in Turns /\ \A g \in Ends : ComingInLine(g)'
<1> DEFINE o == Other(e)
<1>1. /\ alive[e] /\ sealed[e] \in Frames /\ sealed'[e] = sealed[e] + 1 /\ sealed'[o] = sealed[o]
      /\ out'[o] = out[o] /\ UNCHANGED <<channel, chain, hs, opening>>
      /\ ~(channel[e] = "open" /\ Full(e))
  BY OnSend DEF Intact
<1>2. channel[e] = "open"
  BY <1>1 DEF Lifecycle, Intact
<1>3. out'[e] = Append(out[e], Transport(sealed[e]))
  BY <1>1, <1>2, OnSend
<1>4. Ahead(e)' = Ahead(e) /\ Ahead(o)' = Ahead(o)
  BY <1>1 DEF Ahead
<1>5. ComingInLine(e)'
  BY <1>1, <1>4, Undisturbed
<1>6. ComingInLine(o)'
  <2> DEFINE m == Transport(sealed[e])
             q == Coming(o)
  <2>1. m \in Messages
    BY <1>1, MessageTypes
  <2>2. /\ o \in Ends /\ Other(o) = e /\ q \in Seq(Messages) /\ Ahead(o) \in {0, 1}
        /\ opening[o] \in Nat /\ sealed[e] \in Nat
    BY ComingTypes, TwoEnds
  <2>3. InLine(q, Ahead(o), hs[e], opening[o], sealed[e])
    BY <2>2 DEF ComingInLine
  <2>4. InLine(Append(q, m), Ahead(o), hs[e], opening[o], sealed[e] + 1)
    BY <2>1, <2>2, <2>3, TransportAdded
  <2>5. Coming(o)' = Append(q, m)
    <3> DEFINE c == chain[o]
               b == out[e]
    <3>1. c \in Seq(Messages) /\ b \in Seq(Messages) /\ q = c \o b /\ Coming(o)' = c \o Append(b, m)
      BY <1>1, <1>3, <2>2, ComingTypes DEF Coming
    <3> HIDE DEF c, b, m, q
    <3>2. c \o Append(b, m) = Append(c \o b, m)
      BY <2>1, <3>1, AddedOn
    <3> QED
      BY <3>1, <3>2, Zenon
  <2> QED
    BY <1>1, <1>4, <2>2, <2>4, <2>5 DEF ComingInLine
<1> QED
  BY <1>1, <1>5, <1>6, TwoEnds

LEMMA TransmitInOrder ==
  ASSUME ChannelTypes, \A g \in Ends : ComingInLine(g), NEW e \in Ends, Transmit(e)
  PROVE  \A g \in Ends : ComingInLine(g)'
<1> DEFINE o == Other(e)
<1>1. /\ out[e] # <<>> /\ out'[e] = Tail(out[e]) /\ out'[o] = out[o]
      /\ chain'[e] = chain[e] /\ chain'[o] = Append(chain[o], Head(out[e]))
      /\ UNCHANGED <<hs, sealed, opening>>
  BY OnTransmit
<1>2. Coming(e)' = Coming(e)
  BY <1>1 DEF Coming
<1>3. Coming(o)' = Coming(o)
  <2> DEFINE c == chain[o]
             b == out[e]
  <2>1. /\ c \in Seq(Messages) /\ b \in Seq(Messages) /\ b # <<>>
        /\ Coming(o)' = Append(c, Head(b)) \o Tail(b) /\ Coming(o) = c \o b
    BY <1>1, ComingTypes, TwoEnds DEF Coming
  <2> HIDE DEF c, b
  <2>2. Append(c, Head(b)) \o Tail(b) = c \o b
    BY <2>1, PassedOn
  <2> QED
    BY <2>1, <2>2, Zenon
<1>4. \A g \in Ends : Ahead(g)' = Ahead(g) /\ Coming(g)' = Coming(g)
  BY <1>1, <1>2, <1>3, TwoEnds DEF Ahead
<1> QED
  BY <1>1, <1>4 DEF ComingInLine

LEMMA OrderNext ==
  ASSUME ChannelTypes, \A g \in Ends : Lifecycle(g), InOrder, [Next]_vars
  PROVE  InOrder'
<1> SUFFICES ASSUME Intact'
             PROVE  <<hs[Initiator], hs[Responder]>>' \in Turns /\ \A g \in Ends : ComingInLine(g)'
  BY DEF InOrder
<1>0. Intact /\ <<hs[Initiator], hs[Responder]>> \in Turns /\ \A g \in Ends : ComingInLine(g)
  BY IntactKept DEF InOrder
<1>1. ASSUME UNCHANGED <<chain, out, hs, opening, sealed>>
      PROVE  <<hs[Initiator], hs[Responder]>>' \in Turns /\ \A g \in Ends : ComingInLine(g)'
  BY <1>0, <1>1 DEF ComingInLine, Coming, Ahead
<1>2. ASSUME NEW e \in Ends, channel'[e] \in {"closing", "closed"} PROVE FALSE
  BY <1>2 DEF Intact
<1>3. ASSUME NEW e \in Ends, Start(e)
      PROVE  <<hs[Initiator], hs[Responder]>>' \in Turns /\ \A g \in Ends : ComingInLine(g)'
  BY <1>0, <1>3, StartInOrder
<1>4. ASSUME NEW e \in Ends, Transmit(e)
      PROVE  <<hs[Initiator], hs[Responder]>>' \in Turns /\ \A g \in Ends : ComingInLine(g)'
  BY <1>0, <1>4, TransmitInOrder, OnTransmit
<1>5. ASSUME NEW e \in Ends, OnHandshake(e)
      PROVE  <<hs[Initiator], hs[Responder]>>' \in Turns /\ \A g \in Ends : ComingInLine(g)'
  BY <1>0, <1>5, HandshakeInOrder
<1>6. ASSUME NEW e \in Ends, OnTransport(e)
      PROVE  <<hs[Initiator], hs[Responder]>>' \in Turns /\ \A g \in Ends : ComingInLine(g)'
  BY <1>0, <1>6, TransportInOrder
<1>7. ASSUME NEW e \in Ends, Send(e)
      PROVE  <<hs[Initiator], hs[Responder]>>' \in Turns /\ \A g \in Ends : ComingInLine(g)'
  BY <1>0, <1>7, SendInOrder
<1>8. ASSUME NEW e \in Ends, Finalized(e)
      PROVE  <<hs[Initiator], hs[Responder]>>' \in Turns /\ \A g \in Ends : ComingInLine(g)'
  BY <1>1, <1>2, <1>8, OnFinalized, ClosedTypes
<1>9. ASSUME NEW e \in Ends, Close(e) PROVE FALSE
  BY <1>2, <1>9, OnClose, ClosedTypes
<1>10. ASSUME NEW e \in Ends, Closing(e) PROVE FALSE
  BY <1>2, <1>10, OnClosing
<1>11. CASE UNCHANGED vars
  BY <1>1, <1>11 DEF vars
<1> QED
  BY <1>3, <1>4, <1>5, <1>6, <1>7, <1>8, <1>9, <1>10, <1>11 DEF Next, CloseEvent, Handlers

------------------------------------------------------------------------------
(* What comes out is what went in *)

LEMMA PipedTypes ==
  ASSUME ChannelTypes, NEW e \in Ends
  PROVE  /\ out[e] \in Seq(Messages) /\ chain[e] \in Seq(Messages)
         /\ sent[e] \in Seq(Frames) /\ received[e] \in Seq(Frames)
         /\ Len(sent[e]) \in Nat /\ Len(received[e]) \in Nat
         /\ sealed[e] \in Nat /\ opening[e] \in Nat
<1>1. sealed[e] \in 0..MaxFrames /\ opening[e] \in 0..MaxFrames
  BY DEF ChannelTypes
<1> QED
  BY <1>1, FrameNumbers DEF ChannelTypes

(* The frame that e opens next is the one that was sent after those it opened:   *)
(* it was reported as sent, each sent frame is at least as far on as its place,  *)
(* and the places before it are taken.                                           *)
LEMMA NextFrame ==
  ASSUME ChannelTypes, NEW e \in Ends, Piped(e), Piped(Other(e)),
         chain[e] # <<>>, Head(chain[e]).kind = "transport", Head(chain[e]).n = opening[e]
  PROVE  /\ opening[e] < Len(sent[Other(e)])
         /\ sent[Other(e)][opening[e] + 1] = opening[e]
<1> DEFINE s == sent[Other(e)]
           n == opening[e]
<1>1. s \in Seq(Frames) /\ Len(s) \in Nat /\ n \in Nat
  BY PipedTypes, TwoEnds
<1>2. \A i \in 1..Len(s) : i - 1 <= s[i] /\ s[i] \in Nat
  <2>1. \A i \in 1..Len(s) : s[i] \in Frames
    BY <1>1
  <2> QED
    BY <2>1, FrameNumbers DEF Piped
<1>3. \A i \in 1..n : s[i] = i - 1
  BY DEF Piped
<1>4. PICK j \in 1..Len(s) : s[j] = n
  <2>1. chain[e][1] = Head(chain[e]) /\ 1 \in 1..Len(chain[e])
    BY PipedTypes, TailFacts
  <2>2. Reported(chain[e], s)
    BY DEF Piped
  <2> QED
    BY <2>1, <2>2 DEF Reported
<1> HIDE DEF s, n
<1>5. j = n + 1
  <2>1. j - 1 <= n
    BY <1>2, <1>4
  <2>2. ~(j \in 1..n)
    <3>1. j \in 1..n => s[j] = j - 1
      BY <1>3
    <3> QED
      BY <1>1, <1>4, <3>1
  <2> QED
    BY <1>1, <2>1, <2>2
<1>6. n < Len(s) /\ s[n + 1] = n
  BY <1>1, <1>4, <1>5
<1> QED
  BY <1>6 DEF s, n

LEMMA PipedNext ==
  ASSUME ChannelTypes, \A g \in Ends : Piped(g), [Next]_vars
  PROVE  \A g \in Ends : Piped(g)'
<1> SUFFICES ASSUME NEW g \in Ends PROVE Piped(g)'
  OBVIOUS
<1>0. Piped(g) /\ Piped(Other(g))
  BY TwoEnds
<1> DEFINE t == Other(g)
<1>1. ASSUME UNCHANGED <<sent, sealed, received, opening>>,
             Reported(out'[g], sent[g]), Reported(chain'[g], sent[t])
      PROVE  Piped(g)'
  BY <1>0, <1>1 DEF Piped
<1>2. ASSUME UNCHANGED <<sent, sealed, received, opening>>,
             out'[g] = out[g] \/ out'[g] = <<>>, chain'[g] = chain[g] \/ chain'[g] = <<>>
      PROVE  Piped(g)'
  <2>1. \A s : Reported(<<>>, s)
    BY EmptyQueue DEF Reported
  <2>2. Reported(out[g], sent[g]) /\ Reported(chain[g], sent[t])
    BY <1>0 DEF Piped
  <2>3. Reported(out'[g], sent[g])
    BY <1>2, <2>1, <2>2
  <2>4. Reported(chain'[g], sent[t])
    BY <1>2, <2>1, <2>2
  <2> QED
    BY <1>1, <1>2, <2>3, <2>4
<1>3. ASSUME NEW e \in Ends, Closed(e), UNCHANGED <<sent, sealed, received, opening>>
      PROVE  Piped(g)'
  BY <1>2, <1>3, ClosedTypes
<1>4. ASSUME NEW q \in Seq(Messages), NEW n \in 1..3, NEW s, Reported(q, s)
      PROVE  Reported(Append(q, Handshake(n)), s)
  BY <1>4, MessageKinds, MessageTypes, ReportedAppend
<1>5. ASSUME NEW e \in Ends, Start(e) PROVE Piped(g)'
  <2>1. UNCHANGED <<sent, sealed, received, opening, chain>> /\ out'[Other(e)] = out[Other(e)]
    BY <1>5, OnStart
  <2>2. CASE g = e /\ e = Initiator
    <3>1. out'[g] = <<Handshake(1)>>
      BY <1>5, <2>2, OnStart
    <3>2. Reported(out'[g], sent[g])
      <4>1. Len(out'[g]) = 1 /\ out'[g][1] = Handshake(1)
        BY <3>1
      <4> QED
        BY <4>1, MessageKinds DEF Reported
    <3> QED
      BY <1>0, <1>1, <2>1, <3>2 DEF Piped
  <2>3. CASE g = e /\ e # Initiator
    BY <1>2, <1>5, <2>1, <2>3, OnStart
  <2>4. CASE g = Other(e)
    BY <1>2, <2>1, <2>4
  <2> QED
    BY <2>2, <2>3, <2>4, TwoEnds
<1>6. ASSUME NEW e \in Ends, Transmit(e) PROVE Piped(g)'
  <2>1. /\ UNCHANGED <<sent, sealed, received, opening>>
        /\ out[e] # <<>> /\ out'[e] = Tail(out[e]) /\ out'[Other(e)] = out[Other(e)]
        /\ chain'[e] = chain[e] /\ chain'[Other(e)] = Append(chain[Other(e)], Head(out[e]))
    BY <1>6, OnTransmit
  <2>2. CASE g = e
    <3>1. Reported(Tail(out[e]), sent[e])
      BY <1>0, <2>1, <2>2, PipedTypes, ReportedTail DEF Piped
    <3> QED
      BY <1>0, <1>1, <2>1, <2>2, <3>1 DEF Piped
  <2>3. CASE g = Other(e)
    <3>1. t = e
      BY <2>3, TwoEnds
    <3>2. /\ Reported(chain[g], sent[e]) /\ Reported(out[e], sent[e]) /\ Reported(out[g], sent[g])
      BY <1>0, <3>1 DEF Piped
    <3>3. /\ out[e] \in Seq(Messages) /\ Head(out[e]) = out[e][1] /\ 1 \in 1..Len(out[e])
          /\ Head(out[e]) \in Messages /\ chain[g] \in Seq(Messages)
      BY <2>1, PipedTypes, TailFacts
    <3>4. Head(out[e]).kind = "transport" => \E j \in 1..Len(sent[e]) : sent[e][j] = Head(out[e]).n
      BY <3>2, <3>3 DEF Reported
    <3>5. Reported(Append(chain[g], Head(out[e])), sent[e])
      BY <3>2, <3>3, <3>4, ReportedAppend
    <3> QED
      BY <1>1, <2>1, <2>3, <3>1, <3>2, <3>5
  <2> QED
    BY <2>2, <2>3, TwoEnds
<1>7. ASSUME NEW e \in Ends, OnHandshake(e) PROVE Piped(g)'
  <2>1. /\ UNCHANGED <<sent, sealed, received, opening>> /\ chain[e] # <<>>
        /\ chain'[e] = Tail(chain[e]) /\ chain'[Other(e)] = chain[Other(e)]
        /\ out'[Other(e)] = out[Other(e)] /\ hs[e] \in 0..2
    BY <1>7, OnHandshakeFacts
  <2>2. CASE g = e
    <3>1. Reported(Tail(chain[e]), sent[t])
      BY <1>0, <2>1, <2>2, PipedTypes, ReportedTail DEF Piped
    <3>2. Reported(out[e], sent[e])
      BY <1>0, <2>2 DEF Piped
    <3>3. Reported(out'[e], sent[e])
      <4>1. CASE hs[e] < 2
        <5>1. out'[e] = Append(out[e], Handshake(hs[e] + 2)) \/ out'[e] = out[e]
          BY <1>7, <4>1, OnHandshakeFacts
        <5>2. hs[e] + 2 \in 1..3 /\ out[e] \in Seq(Messages)
          BY <2>1, <4>1, PipedTypes
        <5>3. Reported(Append(out[e], Handshake(hs[e] + 2)), sent[e])
          BY <1>4, <3>2, <5>2
        <5> QED
          BY <3>2, <5>1, <5>3
      <4>2. CASE hs[e] = 2
        BY <1>7, <3>2, <4>2, OnHandshakeFacts
      <4> QED
        BY <2>1, <4>1, <4>2
    <3> QED
      BY <1>1, <2>1, <2>2, <3>1, <3>3
  <2>3. CASE g = Other(e)
    BY <1>2, <2>1, <2>3
  <2> QED
    BY <2>2, <2>3, TwoEnds
<1>8. ASSUME NEW e \in Ends, OnTransport(e) PROVE Piped(g)'
  <2>1. /\ UNCHANGED <<out, sealed, sent>>
        /\ chain[e] # <<>> /\ Head(chain[e]).kind = "transport"
        /\ chain'[e] = Tail(chain[e]) /\ chain'[Other(e)] = chain[Other(e)]
        /\ opening'[Other(e)] = opening[Other(e)] /\ received'[Other(e)] = received[Other(e)]
    BY <1>8, OnTransportFacts
  <2>2. CASE g = e
    <3>1. Reported(Tail(chain[e]), sent[t])
      BY <1>0, <2>1, <2>2, PipedTypes, ReportedTail DEF Piped
    <3>2. CASE established[e] /\ Head(chain[e]).n = opening[e]
      <4>1. /\ opening'[g] = opening[g] + 1
            /\ received'[g] = Append(received[g], opening[g])
        BY <1>8, <2>2, <3>2, OnTransportFacts
      <4>2. opening[g] < Len(sent[t]) /\ sent[t][opening[g] + 1] = opening[g]
        BY <1>0, <2>1, <2>2, <3>2, NextFrame
      <4> DEFINE n == opening[g]
                 r == received[g]
                 s == sent[t]
                 a == Append(r, n)
      <4>3. /\ n \in Nat /\ Len(s) \in Nat /\ r \in Seq(Frames)
            /\ Len(r) = n /\ \A i \in 1..n : s[i] = i - 1 /\ r[i] = i - 1
        BY <1>0, PipedTypes, TwoEnds DEF Piped
      <4>4. n \in Frames
        BY <1>8, <2>2, <3>2, OpenedTypes DEF OnTransport
      <4>5. n < Len(s) /\ s[n + 1] = n
        BY <4>2
      <4>6. opening'[g] = n + 1 /\ received'[g] = a /\ sent'[t] = s
        BY <2>1, <4>1
      <4>7. Len(a) = Len(r) + 1 /\ a[Len(r) + 1] = n /\ \A i \in 1..Len(r) : a[i] = r[i]
        BY <4>3, <4>4, AppendFacts
      <4> HIDE DEF n, r, s, a
      <4>8. n + 1 <= Len(s) /\ Len(a) = n + 1
        BY <4>3, <4>5, <4>7
      <4>9. ASSUME NEW i \in 1..n + 1 PROVE s[i] = i - 1 /\ a[i] = i - 1
        <5>1. CASE i \in 1..n
          BY <4>3, <4>7, <5>1
        <5>2. CASE i = n + 1
          BY <4>3, <4>5, <4>7, <5>2
        <5> QED
          BY <4>3, <5>1, <5>2
      <4>10. /\ Len(received'[g]) = opening'[g] /\ opening'[g] <= Len(sent'[t])
             /\ \A i \in 1..opening'[g] : sent'[t][i] = i - 1 /\ received'[g][i] = i - 1
        BY <4>6, <4>8, <4>9
      <4> QED
        BY <1>0, <2>1, <2>2, <3>1, <4>10 DEF Piped
    <3>3. CASE ~(established[e] /\ Head(chain[e]).n = opening[e])
      <4>1. opening'[g] = opening[g] /\ received'[g] = received[g]
        BY <1>8, <2>2, <3>3, OnTransportFacts
      <4> QED
        BY <1>0, <2>1, <2>2, <3>1, <4>1 DEF Piped
    <3> QED
      BY <3>2, <3>3
  <2>3. CASE g = Other(e)
    BY <1>0, <2>1, <2>3 DEF Piped
  <2> QED
    BY <2>2, <2>3, TwoEnds
<1>9. ASSUME NEW e \in Ends, Send(e) PROVE Piped(g)'
  <2>1. /\ sealed[e] \in Frames /\ sealed'[e] = sealed[e] + 1 /\ sealed'[Other(e)] = sealed[Other(e)]
        /\ out'[Other(e)] = out[Other(e)] /\ sent'[Other(e)] = sent[Other(e)]
        /\ UNCHANGED <<chain, opening, received>>
    BY <1>9, OnSend
  <2>2. CASE sent'[e] = sent[e] /\ out'[e] = out[e]
    <3>1. sent'[g] = sent[g] /\ sent'[t] = sent[t] /\ out'[g] = out[g]
      BY <2>1, <2>2, TwoEnds
    <3>2. sealed[g] <= sealed'[g] /\ sealed[g] \in Nat /\ sealed'[g] \in Nat /\ Len(sent[g]) \in Nat
      BY <2>1, PipedTypes, TwoEnds
    <3>3. Len(sent[g]) <= sealed'[g]
      BY <1>0, <3>2 DEF Piped
    <3> QED
      BY <1>0, <2>1, <3>1, <3>3 DEF Piped
  <2>3. CASE sent'[e] = Append(sent[e], sealed[e]) /\ out'[e] = Append(out[e], Transport(sealed[e]))
    <3> DEFINE s == sent[e]
               f == sealed[e]
               a == Append(s, f)
    <3>1. /\ s \in Seq(Frames) /\ f \in Frames /\ f \in Nat /\ Len(s) \in Nat
          /\ out[e] \in Seq(Messages) /\ Transport(f) \in Messages
      BY <2>1, PipedTypes, MessageTypes
    <3>2. /\ Len(a) = Len(s) + 1 /\ a[Len(s) + 1] = f /\ \A i \in 1..Len(s) : a[i] = s[i]
      BY <3>1, AppendFacts
    <3>3. sent'[e] = a /\ out'[e] = Append(out[e], Transport(f)) /\ sealed'[e] = f + 1
      BY <2>1, <2>3
    <3>4. ASSUME NEW q, Reported(q, s) PROVE Reported(q, a)
      BY <3>1, <3>4, ReportedMore
    <3>5. CASE g = e
      <4>1. /\ Len(s) <= f /\ \A i \in 1..Len(s) : i - 1 <= s[i]
            /\ Reported(out[e], s)
        BY <1>0, <3>5 DEF Piped
      <4> HIDE DEF s, f, a
      <4>2. Len(a) <= f + 1 /\ \A i \in 1..Len(a) : i - 1 <= a[i]
        <5>1. \A i \in 1..Len(a) : i \in 1..Len(s) \/ i = Len(s) + 1
          BY <3>1, <3>2
        <5>2. (Len(s) + 1) - 1 <= a[Len(s) + 1]
          BY <3>1, <3>2, <4>1
        <5> QED
          BY <3>1, <3>2, <4>1, <5>1, <5>2
      <4>3. Reported(Append(out[e], Transport(f)), a)
        <5>1. Len(s) + 1 \in 1..Len(a) /\ a[Len(s) + 1] = Transport(f).n
          BY <3>1, <3>2, MessageKinds
        <5> QED
          BY <3>1, <3>4, <4>1, <5>1, ReportedAppend
      <4>4. sent'[t] = sent[t] /\ sealed'[g] = f + 1 /\ sent'[g] = a
            /\ out'[g] = Append(out[e], Transport(f))
        BY <2>1, <3>3, <3>5
      <4> QED
        BY <1>0, <2>1, <3>5, <4>2, <4>3, <4>4 DEF Piped
    <3>6. CASE g = Other(e)
      <4>1. t = e
        BY <3>6, TwoEnds
      <4>2. /\ Reported(chain[g], s) /\ opening[g] <= Len(s) /\ opening[g] \in Nat
            /\ \A i \in 1..opening[g] : s[i] = i - 1 /\ received[g][i] = i - 1
        BY <1>0, <4>1, PipedTypes DEF Piped
      <4> HIDE DEF s, f, a
      <4>3. opening[g] <= Len(a) /\ \A i \in 1..opening[g] : a[i] = i - 1 /\ received[g][i] = i - 1
        <5>1. \A i \in 1..opening[g] : i \in 1..Len(s)
          BY <3>1, <4>2
        <5> QED
          BY <3>1, <3>2, <4>2, <5>1
      <4>4. Reported(chain[g], a)
        BY <3>4, <4>2
      <4>5. sent'[t] = a /\ sealed'[g] = sealed[g] /\ sent'[g] = sent[g] /\ out'[g] = out[g]
        BY <2>1, <3>3, <3>6, <4>1
      <4> QED
        BY <1>0, <2>1, <3>6, <4>3, <4>4, <4>5 DEF Piped
    <3> QED
      BY <3>5, <3>6, TwoEnds
  <2> QED
    BY <1>9, <2>2, <2>3, OnSend
<1>10. ASSUME NEW e \in Ends, Finalized(e) PROVE Piped(g)'
  BY <1>2, <1>3, <1>10, OnFinalized
<1>11. ASSUME NEW e \in Ends, Close(e) PROVE Piped(g)'
  BY <1>3, <1>11, OnClose
<1>12. ASSUME NEW e \in Ends, Closing(e) PROVE Piped(g)'
  BY <1>2, <1>12, OnClosing
<1>13. CASE UNCHANGED vars
  BY <1>2, <1>13 DEF vars
<1> HIDE DEF t
<1> QED
  BY <1>5, <1>6, <1>7, <1>8, <1>9, <1>10, <1>11, <1>12, <1>13 DEF Next, CloseEvent, Handlers

------------------------------------------------------------------------------
(* The invariant *)

LEMMA InitIInv == Init => IInv
<1> SUFFICES ASSUME Init PROVE IInv
  OBVIOUS
<1> DEFINE nothing == <<>>
<1>1. Len(nothing) = 0 /\ nothing \in Seq(Messages) /\ nothing \o nothing = nothing
  OBVIOUS
<1>2. /\ out = [e \in Ends |-> nothing] /\ chain = [e \in Ends |-> nothing]
      /\ sent = [e \in Ends |-> nothing] /\ received = [e \in Ends |-> nothing]
  BY DEF Init
<1>3. \A e \in Ends : chain[e] = <<>> /\ out[e] = <<>>
  BY DEF Init
<1> HIDE DEF nothing
<1>4. \A e \in Ends : /\ channel[e] = "connecting" /\ hs[e] = 0 /\ ~alive[e] /\ ~finalizing[e]
                       /\ ~established[e] /\ sealed[e] = 0 /\ opening[e] = 0
  BY DEF Init
<1>5. ChannelTypes
  BY TypesInit
<1>6. \A e \in Ends : Lifecycle(e)
  BY <1>3, <1>4 DEF Lifecycle
<1>7. InOrder
  <2>1. <<hs[Initiator], hs[Responder]>> \in Turns
    <3>1. hs[Initiator] = 0 /\ hs[Responder] = 0
      BY <1>4, TwoEnds
    <3> QED
      BY <3>1 DEF Turns
  <2>2. ASSUME NEW e \in Ends PROVE ComingInLine(e)
    <3>1. Coming(e) = nothing
      BY <1>1, <1>2, TwoEnds DEF Coming
    <3>2. Ahead(e) = 0 /\ opening[e] = 0 /\ sealed[Other(e)] = 0
      BY <1>4, TwoEnds DEF Ahead
    <3>3. InLine(nothing, 0, hs[Other(e)], 0, 0)
      BY <1>1 DEF InLine
    <3> QED
      BY <3>1, <3>2, <3>3 DEF ComingInLine
  <2> QED
    BY <2>1, <2>2 DEF InOrder
<1>8. ASSUME NEW e \in Ends PROVE Piped(e)
  <2>1. \A s : Reported(nothing, s)
    BY <1>1 DEF Reported
  <2>2. /\ out[e] = nothing /\ chain[e] = nothing /\ sent[e] = nothing /\ received[e] = nothing
        /\ sent[Other(e)] = nothing /\ sealed[e] = 0 /\ opening[e] = 0
    BY <1>2, <1>4, TwoEnds
  <2> QED
    BY <1>1, <2>1, <2>2 DEF Piped
<1> QED
  BY <1>5, <1>6, <1>7, <1>8 DEF IInv

LEMMA Inductive == Spec => []IInv
<1>1. IInv /\ [Next]_vars => IInv'
  <2> SUFFICES ASSUME IInv, [Next]_vars PROVE IInv'
    OBVIOUS
  <2>1. ChannelTypes /\ (\A g \in Ends : Lifecycle(g)) /\ InOrder /\ (\A g \in Ends : Piped(g))
    BY DEF IInv
  <2>2. ChannelTypes'
    BY <2>1, TypesNext
  <2>3. \A g \in Ends : Lifecycle(g)'
    BY <2>1, LifeNext
  <2>4. InOrder'
    BY <2>1, OrderNext
  <2>5. \A g \in Ends : Piped(g)'
    BY <2>1, PipedNext
  <2> QED
    BY <2>2, <2>3, <2>4, <2>5 DEF IInv
<1> QED
  BY <1>1, InitIInv, PTL DEF Spec

(* The fields keep their types; the handshake never counts past its third        *)
(* message, and no end opens more frames than were ever to be sealed.            *)
THEOREM TypeCorrect == Spec => []TypeOK
<1>1. Messages \subseteq MessageSet
  <2>1. ASSUME NEW n \in Nat PROVE Handshake(n) \in MessageSet /\ Transport(n) \in MessageSet
    BY DEF Handshake, Transport, MessageSet
  <2>2. \A n \in 1..3 : n \in Nat
    OBVIOUS
  <2> QED
    BY <2>1, <2>2, FrameNumbers DEF Messages
<1>2. IInv => TypeOK
  <2> SUFFICES ASSUME IInv PROVE TypeOK
    OBVIOUS
  <2>1. out \in [Ends -> Seq(Messages)] /\ chain \in [Ends -> Seq(Messages)]
    BY DEF IInv, ChannelTypes
  <2>2. Seq(Messages) \subseteq Seq(MessageSet)
    BY <1>1
  <2>3. out \in [Ends -> Seq(MessageSet)] /\ chain \in [Ends -> Seq(MessageSet)]
    BY <2>1, <2>2
  <2> QED
    BY <2>3 DEF IInv, ChannelTypes, TypeOK
<1> QED
  BY <1>2, Inductive, PTL

(* While both ends are up and no buffer has overrun, what is on its way to an    *)
(* end is at most one message of the handshake and then every sealed message     *)
(* that it has not opened, in the order of the nonces.  The async finalize step  *)
(* of js/e2ee.js lets no transport message past.                                 *)
THEOREM NoNonceLeftOut == Spec => []InStep
<1>1. ASSUME IInv, BothUp, ~overrun, NEW e \in Ends
      PROVE  LET coming == chain[e] \o out[Other(e)] IN
             \E h \in 0..Len(coming) :
               /\ \A i \in 1..h : coming[i].kind = "handshake"
               /\ opening[e] + Len(coming) = sealed[Other(e)] + h
               /\ \A i \in (h + 1)..Len(coming) : coming[i] = Transport(opening[e] + (i - h) - 1)
  <2> DEFINE coming == chain[e] \o out[Other(e)]
             h == Ahead(e)
             from == opening[e]
             to == sealed[Other(e)]
  <2>1. Intact
    BY <1>1 DEF BothUp, Intact
  <2>2. InLine(Coming(e), h, hs[Other(e)], from, to)
    BY <1>1, <2>1 DEF IInv, InOrder, ComingInLine
  <2>3. h \in {0, 1} /\ from \in Nat /\ to \in Nat
    BY <1>1, ComingTypes DEF IInv
  <2>4. coming = Coming(e)
    BY DEF Coming
  <2> HIDE DEF coming, h, from, to
  <2>5. /\ from <= to /\ Len(coming) = h + (to - from)
        /\ h = 1 => coming[1] = Handshake(hs[Other(e)])
        /\ \A i \in 1..(to - from) : coming[h + i] = Transport(from + i - 1)
    BY <2>2, <2>4 DEF InLine
  <2>6. h \in 0..Len(coming) /\ from + Len(coming) = to + h
    BY <2>3, <2>5
  <2>7. ASSUME NEW i \in 1..h PROVE coming[i].kind = "handshake"
    <3>1. h = 1 /\ i = 1
      BY <2>3
    <3> QED
      BY <2>5, <3>1, MessageKinds
  <2>8. ASSUME NEW i \in (h + 1)..Len(coming) PROVE coming[i] = Transport(from + (i - h) - 1)
    <3>1. i - h \in 1..(to - from) /\ h + (i - h) = i
      BY <2>3, <2>5
    <3> QED
      BY <2>5, <3>1
  <2>9. \E k \in 0..Len(coming) :
          /\ \A i \in 1..k : coming[i].kind = "handshake"
          /\ from + Len(coming) = to + k
          /\ \A i \in (k + 1)..Len(coming) : coming[i] = Transport(from + (i - k) - 1)
    BY <2>6, <2>7, <2>8
  <2> QED
    BY <2>9 DEF coming, from, to
<1>2. IInv => InStep
  BY <1>1 DEF InStep
<1> QED
  BY <1>2, Inductive, PTL

------------------------------------------------------------------------------
(* The two ends implement the pipe *)

LEMMA PipeInit == Init => Pipe!Init
<1> SUFFICES ASSUME Init PROVE Pipe!Init
  OBVIOUS
<1>1. {e \in Ends : established[e]} = {}
  BY DEF Init
<1> QED
  BY <1>1 DEF Init, Pipe!Init

LEMMA PipeStep ==
  ASSUME ChannelTypes, \A g \in Ends : Piped(g), [Next]_vars
  PROVE  [Pipe!Next]_(Pipe!pipeVars)
<1> DEFINE opened == {e \in Ends : established[e]}
<1>0. ASSUME UNCHANGED <<genuine, established, sent, received>>
      PROVE  UNCHANGED Pipe!pipeVars
  BY <1>0 DEF Pipe!pipeVars
<1>1. ASSUME NEW e \in Ends, Finalized(e)
      PROVE  Pipe!Open(e) \/ UNCHANGED Pipe!pipeVars
  <2>1. UNCHANGED <<genuine, sent, received>>
    BY <1>1 DEF Finalized, noise
  <2>2. CASE genuine[e] /\ ~established[e]
    <3>1. established' = [established EXCEPT ![e] = TRUE] /\ established \in [Ends -> BOOLEAN]
      BY <1>1, <2>2 DEF Finalized, ChannelTypes
    <3>2. opened' = opened \cup {e} /\ e \notin opened
      BY <2>2, <3>1
    <3> QED
      BY <2>1, <2>2, <3>2 DEF Pipe!Open
  <2>3. CASE ~(genuine[e] /\ ~established[e])
    <3>1. established' = established
      BY <1>1, <2>3 DEF Finalized, ChannelTypes
    <3> QED
      BY <1>0, <2>1, <3>1
  <2> QED
    BY <2>2, <2>3
<1>2. ASSUME NEW e \in Ends, Send(e)
      PROVE  Pipe!Send(e) \/ UNCHANGED Pipe!pipeVars
  <2>1. /\ UNCHANGED <<genuine, established, received>> /\ established[e]
        /\ sent' = sent \/ sent' = [sent EXCEPT ![e] = Append(@, sealed[e])]
    BY <1>2 DEF Send
  <2>2. sealed[e] \in Frames
    BY <1>2, OnSend
  <2> QED
    BY <1>0, <2>1, <2>2 DEF Pipe!Send
<1>3. ASSUME NEW e \in Ends, OnTransport(e)
      PROVE  Pipe!Deliver(e, Other(e)) \/ UNCHANGED Pipe!pipeVars
  <2>1. UNCHANGED <<genuine, established, sent>>
    BY <1>3 DEF OnTransport
  <2>2. CASE established[e] /\ Head(chain[e]).n = opening[e]
    <3>1. received' = [received EXCEPT ![e] = Append(@, opening[e])]
      BY <1>3, <2>2 DEF OnTransport
    <3>2. opening[e] < Len(sent[Other(e)]) /\ sent[Other(e)][opening[e] + 1] = opening[e]
      BY <1>3, <2>2, OnTransportFacts, NextFrame, TwoEnds
    <3>3. Len(received[e]) = opening[e]
      BY DEF Piped
    <3>4. received' = [received EXCEPT ![e] = Append(@, sent[Other(e)][Len(received[e]) + 1])]
      BY <3>1, <3>2, <3>3
    <3> QED
      BY <2>1, <2>2, <3>2, <3>3, <3>4 DEF Pipe!Deliver
  <2>3. CASE ~(established[e] /\ Head(chain[e]).n = opening[e])
    <3>1. received' = received
      BY <1>3, <2>3 DEF OnTransport
    <3> QED
      BY <1>0, <2>1, <3>1
  <2> QED
    BY <2>2, <2>3
<1>4. \/ UNCHANGED <<genuine, established, sent, received>>
      \/ \E e \in Ends : Finalized(e) \/ Send(e) \/ OnTransport(e)
  BY DEF Next, vars, noise, Start, Transmit, Close, Closing, CloseEvent, Handlers, OnHandshake
<1>5. \A e \in Ends : Other(e) \in Ends /\ e # Other(e)
  BY TwoEnds
<1> QED
  BY <1>0, <1>1, <1>2, <1>3, <1>4, <1>5 DEF Pipe!Next

(* Whatever overruns, closes or is destroyed in the middle of a handshake, the   *)
(* two ends are a pipe: an end opens only towards the key that was dialled, and  *)
(* messaging.js gets the frames the other end sent in order, none twice and none *)
(* left out before one that came.                                                *)
THEOREM ChannelImplementsPipe == Spec => ImplementsPipe
<1>1. IInv /\ [Next]_vars => [Pipe!Next]_(Pipe!pipeVars)
  BY PipeStep DEF IInv
<1> QED
  BY <1>1, PipeInit, Inductive, PTL DEF Spec, ImplementsPipe, Pipe!Spec
================================================================================
