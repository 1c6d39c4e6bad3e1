-------------------------- MODULE MediaTransferProofs --------------------------
(***************************************************************************)
(* The properties of MediaTransfer, for any files of any length, any       *)
(* interleaving of senders, gates, viewers and locks.                      *)
(***************************************************************************)
EXTENDS MediaTransfer, SequenceTheorems, TLAPS

PartSet == 0..End
FrameSet == [file : Files, part : PartSet]
Transfers == [id : Files, discard : BOOLEAN, received : Seq(Parts)]

MediaTypes ==
  /\ sent \in [Files -> 0..(End + 1)]
  /\ wire \in Seq(FrameSet)
  /\ up \in BOOLEAN /\ locked \in BOOLEAN /\ overlapped \in BOOLEAN /\ late \in BOOLEAN
  /\ gate \in [Files -> {"none", "asking", "accepted", "refused"}]
  /\ incoming \in Transfers \cup {Nothing}
  /\ incoming # Nothing =>
       gate[incoming.id] = IF incoming.discard THEN "refused" ELSE "accepted"
  /\ vault \in [Files -> Seq(Parts) \cup {NoBlob}]
  /\ bubble \in [Files -> {"none", "unseen", "shown", "viewed"}]
  /\ \A f \in Files : vault[f] # NoBlob =>
       gate[f] = "accepted" /\ bubble[f] \in {"unseen", "shown"}

\* Nothing is on its way over a closed channel, and the lock closes it.
Severed == (locked => ~up) /\ (~up => wire = <<>>)

\* Behind the lock nothing is in the vault.
VaultPurged == locked => \A f \in Files : vault[f] = NoBlob

(* `next` is the part of each file that the receiver has to get next.  While the *)
(* channel is open the wire w holds the frames from there to what was sent (s),  *)
(* each file's in order; g are the gates.                                        *)
OnTheWire(next, w, s, g) ==
  /\ \A i \in 1..Len(w) : next[w[i].file] <= w[i].part /\ w[i].part < s[w[i].file]
  /\ \A i, j \in 1..Len(w) :
       i < j /\ w[i].file = w[j].file => w[i].part < w[j].part
  /\ \A f \in Files : \A p \in PartSet :
       next[f] <= p /\ p < s[f] => \E i \in 1..Len(w) : w[i] = Frame(f, p)
  /\ \A f \in Files : next[f] <= s[f]
  /\ \A f \in Files : g[f] = "none" <=> next[f] = 0

\* While no two files were sent at once, one file is followed by the next.
OneByOne ==
  /\ \A f, g \in Files : UnderWay(f) /\ UnderWay(g) => f = g
  /\ \A i, j \in 1..Len(wire) :
       i < j /\ wire[i].file # wire[j].file =>
         /\ sent[wire[i].file] = End + 1
         /\ \A k \in 1..Len(wire) : j < k => wire[k].file # wire[i].file

\* A file that has begun to come in goes on before any other.
Arriving(next, f) == next[f] \in 1..End
ArrivingFirst(next, w, s) ==
  \A f \in Files : Arriving(next, f) =>
    IF w = <<>> THEN next[f] = s[f] ELSE w[1].file = f

\* What has come in of the file of now, t, are the chunks just before the next one,
\* all of them if no gate has kept anything waiting.
TailSoFar(next, t, waited) ==
  t # Nothing /\ next[t.id] <= End =>
    LET n == next[t.id] - 1
        r == t.received
    IN /\ Len(r) <= n
       /\ \A i \in 1..Len(r) : r[i] = Frame(t.id, (n - Len(r)) + i)
       /\ ~waited => Len(r) = n

\* A gate that has kept nothing waiting: its file is the one that comes in.
Prompt(next, g, t, b) ==
  \A f \in Files :
    /\ g[f] = "asking" => next[f] = 1
    /\ g[f] = "accepted" /\ next[f] <= End => t # Nothing /\ t.id = f
    /\ g[f] = "accepted" /\ next[f] = End + 1 => b[f] # "none"

Arrivals ==
  \E next \in [Files -> 0..(End + 1)] :
    /\ OnTheWire(next, wire, sent, gate)
    /\ ~overlapped =>
         /\ OneByOne
         /\ ArrivingFirst(next, wire, sent)
         /\ TailSoFar(next, incoming, late)
         /\ ~late => Prompt(next, gate, incoming, bubble)

\* What is in the vault, in terms of its chunks.
IsTail(s, f) ==
  /\ Len(s) <= Chunks
  /\ \A i \in 1..Len(s) : s[i] = Frame(f, (Chunks - Len(s)) + i)
VaultTail ==
  ~overlapped => \A f \in Files : vault[f] # NoBlob =>
    /\ IsTail(vault[f], f)
    /\ ~late => Len(vault[f]) = Chunks

IInv ==
  /\ MediaTypes
  /\ Severed
  /\ up => Arrivals
  /\ VaultTail
  /\ VaultPurged

------------------------------------------------------------------------------
(* What is in the vault *)

\* A sequence of the last chunks of a file is a suffix of its chunks.
LEMMA TailIsSuffix ==
  ASSUME NEW f \in Files, NEW s \in Seq(Parts), IsTail(s, f)
  PROVE  /\ IsSuffix(s, ChunksOf(f))
         /\ Len(s) = Chunks => s = ChunksOf(f)
<1>0. Chunks \in Nat \ {0}
  BY MediaAssumption DEF MediaAssumption
<1> USE <1>0
<1> DEFINE t == ChunksOf(f)
<1>1. /\ t \in Seq(Parts) /\ Len(t) = Chunks
      /\ \A i \in 1..Chunks : t[i] = Frame(f, i)
  BY DEF ChunksOf, Frame, Parts
<1>2. /\ Len(s) \in Nat /\ Len(s) <= Chunks
      /\ \A i \in 1..Len(s) : s[i] = t[(Chunks - Len(s)) + i]
  BY <1>1 DEF IsTail
<1> HIDE DEF t
<1>3. /\ Reverse(s) \in Seq(Parts) /\ Len(Reverse(s)) = Len(s)
      /\ \A i \in 1..Len(s) : Reverse(s)[i] = s[(Len(s) - i) + 1]
  BY DEF Reverse
<1>4. /\ Reverse(t) \in Seq(Parts) /\ Len(Reverse(t)) = Chunks
      /\ \A i \in 1..Chunks : Reverse(t)[i] = t[(Chunks - i) + 1]
  BY <1>1 DEF Reverse
<1>5. \A i \in 1..Len(s) : Reverse(s)[i] = Reverse(t)[i]
  BY <1>1, <1>2, <1>3, <1>4
<1>6. IsPrefix(Reverse(s), Reverse(t))
  BY <1>2, <1>3, <1>4, <1>5 DEF IsPrefix
<1>7. Len(s) = Chunks => s = t
  BY <1>1, <1>2, SeqEqual
<1> QED
  BY <1>6, <1>7 DEF IsSuffix, t

------------------------------------------------------------------------------
(* The wire *)

LEMMA EndOfParts ==
  /\ End \in Nat /\ End > 1 /\ End = Chunks + 1 /\ Chunks \in Nat \ {0}
  /\ PartSet = 0..End
BY MediaAssumption DEF MediaAssumption, End, PartSet

LEMMA InitIInv == Init => IInv
<1> SUFFICES ASSUME Init PROVE IInv
  OBVIOUS
<1> DEFINE next == [f \in Files |-> 0]
<1>1. MediaTypes
  <2>1. 0 \in 0..(End + 1)
    BY EndOfParts
  <2>2. sent \in [Files -> 0..(End + 1)] /\ gate \in [Files -> {"none", "asking", "accepted", "refused"}]
        /\ bubble \in [Files -> {"none", "unseen", "shown", "viewed"}]
    BY <2>1 DEF Init
  <2>5. wire \in Seq(FrameSet)
    <3>1. wire = <<>>
      BY DEF Init
    <3> QED
      BY <3>1
  <2>3. incoming = Nothing
        /\ up \in BOOLEAN /\ locked \in BOOLEAN /\ overlapped \in BOOLEAN /\ late \in BOOLEAN
    BY DEF Init
  <2>4. vault \in [Files -> Seq(Parts) \cup {NoBlob}] /\ \A f \in Files : vault[f] = NoBlob
    BY DEF Init
  <2> QED
    BY <2>2, <2>3, <2>4, <2>5 DEF MediaTypes, Transfers
<1>2. next \in [Files -> 0..(End + 1)]
  BY EndOfParts
<1>3. OnTheWire(next, wire, sent, gate)
  <2>1. /\ Len(wire) = 0
        /\ \A f \in Files : next[f] = 0 /\ sent[f] = 0 /\ gate[f] = "none"
    BY DEF Init
  <2> HIDE DEF next
  <2> QED
    BY <2>1 DEF OnTheWire, PartSet
<1>4. /\ OneByOne /\ ArrivingFirst(next, wire, sent)
      /\ TailSoFar(next, incoming, late) /\ Prompt(next, gate, incoming, bubble)
  <2>1. /\ Len(wire) = 0 /\ incoming = Nothing /\ End \in Nat
        /\ \A f \in Files : next[f] = 0 /\ sent[f] = 0 /\ gate[f] = "none"
    BY EndOfParts DEF Init
  <2> HIDE DEF next
  <2> QED
    BY <2>1 DEF OneByOne, UnderWay, ArrivingFirst, Arriving, TailSoFar, Prompt
<1> HIDE DEF next
<1>5. Arrivals
  BY <1>2, <1>3, <1>4 DEF Arrivals
<1> QED
  BY <1>1, <1>5 DEF Init, IInv, Severed, VaultTail, VaultPurged

\* Part p of f comes in, and the receiver waits for the one after it.
Comes(next, nx, f, p) ==
  /\ wire # <<>> /\ Head(wire) = Frame(f, p) /\ wire' = Tail(wire) /\ sent' = sent
  /\ next \in [Files -> 0..(End + 1)] /\ nx = [next EXCEPT ![f] = p + 1]
  /\ \A g \in Files : gate'[g] = "none" <=> gate[g] = "none" /\ (g = f => p # Meta)

LEMMA NothingOnIt == ASSUME NEW w, w = <<>> PROVE \A i \in 1..Len(w) : FALSE
OBVIOUS

\* The frame at the head of the wire is the one the receiver has to get next.
LEMMA ReceiveOnTheWire ==
  ASSUME MediaTypes, NEW next, OnTheWire(next, wire, sent, gate),
         NEW f \in Files, NEW p \in PartSet, NEW nx, Comes(next, nx, f, p)
  PROVE  /\ next[f] = p
         /\ OnTheWire(nx, wire', sent', gate')
         /\ wire # <<>> /\ wire[1] = Frame(f, p) /\ wire' \in Seq(FrameSet)
         /\ Len(wire) \in Nat \ {0} /\ Len(wire') = Len(wire) - 1
         /\ \A i \in 1..Len(wire) - 1 : wire'[i] = wire[i + 1]
<1> USE EndOfParts DEF PartSet
<1>1. /\ wire # <<>> /\ wire[1] = Frame(f, p) /\ wire' \in Seq(FrameSet)
      /\ Len(wire) \in Nat \ {0} /\ Len(wire') = Len(wire) - 1
      /\ \A i \in 1..Len(wire) - 1 : wire'[i] = wire[i + 1]
  BY DEF MediaTypes, Comes
<1>2. wire[1].file = f /\ wire[1].part = p
  BY <1>1 DEF Frame
<1>3. /\ \A i \in 1..Len(wire) :
           wire[i].file \in Files /\ wire[i].part \in Nat /\ wire[i].part <= End
      /\ \A g \in Files : next[g] \in Nat /\ sent[g] \in Nat /\ sent[g] <= End + 1
  <2>1. \A i \in 1..Len(wire) : wire[i] \in FrameSet
    BY DEF MediaTypes
  <2>2. \A i \in 1..Len(wire) : wire[i].file \in Files /\ wire[i].part \in 0..End
    BY <2>1 DEF FrameSet
  <2>3. \A g \in Files : next[g] \in 0..(End + 1) /\ sent[g] \in 0..(End + 1)
    BY DEF MediaTypes, Comes
  <2> QED
    BY <2>2, <2>3
<1>4. next[f] = p
  <2>1. next[f] <= p /\ p < sent[f]
    BY <1>1, <1>2 DEF OnTheWire
  <2>2. next[f] \in PartSet
    BY <1>3, <2>1
  <2>3. PICK i \in 1..Len(wire) : wire[i] = Frame(f, next[f])
    BY <1>3, <2>1, <2>2 DEF OnTheWire
  <2>4. wire[i].file = f /\ wire[i].part = next[f]
    BY <2>3 DEF Frame
  <2>5. CASE i = 1
    BY <1>2, <2>4, <2>5
  <2>6. CASE i # 1
    <3>1. 1 \in 1..Len(wire) /\ 1 < i
      BY <1>1, <2>6
    <3>2. wire[1].part < wire[i].part
      BY <1>2, <2>4, <3>1 DEF OnTheWire
    <3> QED
      BY <1>2, <1>3, <2>1, <2>4, <3>2
  <2> QED
    BY <2>5, <2>6
<1>5. /\ nx[f] = p + 1
      /\ \A g \in Files : g # f => nx[g] = next[g]
      /\ \A g \in Files : gate'[g] = "none" <=> gate[g] = "none" /\ (g = f => p # Meta)
      /\ sent' = sent
  BY DEF Comes
<1>7. \A i \in 1..Len(wire') :
        nx[wire'[i].file] <= wire'[i].part /\ wire'[i].part < sent[wire'[i].file]
  <2> SUFFICES ASSUME NEW i \in 1..Len(wire) - 1
               PROVE  /\ nx[wire[i + 1].file] <= wire[i + 1].part
                      /\ wire[i + 1].part < sent[wire[i + 1].file]
    BY <1>1
  <2>1. i + 1 \in 1..Len(wire) /\ 1 \in 1..Len(wire) /\ 1 < i + 1
    BY <1>1
  <2>2. next[wire[i + 1].file] <= wire[i + 1].part /\ wire[i + 1].part < sent[wire[i + 1].file]
    BY <2>1 DEF OnTheWire
  <2>3. CASE wire[i + 1].file = f
    BY <1>2, <1>3, <1>5, <2>1, <2>2, <2>3 DEF OnTheWire
  <2>4. CASE wire[i + 1].file # f
    BY <1>3, <1>5, <2>1, <2>2, <2>4
  <2> QED
    BY <2>3, <2>4
<1>8. ASSUME NEW i \in 1..Len(wire'), NEW j \in 1..Len(wire'), i < j,
             wire'[i].file = wire'[j].file
      PROVE  wire'[i].part < wire'[j].part
  <2>1. i + 1 \in 1..Len(wire) /\ j + 1 \in 1..Len(wire) /\ i + 1 < j + 1
    BY <1>1, <1>8
  <2>2. wire'[i] = wire[i + 1] /\ wire'[j] = wire[j + 1]
    BY <1>1
  <2>3. \A k, l \in 1..Len(wire) :
          k < l /\ wire[k].file = wire[l].file => wire[k].part < wire[l].part
    BY DEF OnTheWire
  <2> QED
    BY <1>8, <2>1, <2>2, <2>3
<1>9. ASSUME NEW g \in Files, NEW q \in PartSet, nx[g] <= q, q < sent[g]
      PROVE  \E i \in 1..Len(wire') : wire'[i] = Frame(g, q)
  <2>1. next[g] <= q /\ (g # f \/ q # p)
    BY <1>3, <1>4, <1>5, <1>9
  <2>2. PICK i \in 1..Len(wire) : wire[i] = Frame(g, q)
    BY <1>9, <2>1 DEF OnTheWire
  <2>3. wire[i].file = g /\ wire[i].part = q
    BY <2>2 DEF Frame
  <2>4. i # 1
    BY <1>2, <2>1, <2>3
  <2>5. i - 1 \in 1..Len(wire) - 1 /\ (i - 1) + 1 = i
    BY <1>1, <2>4
  <2>6. wire'[i - 1] = wire[i] /\ i - 1 \in 1..Len(wire')
    BY <1>1, <2>5
  <2> QED
    BY <2>2, <2>6
<1>10. \A g \in Files : nx[g] <= sent[g]
  BY <1>1, <1>2, <1>3, <1>5 DEF OnTheWire
<1>11. \A g \in Files : gate'[g] = "none" <=> nx[g] = 0
  BY <1>3, <1>4, <1>5 DEF OnTheWire, Meta
<1>12. OnTheWire(nx, wire', sent', gate')
  BY <1>5, <1>7, <1>8, <1>9, <1>10, <1>11 DEF OnTheWire
<1> QED
  BY <1>1, <1>4, <1>12

\* Files that come one by one go on coming one by one; whatever is coming in is the
\* file whose frame is received.
LEMMA ReceiveOneByOne ==
  ASSUME MediaTypes, NEW next, OnTheWire(next, wire, sent, gate),
         OneByOne, ArrivingFirst(next, wire, sent),
         NEW f \in Files, NEW p \in PartSet, NEW nx, Comes(next, nx, f, p)
  PROVE  /\ OneByOne' /\ ArrivingFirst(nx, wire', sent')
         /\ \A g \in Files : Arriving(next, g) => g = f
<1>1. /\ next[f] = p /\ OnTheWire(nx, wire', sent', gate')
      /\ wire # <<>> /\ wire[1] = Frame(f, p) /\ wire' \in Seq(FrameSet)
      /\ Len(wire) \in Nat \ {0} /\ Len(wire') = Len(wire) - 1
      /\ \A i \in 1..Len(wire) - 1 : wire'[i] = wire[i + 1]
  BY ReceiveOnTheWire
<1> USE EndOfParts DEF PartSet
<1>2. wire[1].file = f /\ wire[1].part = p /\ sent' = sent
  BY <1>1 DEF Frame, Comes
<1>3. /\ nx[f] = p + 1
      /\ \A g \in Files : g # f => nx[g] = next[g]
  BY DEF Comes
<1>4. \A g \in Files : Arriving(next, g) => g = f
  BY <1>1, <1>2 DEF ArrivingFirst
<1>5. OneByOne'
  <2>1. \A g, h \in Files : UnderWay(g)' /\ UnderWay(h)' => g = h
    BY <1>2 DEF OneByOne, UnderWay
  <2>2. ASSUME NEW i \in 1..Len(wire) - 1, NEW j \in 1..Len(wire) - 1, i < j,
               wire[i + 1].file # wire[j + 1].file
        PROVE  /\ sent[wire[i + 1].file] = End + 1
               /\ \A k \in 1..Len(wire) - 1 : j < k => wire[k + 1].file # wire[i + 1].file
    <3> DEFINE n == Len(wire)
    <3>0. n \in Nat \ {0} /\ i \in 1..n - 1 /\ j \in 1..n - 1
      BY <1>1
    <3> HIDE DEF n
    <3>1. i + 1 \in 1..n /\ j + 1 \in 1..n /\ i + 1 < j + 1
      BY <2>2, <3>0
    <3>2. \A k \in 1..n - 1 : j < k => k + 1 \in 1..n /\ j + 1 < k + 1
      BY <3>0
    <3> USE DEF n
    <3> QED
      BY <2>2, <3>1, <3>2 DEF OneByOne
  <2>3. ASSUME NEW i \in 1..Len(wire'), NEW j \in 1..Len(wire'), i < j,
               wire'[i].file # wire'[j].file
        PROVE  /\ sent'[wire'[i].file] = End + 1
               /\ \A k \in 1..Len(wire') : j < k => wire'[k].file # wire'[i].file
    <3>1. i \in 1..Len(wire) - 1 /\ j \in 1..Len(wire) - 1
      BY <1>1
    <3>2. wire'[i] = wire[i + 1] /\ wire'[j] = wire[j + 1]
      BY <1>1, <3>1
    <3>3. /\ sent[wire[i + 1].file] = End + 1
          /\ \A k \in 1..Len(wire) - 1 : j < k => wire[k + 1].file # wire[i + 1].file
      BY <2>2, <2>3, <3>1, <3>2
    <3>4. \A k \in 1..Len(wire') : wire'[k] = wire[k + 1] /\ k \in 1..Len(wire) - 1
      BY <1>1
    <3> QED
      BY <1>2, <3>2, <3>3, <3>4
  <2> QED
    BY <2>1, <2>3 DEF OneByOne
<1>6. ASSUME NEW g \in Files, Arriving(nx, g)
      PROVE  IF wire' = <<>> THEN nx[g] = sent[g] ELSE wire'[1].file = g
  <2>1. g = f
    BY <1>3, <1>4, <1>6 DEF Arriving
  <2>2. CASE wire' = <<>>
    <3>1. nx[f] <= sent[f] /\ nx[f] \in PartSet /\ sent[f] \in Nat
      BY <1>1, <1>2, <1>6, <2>1 DEF OnTheWire, Arriving, MediaTypes
    <3>2. \A i \in 1..Len(wire') : FALSE
      BY <2>2, NothingOnIt
    <3>3. nx[f] < sent'[f] => \E i \in 1..Len(wire') : wire'[i] = Frame(f, nx[f])
      <4>1. nx[f] <= nx[f] /\ f \in Files
        BY <3>1
      <4>2. \A h \in Files : \A q \in PartSet :
              nx[h] <= q /\ q < sent'[h] => \E i \in 1..Len(wire') : wire'[i] = Frame(h, q)
        BY <1>1 DEF OnTheWire
      <4> QED
        BY <3>1, <4>1, <4>2, Zenon
    <3>4. ~(nx[f] < sent[f])
      BY <1>2, <3>2, <3>3, Zenon
    <3> QED
      BY <1>2, <2>1, <2>2, <3>1, <3>4
  <2>3. CASE wire' # <<>>
    <3>1. Len(wire) > 1 /\ 2 \in 1..Len(wire) /\ 1 \in 1..Len(wire) /\ wire'[1] = wire[2]
      BY <1>1, <2>3
    <3>2. SUFFICES ASSUME wire[2].file # f PROVE FALSE
      BY <2>1, <2>3, <3>1
    <3>3. /\ sent[f] = End + 1
          /\ \A k \in 1..Len(wire) : 2 < k => wire[k].file # f
      <4>1. \A i, j \in 1..Len(wire) :
              i < j /\ wire[i].file # wire[j].file =>
                /\ sent[wire[i].file] = End + 1
                /\ \A k \in 1..Len(wire) : j < k => wire[k].file # wire[i].file
        BY DEF OneByOne
      <4>2. 1 < 2 /\ wire[1].file # wire[2].file
        BY <1>2, <3>2
      <4> QED
        BY <1>2, <3>1, <4>1, <4>2
    <3>4. p < End /\ End \in PartSet
      BY <1>3, <1>6, <2>1 DEF Arriving
    <3>5. PICK k \in 1..Len(wire) : wire[k] = Frame(f, End)
      <4>1. next[f] <= End /\ End < sent[f]
        BY <1>1, <3>3, <3>4
      <4> QED
        BY <3>4, <4>1 DEF OnTheWire
    <3>6. wire[k].file = f /\ wire[k].part = End
      BY <3>5 DEF Frame
    <3> QED
      BY <1>2, <3>2, <3>3, <3>4, <3>6
  <2> QED
    BY <2>2, <2>3
<1> QED
  BY <1>2, <1>4, <1>5, <1>6 DEF ArrivingFirst, Arriving

------------------------------------------------------------------------------
(* Types, and the closed channel *)

LEMMA NoTransfer == Nothing \notin Transfers
BY MediaAssumption DEF MediaAssumption, Transfers, Parts

\* The file of a media-meta that comes in has not asked its gate before.
LEMMA MetaIsFirst ==
  ASSUME IInv, NEW f \in Files, MetaArrives(f)
  PROVE  gate[f] = "none"
<1>1. wire # <<>> /\ Head(wire) = Frame(f, Meta)
  BY DEF MetaArrives, Receive
<1>2. up
  BY <1>1 DEF IInv, Severed
<1>3. PICK next \in [Files -> 0..(End + 1)] : OnTheWire(next, wire, sent, gate)
  BY <1>2 DEF IInv, Arrivals
<1>4. wire[1].file = f /\ wire[1].part = 0 /\ 1 \in 1..Len(wire)
  BY <1>1 DEF Frame, Meta, IInv, MediaTypes
<1>5. next[f] <= 0 /\ next[f] \in Nat
  BY <1>3, <1>4, EndOfParts DEF OnTheWire
<1> QED
  BY <1>3, <1>5 DEF OnTheWire

LEMMA TypesNext == IInv /\ [Next]_vars => MediaTypes' /\ Severed'
<1> SUFFICES ASSUME IInv, [Next]_vars PROVE MediaTypes' /\ Severed'
  OBVIOUS
<1>0. MediaTypes /\ Severed
  BY DEF IInv
<1>1. ASSUME NEW f \in Files, SendFrame(f) PROVE MediaTypes' /\ Severed'
  <2>1. sent[f] \in PartSet /\ Frame(f, sent[f]) \in FrameSet
    BY <1>0, <1>1, EndOfParts DEF SendFrame, MediaTypes, Frame, FrameSet
  <2>2. wire' \in Seq(FrameSet) /\ (up \/ wire' = wire) /\ up' = up /\ locked' = locked
    BY <1>0, <1>1, <2>1 DEF SendFrame, MediaTypes
  <2>3. sent' \in [Files -> 0..(End + 1)]
    <3>1. sent[f] + 1 \in 0..(End + 1)
      BY <2>1, EndOfParts
    <3> QED
      BY <1>0, <1>1, <3>1 DEF SendFrame, MediaTypes
  <2>4. overlapped' \in BOOLEAN
    BY <1>0, <1>1 DEF SendFrame, MediaTypes
  <2>5. UNCHANGED <<up, gate, incoming, vault, bubble, locked, late>>
    BY <1>1 DEF SendFrame
  <2> QED
    BY <1>0, <2>2, <2>3, <2>4, <2>5 DEF MediaTypes, Severed
<1>2. ASSUME NEW f \in Files, NEW p \in PartSet, Receive(f, p)
      PROVE  /\ wire' \in Seq(FrameSet) /\ late' \in BOOLEAN /\ Severed'
             /\ UNCHANGED <<sent, up, locked, overlapped>>
  <2>1. wire # <<>> /\ up' = up /\ locked' = locked /\ wire' = Tail(wire)
    BY <1>2 DEF Receive
  <2>2. up /\ wire' \in Seq(FrameSet)
    BY <1>0, <2>1 DEF Severed, MediaTypes
  <2>3. Severed'
    BY <1>0, <2>1, <2>2 DEF Severed
  <2> QED
    BY <1>2, <2>2, <2>3 DEF Receive
<1>3. ASSUME NEW f \in Files, MetaArrives(f) PROVE MediaTypes' /\ Severed'
  <2>1. gate[f] = "none" /\ Meta \in PartSet
    BY <1>3, MetaIsFirst, EndOfParts DEF Meta
  <2>2. /\ wire' \in Seq(FrameSet) /\ late' \in BOOLEAN /\ Severed'
        /\ UNCHANGED <<sent, up, locked, overlapped>>
    BY <1>2, <1>3, <2>1 DEF MetaArrives
  <2>3. gate' = [gate EXCEPT ![f] = "asking"] /\ UNCHANGED <<incoming, vault, bubble>>
    BY <1>3 DEF MetaArrives
  <2>4. incoming # Nothing => incoming.id \in Files /\ incoming.id # f
    BY <1>0, <2>1 DEF MediaTypes, Transfers
  <2>5. \A g \in Files : vault[g] # NoBlob => g # f
    BY <1>0, <2>1 DEF MediaTypes
  <2> QED
    BY <1>0, <2>2, <2>3, <2>4, <2>5 DEF MediaTypes
<1>4. ASSUME NEW f \in Files, GateAnswers(f) PROVE MediaTypes' /\ Severed'
  <2>1. PICK answer \in {"accepted", "refused"} :
          /\ gate' = [gate EXCEPT ![f] = answer]
          /\ incoming' = [id |-> f, discard |-> answer = "refused", received |-> <<>>]
    BY <1>4 DEF GateAnswers
  <2>2. /\ gate[f] = "asking"
        /\ UNCHANGED <<sent, wire, up, vault, bubble, locked, overlapped, late>>
    BY <1>4 DEF GateAnswers
  <2>3. /\ incoming' \in Transfers /\ incoming'.id = f
        /\ incoming'.discard <=> answer = "refused"
    <3>1. (answer = "refused") \in BOOLEAN /\ <<>> \in Seq(Parts)
      OBVIOUS
    <3> QED
      BY <2>1, <3>1 DEF Transfers
  <2>4. gate' \in [Files -> {"none", "asking", "accepted", "refused"}] /\ gate'[f] = answer
        /\ \A g \in Files : g # f => gate'[g] = gate[g]
    BY <1>0, <2>1 DEF MediaTypes
  <2>5. \A g \in Files : vault[g] # NoBlob => g # f
    BY <1>0, <2>2 DEF MediaTypes
  <2> QED
    BY <1>0, <2>2, <2>3, <2>4, <2>5 DEF MediaTypes, Severed
<1>5. ASSUME NEW f \in Files, NEW i \in 1..Chunks, ChunkArrives(f, i)
      PROVE  MediaTypes' /\ Severed'
  <2>1. i \in PartSet /\ Frame(f, i) \in Parts
    BY EndOfParts DEF Frame, Parts
  <2>2. /\ wire' \in Seq(FrameSet) /\ late' \in BOOLEAN /\ Severed'
        /\ UNCHANGED <<sent, up, locked, overlapped>>
    BY <1>2, <1>5, <2>1 DEF ChunkArrives
  <2>3. UNCHANGED <<gate, vault, bubble>>
    BY <1>5 DEF ChunkArrives
  <2>4. CASE incoming = Nothing
    BY <1>0, <1>5, <2>2, <2>3, <2>4 DEF MediaTypes, ChunkArrives
  <2>5. CASE incoming # Nothing
    <3>1. incoming \in Transfers /\ incoming' = [incoming EXCEPT !.received = Append(@, Frame(f, i))]
      BY <1>0, <1>5, <2>5 DEF MediaTypes, ChunkArrives
    <3>2. incoming' \in Transfers /\ incoming'.id = incoming.id /\ incoming'.discard = incoming.discard
      BY <2>1, <3>1 DEF Transfers
    <3> QED
      BY <1>0, <2>2, <2>3, <2>5, <3>2 DEF MediaTypes
  <2> QED
    BY <2>4, <2>5
<1>6. ASSUME NEW f \in Files, EndArrives(f) PROVE MediaTypes' /\ Severed'
  <2>1. End \in PartSet
    BY EndOfParts
  <2>2. /\ wire' \in Seq(FrameSet) /\ late' \in BOOLEAN /\ Severed'
        /\ UNCHANGED <<sent, up, locked, overlapped>>
    BY <1>2, <1>6, <2>1 DEF EndArrives
  <2>3. incoming' = Nothing /\ gate' = gate
    BY <1>6 DEF EndArrives
  <2>4. CASE incoming # Nothing /\ incoming.id = f /\ ~incoming.discard
    <3>1. /\ vault' = [vault EXCEPT ![f] = incoming.received]
          /\ bubble' = [bubble EXCEPT ![f] = "unseen"]
      BY <1>6, <2>4 DEF EndArrives
    <3>2. gate[f] = "accepted" /\ incoming.received \in Seq(Parts)
      BY <1>0, <2>4 DEF MediaTypes, Transfers
    <3> QED
      BY <1>0, <2>2, <2>3, <3>1, <3>2 DEF MediaTypes
  <2>5. CASE ~(incoming # Nothing /\ incoming.id = f /\ ~incoming.discard)
    <3>1. UNCHANGED <<vault, bubble>>
      BY <1>6, <2>5 DEF EndArrives
    <3> QED
      BY <1>0, <2>2, <2>3, <3>1 DEF MediaTypes
  <2> QED
    BY <2>4, <2>5
<1>7. ASSUME NEW f \in Files, Tap(f) PROVE MediaTypes' /\ Severed'
  BY <1>0, <1>7 DEF MediaTypes, Severed, Tap
<1>8. ASSUME NEW f \in Files, Burn(f) PROVE MediaTypes' /\ Severed'
  BY <1>0, <1>8 DEF MediaTypes, Severed, Burn
<1> DEFINE nothing == <<>>
<1>12. nothing \in Seq(FrameSet) /\ nothing = <<>>
  OBVIOUS
<1> HIDE DEF nothing
<1>9. CASE ChannelCloses
  <2>1. wire' = nothing /\ up' = FALSE /\ UNCHANGED <<sent, gate, incoming, vault, bubble, locked, overlapped, late>>
    BY <1>9, <1>12 DEF ChannelCloses
  <2> QED
    BY <1>0, <1>12, <2>1 DEF MediaTypes, Severed
<1>10. CASE Lock
  <2>1. /\ wire' = nothing /\ up' = FALSE /\ UNCHANGED <<sent, gate, incoming, bubble, overlapped, late>>
        /\ locked' = TRUE /\ vault' = [f \in Files |-> NoBlob]
    BY <1>10, <1>12 DEF Lock
  <2> QED
    BY <1>0, <1>12, <2>1 DEF MediaTypes, Severed
<1>11. CASE UNCHANGED vars
  BY <1>0, <1>11 DEF MediaTypes, Severed, vars
<1> QED
  BY <1>1, <1>3, <1>4, <1>5, <1>6, <1>7, <1>8, <1>9, <1>10, <1>11 DEF Next

------------------------------------------------------------------------------
(* What comes in *)

\* A frame that is sent goes to the end of the wire.
LEMMA SendOnTheWire ==
  ASSUME MediaTypes, NEW next \in [Files -> 0..(End + 1)],
         OnTheWire(next, wire, sent, gate), NEW f \in Files, SendFrame(f), up
  PROVE  OnTheWire(next, wire', sent', gate')
<1> USE EndOfParts DEF PartSet
<1>1. /\ sent' = [sent EXCEPT ![f] = @ + 1] /\ gate' = gate
      /\ wire' = Append(wire, Frame(f, sent[f])) /\ sent[f] \in PartSet
  BY DEF SendFrame, MediaTypes
<1>2. /\ Len(wire) \in Nat /\ Len(wire') = Len(wire) + 1
      /\ \A i \in 1..Len(wire) : wire'[i] = wire[i]
      /\ wire'[Len(wire) + 1] = Frame(f, sent[f])
  BY <1>1 DEF MediaTypes
<1>3. /\ wire'[Len(wire) + 1].file = f /\ wire'[Len(wire) + 1].part = sent[f]
      /\ sent'[f] = sent[f] + 1 /\ \A g \in Files : g # f => sent'[g] = sent[g]
  BY <1>1, <1>2 DEF Frame, MediaTypes
<1>4. /\ \A i \in 1..Len(wire) :
           wire[i].file \in Files /\ wire[i].part \in Nat /\ wire[i].part <= End
      /\ \A g \in Files : next[g] \in Nat /\ sent[g] \in Nat /\ next[g] <= sent[g]
  <2>1. \A i \in 1..Len(wire) : wire[i] \in FrameSet
    BY DEF MediaTypes
  <2>2. \A i \in 1..Len(wire) : wire[i].file \in Files /\ wire[i].part \in 0..End
    BY <2>1 DEF FrameSet
  <2>3. \A g \in Files : next[g] \in 0..(End + 1) /\ sent[g] \in 0..(End + 1) /\ next[g] <= sent[g]
    BY DEF MediaTypes, OnTheWire
  <2> QED
    BY <2>2, <2>3
<1> DEFINE n == Len(wire)
<1>5. \A i \in 1..n + 1 : i \in 1..n \/ i = n + 1
  BY <1>2
<1>6. ASSUME NEW i \in 1..n
      PROVE  /\ next[wire[i].file] <= wire[i].part
             /\ wire[i].part < sent[wire[i].file]
             /\ wire[i].part < sent'[wire[i].file]
  <2>1. next[wire[i].file] <= wire[i].part /\ wire[i].part < sent[wire[i].file]
    BY DEF OnTheWire
  <2>3. \A g \in Files : sent[g] <= sent'[g] /\ sent[g] \in Nat /\ sent'[g] \in Nat
    BY <1>3, <1>4
  <2>2. sent[wire[i].file] <= sent'[wire[i].file]
    BY <1>4, <2>3
  <2> QED
    BY <1>4, <2>1, <2>2, <2>3
<1>7. ASSUME NEW i \in 1..n + 1
      PROVE  next[wire'[i].file] <= wire'[i].part /\ wire'[i].part < sent'[wire'[i].file]
  <2>1. CASE i \in 1..n
    BY <1>2, <1>6, <2>1
  <2>2. CASE i = n + 1
    BY <1>3, <1>4, <2>2
  <2> QED
    BY <1>5, <2>1, <2>2
<1>8. ASSUME NEW i \in 1..n + 1, NEW j \in 1..n + 1, i < j, wire'[i].file = wire'[j].file
      PROVE  wire'[i].part < wire'[j].part
  <2>1. i \in 1..n
    BY <1>2, <1>5, <1>8
  <2>2. CASE j \in 1..n
    <3>1. \A k, l \in 1..Len(wire) :
            k < l /\ wire[k].file = wire[l].file => wire[k].part < wire[l].part
      BY DEF OnTheWire
    <3> QED
      BY <1>2, <1>8, <2>1, <2>2, <3>1
  <2>3. CASE j = n + 1
    BY <1>2, <1>3, <1>6, <1>8, <2>1, <2>3
  <2> QED
    BY <1>5, <2>2, <2>3
<1>9. ASSUME NEW g \in Files, NEW q \in PartSet, next[g] <= q, q < sent'[g]
      PROVE  \E i \in 1..n + 1 : wire'[i] = Frame(g, q)
  <2>1. CASE g = f /\ q = sent[f]
    <3>1. n + 1 \in 1..n + 1
      BY <1>2
    <3> QED
      BY <1>2, <2>1, <3>1
  <2>2. CASE ~(g = f /\ q = sent[f])
    <3>1. q < sent[g]
      BY <1>3, <1>4, <1>9, <2>2
    <3>2. PICK i \in 1..n : wire[i] = Frame(g, q)
      BY <1>9, <3>1 DEF OnTheWire
    <3>3. i \in 1..n + 1
      BY <1>2
    <3> QED
      BY <1>2, <3>2, <3>3
  <2> QED
    BY <2>1, <2>2
<1>10. \A g \in Files : next[g] <= sent'[g]
  BY <1>3, <1>4
<1>11. \A g \in Files : gate'[g] = "none" <=> next[g] = 0
  BY <1>1 DEF OnTheWire
<1>12. Len(wire') = n + 1
  BY <1>2
<1> HIDE DEF n
<1> QED
  BY <1>7, <1>8, <1>9, <1>10, <1>11, <1>12 DEF OnTheWire

\* ... after whatever was sent before, if it is sent alone.
LEMMA SendOneByOne ==
  ASSUME MediaTypes, NEW next \in [Files -> 0..(End + 1)],
         OnTheWire(next, wire, sent, gate), NEW f \in Files, SendFrame(f), up,
         ~overlapped', OneByOne, ArrivingFirst(next, wire, sent)
  PROVE  OneByOne' /\ ArrivingFirst(next, wire', sent')
<1> USE EndOfParts DEF PartSet
<1>1. /\ sent' = [sent EXCEPT ![f] = @ + 1]
      /\ wire' = Append(wire, Frame(f, sent[f])) /\ sent[f] \in Nat /\ sent[f] <= End
      /\ \A g \in Files \ {f} : ~UnderWay(g)
  <2>1. sent[f] \in 0..(End + 1) /\ sent[f] <= End
    BY DEF SendFrame, MediaTypes
  <2>2. sent' = [sent EXCEPT ![f] = @ + 1] /\ wire' = Append(wire, Frame(f, sent[f]))
    BY DEF SendFrame
  <2>3. ~(\E g \in Files \ {f} : UnderWay(g))
    BY DEF SendFrame
  <2> QED
    BY <2>1, <2>2, <2>3
<1>2. /\ Len(wire) \in Nat /\ Len(wire') = Len(wire) + 1
      /\ \A i \in 1..Len(wire) : wire'[i] = wire[i]
      /\ wire'[Len(wire) + 1] = Frame(f, sent[f])
  BY <1>1 DEF MediaTypes
<1>3. /\ wire'[Len(wire) + 1].file = f
      /\ sent'[f] = sent[f] + 1 /\ \A g \in Files : g # f => sent'[g] = sent[g]
  BY <1>1, <1>2 DEF Frame, MediaTypes
<1>4. ASSUME NEW i \in 1..Len(wire) PROVE wire[i].file \in Files /\ sent[wire[i].file] \in 1..(End + 1)
  <2>3. wire[i] \in FrameSet
    BY DEF MediaTypes
  <2>1. wire[i].file \in Files /\ wire[i].part \in 0..End
    BY <2>3 DEF FrameSet
  <2>2. wire[i].part < sent[wire[i].file] /\ sent[wire[i].file] \in 0..(End + 1)
    BY <2>1 DEF OnTheWire, MediaTypes
  <2> QED
    BY <2>1, <2>2
<1> DEFINE n == Len(wire)
<1>5. n \in Nat /\ \A i \in 1..n + 1 : i \in 1..n \/ i = n + 1
  BY <1>2
<1>6. \A g, h \in Files : UnderWay(g)' /\ UnderWay(h)' => g = h
  BY <1>1, <1>3 DEF UnderWay
<1>7. ASSUME NEW i \in 1..n, wire[i].file # f
      PROVE  sent[wire[i].file] = End + 1 /\ sent'[wire[i].file] = End + 1
  BY <1>1, <1>3, <1>4, <1>7 DEF UnderWay
<1>8. ASSUME NEW i \in 1..n + 1, NEW j \in 1..n + 1, i < j, wire'[i].file # wire'[j].file
      PROVE  /\ sent'[wire'[i].file] = End + 1
             /\ \A k \in 1..n + 1 : j < k => wire'[k].file # wire'[i].file
  <2>1. i \in 1..n /\ wire'[i] = wire[i]
    BY <1>2, <1>5, <1>8
  <2>2. CASE j \in 1..n
    <3>1. wire'[j] = wire[j]
      BY <1>2, <2>2
    <3>2. /\ sent[wire[i].file] = End + 1
          /\ \A k \in 1..n : j < k => wire[k].file # wire[i].file
      BY <1>8, <2>1, <2>2, <3>1 DEF OneByOne
    <3>3. wire[i].file # f
      BY <1>1, <3>2
    <3>4. sent'[wire'[i].file] = End + 1
      BY <1>7, <2>1, <3>3
    <3>5. ASSUME NEW k \in 1..n + 1, j < k PROVE wire'[k].file # wire'[i].file
      <4>1. CASE k \in 1..n
        BY <1>2, <2>1, <3>2, <3>5, <4>1
      <4>2. CASE k = n + 1
        BY <1>3, <2>1, <3>3, <4>2
      <4> QED
        BY <1>5, <4>1, <4>2
    <3> QED
      BY <3>4, <3>5
  <2>3. CASE j = n + 1
    <3>1. wire[i].file # f
      BY <1>3, <1>8, <2>1, <2>3
    <3>2. \A k \in 1..n + 1 : ~(j < k)
      BY <1>5, <2>3
    <3> QED
      BY <1>7, <2>1, <3>1, <3>2
  <2> QED
    BY <1>5, <2>2, <2>3
<1>9. OneByOne'
  <2>1. Len(wire') = n + 1
    BY <1>2
  <2> HIDE DEF n
  <2> QED
    BY <1>6, <1>8, <2>1 DEF OneByOne
<1>10. ASSUME NEW g \in Files, Arriving(next, g)
       PROVE  wire' # <<>> /\ wire'[1].file = g
  <2>1. wire' # <<>>
    BY <1>1 DEF MediaTypes
  <2>2. CASE wire = <<>>
    <3>1. next[g] = sent[g]
      BY <1>10, <2>2 DEF ArrivingFirst
    <3>2. g = f
      BY <1>1, <1>10, <3>1 DEF Arriving, UnderWay
    <3>3. n = 0
      BY <2>2
    <3> QED
      BY <1>3, <2>1, <3>2, <3>3
  <2>3. CASE wire # <<>>
    <3>1. wire[1].file = g
      BY <1>10, <2>3 DEF ArrivingFirst
    <3>2. 1 \in 1..n
      BY <2>3 DEF MediaTypes
    <3> QED
      BY <1>2, <2>1, <3>1, <3>2
  <2> QED
    BY <2>2, <2>3
<1> QED
  BY <1>9, <1>10 DEF ArrivingFirst

\* What the two lemmas about a frame that comes in say of the files of one step.
LEMMA FrameComes ==
  ASSUME IInv, NEW f \in Files, NEW p \in PartSet, Receive(f, p),
         \A g \in Files : gate'[g] = "none" <=> gate[g] = "none" /\ (g = f => p # Meta)
  PROVE  \E next \in [Files -> 0..(End + 1)] : \E nx \in [Files -> 0..(End + 1)] :
           /\ next[f] = p /\ nx = [next EXCEPT ![f] = p + 1]
           /\ OnTheWire(next, wire, sent, gate) /\ OnTheWire(nx, wire', sent', gate')
           /\ ~overlapped =>
                /\ OneByOne' /\ ArrivingFirst(nx, wire', sent')
                /\ TailSoFar(next, incoming, late)
                /\ ~late => Prompt(next, gate, incoming, bubble)
                /\ \A g \in Files : Arriving(next, g) => g = f
           /\ ~late' => ~late /\ \A g \in Files : gate[g] # "asking"
           /\ overlapped' = overlapped /\ up
<1>1. /\ wire # <<>> /\ Head(wire) = Frame(f, p) /\ wire' = Tail(wire) /\ sent' = sent
      /\ overlapped' = overlapped
      /\ late' = (late \/ \E g \in Files : gate[g] = "asking")
  BY DEF Receive
<1>2. up /\ MediaTypes
  BY <1>1 DEF IInv, Severed
<1>3. PICK next \in [Files -> 0..(End + 1)] :
        /\ OnTheWire(next, wire, sent, gate)
        /\ ~overlapped =>
             /\ OneByOne
             /\ ArrivingFirst(next, wire, sent)
             /\ TailSoFar(next, incoming, late)
             /\ ~late => Prompt(next, gate, incoming, bubble)
  BY <1>2 DEF IInv, Arrivals
<1> DEFINE nx == [next EXCEPT ![f] = p + 1]
<1>4. nx \in [Files -> 0..(End + 1)]
  <2>1. p + 1 \in 0..(End + 1)
    BY EndOfParts
  <2> QED
    BY <2>1
<1>5. nx = [next EXCEPT ![f] = p + 1]
  OBVIOUS
<1> HIDE DEF nx
<1>6. Comes(next, nx, f, p)
  BY <1>1, <1>3, <1>5 DEF Comes
<1>7. next[f] = p /\ OnTheWire(nx, wire', sent', gate')
  BY <1>2, <1>3, <1>6, ReceiveOnTheWire
<1>8. ~overlapped =>
        /\ OneByOne' /\ ArrivingFirst(nx, wire', sent')
        /\ \A g \in Files : Arriving(next, g) => g = f
  BY <1>2, <1>3, <1>6, ReceiveOneByOne
<1>9. ~late' => ~late /\ \A g \in Files : gate[g] # "asking"
  BY <1>1
<1> QED
  BY <1>1, <1>2, <1>3, <1>4, <1>5, <1>7, <1>8, <1>9

\* The gate of the file that is coming in, and of one whose frames have not begun.
LEMMA Begun ==
  ASSUME MediaTypes, NEW next \in [Files -> 0..(End + 1)],
         OnTheWire(next, wire, sent, gate), NEW f \in Files, gate[f] # "none"
  PROVE  next[f] \in 1..(End + 1)
<1>1. next[f] # 0 /\ next[f] \in 0..(End + 1)
  BY DEF OnTheWire
<1> QED
  BY <1>1, EndOfParts

LEMMA MetaGoesOn ==
  ASSUME IInv, NEW f \in Files, MetaArrives(f)
  PROVE  Arrivals'
<1>1. /\ Receive(f, Meta) /\ gate' = [gate EXCEPT ![f] = "asking"]
      /\ UNCHANGED <<incoming, vault, bubble>>
  BY DEF MetaArrives
<1>2. MediaTypes /\ gate[f] = "none" /\ Meta \in PartSet /\ Meta = 0
  BY MetaIsFirst, EndOfParts DEF IInv, Meta
<1>3. /\ gate'[f] = "asking" /\ \A g \in Files : g # f => gate'[g] = gate[g]
      /\ \A g \in Files : gate'[g] = "none" <=> gate[g] = "none" /\ (g = f => Meta # Meta)
  BY <1>1, <1>2 DEF MediaTypes
<1>4. PICK next \in [Files -> 0..(End + 1)], nx \in [Files -> 0..(End + 1)] :
        /\ next[f] = Meta /\ nx = [next EXCEPT ![f] = Meta + 1]
        /\ OnTheWire(next, wire, sent, gate) /\ OnTheWire(nx, wire', sent', gate')
        /\ ~overlapped =>
             /\ OneByOne' /\ ArrivingFirst(nx, wire', sent')
             /\ TailSoFar(next, incoming, late)
             /\ ~late => Prompt(next, gate, incoming, bubble)
             /\ \A g \in Files : Arriving(next, g) => g = f
        /\ ~late' => ~late /\ \A g \in Files : gate[g] # "asking"
        /\ overlapped' = overlapped /\ up
  BY <1>1, <1>2, <1>3, FrameComes
<1>5. nx[f] = 1 /\ \A g \in Files : g # f => nx[g] = next[g]
  BY <1>2, <1>4
<1>6. ASSUME ~overlapped PROVE TailSoFar(nx, incoming', late')
  <2>1. CASE incoming = Nothing
    BY <1>1, <2>1 DEF TailSoFar
  <2>2. CASE incoming # Nothing
    <3>1. incoming.id \in Files /\ incoming.id # f
      BY <1>2, <2>2 DEF MediaTypes, Transfers
    <3>2. nx[incoming.id] = next[incoming.id]
      BY <1>5, <3>1
    <3> QED
      BY <1>1, <1>4, <1>6, <2>2, <3>2 DEF TailSoFar
  <2> QED
    BY <2>1, <2>2
<1>7. ASSUME ~overlapped, ~late' PROVE Prompt(nx, gate', incoming', bubble')
  <2>1. Prompt(next, gate, incoming, bubble)
    BY <1>4, <1>7
  <2>2. ASSUME NEW g \in Files
        PROVE  /\ gate'[g] = "asking" => nx[g] = 1
               /\ gate'[g] = "accepted" /\ nx[g] <= End => incoming' # Nothing /\ incoming'.id = g
               /\ gate'[g] = "accepted" /\ nx[g] = End + 1 => bubble'[g] # "none"
    <3>1. CASE g = f
      BY <1>3, <1>5, <3>1
    <3>2. CASE g # f
      BY <1>1, <1>3, <1>5, <2>1, <3>2 DEF Prompt
    <3> QED
      BY <3>1, <3>2
  <2> QED
    BY <2>2 DEF Prompt
<1> QED
  BY <1>4, <1>6, <1>7 DEF Arrivals

LEMMA ChunkGoesOn ==
  ASSUME IInv, NEW f \in Files, NEW i \in 1..Chunks, ChunkArrives(f, i)
  PROVE  Arrivals'
<1>1. /\ Receive(f, i) /\ UNCHANGED <<gate, vault, bubble>>
      /\ incoming' = IF incoming = Nothing THEN Nothing
                     ELSE [incoming EXCEPT !.received = Append(@, Frame(f, i))]
  BY DEF ChunkArrives
<1>2. MediaTypes /\ i \in PartSet /\ i # Meta /\ i <= Chunks /\ i \in Nat /\ i >= 1
  BY EndOfParts DEF IInv, Meta
<1>3. \A g \in Files : gate'[g] = "none" <=> gate[g] = "none" /\ (g = f => i # Meta)
  BY <1>1, <1>2
<1>4. PICK next \in [Files -> 0..(End + 1)], nx \in [Files -> 0..(End + 1)] :
        /\ next[f] = i /\ nx = [next EXCEPT ![f] = i + 1]
        /\ OnTheWire(next, wire, sent, gate) /\ OnTheWire(nx, wire', sent', gate')
        /\ ~overlapped =>
             /\ OneByOne' /\ ArrivingFirst(nx, wire', sent')
             /\ TailSoFar(next, incoming, late)
             /\ ~late => Prompt(next, gate, incoming, bubble)
             /\ \A g \in Files : Arriving(next, g) => g = f
        /\ ~late' => ~late /\ \A g \in Files : gate[g] # "asking"
        /\ overlapped' = overlapped /\ up
  BY <1>1, <1>2, <1>3, FrameComes
<1>5. nx[f] = i + 1 /\ \A g \in Files : g # f => nx[g] = next[g]
  BY <1>2, <1>4
<1>6. incoming # Nothing =>
        /\ incoming.id \in Files /\ gate[incoming.id] # "none" /\ incoming.received \in Seq(Parts)
        /\ incoming' # Nothing /\ incoming'.id = incoming.id
        /\ incoming'.received = Append(incoming.received, Frame(f, i))
  <2> SUFFICES ASSUME incoming # Nothing
               PROVE  /\ incoming.id \in Files /\ gate[incoming.id] # "none"
                      /\ incoming.received \in Seq(Parts)
                      /\ incoming' # Nothing /\ incoming'.id = incoming.id
                      /\ incoming'.received = Append(incoming.received, Frame(f, i))
    OBVIOUS
  <2>1. incoming \in Transfers /\ gate[incoming.id] # "none"
    BY <1>2 DEF MediaTypes
  <2>2. incoming' = [incoming EXCEPT !.received = Append(@, Frame(f, i))] /\ Frame(f, i) \in Parts
    BY <1>1 DEF Frame, Parts
  <2>3. incoming' \in Transfers
    <3>1. Append(incoming.received, Frame(f, i)) \in Seq(Parts)
      BY <2>1, <2>2 DEF Transfers
    <3> QED
      BY <2>1, <2>2, <3>1 DEF Transfers
  <2> QED
    BY <2>1, <2>2, <2>3, NoTransfer DEF Transfers
<1>7. ASSUME ~overlapped, incoming # Nothing, nx[incoming.id] <= End
      PROVE  incoming.id = f
  <2>1. next[incoming.id] \in 1..(End + 1)
    BY <1>2, <1>4, <1>6, <1>7, Begun
  <2>2. incoming.id # f => next[incoming.id] \in 1..End
    BY <1>5, <1>6, <1>7, <2>1, EndOfParts
  <2> QED
    BY <1>4, <1>6, <1>7, <2>2 DEF Arriving
<1>8. ASSUME ~overlapped PROVE TailSoFar(nx, incoming', late')
  <2>1. CASE incoming = Nothing
    BY <1>1, <2>1 DEF TailSoFar
  <2>2. CASE incoming # Nothing /\ ~(nx[incoming.id] <= End)
    BY <1>6, <2>2 DEF TailSoFar
  <2>3. CASE incoming # Nothing /\ nx[incoming.id] <= End
    <3>1. incoming.id = f /\ incoming'.id = f
      BY <1>6, <1>7, <1>8, <2>3
    <3>2. PICK r \in Seq(Parts) : r = incoming.received
      BY <1>6, <2>3
    <3>3. incoming'.received = Append(r, Frame(f, i))
      BY <1>6, <2>3, <3>2
    <3>4. /\ Len(r) <= i - 1 /\ \A k \in 1..Len(r) : r[k] = Frame(f, ((i - 1) - Len(r)) + k)
          /\ ~late => Len(r) = i - 1
      <4>1. TailSoFar(next, incoming, late) /\ next[incoming.id] <= End /\ next[incoming.id] = i
        BY <1>2, <1>4, <1>8, <3>1, EndOfParts
      <4> QED
        BY <2>3, <3>1, <3>2, <4>1 DEF TailSoFar
    <3> DEFINE s == Append(r, Frame(f, i))
    <3>5. /\ Len(r) \in Nat /\ Len(s) = Len(r) + 1 /\ s[Len(r) + 1] = Frame(f, i)
          /\ \A k \in 1..Len(r) : s[k] = r[k]
      OBVIOUS
    <3>6. ASSUME NEW k \in 1..Len(s) PROVE s[k] = Frame(f, (i - Len(s)) + k)
      <4>1. CASE k \in 1..Len(r)
        <5>1. (i - Len(s)) + k = ((i - 1) - Len(r)) + k
          BY <1>2, <3>5, <4>1
        <5> QED
          BY <3>4, <3>5, <4>1, <5>1
      <4>2. CASE k = Len(r) + 1
        <5>1. (i - Len(s)) + k = i
          BY <1>2, <3>5, <4>2
        <5> QED
          BY <3>5, <4>2, <5>1
      <4> QED
        BY <3>5, <4>1, <4>2
    <3>7. Len(s) <= i /\ (~late => Len(s) = i) /\ (nx[f] - 1) = i
      BY <1>2, <1>5, <3>4, <3>5
    <3>8. incoming'.received = s
      BY <3>3
    <3> HIDE DEF s
    <3> QED
      BY <1>4, <3>1, <3>6, <3>7, <3>8 DEF TailSoFar
  <2> QED
    BY <2>1, <2>2, <2>3
<1>9. ASSUME ~overlapped, ~late' PROVE Prompt(nx, gate', incoming', bubble')
  <2>1. Prompt(next, gate, incoming, bubble)
    BY <1>4, <1>9
  <2>2. ASSUME NEW g \in Files
        PROVE  /\ gate'[g] = "asking" => nx[g] = 1
               /\ gate'[g] = "accepted" /\ nx[g] <= End => incoming' # Nothing /\ incoming'.id = g
               /\ gate'[g] = "accepted" /\ nx[g] = End + 1 => bubble'[g] # "none"
    <3>1. gate'[g] # "asking" /\ gate'[g] = gate[g] /\ bubble'[g] = bubble[g]
      BY <1>1, <1>4, <1>9
    <3>2. CASE g = f
      <4>1. next[f] <= End /\ nx[f] # End + 1
        BY <1>2, <1>4, <1>5, EndOfParts
      <4> QED
        BY <1>6, <2>1, <3>1, <3>2, <4>1 DEF Prompt
    <3>3. CASE g # f
      BY <1>5, <1>6, <2>1, <3>1, <3>3 DEF Prompt
    <3> QED
      BY <3>2, <3>3
  <2> QED
    BY <2>2 DEF Prompt
<1> QED
  BY <1>4, <1>8, <1>9 DEF Arrivals

\* What a media-end finds in `incoming` is the end of its own file's chunks.
LEMMA EndGoesOn ==
  ASSUME IInv, NEW f \in Files, EndArrives(f)
  PROVE  /\ Arrivals'
         /\ ~overlapped /\ incoming # Nothing /\ incoming.id = f =>
              /\ IsTail(incoming.received, f)
              /\ ~late' => Len(incoming.received) = Chunks
<1>1. /\ Receive(f, End) /\ incoming' = Nothing /\ gate' = gate
      /\ IF incoming # Nothing /\ incoming.id = f /\ ~incoming.discard
         THEN /\ vault' = [vault EXCEPT ![f] = incoming.received]
              /\ bubble' = [bubble EXCEPT ![f] = "unseen"]
         ELSE UNCHANGED <<vault, bubble>>
  BY DEF EndArrives
<1>2. MediaTypes /\ End \in PartSet /\ End # Meta /\ End \in Nat /\ End - 1 = Chunks
  BY EndOfParts DEF IInv, Meta
<1>3. \A g \in Files : gate'[g] = "none" <=> gate[g] = "none" /\ (g = f => End # Meta)
  BY <1>1, <1>2
<1>4. PICK next \in [Files -> 0..(End + 1)], nx \in [Files -> 0..(End + 1)] :
        /\ next[f] = End /\ nx = [next EXCEPT ![f] = End + 1]
        /\ OnTheWire(next, wire, sent, gate) /\ OnTheWire(nx, wire', sent', gate')
        /\ ~overlapped =>
             /\ OneByOne' /\ ArrivingFirst(nx, wire', sent')
             /\ TailSoFar(next, incoming, late)
             /\ ~late => Prompt(next, gate, incoming, bubble)
             /\ \A g \in Files : Arriving(next, g) => g = f
        /\ ~late' => ~late /\ \A g \in Files : gate[g] # "asking"
        /\ overlapped' = overlapped /\ up
  BY <1>1, <1>2, <1>3, FrameComes
<1>5. nx[f] = End + 1 /\ \A g \in Files : g # f => nx[g] = next[g]
  BY <1>2, <1>4
<1>6. TailSoFar(nx, incoming', late')
  BY <1>1 DEF TailSoFar
<1>7. ASSUME ~overlapped, ~late' PROVE Prompt(nx, gate', incoming', bubble')
  <2>1. Prompt(next, gate, incoming, bubble)
    BY <1>4, <1>7
  <2>2. ASSUME NEW g \in Files
        PROVE  /\ gate'[g] = "asking" => nx[g] = 1
               /\ gate'[g] = "accepted" /\ nx[g] <= End => incoming' # Nothing /\ incoming'.id = g
               /\ gate'[g] = "accepted" /\ nx[g] = End + 1 => bubble'[g] # "none"
    <3>1. gate'[g] # "asking" /\ gate'[g] = gate[g]
      BY <1>1, <1>4, <1>7
    <3>2. CASE g = f
      <4>1. ~(nx[f] <= End)
        BY <1>2, <1>5
      <4>2. ASSUME gate[f] = "accepted" PROVE bubble'[f] # "none"
        <5>1. incoming # Nothing /\ incoming.id = f
          BY <1>2, <1>4, <2>1, <4>2 DEF Prompt
        <5>2. ~incoming.discard
          BY <1>2, <4>2, <5>1 DEF MediaTypes
        <5> QED
          BY <1>1, <1>2, <5>1, <5>2 DEF MediaTypes
      <4> QED
        BY <3>1, <3>2, <4>1, <4>2
    <3>3. CASE g # f
      <4>1. ASSUME gate[g] = "accepted", nx[g] <= End PROVE FALSE
        <5>1. next[g] \in 1..(End + 1)
          BY <1>2, <1>4, <4>1, Begun
        <5>2. next[g] \in 1..End
          BY <1>2, <1>5, <3>3, <4>1, <5>1
        <5> QED
          BY <1>4, <1>7, <3>3, <5>2 DEF Arriving
      <4>2. bubble'[g] = bubble[g]
        BY <1>1, <1>2, <3>3 DEF MediaTypes
      <4> QED
        BY <1>5, <2>1, <3>1, <3>3, <4>1, <4>2 DEF Prompt
    <3> QED
      BY <3>2, <3>3
  <2> QED
    BY <2>2 DEF Prompt
<1>8. Arrivals'
  BY <1>4, <1>6, <1>7 DEF Arrivals
<1>9. ASSUME ~overlapped, incoming # Nothing, incoming.id = f
      PROVE  /\ IsTail(incoming.received, f)
             /\ ~late' => Len(incoming.received) = Chunks
  <2>1. TailSoFar(next, incoming, late) /\ next[incoming.id] <= End /\ next[incoming.id] - 1 = Chunks
    BY <1>2, <1>4, <1>9
  <2> QED
    BY <1>4, <1>9, <2>1 DEF TailSoFar, IsTail
<1> QED
  BY <1>8, <1>9

\* The answer of a gate that nothing waited for comes while its file comes in.
LEMMA AnswerGoesOn ==
  ASSUME IInv, NEW f \in Files, GateAnswers(f), up
  PROVE  Arrivals'
<1>1. PICK answer \in {"accepted", "refused"} :
        /\ gate' = [gate EXCEPT ![f] = answer]
        /\ incoming' = [id |-> f, discard |-> answer = "refused", received |-> <<>>]
  BY DEF GateAnswers
<1>2. /\ gate[f] = "asking"
      /\ UNCHANGED <<sent, wire, up, vault, bubble, locked, overlapped, late>>
  BY DEF GateAnswers
<1>3. MediaTypes /\ End \in Nat /\ End > 1
  BY EndOfParts DEF IInv
<1>4. PICK next \in [Files -> 0..(End + 1)] :
        /\ OnTheWire(next, wire, sent, gate)
        /\ ~overlapped =>
             /\ OneByOne
             /\ ArrivingFirst(next, wire, sent)
             /\ TailSoFar(next, incoming, late)
             /\ ~late => Prompt(next, gate, incoming, bubble)
  BY DEF IInv, Arrivals
<1>5. /\ gate'[f] = answer /\ \A g \in Files : g # f => gate'[g] = gate[g]
      /\ \A g \in Files : gate'[g] = "none" <=> gate[g] = "none"
  BY <1>1, <1>2, <1>3 DEF MediaTypes
<1>6. OnTheWire(next, wire', sent', gate')
  BY <1>2, <1>4, <1>5 DEF OnTheWire
<1>7. OneByOne => OneByOne'
  BY <1>2 DEF OneByOne, UnderWay
<1>8. ArrivingFirst(next, wire, sent) => ArrivingFirst(next, wire', sent')
  BY <1>2
<1>9. next[f] \in 1..(End + 1)
  BY <1>2, <1>3, <1>4, Begun
<1>10. incoming'.id = f /\ incoming'.received = <<>> /\ incoming' # Nothing
  <2>1. incoming'.id = f /\ incoming'.received = <<>>
    BY <1>1
  <2>2. incoming' \in Transfers
    <3>1. (answer = "refused") \in BOOLEAN /\ <<>> \in Seq(Parts)
      OBVIOUS
    <3> QED
      BY <1>1, <3>1 DEF Transfers
  <2> QED
    BY <2>1, <2>2, NoTransfer
<1>11. ASSUME ~overlapped, ~late PROVE next[f] = 1
  BY <1>2, <1>4, <1>11 DEF Prompt
<1>12. ASSUME ~overlapped PROVE TailSoFar(next, incoming', late')
  <2> DEFINE r == incoming'.received
  <2>1. Len(r) = 0
    BY <1>10
  <2>2. r = incoming'.received
    OBVIOUS
  <2> HIDE DEF r
  <2>3. next[f] - 1 \in Nat /\ (~late' => next[f] - 1 = 0)
    BY <1>2, <1>3, <1>9, <1>11, <1>12
  <2> QED
    BY <1>10, <2>1, <2>2, <2>3 DEF TailSoFar
<1>13. ASSUME ~overlapped, ~late PROVE Prompt(next, gate', incoming', bubble')
  <2>1. Prompt(next, gate, incoming, bubble) /\ next[f] = 1
    BY <1>4, <1>11, <1>13
  <2>2. ASSUME NEW g \in Files
        PROVE  /\ gate'[g] = "asking" => next[g] = 1
               /\ gate'[g] = "accepted" /\ next[g] <= End => incoming' # Nothing /\ incoming'.id = g
               /\ gate'[g] = "accepted" /\ next[g] = End + 1 => bubble'[g] # "none"
    <3>1. CASE g = f
      BY <1>3, <1>5, <1>10, <2>1, <3>1
    <3>2. CASE g # f
      <4>1. ASSUME gate[g] = "accepted", next[g] <= End PROVE FALSE
        <5>1. next[g] \in 1..(End + 1)
          BY <1>3, <1>4, <4>1, Begun
        <5>2. Arriving(next, g) /\ Arriving(next, f)
          BY <1>3, <2>1, <4>1, <5>1 DEF Arriving
        <5>3. CASE wire = <<>>
          <6>1. next[g] = sent[g] /\ next[f] = sent[f]
            BY <1>4, <1>13, <5>2, <5>3 DEF ArrivingFirst
          <6>2. UnderWay(g) /\ UnderWay(f)
            BY <5>2, <6>1 DEF Arriving, UnderWay
          <6> QED
            BY <1>4, <1>13, <3>2, <6>2 DEF OneByOne
        <5>4. CASE wire # <<>>
          BY <1>4, <1>13, <3>2, <5>2, <5>4 DEF ArrivingFirst
        <5> QED
          BY <5>3, <5>4
      <4> QED
        BY <1>2, <1>5, <2>1, <3>2, <4>1 DEF Prompt
    <3> QED
      BY <3>1, <3>2
  <2> QED
    BY <2>2 DEF Prompt
<1> QED
  BY <1>2, <1>4, <1>6, <1>7, <1>8, <1>12, <1>13 DEF Arrivals

LEMMA ArrivalsNext == IInv /\ [Next]_vars => (up' => Arrivals')
<1> SUFFICES ASSUME IInv, [Next]_vars, up' PROVE Arrivals'
  OBVIOUS
<1>0. MediaTypes
  BY DEF IInv
<1>1. ASSUME up, UNCHANGED <<sent, wire, gate, incoming, overlapped, late>>,
             \A f \in Files : bubble[f] # "none" => bubble'[f] # "none"
      PROVE  Arrivals'
  <2>1. PICK next \in [Files -> 0..(End + 1)] :
          /\ OnTheWire(next, wire, sent, gate)
          /\ ~overlapped =>
               /\ OneByOne
               /\ ArrivingFirst(next, wire, sent)
               /\ TailSoFar(next, incoming, late)
               /\ ~late => Prompt(next, gate, incoming, bubble)
    BY <1>1 DEF IInv, Arrivals
  <2>2. /\ OnTheWire(next, wire', sent', gate') /\ (OneByOne => OneByOne')
        /\ ArrivingFirst(next, wire, sent) => ArrivingFirst(next, wire', sent')
        /\ TailSoFar(next, incoming, late) => TailSoFar(next, incoming', late')
    BY <1>1, <2>1 DEF OneByOne, UnderWay
  <2>3. Prompt(next, gate, incoming, bubble) => Prompt(next, gate', incoming', bubble')
    BY <1>1 DEF Prompt
  <2> QED
    BY <1>1, <2>1, <2>2, <2>3 DEF Arrivals
<1>2. ASSUME NEW f \in Files, SendFrame(f) PROVE Arrivals'
  <2>1. UNCHANGED <<up, gate, incoming, bubble, late>> /\ (~overlapped' => ~overlapped)
    BY <1>2 DEF SendFrame
  <2>2. up
    BY <2>1
  <2>3. PICK next \in [Files -> 0..(End + 1)] :
          /\ OnTheWire(next, wire, sent, gate)
          /\ ~overlapped =>
               /\ OneByOne
               /\ ArrivingFirst(next, wire, sent)
               /\ TailSoFar(next, incoming, late)
               /\ ~late => Prompt(next, gate, incoming, bubble)
    BY <2>2 DEF IInv, Arrivals
  <2>4. OnTheWire(next, wire', sent', gate')
    BY <1>0, <1>2, <2>2, <2>3, SendOnTheWire
  <2>5. ~overlapped' => OneByOne' /\ ArrivingFirst(next, wire', sent')
    BY <1>0, <1>2, <2>1, <2>2, <2>3, SendOneByOne
  <2>6. ~overlapped' =>
          /\ TailSoFar(next, incoming', late')
          /\ ~late' => Prompt(next, gate', incoming', bubble')
    BY <2>1, <2>3
  <2> QED
    BY <2>4, <2>5, <2>6 DEF Arrivals
<1>3. ASSUME NEW f \in Files, GateAnswers(f) PROVE Arrivals'
  <2>1. up
    BY <1>3 DEF GateAnswers
  <2> QED
    BY <1>3, <2>1, AnswerGoesOn
<1>4. ASSUME NEW f \in Files, Tap(f) PROVE Arrivals'
  <2>1. /\ bubble[f] = "unseen" /\ bubble' = [bubble EXCEPT ![f] = IF vault[f] = NoBlob THEN "viewed" ELSE "shown"]
        /\ UNCHANGED <<sent, wire, up, gate, incoming, overlapped, late>>
    BY <1>4 DEF Tap
  <2>2. \A g \in Files : bubble[g] # "none" => bubble'[g] # "none"
    BY <1>0, <2>1 DEF MediaTypes
  <2> QED
    BY <1>1, <2>1, <2>2
<1>5. ASSUME NEW f \in Files, Burn(f) PROVE Arrivals'
  BY <1>1, <1>5 DEF Burn
<1>6. CASE UNCHANGED vars
  BY <1>1, <1>6 DEF vars
<1>7. CASE ChannelCloses \/ Lock
  BY <1>7 DEF ChannelCloses, Lock
<1> QED
  BY <1>2, <1>3, <1>4, <1>5, <1>6, <1>7, MetaGoesOn, ChunkGoesOn, EndGoesOn DEF Next

------------------------------------------------------------------------------
(* The vault *)

LEMMA VaultNext == IInv /\ [Next]_vars => VaultTail' /\ VaultPurged'
<1> SUFFICES ASSUME IInv, [Next]_vars PROVE VaultTail' /\ VaultPurged'
  OBVIOUS
<1>0. MediaTypes /\ VaultTail /\ VaultPurged
  BY DEF IInv
<1>1. ASSUME UNCHANGED vault, locked' = locked, ~overlapped' => ~overlapped, ~late' => ~late
      PROVE  VaultTail' /\ VaultPurged'
  BY <1>0, <1>1 DEF VaultTail, VaultPurged
<1>2. ASSUME NEW f \in Files, SendFrame(f) PROVE VaultTail' /\ VaultPurged'
  BY <1>1, <1>2 DEF SendFrame
<1>3. ASSUME NEW f \in Files, MetaArrives(f) PROVE VaultTail' /\ VaultPurged'
  BY <1>1, <1>3 DEF MetaArrives, Receive
<1>4. ASSUME NEW f \in Files, GateAnswers(f) PROVE VaultTail' /\ VaultPurged'
  BY <1>1, <1>4 DEF GateAnswers
<1>5. ASSUME NEW f \in Files, NEW i \in 1..Chunks, ChunkArrives(f, i)
      PROVE  VaultTail' /\ VaultPurged'
  BY <1>1, <1>5 DEF ChunkArrives, Receive
<1>6. ASSUME NEW f \in Files, EndArrives(f) PROVE VaultTail' /\ VaultPurged'
  <2>1. /\ wire # <<>> /\ locked' = locked /\ overlapped' = overlapped
        /\ late' = (late \/ \E g \in Files : gate[g] = "asking")
    BY <1>6 DEF EndArrives, Receive
  <2>2. ~late' => ~late
    BY <2>1
  <2>3. CASE incoming # Nothing /\ incoming.id = f /\ ~incoming.discard
    <3>1. vault' = [vault EXCEPT ![f] = incoming.received]
      BY <1>6, <2>3 DEF EndArrives
    <3>2. vault'[f] = incoming.received /\ \A g \in Files : g # f => vault'[g] = vault[g]
      BY <1>0, <3>1 DEF MediaTypes
    <3>3. ~overlapped => /\ IsTail(vault'[f], f)
                         /\ ~late' => Len(vault'[f]) = Chunks
      BY <1>6, <2>3, <3>2, EndGoesOn
    <3>4. VaultTail'
      <4> SUFFICES ASSUME ~overlapped', NEW g \in Files, vault'[g] # NoBlob
                   PROVE  IsTail(vault'[g], g) /\ (~late' => Len(vault'[g]) = Chunks)
        BY DEF VaultTail
      <4>1. CASE g = f
        BY <2>1, <3>3, <4>1
      <4>2. CASE g # f
        BY <1>0, <2>1, <2>2, <3>2, <4>2 DEF VaultTail
      <4> QED
        BY <4>1, <4>2
    <3>5. ~locked
      BY <2>1 DEF IInv, Severed
    <3> QED
      BY <2>1, <3>4, <3>5 DEF VaultPurged
  <2>4. CASE ~(incoming # Nothing /\ incoming.id = f /\ ~incoming.discard)
    <3>1. UNCHANGED vault
      BY <1>6, <2>4 DEF EndArrives
    <3> QED
      BY <1>1, <2>1, <2>2, <3>1
  <2> QED
    BY <2>3, <2>4
<1>7. ASSUME NEW f \in Files, Tap(f) PROVE VaultTail' /\ VaultPurged'
  BY <1>1, <1>7 DEF Tap
<1>8. ASSUME UNCHANGED <<overlapped, late>>, NEW gone \in SUBSET Files,
             \A g \in Files : vault'[g] = IF g \in gone THEN NoBlob ELSE vault[g]
      PROVE  VaultTail'
  BY <1>0, <1>8 DEF VaultTail
<1>9. ASSUME NEW f \in Files, Burn(f) PROVE VaultTail' /\ VaultPurged'
  <2>1. vault' = [vault EXCEPT ![f] = NoBlob] /\ UNCHANGED <<locked, overlapped, late>>
    BY <1>9 DEF Burn
  <2>2. \A g \in Files : vault'[g] = IF g \in {f} THEN NoBlob ELSE vault[g]
    BY <1>0, <2>1 DEF MediaTypes
  <2>3. VaultTail'
    BY <1>8, <2>1, <2>2
  <2>4. VaultPurged'
    BY <1>0, <2>1, <2>2 DEF VaultPurged
  <2> QED
    BY <2>3, <2>4
<1>10. CASE Lock
  <2>1. vault' = [f \in Files |-> NoBlob] /\ UNCHANGED <<overlapped, late>>
    BY <1>10 DEF Lock
  <2>2. \A g \in Files : vault'[g] = IF g \in Files THEN NoBlob ELSE vault[g]
    BY <2>1
  <2>3. VaultTail'
    BY <1>8, <2>1, <2>2
  <2>4. VaultPurged'
    BY <2>1 DEF VaultPurged
  <2> QED
    BY <2>3, <2>4
<1>11. CASE ChannelCloses
  BY <1>1, <1>11 DEF ChannelCloses
<1>12. CASE UNCHANGED vars
  BY <1>1, <1>12 DEF vars
<1> QED
  BY <1>2, <1>3, <1>4, <1>5, <1>6, <1>7, <1>9, <1>10, <1>11, <1>12 DEF Next

------------------------------------------------------------------------------
(* The theorems *)

LEMMA Inductive == Spec => []IInv
<1>1. IInv /\ [Next]_vars => IInv'
  BY TypesNext, ArrivalsNext, VaultNext DEF IInv
<1> QED
  BY <1>1, InitIInv, PTL DEF Spec

\* The fields keep their types; a refused transfer is a sink, and nothing is in the
\* vault that was not accepted and has no bubble to reveal it.
THEOREM TypeCorrect == Spec => []TypeOK
<1>1. IInv => TypeOK
  BY DEF IInv, MediaTypes, TypeOK, Transfers, FrameSet, PartSet
<1> QED
  BY <1>1, Inductive, PTL

\* Of files sent one at a time, whatever can be viewed is the last chunks of its own
\* file, in order and without a gap, however slowly the gates answer.
THEOREM ViewedIsTail == Spec => []RenderedIsTail
<1>1. IInv => RenderedIsTail
  <2> SUFFICES ASSUME IInv, ~overlapped, NEW f \in Files, vault[f] # NoBlob
               PROVE  IsSuffix(vault[f], ChunksOf(f))
    BY DEF RenderedIsTail
  <2>1. vault[f] \in Seq(Parts) /\ IsTail(vault[f], f)
    BY DEF IInv, MediaTypes, VaultTail
  <2> QED
    BY <2>1, TailIsSuffix
<1> QED
  BY <1>1, Inductive, PTL

\* Gates that answer before the next frame comes lose nothing: an accepted file that
\* has come in has its bubble, and what is in the vault is the whole of it.
THEOREM PromptIsWhole == Spec => []WholeWhenPrompt
<1>1. IInv => WholeWhenPrompt
  <2> SUFFICES ASSUME IInv, ~overlapped, ~late, NEW f \in Files
               PROVE  /\ vault[f] # NoBlob => vault[f] = ChunksOf(f)
                      /\ up /\ Arrived(f) /\ gate[f] = "accepted" => bubble[f] # "none"
    BY DEF WholeWhenPrompt
  <2>1. ASSUME vault[f] # NoBlob PROVE vault[f] = ChunksOf(f)
    <3>1. vault[f] \in Seq(Parts) /\ IsTail(vault[f], f) /\ Len(vault[f]) = Chunks
      BY <2>1 DEF IInv, MediaTypes, VaultTail
    <3> QED
      BY <3>1, TailIsSuffix
  <2>2. ASSUME up, Arrived(f), gate[f] = "accepted" PROVE bubble[f] # "none"
    <3>1. PICK next \in [Files -> 0..(End + 1)] :
            OnTheWire(next, wire, sent, gate) /\ Prompt(next, gate, incoming, bubble)
      BY <2>2 DEF IInv, Arrivals
    <3>2. next[f] <= sent[f] /\ next[f] \in 0..(End + 1) /\ sent[f] \in 0..(End + 1)
      BY <3>1 DEF OnTheWire, IInv, MediaTypes
    <3>3. ASSUME next[f] \in PartSet PROVE FALSE
      <4>1. next[f] < sent[f] /\ next[f] <= next[f]
        BY <2>2, <3>2, <3>3, EndOfParts DEF Arrived
      <4>2. PICK i \in 1..Len(wire) : wire[i] = Frame(f, next[f])
        BY <3>1, <3>3, <4>1 DEF OnTheWire
      <4> QED
        BY <2>2, <4>2 DEF Arrived, Frame
    <3>4. next[f] = End + 1
      BY <3>2, <3>3, EndOfParts
    <3> QED
      BY <2>2, <3>1, <3>4 DEF Prompt
  <2> QED
    BY <2>1, <2>2
<1> QED
  BY <1>1, Inductive, PTL

\* Once the gate has locked the vault stays empty and no tap or frame reveals another
\* medium: no frame gets through a severed channel, and a bubble that is tapped later
\* finds nothing in the vault.
THEOREM PurgedForGood == Spec => NothingRevealedAfterLock
<1>1. IInv /\ IInv' /\ [Next]_vars => [locked' => StaysDark]_vars
  <2> SUFFICES ASSUME IInv, IInv', Next, locked', NEW f \in Files
               PROVE  vault'[f] = NoBlob /\ (bubble'[f] = "shown" => bubble[f] = "shown")
    BY DEF StaysDark
  <2>1. vault'[f] = NoBlob
    BY DEF IInv, VaultPurged
  <2>2. ASSUME NEW g \in Files, Tap(g), bubble'[f] = "shown" PROVE bubble[f] = "shown"
    <3>1. /\ bubble' = [bubble EXCEPT ![g] = IF vault[g] = NoBlob THEN "viewed" ELSE "shown"]
          /\ vault[g] = NoBlob /\ DOMAIN bubble = Files
      <4>1. locked
        BY <2>2 DEF Tap
      <4> QED
        BY <2>2, <4>1 DEF Tap, IInv, VaultPurged, MediaTypes
    <3> QED
      BY <2>2, <3>1
  <2>3. ASSUME NEW g \in Files, EndArrives(g), bubble'[f] = "shown" PROVE bubble[f] = "shown"
    <3>1. /\ bubble' = bubble \/ bubble' = [bubble EXCEPT ![g] = "unseen"]
          /\ DOMAIN bubble = Files
      BY <2>3 DEF EndArrives, IInv, MediaTypes
    <3> QED
      BY <2>3, <3>1
  <2>4. bubble' = bubble \/ \E g \in Files : Tap(g) \/ EndArrives(g)
    BY DEF Next, SendFrame, Receive, MetaArrives, GateAnswers, ChunkArrives, Burn, ChannelCloses, Lock
  <2> QED
    BY <2>1, <2>2, <2>3, <2>4
<1> QED
  BY <1>1, Inductive, PTL DEF Spec, NothingRevealedAfterLock
================================================================================
