--------------------------- MODULE MessagingProofs ---------------------------
(***************************************************************************)
(* What js/messaging.js does with a message: whether it passes the two free *)
(* tier gates (Freemium), and how long a text then stays (TextLife).  First *)
(* the gates, for any number of messages, any limit and any overlap of the *)
(* handlers; then the texts, for any TTL and any skew of the clocks.       *)
(***************************************************************************)
EXTENDS Freemium, TextLife, FiniteSetTheorems, TLAPS

------------------------------------------------------------------------------
(* The gates: the inductive invariant *)

MessageTypes ==
  /\ count \in [Peers -> Nat]
  /\ token \in [Peers -> BOOLEAN]
  /\ paywall \in [Peers -> BOOLEAN]
  /\ up \in BOOLEAN
  /\ chan \in [Peers -> Seq(Msgs \cup {Gate})]
  /\ from \in [Msgs -> Peers \cup {NoPeer}]
  /\ paid \subseteq Msgs
  /\ stage \in [Tasks -> Stages]
  /\ snap \in [Tasks -> Nat]
  /\ overlapped \subseteq Peers
  /\ stale \subseteq Tasks
  /\ kills \in [Peers -> 0..MaxKills]

Out(m) == <<m, "out">>
In(m) == <<m, "in">>

\* A message is handled by its receiver after it has left its sender, which has paid
\* for it if it said so.
Left(m) == stage[Out(m)] \notin {"none", "free", "token", "paid"}
MessageInOrder(m) ==
  /\ from[m] = NoPeer => stage[Out(m)] = "none"
  /\ stage[In(m)] # "none" => Left(m)
  /\ stage[Out(m)] = "paid" => m \in paid

\* A message on its way to p has left the other peer, once, and has not come in.
Carried(q, m) == \E i \in 1..Len(q) : q[i] = m
Distinct(q) == \A i, j \in 1..Len(q) : i # j /\ q[i] = q[j] => q[i] = Gate
Awaited(m, p) == from[m] \in Peers \ {p} /\ Left(m) /\ stage[In(m)] = "none"
OnItsWay(p) == Distinct(chan[p]) /\ \A m \in Msgs : Carried(chan[p], m) => Awaited(m, p)

\* What a task has read of the counter is no more than what has been counted.
Counting ==
  /\ CounterNeverOverstates
  /\ \A t \in Tasks : stage[t] # "bump" => snap[t] = 0
  /\ \A p \in Peers, t \in Tasks :
       Owner(t) = p /\ stage[t] = "bump" => snap[t] <= Cardinality(Counted(p))

\* What a peer let through without a token and counted, or may yet count, and what it
\* let through and will never count.
LetThrough(p) == {t \in Tasks : /\ Owner(t) = p /\ t[1] \notin paid
                               /\ stage[t] \in {"charge", "bump", "done"}}
Uncounted(p) == {t \in Tasks : Owner(t) = p /\ stage[t] = "uncounted"}

\* A peer whose tasks never overlapped counts exactly, and a task on which it lets a
\* message through without a token finds the counter still below the limit.
Serial(p) ==
  /\ \A t, u \in Tasks : Owner(t) = p /\ Owner(u) = p /\ stage[t] \in Running /\ stage[u] \in Running
       => t = u
  /\ count[p] = Cardinality(Counted(p))
  /\ \A t \in Tasks : Owner(t) = p /\ stage[t] = "bump" => snap[t] = count[p]
  /\ \A t \in Tasks : Owner(t) = p /\ stage[t] \in {"free", "charge", "bump"} /\ t[1] \notin paid
       => count[p] < FreeLimit
  /\ Cardinality(LetThrough(p)) <= FreeLimit

LimitInv ==
  /\ MessageTypes
  /\ \A m \in Msgs : MessageInOrder(m)
  /\ \A p \in Peers : OnItsWay(p)
  /\ Counting
  /\ NoEarlyGate
  /\ \A p \in Peers \ overlapped : Serial(p)
  /\ \A p \in Peers \ overlapped : Cardinality(Uncounted(p)) <= kills[p]

------------------------------------------------------------------------------
(* Peers, messages and tasks *)

\* The other of two peers is well defined, and nobody is neither.
LEMMA TwoPeers ==
  \A p \in Peers : /\ Other(p) \in Peers /\ Other(p) # p /\ Other(Other(p)) = p
                   /\ p # NoPeer /\ \A q \in Peers : q = p \/ q = Other(p)
<1>1. PICK a, b \in Peers : a # b /\ Peers = {a, b}
  BY FreemiumAssumption DEF FreemiumAssumption
<1>2. ASSUME NEW p \in Peers PROVE Other(p) \in Peers /\ Other(p) # p
  <2>1. \E q \in Peers : q # p
    BY <1>1, <1>2
  <2> QED
    BY <2>1 DEF Other
<1>3. NoPeer \notin Peers
  BY FreemiumAssumption DEF FreemiumAssumption
<1> QED
  BY <1>1, <1>2, <1>3

\* A message has two tasks, and a task is one of them.
LEMMA TheTasks ==
  /\ \A m \in Msgs : Out(m) \in Tasks /\ In(m) \in Tasks /\ Out(m)[1] = m /\ In(m)[1] = m
  /\ \A t \in Tasks : t[1] \in Msgs /\ (t = Out(t[1]) \/ t = In(t[1]))
  /\ \A m, n \in Msgs : Out(m) # In(n) /\ (Out(m) = Out(n) => m = n) /\ (In(m) = In(n) => m = n)
<1>1. "out" # "in"
  OBVIOUS
<1> QED
  BY <1>1 DEF Tasks, Out, In

\* The task out is its sender's, the task in the other peer's.
LEMMA Owners ==
  ASSUME MessageTypes, NEW m \in Msgs
  PROVE  /\ Owner(Out(m)) = from[m]
         /\ from[m] = NoPeer => Owner(In(m)) = NoPeer
         /\ from[m] \in Peers => Owner(In(m)) = Other(from[m])
         /\ from[m] \in Peers \/ from[m] = NoPeer
<1>1. from[m] \in Peers \cup {NoPeer}
  BY DEF MessageTypes
<1>2. Out(m)[1] = m /\ In(m)[1] = m /\ Out(m)[2] = "out" /\ In(m)[2] = "in" /\ "out" # "in"
  BY DEF Out, In
<1>3. NoPeer \notin Peers
  BY FreemiumAssumption DEF FreemiumAssumption
<1> QED
  BY <1>1, <1>2, <1>3 DEF Owner

\* There are two tasks to a message, and any set of them can be counted.
LEMMA FiniteTasks ==
  /\ IsFiniteSet(Tasks) /\ Cardinality(Tasks) = 2 * Cardinality(Msgs) /\ Cardinality(Msgs) \in Nat
  /\ \A T \in SUBSET Tasks : /\ IsFiniteSet(T) /\ Cardinality(T) \in Nat
                             /\ Cardinality(T) <= Cardinality(Tasks)
<1>1. IsFiniteSet(Msgs)
  BY FreemiumAssumption DEF FreemiumAssumption
<1> DEFINE ways == {"out", "in"}
<1>2. IsFiniteSet(ways) /\ Cardinality(ways) = 2
  <2>1. ways = {"out"} \cup {"in"} /\ "in" \notin {"out"}
    OBVIOUS
  <2>2. IsFiniteSet({"out"}) /\ Cardinality({"out"}) = 1
    BY FS_Singleton
  <2> HIDE DEF ways
  <2> QED
    BY <2>1, <2>2, FS_AddElement
<1>3. Tasks = Msgs \X ways
  BY DEF Tasks
<1> HIDE DEF ways
<1>4. IsFiniteSet(Tasks) /\ Cardinality(Tasks) = Cardinality(Msgs) * 2
  BY <1>1, <1>2, <1>3, FS_Product
<1>5. Cardinality(Msgs) \in Nat
  BY <1>1, FS_CardinalityType
<1>6. \A T \in SUBSET Tasks : IsFiniteSet(T) /\ Cardinality(T) <= Cardinality(Tasks)
  BY <1>4, FS_Subset
<1>7. \A T \in SUBSET Tasks : Cardinality(T) \in Nat
  BY <1>6, FS_CardinalityType
<1> QED
  BY <1>4, <1>5, <1>6, <1>7

\* More tasks count for more, one more for one more.
LEMMA TaskNumbers ==
  ASSUME NEW T \in SUBSET Tasks, NEW U \in SUBSET Tasks
  PROVE  /\ T \subseteq U => Cardinality(T) <= Cardinality(U)
         /\ \A t \in Tasks \ T : Cardinality(T \cup {t}) = Cardinality(T) + 1
         /\ Cardinality(T) \in Nat /\ Cardinality(U) \in Nat
<1>1. IsFiniteSet(T) /\ IsFiniteSet(U) /\ Cardinality(T) \in Nat /\ Cardinality(U) \in Nat
  BY FiniteTasks
<1>2. T \subseteq U => Cardinality(T) <= Cardinality(U)
  BY <1>1, FS_Subset
<1>3. \A t \in Tasks \ T : Cardinality(T \cup {t}) = Cardinality(T) + 1
  BY <1>1, FS_AddElement
<1> QED
  BY <1>1, <1>2, <1>3

\* What the properties count are tasks.
LEMMA TaskSets ==
  \A p \in Peers : /\ Counted(p) \in SUBSET Tasks /\ FreeTasks(p) \in SUBSET Tasks
                   /\ LetThrough(p) \in SUBSET Tasks /\ Uncounted(p) \in SUBSET Tasks
BY DEF Counted, FreeTasks, LetThrough, Uncounted

\* A peer that runs nothing has no running task.
LEMMA Idle ==
  ASSUME NEW p \in Peers, ~(Busy(p) > 0)
  PROVE  \A t \in Tasks : Owner(t) = p => stage[t] \notin Running
<1> DEFINE R == {t \in Tasks : Owner(t) = p /\ stage[t] \in Running}
<1>1. R \in SUBSET Tasks /\ Busy(p) = Cardinality(R)
  BY DEF Busy
<1> HIDE DEF R
<1>2. IsFiniteSet(R) /\ Cardinality(R) \in Nat
  BY <1>1, FiniteTasks
<1>3. R = {}
  BY <1>1, <1>2, FS_EmptySet
<1> QED
  BY <1>3 DEF R

\* A task that has begun belongs to one of the two.
LEMMA Owned ==
  ASSUME MessageTypes, \A m \in Msgs : MessageInOrder(m), NEW t \in Tasks, stage[t] # "none"
  PROVE  Owner(t) \in Peers /\ from[t[1]] \in Peers
<1> DEFINE m == t[1]
<1>1. m \in Msgs /\ (t = Out(m) \/ t = In(m))
  BY TheTasks
<1> HIDE DEF m
<1>2. stage[Out(m)] # "none"
  BY <1>1 DEF MessageInOrder, Left
<1>3. from[m] \in Peers
  BY <1>1, <1>2, Owners DEF MessageInOrder
<1>4. Owner(t) = from[m] \/ Owner(t) = Other(from[m])
  BY <1>1, <1>3, Owners
<1> QED
  BY <1>3, <1>4, TwoPeers DEF m

\* A kill ends the tasks of its peer where they stand and moves no other.
LEMMA KilledTasks ==
  ASSUME NEW p \in Peers, Killed(p), NEW u \in Tasks
  PROVE  /\ \/ stage'[u] = stage[u]
            \/ Owner(u) = p /\ stage[u] \in Running /\ stage'[u] \in {"failed", "uncounted"}
         /\ stage'[u] = "uncounted" => stage[u] \in {"charge", "bump", "uncounted"}
         /\ Owner(u) = p => stage'[u] \notin Running
         /\ snap'[u] = IF Owner(u) = p THEN 0 ELSE snap[u]
<1>1. stage'[u] = (IF Owner(u) = p THEN KilledAt(stage[u]) ELSE stage[u])
      /\ snap'[u] = IF Owner(u) = p THEN 0 ELSE snap[u]
  BY DEF Killed
<1> QED
  BY <1>1 DEF KilledAt, Running

------------------------------------------------------------------------------
(* Types *)

\* What the ends of a queue are, and what its steps do to it.
LEMMA QueueFacts ==
  ASSUME NEW S, NEW q \in Seq(S)
  PROVE  /\ Len(q) \in Nat
         /\ q # <<>> => /\ Tail(q) \in Seq(S) /\ Head(q) \in S /\ Head(q) = q[1]
                        /\ Len(q) > 0 /\ Len(Tail(q)) = Len(q) - 1
                        /\ \A i \in 1..Len(q) - 1 : Tail(q)[i] = q[i + 1]
         /\ \A m \in S : /\ Append(q, m) \in Seq(S) /\ Len(Append(q, m)) = Len(q) + 1
                         /\ \A i \in 1..Len(q) : Append(q, m)[i] = q[i]
                         /\ Append(q, m)[Len(q) + 1] = m
OBVIOUS

\* Every step keeps counters, channels, owners and stages of their types.
LEMMA TypesNext ==
  ASSUME MessageTypes, \A m \in Msgs : MessageInOrder(m), [Next]_vars
  PROVE  MessageTypes'
<1> DEFINE Frames == Msgs \cup {Gate}
<1>0. /\ chan \in [Peers -> Seq(Frames)]
      /\ \A p \in Peers, f \in Frames : Append(chan[p], f) \in Seq(Frames)
      /\ \A p \in Peers : chan[p] # <<>> => Tail(chan[p]) \in Seq(Frames) /\ Head(chan[p]) \in Frames
  <2>1. chan \in [Peers -> Seq(Frames)]
    BY DEF MessageTypes
  <2> QED
    BY <2>1, QueueFacts
<1>1. ASSUME NEW t \in Tasks, NEW s \in Stages, stage' = [stage EXCEPT ![t] = s]
      PROVE  stage' \in [Tasks -> Stages]
  BY <1>1 DEF MessageTypes
<1>2. {"none", "free", "token", "paid", "checking", "charge", "bump", "done", "walled", "failed",
       "refused", "uncounted"} = Stages
  BY DEF Stages
<1>3. ASSUME NEW p \in Peers, NEW m \in Msgs, Send(p, m) PROVE MessageTypes'
  <2>1. from' \in [Msgs -> Peers \cup {NoPeer}] /\ overlapped' \subseteq Peers
    BY <1>3 DEF Send, MessageTypes
  <2>2. stage' \in [Tasks -> Stages]
    <3>1. stage' = [stage EXCEPT ![Out(m)] = IF WithinFreeTier(p) THEN "free" ELSE "token"]
      BY <1>3 DEF Send, Out
    <3> QED
      BY <1>1, <1>2, <3>1, TheTasks
  <2> QED
    BY <1>3, <2>1, <2>2 DEF Send, MessageTypes
<1>4. ASSUME NEW m \in Msgs, ReadsToken(m) PROVE MessageTypes'
  <2>1. stage' \in [Tasks -> Stages]
    <3>1. stage' = [stage EXCEPT ![Out(m)] = IF token[from[m]] THEN "paid" ELSE "walled"]
      BY <1>4 DEF ReadsToken, Out
    <3> QED
      BY <1>1, <1>2, <3>1, TheTasks
  <2>2. paid' \subseteq Msgs /\ paywall' \in [Peers -> BOOLEAN]
    BY <1>4 DEF ReadsToken, MessageTypes
  <2> QED
    BY <1>4, <2>1, <2>2 DEF ReadsToken, MessageTypes
<1>5. ASSUME NEW m \in Msgs, Transmit(m) PROVE MessageTypes'
  <2>1. stage' = [stage EXCEPT ![Out(m)] = "charge"]
        /\ chan' = [chan EXCEPT ![Other(from[m])] = Append(@, m)]
    BY <1>5 DEF Transmit, Out
  <2>2. stage' \in [Tasks -> Stages]
    BY <1>1, <1>2, <2>1, TheTasks
  <2>3. chan' \in [Peers -> Seq(Frames)]
    <3>1. Other(from[m]) \in Peers
      BY <1>5, Owned, TheTasks, TwoPeers DEF Transmit, Out
    <3> QED
      BY <1>0, <2>1, <3>1
  <2> QED
    BY <1>5, <2>2, <2>3 DEF Transmit, MessageTypes
<1>6. ASSUME NEW m \in Msgs, TransmitFails(m) PROVE MessageTypes'
  <2>1. \E s \in {"failed", "charge"} : stage' = [stage EXCEPT ![Out(m)] = s]
    BY <1>6 DEF TransmitFails, Out
  <2>2. stage' \in [Tasks -> Stages]
    BY <1>1, <1>2, <2>1, TheTasks
  <2> QED
    BY <1>6, <2>2 DEF TransmitFails, MessageTypes
<1>7. ASSUME NEW m \in Msgs, Verifies(m) PROVE MessageTypes'
  <2>1. \E s \in {"charge", "refused"} : stage' = [stage EXCEPT ![In(m)] = s]
    BY <1>7 DEF Verifies, In
  <2>2. stage' \in [Tasks -> Stages]
    BY <1>1, <1>2, <2>1, TheTasks
  <2>3. chan' \in [Peers -> Seq(Frames)]
    <3>1. chan' = chan \/ chan' = [chan EXCEPT ![from[m]] = Append(@, Gate)]
      BY <1>7 DEF Verifies
    <3>2. from[m] \in Peers
      BY <1>7, Owned, TheTasks DEF Verifies, In
    <3> QED
      BY <1>0, <3>1, <3>2
  <2> QED
    BY <1>7, <2>2, <2>3 DEF Verifies, MessageTypes
<1>8. ASSUME NEW t \in Tasks, BumpReads(t) \/ BumpWrites(t) PROVE MessageTypes'
  <2>1. stage' = [stage EXCEPT ![t] = "bump"] \/ stage' = [stage EXCEPT ![t] = "done"]
    BY <1>8 DEF BumpReads, BumpWrites
  <2>2. stage' \in [Tasks -> Stages]
    BY <1>1, <1>2, <2>1
  <2>3. snap' \in [Tasks -> Nat] /\ count' \in [Peers -> Nat]
    <3>0. Owner(t) \in Peers
      BY <1>8, Owned DEF BumpReads, BumpWrites
    <3>1. CASE BumpReads(t)
      <4>1. snap' = [snap EXCEPT ![t] = count[Owner(t)]] /\ count' = count
        BY <3>1 DEF BumpReads
      <4> QED
        BY <3>0, <4>1 DEF MessageTypes
    <3>2. CASE BumpWrites(t)
      <4>1. snap' = [snap EXCEPT ![t] = 0] /\ count' = [count EXCEPT ![Owner(t)] = snap[t] + 1]
        BY <3>2 DEF BumpWrites
      <4> QED
        BY <3>0, <4>1 DEF MessageTypes
    <3> QED
      BY <1>8, <3>1, <3>2
  <2> QED
    BY <1>8, <2>2, <2>3 DEF BumpReads, BumpWrites, MessageTypes
<1>9. ASSUME NEW p \in Peers, Arrives(p) PROVE MessageTypes'
  <2>1. Head(chan[p]) \in Msgs
    BY <1>0, <1>9 DEF Arrives
  <2>2. stage' = [stage EXCEPT ![In(Head(chan[p]))] = IF WithinFreeTier(p) THEN "charge" ELSE "checking"]
    BY <1>9 DEF Arrives, In
  <2>3. stage' \in [Tasks -> Stages]
    BY <1>1, <1>2, <2>1, <2>2, TheTasks
  <2>4. chan' \in [Peers -> Seq(Frames)] /\ overlapped' \subseteq Peers
    BY <1>0, <1>9 DEF Arrives, MessageTypes
  <2> QED
    BY <1>9, <2>3, <2>4 DEF Arrives, MessageTypes
<1>10. ASSUME NEW p \in Peers, GateArrives(p) PROVE MessageTypes'
  <2>1. chan' \in [Peers -> Seq(Frames)]
    BY <1>0, <1>10 DEF GateArrives
  <2> QED
    BY <1>10, <2>1 DEF GateArrives, MessageTypes
<1>11. ASSUME chan' = [p \in Peers |-> <<>>] PROVE chan' \in [Peers -> Seq(Frames)]
  BY <1>11
<1>12. CASE ChannelCloses \/ Reopens
  BY <1>11, <1>12 DEF ChannelCloses, Reopens, MessageTypes
<1>13. ASSUME NEW p \in Peers, Killed(p) PROVE MessageTypes'
  <2>1. /\ stage' = [t \in Tasks |-> IF Owner(t) = p THEN KilledAt(stage[t]) ELSE stage[t]]
        /\ snap' = [t \in Tasks |-> IF Owner(t) = p THEN 0 ELSE snap[t]]
    BY <1>13 DEF Killed
  <2>2. stage' \in [Tasks -> Stages]
    <3>1. \A u \in Tasks : stage[u] \in Stages /\ KilledAt(stage[u]) \in Stages
      BY <1>2 DEF KilledAt, MessageTypes
    <3> QED
      BY <2>1, <3>1
  <2>3. snap' \in [Tasks -> Nat]
    BY <2>1 DEF MessageTypes
  <2>4. kills' \in [Peers -> 0..MaxKills]
    <3>1. /\ kills \in [Peers -> 0..MaxKills] /\ MaxKills \in Nat
          /\ kills' = kills \/ (kills[p] < MaxKills /\ kills' = [kills EXCEPT ![p] = @ + 1])
      BY <1>13, FreemiumAssumption DEF Killed, MessageTypes, FreemiumAssumption
    <3> QED
      BY <3>1
  <2>5. stale' \subseteq Tasks
    BY <1>13 DEF Killed
  <2> QED
    BY <1>11, <1>13, <2>2, <2>3, <2>4, <2>5 DEF Killed, MessageTypes
<1>14. ASSUME NEW p \in Peers, Subscribe(p) \/ Expire(p) PROVE MessageTypes'
  BY <1>14 DEF Subscribe, Expire, MessageTypes
<1>15. CASE UNCHANGED vars
  BY <1>15 DEF vars, MessageTypes
<1>16. \A m \in Msgs : \A d \in {"out", "in"} : <<m, d>> \in Tasks
  BY DEF Tasks
<1> QED
  BY <1>3, <1>4, <1>5, <1>6, <1>7, <1>8, <1>9, <1>10, <1>12, <1>13, <1>14, <1>15, <1>16
  DEF Next, Steps

------------------------------------------------------------------------------
(* What a step does to the tasks *)

Moves(t, s) == stage'[t] = s /\ \A u \in Tasks \ {t} : stage'[u] = stage[u]

\* Send and Arrives: t begins at p, below the limit or not.
Begins(p, t) ==
  /\ stage[t] = "none" /\ Owner(t)' = p
  /\ \E s \in {"free", "token", "charge", "checking"} :
       Moves(t, s) /\ (s \in {"free", "charge"} <=> count[p] < FreeLimit)
  /\ \A u \in Tasks : stage[u] # "none" => Owner(u)' = Owner(u)
  /\ p \notin overlapped' => \A u \in Tasks : Owner(u) = p => stage[u] \notin Running
  /\ overlapped \subseteq overlapped' /\ UNCHANGED <<count, snap, paid, kills>>

\* From one await to the next, without the counter.
Goes(t) ==
  /\ \/ \E s \in {"paid", "walled"} : stage[t] = "token" /\ Moves(t, s)
     \/ \E s \in {"charge", "failed"} : stage[t] \in {"free", "paid"} /\ Moves(t, s)
     \/ \E s \in {"charge", "refused"} : stage[t] = "checking" /\ Moves(t, s)
  /\ stage'[t] \in {"charge", "paid"} => stage[t] = "free" \/ t[1] \in paid'
  /\ paid \subseteq paid' /\ UNCHANGED <<count, snap, from, overlapped, kills>>

Quiet == UNCHANGED <<count, stage, snap, from, paid, overlapped, kills>>

\* An owner depends on nothing but the sender.
LEMMA OwnerSame == ASSUME from' = from PROVE \A t : Owner(t)' = Owner(t)
BY DEF Owner

\* The message of a task that is at the front of p's channel.
LEMMA FrontOfChannel ==
  ASSUME MessageTypes, NEW p \in Peers, OnItsWay(p), chan[p] # <<>>, Head(chan[p]) # Gate
  PROVE  LET m == Head(chan[p]) IN
         /\ m \in Msgs /\ stage[In(m)] = "none" /\ Left(m)
         /\ from[m] \in Peers \ {p} /\ Owner(In(m)) = p
<1> DEFINE m == Head(chan[p])
<1>1. chan[p] \in Seq(Msgs \cup {Gate})
  BY DEF MessageTypes
<1>2. m \in Msgs \cup {Gate} /\ m = chan[p][1] /\ 1 \in 1..Len(chan[p])
  BY <1>1, QueueFacts
<1>3. m \in Msgs
  BY <1>2
<1>4. from[m] \in Peers \ {p} /\ Left(m) /\ stage[In(m)] = "none"
  BY <1>2, <1>3 DEF OnItsWay, Carried, Awaited
<1> HIDE DEF m
<1>5. Owner(In(m)) = p
  BY <1>3, <1>4, Owners, TwoPeers
<1> QED
  BY <1>3, <1>4, <1>5 DEF m

\* The handlers that go on without touching the counter are steps of one kind.
LEMMA Resumes ==
  ASSUME MessageTypes, \A m \in Msgs : MessageInOrder(m), NEW m \in Msgs,
         ReadsToken(m) \/ Transmit(m) \/ TransmitFails(m) \/ Verifies(m)
  PROVE  \E t \in Tasks : Goes(t)
<1>0. ASSUME NEW t \in Tasks, NEW s, stage' = [stage EXCEPT ![t] = s] PROVE Moves(t, s)
  BY <1>0 DEF Moves, MessageTypes
<1>1. Out(m) \in Tasks /\ In(m) \in Tasks /\ Out(m)[1] = m /\ In(m)[1] = m
  BY TheTasks
<1>2. ASSUME ReadsToken(m) PROVE Goes(Out(m))
  <2>1. /\ stage[Out(m)] = "token"
        /\ stage' = [stage EXCEPT ![Out(m)] = IF token[from[m]] THEN "paid" ELSE "walled"]
        /\ paid' = IF token[from[m]] THEN paid \cup {m} ELSE paid
        /\ UNCHANGED <<count, snap, from, overlapped, kills>>
    BY <1>2 DEF ReadsToken, Out
  <2>2. Moves(Out(m), IF token[from[m]] THEN "paid" ELSE "walled")
    BY <1>0, <1>1, <2>1
  <2> QED
    BY <1>1, <2>1, <2>2 DEF Goes, Moves
<1>3. ASSUME Transmit(m) \/ TransmitFails(m) PROVE Goes(Out(m))
  <2>1. /\ stage[Out(m)] \in {"free", "paid"}
        /\ \E s \in {"charge", "failed"} : stage' = [stage EXCEPT ![Out(m)] = s]
        /\ UNCHANGED <<count, snap, from, paid, overlapped, kills>>
    BY <1>3 DEF Transmit, TransmitFails, Out
  <2>2. \E s \in {"charge", "failed"} : Moves(Out(m), s)
    BY <1>0, <1>1, <2>1
  <2>3. stage[Out(m)] = "free" \/ m \in paid
    BY <2>1 DEF MessageInOrder
  <2> QED
    BY <1>1, <2>1, <2>2, <2>3 DEF Goes
<1>4. ASSUME Verifies(m) PROVE Goes(In(m))
  <2>1. /\ stage[In(m)] = "checking"
        /\ \E s \in {"charge", "refused"} :
             stage' = [stage EXCEPT ![In(m)] = s] /\ (s = "charge" => m \in paid)
        /\ UNCHANGED <<count, snap, from, paid, overlapped, kills>>
    BY <1>4 DEF Verifies, In
  <2>2. \E s \in {"charge", "refused"} : Moves(In(m), s) /\ (s = "charge" => m \in paid)
    BY <1>0, <1>1, <2>1
  <2> QED
    BY <1>1, <2>1, <2>2 DEF Goes, Moves
<1> QED
  BY <1>1, <1>2, <1>3, <1>4

\* What every step of the two peers is to the tasks.
LEMMA StepKinds ==
  ASSUME MessageTypes, \A m \in Msgs : MessageInOrder(m), \A p \in Peers : OnItsWay(p), [Next]_vars
  PROVE  \/ Quiet
         \/ \E p \in Peers, t \in Tasks : Begins(p, t)
         \/ \E t \in Tasks : Goes(t) \/ BumpReads(t) \/ BumpWrites(t)
         \/ \E p \in Peers : Killed(p)
<1> DEFINE Kind == \/ Quiet
                   \/ \E p \in Peers, t \in Tasks : Begins(p, t)
                   \/ \E t \in Tasks : Goes(t) \/ BumpReads(t) \/ BumpWrites(t)
                   \/ \E p \in Peers : Killed(p)
<1>0. ASSUME NEW t \in Tasks, NEW s, stage' = [stage EXCEPT ![t] = s] PROVE Moves(t, s)
  BY <1>0 DEF Moves, MessageTypes
<1>1. /\ \A m \in Msgs : Out(m) = <<m, "out">> /\ In(m) = <<m, "in">>
      /\ \A m \in Msgs : Out(m) \in Tasks /\ In(m) \in Tasks /\ Out(m)[1] = m /\ In(m)[1] = m
  BY TheTasks DEF Out, In
<1>2. \A p \in Peers : WithinFreeTier(p) <=> count[p] < FreeLimit
  BY DEF WithinFreeTier
<1>3. ASSUME NEW p \in Peers, NEW m \in Msgs, Send(p, m) PROVE Begins(p, Out(m))
  <2>1. /\ from[m] = NoPeer /\ from' = [from EXCEPT ![m] = p]
        /\ stage' = [stage EXCEPT ![Out(m)] = IF WithinFreeTier(p) THEN "free" ELSE "token"]
        /\ overlapped' = IF Busy(p) > 0 THEN overlapped \cup {p} ELSE overlapped
        /\ UNCHANGED <<count, snap, paid, kills>>
    BY <1>3 DEF Send, Out
  <2>2. stage[Out(m)] = "none" /\ stage[In(m)] = "none"
    BY <2>1 DEF MessageInOrder, Left
  <2>3. from'[m] = p /\ \A n \in Msgs : n # m => from'[n] = from[n]
    BY <2>1 DEF MessageTypes
  <2>4. \E s \in {"free", "token"} : Moves(Out(m), s) /\ (s = "free" <=> count[p] < FreeLimit)
    BY <1>0, <1>1, <1>2, <2>1
  <2>5. Owner(Out(m))' = p
    <3>1. Owner(Out(m))' = from'[m]
      <4>1. Out(m)[1] = m /\ Out(m)[2] = "out" /\ from'[m] # NoPeer
        BY <2>3, TwoPeers DEF Out
      <4> QED
        BY <4>1 DEF Owner
    <3> QED
      BY <2>3, <3>1
  <2>6. ASSUME NEW u \in Tasks, stage[u] # "none" PROVE Owner(u)' = Owner(u)
    <3>1. u[1] \in Msgs /\ u[1] # m
      BY <1>1, <2>2, <2>6, TheTasks
    <3>2. from'[u[1]] = from[u[1]]
      BY <2>3, <3>1
    <3> QED
      BY <3>2 DEF Owner
  <2>7. p \notin overlapped' => \A u \in Tasks : Owner(u) = p => stage[u] \notin Running
    BY <2>1, Idle
  <2> QED
    BY <2>1, <2>2, <2>4, <2>5, <2>6, <2>7 DEF Begins
<1>4. ASSUME NEW p \in Peers, Arrives(p) PROVE \E t \in Tasks : Begins(p, t)
  <2>1. chan[p] # <<>> /\ Head(chan[p]) # Gate
    BY <1>4 DEF Arrives
  <2>2. PICK m \in Msgs : m = Head(chan[p]) /\ stage[In(m)] = "none" /\ Owner(In(m)) = p
    BY <2>1, FrontOfChannel
  <2>3. /\ from' = from
        /\ stage' = [stage EXCEPT ![<<m, "in">>] = IF WithinFreeTier(p) THEN "charge" ELSE "checking"]
        /\ overlapped' = IF Busy(p) > 0 THEN overlapped \cup {p} ELSE overlapped
        /\ UNCHANGED <<count, snap, paid, kills>>
    BY <1>4, <2>2 DEF Arrives
  <2>4. stage' = [stage EXCEPT ![In(m)] = IF WithinFreeTier(p) THEN "charge" ELSE "checking"]
    BY <2>3 DEF In
  <2>5. \E s \in {"charge", "checking"} : Moves(In(m), s) /\ (s = "charge" <=> count[p] < FreeLimit)
    BY <1>0, <1>1, <1>2, <2>2, <2>4
  <2>6. \A u : Owner(u)' = Owner(u)
    BY <2>3, OwnerSame
  <2>7. p \notin overlapped' => \A u \in Tasks : Owner(u) = p => stage[u] \notin Running
    BY <2>3, Idle
  <2>8. Begins(p, In(m))
    BY <2>3, <2>2, <2>5, <2>6, <2>7 DEF Begins
  <2> QED
    BY <1>1, <2>2, <2>8
<1>5. ASSUME NEW m \in Msgs, ReadsToken(m) \/ Transmit(m) \/ TransmitFails(m) \/ Verifies(m)
      PROVE  \E t \in Tasks : Goes(t)
  BY <1>5, Resumes
<1>6. ASSUME NEW p \in Peers, GateArrives(p) \/ Subscribe(p) \/ Expire(p) PROVE Quiet
  BY <1>6 DEF GateArrives, Subscribe, Expire, Quiet
<1>7. CASE ChannelCloses \/ Reopens
  BY <1>7 DEF ChannelCloses, Reopens, Quiet
<1>8. CASE UNCHANGED vars
  BY <1>8 DEF vars, Quiet
<1>9. Kind
  BY <1>1, <1>3, <1>4, <1>5, <1>6, <1>7, <1>8 DEF Next, Steps
<1> QED
  BY <1>9

------------------------------------------------------------------------------
(* Messages on their way *)

\* A queue without duplicates stays so at both of its ends.
LEMMA ChannelFacts ==
  ASSUME NEW S, NEW q \in Seq(S), Distinct(q)
  PROVE  /\ q # <<>> => /\ Distinct(Tail(q))
                        /\ \A m : Carried(Tail(q), m) => Carried(q, m)
                        /\ Head(q) # Gate => ~Carried(Tail(q), Head(q))
         /\ \A x \in S : /\ \A m : Carried(Append(q, x), m) => Carried(q, m) \/ m = x
                         /\ x = Gate \/ ~Carried(q, x) => Distinct(Append(q, x))
<1>1. ASSUME q # <<>>
      PROVE  /\ Distinct(Tail(q))
             /\ \A m : Carried(Tail(q), m) => Carried(q, m)
             /\ Head(q) # Gate => ~Carried(Tail(q), Head(q))
  <2> DEFINE t == Tail(q)
  <2>1. /\ Len(q) \in Nat /\ Len(q) > 0 /\ Len(t) = Len(q) - 1 /\ Head(q) = q[1]
        /\ \A i \in 1..Len(q) - 1 : t[i] = q[i + 1]
    BY <1>1, QueueFacts
  <2> HIDE DEF t
  <2>2. \A i \in 1..Len(t) : i + 1 \in 1..Len(q) /\ t[i] = q[i + 1] /\ 1 \in 1..Len(q) /\ i + 1 # 1
    BY <2>1
  <2>3. \A i, j \in 1..Len(t) : i # j => i + 1 # j + 1
    OBVIOUS
  <2>4. Distinct(t)
    BY <2>2, <2>3 DEF Distinct
  <2>5. \A m : Carried(t, m) => Carried(q, m)
    BY <2>2 DEF Carried
  <2>6. Head(q) # Gate => ~Carried(t, Head(q))
    BY <2>1, <2>2 DEF Carried, Distinct
  <2> QED
    BY <2>4, <2>5, <2>6 DEF t
<1>2. ASSUME NEW x \in S
      PROVE  /\ \A m : Carried(Append(q, x), m) => Carried(q, m) \/ m = x
             /\ x = Gate \/ ~Carried(q, x) => Distinct(Append(q, x))
  <2> DEFINE a == Append(q, x)
  <2>1. /\ Len(q) \in Nat /\ Len(a) = Len(q) + 1 /\ a[Len(q) + 1] = x
        /\ \A i \in 1..Len(q) : a[i] = q[i]
    BY <1>2, QueueFacts
  <2> HIDE DEF a
  <2>2. \A i \in 1..Len(a) : i \in 1..Len(q) \/ i = Len(q) + 1
    BY <2>1
  <2>3. \A m : Carried(a, m) => Carried(q, m) \/ m = x
    BY <2>1, <2>2 DEF Carried
  <2>4. ASSUME x = Gate \/ ~Carried(q, x) PROVE Distinct(a)
    BY <2>1, <2>2, <2>4 DEF Carried, Distinct
  <2> QED
    BY <2>3, <2>4 DEF a
<1> QED
  BY <1>1, <1>2

\* A queue that was dropped carries nothing.
LEMMA NothingCarried == Distinct(<<>>) /\ \A m : ~Carried(<<>>, m)
BY DEF Distinct, Carried

\* What a step leaves as it is of a message that is under way.
LEMMA StaysOnItsWay ==
  ASSUME MessageTypes, \A m \in Msgs : MessageInOrder(m), \A p \in Peers : OnItsWay(p), [Next]_vars,
         NEW m \in Msgs
  PROVE  /\ from[m] \in Peers => from'[m] = from[m]
         /\ Left(m) => Left(m)'
<1>1. from[m] \in Peers => from'[m] = from[m]
  <2>1. NoPeer \notin Peers
    BY FreemiumAssumption DEF FreemiumAssumption
  <2>2. ASSUME NEW p \in Peers, NEW n \in Msgs, Send(p, n), from[m] \in Peers PROVE from'[m] = from[m]
    BY <2>1, <2>2 DEF Send, MessageTypes
  <2>3. from' = from \/ \E p \in Peers, n \in Msgs : Send(p, n)
    BY DEF Next, Steps, vars, ReadsToken, Transmit, TransmitFails, Verifies, BumpReads, BumpWrites,
       Arrives, GateArrives, Subscribe, Expire, Killed, ChannelCloses, Reopens
  <2> QED
    BY <2>2, <2>3
<1>2. ASSUME Left(m) PROVE Left(m)'
  <2> DEFINE t == Out(m)
  <2>1. t \in Tasks /\ stage[t] \notin {"none", "free", "token", "paid"}
    BY <1>2, TheTasks DEF Left
  <2> SUFFICES stage'[t] \notin {"none", "free", "token", "paid"}
    BY DEF Left, Out
  <2> HIDE DEF t
  <2>2. CASE Quiet
    BY <2>1, <2>2 DEF Quiet
  <2>3. ASSUME NEW p \in Peers, NEW u \in Tasks, Begins(p, u)
        PROVE  stage'[t] \notin {"none", "free", "token", "paid"}
    BY <2>1, <2>3 DEF Begins, Moves
  <2>4. ASSUME NEW u \in Tasks, Goes(u)
        PROVE  stage'[t] \notin {"none", "free", "token", "paid"}
    BY <2>1, <2>4 DEF Goes, Moves
  <2>5. ASSUME NEW u \in Tasks, BumpReads(u) \/ BumpWrites(u)
        PROVE  stage'[t] \notin {"none", "free", "token", "paid"}
    BY <2>1, <2>5 DEF BumpReads, BumpWrites, MessageTypes
  <2>6. ASSUME NEW p \in Peers, Killed(p)
        PROVE  stage'[t] \notin {"none", "free", "token", "paid"}
    BY <2>1, <2>6, KilledTasks
  <2> QED
    BY <2>2, <2>3, <2>4, <2>5, <2>6, StepKinds
<1> QED
  BY <1>1, <1>2

\* A message is handled in order: sent, paid for if need be, then received.
LEMMA OrderNext ==
  ASSUME MessageTypes, \A m \in Msgs : MessageInOrder(m), \A p \in Peers : OnItsWay(p), [Next]_vars
  PROVE  \A m \in Msgs : MessageInOrder(m)'
<1> SUFFICES ASSUME NEW m \in Msgs PROVE MessageInOrder(m)'
  OBVIOUS
<1> DEFINE o == Out(m)
           i == In(m)
<1>0. /\ o \in Tasks /\ i \in Tasks /\ o # i /\ o[1] = m /\ i[1] = m
      /\ \A n \in Msgs : n # m => Out(n) # o /\ Out(n) # i /\ In(n) # o /\ In(n) # i
      /\ \A n \in Msgs : Out(n) # i /\ In(n) # o
  BY TheTasks
<1>1. /\ from[m] = NoPeer => stage[o] = "none"
      /\ stage[i] # "none" => Left(m)
      /\ stage[o] = "paid" => m \in paid
  BY DEF MessageInOrder
<1>2. Left(m) => Left(m)'
  BY StaysOnItsWay
<1>3. ASSUME from'[m] = from[m] \/ from'[m] # NoPeer, from'[m] = NoPeer => stage'[o] = "none",
             stage[i] = "none" /\ stage'[i] # "none" => Left(m), stage'[o] = "paid" => m \in paid'
      PROVE  MessageInOrder(m)'
  <2>1. stage'[i] # "none" => Left(m)'
    BY <1>1, <1>2, <1>3
  <2> QED
    BY <1>3, <2>1 DEF MessageInOrder, Out, In
<1> HIDE DEF o, i
<1>4. ASSUME NEW p \in Peers, NEW n \in Msgs, Send(p, n) PROVE MessageInOrder(m)'
  <2>1. stage' = [stage EXCEPT ![Out(n)] = IF WithinFreeTier(p) THEN "free" ELSE "token"]
        /\ from' = [from EXCEPT ![n] = p] /\ paid' = paid /\ p # NoPeer
    BY <1>4, TwoPeers DEF Send, Out
  <2>2. stage'[i] = stage[i]
    BY <1>0, <2>1 DEF MessageTypes
  <2>3. CASE n = m
    <3>1. stage'[o] \in {"free", "token"} /\ from'[m] = p
      BY <1>0, <2>1, <2>3 DEF MessageTypes, o
    <3> QED
      BY <1>3, <2>1, <2>2, <3>1
  <2>4. CASE n # m
    <3>1. stage'[o] = stage[o] /\ from'[m] = from[m]
      BY <1>0, <2>1, <2>4 DEF MessageTypes
    <3> QED
      BY <1>1, <1>3, <2>1, <2>2, <3>1
  <2> QED
    BY <2>3, <2>4
<1>5. ASSUME from' = from, paid \subseteq paid', stage'[o] # "none" => stage[o] # "none",
             stage'[o] = "paid" => stage[o] = "paid" \/ m \in paid',
             stage[i] = "none" /\ stage'[i] # "none" => Left(m)
      PROVE  MessageInOrder(m)'
  BY <1>1, <1>3, <1>5
<1>6. ASSUME NEW t \in Tasks, Goes(t) PROVE MessageInOrder(m)'
  <2>1. /\ from' = from /\ paid \subseteq paid' /\ \A u \in Tasks \ {t} : stage'[u] = stage[u]
        /\ stage[t] \in {"token", "free", "paid", "checking"}
        /\ stage'[t] = "paid" => stage[t] # "free"
        /\ stage'[t] \in {"charge", "paid"} => stage[t] = "free" \/ t[1] \in paid'
    BY <1>6 DEF Goes, Moves
  <2>2. stage'[o] # "none" => stage[o] # "none"
    BY <1>0, <2>1
  <2>3. stage'[o] = "paid" => stage[o] = "paid" \/ m \in paid'
    BY <1>0, <2>1
  <2>4. ~(stage[i] = "none" /\ stage'[i] # "none")
    BY <1>0, <2>1
  <2> QED
    BY <1>5, <2>1, <2>2, <2>3, <2>4
<1>7. ASSUME NEW t \in Tasks, BumpReads(t) \/ BumpWrites(t) PROVE MessageInOrder(m)'
  <2>1. /\ from' = from /\ paid' = paid /\ stage[t] # "none"
        /\ stage' = [stage EXCEPT ![t] = "bump"] \/ stage' = [stage EXCEPT ![t] = "done"]
    BY <1>7 DEF BumpReads, BumpWrites
  <2>2. stage'[o] = "paid" => stage[o] = "paid"
    BY <1>0, <2>1 DEF MessageTypes
  <2>3. stage'[o] # "none" => stage[o] # "none"
    BY <1>0, <2>1 DEF MessageTypes
  <2>4. ~(stage[i] = "none" /\ stage'[i] # "none")
    BY <1>0, <2>1 DEF MessageTypes
  <2> QED
    BY <1>5, <2>1, <2>2, <2>3, <2>4
<1>8. ASSUME NEW p \in Peers, Arrives(p) PROVE MessageInOrder(m)'
  <2>1. chan[p] # <<>> /\ Head(chan[p]) # Gate
    BY <1>8 DEF Arrives
  <2>2. PICK n \in Msgs : n = Head(chan[p]) /\ Left(n)
    BY <2>1, FrontOfChannel
  <2>3. /\ from' = from /\ paid' = paid
        /\ stage' = [stage EXCEPT ![In(n)] = IF WithinFreeTier(p) THEN "charge" ELSE "checking"]
    BY <1>8, <2>2 DEF Arrives, In
  <2>4. stage'[o] = stage[o]
    BY <1>0, <2>2, <2>3 DEF MessageTypes
  <2>5. stage'[i] = stage[i] \/ n = m
    BY <1>0, <2>2, <2>3 DEF MessageTypes
  <2> QED
    BY <1>5, <2>2, <2>3, <2>4, <2>5
<1>9. ASSUME NEW p \in Peers, Killed(p) PROVE MessageInOrder(m)'
  <2>1. from' = from /\ paid' = paid
    BY <1>9 DEF Killed
  <2>2. /\ stage'[o] = stage[o] \/ (stage[o] \in Running /\ stage'[o] \in {"failed", "uncounted"})
        /\ stage'[i] = stage[i] \/ (stage[i] \in Running /\ stage'[i] \in {"failed", "uncounted"})
    BY <1>0, <1>9, KilledTasks
  <2> QED
    BY <1>5, <2>1, <2>2 DEF Running
<1>10. ASSUME UNCHANGED <<from, paid, stage>> PROVE MessageInOrder(m)'
  BY <1>5, <1>10
<1>11. \A n \in Msgs : \A d \in {"out", "in"} : <<n, d>> \in Tasks
  BY DEF Tasks
<1>12. ASSUME NEW n \in Msgs, Steps(n) PROVE MessageInOrder(m)'
  BY <1>6, <1>7, <1>11, <1>12, Resumes DEF Steps
<1> QED
  BY <1>4, <1>8, <1>9, <1>10, <1>12
  DEF Next, Subscribe, Expire, GateArrives, ChannelCloses, Reopens, vars

\* A message is on its way once, and only between its two tasks.
LEMMA WayNext ==
  ASSUME MessageTypes, \A m \in Msgs : MessageInOrder(m), \A p \in Peers : OnItsWay(p), [Next]_vars
  PROVE  \A p \in Peers : OnItsWay(p)'
<1> SUFFICES ASSUME NEW q \in Peers PROVE OnItsWay(q)'
  OBVIOUS
<1> DEFINE Frames == Msgs \cup {Gate}
<1>0. /\ \A p \in Peers : chan[p] \in Seq(Frames) /\ Distinct(chan[p])
      /\ \A p \in Peers, m \in Msgs : Carried(chan[p], m) => Awaited(m, p)
      /\ chan \in [Peers -> Seq(Frames)] /\ Gate \notin Msgs
  BY FreemiumAssumption DEF OnItsWay, MessageTypes, FreemiumAssumption
<1>1. ASSUME NEW m \in Msgs, Awaited(m, q), stage'[In(m)] = "none"
      PROVE  Awaited(m, q)'
  BY <1>1, StaysOnItsWay DEF Awaited, In
<1>2. ASSUME chan'[q] = chan[q], \A m \in Msgs : Awaited(m, q) => stage'[In(m)] = "none"
      PROVE  OnItsWay(q)'
  BY <1>0, <1>1, <1>2 DEF OnItsWay
<1>3. ASSUME chan'[q] = <<>> PROVE OnItsWay(q)'
  BY <1>3, NothingCarried DEF OnItsWay
<1>4. \A m \in Msgs : Awaited(m, q) => stage[In(m)] = "none" /\ In(m) \in Tasks
  BY TheTasks DEF Awaited
<1>5. ASSUME NEW t \in Tasks, stage[t] # "none", \A u \in Tasks \ {t} : stage'[u] = stage[u],
             NEW m \in Msgs, Awaited(m, q)
      PROVE  stage'[In(m)] = "none"
  BY <1>4, <1>5
<1>6. ASSUME NEW p \in Peers, NEW n \in Msgs, Send(p, n) PROVE OnItsWay(q)'
  <2>1. stage' = [stage EXCEPT ![Out(n)] = IF WithinFreeTier(p) THEN "free" ELSE "token"]
        /\ chan' = chan
    BY <1>6 DEF Send, Out
  <2>2. \A m \in Msgs : Awaited(m, q) => stage'[In(m)] = "none"
    BY <1>4, <2>1, TheTasks DEF MessageTypes
  <2> QED
    BY <1>2, <2>1, <2>2
<1>7. ASSUME NEW n \in Msgs, ReadsToken(n) \/ TransmitFails(n) PROVE OnItsWay(q)'
  <2>1. /\ stage[Out(n)] # "none" /\ chan' = chan
        /\ \E s : stage' = [stage EXCEPT ![Out(n)] = s]
    BY <1>7 DEF ReadsToken, TransmitFails, Out
  <2>2. \A u \in Tasks \ {Out(n)} : stage'[u] = stage[u]
    BY <2>1 DEF MessageTypes
  <2>3. \A m \in Msgs : Awaited(m, q) => stage'[In(m)] = "none"
    BY <1>5, <2>1, <2>2, TheTasks
  <2> QED
    BY <1>2, <2>1, <2>3
<1>8. ASSUME NEW n \in Msgs, Transmit(n) PROVE OnItsWay(q)'
  <2>1. /\ stage[Out(n)] \in {"free", "paid"} /\ from' = from
        /\ stage' = [stage EXCEPT ![Out(n)] = "charge"]
        /\ chan' = [chan EXCEPT ![Other(from[n])] = Append(@, n)]
    BY <1>8 DEF Transmit, Out
  <2>2. \A u \in Tasks \ {Out(n)} : stage'[u] = stage[u]
    BY <2>1 DEF MessageTypes
  <2>3. \A m \in Msgs : Awaited(m, q) => stage'[In(m)] = "none"
    BY <1>5, <2>1, <2>2, TheTasks
  <2>4. from[n] \in Peers /\ Out(n) \in Tasks
    BY <2>1, Owned, TheTasks
  <2>5. CASE q # Other(from[n])
    BY <1>0, <1>2, <2>1, <2>3, <2>5
  <2>6. CASE q = Other(from[n])
    <3>1. chan'[q] = Append(chan[q], n)
      BY <1>0, <2>1, <2>6
    <3>2. ~Left(n)
      BY <2>1 DEF Left
    <3>3. ~Carried(chan[q], n)
      BY <1>0, <3>2 DEF Awaited
    <3>4. Distinct(chan'[q]) /\ \A m : Carried(chan'[q], m) => Carried(chan[q], m) \/ m = n
      <4>1. chan[q] \in Seq(Frames) /\ Distinct(chan[q]) /\ n \in Frames
        BY <1>0
      <4> HIDE DEF Frames
      <4> QED
        BY <3>1, <3>3, <4>1, ChannelFacts
    <3>5. Awaited(n, q)'
      <4>1. stage[In(n)] = "none"
        BY <3>2 DEF MessageInOrder
      <4>2. stage'[In(n)] = "none" /\ stage'[Out(n)] = "charge"
        BY <2>1, <2>2, <2>4, <4>1, TheTasks DEF MessageTypes
      <4>3. Left(n)'
        <5>1. stage'[Out(n)] \notin {"none", "free", "token", "paid"}
          BY <4>2
        <5> QED
          BY <5>1 DEF Left, Out
      <4>4. from'[n] \in Peers \ {q}
        BY <2>1, <2>4, <2>6, TwoPeers
      <4> QED
        BY <4>2, <4>3, <4>4 DEF Awaited, In
    <3> QED
      BY <1>0, <1>1, <2>3, <3>4, <3>5 DEF OnItsWay
  <2> QED
    BY <2>5, <2>6
<1>9. ASSUME NEW n \in Msgs, Verifies(n) PROVE OnItsWay(q)'
  <2>1. /\ stage[In(n)] # "none" /\ \E s : stage' = [stage EXCEPT ![In(n)] = s]
        /\ chan' = chan \/ chan' = [chan EXCEPT ![from[n]] = Append(@, Gate)]
    BY <1>9 DEF Verifies, In
  <2>2. \A u \in Tasks \ {In(n)} : stage'[u] = stage[u]
    BY <2>1 DEF MessageTypes
  <2>3. \A m \in Msgs : Awaited(m, q) => stage'[In(m)] = "none"
    BY <1>5, <2>1, <2>2, TheTasks
  <2>4. chan'[q] = chan[q] \/ chan'[q] = Append(chan[q], Gate)
    BY <1>0, <2>1
  <2>5. CASE chan'[q] = Append(chan[q], Gate)
    <3>1. Distinct(chan'[q]) /\ \A m : Carried(chan'[q], m) => Carried(chan[q], m) \/ m = Gate
      <4>1. chan[q] \in Seq(Frames) /\ Distinct(chan[q]) /\ Gate \in Frames
        BY <1>0
      <4> HIDE DEF Frames
      <4> QED
        BY <2>5, <4>1, ChannelFacts
    <3> QED
      BY <1>0, <1>1, <2>3, <3>1 DEF OnItsWay
  <2> QED
    BY <1>2, <2>3, <2>4, <2>5
<1>10. ASSUME NEW t \in Tasks, BumpReads(t) \/ BumpWrites(t) PROVE OnItsWay(q)'
  <2>1. /\ stage[t] # "none" /\ chan' = chan /\ \E s : stage' = [stage EXCEPT ![t] = s]
    BY <1>10 DEF BumpReads, BumpWrites
  <2>2. \A u \in Tasks \ {t} : stage'[u] = stage[u]
    BY <2>1 DEF MessageTypes
  <2>3. \A m \in Msgs : Awaited(m, q) => stage'[In(m)] = "none"
    BY <1>5, <2>1, <2>2
  <2> QED
    BY <1>2, <2>1, <2>3
<1>11. ASSUME NEW p \in Peers, NEW x \in Frames, chan[p] # <<>>, x = Head(chan[p]),
              chan' = [chan EXCEPT ![p] = Tail(@)],
              \A m \in Msgs : Awaited(m, q) /\ m # x => stage'[In(m)] = "none",
              q # p => \A m \in Msgs : Awaited(m, q) => stage'[In(m)] = "none",
              x = Gate => \A m \in Msgs : Awaited(m, q) => stage'[In(m)] = "none"
       PROVE  OnItsWay(q)'
  <2>1. CASE q # p
    BY <1>0, <1>2, <1>11, <2>1
  <2>2. CASE q = p
    <3>1. chan'[q] = Tail(chan[q])
      BY <1>0, <1>11, <2>2
    <3>2. /\ Distinct(chan'[q]) /\ \A m : Carried(chan'[q], m) => Carried(chan[q], m)
          /\ x # Gate => ~Carried(chan'[q], x)
      <4>1. chan[q] \in Seq(Frames) /\ Distinct(chan[q]) /\ chan[q] # <<>> /\ x = Head(chan[q])
        BY <1>0, <1>11, <2>2
      <4> HIDE DEF Frames
      <4> QED
        BY <3>1, <4>1, ChannelFacts
    <3>3. ASSUME NEW m \in Msgs, Carried(chan'[q], m) PROVE Awaited(m, q)'
      <4>1. Awaited(m, q)
        BY <1>0, <3>2, <3>3
      <4>2. stage'[In(m)] = "none"
        BY <1>11, <3>2, <3>3, <4>1
      <4> QED
        BY <1>1, <4>1, <4>2
    <3> QED
      BY <3>2, <3>3 DEF OnItsWay
  <2> QED
    BY <2>1, <2>2
<1>12. ASSUME NEW p \in Peers, chan[p] # <<>> PROVE Head(chan[p]) \in Frames
  BY <1>0, <1>12, QueueFacts
<1>13. ASSUME NEW p \in Peers, Arrives(p) PROVE OnItsWay(q)'
  <2>1. chan[p] # <<>> /\ Head(chan[p]) # Gate /\ chan' = [chan EXCEPT ![p] = Tail(@)]
    BY <1>13 DEF Arrives
  <2>2. PICK n \in Msgs : n = Head(chan[p]) /\ from[n] \in Peers \ {p}
    BY <2>1, FrontOfChannel
  <2>3. stage' = [stage EXCEPT ![In(n)] = IF WithinFreeTier(p) THEN "charge" ELSE "checking"]
    BY <1>13, <2>2 DEF Arrives, In
  <2>4. \A m \in Msgs : Awaited(m, q) /\ m # n => stage'[In(m)] = "none"
    BY <1>4, <2>3, TheTasks DEF MessageTypes
  <2>5. q # p => ~Awaited(n, q)
    BY <2>2, TwoPeers DEF Awaited
  <2>6. n # Gate /\ n \in Frames
    BY <1>0
  <2> QED
    BY <1>11, <2>1, <2>2, <2>4, <2>5, <2>6
<1>14. ASSUME NEW p \in Peers, GateArrives(p) PROVE OnItsWay(q)'
  <2>1. chan[p] # <<>> /\ Head(chan[p]) = Gate /\ chan' = [chan EXCEPT ![p] = Tail(@)]
        /\ stage' = stage
    BY <1>14 DEF GateArrives
  <2>2. \A m \in Msgs : Awaited(m, q) => stage'[In(m)] = "none"
    BY <1>4, <2>1
  <2> QED
    BY <1>11, <1>12, <2>1, <2>2
<1>15. ASSUME NEW p \in Peers, Killed(p) \/ ChannelCloses PROVE OnItsWay(q)'
  BY <1>3, <1>15 DEF Killed, ChannelCloses
<1>16. ASSUME UNCHANGED <<chan, stage>> PROVE OnItsWay(q)'
  BY <1>2, <1>4, <1>16
<1>17. \A n \in Msgs : \A d \in {"out", "in"} : <<n, d>> \in Tasks
  BY DEF Tasks
<1>18. ASSUME NEW n \in Msgs, Steps(n) PROVE OnItsWay(q)'
  BY <1>7, <1>8, <1>9, <1>10, <1>17, <1>18 DEF Steps
<1> QED
  BY <1>6, <1>13, <1>14, <1>15, <1>16, <1>18 DEF Next, Subscribe, Expire, Reopens, vars

------------------------------------------------------------------------------
(* The counter *)

\* A task that has begun keeps its owner, and one that has counted stays counted.
LEMMA TasksKept ==
  ASSUME MessageTypes, \A m \in Msgs : MessageInOrder(m), \A p \in Peers : OnItsWay(p), [Next]_vars
  PROVE  \A u \in Tasks : /\ stage[u] # "none" => Owner(u)' = Owner(u)
                          /\ stage[u] = "done" => stage'[u] = "done"
<1> SUFFICES ASSUME NEW u \in Tasks
             PROVE  /\ stage[u] # "none" => Owner(u)' = Owner(u)
                    /\ stage[u] = "done" => stage'[u] = "done"
  OBVIOUS
<1>1. CASE Quiet
  BY <1>1, OwnerSame DEF Quiet
<1>2. ASSUME NEW p \in Peers, NEW t \in Tasks, Begins(p, t)
      PROVE  /\ stage[u] # "none" => Owner(u)' = Owner(u)
             /\ stage[u] = "done" => stage'[u] = "done"
  BY <1>2 DEF Begins, Moves
<1>3. ASSUME NEW t \in Tasks, Goes(t)
      PROVE  /\ stage[u] # "none" => Owner(u)' = Owner(u)
             /\ stage[u] = "done" => stage'[u] = "done"
  BY <1>3, OwnerSame DEF Goes, Moves
<1>4. ASSUME NEW t \in Tasks, BumpReads(t) \/ BumpWrites(t)
      PROVE  /\ stage[u] # "none" => Owner(u)' = Owner(u)
             /\ stage[u] = "done" => stage'[u] = "done"
  <2>1. from' = from /\ stage[t] # "done" /\ \E s : stage' = [stage EXCEPT ![t] = s]
    BY <1>4 DEF BumpReads, BumpWrites
  <2> QED
    BY <2>1, OwnerSame DEF MessageTypes
<1>5. ASSUME NEW p \in Peers, Killed(p)
      PROVE  /\ stage[u] # "none" => Owner(u)' = Owner(u)
             /\ stage[u] = "done" => stage'[u] = "done"
  <2>1. from' = from /\ (stage'[u] = stage[u] \/ stage[u] \in Running)
    BY <1>5, KilledTasks DEF Killed
  <2> QED
    BY <2>1, OwnerSame DEF Running
<1> QED
  BY <1>1, <1>2, <1>3, <1>4, <1>5, StepKinds

\* What a peer has counted only grows.
LEMMA CountedGrows ==
  ASSUME MessageTypes, \A m \in Msgs : MessageInOrder(m), \A p \in Peers : OnItsWay(p), [Next]_vars,
         NEW p \in Peers
  PROVE  /\ Counted(p) \subseteq Counted(p)'
         /\ Cardinality(Counted(p)) <= Cardinality(Counted(p)')
         /\ Cardinality(Counted(p)) \in Nat /\ Cardinality(Counted(p)') \in Nat
<1>1. Counted(p) \subseteq Counted(p)'
  BY TasksKept DEF Counted
<1>2. Counted(p) \in SUBSET Tasks /\ Counted(p)' \in SUBSET Tasks
  BY DEF Counted
<1> QED
  BY <1>1, <1>2, TaskNumbers

\* No interleaving of reads and writes of the counter makes it run ahead.
LEMMA CountingNext ==
  ASSUME MessageTypes, \A m \in Msgs : MessageInOrder(m), \A p \in Peers : OnItsWay(p), [Next]_vars,
         Counting
  PROVE  Counting'
<1>0. /\ count \in [Peers -> Nat] /\ snap \in [Tasks -> Nat]
      /\ \A p \in Peers : count[p] <= Cardinality(Counted(p))
      /\ \A t \in Tasks : stage[t] # "bump" => snap[t] = 0
      /\ \A p \in Peers, t \in Tasks :
           Owner(t) = p /\ stage[t] = "bump" => snap[t] <= Cardinality(Counted(p))
  BY DEF Counting, CounterNeverOverstates, MessageTypes
<1>1. \A t \in Tasks : stage[t] = "bump" => Owner(t) \in Peers /\ Owner(t)' = Owner(t)
  BY Owned, TasksKept
<1>2. \A p \in Peers : /\ Cardinality(Counted(p)) <= Cardinality(Counted(p)')
                       /\ Cardinality(Counted(p)) \in Nat /\ Cardinality(Counted(p)') \in Nat
  BY CountedGrows
<1>3. \A p \in Peers : count[p] <= Cardinality(Counted(p)')
  <2> SUFFICES ASSUME NEW p \in Peers PROVE count[p] <= Cardinality(Counted(p)')
    OBVIOUS
  <2> DEFINE a == Cardinality(Counted(p))
             b == Cardinality(Counted(p)')
  <2>1. count[p] \in Nat /\ count[p] <= a /\ a <= b /\ a \in Nat /\ b \in Nat
    BY <1>0, <1>2
  <2> HIDE DEF a, b
  <2>2. count[p] <= b
    BY <2>1
  <2> QED
    BY <2>2 DEF b
<1>4. ASSUME NEW p \in Peers, NEW t \in Tasks, stage[t] = "bump", Owner(t)' = p
      PROVE  snap[t] <= Cardinality(Counted(p)') /\ Owner(t) = p
  <2> DEFINE a == Cardinality(Counted(p))
             b == Cardinality(Counted(p)')
  <2>1. Owner(t) = p
    BY <1>1, <1>4
  <2>2. snap[t] \in Nat /\ snap[t] <= a /\ a <= b /\ a \in Nat /\ b \in Nat
    BY <1>0, <1>2, <1>4, <2>1
  <2> HIDE DEF a, b
  <2>3. snap[t] <= b
    BY <2>2
  <2> QED
    BY <2>1, <2>3 DEF b
<1>5. ASSUME \A p \in Peers : count'[p] <= Cardinality(Counted(p)'),
             \A t \in Tasks : stage'[t] # "bump" => snap'[t] = 0,
             \A p \in Peers, t \in Tasks :
               Owner(t)' = p /\ stage'[t] = "bump" => snap'[t] <= Cardinality(Counted(p)')
      PROVE  Counting'
  BY <1>5 DEF Counting, CounterNeverOverstates
<1>6. ASSUME count' = count, snap' = snap, \A t \in Tasks : stage'[t] = "bump" <=> stage[t] = "bump"
      PROVE  Counting'
  <2>1. \A t \in Tasks : stage'[t] # "bump" => snap'[t] = 0
    BY <1>0, <1>6
  <2>2. \A p \in Peers, t \in Tasks :
          Owner(t)' = p /\ stage'[t] = "bump" => snap'[t] <= Cardinality(Counted(p)')
    BY <1>4, <1>6
  <2> QED
    BY <1>3, <1>5, <1>6, <2>1, <2>2
<1>7. CASE Quiet
  BY <1>6, <1>7 DEF Quiet
<1>8. ASSUME NEW p \in Peers, NEW t \in Tasks, Begins(p, t) PROVE Counting'
  BY <1>6, <1>8 DEF Begins, Moves
<1>9. ASSUME NEW t \in Tasks, Goes(t) PROVE Counting'
  BY <1>6, <1>9 DEF Goes, Moves
<1>10. ASSUME NEW t \in Tasks, BumpReads(t) PROVE Counting'
  <2>1. /\ stage[t] = "charge" /\ count' = count /\ from' = from
        /\ snap' = [snap EXCEPT ![t] = count[Owner(t)]] /\ stage' = [stage EXCEPT ![t] = "bump"]
    BY <1>10 DEF BumpReads
  <2>2. \A u \in Tasks \ {t} : stage'[u] = stage[u] /\ snap'[u] = snap[u]
    BY <2>1 DEF MessageTypes
  <2>3. stage'[t] = "bump" /\ snap'[t] = count[Owner(t)] /\ Owner(t)' = Owner(t)
    BY <2>1, OwnerSame DEF MessageTypes
  <2>4. \A u \in Tasks : stage'[u] # "bump" => snap'[u] = 0
    BY <1>0, <2>2, <2>3
  <2>5. ASSUME NEW p \in Peers, NEW u \in Tasks, Owner(u)' = p, stage'[u] = "bump"
        PROVE  snap'[u] <= Cardinality(Counted(p)')
    <3>1. CASE u = t
      BY <1>3, <2>3, <2>5, <3>1
    <3>2. CASE u # t
      BY <1>4, <2>2, <2>5, <3>2
    <3> QED
      BY <3>1, <3>2
  <2> QED
    BY <1>3, <1>5, <2>1, <2>4, <2>5
<1>11. ASSUME NEW t \in Tasks, BumpWrites(t) PROVE Counting'
  <2>1. PICK o \in Peers : o = Owner(t) /\ o = Owner(t)'
    BY <1>1, <1>11 DEF BumpWrites
  <2>2. /\ stage[t] = "bump" /\ count' = [count EXCEPT ![o] = snap[t] + 1]
        /\ snap' = [snap EXCEPT ![t] = 0] /\ stage' = [stage EXCEPT ![t] = "done"]
    BY <1>11, <2>1 DEF BumpWrites
  <2>3. \A u \in Tasks \ {t} : stage'[u] = stage[u] /\ snap'[u] = snap[u]
    BY <2>2 DEF MessageTypes
  <2>4. stage'[t] = "done" /\ snap'[t] = 0
    BY <2>2 DEF MessageTypes
  <2>5. snap[t] + 1 <= Cardinality(Counted(o)')
    <3> DEFINE A == Counted(o)
               B == Counted(o)'
    <3>1. A \in SUBSET Tasks /\ B \in SUBSET Tasks /\ t \notin A
      BY <2>2 DEF Counted
    <3>2. A \subseteq B
      BY CountedGrows
    <3>3. t \in B
      BY <2>1, <2>4 DEF Counted
    <3>4. snap[t] <= Cardinality(A) /\ snap[t] \in Nat
      BY <1>0, <2>1, <2>2
    <3> HIDE DEF A, B
    <3>5. A \cup {t} \in SUBSET Tasks /\ A \cup {t} \subseteq B
      BY <3>1, <3>2, <3>3
    <3>6. Cardinality(A) \in Nat /\ Cardinality(A \cup {t}) = Cardinality(A) + 1
      BY <3>1, TaskNumbers
    <3>7. Cardinality(A \cup {t}) <= Cardinality(B) /\ Cardinality(B) \in Nat
      BY <3>1, <3>5, TaskNumbers
    <3>8. snap[t] + 1 <= Cardinality(B)
      BY <3>4, <3>6, <3>7
    <3> QED
      BY <3>8 DEF B
  <2>6. \A p \in Peers : count'[p] <= Cardinality(Counted(p)')
    <3> SUFFICES ASSUME NEW p \in Peers PROVE count'[p] <= Cardinality(Counted(p)')
      OBVIOUS
    <3>1. count'[o] = snap[t] + 1 /\ (p # o => count'[p] = count[p])
      BY <1>0, <2>2
    <3> QED
      BY <1>3, <2>5, <3>1
  <2>7. \A u \in Tasks : stage'[u] # "bump" => snap'[u] = 0
    BY <1>0, <2>3, <2>4
  <2>8. ASSUME NEW p \in Peers, NEW u \in Tasks, Owner(u)' = p, stage'[u] = "bump"
        PROVE  snap'[u] <= Cardinality(Counted(p)')
    <3>1. u # t
      BY <2>4, <2>8
    <3> QED
      BY <1>4, <2>3, <2>8, <3>1
  <2> QED
    BY <1>5, <2>6, <2>7, <2>8
<1>12. ASSUME NEW p \in Peers, Killed(p) PROVE Counting'
  <2>1. /\ count' = count
        /\ \A t \in Tasks : /\ stage'[t] = "bump" => stage[t] = "bump" /\ Owner(t) # p
                            /\ stage[t] = "bump" /\ stage'[t] # "bump" => Owner(t) = p
                            /\ snap'[t] = IF Owner(t) = p THEN 0 ELSE snap[t]
    BY <1>12, KilledTasks DEF Killed, Running
  <2>2. \A t \in Tasks : stage'[t] # "bump" => snap'[t] = 0
    BY <1>0, <2>1 DEF Running
  <2>3. ASSUME NEW q \in Peers, NEW t \in Tasks, Owner(t)' = q, stage'[t] = "bump"
        PROVE  snap'[t] <= Cardinality(Counted(q)')
    <3>1. stage[t] = "bump" /\ Owner(t) # p /\ snap'[t] = snap[t]
      BY <2>1, <2>3
    <3> QED
      BY <1>4, <2>3, <3>1
  <2> QED
    BY <1>3, <1>5, <2>1, <2>2, <2>3
<1> QED
  BY <1>7, <1>8, <1>9, <1>10, <1>11, <1>12, StepKinds

\* Whoever is asked to pay is asked when a task begins at a counter that has reached
\* the limit, and what has been counted only grows.
LEMMA GateNext ==
  ASSUME MessageTypes, \A m \in Msgs : MessageInOrder(m), \A p \in Peers : OnItsWay(p), [Next]_vars,
         Counting, NoEarlyGate
  PROVE  NoEarlyGate'
<1> DEFINE Asked == {"token", "paid", "walled", "checking", "refused"}
<1>0. FreeLimit \in Nat /\ count \in [Peers -> Nat]
  BY FreemiumAssumption DEF FreemiumAssumption, MessageTypes
<1>1. ASSUME NEW p \in Peers, FreeLimit <= Cardinality(Counted(p)) \/ FreeLimit <= count[p]
      PROVE  FreeLimit <= Cardinality(Counted(p)')
  <2> DEFINE a == Cardinality(Counted(p))
             b == Cardinality(Counted(p)')
  <2>1. a <= b /\ a \in Nat /\ b \in Nat
    BY CountedGrows
  <2>2. FreeLimit <= a \/ FreeLimit <= count[p]
    BY <1>1
  <2>3. count[p] <= a /\ count[p] \in Nat
    BY <1>0 DEF Counting, CounterNeverOverstates
  <2> HIDE DEF a, b
  <2>4. FreeLimit <= b
    BY <1>0, <2>1, <2>2, <2>3
  <2> QED
    BY <2>4 DEF b
<1>2. ASSUME NEW t \in Tasks, stage[t] \in Asked, NEW p, p = Owner(t)'
      PROVE  p \in Peers /\ FreeLimit <= Cardinality(Counted(p)')
  <2>1. PICK q \in Peers : q = Owner(t)
    BY <1>2, Owned
  <2>2. q = p
    BY <1>2, <2>1, TasksKept
  <2>3. Cardinality(Counted(q)) >= FreeLimit
    <3>1. Cardinality(Counted(Owner(t))) >= FreeLimit
      BY <1>2 DEF NoEarlyGate
    <3> QED
      BY <2>1, <3>1
  <2>4. Cardinality(Counted(q)) \in Nat
    BY CountedGrows
  <2>5. FreeLimit <= Cardinality(Counted(q))
    <3> DEFINE a == Cardinality(Counted(q))
    <3>1. a >= FreeLimit /\ a \in Nat
      BY <2>3, <2>4
    <3> HIDE DEF a
    <3>2. FreeLimit <= a
      BY <1>0, <3>1
    <3> QED
      BY <3>2 DEF a
  <2> QED
    BY <1>1, <2>1, <2>2, <2>5
<1>3. SUFFICES ASSUME NEW t \in Tasks, stage'[t] \in Asked, NEW p, p = Owner(t)'
               PROVE  p \in Peers /\ FreeLimit <= Cardinality(Counted(p)')
  <2>1. ASSUME NEW t \in Tasks, stage'[t] \in Asked
        PROVE  Cardinality(Counted(Owner(t))') >= FreeLimit
    <3>1. PICK p : p = Owner(t)'
      OBVIOUS
    <3>2. p \in Peers /\ FreeLimit <= Cardinality(Counted(p)') /\ Cardinality(Counted(p)') \in Nat
      BY <1>3, <2>1, <3>1, CountedGrows
    <3>3. Counted(Owner(t))' = Counted(p)'
      BY <3>1 DEF Counted
    <3> DEFINE a == Cardinality(Counted(p)')
    <3>4. FreeLimit <= a /\ a \in Nat /\ Cardinality(Counted(Owner(t))') = a
      BY <3>2, <3>3
    <3> HIDE DEF a
    <3>5. a >= FreeLimit
      BY <1>0, <3>4
    <3> QED
      BY <3>4, <3>5
  <2> QED
    BY <2>1 DEF NoEarlyGate
<1>4. CASE Quiet
  BY <1>2, <1>3, <1>4 DEF Quiet
<1>5. ASSUME NEW q \in Peers, NEW u \in Tasks, Begins(q, u)
      PROVE  p \in Peers /\ FreeLimit <= Cardinality(Counted(p)')
  <2>1. CASE u = t
    <3>1. q = p /\ stage'[t] \in {"free", "token", "charge", "checking"}
          /\ (stage'[t] \in {"free", "charge"} <=> count[q] < FreeLimit)
      BY <1>3, <1>5, <2>1 DEF Begins, Moves
    <3>2. ~(count[q] < FreeLimit)
      BY <1>3, <3>1
    <3>3. FreeLimit <= count[q]
      BY <1>0, <3>2
    <3> QED
      BY <1>1, <3>1, <3>3
  <2>2. CASE u # t
    BY <1>2, <1>3, <1>5, <2>2 DEF Begins, Moves
  <2> QED
    BY <2>1, <2>2
<1>6. ASSUME NEW u \in Tasks, Goes(u)
      PROVE  p \in Peers /\ FreeLimit <= Cardinality(Counted(p)')
  <2>1. stage[t] \in Asked
    BY <1>3, <1>6 DEF Goes, Moves
  <2> QED
    BY <1>2, <1>3, <2>1
<1>7. ASSUME NEW u \in Tasks, BumpReads(u) \/ BumpWrites(u)
      PROVE  p \in Peers /\ FreeLimit <= Cardinality(Counted(p)')
  <2>1. stage' = [stage EXCEPT ![u] = "bump"] \/ stage' = [stage EXCEPT ![u] = "done"]
    BY <1>7 DEF BumpReads, BumpWrites
  <2>2. stage[t] \in Asked
    BY <1>3, <2>1 DEF MessageTypes
  <2> QED
    BY <1>2, <1>3, <2>2
<1>8. ASSUME NEW q \in Peers, Killed(q)
      PROVE  p \in Peers /\ FreeLimit <= Cardinality(Counted(p)')
  <2>1. stage'[t] = stage[t] \/ stage'[t] \in {"failed", "uncounted"}
    BY <1>3, <1>8, KilledTasks
  <2>2. stage[t] \in Asked
    BY <1>3, <2>1
  <2> QED
    BY <1>2, <1>3, <2>2
<1> QED
  BY <1>4, <1>5, <1>6, <1>7, <1>8, StepKinds

------------------------------------------------------------------------------
(* A peer whose handlers do not overlap *)

\* Nothing of p's comes to run or is counted.
Rests(p) ==
  /\ count'[p] = count[p] /\ paid \subseteq paid'
  /\ \A u \in Tasks : Owner(u)' = p /\ stage'[u] \in Running \cup {"done"}
       => Owner(u) = p /\ stage[u] = stage'[u] /\ (stage[u] = "bump" => snap'[u] = snap[u])

\* The only task p runs is t, which may have begun with this step.
RunsOnly(p, t) ==
  /\ count'[p] = count[p] /\ paid \subseteq paid'
  /\ Owner(t)' = p /\ stage'[t] \in Running
  /\ stage'[t] = "bump" => snap'[t] = count[p]
  /\ stage'[t] \in {"free", "charge", "bump"} /\ t[1] \notin paid' => count[p] < FreeLimit
  /\ \A u \in Tasks \ {t} : Owner(u)' = p
       => stage'[u] \notin Running /\ (stage'[u] = "done" => stage[u] = "done" /\ Owner(u) = p)

\* A step of the other peer, or one that ends a handler, disturbs nothing.
LEMMA SerialAtRest ==
  ASSUME MessageTypes, \A m \in Msgs : MessageInOrder(m), \A p \in Peers : OnItsWay(p), [Next]_vars,
         NEW p \in Peers, Serial(p), Rests(p)
  PROVE  Serial(p)'
<1>1. Counted(p)' = Counted(p)
  <2>1. Counted(p) \subseteq Counted(p)'
    BY CountedGrows
  <2>2. Counted(p)' \subseteq Counted(p)
    BY DEF Rests, Counted
  <2> QED
    BY <2>1, <2>2
<1>2. Cardinality(LetThrough(p)') <= FreeLimit
  <2> DEFINE A == LetThrough(p)'
             B == LetThrough(p)
  <2>1. A \subseteq B
    BY DEF Rests, LetThrough, Running
  <2>2. A \in SUBSET Tasks /\ B \in SUBSET Tasks
    BY DEF LetThrough
  <2>3. Cardinality(B) <= FreeLimit /\ FreeLimit \in Nat
    BY FreemiumAssumption DEF Serial, FreemiumAssumption
  <2> HIDE DEF A, B
  <2>4. Cardinality(A) <= Cardinality(B) /\ Cardinality(A) \in Nat /\ Cardinality(B) \in Nat
    BY <2>1, <2>2, TaskNumbers
  <2>5. Cardinality(A) <= FreeLimit
    BY <2>3, <2>4
  <2> QED
    BY <2>5 DEF A
<1>3. \A t, u \in Tasks : Owner(t)' = p /\ Owner(u)' = p /\ stage'[t] \in Running /\ stage'[u] \in Running
        => t = u
  BY DEF Rests, Serial
<1>4. \A t \in Tasks : Owner(t)' = p /\ stage'[t] = "bump" => snap'[t] = count'[p]
  BY DEF Rests, Serial, Running
<1>5. \A t \in Tasks :
        Owner(t)' = p /\ stage'[t] \in {"free", "charge", "bump"} /\ t[1] \notin paid' => count'[p] < FreeLimit
  BY DEF Rests, Serial, Running
<1>6. count'[p] = Cardinality(Counted(p)')
  BY <1>1 DEF Rests, Serial
<1> QED
  BY <1>2, <1>3, <1>4, <1>5, <1>6 DEF Serial

\* A lone handler below the limit is the only one that may still count for free.
LEMMA SerialAtWork ==
  ASSUME MessageTypes, \A m \in Msgs : MessageInOrder(m), \A p \in Peers : OnItsWay(p), [Next]_vars,
         NEW p \in Peers, Serial(p), NEW t \in Tasks, RunsOnly(p, t)
  PROVE  Serial(p)'
<1>0. "done" \notin Running
  BY DEF Running
<1>1. Counted(p)' = Counted(p)
  <2>1. Counted(p) \subseteq Counted(p)'
    BY CountedGrows
  <2>2. Counted(p)' \subseteq Counted(p)
    BY <1>0 DEF RunsOnly, Counted
  <2> QED
    BY <2>1, <2>2
<1>2. Cardinality(LetThrough(p)') <= FreeLimit
  <2> DEFINE A == LetThrough(p)'
             B == LetThrough(p)
             C == Counted(p)
  <2>1. A \in SUBSET Tasks /\ B \in SUBSET Tasks /\ C \in SUBSET Tasks /\ t \notin C
    <3>1. t \notin Counted(p)'
      BY <1>0 DEF RunsOnly, Counted
    <3> QED
      BY <1>1, <3>1 DEF LetThrough, Counted
  <2>2. \A u \in A \ {t} : u \in B /\ u \in C
    BY DEF RunsOnly, LetThrough, Counted, Running
  <2>3. t \in A => count[p] < FreeLimit
    BY DEF RunsOnly, LetThrough, Running
  <2>4. Cardinality(B) <= FreeLimit /\ FreeLimit \in Nat /\ count[p] = Cardinality(C)
    BY FreemiumAssumption DEF Serial, FreemiumAssumption
  <2> HIDE DEF A, B, C
  <2>5. ASSUME t \in A PROVE Cardinality(A) <= FreeLimit
    <3>1. A \subseteq C \cup {t} /\ C \cup {t} \in SUBSET Tasks
      BY <2>1, <2>2
    <3>2. Cardinality(C \cup {t}) = Cardinality(C) + 1 /\ Cardinality(C) \in Nat
      BY <2>1, TaskNumbers
    <3>3. Cardinality(A) <= Cardinality(C \cup {t}) /\ Cardinality(A) \in Nat
      BY <2>1, <3>1, TaskNumbers
    <3> QED
      BY <2>3, <2>4, <2>5, <3>2, <3>3
  <2>6. ASSUME t \notin A PROVE Cardinality(A) <= FreeLimit
    <3>1. A \subseteq B
      BY <2>2, <2>6
    <3>2. Cardinality(A) <= Cardinality(B) /\ Cardinality(A) \in Nat /\ Cardinality(B) \in Nat
      BY <2>1, <3>1, TaskNumbers
    <3> QED
      BY <2>4, <3>2
  <2>7. Cardinality(A) <= FreeLimit
    BY <2>5, <2>6
  <2> QED
    BY <2>7 DEF A
<1>3. \A u \in Tasks : Owner(u)' = p /\ stage'[u] \in Running => u = t
  BY DEF RunsOnly
<1>4. \A u \in Tasks : Owner(u)' = p /\ stage'[u] = "bump" => snap'[u] = count'[p]
  BY <1>3 DEF RunsOnly, Running
<1>5. \A u \in Tasks :
        Owner(u)' = p /\ stage'[u] \in {"free", "charge", "bump"} /\ u[1] \notin paid' => count'[p] < FreeLimit
  BY <1>3 DEF RunsOnly, Running
<1>6. count'[p] = Cardinality(Counted(p)')
  BY <1>1 DEF RunsOnly, Serial
<1> QED
  BY <1>2, <1>3, <1>4, <1>5, <1>6 DEF Serial

\* The bump of a lone handler makes the counter exact again.
LEMMA SerialWhenCounted ==
  ASSUME MessageTypes, \A m \in Msgs : MessageInOrder(m), \A p \in Peers : OnItsWay(p), [Next]_vars,
         NEW p \in Peers, Serial(p), NEW t \in Tasks, Owner(t) = p, BumpWrites(t)
  PROVE  Serial(p)'
<1>0. /\ stage[t] = "bump" /\ from' = from /\ paid' = paid
      /\ count' = [count EXCEPT ![p] = snap[t] + 1] /\ stage' = [stage EXCEPT ![t] = "done"]
  BY DEF BumpWrites
<1>1. /\ \A u \in Tasks \ {t} : stage'[u] = stage[u]
      /\ stage'[t] = "done" /\ "done" \notin Running /\ "bump" \in Running
      /\ \A u \in Tasks : Owner(u)' = Owner(u)
  BY <1>0, OwnerSame DEF MessageTypes, Running
<1>2. \A u \in Tasks : Owner(u)' = p => stage'[u] \notin Running
  BY <1>0, <1>1 DEF Serial
<1>3. count'[p] = Cardinality(Counted(p)')
  <2> DEFINE A == Counted(p)
             B == Counted(p)'
  <2>1. A \in SUBSET Tasks /\ t \notin A
    BY <1>0 DEF Counted
  <2>2. B = A \cup {t}
    BY <1>1 DEF Counted
  <2>3. count'[p] = count[p] + 1 /\ count[p] = Cardinality(A)
    BY <1>0 DEF Serial, MessageTypes
  <2> HIDE DEF A, B
  <2>4. Cardinality(B) = Cardinality(A) + 1
    BY <2>1, <2>2, TaskNumbers
  <2>5. count'[p] = Cardinality(B)
    BY <2>3, <2>4
  <2> QED
    BY <2>5 DEF B
<1>4. Cardinality(LetThrough(p)') <= FreeLimit
  <2>1. LetThrough(p)' = LetThrough(p)
    BY <1>0, <1>1 DEF LetThrough
  <2> QED
    BY <2>1 DEF Serial
<1> QED
  BY <1>2, <1>3, <1>4 DEF Serial, Running

\* A peer keeps its count exact and its free messages capped while nothing overlaps.
LEMMA SerialNext ==
  ASSUME MessageTypes, \A m \in Msgs : MessageInOrder(m), \A p \in Peers : OnItsWay(p), [Next]_vars,
         \A p \in Peers \ overlapped : Serial(p)
  PROVE  \A p \in Peers \ overlapped' : Serial(p)'
<1> SUFFICES ASSUME NEW p \in Peers, p \notin overlapped' PROVE Serial(p)'
  OBVIOUS
<1>0. \A u \in Tasks : stage[u] # "none" => Owner(u)' = Owner(u)
  BY TasksKept
<1>1. {"free", "token", "paid", "checking", "charge", "bump"} = Running /\ "done" \notin Running
  BY DEF Running
<1>2. ASSUME NEW t \in Tasks, \A u \in Tasks \ {t} : stage'[u] = stage[u], Serial(p),
             Owner(t) = p, stage[t] \in Running
      PROVE  \A u \in Tasks \ {t} : Owner(u)' = p
               => stage'[u] \notin Running /\ (stage'[u] = "done" => stage[u] = "done" /\ Owner(u) = p)
  <2> SUFFICES ASSUME NEW u \in Tasks \ {t}, Owner(u)' = p
               PROVE  stage'[u] \notin Running /\ (stage'[u] = "done" => stage[u] = "done" /\ Owner(u) = p)
    OBVIOUS
  <2>1. stage[u] # "none" => Owner(u) = p
    BY <1>0
  <2>2. Owner(u) = p => stage[u] \notin Running
    BY <1>2 DEF Serial
  <2> QED
    BY <1>1, <1>2, <2>1, <2>2
<1>3. CASE Quiet
  <2>1. Rests(p)
    BY <1>3, OwnerSame DEF Quiet, Rests
  <2>2. Serial(p)
    BY <1>3 DEF Quiet
  <2> QED
    BY <2>1, <2>2, SerialAtRest
<1>4. ASSUME NEW q \in Peers, NEW t \in Tasks, Begins(q, t) PROVE Serial(p)'
  <2>1. Serial(p)
    BY <1>4 DEF Begins
  <2>2. CASE q # p
    <3>1. \A u \in Tasks : Owner(u)' = p => u # t /\ stage'[u] = stage[u]
      BY <1>4, <2>2 DEF Begins, Moves
    <3>2. Rests(p)
      BY <1>0, <1>1, <1>4, <3>1 DEF Rests, Begins
    <3> QED
      BY <2>1, <3>2, SerialAtRest
  <2>3. CASE q = p
    <3>1. /\ stage'[t] \in {"free", "token", "charge", "checking"}
          /\ stage'[t] \in {"free", "charge"} => count[p] < FreeLimit
          /\ Owner(t)' = p /\ count' = count /\ paid' = paid
          /\ \A u \in Tasks \ {t} : stage'[u] = stage[u]
          /\ \A u \in Tasks : Owner(u) = p => stage[u] \notin Running
      BY <1>4, <2>3 DEF Begins, Moves
    <3>2. \A u \in Tasks \ {t} : Owner(u)' = p
            => stage'[u] \notin Running /\ (stage'[u] = "done" => stage[u] = "done" /\ Owner(u) = p)
      BY <1>0, <1>1, <3>1
    <3>3. RunsOnly(p, t)
      BY <1>1, <3>1, <3>2 DEF RunsOnly
    <3> QED
      BY <2>1, <3>3, SerialAtWork
  <2> QED
    BY <2>2, <2>3
<1>5. ASSUME NEW t \in Tasks, Goes(t) PROVE Serial(p)'
  <2>1. /\ Serial(p) /\ \A u \in Tasks \ {t} : stage'[u] = stage[u]
        /\ paid \subseteq paid' /\ count' = count /\ snap' = snap
        /\ stage[t] \in Running /\ stage[t] # "none"
        /\ stage'[t] \in {"paid", "walled", "charge", "failed", "refused"}
        /\ stage'[t] = "charge" => stage[t] = "free" \/ t[1] \in paid'
    BY <1>1, <1>5 DEF Goes, Moves
  <2>2. \A u : Owner(u)' = Owner(u)
    BY <1>5, OwnerSame DEF Goes
  <2>3. CASE Owner(t) # p \/ stage'[t] \notin Running
    <3>1. Rests(p)
      BY <2>1, <2>2, <2>3 DEF Rests
    <3> QED
      BY <2>1, <3>1, SerialAtRest
  <2>4. CASE Owner(t) = p /\ stage'[t] \in Running
    <3>1. \A u \in Tasks \ {t} : Owner(u)' = p
            => stage'[u] \notin Running /\ (stage'[u] = "done" => stage[u] = "done" /\ Owner(u) = p)
      BY <1>2, <2>1, <2>4
    <3>2. stage[t] = "free" /\ t[1] \notin paid => count[p] < FreeLimit
      BY <2>1, <2>4 DEF Serial
    <3>3. Owner(t)' = p
      BY <2>2, <2>4
    <3>4. RunsOnly(p, t)
      BY <2>1, <2>4, <3>1, <3>2, <3>3 DEF RunsOnly
    <3> QED
      BY <2>1, <3>4, SerialAtWork
  <2> QED
    BY <2>3, <2>4
<1>6. ASSUME NEW t \in Tasks, BumpReads(t) \/ BumpWrites(t) PROVE Serial(p)'
  <2>1. PICK o \in Peers : o = Owner(t)
    BY <1>6, Owned DEF BumpReads, BumpWrites
  <2>2. /\ from' = from /\ paid' = paid /\ overlapped' = overlapped /\ stage[t] \in {"charge", "bump"}
        /\ \E s : stage' = [stage EXCEPT ![t] = s]
        /\ \E n : snap' = [snap EXCEPT ![t] = n]
        /\ count' = count \/ \E n : count' = [count EXCEPT ![o] = n]
    BY <1>6, <2>1 DEF BumpReads, BumpWrites
  <2>3. /\ Serial(p) /\ stage[t] \in Running
        /\ \A u \in Tasks \ {t} : stage'[u] = stage[u] /\ snap'[u] = snap[u]
        /\ o # p => count'[p] = count[p]
    BY <1>1, <2>2 DEF MessageTypes
  <2>4. \A u : Owner(u)' = Owner(u)
    BY <2>2, OwnerSame
  <2>5. CASE o # p
    <3>1. \A u \in Tasks : Owner(u)' = p => u # t
      BY <2>1, <2>4, <2>5
    <3>2. Rests(p)
      BY <2>2, <2>3, <2>4, <2>5, <3>1 DEF Rests
    <3> QED
      BY <2>3, <3>2, SerialAtRest
  <2>6. CASE o = p /\ BumpReads(t)
    <3>1. /\ stage[t] = "charge" /\ count' = count
          /\ snap' = [snap EXCEPT ![t] = count[p]] /\ stage' = [stage EXCEPT ![t] = "bump"]
      BY <2>1, <2>6 DEF BumpReads
    <3>2. stage'[t] = "bump" /\ snap'[t] = count[p]
      BY <3>1 DEF MessageTypes
    <3>3. \A u \in Tasks \ {t} : Owner(u)' = p
            => stage'[u] \notin Running /\ (stage'[u] = "done" => stage[u] = "done" /\ Owner(u) = p)
      BY <1>2, <2>1, <2>3, <2>6
    <3>4. t[1] \notin paid => count[p] < FreeLimit
      BY <2>1, <2>3, <2>6, <3>1 DEF Serial
    <3>5. Owner(t)' = p
      BY <2>1, <2>4, <2>6
    <3>6. RunsOnly(p, t)
      BY <1>1, <2>2, <3>1, <3>2, <3>3, <3>4, <3>5 DEF RunsOnly
    <3> QED
      BY <2>3, <3>6, SerialAtWork
  <2>7. CASE o = p /\ BumpWrites(t)
    BY <2>1, <2>3, <2>7, SerialWhenCounted
  <2> QED
    BY <1>6, <2>5, <2>6, <2>7
<1>7. ASSUME NEW q \in Peers, Killed(q) PROVE Serial(p)'
  <2>1. Serial(p) /\ from' = from /\ paid' = paid /\ count' = count
    BY <1>7 DEF Killed
  <2>2. \A u \in Tasks : stage'[u] \in Running \cup {"done"}
          => stage'[u] = stage[u] /\ (stage[u] \in Running => snap'[u] = snap[u])
    BY <1>1, <1>7, KilledTasks DEF Running
  <2>3. Rests(p)
    BY <1>1, <2>1, <2>2, OwnerSame DEF Rests
  <2> QED
    BY <2>1, <2>3, SerialAtRest
<1> QED
  BY <1>3, <1>4, <1>5, <1>6, <1>7, StepKinds

\* Only a kill leaves a message uncounted, and a peer whose tasks do not overlap has
\* no more than one for it to leave.
LEMMA UncountedNext ==
  ASSUME MessageTypes, \A m \in Msgs : MessageInOrder(m), \A p \in Peers : OnItsWay(p), [Next]_vars,
         NEW p \in Peers, Serial(p), Cardinality(Uncounted(p)) <= kills[p]
  PROVE  Cardinality(Uncounted(p)') <= kills'[p]
<1> DEFINE A == Uncounted(p)
           B == Uncounted(p)'
<1>0. /\ A \in SUBSET Tasks /\ B \in SUBSET Tasks /\ A = Uncounted(p) /\ B = Uncounted(p)'
      /\ Cardinality(A) <= kills[p] /\ kills[p] \in Nat
  BY FreemiumAssumption DEF Uncounted, MessageTypes, FreemiumAssumption
<1>1. \A u \in Tasks : u \in A <=> Owner(u) = p /\ stage[u] = "uncounted"
  BY DEF Uncounted
<1>2. \A u \in Tasks : u \in B <=> Owner(u)' = p /\ stage'[u] = "uncounted"
  BY DEF Uncounted
<1>3. \A u \in Tasks : stage[u] # "none" => Owner(u)' = Owner(u)
  BY TasksKept
<1> HIDE DEF A, B
<1>4. ASSUME B \subseteq A, kills'[p] = kills[p] PROVE Cardinality(B) <= kills'[p]
  <2>1. Cardinality(B) <= Cardinality(A) /\ Cardinality(A) \in Nat /\ Cardinality(B) \in Nat
    BY <1>0, <1>4, TaskNumbers
  <2> QED
    BY <1>0, <1>4, <2>1
<1>5. ASSUME NEW t \in Tasks, B \subseteq A \cup {t}, kills'[p] = kills[p] + 1
      PROVE  Cardinality(B) <= kills'[p]
  <2>1. A \cup {t} \in SUBSET Tasks
    BY <1>0
  <2>2. Cardinality(A \cup {t}) <= Cardinality(A) + 1 /\ Cardinality(A) \in Nat
    <3>1. Cardinality(A) \in Nat /\ (t \notin A => Cardinality(A \cup {t}) = Cardinality(A) + 1)
      BY <1>0, TaskNumbers
    <3>2. CASE t \in A
      <4>1. A \cup {t} = A
        BY <3>2
      <4> QED
        BY <3>1, <4>1
    <3> QED
      BY <3>1, <3>2
  <2>3. Cardinality(B) <= Cardinality(A \cup {t}) /\ Cardinality(B) \in Nat
        /\ Cardinality(A \cup {t}) \in Nat
    BY <1>0, <1>5, <2>1, TaskNumbers
  <2> QED
    BY <1>0, <1>5, <2>2, <2>3
<1>6. ASSUME \A u \in Tasks : stage'[u] = "uncounted" => stage[u] = "uncounted"
      PROVE  B \subseteq A
  BY <1>0, <1>1, <1>2, <1>3, <1>6
<1>7. CASE Quiet
  BY <1>4, <1>6, <1>7, <1>0 DEF Quiet
<1>8. ASSUME NEW q \in Peers, NEW t \in Tasks, Begins(q, t) PROVE Cardinality(B) <= kills'[p]
  BY <1>4, <1>6, <1>8 DEF Begins, Moves
<1>9. ASSUME NEW t \in Tasks, Goes(t) PROVE Cardinality(B) <= kills'[p]
  BY <1>4, <1>6, <1>9 DEF Goes, Moves
<1>10. ASSUME NEW t \in Tasks, BumpReads(t) \/ BumpWrites(t) PROVE Cardinality(B) <= kills'[p]
  <2>1. kills' = kills /\ \E s \in {"bump", "done"} : stage' = [stage EXCEPT ![t] = s]
    BY <1>10 DEF BumpReads, BumpWrites
  <2>2. \A u \in Tasks : stage'[u] = "uncounted" => stage[u] = "uncounted"
    BY <2>1 DEF MessageTypes
  <2> QED
    BY <1>4, <1>6, <2>1, <2>2
<1>11. ASSUME NEW q \in Peers, Killed(q) PROVE Cardinality(B) <= kills'[p]
  <2>0. /\ kills' = IF Busy(q) > 0 THEN [kills EXCEPT ![q] = @ + 1] ELSE kills
        /\ DOMAIN kills = Peers
    BY <1>11 DEF Killed, MessageTypes
  <2>1. CASE \A u \in Tasks : Owner(u) = p => stage[u] \notin Running
    <3>1. \A u \in Tasks : u \in B => Owner(u) = p /\ (stage'[u] = stage[u] \/ Owner(u) = q)
      <4>1. \A u \in Tasks : stage'[u] = "uncounted" => stage[u] # "none"
        BY <1>11, KilledTasks
      <4> QED
        BY <1>2, <1>3, <1>11, <4>1, KilledTasks
    <3>2. B \subseteq A
      BY <1>0, <1>1, <1>2, <1>11, <2>1, <3>1, KilledTasks
    <3>3. kills'[p] = kills[p] \/ kills'[p] = kills[p] + 1
      BY <2>0
    <3>4. CASE kills'[p] = kills[p]
      BY <1>4, <3>2, <3>4
    <3>5. CASE kills'[p] = kills[p] + 1
      <4>1. Cardinality(B) <= Cardinality(A) /\ Cardinality(A) \in Nat /\ Cardinality(B) \in Nat
        BY <1>0, <3>2, TaskNumbers
      <4> QED
        BY <1>0, <3>5, <4>1
    <3> QED
      BY <3>3, <3>4, <3>5
  <2>2. ASSUME NEW t \in Tasks, Owner(t) = p, stage[t] \in Running PROVE Cardinality(B) <= kills'[p]
    <3>1. CASE q = p
      <4>1. kills'[p] = kills[p] + 1
        BY <2>0, <2>2, <3>1, Idle
      <4>2. \A u \in Tasks : Owner(u) = p /\ stage[u] \in Running => u = t
        BY <2>2 DEF Serial
      <4>3. B \subseteq A \cup {t}
        <5>1. \A u \in B : u \in Tasks /\ stage'[u] = "uncounted" /\ Owner(u)' = p
          BY <1>0, <1>2
        <5>2. \A u \in B : stage[u] \in Running \cup {"uncounted"}
          BY <1>11, <5>1, KilledTasks DEF Running
        <5>3. \A u \in B : Owner(u) = p
          BY <1>3, <5>1, <5>2 DEF Running
        <5> QED
          BY <1>1, <4>2, <5>1, <5>2, <5>3
      <4> QED
        BY <1>5, <4>1, <4>3
    <3>2. CASE q # p
      <4>1. kills'[p] = kills[p]
        BY <2>0, <3>2
      <4>2. B \subseteq A
        <5>1. \A u \in B : u \in Tasks /\ stage'[u] = "uncounted" /\ Owner(u)' = p
          BY <1>0, <1>2
        <5>2. \A u \in B : stage[u] # "none"
          BY <1>11, <5>1, KilledTasks
        <5>3. \A u \in B : Owner(u) = p /\ stage'[u] = stage[u]
          BY <1>3, <1>11, <3>2, <5>1, <5>2, KilledTasks
        <5> QED
          BY <1>1, <5>1, <5>3
      <4> QED
        BY <1>4, <4>1, <4>2
    <3> QED
      BY <3>1, <3>2
  <2> QED
    BY <2>1, <2>2
<1>12. Cardinality(B) <= kills'[p]
  BY <1>7, <1>8, <1>9, <1>10, <1>11, <1>0, StepKinds
<1> QED
  BY <1>12 DEF B

\* A step forgets no peer whose tasks have overlapped.
LEMMA OverlapStays == [Next]_vars => overlapped \subseteq overlapped'
BY DEF Next, Steps, vars, Send, ReadsToken, Transmit, TransmitFails, Verifies, BumpReads, BumpWrites,
   Arrives, GateArrives, Subscribe, Expire, Killed, ChannelCloses, Reopens

------------------------------------------------------------------------------
(* The theorems *)

\* Nothing has been sent, counted or refused at the start.
LEMMA InitLimitInv == Init => LimitInv
<1> SUFFICES ASSUME Init PROVE LimitInv
  OBVIOUS
<1>1. MessageTypes
  <2>1. /\ count = [p \in Peers |-> 0] /\ token = [p \in Peers |-> p \in Subscribers]
        /\ paywall = [p \in Peers |-> FALSE] /\ up = TRUE /\ chan = [p \in Peers |-> <<>>]
        /\ from = [m \in Msgs |-> NoPeer] /\ paid = {} /\ stage = [t \in Tasks |-> "none"]
        /\ snap = [t \in Tasks |-> 0] /\ overlapped = {} /\ stale = {}
        /\ kills = [p \in Peers |-> 0]
    BY DEF Init
  <2>2. chan \in [Peers -> Seq(Msgs \cup {Gate})]
    BY <2>1
  <2>3. token \in [Peers -> BOOLEAN]
    BY <2>1
  <2>4. stage \in [Tasks -> Stages]
    BY <2>1 DEF Stages
  <2>5. from \in [Msgs -> Peers \cup {NoPeer}]
    BY <2>1
  <2>6. count \in [Peers -> Nat] /\ snap \in [Tasks -> Nat] /\ paywall \in [Peers -> BOOLEAN]
    BY <2>1
  <2>7. kills \in [Peers -> 0..MaxKills]
    <3>1. 0 \in 0..MaxKills
      BY FreemiumAssumption DEF FreemiumAssumption
    <3> QED
      BY <2>1, <3>1
  <2> QED
    BY <2>1, <2>2, <2>3, <2>4, <2>5, <2>6, <2>7 DEF MessageTypes
<1>2. \A t \in Tasks : stage[t] = "none" /\ snap[t] = 0
  BY DEF Init
<1>3. \A m \in Msgs : MessageInOrder(m)
  BY <1>2, TheTasks DEF MessageInOrder
<1>4. \A p \in Peers : OnItsWay(p)
  <2>1. \A p \in Peers : chan[p] = <<>>
    BY DEF Init
  <2> QED
    BY <2>1, NothingCarried DEF OnItsWay
<1>5. \A p \in Peers : /\ Cardinality(Counted(p)) = 0 /\ Cardinality(LetThrough(p)) = 0
                       /\ Cardinality(Uncounted(p)) = 0 /\ count[p] = 0 /\ kills[p] = 0
  <2>1. \A p \in Peers : /\ Counted(p) = {} /\ LetThrough(p) = {} /\ Uncounted(p) = {}
                         /\ count[p] = 0 /\ kills[p] = 0
    BY <1>2 DEF Counted, LetThrough, Uncounted, Init
  <2>2. Cardinality({}) = 0
    BY FS_EmptySet
  <2> QED
    BY <2>1, <2>2
<1>6. Counting
  <2>1. CounterNeverOverstates
    BY <1>5 DEF CounterNeverOverstates
  <2> QED
    BY <1>2, <2>1 DEF Counting
<1>7. NoEarlyGate
  BY <1>2 DEF NoEarlyGate
<1>8. 0 <= FreeLimit
  BY FreemiumAssumption DEF FreemiumAssumption
<1>9. \A p \in Peers : Serial(p)
  BY <1>2, <1>5, <1>8 DEF Serial, Running
<1>10. \A p \in Peers : Cardinality(Uncounted(p)) <= kills[p]
  BY <1>5
<1> QED
  BY <1>1, <1>3, <1>4, <1>6, <1>7, <1>9, <1>10 DEF LimitInv

\* Every step of either peer, of the channel or of a kill keeps the invariant.
LEMMA NextLimitInv == LimitInv /\ [Next]_vars => LimitInv'
<1> SUFFICES ASSUME LimitInv, [Next]_vars PROVE LimitInv'
  OBVIOUS
<1>0. /\ MessageTypes /\ \A m \in Msgs : MessageInOrder(m)
      /\ \A p \in Peers : OnItsWay(p)
      /\ Counting /\ NoEarlyGate
      /\ \A p \in Peers \ overlapped : Serial(p) /\ Cardinality(Uncounted(p)) <= kills[p]
  BY DEF LimitInv
<1>1. MessageTypes'
  BY <1>0, TypesNext
<1>2. \A m \in Msgs : MessageInOrder(m)'
  BY <1>0, OrderNext
<1>3. \A p \in Peers : OnItsWay(p)'
  BY <1>0, WayNext
<1>4. Counting'
  BY <1>0, CountingNext
<1>5. NoEarlyGate'
  BY <1>0, GateNext
<1>6. \A p \in Peers \ overlapped' : Serial(p)'
  BY <1>0, SerialNext
<1>7. \A p \in Peers \ overlapped' : Cardinality(Uncounted(p)') <= kills'[p]
  <2>1. \A p \in Peers \ overlapped' : p \in Peers \ overlapped
    BY OverlapStays
  <2> QED
    BY <1>0, <2>1, UncountedNext
<1> QED
  BY <1>1, <1>2, <1>3, <1>4, <1>5, <1>6, <1>7 DEF LimitInv

\* The invariant holds of every behaviour.
LEMMA SpecLimitInv == Spec => []LimitInv
BY InitLimitInv, NextLimitInv, PTL DEF Spec

\* A handler is always between two of its awaits, and a counter, or what a handler has
\* read of it, never exceeds what two peers can count.
THEOREM GatesTypeCorrect == Spec => []TypeOK
<1>1. LimitInv => TypeOK
  <2> SUFFICES ASSUME LimitInv PROVE TypeOK
    OBVIOUS
  <2> DEFINE top == 2 * Cardinality(Msgs)
  <2>1. top \in Nat /\ \A p \in Peers : Cardinality(Counted(p)) \in Nat /\ Cardinality(Counted(p)) <= top
    BY FiniteTasks, TaskSets
  <2>2. /\ MessageTypes /\ Counting /\ CounterNeverOverstates
        /\ \A m \in Msgs : MessageInOrder(m)
    BY DEF LimitInv, Counting
  <2> HIDE DEF top
  <2>3. \A p \in Peers : count[p] \in 0..top
    <3> SUFFICES ASSUME NEW p \in Peers PROVE count[p] \in 0..top
      OBVIOUS
    <3> DEFINE a == Cardinality(Counted(p))
    <3>1. count[p] \in Nat /\ count[p] <= a /\ a \in Nat /\ a <= top
      BY <2>1, <2>2 DEF MessageTypes, CounterNeverOverstates
    <3> HIDE DEF a
    <3> QED
      BY <2>1, <3>1
  <2>4. \A t \in Tasks : snap[t] \in 0..top
    <3> SUFFICES ASSUME NEW t \in Tasks PROVE snap[t] \in 0..top
      OBVIOUS
    <3>1. CASE stage[t] # "bump"
      BY <2>1, <2>2, <3>1 DEF Counting
    <3>2. CASE stage[t] = "bump"
      <4>1. PICK p \in Peers : p = Owner(t)
        BY <2>2, <3>2, Owned
      <4> DEFINE a == Cardinality(Counted(p))
      <4>2. snap[t] \in Nat /\ snap[t] <= a /\ a \in Nat /\ a <= top
        BY <2>1, <2>2, <3>2, <4>1 DEF Counting, MessageTypes
      <4> HIDE DEF a
      <4> QED
        BY <2>1, <4>2
    <3> QED
      BY <3>1, <3>2
  <2>5. count \in [Peers -> 0..top] /\ snap \in [Tasks -> 0..top]
    BY <2>2, <2>3, <2>4 DEF MessageTypes
  <2> QED
    BY <2>2, <2>5 DEF MessageTypes, TypeOK, top
<1> QED
  BY <1>1, SpecLimitInv, PTL

\* Whatever bumps overlap, and whoever is killed between the read and the write of one,
\* a peer's counter never exceeds the messages it has sent or rendered.
THEOREM CountersNeverOverstate == Spec => []CounterNeverOverstates
<1>1. LimitInv => CounterNeverOverstates
  BY DEF LimitInv, Counting
<1> QED
  BY <1>1, SpecLimitInv, PTL

\* For any limit, any number of messages and any overlap of handlers, nobody is asked
\* for a token, or refused, before the limit's worth of messages went through at that
\* peer.
THEOREM NobodyGatedEarly == Spec => []NoEarlyGate
<1>1. LimitInv => NoEarlyGate
  BY DEF LimitInv
<1> QED
  BY <1>1, SpecLimitInv, PTL

\* A peer that handles one message at a time lets no more than the limit through without
\* a token, over any number of calls, plus one for each kill that fell into a handler:
\* what it let through is either counted, by a count that is exact, or was lost to a kill.
THEOREM SerialPeersCapFreeMessages == Spec => []FreeMessagesCappedSerially
<1>1. ASSUME LimitInv, NEW p \in Peers \ overlapped
      PROVE  Cardinality(FreeTasks(p)) <= FreeLimit + kills[p]
  <2> DEFINE A == LetThrough(p)
             B == Uncounted(p)
             F == FreeTasks(p)
  <2>1. F \subseteq A \cup B /\ A \in SUBSET Tasks /\ B \in SUBSET Tasks /\ F \in SUBSET Tasks
    BY DEF FreeTasks, LetThrough, Uncounted
  <2>2. /\ Cardinality(A) <= FreeLimit /\ Cardinality(B) <= kills[p]
        /\ kills[p] \in Nat /\ FreeLimit \in Nat
    BY <1>1, FreemiumAssumption DEF LimitInv, Serial, MessageTypes, FreemiumAssumption
  <2> HIDE DEF A, B, F
  <2>3. IsFiniteSet(A) /\ IsFiniteSet(B) /\ A \cap B \in SUBSET Tasks
        /\ A \cup B \in SUBSET Tasks
    BY <2>1, FiniteTasks
  <2>4. Cardinality(A \cup B) = Cardinality(A) + Cardinality(B) - Cardinality(A \cap B)
    BY <2>3, FS_Union
  <2>5. /\ Cardinality(A) \in Nat /\ Cardinality(B) \in Nat /\ Cardinality(F) \in Nat
        /\ Cardinality(A \cap B) \in Nat /\ Cardinality(A \cup B) \in Nat
    BY <2>1, <2>3, FiniteTasks
  <2>6. Cardinality(F) <= Cardinality(A \cup B)
    BY <2>1, <2>3, TaskNumbers
  <2>7. Cardinality(F) <= FreeLimit + kills[p]
    BY <2>2, <2>4, <2>5, <2>6
  <2> QED
    BY <2>7 DEF F
<1>2. LimitInv => FreeMessagesCappedSerially
  BY <1>1 DEF FreeMessagesCappedSerially
<1> QED
  BY <1>2, SpecLimitInv, PTL

------------------------------------------------------------------------------
(* The life of the texts that passed *)

\* Between two runs of the sweeper every bubble is within its deadline or has just
\* appeared; when a run is due, it has been so for one period at most.
Fresh ==
  \A t \in Shown :
    IF due THEN now <= expiresAt[t] + 1 \/ now <= shownAt[t] + 1
           ELSE now <= expiresAt[t] \/ now <= shownAt[t]

\* The deadline of a text is no further off than the TTL and the writer's clock.
DeadlineNear ==
  \A t \in Texts :
    /\ text[t] \in {"asking", "counting"} => expiresAt[t] <= now + TextTtl + MaxSkew
    /\ text[t] = "shown" => expiresAt[t] <= shownAt[t] + TextTtl + MaxSkew

\* A handler that waits behind the lock was waiting when the gate locked.
WaitingIsKnown ==
  locked => {t \in Texts : text[t] \in {"asking", "counting"}} \subseteq underWay

LifeInv == TextTypeOK /\ Fresh /\ DeadlineNear /\ WaitingIsKnown /\ OnlyWaitingTextsAppear

\* Nothing is on the screen at the start.
LEMMA InitLifeInv == TextInit => LifeInv
<1> SUFFICES ASSUME TextInit PROVE LifeInv
  OBVIOUS
<1>1. Shown = {}
  BY DEF TextInit, Shown
<1>0. DeadlineNear
  BY DEF TextInit, DeadlineNear
<1>2. 0 \in 0..MaxNow
  BY TextAssumption
<1>3. text \in [Texts -> {"none", "asking", "counting", "refused", "shown", "gone"}]
  BY DEF TextInit
<1>4. expiresAt \in [Texts -> Int]
  BY DEF TextInit
<1>5. shownAt \in [Texts -> 0..MaxNow]
  BY <1>2 DEF TextInit
<1>6. TextTypeOK
  BY <1>1, <1>2, <1>3, <1>4, <1>5 DEF TextInit, TextTypeOK
<1> QED
  BY <1>0, <1>1, <1>6 DEF TextInit, LifeInv, Fresh, WaitingIsKnown, OnlyWaitingTextsAppear

\* Every step keeps the invariant: a bubble that appears is fresh and sets the
\* sweeper, and what the sweeper leaves is within its deadline.
LEMMA NextLifeInv == LifeInv /\ [TextNext]_textVars => LifeInv'
<1> SUFFICES ASSUME LifeInv, [TextNext]_textVars PROVE LifeInv'
  OBVIOUS
<1> USE TextAssumption DEF LifeInv, TextTypeOK
<1>0. DeadlineNear'
  <2> SUFFICES ASSUME NEW t \in Texts
               PROVE  /\ text'[t] \in {"asking", "counting"} => expiresAt'[t] <= now' + TextTtl + MaxSkew
                      /\ text'[t] = "shown" => expiresAt'[t] <= shownAt'[t] + TextTtl + MaxSkew
    BY DEF DeadlineNear
  <2>0. /\ text[t] \in {"asking", "counting"} => expiresAt[t] <= now + TextTtl + MaxSkew
        /\ text[t] = "shown" => expiresAt[t] <= shownAt[t] + TextTtl + MaxSkew
    BY DEF DeadlineNear
  <2>1. ASSUME NEW u \in Texts, TextStarts(u)
        PROVE  /\ text'[t] \in {"asking", "counting"} => expiresAt'[t] <= now' + TextTtl + MaxSkew
               /\ text'[t] = "shown" => expiresAt'[t] <= shownAt'[t] + TextTtl + MaxSkew
    BY <2>0, <2>1 DEF TextStarts
  <2>2. ASSUME NEW u \in Texts, TextAnswered(u) \/ TextShown(u)
        PROVE  /\ text'[t] \in {"asking", "counting"} => expiresAt'[t] <= now' + TextTtl + MaxSkew
               /\ text'[t] = "shown" => expiresAt'[t] <= shownAt'[t] + TextTtl + MaxSkew
    BY <2>0, <2>2 DEF TextAnswered, TextShown
  <2>3. CASE Tick
    BY <2>0, <2>3 DEF Tick
  <2>4. CASE Sweep \/ Lock \/ Unlock
    BY <2>0, <2>4 DEF Sweep, Lock, Unlock
  <2>5. CASE UNCHANGED textVars
    BY <2>0, <2>5 DEF textVars
  <2> QED
    BY <2>1, <2>2, <2>3, <2>4, <2>5 DEF TextNext
<1>1. ASSUME NEW t \in Texts, TextStarts(t) PROVE LifeInv'
  <2>1. Shown' = Shown
    BY <1>1 DEF TextStarts, Shown
  <2>2. expiresAt' \in [Texts -> Int]
    BY <1>1 DEF TextStarts
  <2>3. text' \in [Texts -> {"none", "asking", "counting", "refused", "shown", "gone"}]
    BY <1>1 DEF TextStarts
  <2>4. \A s \in Shown : expiresAt'[s] = expiresAt[s]
    BY <1>1 DEF TextStarts, Shown
  <2>5. Fresh'
    BY <1>1, <2>1, <2>4 DEF TextStarts, Fresh
  <2> QED
    BY <1>0, <1>1, <2>1, <2>2, <2>3, <2>5 DEF TextStarts, WaitingIsKnown, OnlyWaitingTextsAppear
<1>2. ASSUME NEW t \in Texts, TextAnswered(t) PROVE LifeInv'
  <2>1. Shown' = Shown
    BY <1>2 DEF TextAnswered, Shown
  <2>2. text' \in [Texts -> {"none", "asking", "counting", "refused", "shown", "gone"}]
    BY <1>2 DEF TextAnswered
  <2> QED
    BY <1>0, <1>2, <2>1, <2>2 DEF TextAnswered, Fresh, WaitingIsKnown, OnlyWaitingTextsAppear
<1>3. ASSUME NEW t \in Texts, TextShown(t) PROVE LifeInv'
  <2>1. Shown' = Shown \cup {t}
    BY <1>3 DEF TextShown, Shown
  <2>2. /\ text' \in [Texts -> {"none", "asking", "counting", "refused", "shown", "gone"}]
        /\ shownAt' \in [Texts -> 0..MaxNow]
    BY <1>3 DEF TextShown
  <2>3. Fresh'
    BY <1>3, <2>1 DEF TextShown, Fresh
  <2>4. WaitingIsKnown' /\ OnlyWaitingTextsAppear'
    BY <1>3, <2>1 DEF TextShown, WaitingIsKnown, OnlyWaitingTextsAppear
  <2> QED
    BY <1>0, <1>3, <2>2, <2>3, <2>4 DEF TextShown
<1>4. CASE Tick
  <2>1. Shown' = Shown
    BY <1>4 DEF Tick, Shown
  <2>2. Fresh'
    BY <1>4, <2>1 DEF Tick, Fresh, Shown
  <2> QED
    BY <1>0, <1>4, <2>1, <2>2 DEF Tick, WaitingIsKnown, OnlyWaitingTextsAppear
<1>5. CASE Sweep
  <2>1. Shown' = Shown \ Expired
    BY <1>5 DEF Sweep, Shown, Expired
  <2>2. text' \in [Texts -> {"none", "asking", "counting", "refused", "shown", "gone"}]
    BY <1>5 DEF Sweep
  <2>3. Fresh'
    BY <1>5, <2>1 DEF Sweep, Fresh, Shown, Expired
  <2>4. Expired \subseteq Shown
    BY DEF Expired
  <2>5. Shown' # {} => sweeper'
    BY <1>5, <2>1, <2>4 DEF Sweep
  <2> QED
    BY <1>0, <1>5, <2>1, <2>2, <2>3, <2>5 DEF Sweep, WaitingIsKnown, OnlyWaitingTextsAppear
<1>6. CASE Lock
  <2>1. Shown' = {}
    BY <1>6 DEF Lock, Shown
  <2>2. text' \in [Texts -> {"none", "asking", "counting", "refused", "shown", "gone"}]
    BY <1>6 DEF Lock
  <2> QED
    BY <1>0, <1>6, <2>1, <2>2 DEF Lock, Fresh, WaitingIsKnown, OnlyWaitingTextsAppear
<1>7. CASE Unlock
  BY <1>0, <1>7 DEF Unlock, Shown, Fresh, WaitingIsKnown, OnlyWaitingTextsAppear
<1>8. CASE UNCHANGED textVars
  BY <1>0, <1>8 DEF textVars, Shown, Fresh, WaitingIsKnown, OnlyWaitingTextsAppear
<1> QED
  BY <1>1, <1>2, <1>3, <1>4, <1>5, <1>6, <1>7, <1>8 DEF TextNext

\* The invariant holds of every behaviour.
LEMMA SpecLifeInv == TextSpec => []LifeInv
BY InitLifeInv, NextLifeInv, PTL DEF TextSpec

\* A text is at one place of its life, and whenever one is on the screen the sweeper
\* is set: no order of sweeps, locks and late handlers leaves a bubble with nobody
\* to remove it.
THEOREM TextsTypeCorrect == TextSpec => []TextTypeOK
<1>1. LifeInv => TextTypeOK
  BY DEF LifeInv
<1> QED
  BY <1>1, SpecLifeInv, PTL

\* For any TTL, any skew of the writer's clock and any number of texts, no bubble
\* stays longer than one period of the sweeper past its deadline or its appearance, nor
\* longer than the TTL, the skew and that period.
THEOREM TextsGoInTime == TextSpec => []TextGoneInTime
<1>1. LifeInv => TextGoneInTime
  <2> SUFFICES ASSUME LifeInv, NEW t \in Shown
               PROVE  /\ now <= expiresAt[t] + 1 \/ now <= shownAt[t] + 1
                      /\ now <= shownAt[t] + TextTtl + MaxSkew + 1
    BY DEF TextGoneInTime
  <2>1. now \in Int /\ expiresAt[t] \in Int /\ shownAt[t] \in Int
    BY TextAssumption DEF LifeInv, TextTypeOK, Shown
  <2>2. now <= expiresAt[t] + 1 \/ now <= shownAt[t] + 1
    BY <2>1 DEF LifeInv, Fresh
  <2>3. expiresAt[t] <= shownAt[t] + TextTtl + MaxSkew
    BY DEF LifeInv, DeadlineNear, Shown
  <2> QED
    BY <2>1, <2>2, <2>3, TextAssumption
<1> QED
  BY <1>1, SpecLifeInv, PTL

\* Behind the lock only the texts whose handlers the lock overtook can be on the
\* screen: everything that was shown before is purged.
THEOREM LockedScreenHoldsWaitingTexts == TextSpec => []OnlyWaitingTextsAppear
<1>1. LifeInv => OnlyWaitingTextsAppear
  BY DEF LifeInv
<1> QED
  BY <1>1, SpecLifeInv, PTL
==============================================================================
