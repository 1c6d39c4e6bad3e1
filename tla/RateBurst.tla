------------------------------- MODULE RateBurst -------------------------------
(***************************************************************************)
(* One relay connection and its message budget, observed over a sliding    *)
(* interval.  The code counts in windows that open with a frame; what      *)
(* matters to an operator is the traffic in ANY interval as long as the    *)
(* window.  `passed` and `dropped` are history variables: the frames       *)
(* processed and dropped in the last RateLimitWindow ticks.  A frame is    *)
(* its age and its number among those of its tick.                         *)
(***************************************************************************)
EXTENDS RateWindow, FiniteSets

CONSTANT MaxPerTick    \* bound: frames the client sends in one tick

ASSUME BurstAssumption == MaxPerTick \in Nat

VARIABLES budget,  \* _rlStart, _rlCount, _rlNotified of the connection
          passed,  \* history: recent frames that were processed
          dropped  \* history: recent frames that were dropped

burstVars == <<budget, passed, dropped>>

Recent == (0..(RateLimitWindow - 1)) \X (1..MaxPerTick)
Aged(F) == {<<f[1] + 1, f[2]>> : f \in {g \in F : g[1] + 1 < RateLimitWindow}}
Unsent == {n \in 1..MaxPerTick : <<0, n>> \notin passed \cup dropped}
NextFrame == <<0, CHOOSE n \in Unsent : TRUE>>

BurstInit == /\ budget = FreshWindow
             /\ passed = {}
             /\ dropped = {}

\* A frame arrives: ws.on('message') calls rateLimitOk before anything else.
Frame ==
  /\ Unsent # {}
  /\ budget' = CountFrame(budget)
  /\ IF RateLimitOk(budget)
     THEN passed' = passed \cup {NextFrame} /\ UNCHANGED dropped
     ELSE dropped' = dropped \cup {NextFrame} /\ UNCHANGED passed

TimePasses == /\ budget' = Elapse(budget)
              /\ passed' = Aged(passed)
              /\ dropped' = Aged(dropped)

BurstNext == Frame \/ TimePasses

BurstSpec == BurstInit /\ [][BurstNext]_burstVars

\* _rlNotified is set exactly in a window that is over budget, and no frame was
\* both processed and dropped.
BurstTypeOK == /\ budget \in RateStates
               /\ budget.notified <=> budget.count > RateLimitMax
               /\ passed \subseteq Recent /\ dropped \subseteq Recent
               /\ passed \cap dropped = {}

\* No interval as long as the window carries more than two windows' worth of
\* processed frames: a window boundary lets a burst through, but only one.
BurstBound == Cardinality(passed) <= 2 * RateLimitMax

\* A client that keeps to the budget in every interval as long as the window is
\* never refused: the window opens with a frame, so a window that has counted
\* more than RateLimitMax frames shows an over-full interval.
NoFalseDrop ==
  [][Cardinality(dropped') > Cardinality(dropped)
       => Cardinality(passed' \cup dropped') > RateLimitMax]_burstVars
================================================================================
