------------------------------ MODULE RateWindow ------------------------------
(***************************************************************************)
(* The per-connection message budget of the signaling relay                *)
(* (server/src/signaling.js, rateLimitOk).                                 *)
(*                                                                         *)
(* The code keeps three fields on the socket: _rlStart, _rlCount and       *)
(* _rlNotified.  Only the difference now - _rlStart is ever looked at, and *)
(* only to compare it with the window, so the model keeps that difference  *)
(* as an age that saturates at RateLimitWindow; a tick stands for the      *)
(* smallest interval the model tells apart.  Likewise every count above    *)
(* the maximum behaves alike, so the count saturates at RateLimitMax + 1.  *)
(*                                                                         *)
(* The operators named Bug... are not part of the model: each is a slip    *)
(* one could make in the definition that follows it, and PROJECT.json      *)
(* names the property that catches it.  The other modules do the same.     *)
(***************************************************************************)
EXTENDS Naturals

CONSTANTS RateLimitMax,     \* RATE_LIMIT_MAX: frames processed per window
          RateLimitWindow   \* RATE_LIMIT_WINDOW_MS, in ticks

ASSUME RateAssumption == /\ RateLimitMax \in Nat \ {0}
                         /\ RateLimitWindow \in Nat \ {0}

RateStates == [age : 0..RateLimitWindow, count : 0..(RateLimitMax + 1),
               notified : BOOLEAN]

\* What a connection starts with, and what a new window starts with.
FreshWindow == [age |-> 0, count |-> 0, notified |-> FALSE]

BugRollKeepsStart(r) ==
  IF r.age >= RateLimitWindow THEN [FreshWindow EXCEPT !.age = r.age] ELSE r

\* `if (now - ws._rlStart >= rateLimitWindowMs)`: the next frame opens a window.
Roll(r) == IF r.age >= RateLimitWindow THEN FreshWindow ELSE r

BugOkOffByOne(r) == Roll(r).count + 1 < RateLimitMax

\* What rateLimitOk returns: whether the frame may be processed.
RateLimitOk(r) == Roll(r).count + 1 <= RateLimitMax

\* Whether this frame makes the relay answer 'rate-limited'.
Warns(r) == ~RateLimitOk(r) /\ ~Roll(r).notified

\* The fields after rateLimitOk has counted one frame.
CountFrame(r) ==
  LET w == Roll(r)
  IN  [age |-> w.age,
       count |-> IF w.count > RateLimitMax THEN w.count ELSE w.count + 1,
       notified |-> w.notified \/ Warns(r)]

\* The clock advances by one tick.
Elapse(r) == [r EXCEPT !.age = IF @ < RateLimitWindow THEN @ + 1 ELSE @]
================================================================================
