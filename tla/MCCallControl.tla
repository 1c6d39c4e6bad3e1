----------------------------- MODULE MCCallControl -----------------------------
(* Symmetry for the runs of CallControl: contacts, calls and sessions are alike. *)
EXTENDS CallControl, TLC

CallSymmetry ==
  Permutations(Peers) \cup Permutations(Calls) \cup Permutations(Sessions)
================================================================================
