------------------------------- MODULE MCPayment -------------------------------
(***************************************************************************)
(* Payment for TLC: the names of subscriptions are interchangeable.        *)
(***************************************************************************)
EXTENDS Payment, TLC

Interchangeable == Permutations(Subs)
================================================================================
