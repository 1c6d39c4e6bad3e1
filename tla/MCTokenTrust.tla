----------------------------- MODULE MCTokenTrust -----------------------------
(***************************************************************************)
(* TokenTrust for TLC: ids and key pairs are interchangeable.              *)
(***************************************************************************)
EXTENDS TokenTrust, TLC

Interchangeable == Permutations(Ids) \cup Permutations(Keys)
================================================================================
