----------------------------- MODULE MCWorkers -----------------------------
(* Workers for TLC: neither workers nor calls are told apart. *)
EXTENDS Workers, TLC

Alike == Permutations(Workers) \union Permutations(Calls)
=============================================================================
