---------------------------- MODULE MCTokenStore ----------------------------
(* Small instances of TokenStore. *)
EXTENDS TokenStore, TLC

CallSymmetry == Permutations(Calls)
=============================================================================
