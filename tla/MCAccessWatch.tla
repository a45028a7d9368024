---------------------------- MODULE MCAccessWatch ----------------------------
(* Small instances of AccessWatch. *)
EXTENDS AccessWatch, TLC

StreamSymmetry == Permutations(Streams)
=============================================================================
