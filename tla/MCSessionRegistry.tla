------------------------- MODULE MCSessionRegistry -------------------------
(* Small instances of SessionRegistry. *)
EXTENDS SessionRegistry, TLC

CONSTANTS t1, t2, t3, u1, u2, s1, p1, p2

\* Three connections want one session: two of a user who comes back to the same pod,
\* one of another user, to another pod.
Owner == (t1 :> u1) @@ (t2 :> u1) @@ (t3 :> u2)
Session == (t1 :> s1) @@ (t2 :> s1) @@ (t3 :> s1)
Pod == (t1 :> p1) @@ (t2 :> p1) @@ (t3 :> p2)
=============================================================================
