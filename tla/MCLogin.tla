------------------------------- MODULE MCLogin -------------------------------
(* Small instances of Login for TLC. *)
EXTENDS Login, TLC

CONSTANTS u1, u2, m1, m2, m3, c1, c2, t1, t2, t3, f1, f2, p1, p2

\* A machine with an account, one without, one that is not there yet.
Owners == m1 :> u1 @@ m2 :> None @@ m3 :> "nobody"

\* The state file of the first, which has stored no token so far.
Registered == [machine |-> m1, of |-> None, keeps |-> TRUE]

\* One account has a repo, the other none.
Neighbours == u1 :> {u1} @@ u2 :> {}
==============================================================================
