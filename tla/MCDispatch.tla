----------------------------- MODULE MCDispatch -----------------------------
(* Small instances of Dispatch for TLC. *)
EXTENDS Dispatch, FiniteSets, TLC

CONSTANTS c1, c2, h1, h2, p1, r1, r2

\* Both heads belong to one pull request.
OnePull == [h \in Heads |-> p1]

\* Every client clears every gate.
AllEligible == Clients \X Heads

Symmetry == Permutations(Clients) \cup Permutations(Reqs)
=============================================================================
