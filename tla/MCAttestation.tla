--------------------------- MODULE MCAttestation ---------------------------
(* Small instances of Attestation for TLC. *)
EXTENDS Attestation, TLC

CONSTANTS u1, u2, m1, m2, r1, r2

Symmetry == Permutations({r1, r2})

\* One installation; two, the first with two repos.
OneHome == [x \in Repos |-> 1]
TwoHomes == [x \in Repos |-> IF x = 3 THEN 2 ELSE 1]
=============================================================================
