------------------------------ MODULE MCStack ------------------------------
(***************************************************************************)
(* Instances of Stack for TLC.                                             *)
(***************************************************************************)
EXTENDS Stack, TLC

CONSTANTS u1, u2, u3, o1, o2, m1, m2, d1, d2, r1, r2, ada, bob, j1, k1, k2, q1, q2

\* The user who is not there yet has an email that is taken.
Addresses == u1 :> ada @@ u2 :> bob @@ u3 :> bob

\* Who comes and goes, what they share, and the documents with what takes their
\* organization away; and nobody, which leaves the middleware.
Mixture ==
    {{"create_user", "update_user", "delete_user", "create_org", "create_membership", "delete_membership"},
     {"create_org", "update_org", "delete_org",
      "create_membership", "update_membership", "delete_membership"},
     {"upload", "download", "delete_document", "delete_org"},
     {}}

Symmetry == Permutations(Reqs) \cup Permutations(Calls)
=============================================================================
