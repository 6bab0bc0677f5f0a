--------------------------- MODULE MCPolicyGates ---------------------------
(* A small instance of PolicyGates for TLC. *)
EXTENDS PolicyGates, TLC

CONSTANTS x1, c1, c2, m1, m2, s1, g1, r1, r2

\* A machine below the floors and one that clears them; one model each.
Tiered == c1 :> 0 @@ c2 :> 1
Modelled == c1 :> m1 @@ c2 :> m2

Put(t, e, s, m, g) == [min_tier |-> t, enabled |-> e, default_strategies |-> s,
                       accepted_models |-> m, accepted_model_groups |-> g]

\* A floor and no lists; a strategy gate; an allowlist by name; one by group;
\* and an explicit clearing of all three, with the repository disabled.
Bodies == {Put(1, TRUE, None, None, None), Put(0, TRUE, {s1}, None, None),
           Put(0, TRUE, None, {m1}, None), Put(0, TRUE, None, None, {g1}),
           Put(0, FALSE, {}, {}, {})}

\* The group holds the second model, or the operator has deleted it.
Defined == g1 :> {m2}
Deleted == g1 :> None
Deployments == {Defined, Deleted}

AsAdmin == x1 :> "admin"
AsNobody == x1 :> "none"
Reported == {AsAdmin, AsNobody}

Offering == {{}, {s1}}

Symmetry == Permutations(Reqs)
=============================================================================
