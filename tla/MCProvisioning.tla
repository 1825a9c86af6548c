----------------------------- MODULE MCProvisioning -----------------------------
(* Small instances of Provisioning for TLC.                                       *)
EXTENDS Provisioning, TLC

CONSTANTS o1, o2, n1, n2, r1, r2, k1, k2, h1, h2

Symmetry == Permutations(Orgs) \cup Permutations(Names) \cup Permutations(RowIds)
            \cup Permutations(Companies) \cup Permutations(Handlers)
=============================================================================
