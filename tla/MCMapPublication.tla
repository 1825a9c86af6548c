---------------------------- MODULE MCMapPublication ----------------------------
(* Small instances of MapPublication for TLC.                                     *)
EXTENDS MapPublication, TLC

CONSTANTS c1, c2, r1, r2, r3, r4, h1, h2

Symmetry == Permutations(Checksums) \cup Permutations(RowIds) \cup Permutations(Handlers)
=============================================================================
