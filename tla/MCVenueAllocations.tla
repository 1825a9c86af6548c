--------------------------- MODULE MCVenueAllocations ---------------------------
(* Small instances of VenueAllocations for TLC.                                   *)
EXTENDS VenueAllocations, TLC

CONSTANTS a1, a2, d1, p1, c1, c2, i1, i2, h1, h2

\* The plans of all areas, and the deals and partners when created, are of cycle c1.
OneCycle(S)  == [x \in S |-> c1]
PlanOneCycle == OneCycle(Areas)
HomeOneCycle == OneCycle(Targets)

ConcurrentSymmetry == Permutations(Rows) \cup Permutations(Handlers) \cup Permutations(Areas)
=============================================================================
