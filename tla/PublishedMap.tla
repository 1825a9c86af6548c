------------------------------ MODULE PublishedMap ------------------------------
(* What visitors of ToonExpo are promised about the map of one venue plan: a map  *)
(* version, once accepted, keeps its content, and the map only moves forward to   *)
(* higher versions.                                                               *)
EXTENDS Integers

CONSTANTS Checksums,  \* contents of a map, told apart by their checksum
          Versions    \* a set of integers

VARIABLE accepted    \* the accepted maps, as pairs of version and checksum

Init == accepted = {}

Accept(v, c) ==
    /\ \A m \in accepted : m[1] < v
    /\ accepted' = accepted \cup {<<v, c>>}

Next == \E v \in Versions, c \in Checksums : Accept(v, c)

Spec == Init /\ [][Next]_accepted
=============================================================================
