---------------------------- MODULE MCSpaceAreaCells ----------------------------
(* Small instances of SpaceAreaCells for TLC.                                     *)
EXTENDS SpaceAreaCells

CONSTANTS a1, a2, h1, h2

\* Rectangles of the 2 x 2 grid that meet, that part, and whose union is none.
SomeShapes == {{<<1, 1>>}, {<<2, 2>>}, {<<1, 1>>, <<1, 2>>}}
=============================================================================
