----------------------------- MODULE RectangleCells -----------------------------
(* assertCellsFormFilledRectangle: which lists of grid cells an area may be made  *)
(* of.  A cell is a pair <<x, y>>.                                                *)
EXTENDS Integers, Sequences, FiniteSets

CellSet(list) == {list[i] : i \in DOMAIN list}

Smallest(S) == CHOOSE n \in S : \A k \in S : n <= k
Largest(S)  == CHOOSE n \in S : \A k \in S : k <= n

NoRepeats(list) == \A i, j \in DOMAIN list : list[i] = list[j] => i = j

\* The bounding box of a list of cells and its sides.
MinX(list) == Smallest({c[1] : c \in CellSet(list)})
MaxX(list) == Largest({c[1] : c \in CellSet(list)})
MinY(list) == Smallest({c[2] : c \in CellSet(list)})
MaxY(list) == Largest({c[2] : c \in CellSet(list)})

Side_OffByOne(low, high) == high - low
Side(low, high) == high - low + 1

BoxIsFilled(list) ==
    \A x \in MinX(list)..MaxX(list), y \in MinY(list)..MaxY(list) :
        <<x, y>> \in CellSet(list)

CellsFormFilledRectangle(list) ==
    /\ list # <<>>
    /\ NoRepeats(list)
    /\ Side(MinX(list), MaxX(list)) * Side(MinY(list), MaxY(list)) = Len(list)
    /\ BoxIsFilled(list)

\* The sets of cells the check accepts, in whatever order they are listed.
Rectangles(X, Y) ==
    {{<<x, y>> : x \in x1..x2, y \in y1..y2} :
        x1 \in X, x2 \in X, y1 \in Y, y2 \in Y} \ {{}}
=============================================================================
