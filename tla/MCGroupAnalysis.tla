--------------------------- MODULE MCGroupAnalysis ---------------------------
(* Searches on a 3 x 3 board: every set of black stones, at most one white. *)
EXTENDS GroupAnalysis

MCBoards ==
    {[c \in Coord |-> IF c \in white THEN "White" ELSE IF c \in black THEN "Black" ELSE Empty] :
        white \in {{}} \cup {{c} : c \in Coord}, black \in SUBSET Coord}
=============================================================================
