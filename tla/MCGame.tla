------------------------------- MODULE MCGame -------------------------------
(* The rules loop on a 2 x 2 board, with one coordinate off the board.     *)
EXTENDS Game

MCEventCoord == Coord \cup {<<Size, 0>>}
=============================================================================
