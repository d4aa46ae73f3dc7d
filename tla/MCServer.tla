------------------------------ MODULE MCServer ------------------------------
(* Two players and an observer; the counter of sessions starts at its end. *)
EXTENDS Server, TLC

\* The events are only compared with each other.
EventSymmetry == Permutations(ClientEvent)
=============================================================================
