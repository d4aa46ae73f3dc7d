--------------------------------- MODULE Fifo ---------------------------------
(***************************************************************************)
(* What the users of SafeQueue rely on: a queue to which any thread        *)
(* appends, from which an element is taken at the front, and which can be  *)
(* released once.  Modules Game and Server use the queue in this way.      *)
(***************************************************************************)
EXTENDS Sequences

CONSTANT Element

VARIABLES items, taken, released

Init ==
    /\ items = <<>>
    /\ taken = <<>>
    /\ released = FALSE

Push(e) ==
    /\ items' = Append(items, e)
    /\ UNCHANGED <<taken, released>>

Pop ==
    /\ items # <<>>
    /\ items' = Tail(items)
    /\ taken' = Append(taken, Head(items))
    /\ UNCHANGED released

Release ==
    /\ released' = TRUE
    /\ UNCHANGED <<items, taken>>

Next == (\E e \in Element : Push(e)) \/ Pop \/ Release

Spec == Init /\ [][Next]_<<items, taken, released>>
===============================================================================
