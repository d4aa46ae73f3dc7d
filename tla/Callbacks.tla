------------------------------ MODULE Callbacks ------------------------------
(***************************************************************************)
(* What TcpServer promises to the session server above it.  Connections    *)
(* are announced in the order of their numbers.  The messages of a         *)
(* connection are handed up in the order its client sent them, none is     *)
(* left out or handed up twice, and one that is too large ends the         *)
(* connection.  The end is reported once at most and is the last callback. *)
(* When stop has returned there are no more callbacks.                     *)
(***************************************************************************)
EXTENDS Naturals, Sequences

CONSTANTS
    ConnectionId,   \* The numbers of the connections, from 1.
    Frame,          \* What a client may send.
    OversizeFrame   \* The frames above the limit.

VARIABLES
    stream,     \* The frames each client has sent.
    heard,      \* The callbacks of each connection, in order.
    stopped     \* stop has returned.

vars == <<stream, heard, stopped>>

Init ==
    /\ stream = [c \in ConnectionId |-> <<>>]
    /\ heard = [c \in ConnectionId |-> <<>>]
    /\ stopped = FALSE

\* The connection was announced and its end was not.
IsOpen(c) == heard[c] # <<>> /\ heard[c][Len(heard[c])] # "onDisconnect"

Hear(c, callback) ==
    /\ ~stopped
    /\ heard' = [heard EXCEPT ![c] = Append(@, callback)]
    /\ UNCHANGED <<stream, stopped>>

clientSends(c, frame) ==
    /\ stream' = [stream EXCEPT ![c] = Append(@, frame)]
    /\ UNCHANGED <<heard, stopped>>

onConnect(c) ==
    /\ heard[c] = <<>>
    /\ \A d \in ConnectionId : d < c => heard[d] # <<>>
    /\ Hear(c, "onConnect")

\* The callback number n of a connection is that of the frame number n - 1.
onMessage(c) ==
    /\ IsOpen(c)
    /\ Len(heard[c]) <= Len(stream[c])
    /\ stream[c][Len(heard[c])] \notin OversizeFrame
    /\ Hear(c, stream[c][Len(heard[c])])

onDisconnect(c) ==
    /\ IsOpen(c)
    /\ Hear(c, "onDisconnect")

stop ==
    /\ stopped' = TRUE
    /\ UNCHANGED <<stream, heard>>

Next ==
    \/ stop
    \/ \E c \in ConnectionId :
           \/ onConnect(c) \/ onMessage(c) \/ onDisconnect(c)
           \/ \E frame \in Frame : clientSends(c, frame)

Spec == Init /\ [][Next]_vars
=============================================================================
