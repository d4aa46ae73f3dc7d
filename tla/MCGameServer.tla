---------------------------- MODULE MCGameServer ----------------------------
(* A board of one point that is not on the diagonal; every kind of event. *)
EXTENDS GameServer

MCPoint == {<<0, 1>>}

MCPayload ==
    {toClientMessage(ClientPutStone(<<0, 1>>)), toClientMessage(ClientPass),
     toClientMessage(ClientResign), toClientMessage(ClientChat("hi"))}
=============================================================================
