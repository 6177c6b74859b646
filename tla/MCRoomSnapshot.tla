--------------------------- MODULE MCRoomSnapshot ---------------------------
(* One workflow for which anything may go wrong, and two that come and go    *)
(* beside it, one of them under the same ID.                                 *)
EXTENDS RoomSnapshot

CONSTANTS w1, w2, w3, i1, i2

Ask(id, kind, by) == [id |-> id, kind |-> kind, caller |-> by]

MCCast ==
  {[w \in Workflows |->
      IF w = w1 THEN Ask(i1, what[1], what[2])
      ELSE Ask(IF w = w2 THEN i1 ELSE i2, "list", "agent")] :
    what \in {<<"list", "chat">>, <<"nuke", "agent">>, <<"resurrect", "agent">>,
              <<"msgchannel", "chat">>}}

MCChatCast == [Workflows -> {Ask(i1, kind, "chat") : kind \in Kinds}]
=============================================================================
