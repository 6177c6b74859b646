------------------------------ MODULE MCTurnContext -----------------------------
(* A small instance of the transcript of a turn for TLC. *)
EXTENDS TurnContext

(* A turn with a pair of receipts in its history, or a user who wrote what *)
(* the loop writes; calls of local tools, of the room (1..3) and of pages  *)
(* of an earlier result.                                                   *)
MCHistories ==
    {<<Msg("user", "a", 1), Msg("assistant", "b", 1), Msg("user", "a", 1),
       Msg("assistant", "evidence", 1)>>,
     <<Correction, Status>>}
MCRoomLogs == {[i \in 1..3 |-> [size |-> 1, time |-> i]]}
ToolCall(i, o, a, m) == [id |-> i, of |-> o, at |-> a, meta |-> m]
MCBatches ==
    {<<ToolCall(1, 0, 0, 1)>>, <<ToolCall(2, 0, 0, 1), ToolCall(3, 0, 0, 1)>>,
     <<ToolCall(4, 0, 0, 1), ToolCall(4, 0, 0, 1)>>,
     <<ToolCall(3, 1, 0, 1)>>, <<ToolCall(4, 1, 3, 1)>>, <<ToolCall(5, 0, 0, 9)>>}
=============================================================================
