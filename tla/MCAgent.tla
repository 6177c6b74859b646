--------------------------------- MODULE MCAgent --------------------------------
(***************************************************************************)
(* Six modules about the agent in one run of TLC: the runtime's admission  *)
(* and keyed locks, the memory of a conversation, the monitor of messages, *)
(* participation, the transcript of a turn, and the arguments of its       *)
(* tools.  Each initial state picks one, and only that one moves.          *)
(***************************************************************************)
EXTENDS AgentRuntime, AgentMemory, MessageMonitor, Participation, MCTurnContext, AgentArguments

CONSTANTS r1, r2, r3, a1, k1, k2

VARIABLE part    \* the module this behaviour is about

(* AgentRuntime: two requests and an ambient turn of one room, a request   *)
(* of another.                                                             *)
MCKeyOf == [i \in Invs |-> IF i = r3 THEN k2 ELSE k1]

(* MessageMonitor: two nicks of one identity and a moderator.              *)
MCIdentity == [s \in Senders |-> IF s = "bob" THEN "h2" ELSE "h1"]

(* Participation: one person under two nicks, a moderator and the creator. *)
MCPerson == [a \in Authors |-> IF a \in {"ann", "ann_"} THEN "p1" ELSE a]
MCTrip == [a \in Authors |-> CASE a = "cre" -> "t0" [] a = "mod" -> "t2" [] OTHER -> NoTrip]
MCRoleOf == [t \in {"t0", "t2"} |-> IF t = "t2" THEN "MODERATOR" ELSE "USER"]

(* AgentArguments: tokens, tokens with white space or a separator in them, *)
(* words that are options to some command, and lists of such.              *)
MCWordings ==
    {<<>>, <<"space">>, <<"a">>, <<"b">>, <<"7">>, <<"space", "a">>, <<"a", "space", "7">>,
     <<"a", "nbsp", "7">>, <<"@", "a">>, <<"?", "a">>, <<"-c">>, <<"-m">>, <<"on">>,
     <<"a", "comma", "b">>, <<"-all">>, <<"-c", "nbsp", "b">>, <<"a", "space", "space", "b", "space", "a">>}
MCLists ==
    {<<>>, << <<"a">> >>, << <<"a">>, <<"b">> >>, << <<"a">>, <<"a">> >>,
     << <<"a", "comma", "b">> >>, << <<"a", "comma">> >>, << <<"a", "space", "b">>, <<"b">> >>, << <<"space">> >>}
MCIntegrals == {-1, 0, 1, 3, 7, 30, 31}
MCOwn == <<"a">>
MCReviewed == {<<"a">>}

MCInit ==
    /\ part \in {"runtime", "memory", "monitor", "participation", "context", "arguments"}
    /\ AInit /\ MemoryInit /\ MonitorInit /\ PartInit /\ ContextInit /\ ArgumentsInit
    /\ part # "context" => public /\ budget = 8 /\ Status \notin Range(history)

MCNext ==
    /\ UNCHANGED part
    /\ \/ /\ part = "runtime" /\ ANext
          /\ UNCHANGED <<memoryVars, monitorVars, partVars, contextVars, argumentVars>>
       \/ /\ part = "memory" /\ MemoryNext
          /\ UNCHANGED <<avars, monitorVars, partVars, contextVars, argumentVars>>
       \/ /\ part = "monitor" /\ MonitorNext
          /\ UNCHANGED <<avars, memoryVars, partVars, contextVars, argumentVars>>
       \/ /\ part = "participation" /\ PartNext
          /\ UNCHANGED <<avars, memoryVars, monitorVars, contextVars, argumentVars>>
       \/ /\ part = "context" /\ ContextNext
          /\ UNCHANGED <<avars, memoryVars, monitorVars, partVars, argumentVars>>
       \/ /\ part = "arguments" /\ ArgumentsNext
          /\ UNCHANGED <<avars, memoryVars, monitorVars, partVars, contextVars>>

MCSpec ==
    MCInit /\ [][MCNext]_<<part, avars, memoryVars, monitorVars, partVars, contextVars, argumentVars>>
=============================================================================
