----------------------------- MODULE MCAgentRuntime ----------------------------
(* Requests and ambient requests of one room, and one ambient of another. *)
EXTENDS AgentRuntime

CONSTANTS r1, r2, r3, a1, a2, k1, k2

MCRequests == {r1, r2}
MCAmbients == {a1, a2}
MCKeyOf == [i \in Invs |-> IF i \in {a2, r3} THEN k2 ELSE k1]
=============================================================================
