------------------------------- MODULE MCAgentTurn ------------------------------
(* A tool that posts in the room, a silent one, a read and one that needs it. *)
EXTENDS AgentTurn

CONSTANTS post, mute, schema, query, plain, bad

MCRequires == [t \in Tools |-> IF t = query THEN {schema} ELSE {}]
MCCalls == {[tool |-> t, arg |-> plain] : t \in {post, mute, schema, query}}
           \cup {[tool |-> post, arg |-> bad]}
=============================================================================
