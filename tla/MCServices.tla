------------------------------- MODULE MCServices -------------------------------
(***************************************************************************)
(* Four modules whose properties need fairness in one run of TLC: the      *)
(* connection of an engine, the client of the model provider, the gateway  *)
(* between a turn and the commands, and the move of trusted users.  Each   *)
(* initial state picks one, and only the module it picks moves.            *)
(***************************************************************************)
EXTENDS Transport, ModelClient, CommandGateway, AutoMove

VARIABLE part    \* the module this behaviour is about

MCAccess == [c \in Commands |-> IF c = "say" THEN "public" ELSE "moderator"]

(* A user of the room, a moderator, and an automatic review of one user.   *)
MCCallers ==
    {[caps |-> {}, target |-> NoTarget, whisper |-> TRUE],
     [caps |-> {"moderator"}, target |-> NoTarget, whisper |-> FALSE],
     [caps |-> {"moderator"}, target |-> "n1", whisper |-> FALSE]}

(* What the writer counted for a handler that says it succeeded, that it   *)
(* found nothing, that it had nothing to say, and that it failed.          *)
Counted(o, u, a, d, b) ==
    [outcome |-> o, unknown |-> u, actions |-> a, deliveries |-> d, observed |-> b]
MCReceipts ==
    {Counted("success", FALSE, 1, 1, TRUE), Counted("success", FALSE, 1, 0, FALSE),
     Counted("absent", FALSE, 0, 0, FALSE), Counted("empty", FALSE, 1, 1, TRUE),
     Counted("failed", TRUE, 1, 0, TRUE), Counted("failed", FALSE, 0, 0, FALSE)}

MCInit ==
    /\ part \in {"transport", "client", "gateway", "move"}
    /\ TransportInit /\ ClientInit /\ GatewayInit /\ MoveInit
    /\ part # "move" => replicas = {}

MCNext ==
    /\ UNCHANGED part
    /\ \/ /\ part = "transport" /\ TransportNext
          /\ UNCHANGED <<clientVars, gatewayVars, moveVars>>
       \/ /\ part = "client" /\ ClientNext
          /\ UNCHANGED <<transportVars, gatewayVars, moveVars>>
       \/ /\ part = "gateway" /\ GatewayNext
          /\ UNCHANGED <<transportVars, clientVars, moveVars>>
       \/ /\ part = "move" /\ MoveNext
          /\ UNCHANGED <<transportVars, clientVars, gatewayVars>>

(* TransportFairness, ClientFairness, GatewayFairness and MoveFairness,    *)
(* each for its part.                                                      *)
MCFairness ==
    /\ WF_transportVars(part = "transport" /\ Starting)
    /\ WF_transportVars(part = "transport" /\ Reading)
    /\ WF_transportVars(part = "transport" /\ Pinging)
    /\ WF_transportVars(part = "transport" /\ Dispatching)
    /\ WF_transportVars(part = "transport" /\ Stopping)
    /\ WF_clientVars(part = "client" /\ Tick)
    /\ WF_clientVars(part = "client" /\ SendRequest)
    /\ WF_clientVars(part = "client" /\ DoFails)
    /\ WF_clientVars(part = "client" /\ (BodyFails \/ Conclude))
    /\ WF_clientVars(part = "client" /\ Wakes)
    /\ WF_gatewayVars(part = "gateway" /\ (ToolRefuses \/ ToolAdmits))
    /\ WF_gatewayVars(part = "gateway" /\ (GatewayRefuses \/ GatewayAdmits))
    /\ WF_gatewayVars(part = "gateway" /\ HandlerReturns)
    /\ WF_gatewayVars(part = "gateway" /\ Audit)
    /\ WF_gatewayVars(part = "gateway" /\ Concluding)
    /\ WF_gatewayVars(part = "gateway" /\ JobCompletes)
    /\ \A r \in Rooms : WF_moveVars(part = "move" /\ Moving(r))
    /\ \A c \in Switchers : /\ SF_moveVars(part = "move" /\ Switch(c))
                            /\ WF_moveVars(part = "move" /\ Switching(c))

MCSpec ==
    /\ MCInit
    /\ [][MCNext]_<<part, transportVars, clientVars, gatewayVars, moveVars>>
    /\ MCFairness
=============================================================================
