---------------------------------- MODULE MCRoom ---------------------------------
(***************************************************************************)
(* Six modules about the room and its tables in one run of TLC: the state  *)
(* an engine keeps of the room, the monitor of joins, shadow bans, the     *)
(* registered identities, the upgrade of an old database and offline mail. *)
(* Each initial state picks one, and only that one moves.                  *)
(***************************************************************************)
EXTENDS RoomState, JoinMonitor, ShadowBans, Identities, SchemaUpgrade, MailDelivery, TLC

CONSTANTS t1, t2, d1, d2

VARIABLE part    \* the module this behaviour is about

MCFold == [n \in Nicks |-> IF n = "Ann" THEN "ann" ELSE n]

(* JoinMonitor: nicks that differ in case, two that share a hash, two of   *)
(* one cluster of names, and a moderator.                                  *)
MCNick == [j \in Joiners |-> IF j = "Ann" THEN "ann" ELSE j]
MCHash == [j \in Joiners |-> IF j \in {"ann", "Ann", "bob"} THEN "h1" ELSE "none"]
MCCluster == [j \in Joiners |-> IF j \in {"eve1", "bob"} THEN "eve" ELSE "none"]

(* ShadowBans: people that share a trip, a hash or a nick up to case.      *)
Somebody(n, t, h) == [name |-> n, trip |-> t, hash |-> h]
MCPeople ==
    {Somebody("ann", "t1", "h1"), Somebody("Ann", "", "h2"), Somebody("bob", "t1", "h2")}
MCBare == [w \in Tokens |-> CASE w = "@ann" -> "ann"
                              [] w = "@" -> ""
                              [] OTHER -> w]
MCCase == [w \in Tokens |-> IF w = "Ann" THEN "ann" ELSE w]
MCContaining ==
    [w \in Tokens |-> CASE w = "n" -> {"ann", "Ann"}
                        [] w \in {"ann", "Ann", "bob"} -> {w}
                        [] OTHER -> {}]
MCLines ==
    {<<"@ann">>, <<"bob">>, <<"-c", "n">>, <<"-c">>, <<"@">>, <<"-m", "@ann", "bob">>, <<"-all">>,
     <<"t1">>}

(* MailDelivery: recipients and deliveries are interchangeable.            *)
Symmetry == Permutations({t1, t2}) \cup Permutations({d1, d2})

MCLowered == [w \in Words |-> "ann"]

MCInit ==
    /\ part \in {"room", "joins", "bans", "identities", "schema", "mail"}
    /\ RoomInit /\ JoinInit /\ BansInit /\ IdentityInit /\ SchemaInit /\ MInit
    /\ part # "room" => Cardinality(members) = 1
    /\ part # "bans" => roster = {}

MCNext ==
    /\ UNCHANGED part
    /\ \/ /\ part = "room" /\ RoomNext
          /\ UNCHANGED <<joinVars, banVars, identityVars, schemaVars, mailVars>>
       \/ /\ part = "joins" /\ JoinNext
          /\ UNCHANGED <<roomVars, banVars, identityVars, schemaVars, mailVars>>
       \/ /\ part = "bans" /\ BansNext
          /\ UNCHANGED <<roomVars, joinVars, identityVars, schemaVars, mailVars>>
       \/ /\ part = "identities" /\ IdentityNext
          /\ UNCHANGED <<roomVars, joinVars, banVars, schemaVars, mailVars>>
       \/ /\ part = "schema" /\ SchemaNext
          /\ UNCHANGED <<roomVars, joinVars, banVars, identityVars, mailVars>>
       \/ /\ part = "mail" /\ MNext
          /\ UNCHANGED <<roomVars, joinVars, banVars, identityVars, schemaVars>>

MCSpec ==
    MCInit /\ [][MCNext]_<<part, roomVars, joinVars, banVars, identityVars, schemaVars, mailVars>>
=============================================================================
