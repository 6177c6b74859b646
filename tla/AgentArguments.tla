---------------------------- MODULE AgentArguments ----------------------------
(***************************************************************************)
(* The way of a tool call's arguments to the command that carries it out   *)
(* (internal/command/catalog/agent_contract.go, the schema check of        *)
(* internal/agent/tool/contract, internal/agent/tool/saturn_command.go,    *)
(* internal/command/agent_gateway.go and the command handlers): typed      *)
(* arguments are checked, encoded into the tail of a chat command, and     *)
(* parsed back by a handler that was written for what people type.         *)
(* Texts are sequences of symbols; a symbol is a run of letters, a mark    *)
(* that some parser looks for, or white space.                             *)
(***************************************************************************)
EXTENDS Integers, Sequences, SequencesExt

CONSTANTS
    Wordings,            \* what the model may write into a string argument
    WordLists,           \* ... into an array of strings
    Integrals,           \* ... and as an integer
    OwnRoom,             \* the room of the caller, a wording
    Reviewed,            \* nicks whose message may be under review
    MaxTail              \* maxAgentCommandTailBytes, in symbols

ASSUME ArgumentsAssumption ==
    /\ Wordings \subseteq Seq(STRING) /\ WordLists \subseteq Seq(Seq(STRING))
    /\ Integrals \subseteq Int /\ MaxTail \in Nat \ {0}
    /\ OwnRoom \in Seq(STRING) /\ Reviewed \subseteq Seq(STRING)
    /\ \A n \in Integrals : ToString(n) \in STRING \ {"space", "nbsp"}

VARIABLES
    call,        \* the tool call: tool, arguments, and the author under review, if any
    stage,       \* how far it has come
    tail,        \* the encoded arguments
    deed         \* what the handler goes on to do

argumentVars == <<call, stage, tail, deed>>

-----------------------------------------------------------------------------
(* Texts.  "space" stands for the white space that validateToken names,    *)
(* "nbsp" for all other.                                                   *)

Blank == {"space", "nbsp"}

TrimSpace(text) ==
    LET kept == {i \in DOMAIN text : text[i] \notin Blank}
    IN  IF kept = {} THEN <<>> ELSE SubSeq(text, Min(kept), Max(kept))

(* Pieces of a text, one from each of starts to the next symbol of marks.  *)
Nth(numbers, n) == CHOOSE i \in numbers : Cardinality({j \in numbers : j < i}) = n - 1
End(text, marks, i) == Min({j \in i..(Len(text) + 1) : j > Len(text) \/ text[j] \in marks}) - 1
Cut(text, marks, starts) ==
    [n \in 1..Cardinality(starts) |->
        SubSeq(text, Nth(starts, n), End(text, marks, Nth(starts, n)))]

Starts(text, marks) == {i \in 1..(Len(text) + 1) : i = 1 \/ text[i - 1] \in marks}
Pieces(text, marks) == Cut(text, marks, Starts(text, marks))
WordStarts(text) == {i \in Starts(text, Blank) : i <= Len(text) /\ text[i] \notin Blank}
Words(text) == Cut(text, Blank, WordStarts(text))

(* With a mark between each and the next; what is empty leaves no mark.    *)
Joined(texts, mark) ==
    LET join[n \in 0..Len(texts)] ==
            IF n = 0 THEN <<>>
            ELSE IF texts[n] = <<>> THEN join[n - 1]
            ELSE IF join[n - 1] = <<>> THEN texts[n]
            ELSE join[n - 1] \o <<mark>> \o texts[n]
    IN  join[Len(texts)]

TrimPrefix(text, mark) == IF text # <<>> /\ Head(text) = mark THEN Tail(text) ELSE text

Distinct(texts) == SelectSeq([i \in DOMAIN texts |-> IF \E j \in 1..(i - 1) : texts[j] = texts[i]
                                                       THEN <<>> ELSE texts[i]],
                             LAMBDA text : text # <<>>)

NormalizeNickTarget(text) == TrimSpace(TrimPrefix(TrimSpace(text), "@"))

Numeral(n) == <<ToString(n)>>

-----------------------------------------------------------------------------
(* JSON values, and the schema that a tool publishes                       *)

String(text) == [type |-> "string", texts |-> <<text>>]
Strings(texts) == [type |-> "array", texts |-> texts]
Boolean(b) == [type |-> "boolean", texts |-> <<IF b THEN <<"true">> ELSE <<"false">> >>]
Integer(n) == [type |-> "integer", texts |-> <<Numeral(n)>>]
Decimal(n) == [type |-> "decimal", texts |-> <<Numeral(n)>>]     \* a whole number written 3.0

Enabled(value) == value = Boolean(TRUE)
Text(value) == value.texts[1]
Number(value) == CHOOSE n \in Integrals : Numeral(n) = Text(value)

(* A property: its type, whether it is required, whether it must be one    *)
(* token, the values it is restricted to, and the range of an integer.     *)
Property(name) == [name |-> name, type |-> "string", required |-> TRUE, token |-> FALSE,
                   enum |-> {}, least |-> 0, most |-> 0]
RequiredString(name) == Property(name)
RequiredToken(name) == [Property(name) EXCEPT !.token = TRUE]
OptionalString(name) == [Property(name) EXCEPT !.required = FALSE]
RequiredInteger(name, least, most) ==
    [Property(name) EXCEPT !.type = "integer", !.least = least, !.most = most]
EnumString(name, values) == [Property(name) EXCEPT !.enum = {<<v>> : v \in values}]

Roles == {"ADMIN", "MODERATOR", "TRUSTED", "USER", "REGULAR", "PEST"}

Catalog ==
    [list |-> <<RequiredToken("room")>>,
     resurrect |-> <<RequiredToken("nick"), RequiredToken("source"), RequiredToken("destination")>>,
     messages |-> <<RequiredToken("trip"), RequiredInteger("count", 1, 30)>>,
     mail |-> <<RequiredToken("recipient"), RequiredString("message")>>,
     msgchannel |-> <<RequiredToken("room"), RequiredString("message")>>,
     note |-> <<RequiredString("text")>>,
     prefix |-> <<OptionalString("prefix")>>,
     mute |-> <<RequiredToken("nick")>>,
     kick |-> <<RequiredToken("nick")>>,
     unshadowban |-> <<RequiredToken("identity")>>,
     unbanall |-> <<>>,
     captcha |-> <<[Property("enabled") EXCEPT !.type = "boolean"]>>,
     lock |-> <<[Property("locked") EXCEPT !.type = "boolean"]>>,
     access |-> <<[Property("trips") EXCEPT !.type = "array"], EnumString("role", Roles)>>,
     shadowban |-> <<EnumString("mode", {"exact", "contains"}), RequiredString("target")>>,
     automove |-> <<EnumString("operation", {"enable", "disable", "configure"}),
                    OptionalString("source"), OptionalString("destination")>>,
     notes |-> <<EnumString("operation", {"list", "purge"})>>]

Tools == DOMAIN Catalog
TargetsUser == {"mute", "kick", "shadowban", "unshadowban"}
ModerationReviewAllows == {"mute"}

(* A string of a required property, and every string of an array, has at   *)
(* least one character; the source and destination of automove are         *)
(* optional, but not empty.  A whole number may be written with decimals.  *)
AcceptsType(property, value) ==
    \/ value.type = property.type
    \/ value.type = "decimal" /\ property.type = "integer"

Accepts(property, value) ==
    /\ AcceptsType(property, value)
    /\ property.enum # {} => Text(value) \in property.enum
    /\ property.type = "string" /\ property.name # "prefix" => Text(value) # <<>>
    /\ property.type = "integer" => Number(value) \in property.least..property.most
    /\ property.type = "array" => /\ value.texts # <<>>
                                  /\ \A i \in DOMAIN value.texts : value.texts[i] # <<>>

Named(tool) == {Catalog[tool][i].name : i \in DOMAIN Catalog[tool]}

ValidateArguments(tool, given) ==
    /\ DOMAIN given \subseteq Named(tool)
    /\ \A i \in DOMAIN Catalog[tool] : LET property == Catalog[tool][i]
                                       IN  IF property.name \in DOMAIN given
                                           THEN Accepts(property, given[property.name])
                                           ELSE ~property.required

-----------------------------------------------------------------------------
(* Encoding: the tail of the command, or a refusal                         *)

Refusal == [ok |-> FALSE, tail |-> <<>>]
BoundedTail(text) == IF Len(TrimSpace(text)) > MaxTail THEN Refusal
                     ELSE [ok |-> TRUE, tail |-> TrimSpace(text)]

NonBlankToken(text) == text # <<>>                         \* slip: a token may hold separators
ValidToken(text) == text # <<>> /\ \A i \in DOMAIN text : text[i] \notin {"space", "comma"}

FieldIsEncoded(field, value) ==
    \/ field.type = "integer" /\ value.type = "integer"
    \/ /\ field.type = "string"
       /\ field.required => TrimSpace(Text(value)) # <<>>
       /\ field.token => ValidToken(TrimSpace(Text(value)))

Trimmed(given, name) == IF name \in DOMAIN given THEN TrimSpace(Text(given[name])) ELSE <<>>

Positional(tool, given) ==
    LET fields == Catalog[tool]
    IN  IF \A i \in DOMAIN fields : IF fields[i].name \in DOMAIN given
                                     THEN FieldIsEncoded(fields[i], given[fields[i].name])
                                     ELSE ~fields[i].required
        THEN BoundedTail(Joined([i \in DOMAIN fields |-> Trimmed(given, fields[i].name)], "space"))
        ELSE Refusal

BooleanState(value) == BoundedTail(IF Enabled(value) THEN <<"on">> ELSE <<"off">>)

CommaList(list, trailing) ==
    LET values == [i \in DOMAIN list.texts |-> TrimSpace(list.texts[i])]
    IN  IF \A i \in DOMAIN values : ValidToken(values[i])
        THEN BoundedTail(Joined(values, "comma") \o <<"space">> \o Text(trailing))
        ELSE Refusal

ShadowBanArguments(mode, target) ==
    IF ~ValidToken(target) THEN Refusal
    ELSE IF mode = <<"contains">> THEN BoundedTail(<<"-c", "space">> \o target)
    ELSE IF target = <<"-c">> THEN Refusal
    ELSE BoundedTail(target)

AutomoveArguments(operation, source, destination) ==
    IF operation = <<"configure">>
    THEN IF ValidToken(source) /\ ValidToken(destination)
         THEN BoundedTail(source \o <<"space">> \o destination) ELSE Refusal
    ELSE IF source # <<>> \/ destination # <<>> THEN Refusal
    ELSE [ok |-> TRUE, tail |-> IF operation = <<"enable">> THEN <<"on">> ELSE <<"off">>]

NotesArguments(operation) ==
    [ok |-> TRUE, tail |-> IF operation = <<"purge">> THEN <<"purge">> ELSE <<>>]

Encode(tool, given) ==
    CASE tool = "captcha" -> BooleanState(given["enabled"])
      [] tool = "lock" -> BooleanState(given["locked"])
      [] tool = "access" -> CommaList(given["trips"], given["role"])
      [] tool = "shadowban" -> ShadowBanArguments(Text(given["mode"]), Trimmed(given, "target"))
      [] tool = "automove" -> AutomoveArguments(Text(given["operation"]), Trimmed(given, "source"),
                                                Trimmed(given, "destination"))
      [] tool = "notes" -> NotesArguments(Text(given["operation"]))
      [] OTHER -> Positional(tool, given)

-----------------------------------------------------------------------------
(* What the adapter still refuses                                          *)

OwnListUnmarked(tool, text) == tool = "list" /\ TrimSpace(text) = OwnRoom   \* slip: ?room
OwnList(tool, text) == tool = "list" /\ TrimPrefix(TrimSpace(text), "?") = OwnRoom

UnderReview == call.review # <<>>

TargetInScope(tool, text) ==
    UnderReview /\ tool \in TargetsUser =>
        /\ Words(text) # <<>>
        /\ NormalizeNickTarget(Words(text)[1]) = call.review

RequestAuthorized(tool) == UnderReview => tool \in ModerationReviewAllows

-----------------------------------------------------------------------------
(* The handlers.  A deed is a verb with its operands; a handler that only  *)
(* answers with its usage does nothing.                                    *)

Do(verb, operands) == [verb |-> verb, operands |-> operands]
Nothing == Do("nothing", <<>>)

(* The chat message that the gateway puts together, and how it is read:    *)
(* as words, or as a first token and the text behind it.                   *)
Message(text) == IF text = <<>> THEN <<"command">> ELSE <<"command", "space">> \o text
Arguments(message) == Tail(Words(message))
SplitToken(text) ==
    LET last == End(text, Blank, 1)
    IN  <<SubSeq(text, 1, last), SubSeq(text, last + 2, Len(text))>>
CommandBody(message) == TrimSpace(SplitToken(message)[2])

RoomSelector(text) == TrimPrefix(TrimSpace(text), "?")

ReadList(a) ==
    IF a = <<>> THEN Do("list", <<OwnRoom>>)
    ELSE IF Len(a) # 1 \/ RoomSelector(a[1]) = <<>> THEN Nothing
    ELSE Do("list", <<RoomSelector(a[1])>>)
ReadResurrect(a) == IF Len(a) # 3 \/ NormalizeNickTarget(a[1]) = <<>> THEN Nothing
                    ELSE Do("move", <<NormalizeNickTarget(a[1]), a[2], a[3]>>)
ReadMessages(a) ==
    IF Len(a) < 2 \/ ~\E n \in Integrals : n > 0 /\ Numeral(n) = a[2] THEN Nothing
    ELSE Do("messages", <<a[1], Numeral(Min({30, CHOOSE n \in Integrals : Numeral(n) = a[2]}))>>)
ReadMail(body) == IF body = <<>> THEN Nothing
                  ELSE Do("mail", <<SplitToken(body)[1], TrimSpace(SplitToken(body)[2])>>)
ReadRelay(body) ==
    LET room == RoomSelector(SplitToken(body)[1])
        words == TrimSpace(SplitToken(body)[2])
    IN  IF room = <<>> \/ words = <<>> THEN Nothing ELSE Do("relay", <<room, words>>)
ReadNote(body) == IF body = <<>> THEN Nothing ELSE Do("note", <<body>>)
(* No prefix may hold a control character.                                 *)
ReadPrefix(a) == IF \E i \in DOMAIN a : "control" \in Range(a[i]) THEN Nothing
                 ELSE Do("prefix", Distinct(a))
ReadMute(a) == IF a = <<>> THEN Nothing
               ELSE IF NormalizeNickTarget(a[1]) = <<>> THEN Nothing
               ELSE Do("mute", <<NormalizeNickTarget(a[1])>>)
ArgumentModes(a) == {i \in DOMAIN a : a[i] \in {<<"-m">>, <<"-c">>}}
ReadKick(a) ==
    LET sound == ArgumentModes(a) \subseteq {1}
    IN  CASE a = <<>> -> Nothing
          [] a # <<>> /\ ArgumentModes(a) = {} /\ Len(a) = 1 -> Do("kick", a)
          [] sound /\ a[1] = <<"-m">> /\ Len(a) > 1 -> Do("kick", Tail(a))
          [] sound /\ a[1] = <<"-c">> /\ Len(a) = 2 -> Do("kick-those-with", Tail(a))
          [] OTHER -> Nothing
ReadUnshadowban(a) == IF Len(a) # 1 THEN Nothing
                      ELSE IF a[1] = <<"-all">> THEN Do("forget-all", <<>>)
                      ELSE Do("forget", a)
ReadCaptcha(a) == IF a = <<>> THEN Do("captcha-on", <<>>)
                  ELSE IF a[1] = <<"on">> THEN Do("captcha-on", <<>>)
                  ELSE IF a[1] = <<"off">> THEN Do("captcha-off", <<>>) ELSE Nothing
ReadLock(a) == IF a = <<>> THEN Nothing
               ELSE IF a[1] = <<"on">> THEN Do("lock", <<>>)
               ELSE IF a[1] = <<"off">> THEN Do("unlock", <<>>) ELSE Nothing
WithoutEndCommas(text) ==
    LET kept == {i \in DOMAIN text : text[i] # "comma"}
    IN  IF kept = {} THEN <<>> ELSE SubSeq(text, 1, Max(kept))
ReadAccess(a) ==
    IF Len(a) # 2 THEN Nothing
    ELSE LET trips == Pieces(WithoutEndCommas(a[1]), {"comma"})
             targets == [i \in DOMAIN trips |-> TrimSpace(trips[i])]
         IN  IF a[2] \notin {<<r>> : r \in Roles} \/ (\E i \in DOMAIN targets : targets[i] = <<>>)
             THEN Nothing ELSE Do("grant", <<a[2]>> \o Distinct(targets))
ReadShadowban(a) ==
    IF Len(a) = 1 /\ a[1] # <<"-c">> THEN Do("shadow", a)
    ELSE IF Len(a) = 2 THEN IF a[1] = <<"-c">> /\ a[2] # <<"-c">>
                            THEN Do("shadow-those-with", Tail(a)) ELSE Nothing
    ELSE Nothing
ReadAutomove(a) ==
    IF a = <<>> THEN Nothing
    ELSE IF a[1] = <<"on">> THEN Do("automove-on", <<>>)
    ELSE IF a[1] = <<"off">> THEN Do("automove-off", <<>>)
    ELSE IF Len(a) = 2 THEN Do("automove-rooms", a) ELSE Nothing
ReadNotes(a) == IF a = <<>> THEN Do("list-notes", <<>>)
                ELSE IF a = << <<"purge">> >> THEN Do("purge-notes", <<>>) ELSE Nothing

Handled(tool, message) ==
    LET a == Arguments(message)
        body == CommandBody(message)
    IN  CASE tool = "list" -> ReadList(a)
          [] tool = "resurrect" -> ReadResurrect(a)
          [] tool = "messages" -> ReadMessages(a)
          [] tool = "mail" -> ReadMail(body)
          [] tool = "msgchannel" -> ReadRelay(body)
          [] tool = "note" -> ReadNote(body)
          [] tool = "prefix" -> ReadPrefix(a)
          [] tool = "mute" -> ReadMute(a)
          [] tool = "kick" -> ReadKick(a)
          [] tool = "unshadowban" -> ReadUnshadowban(a)
          [] tool = "unbanall" -> Do("unban-all", <<>>)
          [] tool = "captcha" -> ReadCaptcha(a)
          [] tool = "lock" -> ReadLock(a)
          [] tool = "access" -> ReadAccess(a)
          [] tool = "shadowban" -> ReadShadowban(a)
          [] tool = "automove" -> ReadAutomove(a)
          [] OTHER -> ReadNotes(a)

-----------------------------------------------------------------------------
(* The calls: arguments of any fitting or unfitting type, each present or  *)
(* not, and at most one that the tool does not know.                       *)

Offered(name) ==
    CASE name = "unknown" -> {Boolean(TRUE)}
      [] name \in {"operation", "mode", "role"} ->
             {String(<<v>>) : v \in {"enable", "disable", "configure", "exact", "contains",
                                     "list", "purge", "ADMIN", "admin"}}
      [] name \in {"enabled", "locked"} -> {Boolean(TRUE), Boolean(FALSE), String(<<"on">>)}
      [] name = "trips" -> {Strings(list) : list \in WordLists} \cup {String(<<"a">>)}
      [] name = "count" -> {Integer(n) : n \in Integrals} \cup {Decimal(n) : n \in Integrals}
      [] OTHER -> {String(w) : w \in Wordings} \cup {Boolean(TRUE)}

Values(names) == {given \in [names -> UNION {Offered(n) : n \in names}] :
                      \A n \in names : given[n] \in Offered(n)}

NoCall == [tool |-> "notes", given |-> <<>>, review |-> <<>>]

ArgumentsInit ==
    /\ call = NoCall /\ stage = "idle" /\ tail = <<>> /\ deed = Nothing

-----------------------------------------------------------------------------
(* SaturnCommand.Execute, one step after the other                         *)

Ask ==
    /\ stage = "idle"
    /\ \E tool \in Tools, review \in {<<>>} \cup Reviewed :
       \E names \in SUBSET (Named(tool) \cup {"unknown"}) :
       \E given \in Values(names) :
            call' = [tool |-> tool, review |-> review, given |-> given]
    /\ stage' = "asked" /\ UNCHANGED <<tail, deed>>

CheckCall ==
    /\ stage = "asked"
    /\ stage' = IF RequestAuthorized(call.tool) /\ ValidateArguments(call.tool, call.given)
                THEN "checked" ELSE "refused"
    /\ UNCHANGED <<call, tail, deed>>

EncodeCall ==
    /\ stage = "checked"
    /\ \E encoded \in {Encode(call.tool, call.given)} :
            /\ stage' = IF encoded.ok THEN "encoded" ELSE "refused"
            /\ tail' = encoded.tail
    /\ UNCHANGED <<call, deed>>

SendCommand ==
    /\ stage = "encoded"
    /\ stage' = IF OwnList(call.tool, tail) \/ ~TargetInScope(call.tool, tail)
                THEN "refused" ELSE "sent"
    /\ UNCHANGED <<call, tail, deed>>

HandleCommand ==
    /\ stage = "sent"
    /\ deed' = Handled(call.tool, Message(TrimSpace(tail)))
    /\ stage' = "handled" /\ UNCHANGED <<call, tail>>

ArgumentsNext == Ask \/ CheckCall \/ EncodeCall \/ SendCommand \/ HandleCommand

ArgumentsSpec == ArgumentsInit /\ [][ArgumentsNext]_argumentVars

-----------------------------------------------------------------------------
(* Properties *)

ArgumentsTypeOK ==
    /\ stage \in {"idle", "asked", "checked", "encoded", "sent", "handled", "refused"}
    /\ call.tool \in Tools /\ DOMAIN call.given \subseteq Named(call.tool) \cup {"unknown"}
    /\ call.review \in {<<>>} \cup Reviewed
    /\ Len(tail) <= MaxTail
    /\ deed # Nothing => stage = "handled"

(* What a call asks for, read off its arguments alone.                     *)
Wanted ==
    LET Given(name) == Trimmed(call.given, name)
    IN  CASE call.tool = "list" -> Do("list", <<RoomSelector(Given("room"))>>)
          [] call.tool = "resurrect" -> Do("move", <<NormalizeNickTarget(Given("nick")),
                                                     Given("source"), Given("destination")>>)
          [] call.tool = "messages" -> Do("messages", <<Given("trip"), Given("count")>>)
          [] call.tool = "mail" -> Do("mail", <<Given("recipient"), Given("message")>>)
          [] call.tool = "msgchannel" -> Do("relay", <<RoomSelector(Given("room")),
                                                        Given("message")>>)
          [] call.tool = "note" -> Do("note", <<Given("text")>>)
          [] call.tool = "prefix" -> Do("prefix", Distinct(Words(Given("prefix"))))
          [] call.tool = "mute" -> Do("mute", <<NormalizeNickTarget(Given("nick"))>>)
          [] call.tool = "kick" -> Do("kick", <<Given("nick")>>)
          [] call.tool = "unshadowban" -> IF Given("identity") = <<"-all">> THEN Do("forget-all", <<>>)
                                          ELSE Do("forget", <<Given("identity")>>)
          [] call.tool = "unbanall" -> Do("unban-all", <<>>)
          [] call.tool = "captcha" -> Do(IF Enabled(call.given["enabled"]) THEN "captcha-on"
                                         ELSE "captcha-off", <<>>)
          [] call.tool = "lock" -> Do(IF Enabled(call.given["locked"]) THEN "lock" ELSE "unlock", <<>>)
          [] call.tool = "access" ->
                 Do("grant", <<Given("role")>> \o Distinct([i \in DOMAIN call.given["trips"].texts |->
                                                        TrimSpace(call.given["trips"].texts[i])]))
          [] call.tool = "shadowban" ->
                 Do(IF Given("mode") = <<"exact">> THEN "shadow" ELSE "shadow-those-with",
                    <<Given("target")>>)
          [] call.tool = "automove" ->
                 IF Given("operation") = <<"configure">>
                 THEN Do("automove-rooms", <<Given("source"), Given("destination")>>)
                 ELSE Do(IF Given("operation") = <<"enable">> THEN "automove-on" ELSE "automove-off", <<>>)
          [] OTHER -> Do(IF Given("operation") = <<"purge">> THEN "purge-notes" ELSE "list-notes", <<>>)

(* White space inside a token that validateToken does not know, and a room *)
(* that automove reads as a switch: the two kinds of call the encoding     *)
(* cannot carry.                                                           *)
Free(property) == property.type \in {"string", "array"} /\ property.enum = {}
Bound(property) == property.token \/ property.type = "array"
                   \/ property.name \in {"source", "destination", "target"}
Written(property) == IF property.name \in DOMAIN call.given
                     THEN Range(call.given[property.name].texts) ELSE {}

Undivided == \A property \in Range(Catalog[call.tool]) :
                 Bound(property) => \A text \in Written(property) : Len(Words(text)) = 1
NotASwitch == call.tool = "automove" => Trimmed(call.given, "source") \notin {<<"on">>, <<"off">>}

Plain == /\ \A property \in Range(Catalog[call.tool]) :
                Free(property) => Written(property) \subseteq {<<"a">>, <<"b">>}
         /\ call.tool = "list" => call.given["room"] # String(OwnRoom)

(* A call is carried out as it was asked or not at all, whatever the       *)
(* wording of its arguments: marks that the handlers read as switches or   *)
(* separators do not turn it into another command.  The handler            *)
(* understands every call whose arguments are ordinary names.              *)
AskedOrNothing ==
    stage = "handled" =>
        /\ Undivided /\ NotASwitch => deed \in {Wanted, Nothing}
        /\ Plain => deed = Wanted

(* A turn that reviews an author mutes no one else, however the nick is    *)
(* written, and no call lists the caller's own room through a snapshot.    *)
StaysInItsScope ==
    /\ UnderReview /\ deed # Nothing => deed = Do("mute", <<call.review>>)
    /\ deed # Do("list", <<OwnRoom>>)

(* What the command parser makes of an encoded call is what the model      *)
(* asked for, and within the room and the user it may act on.              *)
ArgumentsAreHonest == ArgumentsTypeOK /\ AskedOrNothing /\ StaysInItsScope
=============================================================================
