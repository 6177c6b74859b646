------------------------------ MODULE RoomState ------------------------------
(***************************************************************************)
(* What an engine knows of its room (internal/core/engine_impl.go) and the *)
(* listeners that keep it (internal/listener): the active users, those     *)
(* that are away, the trips that subscribed to joins, and the bot's own    *)
(* nick; and the chains that a chat message and an info message go         *)
(* through, one handler at a time.  The pump of the transport delivers one *)
(* event after the other; a turn of the agent runs the afk command beside  *)
(* it.  The chat server is external: it sends events in order, tells a     *)
(* change of nick as a leave, a join and a text, and keeps nicks distinct  *)
(* up to case.                                                             *)
(***************************************************************************)
EXTENDS Integers, Sequences, FiniteSets

CONSTANTS Nicks, Fold,         \* nicks, and the nick in lower case
          BotNick,             \* the nick the engine is configured with
          Tripcodes, NoTripcode,
          Trusted,             \* trips whose role suffices for the moderators' command
          Mentioned,           \* the nicks and trips that messages mention
          MaxEvents, MaxAgentCommands,
          Backlog              \* bounds: events, commands, events unhandled when the server
                               \* acts: it never reads the engine, so 0 loses nothing

ASSUME RoomAssumption ==
    /\ Fold \in [Nicks -> Nicks] /\ BotNick \in Nicks /\ "" \notin Nicks
    /\ Mentioned \subseteq Nicks \union (Tripcodes \ {NoTripcode})
    /\ NoTripcode \in Tripcodes /\ Trusted \subseteq Tripcodes \ {NoTripcode}
    /\ {MaxEvents, MaxAgentCommands, Backlog} \subseteq Nat

Users == [name : Nicks, trip : Tripcodes]
Nobody == [name |-> "", trip |-> ""]
Same(n, m) == n # "" /\ m # "" /\ Fold[n] = Fold[m]   \* strings.EqualFold

(* What is said: plain text, a mention of a nick or a trip, a command.     *)
Commands == {"afk", "sub", "unsub", "moderate"}
Sayings == [is : {"plain"} \union Commands, of : {""}]
             \union [is : {"mention"}, of : Mentioned]

VARIABLES
    members, self,      \* server: who is in the room; the nick of the bot's connection
    wire, sentEvents,   \* server: events under way to the engine; how many it sent
    activeUsers,        \* EngineImpl.ActiveUsers
    name,               \* EngineImpl.Name
    afk,                \* EngineImpl.AfkUsers with their afkMentions
    subscribers,        \* EngineImpl.subscribers
    event,              \* the event the pump is handling
    handler,            \* the handler of the chain that is next
    author,             \* Context.Author
    effects,            \* history: what the event in hand led to
    caller, agentRuns   \* the afk command of a turn: the caller it verified; how many ran

roomVars == <<members, self, wire, sentEvents, activeUsers, name, afk, subscribers, event,
              handler, author, effects, caller, agentRuns>>
server == <<members, self, wire, sentEvents>>
engine == <<activeUsers, name, afk, subscribers>>
agent == <<caller, agentRuns>>

NoEvent == [is |-> "none", who |-> Nobody, own |-> FALSE, users |-> {},
            says |-> [is |-> "plain", of |-> ""]]
Bot == [name |-> self, trip |-> NoTripcode]
Event(kind, u) == [NoEvent EXCEPT !.is = kind, !.who = u, !.own = u = Bot]

RoomInit ==
    /\ \E others \in SUBSET {u \in Users : Fold[u.name] # Fold[BotNick]} :
        /\ \A u, v \in others : u # v => ~Same(u.name, v.name)
        /\ Cardinality(others) <= 1
        /\ members = others \union {[name |-> BotNick, trip |-> NoTripcode]}
    /\ self = BotNick
    /\ wire = <<[NoEvent EXCEPT !.is = "onlineSet", !.users = members]>> /\ sentEvents = 0
    /\ activeUsers = {} /\ name = BotNick /\ afk = {} /\ subscribers = {}
    /\ event = NoEvent /\ handler = "idle" /\ author = Nobody /\ effects = {}
    /\ caller = Nobody /\ agentRuns = 0

-----------------------------------------------------------------------------
(* The chat server *)

Announces(events) ==
    /\ sentEvents + Len(events) <= MaxEvents /\ Len(wire) <= Backlog
    /\ sentEvents' = sentEvents + Len(events) /\ wire' = wire \o events
    /\ UNCHANGED <<engine, event, handler, author, effects, agent>>

Free(n) == \A u \in members : ~Same(u.name, n)

Joins == \E u \in Users :
    /\ Free(u.name) /\ members' = members \union {u}
    /\ Announces(<<Event("onlineAdd", u)>>) /\ UNCHANGED self

Leaves == \E u \in members \ {Bot} :
    /\ members' = members \ {u}
    /\ Announces(<<Event("onlineRemove", u)>>) /\ UNCHANGED self

ChangesNick == \E u \in members, n \in Nicks :
    LET v == [u EXCEPT !.name = n] IN
    /\ \A w \in members \ {u} : ~Same(w.name, n)
    /\ n # u.name
    /\ members' = (members \ {u}) \union {v}
    /\ self' = IF u = Bot THEN n ELSE self
    /\ Announces(<<Event("onlineRemove", u), Event("onlineAdd", v),
                   [Event("rename", u) EXCEPT !.says.of = n]>>)

Says == \E u \in members, s \in Sayings, kind \in {"chat", "whisper"} :
    /\ u # Bot \/ kind = "chat"
    /\ Announces(<<[Event(kind, u) EXCEPT !.says = s]>>) /\ UNCHANGED <<members, self>>

-----------------------------------------------------------------------------
(* The room's users *)

(* ReplaceActiveUsers keeps the last record of a name.                     *)
ReplaceActiveUsers(users) == activeUsers' = users

(* AddActiveUser removes the records of exactly that name.                 *)
AddActiveUser(u) == activeUsers' = {v \in activeUsers : v.name # u.name} \union {u}

(* GetActiveUserByName: any of the records with that nick up to case.      *)
ActiveNamed(n) == {u \in activeUsers : Same(u.name, n)}

(* AddAfkUser replaces the entries of exactly that name and forgets what   *)
(* was said to them.  Entries are pointers: a rename can leave two of one name. *)
NewId == CHOOSE i \in 1 .. Cardinality(afk) + 1 : \A a \in afk : a.id # i
AddAfkUser(u) == afk' = {a \in afk : a.name # u.name}
                          \union {[id |-> NewId, name |-> u.name, trip |-> u.trip, mention |-> FALSE]}

RenameAfkUser(before, after) ==
    afk' = {IF Same(a.name, before) THEN [a EXCEPT !.name = after] ELSE a : a \in afk}

SubscribeTrip(trip) == subscribers' = subscribers \union ({trip} \ {NoTripcode})
UnsubscribeTrip(trip) == subscribers' = subscribers \ {trip}
Subscribed(u) == u.trip \in subscribers

-----------------------------------------------------------------------------
(* The listeners *)

Handled == event' = NoEvent /\ handler' = "idle" /\ author' = Nobody

(* Listeners that handle their event at once.                              *)
Takes(kind) == event.is = "none" /\ Len(wire) > 0 /\ Head(wire).is = kind
Took == /\ wire' = Tail(wire)
        /\ UNCHANGED <<members, self, sentEvents, event, handler, author, agent>>

(* OnlineSetListener *)
OnlineSet ==
    /\ Takes("onlineSet") /\ ReplaceActiveUsers(Head(wire).users) /\ effects' = {}
    /\ Took /\ UNCHANGED <<name, afk, subscribers>>

(* UserJoinedListener: the joiner counts as active before those that       *)
(* subscribed are told of it.  The monitor of joins and automove are       *)
(* modules of their own; the shadow-ban check and the log of the presence  *)
(* leave this state alone.                                                 *)
UserJoined == LET u == Head(wire).who IN
    /\ Takes("onlineAdd") /\ AddActiveUser(u)
    /\ \E found \in BOOLEAN :    \* BasicUserData may fail
        effects' = IF found THEN {[did |-> "told", by |-> u, own |-> FALSE, as |-> v] :
                                    v \in {w \in activeUsers' : Subscribed(w)}}
                            ELSE {}
    /\ Took /\ UNCHANGED <<name, afk, subscribers>>

(* Slip: a leave whose log fails is dropped.                               *)
UserLeftLogged ==
    /\ Takes("onlineRemove") /\ effects' = {}
    /\ \/ \E u \in ActiveNamed(Head(wire).who.name) : activeUsers' = activeUsers \ {u}
       \/ UNCHANGED activeUsers
    /\ Took /\ UNCHANGED <<name, afk, subscribers>>

(* UserLeftListener: an unknown user is ignored, a log that fails is not   *)
(* minded, and RemoveActiveUser removes one record of that nick.           *)
UserLeft ==
    /\ Takes("onlineRemove") /\ effects' = {}
    /\ IF ActiveNamed(Head(wire).who.name) = {} THEN UNCHANGED activeUsers
       ELSE \E u \in ActiveNamed(Head(wire).who.name) : activeUsers' = activeUsers \ {u}
    /\ Took /\ UNCHANGED <<name, afk, subscribers>>

(* Slip: only the entries of those away follow a change of nick.           *)
RenamedOnlyAway == LET e == Head(wire) IN
    /\ Takes("rename") /\ effects' = {} /\ RenameAfkUser(e.who.name, e.says.of)
    /\ Took /\ UNCHANGED <<activeUsers, name, subscribers>>

(* info: RenameAfkUsers; the active users follow the leave and the join.   *)
Renamed == LET e == Head(wire) IN
    /\ Takes("rename") /\ effects' = {}
    /\ name' = IF Same(name, e.who.name) THEN e.says.of ELSE name
    /\ RenameAfkUser(e.who.name, e.says.of)
    /\ Took /\ UNCHANGED <<activeUsers, subscribers>>

-----------------------------------------------------------------------------
(* The chain of a chat message: message.Chain.Process.  A handler passes   *)
(* the message on, or ends the chain, be it for an error.                  *)

At(h) == handler = h
Passes(h) == handler' = h /\ UNCHANGED <<event, author>>
Did(what) == effects' = effects \union {[did |-> what, by |-> event.who, own |-> event.own, as |-> author]}
Quiet == UNCHANGED effects
Inside == UNCHANGED <<server, agent>>
Known == author # Nobody

ChatArrives == \E kind \in {"chat", "whisper"} :
    /\ Takes(kind) /\ event' = Head(wire) /\ wire' = Tail(wire) /\ effects' = {}
    /\ handler' = IF kind = "chat" THEN "resolve" ELSE "convert"
    /\ UNCHANGED <<members, self, sentEvents, engine, author, agent>>

(* Process looks at the context of the pump before every handler.          *)
Interrupted == handler # "idle" /\ Handled /\ Quiet /\ UNCHANGED engine /\ Inside

ResolveUserMetadata ==
    /\ At("resolve") /\ handler' = "audit"
    /\ author' \in IF ActiveNamed(event.who.name) = {} THEN {Nobody} ELSE ActiveNamed(event.who.name)
    /\ Quiet /\ UNCHANGED <<event, engine>> /\ Inside

(* An audit that fails ends the chain: no command runs unrecorded.         *)
Audited(next) == (Passes(next) \/ Handled) /\ Quiet /\ UNCHANGED engine /\ Inside
AuditChatMessage == At("audit") /\ Audited("own")

(* Of a host or a replica: RelayAgentMessage, which follows, passes.       *)
IgnoreBotMessage ==
    /\ At("own") /\ UNCHANGED engine /\ Inside
    /\ IF Same(name, event.who.name) THEN Did("ignored") /\ Handled ELSE Quiet /\ Passes("mail")

(* DeliverPendingMail is MailDelivery; an error of it ends the chain.      *)
DeliverPendingMail ==
    /\ At("mail") /\ (Passes("back") \/ Handled) /\ Quiet /\ UNCHANGED engine /\ Inside

(* UpdateAfkState, first half: RemoveIfAfk takes one entry of exactly that *)
(* name and trip.                                                          *)
BackOf(u) == {a \in afk : a.name = u.name /\ a.trip = u.trip}
RemoveIfAfk ==
    /\ At("back") /\ Passes(IF Known THEN "mentions" ELSE "extras")
    /\ IF Known /\ BackOf(author) # {}
       THEN (\E a \in BackOf(author) : afk' = afk \ {a}) /\ Did("back")
       ELSE Quiet /\ UNCHANGED afk
    /\ UNCHANGED <<activeUsers, name, subscribers>> /\ Inside

(* second half: NotifyAfkIfMentioned; a whisper mentions nobody.           *)
Mentions(a) == /\ ~Same(event.who.name, a.name)
               /\ event.says.is = "mention"
               /\ event.says.of = a.trip \/ Same(event.says.of, a.name)
NotifyAfkIfMentioned ==
    /\ At("mentions") /\ Passes("extras") /\ Quiet
    /\ afk' = {[a EXCEPT !.mention = a.mention \/ Mentions(a)] : a \in afk}
    /\ UNCHANGED <<activeUsers, name, subscribers>> /\ Inside

(* YoutubePreview, CernEasterEgg: what they cannot send ends the chain.    *)
Extras ==
    /\ At("extras") /\ (Passes("participation") \/ Handled) /\ Quiet /\ UNCHANGED engine /\ Inside

(* AgentParticipation: a claimed message, or an error, ends the chain.     *)
AgentParticipation ==
    /\ At("participation") /\ UNCHANGED engine /\ Inside
    /\ \/ Handled /\ Did("turn")
       \/ Handled /\ Quiet
       \/ Passes("dispatch") /\ Quiet

-----------------------------------------------------------------------------
(* The chain of a whisper *)

(* ConvertWhisperToChatMessage: the message becomes one of the active user *)
(* with the sender's nick.                                                 *)
ConvertWhisper ==
    /\ At("convert") /\ Quiet /\ UNCHANGED engine /\ Inside
    /\ \/ author' \in ActiveNamed(event.who.name) /\ handler' = "auditWhisper" /\ UNCHANGED event
       \/ ActiveNamed(event.who.name) = {} /\ Handled
AuditWhisperCommand == At("auditWhisper") /\ Audited("whisper")

-----------------------------------------------------------------------------
(* Commands.  A chat message carries its own trip; a whisper has that of   *)
(* the active user it was converted to.                                    *)

TripOfMessage == IF event.is = "chat" THEN event.who.trip ELSE author.trip
Authorized == Known /\ (event.says.is = "moderate" => author.trip \in Trusted)

Afk ==
    /\ event.says.is = "afk"
    /\ IF TripOfMessage # NoTripcode /\ author.trip = TripOfMessage
       THEN AddAfkUser(author) /\ Did("afk") ELSE Quiet /\ UNCHANGED afk
    /\ UNCHANGED subscribers

Subscribe ==
    /\ event.says.is \in {"sub", "unsub"} /\ Quiet /\ UNCHANGED afk
    /\ IF event.says.is = "sub" THEN SubscribeTrip(TripOfMessage) ELSE UnsubscribeTrip(TripOfMessage)

Moderate == event.says.is = "moderate" /\ Did("moderate") /\ UNCHANGED <<afk, subscribers>>

(* A host that retires admits no command.                                  *)
Executed ==
    /\ Handled /\ UNCHANGED <<activeUsers, name>> /\ Inside
    /\ \/ Authorized /\ (Afk \/ Subscribe \/ Moderate)
       \/ Quiet /\ UNCHANGED <<afk, subscribers>>
DispatchUserCommand == At("dispatch") /\ Executed
DispatchWhisperCommand == At("whisper") /\ Executed

-----------------------------------------------------------------------------
(* The afk command run for a turn, on the turn's goroutine: the caller is  *)
(* verified against the active users, then marked.                         *)

AgentVerifies ==
    /\ caller = Nobody /\ agentRuns < MaxAgentCommands
    /\ caller' \in {u \in activeUsers : u.trip # NoTripcode} /\ agentRuns' = agentRuns + 1
    /\ UNCHANGED <<server, engine, event, handler, author, effects>>
AgentMarks ==
    /\ caller # Nobody /\ AddAfkUser(caller) /\ caller' = Nobody
    /\ UNCHANGED <<server, activeUsers, name, subscribers, event, handler, author, effects, agentRuns>>

-----------------------------------------------------------------------------
Server == Joins \/ Leaves \/ ChangesNick \/ Says
Listeners == OnlineSet \/ UserJoined \/ UserLeft \/ Renamed \/ ChatArrives
Chain == \/ Interrupted \/ ResolveUserMetadata \/ AuditChatMessage \/ IgnoreBotMessage \/ DeliverPendingMail
         \/ RemoveIfAfk \/ NotifyAfkIfMentioned \/ Extras \/ AgentParticipation
         \/ ConvertWhisper \/ AuditWhisperCommand \/ DispatchUserCommand
         \/ DispatchWhisperCommand
RoomNext == Server \/ Listeners \/ Chain \/ AgentVerifies \/ AgentMarks

RoomSpec == RoomInit /\ [][RoomNext]_roomVars

-----------------------------------------------------------------------------
(* Properties *)

(* Once every event is handled, the engine's active users are those in the *)
(* room, names and trips: no order of joins, leaves and changes of nick,   *)
(* and no nick taken again in another case, leaves a stale record behind.  *)
RoomIsFollowed == event.is = "none" /\ wire = <<>> => activeUsers = members

(* A command, and a turn, run with the authority of the user that sent the *)
(* message: the record found by nick is never that of somebody who had the *)
(* nick before.                                                            *)
CommandsAreTheirs == \A e \in effects :
    e.did \in {"moderate", "afk", "turn"} /\ e.as # Nobody => e.as = e.by

(* The bot answers everyone but itself: under whatever nick it has by now, *)
(* its own messages start no turn and no command, and nobody who has its   *)
(* former nick is taken for it.                                            *)
OnlyItselfIsIgnored == \A e \in effects :
    /\ e.did = "ignored" => e.own
    /\ e.did \in {"moderate", "afk", "turn", "back"} => ~e.own

RoomTypeOK ==
    /\ members \subseteq Users /\ activeUsers \subseteq Users /\ name \in Nicks /\ self \in Nicks
    /\ \A a \in afk : a.name \in Nicks /\ a.trip \in Tripcodes \ {NoTripcode} /\ a.mention \in BOOLEAN
    /\ \A a, b \in afk : a.id = b.id => a = b
    /\ subscribers \subseteq Tripcodes \ {NoTripcode}
    /\ author \in activeUsers \union {Nobody} /\ caller \in Users \union {Nobody}

(* Behind the events it has read, the engine knows who is in the room,     *)
(* whose commands it runs, and ignores nobody but itself.                  *)
RoomIsKnown == RoomTypeOK /\ RoomIsFollowed /\ CommandsAreTheirs /\ OnlyItselfIsIgnored
=============================================================================
