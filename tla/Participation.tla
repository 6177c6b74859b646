----------------------------- MODULE Participation -----------------------------
(***************************************************************************)
(* Which messages of the room become turns of the agent, and with which    *)
(* authority (internal/agent/participation, internal/agent/live/           *)
(* participation.go and direct_submission.go, the snapshot of              *)
(* cmd/zenbot/main.go, the tool filter of internal/agent/assemble and the  *)
(* command policy of internal/agent/commandgateway).  Messages are handled *)
(* one at a time by the dispatcher of the master.  Time is in ticks.       *)
(***************************************************************************)
EXTENDS Integers, FiniteSets, SequencesExt

CONSTANTS Authors, Person,         \* nicks, and the identity (trip, hash, nick) behind each
          Trip,                    \* the trip an author writes under, NoTrip without one
          NoTrip, CreatorTrip, AdminTrips, RoleOf,   \* trusted configuration and roles
          AmbientEvery, QuietTicks, SemanticReady,
          MaxQuietTime, MaxHeard   \* bounds: ticks, messages

ASSUME ParticipationAssumption ==
    /\ AmbientEvery \in Nat \ {0} /\ QuietTicks \in Nat \ {0} /\ SemanticReady \in BOOLEAN
    /\ MaxQuietTime \in Nat /\ MaxHeard \in Nat
    /\ "" \notin Authors

VARIABLES
    ptime, heard,        \* the clock, and messages seen
    users,               \* the active users of the room
    quiet,               \* entries: until when a person is left alone
    eligible,            \* eligibleAmbientMessages
    submitted,           \* the invocations of the last message
    askedQuiet,               \* history: when a person last asked for quiet
    unanswered           \* history: ambient candidates since the last ambient try

partVars == <<ptime, heard, users, quiet, eligible, submitted, askedQuiet, unanswered>>

People == {Person[a] : a \in Authors}
Modes == {"DIRECT", "VIBE", "MENTION", "AMBIENT", "MODERATION"}
NotYet == -1

PartInit ==
    /\ ptime = 0 /\ heard = 0 /\ users = {} /\ eligible = 0 /\ unanswered = 0
    /\ quiet = [p \in People |-> NotYet] /\ askedQuiet = [p \in People |-> NotYet]
    /\ submitted = {}

-----------------------------------------------------------------------------
(* Authority *)

Creator(a) == CreatorTrip # NoTrip /\ Trip[a] = CreatorTrip

(* trustedAgentSnapshot: roles are those of the trips in the room.         *)
Role(a) == IF Trip[a] # NoTrip /\ \E u \in users : Trip[u] = Trip[a] THEN RoleOf[Trip[a]] ELSE "USER"
Admin(a) == Trip[a] \in AdminTrips \/ Role(a) = "ADMIN"

(* Only a turn that was addressed to the agent borrows its author's role.  *)
Addressed(a, mode) == mode \notin {"AMBIENT", "MODERATION"}

Create(a, mode) ==
    [mode |-> mode, nick |-> a, target |-> "",
     capabilities |->
        {c \in {"DYNAMIC_SQL"} : Creator(a) \/ (Admin(a) /\ Addressed(a, mode))}
        \cup {c \in {"MODERATION_COMMANDS"} :
                 Creator(a) \/ ((Admin(a) \/ Role(a) = "MODERATOR") /\ Addressed(a, mode))}
        \cup {c \in {"PERMANENT_BAN", "ADMIN_COMMANDS"} : Creator(a) /\ mode = "DIRECT"}]

(* A review is submitted by the bot itself, its author is only the target. *)
CreateModeration(a) ==
    [mode |-> "MODERATION", nick |-> "bot", target |-> a,
     capabilities |-> {"MODERATION_COMMANDS"}]

-----------------------------------------------------------------------------
(* The pipeline of a room message *)

(* What handle reads of a text; several may be true of the same message.   *)
Utterances == [politeQuiet : BOOLEAN, mention : BOOLEAN, abusive : BOOLEAN]

(* Blank, whispered, written by this or another bot, or a command.         *)
Kinds == {"plain", "ignored"}

IsQuiet(p) == quiet[p] # NotYet /\ quiet[p] > ptime
Forgotten(p) == IF IsQuiet(p) THEN quiet ELSE [quiet EXCEPT ![p] = NotYet]

(* Slip: asking again does not move the end of the silence.                *)
SilenceOnce(p) == IF quiet[p] # NotYet THEN quiet ELSE [quiet EXCEPT ![p] = ptime + QuietTicks]

Silence(p) == [quiet EXCEPT ![p] = ptime + QuietTicks]

(* Slip: every plain message counts, also of a person left alone.          *)
CountAll(p) == eligible + 1

Count(p) == IF IsQuiet(p) THEN eligible ELSE eligible + 1
AmbientDue(p) == ~IsQuiet(p) /\ Count(p) % AmbientEvery = 0

(* An api.Context needs a list of room users: none is an error, and the    *)
(* message passes on to the next handler as if the agent were not there.   *)
Unreadable == users = {}

Hear(a, text, accepted) ==
    LET p == Person[a]
        review == SemanticReady /\ text.abusive /\ a \in users
        ambient == AmbientDue(p)
    IN  \/ /\ Unreadable /\ submitted' = {}
           /\ UNCHANGED <<quiet, eligible, askedQuiet, unanswered>>
        \/ /\ ~Unreadable /\ text.politeQuiet
           /\ quiet' = Silence(p) /\ askedQuiet' = [askedQuiet EXCEPT ![p] = ptime] /\ submitted' = {}
           /\ UNCHANGED <<eligible, unanswered>>
        \/ /\ ~Unreadable /\ ~text.politeQuiet /\ text.mention
           /\ submitted' = {Create(a, "MENTION")}
           /\ UNCHANGED <<quiet, eligible, askedQuiet, unanswered>>
        \/ (* the review was refused: the message is not looked at further *)
           /\ ~Unreadable /\ ~text.politeQuiet /\ ~text.mention /\ review /\ ~accepted
           /\ submitted' = {}
           /\ UNCHANGED <<quiet, eligible, askedQuiet, unanswered>>
        \/ /\ ~Unreadable /\ ~text.politeQuiet /\ ~text.mention /\ (review => accepted)
           /\ quiet' = Forgotten(p) /\ eligible' = Count(p)
           /\ submitted' = {CreateModeration(a) : r \in {TRUE} \cap {review}}
                              \cup {Create(a, "AMBIENT") : r \in {TRUE} \cap {ambient}}
           /\ unanswered' = IF ambient THEN 0 ELSE unanswered + (IF IsQuiet(p) THEN 0 ELSE 1)
           /\ UNCHANGED askedQuiet

OnRoomMessage ==
    /\ heard < MaxHeard /\ heard' = heard + 1
    /\ \E a \in Authors, text \in Utterances, accepted \in BOOLEAN, kind \in Kinds :
          IF kind = "ignored"
          THEN submitted' = {} /\ UNCHANGED <<quiet, eligible, askedQuiet, unanswered>>
          ELSE Hear(a, text, accepted)
    /\ UNCHANGED <<ptime, users>>

(* The l and vibe commands go past the pipeline, and need a room.          *)
OnDirect ==
    /\ heard < MaxHeard /\ heard' = heard + 1
    /\ \E a \in Authors, mode \in {"DIRECT", "VIBE"} : submitted' = {Create(a, mode)}
    /\ UNCHANGED <<ptime, users, quiet, eligible, askedQuiet, unanswered>>

(* Others join and leave, and time passes.                                 *)
RosterChanges ==
    /\ \E a \in Authors : users' = IF a \in users THEN users \ {a} ELSE users \cup {a}
    /\ submitted' = {}
    /\ UNCHANGED <<ptime, heard, quiet, eligible, askedQuiet, unanswered>>
QuietTick ==
    /\ ptime < MaxQuietTime /\ ptime' = ptime + 1 /\ submitted' = {}
    /\ UNCHANGED <<heard, users, quiet, eligible, askedQuiet, unanswered>>

PartNext == OnRoomMessage \/ OnDirect \/ RosterChanges \/ QuietTick
PartSpec == PartInit /\ [][PartNext]_partVars

-----------------------------------------------------------------------------
(* What the model of a turn may run: the manifest and the policy together *)

Commands == {"help", "mute", "ban", "sql"}
RequiredCapability(c) ==
    CASE c = "mute" -> {"MODERATION_COMMANDS"} [] c = "ban" -> {"PERMANENT_BAN"}
      [] c = "sql" -> {"ADMIN_COMMANDS"}       [] OTHER -> {}

FilterTools(inv, c) ==
    /\ inv.mode \notin {"VIBE", "AMBIENT"}
    /\ inv.mode = "MODERATION" => c = "mute"

Authorized(inv, c) ==
    (inv.target # "" => c = "mute") /\ RequiredCapability(c) \subseteq inv.capabilities

(* Slip: the reviewed author is only a suggestion.                         *)
AnyTarget(inv, c, who) == TRUE

TargetAllowed(inv, c, who) == inv.target # "" /\ c \in {"mute", "ban"} => who = inv.target
MayRun(inv, c, who) == FilterTools(inv, c) /\ Authorized(inv, c) /\ TargetAllowed(inv, c, who)

-----------------------------------------------------------------------------
(* Properties *)

(* Nobody who asked for quiet is answered unasked before the time is over, *)
(* whichever nick the person writes under.                                 *)
QuietIsKept ==
    \A inv \in submitted : inv.mode = "AMBIENT" =>
        LET p == Person[inv.nick]
        IN  askedQuiet[p] # NotYet => ptime >= askedQuiet[p] + QuietTicks

(* The agent speaks unasked on exactly every AmbientEvery-th message that  *)
(* could have been the one, mentions, requests for quiet and reviews that  *)
(* were refused not counted.                                               *)
AmbientIsPaced ==
    /\ unanswered < AmbientEvery
    /\ \A inv \in submitted : inv.mode = "AMBIENT" => unanswered = 0 /\ eligible % AmbientEvery = 0

(* A turn nobody asked for does not act on the room, whoever wrote the     *)
(* message: it runs no command, but for a review, which may mute the one   *)
(* it reviews; and only the creator reaches the commands of the host.      *)
UnaskedTurnsAreHarmless ==
    \A inv \in submitted, c \in Commands, who \in Authors :
        MayRun(inv, c, who) =>
            /\ inv.mode # "AMBIENT"
            /\ inv.mode = "MODERATION" => c = "mute" /\ who = inv.target
            /\ c \in {"ban", "sql"} => Creator(inv.nick) /\ inv.mode = "DIRECT"
            /\ inv.mode \in {"DIRECT", "MENTION"} /\ c = "mute"
                  => Creator(inv.nick) \/ Admin(inv.nick) \/ Role(inv.nick) = "MODERATOR"

PartTypeOK ==
    /\ ptime \in 0..MaxQuietTime /\ heard \in 0..MaxHeard /\ users \subseteq Authors
    /\ eligible \in 0..MaxHeard /\ \A inv \in submitted : inv.mode \in Modes

(* Who asked for quiet has it, unasked turns are paced, and none of them   *)
(* acts on the room with the authority of whoever wrote the message.       *)
PeopleAreRespected == PartTypeOK /\ QuietIsKept /\ AmbientIsPaced /\ UnaskedTurnsAreHarmless
=============================================================================
