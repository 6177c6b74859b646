------------------------------ MODULE AutoMove ------------------------------
(***************************************************************************)
(* The movement of authorized trips out of source rooms: the state shared  *)
(* by the host and its permanent replicas (internal/core/auto_move.go),    *)
(* the commands that switch and configure it (command/automove.go,         *)
(* EnableAutoMove and DisableAutoMove of core/engine_impl.go) and what a   *)
(* replica does with a join (listener/automove_join.go).  Switching adds   *)
(* or removes a replica per source room, and each of these takes time;     *)
(* ReplicaControl has its steps.                                           *)
(***************************************************************************)
EXTENDS Naturals, FiniteSets

CONSTANTS Rooms, FirstSource, FirstDestination,   \* purgatory, lounge
          Switchers,                \* the goroutines that run the automove command
          MaxConfigured, MaxSwitched, MaxJoined   \* bounds on commands and joins

ASSUME AutoMoveAssumption == {FirstSource, FirstDestination} \subseteq Rooms
                             /\ {MaxConfigured, MaxSwitched, MaxJoined} \subseteq Nat

Unlocked == "free"
ASSUME SwitcherAssumption == Unlocked \notin Switchers

VARIABLES
    enabled, sources, destination,   \* AutoMoveState
    replicas,      \* the manager's channels
    holder,        \* of EngineImpl.autoMoveMu
    switch,        \* per caller: what it wants and where it stands
    pump,          \* per room: what its replica does with a join
    configured, asked, joinsSeen,     \* counters of the bounds
    last,          \* history: how the last switch that returned ended
    touched        \* history: rooms whose replica others added or lost since it began

moveVars == <<enabled, sources, destination, replicas, holder, switch, pump,
              configured, asked, joinsSeen, last, touched>>
policy == <<enabled, sources, destination>>
counters == <<configured, asked, joinsSeen>>

Off == [at |-> "off", on |-> FALSE, todo |-> {}, rooms |-> {}, failed |-> FALSE]
NoJoin == [at |-> "idle", trusted |-> FALSE, to |-> FirstDestination]
Unsettled == [known |-> FALSE, on |-> FALSE, rooms |-> {}]

MoveInit ==
    /\ enabled = FALSE /\ sources = {FirstSource} /\ destination = FirstDestination
    /\ replicas \in SUBSET {FirstSource} /\ holder = Unlocked
    /\ switch = [c \in Switchers |-> Off] /\ pump = [r \in Rooms |-> NoJoin]
    /\ configured = 0 /\ asked = 0 /\ joinsSeen = 0 /\ last = Unsettled /\ touched = {}

-----------------------------------------------------------------------------
(* The command *)

Moved(c, s) == switch' = [switch EXCEPT ![c] = s]

(* ConfigureAutoMove: a source is added to those there are, never removed; *)
(* it does not take autoMoveMu.                                            *)
Configure == \E source, to \in Rooms :
    /\ configured < MaxConfigured /\ configured' = configured + 1
    /\ sources' = sources \union {source} /\ destination' = to
    /\ UNCHANGED <<enabled, replicas, holder, switch, pump, asked, joinsSeen, last, touched>>

AskSwitch(c) == \E on \in BOOLEAN :
    /\ switch[c].at = "off" /\ asked < MaxSwitched /\ asked' = asked + 1
    /\ Moved(c, [Off EXCEPT !.at = "asks", !.on = on])
    /\ UNCHANGED <<policy, replicas, holder, pump, configured, joinsSeen, last, touched>>

(* A context that ended before the lock, or while waiting for it.          *)
GivesUp(c) ==
    /\ switch[c].at = "asks" /\ Moved(c, Off)
    /\ UNCHANGED <<policy, replicas, holder, pump, counters, last, touched>>

(* Under the lock: the flag is set before any replica is, and the sources  *)
(* and the rooms already served are read once.                             *)
Switches(c) == LET on == switch[c].on IN
    /\ switch[c].at = "asks"
    /\ enabled' = on
    /\ Moved(c, [switch[c] EXCEPT !.at = "rooms", !.rooms = sources,
                   !.todo = IF on THEN sources \ replicas ELSE sources \intersect replicas])
    /\ last' = Unsettled /\ touched' = {}
    /\ UNCHANGED <<sources, destination, replicas, pump, counters>>

(* Slip: switches do not exclude each other.                               *)
SwitchAtOnce(c) == Switches(c) /\ UNCHANGED holder
Switch(c) == holder = Unlocked /\ holder' = c /\ Switches(c)

(* EnableAutoMove: the first room that fails ends it; automove stays on.   *)
AddNext(c) == \E r \in switch[c].todo :
    /\ switch[c].at = "rooms" /\ switch[c].on
    /\ \/ /\ r \notin replicas /\ replicas' = replicas \union {r}
          /\ Moved(c, [switch[c] EXCEPT !.todo = @ \ {r}])
       \/ UNCHANGED replicas /\ Moved(c, [switch[c] EXCEPT !.todo = {}, !.failed = TRUE])
    /\ UNCHANGED <<policy, holder, pump, counters, last, touched>>

(* DisableAutoMove: every room is tried; the first error is kept.          *)
RemoveNext(c) == \E r \in switch[c].todo :
    /\ switch[c].at = "rooms" /\ ~switch[c].on
    /\ \/ /\ r \in replicas /\ replicas' = replicas \ {r}
          /\ Moved(c, [switch[c] EXCEPT !.todo = @ \ {r}])
       \/ /\ replicas' \in {replicas, replicas \ {r}}
          /\ Moved(c, [switch[c] EXCEPT !.todo = @ \ {r}, !.failed = TRUE])
    /\ UNCHANGED <<policy, holder, pump, counters, last, touched>>

SwitchEnds(c) ==
    /\ switch[c].at = "rooms" /\ switch[c].todo = {} /\ Moved(c, Off)
    /\ holder' = IF holder = c THEN Unlocked ELSE holder
    /\ last' = IF switch[c].failed THEN Unsettled
               ELSE [known |-> TRUE, on |-> switch[c].on, rooms |-> switch[c].rooms]
    /\ UNCHANGED <<policy, replicas, pump, counters, touched>>

(* The replica command, and the eviction of a replica that broke.          *)
OthersTouch == \E r \in Rooms :
    /\ r \notin touched /\ touched' = touched \union {r}
    /\ replicas' = IF r \in replicas THEN replicas \ {r} ELSE replicas \union {r}
    /\ UNCHANGED <<policy, holder, switch, pump, counters, last>>

-----------------------------------------------------------------------------
(* The joins a replica sees: AutoMoveJoinAutomation.OnJoin *)

Pumped(r, p) == /\ pump' = [pump EXCEPT ![r] = p]
                /\ UNCHANGED <<policy, replicas, holder, switch, configured, asked, last, touched>>

(* EligibleReplica reads the destination and the two conditions together.  *)
ReplicaSeesJoin(r) == \E trusted \in BOOLEAN :
    /\ r \in replicas /\ pump[r].at = "idle" /\ joinsSeen < MaxJoined /\ joinsSeen' = joinsSeen + 1
    /\ Pumped(r, IF enabled /\ r \in sources
                 THEN [at |-> "eligible", trusted |-> trusted, to |-> destination] ELSE NoJoin)

(* UserTrips may fail.                                                     *)
ReadTrips(r) ==
    /\ pump[r].at = "eligible" /\ UNCHANGED joinsSeen
    /\ \/ Pumped(r, IF pump[r].trusted THEN [pump[r] EXCEPT !.at = "notice"] ELSE NoJoin)
       \/ Pumped(r, [NoJoin EXCEPT !.at = "unread"])
Unread(r) == pump[r].at = "unread" /\ UNCHANGED joinsSeen /\ Pumped(r, NoJoin)

(* Slip: a notice that cannot be sent ends it.                             *)
NoticeOrNothing(r) == /\ pump[r].at = "notice" /\ UNCHANGED joinsSeen
                      /\ Pumped(r, NoJoin) \/ Pumped(r, [pump[r] EXCEPT !.at = "kick"])
(* The notice names ?lounge, whatever the destination; it may fail.        *)
Notice(r) == /\ pump[r].at = "notice" /\ UNCHANGED joinsSeen
             /\ Pumped(r, [pump[r] EXCEPT !.at = "kick"])
Kick(r) == pump[r].at = "kick" /\ UNCHANGED joinsSeen /\ Pumped(r, [NoJoin EXCEPT !.at = "kicked"])
Kicked(r) == pump[r].at = "kicked" /\ UNCHANGED joinsSeen /\ Pumped(r, NoJoin)

-----------------------------------------------------------------------------
Switching(c) == Switch(c) \/ AddNext(c) \/ RemoveNext(c) \/ SwitchEnds(c)
Moving(r) == ReadTrips(r) \/ Unread(r) \/ Notice(r) \/ Kick(r) \/ Kicked(r)
MoveNext == \/ Configure \/ OthersTouch
            \/ \E c \in Switchers : AskSwitch(c) \/ GivesUp(c) \/ Switching(c)
            \/ \E r \in Rooms : ReplicaSeesJoin(r) \/ Moving(r)

MoveFairness == /\ \A r \in Rooms : WF_moveVars(Moving(r))
                /\ \A c \in Switchers : SF_moveVars(Switch(c)) /\ WF_moveVars(Switching(c))
MoveSpec == MoveInit /\ [][MoveNext]_moveVars
MoveFairSpec == MoveSpec /\ MoveFairness

-----------------------------------------------------------------------------
(* Properties *)

(* When no switch is under way, automove is as the last one that succeeded *)
(* left it, flag and replicas alike: two switches at once never leave it   *)
(* on with its replicas gone, or off with replicas it made still serving.  *)
LastSwitchWins ==
    last.known /\ (\A c \in Switchers : switch[c].at # "rooms") =>
        /\ enabled = last.on
        /\ IF last.on THEN last.rooms \subseteq replicas \union touched
                      ELSE last.rooms \intersect replicas \subseteq touched

(* A trusted trip that joins a source room while automove is on is moved,  *)
(* even if the notice cannot be sent or automove is asked meanwhile;       *)
(* only trips that cannot be read keep it.                                 *)
TrustedAreMoved == \A r \in Rooms :
    pump[r].at = "eligible" /\ pump[r].trusted ~> pump[r].at \in {"kicked", "unread"}

MoveTypeOK ==
    /\ enabled \in BOOLEAN /\ sources \subseteq Rooms /\ destination \in Rooms /\ replicas \subseteq Rooms
    /\ holder \in Switchers \union {Unlocked} /\ touched \subseteq Rooms
    /\ \A c \in Switchers : switch[c].todo \subseteq Rooms /\ (holder = c => switch[c].at = "rooms")

(* The rooms that have replicas are those the last completed switch asked  *)
(* for.                                                                    *)
SwitchesAreKept == MoveTypeOK /\ LastSwitchWins
=============================================================================
