------------------------------ MODULE JoinMonitor ------------------------------
(***************************************************************************)
(* The monitor of joins (internal/agent/moderation/join_monitor.go) and    *)
(* the automation that runs its decisions (automation.go): bursts of joins *)
(* of a room, of nicks of one hash and of nicks of one name cluster, and   *)
(* two answers, a captcha for the room and a shadow ban for the joiner     *)
(* that repeats a raid.  Time is counted in ticks.                         *)
(***************************************************************************)
EXTENDS Integers, SequencesExt

CONSTANTS Joiners,                  \* users as they join; a joiner is a raw nick
          Nick, HashOf, ClusterOf,  \* its folded nick, hash and name cluster
          Blank,                    \* no hash; a cluster of fewer than 3 characters
          Guarded,                  \* joiners the monitor never judges
          JoinBurstCount, JoinBurstWindow, SameHashCount, SameHashWindow,
          NameCount, NameWindow, RaidWindow, JoinCooldown,
          MaxJoinTime, MaxJoins     \* bounds: ticks, joins

Hashes == {HashOf[j] : j \in Joiners} \ {Blank}
Clusters == {ClusterOf[j] : j \in Joiners} \ {Blank}

(* composeJoinAutomation builds no monitor unless all are positive.        *)
ASSUME JoinAssumption ==
    /\ \A n \in {JoinBurstCount, JoinBurstWindow, SameHashCount, SameHashWindow, NameCount,
                 NameWindow, RaidWindow, JoinCooldown} : n \in Nat \ {0}
    /\ Guarded \subseteq Joiners /\ MaxJoinTime \in Nat /\ MaxJoins \in Nat

VARIABLES
    jtime,                  \* the clock
    room, hashes, names,    \* joins of the room, of each hash, of each cluster
    signals,                \* when a hash last raided
    captchaAt, banAt,       \* actions: when each was last decided
    joined,                 \* history: every join that was judged
    decided                 \* what the last join led to: [captcha, ban]

joinVars == <<jtime, room, hashes, names, signals, captchaAt, banAt, joined, decided>>

Unset == -1
Nothing == [captcha |-> FALSE, ban |-> {}]

JoinInit ==
    /\ jtime = 0 /\ room = <<>> /\ joined = <<>> /\ decided = Nothing
    /\ hashes = [h \in Hashes |-> <<>>] /\ names = [c \in Clusters |-> <<>>]
    /\ signals = [h \in Hashes |-> Unset]
    /\ captchaAt = Unset /\ banAt = [j \in Joiners |-> Unset]

-----------------------------------------------------------------------------
(* Buckets *)

Lately(at, window) == at # Unset /\ jtime - at \in 0..window
NotBefore(joins, window) == {i \in DOMAIN joins : joins[i].at >= jtime - window}

(* What is too old is cut off the front, what is behind it stays.          *)
Prune(joins, window) ==
    IF NotBefore(joins, window) = {} THEN <<>>
    ELSE SubSeq(joins, Min(NotBefore(joins, window)), Len(joins))
Variants(joins) == {Nick[joins[i].who] : i \in DOMAIN joins}
Distinct(joins) == Cardinality(Variants(joins))

(* pruneExpired ages every bucket on every join.                           *)
AgedSignals == [h \in Hashes |-> IF Lately(signals[h], RaidWindow) THEN signals[h] ELSE Unset]
AgedBans == [j \in Joiners |-> IF Lately(banAt[j], JoinCooldown) THEN banAt[j] ELSE Unset]
AgedNames == [c \in Clusters |-> Prune(names[c], NameWindow)]

(* Slip: the buckets of hashes age as fast as the room's.                  *)
AgedLikeTheRoom == [h \in Hashes |-> Prune(hashes[h], JoinBurstWindow)]

AgedHashes == [h \in Hashes |-> Prune(hashes[h], SameHashWindow)]

(* A bucket that breaches its limit starts over.                           *)
RoomWith(join) == Append(Prune(room, JoinBurstWindow), join)
RoomBreached(join) == Len(RoomWith(join)) >= JoinBurstCount
HashWith(join) == Append(AgedHashes[HashOf[join.who]], join)
HashBreached(join) == HashOf[join.who] # Blank /\ Distinct(HashWith(join)) >= SameHashCount
NameWith(join) == Append(AgedNames[ClusterOf[join.who]], join)
NameBreached(join) == ClusterOf[join.who] # Blank /\ Distinct(NameWith(join)) >= NameCount

(* Slip: the bucket of a hash that raided is kept.                         *)
HashKept(join) ==
    IF HashOf[join.who] = Blank THEN AgedHashes
    ELSE [AgedHashes EXCEPT ![HashOf[join.who]] = HashWith(join)]

HashAfter(join) ==
    IF HashOf[join.who] = Blank THEN AgedHashes
    ELSE [AgedHashes EXCEPT ![HashOf[join.who]] =
              IF HashBreached(join) THEN <<>> ELSE HashWith(join)]
NameAfter(join) ==
    IF ClusterOf[join.who] = Blank THEN AgedNames
    ELSE [AgedNames EXCEPT ![ClusterOf[join.who]] =
              IF NameBreached(join) THEN <<>> ELSE NameWith(join)]

-----------------------------------------------------------------------------
(* Decisions *)

(* Slip: every reason has a cooldown of its own, and the room has none.    *)
AllowRoom(join) == RoomBreached(join) \/ ~Lately(captchaAt, JoinCooldown)

(* One cooldown for the captcha, whatever asks for it.                     *)
AllowCaptcha(join) == ~Lately(captchaAt, JoinCooldown)

CaptchaWanted(join) == RoomBreached(join) \/ HashBreached(join) \/ NameBreached(join)

(* The signal is renewed by every raid, also by one that leads to nothing. *)
Repeats(join) ==
    /\ HashBreached(join) /\ Lately(AgedSignals[HashOf[join.who]], RaidWindow)
    /\ ~Lately(AgedBans[join.who], JoinCooldown)

OnJoin(j) ==
    LET join == [at |-> jtime, who |-> j]
        captcha == CaptchaWanted(join) /\ AllowCaptcha(join)
        ban == Repeats(join)
    IN  /\ j \notin Guarded /\ Len(joined) < MaxJoins
        /\ room' = IF RoomBreached(join) THEN <<>> ELSE RoomWith(join)
        /\ hashes' = HashAfter(join) /\ names' = NameAfter(join)
        /\ signals' = IF HashBreached(join) THEN [AgedSignals EXCEPT ![HashOf[j]] = jtime]
                      ELSE AgedSignals
        /\ captchaAt' = IF captcha THEN jtime ELSE captchaAt
        /\ banAt' = IF ban THEN [AgedBans EXCEPT ![j] = jtime] ELSE AgedBans
        /\ decided' = [captcha |-> captcha, ban |-> IF ban THEN {j} ELSE {}]
        /\ joined' = Append(joined, join) /\ UNCHANGED jtime

(* A guarded joiner, and a monitor that is off, change nothing.            *)
OnGuarded == \E j \in Guarded : decided' = Nothing
                /\ UNCHANGED <<jtime, room, hashes, names, signals, captchaAt, banAt, joined>>

JoinTick ==
    /\ jtime < MaxJoinTime /\ jtime' = jtime + 1 /\ decided' = Nothing
    /\ UNCHANGED <<room, hashes, names, signals, captchaAt, banAt, joined>>

JoinNext == (\E j \in Joiners : OnJoin(j)) \/ OnGuarded \/ JoinTick
JoinSpec == JoinInit /\ [][JoinNext]_joinVars

-----------------------------------------------------------------------------
(* Properties, of the joins that really happened *)

(* The nicks of one hash among the joins from a to b, and what makes these *)
(* joins a raid.                                                           *)
Raiders(h, a, b) == {Nick[joined[i].who] : i \in {k \in a..b : HashOf[joined[k].who] = h}}
IsRaid(h, a, b) ==
    /\ joined[b].at - joined[a].at <= SameHashWindow
    /\ Cardinality(Raiders(h, a, b)) >= SameHashCount

(* Nobody is banned for one raid: a ban follows two raids of the hash with *)
(* no join in common, whose ends are at most RaidWindow apart.             *)
RaidIsRepeated ==
    \A j \in decided.ban :
        LET n == Len(joined)
            h == HashOf[j]
        IN  \E b \in 1..(n - 1) :
               /\ \E a \in 1..b : IsRaid(h, a, b)
               /\ \E a \in (b + 1)..n : IsRaid(h, a, n)
               /\ joined[n].at - joined[b].at <= RaidWindow

(* No raid is met by silence: when one is complete a captcha was decided   *)
(* at most a cooldown and the age of a bucket that started over ago.       *)
RaidIsMet ==
    \A a, b \in DOMAIN joined :
        (a <= b /\ HashOf[joined[b].who] # Blank /\ IsRaid(HashOf[joined[b].who], a, b))
        => captchaAt # Unset /\ captchaAt >= joined[b].at - (JoinCooldown + SameHashWindow)

(* A captcha is not decided again within its cooldown, whichever of the    *)
(* three detectors asks for it.                                            *)
CaptchaIsThrottled ==
    [][decided'.captcha /\ captchaAt # Unset => jtime - captchaAt > JoinCooldown]_joinVars

JoinTypeOK ==
    /\ jtime \in 0..MaxJoinTime /\ captchaAt \in Unset..MaxJoinTime
    /\ decided.ban \subseteq Joiners /\ decided.captcha \in BOOLEAN
    /\ \A h \in Hashes : hashes[h] \in Seq([at : 0..MaxJoinTime, who : Joiners])

(* A raid is what repeats within a window, it is met with a captcha or a   *)
(* ban, and a captcha is set once per cooldown.                            *)
RaidsAreMet == [](JoinTypeOK /\ RaidIsRepeated /\ RaidIsMet) /\ CaptchaIsThrottled
=============================================================================
