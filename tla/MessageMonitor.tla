----------------------------- MODULE MessageMonitor -----------------------------
(***************************************************************************)
(* The monitor of public messages (internal/agent/moderation/              *)
(* message_monitor.go) and the automation that runs its decisions          *)
(* (internal/agent/live/message_automation.go): windows of bursts and of   *)
(* repeated texts per identity, and a ladder of sanctions that is climbed  *)
(* while the last one is fresh.  Time is counted in ticks.                 *)
(***************************************************************************)
EXTENDS Integers, SequencesExt

CONSTANTS Senders, Identity,        \* who writes, and the identity it maps to
          Protected,                \* senders the monitor never judges
          Texts,                    \* normalized texts
          BurstCount, BurstWindow, RepeatedCount, RepeatedWindow,
          SecondBreachWindow, PostKickWindow, ActionCooldown,
          MaxTime, MaxMessages      \* bounds: ticks, messages

Identities == {Identity[s] : s \in Senders}

(* ComposeMessageAutomation builds no monitor unless all are positive.     *)
ASSUME MonitorAssumption ==
    /\ \A n \in {BurstCount, BurstWindow, RepeatedCount, RepeatedWindow, SecondBreachWindow,
                 PostKickWindow, ActionCooldown} : n \in Nat \ {0}
    /\ Protected \subseteq Senders /\ MaxTime \in Nat /\ MaxMessages \in Nat

VARIABLES
    mtime, mcount,      \* the clock, and messages seen
    recent,             \* messages[identity], oldest first
    offences,           \* the last sanction of an identity
    cooling,            \* when an action was last taken against an identity
    decision,           \* what the last message led to
    log,                \* history: messages of an identity since its last breach
    verdicts            \* history: the last decision against an identity

monitorVars == <<mtime, mcount, recent, offences, cooling, decision, log, verdicts>>

Ladder == <<"warning", "mute", "kick", "shadow-ban">>
Sanctions == ToSet(Ladder)
Rank(action) == CHOOSE i \in DOMAIN Ladder : Ladder[i] = action
Never == -1
NoOffence == [action |-> "none", at |-> Never]

MonitorInit ==
    /\ mtime = 0 /\ mcount = 0
    /\ recent = [i \in Identities |-> <<>>] /\ log = [i \in Identities |-> <<>>]
    /\ offences = [i \in Identities |-> NoOffence]
    /\ verdicts = [i \in Identities |-> NoOffence]
    /\ cooling = [k \in Sanctions \X Identities |-> Never]
    /\ decision = "none"

-----------------------------------------------------------------------------
(* Windows: both ends belong to them *)

Within(previous, window) == previous # Never /\ mtime - previous \in 0..window

(* Slip: the shorter window decides what is forgotten.                     *)
ShorterWindow == IF BurstWindow >= RepeatedWindow THEN RepeatedWindow ELSE BurstWindow

Window == IF BurstWindow >= RepeatedWindow THEN BurstWindow ELSE RepeatedWindow
Since(messages, window) == {i \in DOMAIN messages : messages[i].at >= mtime - window}

(* What is too old is cut off the front, what is behind it stays.          *)
PruneMessages(messages, window) ==
    IF Since(messages, window) = {} THEN <<>>
    ELSE SubSeq(messages, Min(Since(messages, window)), Len(messages))
CountMessages(messages, window) == Cardinality(Since(messages, window))

(* Slip: every offence is forgotten after the window of a second breach.   *)
SameLimit(action) == SecondBreachWindow

Limit(action) ==
    IF action \in {"kick", "shadow-ban"} THEN PostKickWindow ELSE SecondBreachWindow

(* Every map is pruned on every message, not only the sender's entries.    *)
PrunedRecent == [i \in Identities |-> PruneMessages(recent[i], Window)]
PrunedOffences ==
    [i \in Identities |->
        IF Within(offences[i].at, Limit(offences[i].action)) THEN offences[i] ELSE NoOffence]
PrunedCooling ==
    [k \in Sanctions \X Identities |-> IF Within(cooling[k], ActionCooldown) THEN cooling[k] ELSE Never]

Repeated(messages, text) ==
    Cardinality({i \in Since(messages, RepeatedWindow) : messages[i].text = text})
IsRepeated(messages, text) == Repeated(messages, text) >= RepeatedCount
Breached(messages, text) ==
    CountMessages(messages, BurstWindow) >= BurstCount \/ IsRepeated(messages, text)

-----------------------------------------------------------------------------
(* The ladder *)

NextSanction(previous, repeated) ==
    CASE previous.action = "kick" /\ Within(previous.at, PostKickWindow) -> "shadow-ban"
      [] previous.action = "mute" /\ Within(previous.at, SecondBreachWindow) -> "kick"
      [] previous.action = "warning" /\ Within(previous.at, SecondBreachWindow) -> "mute"
      [] OTHER -> IF repeated THEN "mute" ELSE "warning"

(* A shadow-banned identity is left alone; an action that cools is neither *)
(* taken nor remembered.                                                   *)
Escalate(id, repeated) ==
    LET previous == PrunedOffences[id]
        action == NextSanction(previous, repeated)
    IN  IF previous.action = "shadow-ban" \/ Within(PrunedCooling[<<action, id>>], ActionCooldown)
        THEN /\ decision' = "none" /\ offences' = PrunedOffences /\ cooling' = PrunedCooling
             /\ UNCHANGED verdicts
        ELSE /\ decision' = action
             /\ offences' = [PrunedOffences EXCEPT ![id] = [action |-> action, at |-> mtime]]
             /\ cooling' = [PrunedCooling EXCEPT ![<<action, id>>] = mtime]
             /\ verdicts' = [verdicts EXCEPT ![id] = [action |-> action, at |-> mtime]]

OnMessage ==
    /\ mcount < MaxMessages /\ mcount' = mcount + 1
    /\ \E s \in Senders \ Protected, text \in Texts :
          LET id == Identity[s]
              message == [at |-> mtime, text |-> text]
              mine == Append(PrunedRecent[id], message)
          IN  IF Breached(mine, text)
              THEN /\ recent' = [PrunedRecent EXCEPT ![id] = <<>>]
                   /\ log' = [log EXCEPT ![id] = <<>>]
                   /\ Escalate(id, IsRepeated(mine, text))
              ELSE /\ recent' = [PrunedRecent EXCEPT ![id] = mine]
                   /\ log' = [log EXCEPT ![id] = Append(@, message)]
                   /\ decision' = "none"
                   /\ offences' = PrunedOffences /\ cooling' = PrunedCooling
                   /\ UNCHANGED verdicts
    /\ UNCHANGED mtime

(* A whisper, a protected author and an empty text change nothing.         *)
OnIgnored ==
    /\ mcount < MaxMessages /\ mcount' = mcount + 1 /\ decision' = "none"
    /\ UNCHANGED <<mtime, recent, offences, cooling, log, verdicts>>

(* The automation runs the decision before the next message is looked at;  *)
(* its failure is only logged.                                             *)
Elapse ==
    /\ mtime < MaxTime /\ mtime' = mtime + 1 /\ decision' = "none"
    /\ UNCHANGED <<mcount, recent, offences, cooling, log, verdicts>>

MonitorNext == OnMessage \/ OnIgnored \/ Elapse
MonitorSpec == MonitorInit /\ [][MonitorNext]_monitorVars

-----------------------------------------------------------------------------
(* Properties *)

(* While a sanction is fresh the next one against the same identity is     *)
(* harder: none is repeated and none is followed by a milder one, whatever *)
(* nick it writes under and whichever entries were pruned in between.  A   *)
(* kick stays fresh for PostKickWindow, a warning or a mute for            *)
(* SecondBreachWindow.                                                     *)
LadderIsClimbed ==
    [][\A i \in Identities :
         LET last == verdicts[i]
             age == verdicts'[i].at - last.at
         IN  verdicts'[i] # last
             => /\ last.action \in {"warning", "mute"} /\ age <= SecondBreachWindow
                      => Rank(verdicts'[i].action) > Rank(last.action)
                /\ last.action = "kick" /\ age <= PostKickWindow
                      => verdicts'[i].action = "shadow-ban"
                /\ last.action = "shadow-ban" => age > PostKickWindow]_monitorVars

(* Pruning is invisible: judged on every message since the last breach,    *)
(* nothing forgotten, the same messages breach the same limits.            *)
PruningIsInvisible ==
    \A i \in Identities :
        /\ CountMessages(log[i], BurstWindow) < BurstCount
        /\ CountMessages(recent[i], BurstWindow) = CountMessages(log[i], BurstWindow)
        /\ \A text \in Texts : Repeated(recent[i], text) = Repeated(log[i], text)

MonitorTypeOK ==
    /\ mtime \in 0..MaxTime /\ mcount \in 0..MaxMessages
    /\ decision \in Sanctions \cup {"none"}
    /\ \A i \in Identities : recent[i] \in Seq([at : 0..MaxTime, text : Texts])

(* Offences are counted over all messages of a window and sanctions climb  *)
(* one step at a time.                                                     *)
MonitorIsFair == [](MonitorTypeOK /\ PruningIsInvisible) /\ LadderIsClimbed
=============================================================================
