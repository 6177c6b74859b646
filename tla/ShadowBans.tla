------------------------------ MODULE ShadowBans ------------------------------
(***************************************************************************)
(* The records of shadow-banned users and the commands that act on users   *)
(* of a room (internal/command/shadow_ban.go, unshadow_ban.go, the kick of *)
(* handlers.go; internal/repository/sqlite/shadow_ban.go), beside the test *)
(* of the join listener.  A command reads the roster once and then works   *)
(* through what it found, a record and a kick at a time; the pump runs one *)
(* command after the other between the events of the room, while a turn of *)
(* the agent runs its command beside the pump.  Persons and the chat       *)
(* server are external: a kick is a request, which the server may ignore.  *)
(***************************************************************************)
EXTENDS Integers, Sequences, FiniteSets

CONSTANTS
    People,        \* records [name, trip, hash], "" for no trip or hash
    Tokens,        \* the words of an argument list
    Bare,          \* NormalizeNickTarget: a word without its mention marker, "" if
                   \* nothing is left, which is an error
    CaseOf,        \* a name or a word in lower case
    Containing,    \* a word and the names it is a part of
    Lines,         \* the argument lists given
    MaxCommands, MaxArrivals   \* bounds

Names == {p.name : p \in People}

ASSUME BansAssumption ==
    /\ IsFiniteSet(People) /\ "" \notin Tokens
    /\ \A p \in People : DOMAIN p = {"name", "trip", "hash"}
    /\ Names \subseteq Tokens /\ Bare \in [Tokens -> Tokens \union {""}]
    /\ Tokens \subseteq DOMAIN CaseOf /\ Containing \in [Tokens -> SUBSET Names]
    /\ Lines \subseteq Seq(Tokens) /\ {MaxCommands, MaxArrivals} \subseteq Nat

Runners == {"pump", "turn"}    \* who runs a command: the engine's pump, a turn of the agent
NoPerson == [name |-> "", trip |-> "", hash |-> ""]
Idle == [command |-> "none", next |-> "idle", todo |-> <<>>, over |-> FALSE,
         absent |-> FALSE, committed |-> FALSE,   \* committed: RecordCommittedMutation
         meant |-> {}, changed |-> {}, kicked |-> {}, answer |-> "none"]

VARIABLES
    roster,        \* EngineImpl.ActiveUsers
    arriving,      \* the user of the join in the listener's hands
    banRecords,    \* the rows of banned_users
    kickRequests,  \* names of users of the roster a kick was sent for
    tasks,         \* the command of each runner; meant, kicked and changed, the
                   \* rows it saved or removed, are history
    commandsRun, arrivals,
    standing,      \* history: the records that stood since a user joined
    slipped        \* history: users whom the listener could not test or kick

banVars == <<roster, arriving, banRecords, kickRequests, tasks, commandsRun, arrivals,
             standing, slipped>>

SameName(a, b) == CaseOf[a] = CaseOf[b]

BansInit ==
    /\ roster \in {s \in SUBSET People : \A p, q \in s : p # q => ~SameName(p.name, q.name)}
    /\ Cardinality(roster) <= 1
    /\ arriving = NoPerson /\ banRecords = {} /\ kickRequests = {}
    /\ tasks = [r \in Runners |-> Idle] /\ commandsRun = 0 /\ arrivals = 0
    /\ standing = [p \in People |-> {}] /\ slipped = {}

PumpIsFree == arriving = NoPerson /\ tasks["pump"].next = "idle"
Runs(r) == r = "turn" \/ arriving = NoPerson

-----------------------------------------------------------------------------
(* The room and its join listener *)

MatchesByName(p) == \E b \in banRecords : b.name = p.name   \* slip: the name alone
Matches(p) ==
    \E b \in banRecords : \/ p.trip # "" /\ b.trip = p.trip
                          \/ b.name = p.name
                          \/ p.hash # "" /\ b.hash = p.hash

PersonJoins(p) ==
    /\ PumpIsFree /\ arrivals < MaxArrivals
    /\ \A q \in roster : ~SameName(p.name, q.name)
    /\ roster' = roster \union {p} /\ arriving' = p /\ arrivals' = arrivals + 1
    /\ standing' = [standing EXCEPT ![p] = banRecords]
    /\ UNCHANGED <<banRecords, kickRequests, tasks, commandsRun, slipped>>

(* kickIfShadowBanned: an error of the store or of the transport is logged. *)
KickIfShadowBanned ==
    /\ arriving # NoPerson /\ arriving' = NoPerson
    /\ \/ /\ kickRequests' = kickRequests \union {p.name : p \in {q \in {arriving} : Matches(q)}}
          /\ UNCHANGED slipped
       \/ slipped' = slipped \union {arriving} /\ UNCHANGED kickRequests
    /\ UNCHANGED <<roster, banRecords, tasks, commandsRun, arrivals, standing>>

PersonLeaves(p) ==
    /\ PumpIsFree /\ p \in roster /\ roster' = roster \ {p}
    /\ kickRequests' = kickRequests \ {p.name} /\ slipped' = slipped \ {p}
    /\ standing' = [standing EXCEPT ![p] = {}]
    /\ tasks' = [r \in Runners |-> [tasks[r] EXCEPT !.meant = @ \ {p}]]
    /\ UNCHANGED <<arriving, banRecords, commandsRun, arrivals>>

-----------------------------------------------------------------------------
(* What a command takes its arguments for, and whom it finds.              *)

NotASelection == [mode |-> "none", words |-> <<>>]

ParseShadowBan(line) ==
    CASE Len(line) = 1 /\ line[1] # "-c" -> [mode |-> "exact", words |-> line]
      [] Len(line) = 2 /\ line[1] = "-c" /\ line[2] # "-c" ->
            [mode |-> "contains", words |-> <<line[2]>>]
      [] OTHER -> NotASelection

ContainsKickMode(words) == \E i \in DOMAIN words : words[i] \in {"-m", "-c"}
ParseKick(line) ==
    CASE line = <<>> -> NotASelection
      [] line # <<>> /\ line[1] = "-m" ->
            IF Len(line) < 2 \/ ContainsKickMode(Tail(line)) THEN NotASelection
            ELSE [mode |-> "multiple", words |-> Tail(line)]
      [] line # <<>> /\ line[1] = "-c" ->
            IF Len(line) # 2 \/ ContainsKickMode(Tail(line)) THEN NotASelection
            ELSE [mode |-> "contains", words |-> Tail(line)]
      [] OTHER -> IF Len(line) # 1 THEN NotASelection ELSE [mode |-> "exact", words |-> line]

(* A word that NormalizeNickTarget refuses fails the whole command; a       *)
(* fragment is taken as it is.                                              *)
Readable(s) ==
    IF s.mode # "contains" /\ \E i \in DOMAIN s.words : Bare[s.words[i]] = ""
    THEN NotASelection ELSE s
Parsed(command, line) ==
    Readable(IF command = "shadowban" THEN ParseShadowBan(line) ELSE ParseKick(line))

(* The roster is read under its lock, once for a fragment and once for each  *)
(* name; a user that leaves between the reads is one that left before them. *)
ByExactName(n) == {p \in roster : p.name = n}   \* also a slip: the lookup minds case
ByName(n) == {p \in roster : SameName(p.name, n)}
Found(selection) ==
    IF selection.mode = "contains"
    THEN {p \in roster : p.name \in Containing[selection.words[1]]}
    ELSE UNION {ByName(Bare[selection.words[i]]) : i \in DOMAIN selection.words}

(* History: whom the words of the selection mean, whatever the lookup finds. *)
Meant(s) ==
    {p \in roster : \E i \in DOMAIN s.words :
        IF s.mode = "contains" THEN p.name \in Containing[s.words[i]]
        ELSE SameName(p.name, Bare[s.words[i]])}

(* The users in the order of the loop: by name, or as the line gives them,   *)
(* which nothing here depends on; every order is taken.                      *)
Orders(users) == {s \in [1..Cardinality(users) -> users] : {s[i] : i \in DOMAIN s} = users}

-----------------------------------------------------------------------------
(* The commands *)

FirstKicks(command) == "kick"     \* slip: the kick before the record
FirstStep(command) == IF command = "kick" THEN "kick" ELSE "save"
Answer(r, what) == [tasks[r] EXCEPT !.next = "idle", !.todo = <<>>, !.answer = what]
Starts(r) ==
    /\ tasks[r].next = "idle" /\ Runs(r) /\ commandsRun < MaxCommands
    /\ commandsRun' = commandsRun + 1
    /\ UNCHANGED <<roster, arriving, banRecords, kickRequests, arrivals, standing, slipped>>

Refuse(r, command, line) ==
    /\ Starts(r)
    /\ \/ Parsed(command, line) = NotASelection
       \/ /\ Found(Parsed(command, line)) = {}
          /\ command = "kick" \/ Parsed(command, line).mode = "contains"
    /\ tasks' = [tasks EXCEPT ![r] = [Idle EXCEPT !.command = command, !.answer = "failed"]]

Select(r, command, line) ==
    /\ Starts(r)
    /\ \E users \in {Found(Parsed(command, line))} :
        /\ users # {}
        /\ \E order \in Orders(users) :
             tasks' = [tasks EXCEPT ![r] = [Idle EXCEPT
                !.command = command, !.todo = order,
                !.next = FirstStep(command),
                !.meant = Meant(Parsed(command, line))]]

(* shadowBanSingle of a user who is not there saves his name alone.          *)
SelectAbsent(r, line) ==
    /\ Starts(r)
    /\ Parsed("shadowban", line).mode = "exact" /\ Found(Parsed("shadowban", line)) = {}
    /\ tasks' = [tasks EXCEPT ![r] = [Idle EXCEPT
            !.command = "shadowban", !.next = "save", !.absent = TRUE,
            !.todo = <<[NoPerson EXCEPT !.name = Bare[line[1]]]>>,
            !.meant = Meant(Parsed("shadowban", line))]]

ContextEnds(r) ==
    /\ tasks[r].next # "idle" /\ ~tasks[r].over
    /\ tasks' = [tasks EXCEPT ![r].over = TRUE]
    /\ UNCHANGED <<roster, arriving, banRecords, kickRequests, commandsRun, arrivals,
                   standing, slipped>>

(* Every step fails on an ended context; a record, a kick and a reply may    *)
(* fail by themselves.                                                       *)
Fails(r) ==
    /\ tasks[r].next # "idle" /\ (tasks[r].next = "done" => tasks[r].over)
    /\ tasks' = [tasks EXCEPT ![r] = Answer(r, "failed")]
    /\ UNCHANGED <<roster, arriving, banRecords, kickRequests, commandsRun, arrivals,
                   standing, slipped>>

LastStep(r) == IF tasks[r].command = "kick" THEN "done" ELSE "reply"
AfterFirstKick(r) == LastStep(r)     \* slip: the loop ends after one user
AfterKick(r) == IF Len(tasks[r].todo) > 1 THEN FirstStep(tasks[r].command) ELSE LastStep(r)

(* The service of the records tells the receipts of the command of a change. *)
Committed(task, changed) == [task EXCEPT !.committed = @ \/ changed]
Recorded(user) == banRecords \union {user}

AfterSave(t, user) ==
    Committed([t EXCEPT !.changed = @ \union {user},
                        !.next = IF t.absent THEN "reply" ELSE "kick"], TRUE)

Save(r) ==
    /\ tasks[r].next = "save" /\ ~tasks[r].over
    /\ \E user \in {Head(tasks[r].todo)} :
        /\ banRecords' = Recorded(user)
        /\ tasks' = [tasks EXCEPT ![r] = AfterSave(tasks[r], user)]
    /\ UNCHANGED <<roster, arriving, kickRequests, commandsRun, arrivals, standing, slipped>>

Kick(r) ==
    /\ tasks[r].next = "kick" /\ ~tasks[r].over
    /\ \E user \in {Head(tasks[r].todo)} :
        /\ kickRequests' = kickRequests \union {p.name : p \in ByExactName(user.name)}
        /\ tasks' = [tasks EXCEPT ![r].kicked = @ \union {user.name},
                        ![r].todo = Tail(@), ![r].next = AfterKick(r)]
    /\ UNCHANGED <<roster, arriving, banRecords, commandsRun, arrivals, standing, slipped>>

Succeed(r) ==
    /\ tasks[r].next \in {"reply", "done"} /\ ~tasks[r].over
    /\ tasks' = [tasks EXCEPT ![r] = Answer(r, "success")]
    /\ UNCHANGED <<roster, arriving, banRecords, kickRequests, commandsRun, arrivals,
                   standing, slipped>>

(* RemoveShadowBanBySourceTarget, and RemoveAllShadowBans for "-all".  A bad *)
(* line, an error of the store and no row at all are failures without a      *)
(* change; once rows are gone only the reply is left to fail.                *)
Removed(word) ==
    {b \in banRecords :
        \/ word = "-all"
        \/ Bare[word] # "" /\ (b.name = Bare[word] \/ b.trip = word \/ b.hash = word)}
UnbanFails(r) ==
    /\ Starts(r)
    /\ tasks' = [tasks EXCEPT ![r] = [Idle EXCEPT !.command = "unshadowban", !.answer = "failed"]]

Unban(r, line) ==
    /\ tasks[r].next = "idle" /\ Runs(r) /\ commandsRun < MaxCommands
    /\ Len(line) = 1 /\ Removed(line[1]) # {}
    /\ commandsRun' = commandsRun + 1
    /\ banRecords' = banRecords \ Removed(line[1])
    /\ standing' = [p \in People |-> standing[p] \ Removed(line[1])]
    /\ tasks' = [tasks EXCEPT ![r] = Committed([Idle EXCEPT !.command = "unshadowban",
                    !.next = "reply", !.changed = Removed(line[1])], TRUE)]
    /\ UNCHANGED <<roster, arriving, kickRequests, arrivals, slipped>>

BansNext ==
    \/ \E p \in People : PersonJoins(p) \/ PersonLeaves(p)
    \/ KickIfShadowBanned
    \/ \E r \in Runners :
         \/ \E line \in Lines :
              \/ \E command \in {"shadowban", "kick"} :
                    Refuse(r, command, line) \/ Select(r, command, line)
              \/ SelectAbsent(r, line) \/ Unban(r, line)
         \/ UnbanFails(r)
         \/ ContextEnds(r) \/ Fails(r) \/ Save(r) \/ Kick(r) \/ Succeed(r)

BansSpec == BansInit /\ [][BansNext]_banVars

-----------------------------------------------------------------------------
(* Properties *)

(* The state has its shape.                                                  *)
BansTypeOK ==
    /\ roster \subseteq People /\ arriving \in People \union {NoPerson}
    /\ kickRequests \subseteq Names /\ slipped \subseteq roster
    /\ \A r \in Runners : tasks[r].next \in {"idle", "save", "kick", "reply", "done"}
    /\ \A r \in Runners : tasks[r].next \in {"save", "kick"} => tasks[r].todo # <<>>

(* A shadow ban or a kick that reports success did all of it: every user its *)
(* words mean who was in the room from its start to its end was recorded and *)
(* asked to leave; an unban that reports success removed a row               *)
(* (shadow_ban.go:79-88, handlers.go:347-357, unshadow_ban.go:47-62).        *)
SuccessIsWhole ==
    \A r \in Runners : LET t == tasks[r] IN
        t.answer = "success" =>
            /\ \A p \in t.meant : p.name \in t.kicked
            /\ t.command = "shadowban" => t.meant \subseteq t.changed
            /\ t.command = "unshadowban" => t.changed # {}

(* A shadow ban stopped half way has asked nobody to leave whom it has not   *)
(* recorded: otherwise he would be back at once (shadow_ban.go:146-164).     *)
KicksAreRecorded ==
    \A r \in Runners : tasks[r].command = "shadowban" =>
        \A n \in tasks[r].kicked : \E b \in tasks[r].changed : b.name = n

(* The receipts of a command say that it changed the records if and only if  *)
(* it did, however it ended: the agent reads its outcome from them           *)
(* (internal/service/shadow_ban.go:36-75).                                   *)
ChangesAreTold ==
    \A r \in Runners : tasks[r].committed <=> tasks[r].changed # {}

(* A user who is recorded when he joins, under his name, trip or hash, and   *)
(* stays recorded, is asked to leave unless the test or the kick failed      *)
(* (user_joined_listener.go:67-88, sqlite/shadow_ban.go:90-112).             *)
CaughtAtTheDoor ==
    \A p \in roster \ {arriving} :
        (\E b \in standing[p] : \/ b.name = p.name
                                \/ b.trip = p.trip /\ p.trip # ""
                                \/ b.hash = p.hash /\ p.hash # "")
            => p.name \in kickRequests \/ p \in slipped

(* A ban that reports success is recorded and enforced, a kick has its     *)
(* record, and whoever a record names is caught when he joins.             *)
BansAreWhole ==
    BansTypeOK /\ SuccessIsWhole /\ KicksAreRecorded /\ ChangesAreTold /\ CaughtAtTheDoor
=============================================================================
