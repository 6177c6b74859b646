----------------------------- MODULE SchemaUpgrade -----------------------------
(***************************************************************************)
(* Opening the SQLite database: Open and bootstrap of                      *)
(* internal/repository/sqlite/database.go.  Every start of the program     *)
(* installs the schema or upgrades the one it finds, in one transaction    *)
(* that begins with the write lock, on a connection whose foreign keys are *)
(* suspended because two tables are rebuilt.  A start may fail or crash at *)
(* any step, and a second process may open the same file.  SQLite is       *)
(* external: a transaction works on a draft of the file, a new row of an   *)
(* AUTOINCREMENT table takes the number after the highest it ever held.    *)
(***************************************************************************)
EXTENDS Integers, FiniteSetsExt

CONSTANTS
    Openers,              \* starts of the program on this file
    MaxTrip,             \* bound: numbers given to trips
    MaxDiskFaults            \* bound: failures and crashes

currentSchemaVersion == 5

ASSUME SchemaAssumption == MaxTrip \in Nat /\ MaxDiskFaults \in Nat

VARIABLES
    file,        \* the committed database
    opening,     \* of each start: how far it has come, and the draft of its transaction
    locked,      \* the starts that hold the write lock
    kept,        \* history: the rows, links and indexes that users have a right to find
    diskFaults

schemaVars == <<file, opening, locked, kept, diskFaults>>

(* A table is absent, as this release creates it, as an older release did, *)
(* or with columns that no release has.                                    *)
Shapes == {"none", "old", "current", "custom"}
OldTrips == 1..MaxTrip

NoFile == [version |-> 0, messages |-> "none", mail |-> "none", blanks |-> FALSE,
           trips |-> "none", rows |-> {}, highest |-> 0, indexes |-> {}, links |-> {},
           summary |-> "none", nulls |-> FALSE, notes |-> {}]

Closed == [step |-> "closed", draft |-> NoFile, keys |-> TRUE, found |-> 0, faulted |-> FALSE]

Kept(f) == [rows |-> f.rows, links |-> f.links, indexes |-> f.indexes, notes |-> f.notes,
            given |-> 1..f.highest]

SchemaInit ==
    /\ file = NoFile /\ locked = {} /\ diskFaults = 0 /\ kept = Kept(NoFile)
    /\ opening = [s \in Openers |-> Closed]

(* The file that an earlier release, or someone's hands, left behind.      *)
LeftRow(version, table, highest, rows, links, indexes, summary, nulls) ==
    [version |-> version, messages |-> table, mail |-> table, blanks |-> table = "current",
     trips |-> table, rows |-> rows, highest |-> highest, indexes |-> indexes,
     links |-> links, summary |-> summary, nulls |-> nulls,
     notes |-> IF summary = "none" THEN {} ELSE {"summary"}]

Deploy ==
    /\ \A s \in Openers : opening[s] = Closed
    /\ file = NoFile
    /\ \E version \in {0, 4, 5, 6}, table \in {"old", "current", "custom"}, highest \in 0..(MaxTrip - 1),
          summary \in Shapes, nulls \in BOOLEAN, indexes \in SUBSET {"index"} :
       \E rows \in SUBSET (1..highest) : \E links \in SUBSET (1..highest) :
            /\ nulls => summary \in {"old", "custom"}
            /\ file' = LeftRow(version, table, highest, rows, links, indexes, summary, nulls)
            /\ kept' = Kept(file')
    /\ UNCHANGED <<opening, locked, diskFaults>>

-----------------------------------------------------------------------------
(* Open and bootstrap, step by step *)

AtPoint(s, step) == opening[s].step = step
Draft(s) == opening[s].draft
Move(s, step) == opening' = [opening EXCEPT ![s].step = step]
Write(s, step, draft) == opening' = [opening EXCEPT ![s].step = step, ![s].draft = draft]
Elsewhere == UNCHANGED <<file, locked, kept, diskFaults>>

(* RefuseStart is a return with an error: the deferred calls follow. *)
RefuseStart(s) == Move(s, "failed")

Ping(s) == AtPoint(s, "closed") /\ Move(s, "connected") /\ Elsewhere

SuspendKeysNot(s) ==                                 \* slip: keys stay enforced
    /\ AtPoint(s, "connected")
    /\ opening' = [opening EXCEPT ![s].step = "suspended"]
    /\ Elsewhere

SuspendKeys(s) ==
    /\ AtPoint(s, "connected")
    /\ opening' = [opening EXCEPT ![s].step = "suspended", ![s].keys = FALSE]
    /\ Elsewhere

(* The write lock is taken before anything is read.                        *)
BeginTx(s) ==
    /\ AtPoint(s, "suspended") /\ locked = {}
    /\ opening' = [opening EXCEPT ![s].step = "begun", ![s].draft = file]
    /\ locked' = {s} /\ UNCHANGED <<file, kept, diskFaults>>

CheckVersion(s) ==
    /\ AtPoint(s, "begun")
    /\ IF Draft(s).version > currentSchemaVersion THEN RefuseStart(s)
       ELSE opening' = [opening EXCEPT ![s].step = "known", ![s].found = Draft(s).version]
    /\ Elsewhere

Widened(shape) == IF shape = "old" THEN "current" ELSE shape

EnsureColumns(s) ==
    /\ AtPoint(s, "known")
    /\ Write(s, "widened", [Draft(s) EXCEPT !.messages = Widened(@), !.mail = Widened(@),
                                            !.blanks = @ \/ Draft(s).messages = "old"])
    /\ Elsewhere

Installed(shape) == IF shape = "none" THEN "current" ELSE shape

InstallSchema(s) ==
    /\ AtPoint(s, "widened")
    /\ Write(s, "installed", [Draft(s) EXCEPT !.messages = Installed(@), !.mail = Installed(@),
                                              !.trips = Installed(@), !.summary = Installed(@)])
    /\ Elsewhere

FillVisibility(s) ==
    /\ AtPoint(s, "installed")
    /\ Write(s, "filled", [Draft(s) EXCEPT !.blanks = FALSE])
    /\ Elsewhere

(* DROP TABLE deletes the rows first, which foreign keys would forbid.     *)
DropIsAllowed(s) == opening[s].keys => Draft(s).links = {}

(* trips is rebuilt when its roles lack PEST: copied by id, its indexes    *)
(* and triggers made again, and the highest number it ever held restored.  *)
MarkOfRows(before, rows) == Max({0} \cup rows)       \* slip: only the copied rows count
RestoredMark(before, rows) == Max({before} \cup rows)

UpgradeTrips(s) ==
    /\ AtPoint(s, "filled")
    /\ IF Draft(s).trips = "current" THEN Move(s, "trips")
       ELSE IF Draft(s).trips = "custom" \/ ~DropIsAllowed(s) THEN RefuseStart(s)
       ELSE Write(s, "trips", [Draft(s) EXCEPT !.trips = "current",
                                 !.highest = RestoredMark(@, Draft(s).rows)])
    /\ Elsewhere

UpgradeSummary(s) ==
    /\ AtPoint(s, "trips")
    /\ IF Draft(s).summary = "current" THEN Move(s, "summary")
       ELSE IF Draft(s).summary = "custom" \/ Draft(s).nulls THEN RefuseStart(s)
       ELSE Write(s, "summary", [Draft(s) EXCEPT !.summary = "current"])
    /\ Elsewhere

CheckKeys(s) ==
    /\ AtPoint(s, "summary")
    /\ IF Draft(s).links \subseteq Draft(s).rows THEN Move(s, "checked") ELSE RefuseStart(s)
    /\ Elsewhere

RecordVersion(s) ==
    /\ AtPoint(s, "checked")
    /\ Write(s, "recorded", IF opening[s].found < currentSchemaVersion
                            THEN [Draft(s) EXCEPT !.version = currentSchemaVersion] ELSE Draft(s))
    /\ Elsewhere

Commit(s) ==
    /\ AtPoint(s, "recorded")
    /\ file' = Draft(s) /\ locked' = {} /\ Move(s, "committed")
    /\ UNCHANGED <<kept, diskFaults>>

Rollback(s) ==
    /\ AtPoint(s, "failed")
    /\ locked' = locked \ {s} /\ Move(s, "rolled back")
    /\ UNCHANGED <<file, kept, diskFaults>>

(* PRAGMA foreign_keys is ignored inside a transaction.                    *)
RestoreKeys(s) ==
    /\ opening[s].step \in {"committed", "rolled back"}
    /\ opening' = [opening EXCEPT ![s].keys = @ \/ s \notin locked,
                                  ![s].step = IF @ = "committed" THEN "open" ELSE "refused"]
    /\ Elsewhere

Steps == {"connected", "suspended", "begun", "known", "widened", "installed", "filled", "trips",
          "summary", "checked", "recorded", "committed"}

(* Any call to the database may fail, a busy lock past its timeout among   *)
(* them; a COMMIT that fails leaves nothing.                               *)
Fail(s) ==
    /\ opening[s].step \in Steps \ {"committed"} /\ diskFaults < MaxDiskFaults
    /\ opening' = [opening EXCEPT ![s].step = "failed", ![s].faulted = TRUE]
    /\ diskFaults' = diskFaults + 1 /\ UNCHANGED <<file, locked, kept>>

Die(s) ==
    /\ opening[s].step # "closed" /\ diskFaults < MaxDiskFaults
    /\ opening' = [opening EXCEPT ![s] = Closed]
    /\ locked' = locked \ {s}
    /\ diskFaults' = diskFaults + 1 /\ UNCHANGED <<file, kept>>

-----------------------------------------------------------------------------
(* The program at work: rows of trips and of trip_names come and go        *)

Unlocked(s) == AtPoint(s, "open") /\ locked = {}

NextNumber == 1 + Max({file.highest} \cup file.rows)

AddTrip(s) ==
    /\ Unlocked(s) /\ NextNumber <= MaxTrip
    /\ file' = [file EXCEPT !.rows = @ \cup {NextNumber}, !.highest = NextNumber]
    /\ kept' = [kept EXCEPT !.rows = @ \cup {NextNumber}, !.given = @ \cup {NextNumber}]
    /\ UNCHANGED <<opening, locked, diskFaults>>

LinkTrip(s) ==
    /\ Unlocked(s)
    /\ \E t \in file.rows \ file.links :
            /\ file' = [file EXCEPT !.links = @ \cup {t}]
            /\ kept' = [kept EXCEPT !.links = @ \cup {t}]
    /\ UNCHANGED <<opening, locked, diskFaults>>

RemoveTrip(s) ==
    /\ Unlocked(s)
    /\ \E t \in file.rows :
            /\ file' = [file EXCEPT !.rows = @ \ {t}, !.links = @ \ {t}]
            /\ kept' = [kept EXCEPT !.rows = @ \ {t}, !.links = @ \ {t}]
    /\ UNCHANGED <<opening, locked, diskFaults>>

Bootstrap(s) ==
    \/ SuspendKeys(s) \/ BeginTx(s) \/ CheckVersion(s) \/ EnsureColumns(s) \/ InstallSchema(s)
    \/ FillVisibility(s) \/ UpgradeTrips(s) \/ UpgradeSummary(s) \/ CheckKeys(s)
    \/ RecordVersion(s) \/ Commit(s) \/ Rollback(s) \/ RestoreKeys(s)

SchemaNext ==
    \/ Deploy
    \/ \E s \in Openers : \/ Ping(s) \/ Bootstrap(s) \/ Fail(s) \/ Die(s)
                         \/ AddTrip(s) \/ LinkTrip(s) \/ RemoveTrip(s)

SchemaSpec == SchemaInit /\ [][SchemaNext]_schemaVars

-----------------------------------------------------------------------------
(* Properties *)

SchemaTypeOK ==
    /\ {file.messages, file.mail, file.trips, file.summary} \subseteq Shapes
    /\ file.version \in 0..6 /\ file.rows \subseteq OldTrips /\ file.links \subseteq OldTrips
    /\ file.highest \in 0..MaxTrip /\ locked \subseteq Openers /\ Cardinality(locked) <= 1
    /\ \A s \in Openers : opening[s].step \in Steps \cup {"closed", "failed", "rolled back", "open",
                                                        "refused"}
    /\ diskFaults \in 0..MaxDiskFaults

(* Whatever fails or crashes, and whoever else opens the file: its rows,   *)
(* links, summaries, indexes and triggers are those that were written, and *)
(* no trip is given the number of an earlier one, which old rows of other  *)
(* tables may still mean.                                                  *)
NothingIsLost ==
    /\ Kept(file) = [kept EXCEPT !.given = 1..file.highest]
    /\ \A t \in kept.given : t <= file.highest

Current(f) == /\ {f.trips, f.summary} = {"current"} /\ "old" \notin {f.messages, f.mail}
              /\ f.version = currentSchemaVersion /\ f.links \subseteq f.rows /\ ~f.blanks

Unsupported(f) == \/ f.version > currentSchemaVersion
                  \/ "custom" \in {f.trips, f.summary}
                  \/ f.nulls \/ ~(f.links \subseteq f.rows)

(* A database that was opened has the current schema and enforces its      *)
(* foreign keys, and one that was refused cannot be upgraded without loss: *)
(* any other file is opened unless a call failed.                          *)
OpenIsSound ==
    \A s \in Openers :
        /\ AtPoint(s, "open") => Current(file) /\ opening[s].keys
        /\ AtPoint(s, "refused") => Unsupported(file) \/ opening[s].faulted

(* Whatever fails, crashes or overlaps, nothing that was written is lost   *)
(* and what was opened has the schema the program expects.                 *)
UpgradeIsSafe == SchemaTypeOK /\ NothingIsLost /\ OpenIsSound
=============================================================================
