----------------------------- MODULE AgentMemory -----------------------------
(***************************************************************************)
(* The conversation memory of the room agent under one memory key: what a  *)
(* turn loads (agent/live/memory.go, agent/turn/compaction.go), what the   *)
(* model call that summarises older turns leaves behind, what the turn     *)
(* records (agent/live/runner.go) and the two tables beneath               *)
(* (repository/sqlite/agent_memory.go).  The keyed lock of the runtime     *)
(* lets one turn of a key run at a time; turns of other keys only delete   *)
(* what has expired.  An exchange is a user and an assistant row written   *)
(* in one transaction: one record here, with one id.                       *)
(***************************************************************************)
EXTENDS Integers, FiniteSets

CONSTANTS Turns,     \* agent.memoryTurns: exchanges that a load reads
          RawTurns,  \* agent.memoryRawTurns: exchanges left as they are
          TTL,       \* agent.memoryTtl
          MaxId,     \* bound: exchanges ever written
          MaxClock   \* bound: the clock

\* The configuration admits RawTurns = Turns as well: nothing is summarised
\* then, and an exchange beyond the window is forgotten.
ASSUME WindowAssumption == Turns \in Nat /\ RawTurns \in 1..(Turns - 1)
ASSUME TTLAssumption == TTL \in Nat \ {0} /\ MaxId \in Nat /\ MaxClock \in Nat

VARIABLES
  clock, stepped,  \* the wall clock; did it ever step back?
  rows,            \* table agent_memory
  nextId,          \* its AUTOINCREMENT counter
  summary,         \* table agent_memory_summary
  step,            \* where the turn stands
  asked,           \* LoadContext's now
  window,          \* the exchanges it has read, in the order of Earlier
  known,           \* the summary it has read, or has just had made
  context,         \* what the turn is given: exchanges and a summary's reach
  acted            \* a tool of the turn has run

timeVars  == <<clock, stepped>>
tableVars == <<rows, nextId, summary>>
turnVars  == <<step, asked, window, known, context, acted>>
memoryVars == <<timeVars, tableVars, turnVars>>

Exchange == [id : 1..MaxId, created : 0..MaxClock, expires : Int]
\* covers is a history variable: the exchanges that went into the text.
Summary == [cursor : 1..MaxId, covers : SUBSET (1..MaxId), expires : Int]
NoSummary == [cursor |-> 0, covers |-> {}, expires |-> 0]
Ids(xs) == {x.id : x \in xs}

MemoryTypeOK ==
  /\ clock \in 0..MaxClock /\ stepped \in BOOLEAN
  /\ rows \in SUBSET Exchange /\ nextId \in 1..(MaxId + 1)
  /\ summary \in Summary \cup {NoSummary}
  /\ step \in {"idle", "read", "summarizing", "storing", "running", "recording"}
  /\ asked \in 0..MaxClock
  /\ window \subseteq Exchange
  /\ known \in Summary \cup {NoSummary}
  /\ context \in [raw : SUBSET (1..MaxId), covers : SUBSET (1..MaxId)]
  /\ acted \in BOOLEAN

NoContext == [raw |-> {}, covers |-> {}]

MemoryInit ==
  /\ clock = 0 /\ stepped = FALSE
  /\ rows = {} /\ nextId = 1 /\ summary = NoSummary
  /\ step = "idle" /\ asked = 0 /\ window = {} /\ known = NoSummary
  /\ context = NoContext /\ acted = FALSE

-----------------------------------------------------------------------------
(* The clock of the machine, and the clean-up that every append of any key *)
(* does in its transaction.                                                *)

Tick ==
  /\ clock < MaxClock
  /\ clock' = clock + 1
  /\ UNCHANGED <<stepped, tableVars, turnVars>>

StepBack ==
  /\ clock > 0
  /\ clock' = clock - 1 /\ stepped' = TRUE
  /\ UNCHANGED <<tableVars, turnVars>>

Live(x, now) == x.expires > now
Kept(now) == {x \in rows : Live(x, now)}
KeptSummary(now) == IF Live(summary, now) THEN summary ELSE NoSummary

OtherKeyCleansUp ==
  /\ rows' = Kept(clock) /\ summary' = KeptSummary(clock)
  /\ UNCHANGED <<timeVars, nextId, turnVars>>

-----------------------------------------------------------------------------
(* Loading. *)

Earlier(x, y) == x.created < y.created \/ (x.created = y.created /\ x.id < y.id)

\* ORDER BY created_on DESC, id DESC LIMIT 2 * turns.
Newest(xs, n) == {x \in xs : Cardinality({y \in xs : Earlier(x, y)}) < n}
Oldest(xs, n) == {x \in xs : Cardinality({y \in xs : Earlier(y, x)}) < n}

ReadRows ==
  /\ step = "idle" /\ nextId <= MaxId
  /\ asked' = clock
  /\ window' = Newest(Kept(clock), Turns)
  /\ step' = "read"
  /\ UNCHANGED <<timeVars, tableVars, known, context, acted>>

\* The exchanges that the summary does not cover already.
Eligible(w, s) == {x \in w : x.id > s.cursor}

Fits(w) == Cardinality(w) <= RawTurns

\* A slip: the newest are given to the summary.
KeepOldest(w) == w \ Oldest(w, RawTurns)

\* All but the newest RawTurns are to be summarised.
ToCompact(w) == w \ Newest(w, RawTurns)

Started(raw, s) ==
  /\ step' = "running"
  /\ context' = [raw |-> Ids(raw), covers |-> s.covers]
  /\ window' = {} /\ known' = NoSummary

\* The summary is read by a second query, as of the same now.
ReadSummary ==
  /\ step = "read"
  /\ LET s == KeptSummary(asked) w == Eligible(window, s)
     IN  IF Fits(w)
         THEN Started(w, s)
         ELSE /\ step' = "summarizing" /\ window' = w /\ known' = s
              /\ UNCHANGED context
  /\ UNCHANGED <<timeVars, tableVars, asked, acted>>

GiveUp ==
  /\ step' = "idle"
  /\ window' = {} /\ known' = NoSummary /\ context' = NoContext
  /\ acted' = FALSE

\* The model call: a text, or nothing that may stand for the exchanges.
Answers == {"text", "error", "truncated", "tool calls", "blank"}
Usable(answer) == answer = "text"

Latest(xs) == CHOOSE x \in xs : \A y \in xs \ {x} : Earlier(y, x)

Compacted(w, s) ==
  [cursor |-> Latest(ToCompact(w)).id, covers |-> s.covers \cup Ids(ToCompact(w)), expires |-> 0]

\* Without a summary the load fails, and the turn with it.
Summarize ==
  /\ step = "summarizing"
  /\ \E answer \in Answers :
       IF Usable(answer)
       THEN /\ step' = "storing" /\ known' = Compacted(window, known)
            /\ UNCHANGED <<window, context, acted>>
       ELSE GiveUp
  /\ UNCHANGED <<timeVars, tableVars, asked>>

\* How a transaction ends: is it applied, and does the caller see an error?
Ends == {[applied |-> TRUE, ok |-> TRUE], [applied |-> FALSE, ok |-> FALSE],
         [applied |-> TRUE, ok |-> FALSE]}

\* UpsertAgentMemorySummary; its life begins after the model call.
Store ==
  /\ step = "storing"
  /\ \E e \in Ends :
       /\ summary' = IF e.applied
                     THEN [known EXCEPT !.expires = clock + TTL] ELSE summary
       /\ IF e.ok
          THEN /\ Started(window \ ToCompact(window), known)
               /\ UNCHANGED acted
          ELSE GiveUp
  /\ UNCHANGED <<timeVars, rows, nextId, asked>>

-----------------------------------------------------------------------------
(* The turn itself, and its record. *)

\* A tool runs; its receipt is kept.
Act ==
  /\ step = "running" /\ ~acted
  /\ acted' = TRUE
  /\ UNCHANGED <<timeVars, tableVars, step, asked, window, known, context>>

\* The turn has delivered an answer, or was interrupted after a tool: both
\* are recorded.
EndsWithRecord ==
  /\ step = "running"
  /\ step' = "recording"
  /\ UNCHANGED <<timeVars, tableVars, asked, window, known, context, acted>>

\* No answer and nothing done, a chosen silence, or a failed delivery.
EndsWithout ==
  /\ step = "running"
  /\ GiveUp
  /\ UNCHANGED <<timeVars, tableVars, asked>>

\* A slip: an id that a clean-up has freed is given again.
ReusedId == IF rows = {} THEN 1 ELSE 1 + CHOOSE i \in Ids(rows) :
                                            \A j \in Ids(rows) : j <= i
NewId == nextId

\* AppendAgentTurn: clean-up, user and assistant row, in one transaction.
Record ==
  /\ step = "recording"
  /\ \E e \in Ends :
       IF e.applied
       THEN /\ rows' = Kept(clock) \cup
                 {[id |-> NewId, created |-> clock, expires |-> clock + TTL]}
            /\ nextId' = nextId + 1
            /\ summary' = KeptSummary(clock)
       ELSE UNCHANGED tableVars
  /\ GiveUp
  /\ UNCHANGED <<timeVars, asked>>

Crash ==
  /\ step # "idle"
  /\ GiveUp
  /\ UNCHANGED <<timeVars, tableVars, asked>>

MemoryNext ==
  \/ Tick \/ StepBack \/ OtherKeyCleansUp
  \/ ReadRows \/ ReadSummary \/ Summarize \/ Store
  \/ Act \/ EndsWithRecord \/ EndsWithout \/ Record \/ Crash

MemorySpec == MemoryInit /\ [][MemoryNext]_memoryVars

-----------------------------------------------------------------------------
(* A turn is told of every exchange of its key that has not expired: word  *)
(* for word, or through the summary.  Rows below the summary's cursor are  *)
(* skipped unread and rows beyond the window are never seen, so the cursor *)
(* must not pass an exchange that no summary has taken in, however loads,  *)
(* summaries, clean-ups and crashes follow each other.  A clock that steps *)
(* back breaks it: rows are ordered by time and skipped by id.             *)
NoTurnIsLost ==
  (step = "running" /\ ~stepped) =>
    \A x \in Kept(clock) : x.id \in context.raw \cup context.covers

(* The same of the tables: a live exchange that loads will skip is in the  *)
(* text that stands for it.                                                *)
CoverageIsHonest ==
  ~stepped => \A x \in rows :
    (Live(x, clock) /\ Live(summary, clock) /\ x.id <= summary.cursor)
      => x.id \in summary.covers

(* No exchange is told twice, word for word and through the summary,       *)
(* unless the clock stepped back: the cursor is then not the highest id    *)
(* that the summary covers.                                                *)
NothingIsToldTwice ==
  (step = "running" /\ ~stepped) => context.raw \cap context.covers = {}

(* A turn is in the window or in the summary, never in neither and never   *)
(* told twice.                                                             *)
MemoryIsFaithful == MemoryTypeOK /\ NoTurnIsLost /\ CoverageIsHonest /\ NothingIsToldTwice
=============================================================================
