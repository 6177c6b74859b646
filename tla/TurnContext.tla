------------------------------ MODULE TurnContext ------------------------------
(***************************************************************************)
(* What the language model gets to see during one turn.  The assembler     *)
(* (internal/agent/assemble) fits the policy, the request, the memory and  *)
(* the transcript of tool calls into a budget of characters; the store of  *)
(* observations keeps every result whole, and an index of receipts and the *)
(* tool read_tool_result (internal/agent/live) make up for what is pruned. *)
(*                                                                         *)
(* A text is its size and what distinguishes it; sizes are in units of the *)
(* smallest message.                                                       *)
(***************************************************************************)
EXTENDS Integers, Sequences, FiniteSets, Functions, FiniteSetsExt

CONSTANTS Histories,        \* remembered conversations: sequences of messages
          RoomLogs,         \* recent messages of the room: [size, time]
          CallBatches,      \* the model's calls: [id, of, at, meta]; of = 0: no read
          ResultSizes,      \* what tools return
          Budgets,          \* characters left by the output reserve
          ManifestSize,     \* what the definitions of the tools take
          MaxView,          \* MaxModelResultBytes
          TopPreview,       \* 1024 bytes of data per entry of the index
          ChunkSize,        \* recentContextChunkBytes
          PageLimit, PageBudget,        \* resultPageRunes, resultPageBytes
          CountBase,        \* numbers below take one character
          MaxTurnSteps, MaxTurnCalls

(* A remembered message is a plain one of a user or of the assistant,      *)
(* and not an index of the loop, whatever else it looks like.              *)
ASSUME TurnAssumption ==
    /\ \A h \in Histories : h \in Seq(Range(h)) /\ \A m \in Range(h) :
         /\ m = [role |-> m.role, text |-> m.text, size |-> m.size, calls |-> <<>>,
                 key |-> 0, receipts |-> <<>>, omitted |-> 0]
         /\ m.role \in {"system", "user", "assistant"} /\ m.size \in Nat
         /\ m.text # "index"
    /\ \A l \in RoomLogs : l \in Seq([size : Nat, time : Nat])
    /\ \A b \in CallBatches : b \in Seq([id : Nat, of : Nat, at : Nat, meta : Nat])
    /\ ResultSizes \subseteq Nat /\ Budgets \subseteq Int
    /\ {ManifestSize, MaxView, TopPreview, ChunkSize, PageLimit, PageBudget, CountBase} \subseteq Nat
    /\ MaxTurnSteps \in Nat \ {0} /\ MaxTurnCalls \in Nat

VARIABLES contextStage,            \* "new", "asked", "answered", "failed"
          public,           \* a whisper gets no tools and no room log
          history, roomLog, budget,
          transcript,       \* the messages of the loop
          retained,         \* ObservationStore: results in the order of their calls
          request,          \* the last projection: [messages, chars, removed]
          corrected, terminal, stepsTaken, callsTaken

turnInput == <<public, history, roomLog, budget>>
turnLoop == <<transcript, retained, corrected, terminal, stepsTaken, callsTaken>>
contextVars == <<contextStage, turnInput, turnLoop, request>>

-----------------------------------------------------------------------------
(* Messages *)

(* key: the call a tool message answers, the newest message of a room log. *)
Msg(role, text, size) ==
    [role |-> role, text |-> text, size |-> size, calls |-> <<>>, key |-> 0,
     receipts |-> <<>>, omitted |-> 0]

Policy == Msg("system", "policy", 1)
NewestIndex == Msg("user", "request", 1)
Status == Msg("user", "status", 1)
Correction == Msg("user", "feedback", 2)
BrokenAnswer == Msg("assistant", "broken", 1)
Envelope == 1

Total(numbers) ==
    LET sum[n \in 0..Len(numbers)] == IF n = 0 THEN 0 ELSE sum[n - 1] + numbers[n]
    IN  sum[Len(numbers)]
Chars(messages) == Total([n \in DOMAIN messages |-> messages[n].size])

(* The messages at some positions, in their order.                         *)
InOrder(positions, last) ==
    LET found[n \in 0..last] == IF n = 0 THEN <<>>
                                ELSE IF n \in positions THEN Append(found[n - 1], n)
                                ELSE found[n - 1]
    IN  found[last]
Pick(messages, positions) ==
    LET order == InOrder(positions, Len(messages))
    IN  [n \in DOMAIN order |-> messages[order[n]]]

CallIds(s) == [n \in DOMAIN s |-> s[n].id]
CallsMessage(batch) ==
    [Msg("assistant", "calls", Len(batch)) EXCEPT !.calls = CallIds(batch)]

(* projectObservation: the data of a result, cut to the bytes allowed.     *)
ViewSize(result, bytes) ==
    IF bytes < result.meta THEN result.meta ELSE Min({result.meta + result.size, bytes})
Observation(result) ==
    [Msg("tool", "view", ViewSize(result, MaxView)) EXCEPT !.key = result.id]

(* The index: a receipt of every result, with previews of its data and of  *)
(* its arguments; identity and outcome are never cut.                      *)
Receipt(result, bytes) ==
    [id |-> result.id, data |-> ViewSize(result, bytes) - result.meta,
     cut |-> bytes < result.meta + result.size \/ bytes = 0]
ReceiptSize(result, bytes) ==
    ViewSize(result, bytes) + Min({1, bytes \div 2})
Digits(number) == IF number < CountBase THEN 1 ELSE 2

IndexMessage(results, bytes, omitted) ==
    [Msg("user", "index", Digits(omitted) + Total([n \in DOMAIN results |-> ReceiptSize(results[n], bytes)]))
        EXCEPT !.receipts = [n \in DOMAIN results |-> Receipt(results[n], bytes)],
               !.omitted = omitted]

-----------------------------------------------------------------------------
(* The budget: ContextBudgeter.Project *)

(* What is kept or left out together: some messages of the transcript, of  *)
(* which the first is at head.                                             *)
Unit(head, at, priority, time) ==
    [head |-> head, at |-> at, priority |-> priority, time |-> time]

(* By priority, then time; the later unit wins a tie.                      *)
Outranks(u, v) ==
    \/ u.priority > v.priority
    \/ u.priority = v.priority /\ u.time > v.time
    \/ u.priority = v.priority /\ u.time = v.time /\ u.head > v.head

(* Of equal units the highest remains.                                     *)
Candidates(messages, units) == {u \in units : \A v \in units \ {u} :
    Pick(messages, v.at) = Pick(messages, u.at) => Outranks(u, v)}

(* Policy and newest request are required.                                 *)
PolicyAt(messages) == Min({i \in DOMAIN messages : messages[i] = Policy})
RequestAt(messages) == Max({i \in DOMAIN messages : messages[i] = NewestIndex})
Required(messages) == {PolicyAt(messages), RequestAt(messages)}

(* What precedes the request stays there; the index follows the request,   *)
(* the status comes last.                                                  *)
Arranged(messages, kept, index, runtime) ==
    LET at == Required(messages) \cup UNION {u.at : u \in kept}
        newest == RequestAt(messages)
    IN  Pick(messages, {p \in at : p <= newest}) \o index
          \o Pick(messages, {p \in at : p > newest}) \o runtime

HasRoom(limit, messages) == Chars(messages) + Envelope <= limit

(* By rank, every unit that still fits.                                    *)
Chosen(messages, units, index, runtime, limit) ==
    LET candidates == Candidates(messages, units)
        ranked(n) == {u \in candidates : Cardinality({v \in candidates : Outranks(v, u)}) = n - 1}
        chosen[n \in 0..Cardinality(units)] ==
            IF n = 0 THEN {}
            ELSE LET before == chosen[n - 1]
                     with == before \cup ranked(n)
                 IN  IF HasRoom(limit, Arranged(messages, with, index, runtime))
                     THEN with ELSE before
    IN  chosen[Cardinality(units)]

NoRequest == [ok |-> FALSE, messages |-> <<>>, chars |-> 0, limit |-> 0, removed |-> 0]

Assembled(messages, removed, limit) ==
    [ok |-> TRUE, messages |-> messages, chars |-> Chars(messages) + Envelope,
     limit |-> limit, removed |-> removed]

Removed(units, kept) == Cardinality(units) - Cardinality(kept)

-----------------------------------------------------------------------------
(* The transcript: ProjectTurn *)

(* The last message before a position that is the one wanted, or 0.        *)
LastBefore(messages, position, wanted) ==
    Max({0} \cup {i \in DOMAIN messages : i < position /\ messages[i] = wanted})

(* The required messages, looked for from the end, are a correction, if    *)
(* any, and the status: one that is absent leaves nothing for the other.   *)
MatchFromEnd(messages, required) ==
    LET last == LastBefore(messages, Len(messages) + 1, required[Len(required)])
        first == IF Len(required) = 1 THEN 0 ELSE LastBefore(messages, last, required[1])
    IN  {last, first} \ {0}

(* The observations behind a call, up to the next other message.           *)
Run(messages, i) ==
    {j \in i + 1..Len(messages) : \A k \in i + 1..j : messages[k].role = "tool"}
AnswersOf(messages, i) ==
    {j \in Run(messages, i) : messages[j].key \in Range(messages[i].calls)}
AnsweredCalls(messages, i) == \A id \in Range(messages[i].calls) :
    \E j \in Run(messages, i) : \A k \in Run(messages, i) : messages[k].key = id <=> k = j

(* Variant: the observations stay behind. *)
UnitAlone(messages, i) == Unit(i, {i}, 100, 0)

UnitAt(messages, i) ==
    IF messages[i].calls # <<>> THEN Unit(i, {i} \cup AnswersOf(messages, i), 100, 0)
    ELSE Unit(i, {i}, IF i > RequestAt(messages) THEN 90 ELSE 50, 0)

(* Calls and observations that do not pair are dropped.                    *)
TranscriptUnits(messages) ==
    {UnitAt(messages, i) : i \in {h \in DOMAIN messages \ Required(messages) :
        messages[h].role # "tool" /\ (messages[h].calls # <<>> => AnsweredCalls(messages, h))}}

(* The previews shrink by halves until the index fits; a receipt is never  *)
(* left out.                                                               *)
Previews == {bytes \in 0..TopPreview : \E k \in 0..TopPreview : bytes = TopPreview \div 2^k}

(* The number of units left out is known only afterwards, so the largest   *)
(* possible is reserved.                                                   *)
Fit(messages, units, results, runtime, limit) ==
    LET index(bytes, omitted) ==
            IF results = <<>> THEN <<>> ELSE <<IndexMessage(results, bytes, omitted)>>
        reserved(bytes) == index(bytes, Cardinality(units))
        fitting == {b \in Previews :
            HasRoom(limit, Arranged(messages, {}, reserved(b), runtime))}
        bytes == Max(fitting)
        kept == Chosen(messages, units, reserved(bytes), runtime, limit)
        removed == Removed(units, kept)
    IN  IF limit <= 0 \/ fitting = {} THEN NoRequest
        ELSE Assembled(Arranged(messages, kept, index(bytes, removed), runtime), removed, limit)

ProjectTurn(messages, results, runtime, limit) ==
    LET others == Pick(messages, DOMAIN messages \ MatchFromEnd(messages, runtime))
    IN  Fit(others, TranscriptUnits(others), results, runtime, limit)

RequestLimit(tools) == budget - (IF tools THEN ManifestSize ELSE 0)

-----------------------------------------------------------------------------
(* The first request: Assembler.Assemble *)

Optional(message, priority, time) ==
    [message |-> message, priority |-> priority, time |-> time]

HistoryUnits ==
    LET shown == Pick(history, {n \in DOMAIN history :
                        history[n].text # "evidence" /\ history[n].role # "system"})
    IN  [n \in DOMAIN shown |-> Optional(shown[n], 50, 0)]

(* What tools returned in earlier turns.                                   *)
EvidenceUnits == <<Optional(Msg("user", "facts", 1), 70, 1)>>

(* recentContextUnits: consecutive messages share a unit up to ChunkSize.  *)
RowChars(rows) == Total([n \in DOMAIN rows |-> rows[n].size])
RoomUnit(rows) ==
    LET time == Max({0} \cup {r.time : r \in Range(rows)})
    IN  Optional([Msg("user", "room", RowChars(rows)) EXCEPT !.key = time], 80, time)
Chunks ==
    LET chunks[n \in 0..Len(roomLog)] ==
            IF n = 0 THEN <<>>
            ELSE LET before == chunks[n - 1]
                     open == before[Len(before)]
                 IN  IF before = <<>> \/ RowChars(Append(open, roomLog[n])) > ChunkSize
                     THEN Append(before, <<roomLog[n]>>)
                     ELSE [before EXCEPT ![Len(before)] = Append(open, roomLog[n])]
    IN  chunks[Len(roomLog)]
RoomUnits == [n \in DOMAIN Chunks |-> RoomUnit(Chunks[n])]

FirstUnits == HistoryUnits \o (IF public THEN EvidenceUnits \o RoomUnits ELSE <<>>)

FirstRequest ==
    LET units == FirstUnits
        messages == <<Policy>> \o [n \in DOMAIN units |-> units[n].message] \o <<NewestIndex>>
    IN  Fit(messages, {Unit(n + 1, {n + 1}, units[n].priority, units[n].time) : n \in DOMAIN units},
            <<>>, <<>>, RequestLimit(public))

ContextInit ==
    /\ contextStage = "new" /\ public \in BOOLEAN
    /\ history \in Histories /\ roomLog \in RoomLogs /\ budget \in Budgets
    /\ transcript = <<>> /\ retained = <<>> /\ request = NoRequest
    /\ corrected = FALSE /\ terminal = FALSE /\ stepsTaken = 0 /\ callsTaken = 0

(* What does not fit the first request is gone for the turn.               *)
Assemble ==
    /\ contextStage = "new"
    /\ \E first \in {FirstRequest} :
          /\ request' = first /\ transcript' = first.messages
          /\ contextStage' = IF first.ok THEN "asked" ELSE "failed"
          /\ stepsTaken' = IF first.ok THEN 1 ELSE 0
    /\ UNCHANGED <<turnInput, retained, corrected, terminal, callsTaken>>

-----------------------------------------------------------------------------
(* The loop: TurnEngine.Complete *)

FailWith(messages, results) ==
    /\ contextStage' = "failed" /\ transcript' = messages /\ retained' = results
    /\ UNCHANGED <<turnInput, request, corrected, terminal, stepsTaken>>

(* The next request; without calls or rounds left it offers no tools.      *)
AskAgain(messages, results, feedback) ==
    LET over == terminal \/ callsTaken' = MaxTurnCalls \/ ~public \/ stepsTaken = MaxTurnSteps
    IN  \E next \in {ProjectTurn(messages, results, feedback \o <<Status>>, RequestLimit(~over))} :
          /\ transcript' = messages /\ retained' = results
          /\ terminal' = over /\ stepsTaken' = IF over THEN stepsTaken ELSE stepsTaken + 1
          /\ request' = IF next.ok THEN next ELSE request
          /\ contextStage' = IF next.ok THEN "asked" ELSE "failed"
          /\ UNCHANGED turnInput

(* One structural correction per turn.                                     *)
Correct(messages, results) ==
    \/ corrected /\ FailWith(messages, results) /\ UNCHANGED callsTaken
    \/ /\ ~corrected /\ corrected' = TRUE /\ UNCHANGED callsTaken
       /\ AskAgain(Append(messages, Correction), results, <<Correction>>)

(* The projection, the provider or the context may fail at any time.       *)
Interrupt == contextStage = "asked" /\ FailWith(transcript, retained) /\ UNCHANGED callsTaken

Answer ==
    /\ contextStage = "asked" /\ contextStage' = "answered"
    /\ UNCHANGED <<turnInput, turnLoop, request>>

(* An empty or truncated answer, or one with the markup of a tool call.    *)
Mumble == contextStage = "asked" /\ Correct(Append(transcript, BrokenAnswer), retained)

(* Identities: nonblank, unique in the batch and new in the turn.          *)
Sound(batch) ==
    /\ \A n \in DOMAIN batch : batch[n].id # 0 /\ batch[n].id \notin Range(CallIds(retained))
    /\ \A m, n \in DOMAIN batch : batch[m].id = batch[n].id => m = n

(* None of the calls is executed and they form no message of the protocol. *)
Reject(batch) ==
    /\ contextStage = "asked" /\ ~Sound(batch)
    /\ Correct(transcript, retained)

NoPage == [of |-> 0, from |-> 0, next |-> 0, chars |-> 0, done |-> FALSE]
Stored(call, size, page) == [id |-> call.id, meta |-> call.meta, size |-> size, page |-> page]
Refused(call) == Stored(call, 1, NoPage)

(* read_tool_result: at most PageLimit characters, fewer when the page     *)
(* would exceed its bytes; at least one or an error.                       *)
PageChars(call, original) ==
    Min({original.size - call.at, PageLimit, PageBudget - original.meta})
Read(call, original) ==
    LET chars == PageChars(call, original)
        next == call.at + chars
    IN  IF call.at > original.size \/ chars < Min({1, original.size - call.at})
        THEN Refused(call)
        ELSE Stored(call, chars, [of |-> original.id, from |-> call.at, next |-> next,
                                  chars |-> chars, done |-> next = original.size])

(* The results of a call: what the tool returns, a page, or a refusal of a *)
(* batch over the budget.                                                  *)
Results(call, admitted) ==
    IF ~admitted \/ ~public THEN {Refused(call)}
    ELSE IF call.of = 0 THEN {Stored(call, size, NoPage) : size \in ResultSizes}
    ELSE IF call.of \notin Range(CallIds(retained)) THEN {Refused(call)}
    ELSE {Read(call, r) : r \in {s \in Range(retained) : s.id = call.of}}

(* The batch is executed; every result is retained before a projection can *)
(* fail, then calls and observations join the transcript together.         *)
ExecuteBatch(batch) ==
    /\ contextStage = "asked" /\ Sound(batch)
    /\ LET admitted == ~terminal /\ callsTaken + Len(batch) <= MaxTurnCalls
       IN  \E results \in {s \in [DOMAIN batch -> UNION {Results(c, admitted) : c \in Range(batch)}] :
                             \A n \in DOMAIN batch : s[n] \in Results(batch[n], admitted)} :
             LET store == retained \o results
                 messages == transcript \o <<CallsMessage(batch)>>
                             \o [n \in DOMAIN batch |-> Observation(results[n])]
             IN  IF \E r \in Range(results) : r.meta > MaxView
                 THEN FailWith(transcript, store) /\ UNCHANGED callsTaken
                 ELSE IF terminal THEN Correct(messages, store)
                 ELSE /\ callsTaken' = IF admitted THEN callsTaken + Len(batch) ELSE callsTaken
                      /\ AskAgain(messages, store, <<>>)
                      /\ UNCHANGED corrected

ContextNext ==
    \/ Assemble \/ Answer \/ Mumble \/ Interrupt
    \/ \E batch \in CallBatches : Reject(batch) \/ ExecuteBatch(batch)

ContextSpec == ContextInit /\ [][ContextNext]_contextVars

-----------------------------------------------------------------------------
(* Properties *)

OwnTexts == {"policy", "request", "status", "feedback", "broken", "calls", "view",
             "index", "facts", "room"}
RememberedTexts == {m.text : m \in UNION {Range(h) : h \in Histories}}
Messages ==
    [role : {"system", "user", "assistant", "tool"},
     text : OwnTexts \cup RememberedTexts, size : Nat,
     calls : Seq(Nat), key : Nat, omitted : Nat,
     receipts : Seq([id : Nat, data : Nat, cut : BOOLEAN])]
StoredResults ==
    [id : Nat \ {0}, meta : Nat, size : Nat,
     page : [of : Nat, from : Nat, next : Nat, chars : Nat, done : BOOLEAN]]

ContextTypeOK ==
    /\ contextStage \in {"new", "asked", "answered", "failed"}
    /\ {public, corrected, terminal} \subseteq BOOLEAN
    /\ stepsTaken \in 0..MaxTurnSteps /\ callsTaken \in 0..MaxTurnCalls
    /\ transcript \in Seq(Messages) /\ retained \in Seq(StoredResults)
    /\ request.messages \in Seq(Messages)

Shown == request.messages
Indices == {n \in DOMAIN Shown : Shown[n].text = "index"}

(* docs/agent.md: "inability to fit required metadata fails assembly       *)
(* rather than silently dropping execution receipts".  Whatever else is    *)
(* pruned, the model sees one receipt of every call made in the turn, in   *)
(* order; a receipt that does not say so has all the data; and an omission *)
(* from the transcript is announced.                                       *)
ReceiptsReachTheModel == contextStage = "asked" /\ retained # <<>> =>
    /\ Cardinality(Indices) = 1
    /\ \A i \in Indices :
         /\ CallIds(Shown[i].receipts) = CallIds(retained)
         /\ \A n \in DOMAIN retained : ~Shown[i].receipts[n].cut =>
               Shown[i].receipts[n].data = retained[n].size
         /\ Shown[i].omitted = 0 =>
               \A m \in Range(transcript) : m \in Range(Shown)

(* "An assistant tool-call message and its matching results form an atomic *)
(* unit": providers refuse anything else.  Every call is followed by one   *)
(* result each, no result is alone, and the calls keep their order.        *)
PairsStayTogether ==
    /\ \A n \in DOMAIN Shown : Shown[n].calls # <<>> => AnsweredCalls(Shown, n)
    /\ \A n \in DOMAIN Shown : Shown[n].role = "tool" =>
         \E i \in 1..n-1 : n \in Run(Shown, i) /\ Shown[n].key \in Range(Shown[i].calls)
    /\ \A i, j \in DOMAIN Shown : i < j /\ Shown[i].calls # <<>> /\ Shown[j].calls # <<>> =>
         \E k \in DOMAIN transcript : \E l \in k+1..Len(transcript) :
           transcript[k] = Shown[i] /\ transcript[l] = Shown[j]

(* No request is larger than its budget, although the index is written     *)
(* before it is known how much is left out.                                *)
BudgetIsKept == contextStage = "asked" => request.chars <= request.limit

(* "Concatenate content pages in order using actual nextOffset until done":*)
(* a page has all characters from its offset to the next, a page before    *)
(* the end advances, and the last one reaches the end of the result.       *)
PageOf(r, o) ==
    /\ o.id = r.page.of
    /\ r.page.next = r.page.from + r.page.chars
    /\ r.page.done <=> r.page.next = o.size
    /\ r.page.from < o.size => r.page.chars > 0
PagesAreContiguous == \A r \in Range(retained) : r.page.of # 0 =>
    \E o \in Range(retained) : PageOf(r, o)

(* registry_loop_test.go: "repair feedback duplicated".  A correction is   *)
(* shown once.                                                             *)
FeedbackIsSaidOnce == Cardinality({n \in DOMAIN Shown : Shown[n] = Correction}) <= 1

(* Whatever a request leaves out, it is within the budget, no call stands  *)
(* without its answers, every result is announced, and its pages can be    *)
(* put together.                                                           *)
TranscriptIsSound ==
    /\ ContextTypeOK /\ ReceiptsReachTheModel /\ PairsStayTogether
    /\ BudgetIsKept /\ PagesAreContiguous
=============================================================================
