---------------------------- MODULE AgentTurnProofs ----------------------------
(* Proofs about AgentTurn: for any tools, requirements, limits and model, no *)
(* effect of a turn is repeated, none follows one whose end is unknown,      *)
(* actions run alone and in order, a missing prerequisite is missing, and a  *)
(* silent end is an honest one.                                              *)
EXTENDS AgentTurn, FiniteSetTheorems, SequenceTheorems, TLAPS

Results == [call : Calls, code : Codes, effect : Effects, seen : BOOLEAN]

\* The loop between model and tools.
LoopTypes ==
  /\ phase \in {"judge", "batch", "ask", "done"} /\ response \in Responses
  /\ rounds \in Nat /\ steps \in 1..MaxSteps /\ reserved \in 0..MaxToolCalls
  /\ repaired \in BOOLEAN /\ terminal \in BOOLEAN /\ expired \in BOOLEAN
  /\ mustReply \in BOOLEAN
  /\ outcome \in {"none", "reply", "silent", "owned", "error"}
  /\ outcome # "none" => phase = "done"

LedgerTypes ==
  /\ counts \in [Tools -> 0..MaxPerTool] /\ failures \in [Tools -> Nat]
  /\ successful \subseteq Tools /\ started \subseteq Calls /\ unknown \in BOOLEAN
  /\ applied \in [Calls -> Nat] /\ results \subseteq Results

BatchTypes ==
  /\ place \in Seq(Places) /\ out \in Seq(Results) /\ Len(out) = Len(place)
  /\ next \in 1..Len(place)+1 /\ failedAction \in BOOLEAN
  /\ phase # "batch" => place = <<>>
  /\ phase = "batch" => /\ response.kind = "calls"
                        /\ Len(place) = Len(response.calls)

\* What runs and what waits, up to the call that ExecuteAll serves.
Order ==
  \A n \in 1..Len(place) :
    /\ n > next => place[n] \in {"prepared", "rejected"}
    /\ n = next => place[n] \in {"prepared", "rejected", "running"}
    /\ n < next => place[n] \in {"waiting", "ready", "running", "done"}
    /\ n < next /\ place[n] # "done" => Call(n).tool \in SafeReads
    /\ place[n] \in {"prepared", "waiting", "ready", "running"} => Call(n).tool \in Tools
    /\ n = next /\ place[n] = "running" => \A m \in 1..n-1 : place[m] = "done"
    /\ place[n] = "waiting" => \A m \in 1..Len(place) : place[m] \notin {"ready", "running"}

\* Failures of a tool are charged to calls of the turn that are over.
Pending == {n \in 1..Len(place) : place[n] # "done"}
FailuresCounted == \A t \in Tools : failures[t] + Cardinality(Pending) <= reserved

\* The results of the batch, as the turn will know them.
OutSound ==
  \A n \in 1..Len(place) :
    /\ out[n].call = Call(n)
    /\ place[n] # "done" => out[n] = NotStarted(Call(n), "refused")
    /\ place[n] = "done" /\ out[n].code = "ok" => Call(n).tool \in successful
    /\ ~failedAction /\ place[n] = "done" /\ Call(n).tool \in Actions => out[n].code = "ok"

\* An effect is started, and only once.
OnceSound ==
  /\ \A c \in Calls : applied[c] <= 1 /\ (applied[c] # 0 => c.tool \in Actions /\ c \in started)
  /\ \A n \in 1..Len(place) : place[n] = "running" /\ Call(n).tool \in Actions =>
       /\ Call(n) \in started /\ applied[Call(n)] = 0
       /\ ~unknown /\ ~failedAction

\* A read that lacks a prerequisite has all earlier calls behind it.
MissingSound ==
  \A n \in 1..Len(place) :
    \/ place[n] \in {"waiting", "ready"} /\ Lacking(n) # {}
    \/ place[n] = "done" /\ out[n].code = "missing"
    => \A m \in 1..n-1 : place[m] = "done"

\* Every effect is behind a result that shows it.
Known == results \cup {out[n] : n \in 1..Len(place)}
EffectsKnown ==
  /\ \A r \in Known : r.effect = "committed" => applied[r.call] # 0
  /\ \A c \in Calls : applied[c] # 0 =>
       \E r \in Known : r.call = c /\ (r.seen \/ r.effect = "unknown")
  /\ unknown => \E r \in Known : r.effect = "unknown"

TInv ==
  /\ LoopTypes /\ LedgerTypes /\ BatchTypes /\ Order /\ FailuresCounted
  /\ OutSound /\ OnceSound /\ MissingSound /\ EffectsKnown
  /\ MissingIsTrue /\ SuppressionIsHonest

-----------------------------------------------------------------------------
(* Lemmas *)

\* The calls of a response are a sequence.
LEMMA CallsAreSequences ==
  ASSUME NEW r \in Responses, r.kind = "calls"
  PROVE  r.calls \in Seq(Calls) /\ Len(r.calls) \in 0..MaxBatch
<1>1. PICK n \in 1..MaxBatch : r.calls \in [1..n -> Calls]
  BY DEF Responses, Batches, Kinds
<1>2. r.calls \in Seq(Calls)
  BY <1>1, SeqDef, LimitsAssumption
<1>3. Len(r.calls) = n
  BY <1>1, <1>2, LenProperties, LimitsAssumption
<1> QED BY <1>2, <1>3, LimitsAssumption

\* A position of the batch has a call and a result.
LEMMA AtPosition ==
  ASSUME TInv, NEW n \in 1..Len(place)
  PROVE  /\ phase = "batch" /\ response.calls \in Seq(Calls)
         /\ Call(n) \in Calls /\ place[n] \in Places /\ out[n] \in Results
         /\ DOMAIN place = 1..Len(place) /\ DOMAIN out = 1..Len(place)
<1>1. phase = "batch" /\ response.kind = "calls" /\ Len(place) = Len(response.calls)
  BY EmptySeq DEF TInv, BatchTypes
<1>2. response.calls \in Seq(Calls)
  BY <1>1, CallsAreSequences DEF TInv, LoopTypes
<1> QED
  BY <1>1, <1>2, ElementOfSeq, LenProperties DEF TInv, BatchTypes, Call

\* While no batch runs there are no positions.
LEMMA NoPosition ==
  ASSUME TInv, phase # "batch"
  PROVE  place = <<>> /\ Len(place) = 0 /\ 1..Len(place) = {} /\ Known = results /\ Pending = {}
<1>1. place = <<>> /\ Len(place) = 0
  BY EmptySeq DEF TInv, BatchTypes
<1> QED BY <1>1 DEF Known, Pending

\* The loop alone moves: the batch is over, and the ledger waits.
LEMMA LoopStep ==
  ASSUME TInv, phase # "batch", phase' # "batch", LoopTypes',
         UNCHANGED <<ledgerVars, batchVars, results, applied, reserved>>,
         outcome' = "owned" => outcome = "owned" \/ CanSuppress
  PROVE  TInv'
<1>1. place' = <<>> /\ Len(place') = 0 /\ Known' = results /\ Pending' = {}
  BY NoPosition DEF batchVars, Known, Pending
<1>2. UNCHANGED <<counts, failures, successful, started, unknown, next, out, failedAction>>
  BY DEF ledgerVars, batchVars
<1>3. LedgerTypes' /\ BatchTypes'
  BY <1>1, <1>2, NoPosition DEF TInv, LedgerTypes, BatchTypes
<1>4. DOMAIN place' = {}
  BY <1>1
<1>5. Order' /\ OutSound' /\ MissingSound' /\ MissingIsTrue'
  BY <1>1, <1>4 DEF Order, OutSound, MissingSound, MissingIsTrue
<1>6. FailuresCounted'
  BY <1>1, <1>2, NoPosition DEF TInv, FailuresCounted
<1>7. OnceSound'
  BY <1>1, <1>2 DEF TInv, OnceSound
<1>8. EffectsKnown'
  BY <1>1, <1>2, NoPosition DEF TInv, EffectsKnown
<1>9. SuppressionIsHonest'
  <2>1. CASE outcome = "owned"
    BY <2>1, <1>2 DEF TInv, SuppressionIsHonest
  <2>2. CASE outcome # "owned" /\ outcome' = "owned"
    <3>1. CanSuppress /\ Known = results
      BY <2>2, NoPosition
    <3>2. PICK r \in results : Delivered(r)
      BY <3>1 DEF CanSuppress
    <3>3. r.call \in Calls /\ r.call.tool \in Delivers /\ applied[r.call] # 0
      BY <3>1, <3>2 DEF TInv, LedgerTypes, Results, EffectsKnown, Delivered
    <3>4. \A c \in Calls : applied[c] > 0 => c.tool \in Delivers
      BY <3>1 DEF TInv, LedgerTypes, EffectsKnown, OnceSound, CanSuppress
    <3>5. ~unknown
      BY <3>1 DEF TInv, EffectsKnown, CanSuppress
    <3>6. applied[r.call] > 0
      BY <3>3 DEF TInv, LedgerTypes
    <3> QED BY <3>3, <3>4, <3>5, <3>6, <1>2 DEF SuppressionIsHonest
  <2> QED BY <2>1, <2>2 DEF SuppressionIsHonest
<1> QED BY <1>3, <1>5, <1>6, <1>7, <1>8, <1>9 DEF TInv

\* Only the context of the request, or nothing, changes.
LEMMA NothingMoves ==
  ASSUME TInv, LoopTypes',
         UNCHANGED <<phase, response, ledgerVars, batchVars, results, applied, reserved, outcome>>
  PROVE  TInv'
<1>1. UNCHANGED <<counts, failures, successful, started, unknown, place, next, out, failedAction>>
  BY DEF ledgerVars, batchVars
<1>2. LedgerTypes' /\ BatchTypes' /\ Order' /\ FailuresCounted' /\ OutSound'
  BY <1>1 DEF TInv, LedgerTypes, BatchTypes, Order, FailuresCounted, OutSound, Call, Pending
<1>3. OnceSound' /\ MissingSound' /\ MissingIsTrue'
  BY <1>1 DEF TInv, OnceSound, MissingSound, MissingIsTrue, Call, Lacking
<1>4. EffectsKnown' /\ SuppressionIsHonest'
  BY <1>1 DEF TInv, EffectsKnown, Known, SuppressionIsHonest
<1> QED BY <1>2, <1>3, <1>4 DEF TInv

\* A turn ends: in favour of its tools only if they delivered.
LEMMA FinishKeepsTInv ==
  ASSUME TInv, phase \in {"judge", "ask"},
         NEW end \in {"reply", "silent", "owned", "error"}, Finish(end),
         end = "owned" => CanSuppress
  PROVE  TInv'
<1>1. LoopTypes'
  BY DEF TInv, LoopTypes, Finish, loopVars
<1> QED
  BY <1>1, LoopStep DEF Finish, loopVars

\* A response is accepted, corrected, given up or refused before it runs.
LEMMA JudgeKeepsTInv ==
  ASSUME TInv, Accept \/ Cancelled \/ Correct \/ GiveUp \/ RefuseBatch
  PROVE  TInv'
<1>1. CASE Accept
  BY <1>1, FinishKeepsTInv DEF Accept
<1>2. CASE Cancelled
  BY <1>2, FinishKeepsTInv DEF Cancelled
<1>3. CASE Correct
  <2>1. LoopTypes'
    BY <1>3 DEF TInv, LoopTypes, Correct
  <2> QED BY <1>3, <2>1, LoopStep DEF Correct
<1>4. CASE GiveUp
  BY <1>4, FinishKeepsTInv DEF GiveUp
<1>5. CASE RefuseBatch
  <2>1. LoopTypes'
    BY <1>5 DEF TInv, LoopTypes, RefuseBatch, loopVars
  <2> QED BY <1>5, <2>1, LoopStep DEF RefuseBatch, loopVars
<1> QED BY <1>1, <1>2, <1>3, <1>4, <1>5

\* The model is asked again, within the limit of steps.
LEMMA AskKeepsTInv == ASSUME TInv, Ask PROVE TInv'
<1> DEFINE over == terminal \/ reserved = MaxToolCalls \/ Offered = {} \/ steps = MaxSteps
<1>1. phase = "ask"
  BY DEF Ask, AskUnless
<1>2. CASE Finish("error")
  BY <1>1, <1>2, FinishKeepsTInv
<1>3. CASE ~Finish("error")
  <2>1. /\ terminal' = over
        /\ steps' = IF over THEN steps ELSE steps + 1
        /\ rounds' = rounds + 1 /\ response' \in Responses /\ phase' = "judge"
        /\ UNCHANGED <<reserved, repaired, expired, ledgerVars, batchVars, results,
                       applied, mustReply, outcome>>
    BY <1>3 DEF Ask, AskUnless
  <2>2. over \in BOOLEAN /\ (~over => steps # MaxSteps)
    OBVIOUS
  <2>3. steps' \in 1..MaxSteps
    BY <2>1, <2>2, LimitsAssumption DEF TInv, LoopTypes
  <2>4. outcome = "none"
    BY <1>1 DEF TInv, LoopTypes
  <2>5. LoopTypes'
    BY <2>1, <2>2, <2>3, <2>4 DEF TInv, LoopTypes
  <2> QED BY <1>1, <2>1, <2>5, LoopStep
<1> QED BY <1>2, <1>3

\* The context of the request ends.
LEMMA ExpireKeepsTInv == ASSUME TInv, Expire \/ Done PROVE TInv'
<1>1. UNCHANGED <<phase, response, ledgerVars, batchVars, results, applied, reserved, outcome>>
  BY DEF Expire, Done, tvars, loopVars
<1>2. LoopTypes'
  BY DEF TInv, LoopTypes, Expire, Done, tvars, loopVars
<1> QED BY <1>1, <1>2, NothingMoves

-----------------------------------------------------------------------------
(* A batch *)

\* Calls that wait are moved on; none begins and none ends.
LEMMA Rearranged ==
  ASSUME TInv, phase = "batch", BatchTypes', Order', MissingSound',
         UNCHANGED <<phase, worldVars, ledgerVars, out, failedAction, results, applied>>,
         Len(place') = Len(place),
         \A n \in 1..Len(place) : /\ place'[n] = "done" <=> place[n] = "done"
                                  /\ place'[n] = "running" <=> place[n] = "running"
  PROVE  TInv'
<1>1. /\ UNCHANGED <<response, rounds, steps, repaired, terminal, reserved, expired, mustReply,
                     outcome>>
      /\ UNCHANGED <<counts, failures, successful, started, unknown>>
  BY DEF worldVars, ledgerVars
<1>2. LoopTypes' /\ LedgerTypes'
  BY <1>1 DEF TInv, LoopTypes, LedgerTypes
<1>3. Pending' = Pending
  BY DEF Pending
<1>4. FailuresCounted' /\ OutSound'
  BY <1>1, <1>3 DEF TInv, FailuresCounted, OutSound, Call
<1>5. OnceSound'
  BY <1>1 DEF TInv, OnceSound, Call
<1>6. EffectsKnown' /\ SuppressionIsHonest'
  BY <1>1 DEF TInv, EffectsKnown, Known, SuppressionIsHonest
<1>7. DOMAIN place = 1..Len(place) /\ DOMAIN place' = 1..Len(place)
  BY LenProperties DEF TInv, BatchTypes
<1>8. MissingIsTrue'
  BY <1>1, <1>7 DEF TInv, MissingIsTrue, Call
<1> QED BY <1>2, <1>4, <1>5, <1>6, <1>8 DEF TInv

\* A safe read joins those that wait.
LEMMA CollectKeepsTInv == ASSUME TInv, Collect PROVE TInv'
<1>1. /\ phase = "batch" /\ place' = [place EXCEPT ![next] = "waiting"] /\ next' = next + 1
      /\ UNCHANGED <<phase, worldVars, ledgerVars, out, failedAction, results, applied>>
      /\ UNCHANGED <<response, successful>>
  BY DEF Collect, CollectNext, AtOverlapping, worldVars, ledgerVars
<1>2. DOMAIN place = 1..Len(place)
  BY LenProperties DEF TInv, BatchTypes
<1>3. next \in 1..Len(place) /\ place[next] = "prepared" /\ Call(next).tool \in SafeReads
  BY <1>2 DEF Collect, AtOverlapping, NextOverlaps, Overlapping
<1>4. \A n \in 1..Len(place) : place[n] \notin {"ready", "running"}
  BY <1>2 DEF Collect, AtOverlapping, Quiet, At
<1>5. /\ place' \in Seq(Places) /\ Len(place') = Len(place)
      /\ \A n \in 1..Len(place) : place'[n] = IF n = next THEN "waiting" ELSE place[n]
  BY <1>1, <1>3, ExceptSeq DEF TInv, BatchTypes, Places
<1>6. BatchTypes'
  BY <1>1, <1>3, <1>5 DEF TInv, BatchTypes
<1>7. Order'
  BY <1>1, <1>3, <1>4, <1>5 DEF TInv, BatchTypes, Order, Call, Tools
<1>8. MissingSound'
  <2> SUFFICES ASSUME NEW n \in 1..Len(place), NEW m \in 1..n-1,
                      \/ place'[n] \in {"waiting", "ready"} /\ Lacking(n) # {}
                      \/ place'[n] = "done" /\ out[n].code = "missing"
               PROVE  place'[m] = "done"
    BY <1>1, <1>5 DEF MissingSound, Lacking, Call
  <2>1. CASE n = next
    <3>1. At("waiting") = {}
      BY <1>5, <2>1 DEF Collect
    <3>2. m < next /\ m \in 1..Len(place) /\ place[m] # "waiting"
      BY <1>2, <2>1, <3>1 DEF At
    <3> QED BY <1>4, <1>5, <3>2 DEF TInv, Order
  <2>2. CASE n # next
    <3>1. place[m] = "done"
      BY <1>5, <2>2 DEF TInv, MissingSound
    <3>2. m # next
      BY <3>1, <1>3
    <3> QED BY <3>1, <3>2, <1>5
  <2> QED BY <2>1, <2>2
<1> QED BY <1>1, <1>3, <1>5, <1>6, <1>7, <1>8, Rearranged

\* The reads that wait begin together.
LEMMA FlushKeepsTInv == ASSUME TInv, Flush PROVE TInv'
<1>1. /\ phase = "batch"
      /\ place' = [n \in DOMAIN place |-> IF place[n] = "waiting" THEN "ready" ELSE place[n]]
      /\ UNCHANGED <<phase, worldVars, ledgerVars, next, out, failedAction, results, applied>>
      /\ UNCHANGED <<response, successful>>
  BY DEF Flush, FlushWhen, worldVars, ledgerVars
<1>2. DOMAIN place = 1..Len(place) /\ Len(place) \in Nat
  BY LenProperties DEF TInv, BatchTypes
<1>3. \A n \in 1..Len(place) : place[n] \notin {"ready", "running"}
  BY <1>2 DEF Flush, FlushWhen, Quiet, At
<1>4. place' \in Seq(Places)
  <2>1. \A n \in 1..Len(place) : place[n] \in Places
    BY ElementOfSeq DEF TInv, BatchTypes
  <2>2. place' \in [1..Len(place) -> Places]
    BY <1>1, <1>2, <2>1 DEF Places
  <2> QED BY <1>2, <2>2, SeqDef
<1>5. Len(place') = Len(place)
  BY <1>1, <1>2, <1>4, LenProperties
<1>6. \A n \in 1..Len(place) : place'[n] = IF place[n] = "waiting" THEN "ready" ELSE place[n]
  BY <1>1, <1>2
<1>7. BatchTypes'
  BY <1>1, <1>4, <1>5 DEF TInv, BatchTypes
<1>8. Order'
  BY <1>1, <1>3, <1>5, <1>6 DEF TInv, BatchTypes, Order, Call
<1>9. MissingSound'
  BY <1>1, <1>5, <1>6 DEF TInv, MissingSound, Lacking, Call
<1> QED BY <1>1, <1>5, <1>6, <1>7, <1>8, <1>9, Rearranged

\* A call ends: it is behind the loop, alone or with the reads beside it.
LEMMA EndShape ==
  ASSUME TInv, NEW n \in 1..Len(place), NEW r \in Results, End(n, r),
         UNCHANGED <<phase, response>>,
         \/ place[n] \in {"ready", "running"}
         \/ n = next /\ \A m \in 1..n-1 : place[m] = "done"
  PROVE  /\ BatchTypes' /\ Order' /\ Len(place') = Len(place)
         /\ \A m \in 1..Len(place) : /\ place'[m] = IF m = n THEN "done" ELSE place[m]
                                     /\ out'[m] = IF m = n THEN r ELSE out[m]
         /\ DOMAIN place' = DOMAIN place
<1>1. /\ place' \in Seq(Places) /\ Len(place') = Len(place)
      /\ \A m \in 1..Len(place) : place'[m] = IF m = n THEN "done" ELSE place[m]
  BY ExceptSeq DEF TInv, BatchTypes, Places, End
<1>2. /\ out' \in Seq(Results) /\ Len(out') = Len(out)
      /\ \A m \in 1..Len(place) : out'[m] = IF m = n THEN r ELSE out[m]
  BY ExceptSeq DEF TInv, BatchTypes, End
<1>3. next' = (IF n = next THEN next + 1 ELSE next) /\ failedAction' \in BOOLEAN
  BY DEF TInv, BatchTypes, End
<1>4. BatchTypes'
  BY <1>1, <1>2, <1>3, AtPosition DEF TInv, BatchTypes
<1>5. next \in 1..Len(place)+1 /\ (n # next => n < next)
  BY DEF TInv, BatchTypes, Order
<1>6. Order'
  <2>1. CASE n = next
    <3>1. \A m \in 1..n-1 : place[m] = "done"
      BY <2>1 DEF TInv, Order
    <3> QED BY <1>1, <1>3, <1>5, <2>1, <3>1 DEF TInv, Order, Call
  <2>2. CASE n # next
    BY <1>1, <1>3, <1>5, <2>2 DEF TInv, Order, Call
  <2> QED BY <2>1, <2>2
<1>7. DOMAIN place' = DOMAIN place
  BY <1>1, LenProperties DEF TInv, BatchTypes
<1> QED BY <1>1, <1>2, <1>4, <1>6, <1>7

\* The calls of a batch that have not ended can be counted.
LEMMA PendingIsFinite ==
  ASSUME TInv
  PROVE  IsFiniteSet(Pending) /\ Cardinality(Pending) \in Nat
<1>1. Len(place) \in Nat
  BY LenProperties DEF TInv, BatchTypes
<1>2. IsFiniteSet(1..Len(place))
  BY <1>1, FS_Interval
<1> QED BY <1>2, FS_Subset, FS_CardinalityType DEF Pending

\* The call that ends had not ended before, and its result was a blank.
LEMMA EndKnowledge ==
  ASSUME TInv, NEW n \in 1..Len(place), NEW r \in Results, End(n, r),
         UNCHANGED <<phase, response, results>>, place[n] # "done",
         \/ place[n] \in {"ready", "running"}
         \/ n = next /\ \A m \in 1..n-1 : place[m] = "done"
  PROVE  /\ out[n].effect = "notStarted" /\ ~out[n].seen
         /\ \A k \in Known' : k = r \/ k \in Known
         /\ \A k \in Known : k \in Known' \/ (k.effect = "notStarted" /\ ~k.seen)
         /\ r \in Known'
         /\ Pending' = Pending \ {n}
         /\ Cardinality(Pending') = Cardinality(Pending) - 1
<1>1. /\ Len(place') = Len(place)
      /\ \A m \in 1..Len(place) : /\ place'[m] = IF m = n THEN "done" ELSE place[m]
                                  /\ out'[m] = IF m = n THEN r ELSE out[m]
  BY EndShape
<1>2. out[n].effect = "notStarted" /\ ~out[n].seen
  <2>1. out[n] = NotStarted(Call(n), "refused")
    BY DEF TInv, OutSound
  <2> QED BY <2>1 DEF NotStarted, Result
<1>3. \A k \in Known' : k = r \/ k \in Known
  BY <1>1 DEF Known
<1>4. \A k \in Known : k \in Known' \/ (k.effect = "notStarted" /\ ~k.seen)
  BY <1>1, <1>2 DEF Known
<1>5. r \in Known'
  BY <1>1 DEF Known
<1>6. Pending' = Pending \ {n} /\ n \in Pending
  BY <1>1 DEF Pending
<1>7. Cardinality(Pending') = Cardinality(Pending) - 1
  BY <1>6, PendingIsFinite, FS_RemoveElement
<1> QED BY <1>2, <1>3, <1>4, <1>5, <1>6, <1>7

\* What is known of missing prerequisites survives the end of a call.
LEMMA EndMissing ==
  ASSUME TInv, NEW n \in 1..Len(place), NEW r \in Results, End(n, r),
         UNCHANGED <<phase, response>>, place[n] # "done", successful \subseteq successful',
         \/ place[n] \in {"ready", "running"}
         \/ n = next /\ \A m \in 1..n-1 : place[m] = "done",
         r.code = "missing" =>
           /\ \A m \in 1..n-1 : place[m] = "done"
           /\ \E t \in Requires[Call(n).tool] : \A m \in 1..n-1 :
                Call(m).tool = t => out[m].code # "ok"
  PROVE  MissingSound' /\ MissingIsTrue'
<1>1. /\ Len(place') = Len(place) /\ DOMAIN place' = DOMAIN place
      /\ \A m \in 1..Len(place) : /\ place'[m] = IF m = n THEN "done" ELSE place[m]
                                  /\ out'[m] = IF m = n THEN r ELSE out[m]
  BY EndShape
<1>2. DOMAIN place = 1..Len(place) /\ Len(place) \in Nat
  BY LenProperties DEF TInv, BatchTypes
<1>3. \A k : Lacking(k)' \subseteq Lacking(k) /\ Call(k)' = Call(k)
  BY DEF Lacking, Call
<1>4. MissingSound'
  <2> SUFFICES ASSUME NEW k \in 1..Len(place), NEW m \in 1..k-1,
                      \/ place'[k] \in {"waiting", "ready"} /\ Lacking(k)' # {}
                      \/ place'[k] = "done" /\ out'[k].code = "missing"
               PROVE  place'[m] = "done"
    BY <1>1 DEF MissingSound
  <2>1. CASE k = n
    BY <1>1, <1>2, <2>1
  <2>2. CASE k # n
    <3>1. place[m] = "done"
      BY <1>1, <1>3, <2>2 DEF TInv, MissingSound
    <3> QED BY <1>1, <1>2, <3>1
  <2> QED BY <2>1, <2>2
<1>5. MissingIsTrue'
  <2> SUFFICES ASSUME NEW k \in 1..Len(place), place'[k] = "done", out'[k].code = "missing"
               PROVE  \E t \in Requires[Call(k).tool] : \A m \in 1..k-1 :
                        Call(m).tool = t => out'[m].code # "ok"
    BY <1>1, <1>2, <1>3 DEF MissingIsTrue
  <2>1. CASE k = n
    BY <1>1, <1>2, <2>1
  <2>2. CASE k # n
    <3>1. place[k] = "done" /\ out[k].code = "missing"
      BY <1>1, <2>2
    <3>2. \A m \in 1..k-1 : place[m] = "done"
      BY <3>1 DEF TInv, MissingSound
    <3>3. \A m \in 1..k-1 : out'[m] = out[m]
      BY <1>1, <1>2, <3>2
    <3> QED BY <1>2, <3>1, <3>3 DEF TInv, MissingIsTrue
  <2> QED BY <2>1, <2>2
<1> QED BY <1>4, <1>5

\* A call that Ready(n) admits is behind the loop, or alone at its head.
LEMMA ReadyPosition ==
  ASSUME TInv, NEW n \in DOMAIN place, Ready(n)
  PROVE  /\ n \in 1..Len(place) /\ phase = "batch"
         /\ place[n] \in {"ready", "prepared", "rejected"}
         /\ \/ place[n] = "ready" /\ n < next /\ Call(n).tool \in SafeReads
            \/ n = next /\ \A m \in 1..n-1 : place[m] = "done"
<1>1. n \in 1..Len(place) /\ DOMAIN place = 1..Len(place) /\ Len(place) \in Nat /\ next \in Nat
  BY LenProperties DEF TInv, BatchTypes
<1>2. CASE place[n] = "ready"
  BY <1>1, <1>2 DEF TInv, Order, Ready, ReadyIf
<1>3. CASE place[n] # "ready"
  <2>1. /\ n = next /\ Quiet /\ At("waiting") = {} /\ place[n] \in {"prepared", "rejected"}
        /\ phase = "batch"
    BY <1>3 DEF Ready, ReadyIf
  <2>2. \A m \in 1..Len(place) : place[m] \notin {"ready", "running", "waiting"}
    BY <1>1, <2>1 DEF Quiet, At
  <2>3. \A m \in 1..n-1 : place[m] = "done"
    BY <1>1, <2>1, <2>2 DEF TInv, Order
  <2> QED BY <1>1, <2>1, <2>3
<1> QED BY <1>2, <1>3

\* The executor refuses a call; a missing prerequisite did not succeed before.
LEMMA RefuseKeepsTInv == ASSUME TInv, NEW n \in DOMAIN place, Refuse(n) PROVE TInv'
<1> DEFINE r == NotStarted(Call(n), Reason(n))
<1>1. /\ Ready(n) /\ Reason(n) # "ok" /\ End(n, r)
      /\ UNCHANGED <<phase, response, rounds, steps, repaired, terminal, reserved, expired,
                     mustReply, outcome>>
      /\ UNCHANGED <<counts, failures, successful, started, unknown, results, applied>>
  BY DEF Refuse, worldVars, ledgerVars
<1>2. /\ n \in 1..Len(place) /\ phase = "batch"
      /\ place[n] \in {"ready", "prepared", "rejected"}
      /\ \/ place[n] = "ready" /\ n < next /\ Call(n).tool \in SafeReads
         \/ n = next /\ \A m \in 1..n-1 : place[m] = "done"
  BY <1>1, ReadyPosition
<1>3. Call(n) \in Calls /\ DOMAIN place = 1..Len(place) /\ Len(place) \in Nat
  BY <1>2, AtPosition, LenProperties DEF TInv, BatchTypes
<1>4. Reason(n) \in {"refused", "missing"}
  BY <1>1 DEF Reason
<1>5. /\ r \in Results /\ r.code = Reason(n) /\ r.call = Call(n)
      /\ r.effect = "notStarted" /\ ~r.seen
  BY <1>3, <1>4 DEF Results, NotStarted, Result, Codes, Effects
<1>6. /\ BatchTypes' /\ Order' /\ Len(place') = Len(place)
      /\ \A m \in 1..Len(place) : /\ place'[m] = IF m = n THEN "done" ELSE place[m]
                                  /\ out'[m] = IF m = n THEN r ELSE out[m]
  BY <1>1, <1>2, <1>5, EndShape
<1>7. /\ \A k \in Known' : k = r \/ k \in Known
      /\ \A k \in Known : k \in Known' \/ (k.effect = "notStarted" /\ ~k.seen)
      /\ Cardinality(Pending') = Cardinality(Pending) - 1
  BY <1>1, <1>2, <1>5, EndKnowledge
<1>8. LoopTypes' /\ LedgerTypes'
  BY <1>1 DEF TInv, LoopTypes, LedgerTypes
<1>9. FailuresCounted'
  BY <1>1, <1>7, PendingIsFinite DEF TInv, FailuresCounted, LoopTypes, LedgerTypes
<1>10. OutSound'
  <2>1. failedAction' = (failedAction \/ (Call(n).tool \in Actions /\ r.code # "ok"))
    BY <1>1 DEF End
  <2> QED BY <1>1, <1>4, <1>5, <1>6, <2>1 DEF TInv, OutSound, Call
<1>11. OnceSound'
  <2>1. \A m \in 1..Len(place) : place[m] = "running" /\ Call(m).tool \in Actions => FALSE
    <3> SUFFICES ASSUME NEW m \in 1..Len(place), place[m] = "running", Call(m).tool \in Actions
                 PROVE  FALSE
      OBVIOUS
    <3>1. m = next
      BY ToolsAssumption DEF TInv, Order, BatchTypes
    <3>2. n < next
      BY <1>2, <3>1
    <3>3. place[n] = "done"
      BY <1>3, <3>1, <3>2 DEF TInv, Order
    <3> QED BY <1>2, <3>3
  <2> QED BY <1>1, <1>6, <2>1 DEF TInv, OnceSound, Call
<1>12. EffectsKnown'
  <2>1. \A k \in Known' : k.effect = "committed" => k \in Known
    BY <1>5, <1>7
  <2>2. \A k \in Known : k.seen \/ k.effect = "unknown" => k \in Known'
    BY <1>7
  <2> QED BY <1>1, <2>1, <2>2 DEF TInv, EffectsKnown
<1>13. SuppressionIsHonest'
  BY <1>1 DEF TInv, SuppressionIsHonest
<1>14. MissingSound' /\ MissingIsTrue'
  <2>1. ASSUME r.code = "missing"
        PROVE  /\ \A m \in 1..n-1 : place[m] = "done"
               /\ \E t \in Requires[Call(n).tool] : \A m \in 1..n-1 :
                    Call(m).tool = t => out[m].code # "ok"
    <3>1. Lacking(n) # {}
      BY <1>5, <2>1 DEF Reason
    <3>2. \A m \in 1..n-1 : place[m] = "done"
      BY <1>2, <3>1 DEF TInv, MissingSound
    <3>3. PICK t \in Requires[Call(n).tool] : t \notin successful
      BY <3>1 DEF Lacking
    <3>4. \A m \in 1..n-1 : Call(m).tool = t => out[m].code # "ok"
      BY <1>2, <1>3, <3>2, <3>3 DEF TInv, OutSound
    <3> QED BY <3>2, <3>4
  <2> QED BY <1>1, <1>2, <1>5, <2>1, EndMissing
<1> QED BY <1>6, <1>8, <1>9, <1>10, <1>11, <1>12, <1>13, <1>14 DEF TInv

\* A call begins: an action only if it was never started and none is unknown.
LEMMA InvokeKeepsTInv == ASSUME TInv, NEW n \in DOMAIN place, Invoke(n) PROVE TInv'
<1>1. /\ Ready(n) /\ Reason(n) = "ok" /\ place' = [place EXCEPT ![n] = "running"]
      /\ started' = IF Call(n).tool \in Actions THEN started \cup {Call(n)} ELSE started
      /\ UNCHANGED <<phase, response, rounds, steps, repaired, terminal, reserved, expired,
                     mustReply, outcome>>
      /\ UNCHANGED <<counts, failures, successful, unknown, next, out, failedAction, results,
                     applied>>
  BY DEF Invoke, InvokeWhen, worldVars
<1>2. /\ n \in 1..Len(place) /\ phase = "batch"
      /\ place[n] \in {"ready", "prepared", "rejected"}
      /\ \/ place[n] = "ready" /\ n < next /\ Call(n).tool \in SafeReads
         \/ n = next /\ \A m \in 1..n-1 : place[m] = "done"
  BY <1>1, ReadyPosition
<1>3. Call(n) \in Calls /\ DOMAIN place = 1..Len(place) /\ Len(place) \in Nat
  BY <1>2, AtPosition, LenProperties DEF TInv, BatchTypes
<1>4. /\ place[n] # "rejected" /\ ~AfterFailure(n) /\ ~Blocked(n)
  BY <1>1 DEF Reason
<1>5. /\ place' \in Seq(Places) /\ Len(place') = Len(place) /\ DOMAIN place' = 1..Len(place)
      /\ \A m \in 1..Len(place) : place'[m] = IF m = n THEN "running" ELSE place[m]
  <2>1. place' \in Seq(Places) /\ Len(place') = Len(place)
        /\ \A m \in 1..Len(place) : place'[m] = IF m = n THEN "running" ELSE place[m]
    BY <1>1, <1>2, ExceptSeq DEF TInv, BatchTypes, Places
  <2> QED BY <2>1, LenProperties
<1>6. LoopTypes' /\ BatchTypes'
  BY <1>1, <1>2, <1>5 DEF TInv, LoopTypes, BatchTypes
<1>7. LedgerTypes'
  BY <1>1, <1>3 DEF TInv, LedgerTypes
<1>8. Order'
  <2>1. CASE n = next
    <3>1. \A m \in 1..n-1 : place[m] = "done"
      BY <2>1 , <1>2
    <3> QED BY <1>1, <1>2, <1>4, <1>5, <2>1, <3>1 DEF TInv, BatchTypes, Order, Call
  <2>2. CASE n # next
    BY <1>1, <1>2, <1>5, <2>2 DEF TInv, BatchTypes, Order, Call
  <2> QED BY <2>1, <2>2
<1>9. Pending' = Pending /\ Known' = Known
  BY <1>1, <1>2, <1>5 DEF Pending, Known
<1>10. FailuresCounted'
  BY <1>1, <1>9 DEF TInv, FailuresCounted
<1>11. OutSound' /\ MissingSound'
  BY <1>1, <1>2, <1>5 DEF TInv, OutSound, MissingSound, Call, Lacking
<1>12. OnceSound'
  <2>1. ASSUME Call(n).tool \in Actions
        PROVE  Call(n) \notin started /\ ~unknown /\ ~failedAction /\ applied[Call(n)] = 0
    BY <1>3, <1>4, <2>1 DEF TInv, OnceSound, AfterFailure, Blocked
  <2>2. started \subseteq started'
    BY <1>1
  <2>3. \A c \in Calls : applied[c] <= 1 /\ (applied[c] # 0 => c.tool \in Actions /\ c \in started')
    BY <2>2 DEF TInv, OnceSound
  <2>4. ASSUME NEW m \in 1..Len(place), place'[m] = "running", Call(m).tool \in Actions
        PROVE  /\ Call(m) \in started' /\ applied[Call(m)] = 0
               /\ ~unknown /\ ~failedAction
    <3>1. CASE m = n
      BY <1>1, <2>1, <2>4, <3>1
    <3>2. CASE m # n
      BY <1>5, <2>2, <2>4, <3>2 DEF TInv, OnceSound
    <3> QED BY <3>1, <3>2
  <2> QED BY <1>1, <1>5, <2>3, <2>4 DEF OnceSound, Call
<1>13. EffectsKnown'
  BY <1>1, <1>9 DEF TInv, EffectsKnown
<1>14. MissingIsTrue' /\ SuppressionIsHonest'
  BY <1>1, <1>2, <1>3, <1>5 DEF TInv, MissingIsTrue, SuppressionIsHonest, Call
<1> QED BY <1>6, <1>7, <1>8, <1>10, <1>11, <1>12, <1>13, <1>14 DEF TInv

\* What a call may return.
LEMMA Returned ==
  ASSUME NEW c \in Calls, NEW r \in IF c.tool \in Actions THEN ActionResults(c) ELSE ReadResults(c)
  PROVE  /\ r \in Results /\ r.call = c /\ r.code \in {"ok", "failed"}
         /\ r.effect \in {"committed", "partial", "unknown"} => c.tool \in Actions
         /\ r.effect \in {"committed", "partial"} => r.seen
         /\ c.tool \notin Actions => r.effect = "none" /\ ~r.seen
         /\ c.tool \in Actions => r.effect # "none"
<1>1. CASE c.tool \in Actions
  <2>1. r \in ActionResults(c)
    BY <1>1
  <2>2. PICK code \in {"ok", "failed"}, seen \in BOOLEAN,
             effect \in {"committed", "partial", "unknown", "notCommitted", "notStarted"} :
          r = Result(c, code, effect, seen) /\ (effect \in {"committed", "partial"} => seen)
    BY <2>1 DEF ActionResults
  <2>3. r.call = c /\ r.code = code /\ r.effect = effect /\ r.seen = seen
    BY <2>2 DEF Result
  <2>4. r \in Results
    BY <2>2 DEF Result, Results, Codes, Effects
  <2> QED BY <1>1, <2>2, <2>3, <2>4
<1>2. CASE c.tool \notin Actions
  <2>1. r \in ReadResults(c)
    BY <1>2
  <2>2. PICK code \in {"ok", "failed"} : r = Result(c, code, "none", FALSE)
    BY <2>1 DEF ReadResults
  <2>3. r.call = c /\ r.code = code /\ r.effect = "none" /\ r.seen = FALSE
    BY <2>2 DEF Result
  <2>4. r \in Results
    BY <2>2 DEF Result, Results, Codes, Effects
  <2> QED BY <1>2, <2>2, <2>3, <2>4
<1> QED BY <1>1, <1>2

\* A call returns: what it did is in the ledger and in its result.
LEMMA ReturnKeepsTInv == ASSUME TInv, NEW n \in DOMAIN place, Return(n) PROVE TInv'
<1> DEFINE call == Call(n)
<1>1. PICK r \in IF call.tool \in Actions THEN ActionResults(call) ELSE ReadResults(call) :
        /\ End(n, r)
        /\ failures' = IF r.code = "failed" /\ r.effect # "notStarted"
                       THEN [failures EXCEPT ![call.tool] = @ + 1] ELSE failures
        /\ successful' = IF r.code = "failed" THEN successful ELSE successful \cup {call.tool}
        /\ started' = IF r.effect \in {"notStarted", "notCommitted"}
                      THEN started \ {call} ELSE started
        /\ unknown' = (unknown \/ r.effect = "unknown")
        /\ applied' = IF r.effect \in {"committed", "partial", "unknown"}
                      THEN [applied EXCEPT ![call] = @ + 1] ELSE applied
  BY DEF Return, ReturnReleasing
<1>2. /\ place[n] = "running"
      /\ UNCHANGED <<phase, response, rounds, steps, repaired, terminal, reserved, expired,
                     mustReply, outcome>>
      /\ UNCHANGED <<counts, results>>
  BY DEF Return, ReturnReleasing, worldVars
<1>3. /\ n \in 1..Len(place) /\ phase = "batch" /\ call \in Calls /\ call.tool \in Tools
      /\ DOMAIN place = 1..Len(place) /\ Len(place) \in Nat
  BY <1>2, AtPosition, LenProperties DEF TInv, BatchTypes, Order
<1> HIDE DEF call
<1>4. /\ r \in Results /\ r.call = call /\ r.code \in {"ok", "failed"}
      /\ r.effect \in {"committed", "partial", "unknown"} => call.tool \in Actions
      /\ r.effect \in {"committed", "partial"} => r.seen
      /\ call.tool \notin Actions => r.effect = "none" /\ ~r.seen
  BY <1>1, <1>3, Returned
<1>5. /\ BatchTypes' /\ Order' /\ Len(place') = Len(place)
      /\ \A m \in 1..Len(place) : /\ place'[m] = IF m = n THEN "done" ELSE place[m]
                                  /\ out'[m] = IF m = n THEN r ELSE out[m]
  BY <1>1, <1>2, <1>3, <1>4, EndShape
<1>6. /\ \A k \in Known' : k = r \/ k \in Known
      /\ \A k \in Known : k \in Known' \/ (k.effect = "notStarted" /\ ~k.seen)
      /\ r \in Known'
      /\ Cardinality(Pending') = Cardinality(Pending) - 1
  BY <1>1, <1>2, <1>3, <1>4, EndKnowledge
<1>7. LoopTypes'
  BY <1>2 DEF TInv, LoopTypes
<1>8. LedgerTypes'
  <2>1. failures' \in [Tools -> Nat] /\ applied' \in [Calls -> Nat]
    BY <1>1, <1>3 DEF TInv, LedgerTypes
  <2>2. successful' \subseteq Tools /\ started' \subseteq Calls /\ unknown' \in BOOLEAN
    BY <1>1, <1>3 DEF TInv, LedgerTypes
  <2> QED BY <1>2, <2>1, <2>2 DEF TInv, LedgerTypes
<1>9. FailuresCounted'
  <2>1. \A t \in Tools : failures'[t] <= failures[t] + 1 /\ failures'[t] \in Nat
                         /\ failures[t] \in Nat
    BY <1>1, <1>3 DEF TInv, LedgerTypes
  <2> QED BY <1>2, <1>6, <2>1, PendingIsFinite DEF TInv, FailuresCounted, LoopTypes
<1>10. OutSound'
  <2>1. failedAction' = (failedAction \/ (call.tool \in Actions /\ r.code # "ok"))
    BY <1>1 DEF End, call
  <2>2. successful \subseteq successful' /\ (r.code = "ok" => call.tool \in successful')
    BY <1>1
  <2> QED BY <1>2, <1>4, <1>5, <2>1, <2>2 DEF TInv, OutSound, Call, call
<1>11. ASSUME call.tool \in Actions
       PROVE  /\ call \in started /\ applied[call] = 0 /\ ~unknown
              /\ \A m \in 1..Len(place) : m # n /\ place[m] = "running" => Call(m).tool \notin Actions
  <2>1. n = next
    BY <1>2, <1>3, <1>11, ToolsAssumption DEF TInv, Order, BatchTypes, call
  <2>2. \A m \in 1..Len(place) : m # n /\ place[m] = "running" => Call(m).tool \in SafeReads
    BY <1>3, <2>1 DEF TInv, Order, BatchTypes
  <2> QED BY <1>2, <1>3, <1>11, <2>2, ToolsAssumption DEF TInv, OnceSound, call
<1>12. OnceSound'
  <2>1. CASE call.tool \notin Actions
    <3>1. UNCHANGED <<started, unknown, applied, failedAction>>
      BY <1>1, <1>4, <2>1 DEF End, call, TInv, LedgerTypes, BatchTypes
    <3> QED BY <1>2, <1>5, <3>1 DEF TInv, OnceSound, Call
  <2>2. CASE call.tool \in Actions
    <3>1. \A m \in 1..Len(place) : place'[m] = "running" => Call(m).tool \notin Actions
      BY <1>5, <1>11, <2>2
    <3>2. CASE r.effect \in {"committed", "partial", "unknown"}
      <4>1. started' = started /\ applied' = [applied EXCEPT ![call] = @ + 1]
        BY <1>1, <3>2
      <4>2. applied'[call] = 1 /\ \A c \in Calls : c # call => applied'[c] = applied[c]
        BY <1>3, <1>11, <2>2, <4>1 DEF TInv, LedgerTypes
      <4>3. \A c \in Calls : applied'[c] <= 1 /\ (applied'[c] # 0 => c.tool \in Actions /\ c \in started')
        BY <1>11, <2>2, <4>1, <4>2 DEF TInv, OnceSound
      <4> QED BY <1>2, <1>5, <3>1, <4>3 DEF OnceSound, Call
    <3>3. CASE r.effect \notin {"committed", "partial", "unknown"}
      <4>1. applied' = applied /\ started \ {call} \subseteq started'
        BY <1>1, <3>3
      <4>2. \A c \in Calls : applied'[c] <= 1 /\ (applied'[c] # 0 => c.tool \in Actions /\ c \in started')
        BY <1>11, <2>2, <4>1 DEF TInv, OnceSound
      <4> QED BY <1>2, <1>5, <3>1, <4>2 DEF OnceSound, Call
    <3> QED BY <3>2, <3>3
  <2> QED BY <2>1, <2>2
<1>13. EffectsKnown'
  <2>1. Known \subseteq Results
    BY AtPosition DEF TInv, LedgerTypes, Known
  <2>2. \A c \in Calls : applied[c] # 0 => applied'[c] # 0
    BY <1>1, <1>3 DEF TInv, LedgerTypes
  <2>3. \A c \in Calls : applied'[c] # 0 =>
          applied[c] # 0 \/ (c = call /\ r.effect \in {"committed", "partial", "unknown"})
    BY <1>1, <1>3 DEF TInv, LedgerTypes
  <2>4. r.effect = "committed" => applied'[call] # 0
    BY <1>1, <1>3 DEF TInv, LedgerTypes
  <2>5. \A k \in Known' : k.effect = "committed" => applied'[k.call] # 0
    BY <1>4, <1>6, <2>1, <2>2, <2>4 DEF TInv, EffectsKnown, Results
  <2>6. \A c \in Calls : applied'[c] # 0 =>
          \E k \in Known' : k.call = c /\ (k.seen \/ k.effect = "unknown")
    BY <1>4, <1>6, <2>3 DEF TInv, EffectsKnown
  <2>7. unknown' => \E k \in Known' : k.effect = "unknown"
    BY <1>1, <1>6 DEF TInv, EffectsKnown
  <2> QED BY <2>5, <2>6, <2>7 DEF EffectsKnown
<1>14. MissingSound' /\ MissingIsTrue'
  BY <1>1, <1>2, <1>3, <1>4, EndMissing
<1>15. SuppressionIsHonest'
  BY <1>2, <1>3 DEF TInv, LoopTypes, SuppressionIsHonest
<1> QED BY <1>5, <1>7, <1>8, <1>9, <1>10, <1>12, <1>13, <1>14, <1>15 DEF TInv

\* The batch is over: its results join those of the turn.
LEMMA EndBatchKeepsTInv == ASSUME TInv, EndBatch PROVE TInv'
<1>1. /\ phase = "batch" /\ Quiet /\ At("waiting") = {} /\ next > Len(place)
      /\ results' = results \cup {out[n] : n \in DOMAIN out}
      /\ place' = <<>> /\ out' = <<>> /\ next' = 1 /\ failedAction' = FALSE /\ phase' = "ask"
      /\ UNCHANGED <<response, rounds, steps, repaired, terminal, reserved, expired, mustReply,
                     outcome>>
      /\ UNCHANGED <<counts, failures, successful, started, unknown, applied>>
  BY DEF EndBatch, EndBatchWith, worldVars, ledgerVars
<1>2. DOMAIN out = 1..Len(place) /\ Len(place') = 0 /\ DOMAIN place' = {} /\ 1..Len(place') = {}
  BY <1>1, LenProperties DEF TInv, BatchTypes
<1>3. results' = Known /\ Known' = Known /\ Pending' = {}
  BY <1>1, <1>2 DEF Known, Pending
<1>4. LoopTypes'
  BY <1>1 DEF TInv, LoopTypes
<1>5. LedgerTypes'
  BY <1>1, <1>3, AtPosition DEF TInv, LedgerTypes, Known
<1>6. BatchTypes'
  <2>1. place' \in Seq(Places) /\ out' \in Seq(Results)
    BY <1>1, EmptySeq
  <2>2. Len(out') = Len(place') /\ next' \in 1..Len(place')+1
    BY <1>1, <1>2
  <2> QED BY <1>1, <2>1, <2>2 DEF BatchTypes
<1>7. FailuresCounted'
  <2>1. Cardinality(Pending') = 0
    BY <1>3, FS_EmptySet
  <2> QED BY <1>1, <2>1, PendingIsFinite DEF TInv, FailuresCounted, LoopTypes, LedgerTypes
<1>8. Order' /\ OutSound' /\ MissingSound' /\ MissingIsTrue'
  BY <1>2 DEF Order, OutSound, MissingSound, MissingIsTrue
<1>9. OnceSound'
  BY <1>1, <1>2 DEF TInv, OnceSound
<1>10. EffectsKnown'
  BY <1>1, <1>3 DEF TInv, EffectsKnown
<1>11. SuppressionIsHonest'
  BY <1>1 DEF TInv, LoopTypes, SuppressionIsHonest
<1> QED BY <1>4, <1>5, <1>6, <1>7, <1>8, <1>9, <1>10, <1>11 DEF TInv

\* prepare() never admits more calls of a tool than its budget leaves: the
\* calls admitted are told apart by the number of calls before them.
LEMMA AdmissionIsBounded ==
  ASSUME response.calls \in Seq(Calls), NEW t \in Tools, counts[t] \in 0..MaxPerTool
  PROVE  LET S == {n \in DOMAIN response.calls : response.calls[n].tool = t /\ Admitted(n)}
         IN  counts[t] + Cardinality(S) \in 0..MaxPerTool
<1> DEFINE S == {n \in DOMAIN response.calls : response.calls[n].tool = t /\ Admitted(n)}
           left == MaxPerTool - counts[t]
           T == 0 .. left - 1
           f == [n \in S |-> Cardinality(Earlier(n))]
<1>1. left \in Nat /\ MaxPerTool \in Nat /\ IsFiniteSet(T) /\ Cardinality(T) = left
  <2>1. left \in Nat /\ MaxPerTool \in Nat
    BY LimitsAssumption
  <2> HIDE DEF left
  <2>2. left - 1 \in Int /\ 0 \in Int
    BY <2>1
  <2>3. \A a, b \in Int : /\ IsFiniteSet(a..b)
                          /\ Cardinality(a..b) = IF a > b THEN 0 ELSE b-a+1
    BY FS_Interval
  <2>4. /\ IsFiniteSet(0..(left-1))
        /\ Cardinality(0..(left-1)) = IF 0 > left-1 THEN 0 ELSE (left-1)-0+1
    BY <2>2, <2>3, Zenon
  <2> QED BY <2>1, <2>2, <2>4
<1>2. \A n \in S : n \in Nat /\ n >= 1
  BY LenProperties
<1>3. \A n \in S : IsFiniteSet(Earlier(n)) /\ Cardinality(Earlier(n)) \in Nat
  <2> SUFFICES ASSUME NEW n \in S
               PROVE  IsFiniteSet(Earlier(n)) /\ Cardinality(Earlier(n)) \in Nat
    OBVIOUS
  <2>1. n - 1 \in Int
    BY <1>2
  <2>2. IsFiniteSet(1..n-1)
    BY <2>1, FS_Interval
  <2>3. Earlier(n) \in SUBSET (1..n-1)
    BY DEF Earlier
  <2> QED BY <2>2, <2>3, FS_Subset, FS_CardinalityType
<1>4. \A n \in S : f[n] \in T
  BY <1>1, <1>3 DEF Admitted, AdmittedAfter
<1>5. \A m, n \in S : m < n => f[m] < f[n]
  <2> SUFFICES ASSUME NEW m \in S, NEW n \in S, m < n
               PROVE  Cardinality(Earlier(m)) < Cardinality(Earlier(n))
    OBVIOUS
  <2>1. m \notin Earlier(m) /\ Earlier(m) \cup {m} \in SUBSET Earlier(n)
    BY <1>2 DEF Earlier
  <2>2. Cardinality(Earlier(m) \cup {m}) = Cardinality(Earlier(m)) + 1
    BY <1>3, <2>1, FS_AddElement
  <2>3. Cardinality(Earlier(m) \cup {m}) <= Cardinality(Earlier(n))
    BY <1>3, <2>1, FS_Subset
  <2> QED BY <1>3, <2>2, <2>3
<1>6. f \in Injection(S, T)
  <2>1. f \in [S -> T]
    BY <1>4
  <2>2. \A m, n \in S : f[m] = f[n] => m = n
    <3>1. \A m \in S : f[m] \in Int /\ m \in Int
      BY <1>2, <1>3
    <3> HIDE DEF f, S
    <3> QED BY <1>5, <3>1
  <2> QED BY <2>1, <2>2 DEF Injection, IsInjective
<1>7. IsFiniteSet(S) /\ Cardinality(S) <= left
  BY <1>1, <1>6, FS_Injection
<1>8. Cardinality(S) \in Nat
  BY <1>7, FS_CardinalityType
<1> HIDE DEF S
<1>9. counts[t] + Cardinality(S) \in 0..MaxPerTool
  BY <1>1, <1>7, <1>8
<1> QED BY <1>9 DEF S

\* A batch begins: admitted and rejected calls wait, with a blank result.
LEMMA BeginBatchKeepsTInv == ASSUME TInv, BeginBatch PROVE TInv'
<1> DEFINE calls == response.calls
           indices == DOMAIN calls
           S(t) == {n \in indices : calls[n].tool = t /\ Admitted(n)}
<1>1. /\ phase = "judge" /\ ~OverBudget /\ response.kind = "calls" /\ phase' = "batch"
      /\ reserved' = reserved + Len(calls)
      /\ next' = 1 /\ failedAction' = FALSE
      /\ UNCHANGED <<response, rounds, steps, repaired, terminal, expired, failures,
                     successful, started, unknown, results, applied, mustReply, outcome>>
  BY DEF BeginBatch
<1>2. /\ counts' = [t \in Tools |-> counts[t] + Cardinality(S(t))]
      /\ place' = [n \in indices |-> IF Admitted(n) /\ calls[n].arg # Malformed
                                     THEN "prepared" ELSE "rejected"]
      /\ out' = [n \in indices |-> NotStarted(calls[n], "refused")]
  BY DEF BeginBatch
<1>3. /\ calls \in Seq(Calls) /\ Len(calls) \in Nat /\ indices = 1..Len(calls)
      /\ \A n \in indices : calls[n] \in Calls
  BY <1>1, CallsAreSequences, LenProperties, ElementOfSeq DEF TInv, LoopTypes
<1>4. place = <<>> /\ Known = results /\ Pending = {}
  BY <1>1, NoPosition
<1> HIDE DEF calls
<1>5. /\ place' \in Seq(Places) /\ Len(place') = Len(calls)
      /\ out' \in Seq(Results) /\ Len(out') = Len(calls)
      /\ DOMAIN place' = 1..Len(calls)
  <2>1. place' \in [1..Len(calls) -> Places]
    BY <1>2, <1>3 DEF Places
  <2>2. \A n \in indices : NotStarted(calls[n], "refused") \in Results
    BY <1>3 DEF NotStarted, Result, Results, Codes, Effects
  <2>3. out' \in [1..Len(calls) -> Results]
    BY <1>2, <1>3, <2>2
  <2>4. place' \in Seq(Places) /\ out' \in Seq(Results)
    BY <1>3, <2>1, <2>3, SeqDef
  <2> QED BY <1>3, <2>1, <2>3, <2>4, LenProperties
<1>6. \A n \in 1..Len(calls) :
        /\ place'[n] \in {"prepared", "rejected"}
        /\ place'[n] = "prepared" => calls[n].tool \in Tools
        /\ out'[n] = NotStarted(calls[n], "refused")
  BY <1>2, <1>3 DEF Admitted, AdmittedAfter, calls
<1>6a. \A n \in 1..Len(calls) : out'[n].call = calls[n] /\ out'[n].effect = "notStarted"
  <2> SUFFICES ASSUME NEW n \in 1..Len(calls)
               PROVE  out'[n].call = calls[n] /\ out'[n].effect = "notStarted"
    OBVIOUS
  <2>1. out'[n] = NotStarted(calls[n], "refused")
    BY <1>6
  <2> QED BY <2>1 DEF NotStarted, Result
<1>7. \A n : Call(n)' = calls[n]
  BY <1>1 DEF Call, calls
<1>8. reserved' \in 0..MaxToolCalls
  BY <1>1, <1>3, LimitsAssumption DEF TInv, LoopTypes, OverBudget, calls
<1>9. LoopTypes'
  BY <1>1, <1>8 DEF TInv, LoopTypes
<1>10. LedgerTypes'
  <2>1. \A t \in Tools : counts[t] + Cardinality(S(t)) \in 0..MaxPerTool
    BY <1>3, AdmissionIsBounded DEF TInv, LedgerTypes, calls
  <2>2. counts' \in [Tools -> 0..MaxPerTool]
    BY <1>2, <2>1
  <2> QED BY <1>1, <2>2 DEF TInv, LedgerTypes
<1>11. BatchTypes'
  <2>1. next' \in 1..Len(place')+1
    BY <1>1, <1>3, <1>5
  <2>3. failedAction' \in BOOLEAN
    BY <1>1
  <2>2. response'.kind = "calls" /\ Len(place') = Len(response'.calls)
    BY <1>1, <1>5 DEF calls
  <2> QED BY <1>1, <1>5, <2>1, <2>2, <2>3 DEF BatchTypes
<1>12. Order'
  BY <1>1, <1>3, <1>5, <1>6, <1>7 DEF Order
<1>13. FailuresCounted'
  <2>1. Pending' \in SUBSET (1..Len(calls))
    BY <1>5 DEF Pending
  <2>2. Len(calls) \in Int /\ 1 \in Int
    BY <1>3
  <2>3. IsFiniteSet(1..Len(calls)) /\ Cardinality(1..Len(calls)) = Len(calls)
    <3>1. /\ IsFiniteSet(1..Len(calls))
          /\ Cardinality(1..Len(calls)) = IF 1 > Len(calls) THEN 0 ELSE Len(calls)-1+1
      BY <2>2, FS_Interval
    <3> QED BY <1>3, <3>1
  <2>4. Cardinality(Pending') <= Len(calls) /\ Cardinality(Pending') \in Nat
    BY <2>1, <2>3, FS_Subset, FS_CardinalityType
  <2>5. \A t \in Tools : failures[t] <= reserved
    BY <1>4, FS_EmptySet DEF TInv, FailuresCounted, LedgerTypes
  <2> QED BY <1>1, <1>3, <2>4, <2>5 DEF TInv, FailuresCounted, LedgerTypes, LoopTypes
<1>14. OutSound' /\ MissingSound' /\ MissingIsTrue'
  <2>1. \A n \in 1..Len(calls) : place'[n] # "done" /\ place'[n] \notin {"waiting", "ready"}
    BY <1>6
  <2> QED BY <1>5, <1>6, <1>7, <1>6a, <2>1 DEF OutSound, MissingSound, MissingIsTrue
<1>15. OnceSound'
  BY <1>1, <1>5, <1>6 DEF TInv, OnceSound
<1>16. EffectsKnown'
  <2>1. \A k \in Known' : k \in Known \/ k.effect = "notStarted"
    BY <1>1, <1>4, <1>5, <1>6a DEF Known
  <2>2. Known \subseteq Known'
    BY <1>1, <1>4 DEF Known
  <2> QED BY <1>1, <2>1, <2>2 DEF TInv, EffectsKnown
<1>17. SuppressionIsHonest'
  BY <1>1 DEF TInv, LoopTypes, SuppressionIsHonest
<1> QED BY <1>9, <1>10, <1>11, <1>12, <1>13, <1>14, <1>15, <1>16, <1>17 DEF TInv

-----------------------------------------------------------------------------
(* The theorems *)

\* A turn begins with a response and a blank ledger.
LEMMA InitTInv == TInit => TInv
<1> SUFFICES ASSUME TInit PROVE TInv
  OBVIOUS
<1>1. LoopTypes
  <2>1. steps \in 1..MaxSteps /\ reserved \in 0..MaxToolCalls /\ rounds \in Nat
    BY LimitsAssumption DEF TInit
  <2>2. /\ repaired \in BOOLEAN /\ terminal \in BOOLEAN /\ expired \in BOOLEAN
        /\ mustReply \in BOOLEAN
    BY DEF TInit
  <2> QED BY <2>1, <2>2 DEF TInit, LoopTypes
<1>2. LedgerTypes
  <2>1. counts \in [Tools -> 0..MaxPerTool] /\ failures \in [Tools -> Nat]
    BY LimitsAssumption DEF TInit
  <2>2. applied \in [Calls -> Nat]
    BY DEF TInit
  <2>3. successful \subseteq Tools /\ started \subseteq Calls /\ unknown \in BOOLEAN
        /\ results \subseteq Results
    BY DEF TInit
  <2> QED BY <2>1, <2>2, <2>3 DEF LedgerTypes
<1>3. place = <<>> /\ out = <<>> /\ Len(place) = 0 /\ Len(out) = 0 /\ 1..Len(place) = {}
      /\ DOMAIN place = {}
  BY DEF TInit
<1>4. BatchTypes
  <2>1. place \in Seq(Places) /\ out \in Seq(Results)
    BY <1>3, EmptySeq
  <2>2. next \in 1..Len(place)+1 /\ phase = "judge"
    BY <1>3 DEF TInit
  <2>3. failedAction \in BOOLEAN
    BY DEF TInit
  <2> QED BY <1>3, <2>1, <2>2, <2>3 DEF BatchTypes
<1>5. Pending = {} /\ Known = {}
  BY <1>3 DEF TInit, Pending, Known
<1>6. FailuresCounted
  BY <1>5, FS_EmptySet DEF TInit, FailuresCounted
<1>7. Order /\ OutSound /\ OnceSound /\ MissingSound /\ MissingIsTrue
  BY <1>3 DEF TInit, Order, OutSound, OnceSound, MissingSound, MissingIsTrue
<1>8. EffectsKnown /\ SuppressionIsHonest
  BY <1>5 DEF TInit, EffectsKnown, SuppressionIsHonest
<1> QED BY <1>1, <1>2, <1>4, <1>6, <1>7, <1>8 DEF TInv

\* Every step of a turn.
LEMMA NextTInv == TInv /\ [TNext]_tvars => TInv'
<1> SUFFICES ASSUME TInv, [TNext]_tvars PROVE TInv'
  OBVIOUS
<1>1. CASE Judge
  BY <1>1, JudgeKeepsTInv, BeginBatchKeepsTInv DEF Judge
<1>2. CASE Ask
  BY <1>2, AskKeepsTInv
<1>3. CASE Collect \/ Flush
  BY <1>3, CollectKeepsTInv, FlushKeepsTInv
<1>4. CASE Execute
  BY <1>4, RefuseKeepsTInv, InvokeKeepsTInv, ReturnKeepsTInv DEF Execute
<1>5. CASE EndBatch
  BY <1>5, EndBatchKeepsTInv
<1>6. CASE Expire \/ Done
  BY <1>6, ExpireKeepsTInv
<1>7. CASE UNCHANGED tvars
  BY <1>7, ExpireKeepsTInv, NothingMoves DEF tvars, loopVars, TInv, LoopTypes
<1> QED BY <1>1, <1>2, <1>3, <1>4, <1>5, <1>6, <1>7 DEF TNext, Proceed

\* The strengthened invariant holds in every reachable state of a turn.
THEOREM TurnInvariant == TSpec => []TInv
<1>1. TInit => TInv
  BY InitTInv
<1>2. TInv /\ [TNext]_tvars => TInv'
  BY NextTInv
<1> QED BY <1>1, <1>2, PTL DEF TSpec

\* The types follow: no tool fails more often than calls were reserved.
LEMMA TypesFollow == ASSUME TInv PROVE TTypeOK
<1>1. Len(place) \in Nat /\ DOMAIN place = 1..Len(place) /\ DOMAIN out = 1..Len(place)
  BY LenProperties DEF TInv, BatchTypes
<1>2. Len(place) <= MaxBatch
  <2>1. CASE phase = "batch"
    BY <2>1, CallsAreSequences, LimitsAssumption DEF TInv, BatchTypes, LoopTypes
  <2>2. CASE phase # "batch"
    BY <2>2, NoPosition, LimitsAssumption
  <2> QED BY <2>1, <2>2
<1>3. failures \in [Tools -> 0..MaxToolCalls]
  <2>1. \A t \in Tools : failures[t] \in 0..MaxToolCalls
    BY PendingIsFinite, LimitsAssumption DEF TInv, FailuresCounted, LoopTypes, LedgerTypes
  <2> QED BY <2>1 DEF TInv, LedgerTypes
<1>4. \A n \in DOMAIN place : place[n] \in Places /\ out[n] \in Results
  BY <1>1, AtPosition
<1>5. \A r \in results \cup {out[n] : n \in DOMAIN out} :
        r.call \in Calls /\ r.code \in Codes /\ r.effect \in Effects /\ r.seen \in BOOLEAN
  BY <1>1, <1>4 DEF TInv, LedgerTypes, Results
<1>6. {repaired, terminal, expired, unknown, failedAction, mustReply} \subseteq BOOLEAN
  BY DEF TInv, LoopTypes, LedgerTypes, BatchTypes
<1> QED
  BY <1>1, <1>2, <1>3, <1>4, <1>5, <1>6 DEF TInv, LoopTypes, LedgerTypes, BatchTypes, TTypeOK

\* Every variable of a turn keeps its type, whatever the model and the
\* tools answer.
THEOREM TurnTypes == TSpec => []TTypeOK
<1> QED BY TurnInvariant, TypesFollow, PTL

\* A call that may have had its effect is never executed again (the ledger
\* keeps the calls that started).
LEMMA OnceFollows == ASSUME TInv PROVE NoRepeatedEffect /\ UnknownBlocks
<1>1. NoRepeatedEffect
  BY DEF TInv, OnceSound, NoRepeatedEffect
<1>2. UnknownBlocks
  BY AtPosition, LenProperties DEF TInv, BatchTypes, OnceSound, UnknownBlocks, Running
<1> QED BY <1>1, <1>2

\* For any model, tools and limits no effect of a turn happens twice.
THEOREM NoEffectIsRepeated == TSpec => []NoRepeatedEffect
<1> QED BY TurnInvariant, OnceFollows, PTL

\* No action runs after one whose outcome is unknown.
THEOREM UnknownIsABarrier == TSpec => []UnknownBlocks
<1> QED BY TurnInvariant, OnceFollows, PTL

\* An action runs at the head of the batch, with nothing behind it begun.
LEMMA OrderFollows == ASSUME TInv PROVE ActionsInOrder
<1> SUFFICES ASSUME NEW n \in DOMAIN place, Running(n), Call(n).tool \in Actions,
                    NEW m \in DOMAIN place \ {n}
             PROVE  /\ IF m < n THEN place[m] = "done" ELSE place[m] \in {"prepared", "rejected"}
                    /\ m < n /\ Call(m).tool \in Actions => out[m].code = "ok"
  BY DEF ActionsInOrder
<1>1. /\ DOMAIN place = 1..Len(place) /\ Len(place) \in Nat /\ next \in Nat
      /\ place[n] = "running"
  BY LenProperties DEF TInv, BatchTypes, Running
<1>2. n = next
  BY <1>1, ToolsAssumption DEF TInv, Order
<1>3. IF m < n THEN place[m] = "done" ELSE place[m] \in {"prepared", "rejected"}
  BY <1>1, <1>2 DEF TInv, Order
<1>4. ~failedAction
  BY <1>1 DEF TInv, OnceSound
<1>5. m < n /\ Call(m).tool \in Actions => out[m].code = "ok"
  BY <1>1, <1>3, <1>4 DEF TInv, OutSound
<1> QED BY <1>3, <1>5

\* Actions run alone, in the order of the response, none after a failed one.
THEOREM ActionsKeepOrder == TSpec => []ActionsInOrder
<1> QED BY TurnInvariant, OrderFollows, PTL

\* The effects of a turn are safe: none is repeated, none follows an unknown
\* one, and actions keep their order.
THEOREM EffectsStaySafe == TSpec => []EffectsAreSafe
<1>1. TInv => EffectsAreSafe
  BY TypesFollow, OnceFollows, OrderFollows DEF EffectsAreSafe
<1> QED BY <1>1, TurnInvariant, PTL

\* A call refused for a missing prerequisite lacks it although reads of the
\* batch overlap, and a turn that ends silently has only delivered.
THEOREM SuppressionStaysTrue == TSpec => []SuppressionIsTrue
<1>1. TInv => SuppressionIsTrue
  BY DEF TInv, SuppressionIsTrue
<1> QED BY <1>1, TurnInvariant, PTL
===============================================================================
