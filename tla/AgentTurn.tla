-------------------------------- MODULE AgentTurn -------------------------------
(***************************************************************************)
(* One agent turn: the loop between the language model and the tools       *)
(* (internal/agent/live/turn_engine.go), the executor of a batch of tool   *)
(* calls and its ledger (internal/agent/tool/execution), up to the result  *)
(* that Runner.Run hands to the runtime.                                   *)
(*                                                                         *)
(* Calls of a batch that only read run concurrently; every other call is a *)
(* barrier.  A call is its tool and its argument; identities of calls are  *)
(* reduced to whether a response uses fresh and unique ones.               *)
(***************************************************************************)
EXTENDS Integers, Sequences, FiniteSets

CONSTANTS Actions,          \* tools with effects
          Delivers,         \* those whose effect is a message in the room
          SafeReads,        \* tools that may overlap
          OtherReads,       \* reads with undeclared access
          Requires,         \* Requires[t]: tools that must succeed before t
          Calls,            \* calls the model may make: [tool, arg]
          Malformed,        \* an argument that fails validation
          MaxBatch, MaxSteps, MaxToolCalls, MaxPerTool, MaxFailures

Tools == Actions \cup SafeReads \cup OtherReads

ASSUME ToolsAssumption ==
    /\ Delivers \subseteq Actions
    /\ Actions \cap (SafeReads \cup OtherReads) = {} /\ SafeReads \cap OtherReads = {}
    /\ Requires \in [Tools -> SUBSET Tools]
ASSUME LimitsAssumption ==
    MaxBatch \in Nat /\ MaxSteps \in Nat \ {0} /\ MaxToolCalls \in Nat \ {0}
    /\ MaxPerTool \in Nat \ {0} /\ MaxFailures \in Nat \ {0}

VARIABLES
    phase,          \* "judge" a response, run a "batch", "ask" again, "done"
    response,       \* the last response of the model: [kind, calls]
    rounds,         \* history: responses the model gave
    steps, reserved, repaired, terminal,    \* turn.State and loop flags
    expired,        \* the context of the request is over
    counts, failures, successful, started, unknown,     \* the ledger
    place,          \* where each call of the batch is
    next,           \* index of the call that ExecuteAll serves
    out,            \* results of the batch
    failedAction,   \* an action of the batch failed
    results,        \* results of the turn
    applied,        \* history: times each call may have had its effect
    mustReply, outcome

loopVars == <<response, rounds, steps, reserved, repaired, terminal>>
ledgerVars == <<counts, failures, successful, started, unknown>>
batchVars == <<place, next, out, failedAction>>
tvars == <<phase, loopVars, expired, ledgerVars, batchVars, results, applied,
           mustReply, outcome>>

Kinds == {"final", "broken", "silence", "malformed", "calls"}
Batches == UNION {[1..n -> Calls] : n \in 1..MaxBatch}
Responses == [kind : Kinds \ {"calls"}, calls : {<<>>}] \cup [kind : {"calls"}, calls : Batches]

Codes == {"ok", "refused", "missing", "failed"}
Effects == {"none", "notStarted", "notCommitted", "committed", "partial", "unknown"}
Result(call, code, effect, seen) ==
    [call |-> call, code |-> code, effect |-> effect, seen |-> seen]
NotStarted(call, code) == Result(call, code, "notStarted", FALSE)

TInit ==
    /\ phase = "judge" /\ response \in Responses /\ rounds = 1
    /\ steps = 1 /\ reserved = 0 /\ repaired = FALSE /\ terminal = FALSE
    /\ expired = FALSE
    /\ counts = [t \in Tools |-> 0] /\ failures = [t \in Tools |-> 0]
    /\ successful = {} /\ started = {} /\ unknown = FALSE
    /\ place = <<>> /\ next = 1 /\ out = <<>> /\ failedAction = FALSE
    /\ results = {}
    /\ applied = [c \in Calls |-> 0]
    /\ mustReply \in BOOLEAN /\ outcome = "none"

-----------------------------------------------------------------------------
(* The loop *)

Finish(result) ==
    /\ phase' = "done" /\ outcome' = result
    /\ UNCHANGED <<loopVars, expired, ledgerVars, batchVars, results, applied, mustReply>>

Delivered(r) == r.call.tool \in Delivers /\ r.code = "ok" /\ r.seen /\ r.effect = "committed"

(* The answer may be suppressed when the tools delivered it themselves and *)
(* no other effect is left to be reported.                                 *)
CanSuppress ==
    /\ \E r \in results : Delivered(r)
    /\ \A r \in results : r.effect # "unknown"
    /\ \A r \in results : r.call.tool \in Actions \ Delivers => ~r.seen

(* A valid response without calls ends the turn; the finalizer may still   *)
(* refuse a text.                                                          *)
Accept ==
    /\ phase = "judge" /\ ~expired
    /\ \/ response.kind = "final" /\ \E result \in {"reply", "error"} : Finish(result)
       \/ response.kind = "silence" /\ CanSuppress /\ Finish("owned")
       \/ response.kind = "silence" /\ ~CanSuppress /\ ~mustReply /\ Finish("silent")

Cancelled == phase \in {"judge", "ask"} /\ expired /\ Finish("error")

(* A response that can neither end the turn nor be executed: an empty,     *)
(* truncated or contradictory one, or calls after the terminal request.    *)
Unusable ==
    \/ response.kind \in {"broken", "malformed"}
    \/ response.kind = "silence" /\ mustReply /\ ~CanSuppress
    \/ response.kind = "calls" /\ terminal

(* One structural correction; a second unusable response ends the turn.    *)
Correct ==
    /\ phase = "judge" /\ ~expired /\ Unusable /\ ~repaired
    /\ repaired' = TRUE
    /\ phase' = "ask"
    /\ UNCHANGED <<response, rounds, steps, reserved, terminal, expired, ledgerVars,
                   batchVars, results, applied, mustReply, outcome>>

GiveUp == phase = "judge" /\ ~expired /\ Unusable /\ repaired /\ Finish("error")

OverBudget == reserved + Len(response.calls) > MaxToolCalls

RefuseBatch ==
    /\ phase = "judge" /\ ~expired /\ response.kind = "calls" /\ ~terminal /\ OverBudget
    /\ phase' = "ask"
    /\ UNCHANGED <<loopVars, expired, ledgerVars, batchVars, results, applied,
                   mustReply, outcome>>

(* prepare() admits the calls in their order before any of them runs.      *)
Earlier(n) == {m \in 1..n-1 : response.calls[m].tool = response.calls[n].tool}
AdmittedAfter(n, batch) ==
    LET tool == response.calls[n].tool
    IN  /\ tool \in Tools
        /\ counts[tool] + batch < MaxPerTool
        /\ failures[tool] < MaxFailures

(* Variant: the calls of a batch are admitted together. *)
AdmittedTogether(n) == AdmittedAfter(n, 0)

Admitted(n) == AdmittedAfter(n, Cardinality(Earlier(n)))

BeginBatch ==
    /\ phase = "judge" /\ ~expired /\ response.kind = "calls" /\ ~terminal /\ ~OverBudget
    /\ phase' = "batch"
    /\ reserved' = reserved + Len(response.calls)
    /\ LET indices == DOMAIN response.calls
       IN  /\ counts' = [t \in Tools |-> counts[t] +
                 Cardinality({n \in indices : response.calls[n].tool = t /\ Admitted(n)})]
           /\ place' = [n \in indices |->
                 IF Admitted(n) /\ response.calls[n].arg # Malformed
                 THEN "prepared" ELSE "rejected"]
           /\ out' = [n \in indices |-> NotStarted(response.calls[n], "refused")]
    /\ next' = 1 /\ failedAction' = FALSE
    /\ UNCHANGED <<response, rounds, steps, repaired, terminal, expired, failures,
                   successful, started, unknown, results, applied, mustReply, outcome>>

(* The next request offers the tools that are left, none at the end; then  *)
(* its projection, the provider or the context may fail.                   *)
Offered == {t \in Tools : counts[t] < MaxPerTool /\ failures[t] < MaxFailures
                          /\ (unknown => t \notin Actions)}

AskUnless(over) ==
    /\ phase = "ask" /\ ~expired
    /\ \/ Finish("error")
       \/ /\ terminal' = over
          /\ steps' = IF over THEN steps ELSE steps + 1
          /\ rounds' = rounds + 1
          /\ response' \in Responses
          /\ phase' = "judge"
          /\ UNCHANGED <<reserved, repaired, expired, ledgerVars, batchVars, results,
                         applied, mustReply, outcome>>

Ask == AskUnless(terminal \/ reserved = MaxToolCalls \/ Offered = {} \/ steps = MaxSteps)

-----------------------------------------------------------------------------
(* A batch *)

Call(n) == response.calls[n]
Lacking(n) == Requires[Call(n).tool] \ successful
At(p) == {n \in DOMAIN place : place[n] = p}
Quiet == At("ready") = {} /\ At("running") = {}
Overlapping(n) == place[n] = "prepared" /\ Call(n).tool \in SafeReads

worldVars == <<response, rounds, steps, repaired, terminal, reserved, expired, mustReply, outcome>>

NextOverlaps == next \in DOMAIN place /\ Overlapping(next)
AtOverlapping == phase = "batch" /\ Quiet /\ NextOverlaps
CollectNext ==
    /\ place' = [place EXCEPT ![next] = "waiting"]
    /\ next' = next + 1
    /\ UNCHANGED <<phase, worldVars, ledgerVars, out, failedAction, results, applied>>

(* Variant: all safe reads overlap. *)
CollectAlways == AtOverlapping /\ CollectNext

(* A safe read waits for the next barrier, unless it needs the outcome of  *)
(* the reads that wait already.                                            *)
Collect ==
    /\ AtOverlapping
    /\ Lacking(next) = {} \/ At("waiting") = {}
    /\ CollectNext

(* flush() starts the reads that wait and joins them.                      *)
FlushWhen(needed) ==
    /\ phase = "batch" /\ Quiet /\ At("waiting") # {} /\ needed
    /\ place' = [n \in DOMAIN place |-> IF place[n] = "waiting" THEN "ready" ELSE place[n]]
    /\ UNCHANGED <<phase, worldVars, ledgerVars, next, out, failedAction, results, applied>>

(* Variant: a read does not wait for the reads it requires. *)
FlushAtBarriers == FlushWhen(~NextOverlaps)

Flush == FlushWhen(NextOverlaps => Lacking(next) # {})

End(n, result) ==
    /\ place' = [place EXCEPT ![n] = "done"]
    /\ out' = [out EXCEPT ![n] = result]
    /\ next' = IF n = next THEN next + 1 ELSE next
    /\ failedAction' = (failedAction \/ (Call(n).tool \in Actions /\ result.code # "ok"))

(* Other calls are executed by the loop itself, after a flush.             *)
ReadyIf(n, alone) ==
    /\ phase = "batch"
    /\ \/ place[n] = "ready"
       \/ n = next /\ Quiet /\ alone /\ place[n] \in {"prepared", "rejected"} /\ ~Overlapping(n)
Ready(n) == ReadyIf(n, At("waiting") = {})

AfterFailure(n) == Call(n).tool \in Actions /\ failedAction
Blocked(n) == Call(n).tool \in Actions /\ (unknown \/ Call(n) \in started)

(* The executor refuses: a rejection of prepare(), an earlier failure, the *)
(* context, a missing prerequisite, or the ledger.                         *)
Reason(n) ==
    IF place[n] = "rejected" \/ AfterFailure(n) \/ expired THEN "refused"
    ELSE IF Lacking(n) # {} THEN "missing"
    ELSE IF Blocked(n) THEN "refused" ELSE "ok"

Refuse(n) ==
    /\ Ready(n) /\ Reason(n) # "ok"
    /\ End(n, NotStarted(Call(n), Reason(n)))
    /\ UNCHANGED <<phase, worldVars, ledgerVars, results, applied>>

InvokeWhen(n, ready, free) ==
    /\ ready /\ free
    /\ place' = [place EXCEPT ![n] = "running"]
    /\ started' = IF Call(n).tool \in Actions THEN started \cup {Call(n)} ELSE started
    /\ UNCHANGED <<phase, worldVars, counts, failures, successful, unknown, next, out,
                   failedAction, results, applied>>

(* Variants: the next call does not wait for the reads before it; an       *)
(* unknown outcome does not block the actions after it.                    *)
InvokeAtOnce(n) == InvokeWhen(n, ReadyIf(n, TRUE), Reason(n) = "ok")
InvokeAfterUnknown(n) == InvokeWhen(n, Ready(n), Reason(n) = "ok" \/
    (place[n] = "prepared" /\ ~AfterFailure(n) /\ ~expired /\ unknown /\ Call(n) \notin started))

Invoke(n) == InvokeWhen(n, Ready(n), Reason(n) = "ok")

(* An action returns what it did; a read returns its data or fails, by     *)
(* itself, at its timeout or because the context is over.                  *)
ActionResults(call) ==
    {Result(call, code, "committed", TRUE) : code \in {"ok", "failed"}}
    \cup {Result(call, "failed", "unknown", seen) : seen \in BOOLEAN}
    \cup {Result(call, "failed", "partial", TRUE)}
    \cup {Result(call, "failed", effect, FALSE) : effect \in {"notCommitted", "notStarted"}}
ReadResults(call) == {Result(call, code, "none", FALSE) : code \in {"ok", "failed"}}

ReturnReleasing(n, releases) ==
    LET call == Call(n)
    IN  /\ place[n] = "running"
        /\ \E r \in IF call.tool \in Actions THEN ActionResults(call) ELSE ReadResults(call) :
             /\ End(n, r)
             /\ failures' = IF r.code = "failed" /\ r.effect # "notStarted"
                            THEN [failures EXCEPT ![call.tool] = @ + 1] ELSE failures
             /\ successful' = IF r.code = "failed" THEN successful ELSE successful \cup {call.tool}
             /\ started' = IF r.effect \in releases THEN started \ {call} ELSE started
             /\ unknown' = (unknown \/ r.effect = "unknown")
             /\ applied' = IF r.effect \in {"committed", "partial", "unknown"}
                           THEN [applied EXCEPT ![call] = @ + 1] ELSE applied
    /\ UNCHANGED <<phase, worldVars, counts, results>>

(* Variant: a partial action may be repeated. *)
ReturnForgetting(n) == ReturnReleasing(n, {"notStarted", "notCommitted", "partial"})

Return(n) == ReturnReleasing(n, {"notStarted", "notCommitted"})

EndBatchWith(earlier) ==
    /\ phase = "batch" /\ Quiet /\ At("waiting") = {} /\ next > Len(place)
    /\ results' = earlier \cup {out[n] : n \in DOMAIN out}
    /\ place' = <<>> /\ out' = <<>> /\ next' = 1 /\ failedAction' = FALSE
    /\ phase' = "ask"
    /\ UNCHANGED <<worldVars, ledgerVars, applied>>

(* Variant: only the results of the last batch are kept. *)
EndBatchForgetting == EndBatchWith({})

EndBatch == EndBatchWith(results)

Expire ==
    /\ phase # "done" /\ ~expired
    /\ expired' = TRUE
    /\ UNCHANGED <<phase, loopVars, ledgerVars, batchVars, results, applied, mustReply, outcome>>

(* Nothing is left to do. *)
Done == phase = "done" /\ UNCHANGED tvars

Judge == Accept \/ Cancelled \/ Correct \/ GiveUp \/ RefuseBatch \/ BeginBatch
Execute == \E n \in DOMAIN place : Refuse(n) \/ Invoke(n) \/ Return(n)
Proceed == Judge \/ Ask \/ Collect \/ Flush \/ Execute \/ EndBatch
TNext == Proceed \/ Expire \/ Done

TSpec == TInit /\ [][TNext]_tvars

(* Goroutines are scheduled; the provider answers or fails, and tools      *)
(* return, within their own deadlines.                                     *)
TFairSpec == TSpec /\ WF_tvars(Proceed)

-----------------------------------------------------------------------------
(* Properties *)

Places == {"prepared", "rejected", "waiting", "ready", "running", "done"}

TTypeOK ==
    /\ phase \in {"judge", "batch", "ask", "done"} /\ response \in Responses
    /\ rounds \in Nat /\ steps \in 1..MaxSteps /\ reserved \in 0..MaxToolCalls
    /\ {repaired, terminal, expired, unknown, failedAction, mustReply} \subseteq BOOLEAN
    /\ counts \in [Tools -> 0..MaxPerTool] /\ failures \in [Tools -> 0..MaxToolCalls]
    /\ successful \subseteq Tools /\ started \subseteq Calls
    /\ DOMAIN place = DOMAIN out /\ Len(place) <= MaxBatch /\ next \in 1..Len(place)+1
    /\ \A n \in DOMAIN place : place[n] \in Places
    /\ \A r \in results \cup {out[n] : n \in DOMAIN out} :
         r.call \in Calls /\ r.code \in Codes /\ r.effect \in Effects /\ r.seen \in BOOLEAN
    /\ applied \in [Calls -> Nat]
    /\ outcome \in {"none", "reply", "silent", "owned", "error"}

(* docs/agent.md: "committed or uncertain actions must not be replayed":   *)
(* whatever the model asks for, in one batch or in several rounds, a call  *)
(* that may have had its effect is never executed a second time.           *)
NoRepeatedEffect == \A c \in Calls : applied[c] <= 1

Running(n) == n \in DOMAIN place /\ place[n] = "running"

(* An action whose outcome is unknown blocks every later action.           *)
UnknownBlocks == unknown => \A n \in DOMAIN place : Running(n) => Call(n).tool \notin Actions

(* Actions run alone, in the order of the batch, and none after a failed   *)
(* one: later calls may depend on what it did.                             *)
ActionsInOrder == \A n \in DOMAIN place :
    Running(n) /\ Call(n).tool \in Actions =>
        \A m \in DOMAIN place \ {n} :
            /\ IF m < n THEN place[m] = "done" ELSE place[m] \in {"prepared", "rejected"}
            /\ m < n /\ Call(m).tool \in Actions => out[m].code = "ok"

(* A call is refused for a missing prerequisite only if the prerequisite   *)
(* did not succeed before it, although reads of the batch overlap.         *)
MissingIsTrue == \A n \in DOMAIN place :
    place[n] = "done" /\ out[n].code = "missing" =>
        \E t \in Requires[Call(n).tool] : \A m \in 1..n-1 :
            Call(m).tool = t => out[m].code # "ok"

(* A turn ends silently in favour of what its tools delivered only if all  *)
(* its effects are such deliveries and their outcomes are known.           *)
SuppressionIsHonest == outcome = "owned" =>
    /\ \E c \in Calls : c.tool \in Delivers /\ applied[c] > 0
    /\ \A c \in Calls : applied[c] > 0 => c.tool \in Delivers
    /\ ~unknown

(* Every turn ends.                                                        *)
TurnEnds == <>(phase = "done")

(* No effect of a turn is repeated, none follows one whose end is unknown, *)
(* and actions keep the order of their calls.                              *)
EffectsAreSafe == TTypeOK /\ NoRepeatedEffect /\ UnknownBlocks /\ ActionsInOrder

(* What the loop says for itself is true: a prerequisite it reports as     *)
(* missing is missing, and a turn it ends in silence has only delivered.   *)
SuppressionIsTrue == MissingIsTrue /\ SuppressionIsHonest
=============================================================================
