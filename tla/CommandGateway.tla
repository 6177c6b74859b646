----------------------------- MODULE CommandGateway -----------------------------
(***************************************************************************)
(* One command executed for the agent: the tool that wraps it              *)
(* (internal/agent/tool/saturn_command.go, run_command.go), the gateway    *)
(* that admits it and turns what it did into an execution                  *)
(* (internal/command/agent_gateway.go) and the engine that records its     *)
(* effects on the way through (internal/command/agent_capture_engine.go).  *)
(*                                                                         *)
(* The handler is any sequence of the operations it has: replies, actions  *)
(* on the room, writes to the database, facts shown to the model and jobs  *)
(* in other rooms, whose completions arrive whenever they arrive           *)
(* (RoomSnapshot).  A text or a fact is reduced to who may read it.        *)
(***************************************************************************)
EXTENDS Integers, Sequences, FiniteSetsExt

CONSTANTS Commands,         \* commands of the agent's catalog
          Access,           \* Access[c]: the capability c needs, or "public"
          Reviewable,       \* commands a moderation review may use
          Targeting,        \* commands whose first argument is a nick
          Silent,           \* commands that may act without a reply
          Nicks, NoTarget,
          Callers,          \* who asks: [caps, target, whisper]
          Receipts,         \* how a job may end: [outcome, unknown, actions, deliveries, observed]
          MaxOperations     \* bound: operations of one handler

Capabilities == {"admin", "moderator", "ban"}

ASSUME CommandsAssumption ==
    /\ Access \in [Commands -> Capabilities \cup {"public"}]
    /\ Reviewable \subseteq Commands /\ Targeting \subseteq Commands /\ Silent \subseteq Commands
    /\ NoTarget \notin Nicks
    /\ Callers \subseteq [caps : SUBSET Capabilities, target : Nicks \cup {NoTarget},
                          whisper : BOOLEAN]
    /\ Receipts \subseteq [outcome : {"success", "absent", "empty", "failed"},
                           unknown : BOOLEAN, actions : Nat, deliveries : Nat,
                           observed : BOOLEAN]

VARIABLES
    stage,          \* "idle", "tool", "gateway", "handler", "audit", "settle", "mapped", "answered"
    call,           \* the command, its argument and the caller
    over,           \* the context of the call has ended
    lease,          \* the host's dispatch lease is held
    operations,     \* operations the handler made
    failing,        \* one of them failed and the handler will say so
    deliveryCount, actionCount, mutations,      \* what was recorded of them
    messages,       \* what the model will read of the replies
    data, dataObserved,
    snapshotCompletions,    \* jobs accepted, or failed with a receipt
    callEnding,         \* how the handler ended: [status, err]
    execution,      \* what the gateway returns
    answer,         \* what the tool returns
    landed          \* history: effects that did take place

recordVars == <<deliveryCount, actionCount, mutations, messages, data, dataObserved>>
gatewayVars == <<stage, call, over, lease, operations, failing, recordVars, snapshotCompletions,
                 callEnding, execution, answer, landed>>

(* Pending is a job that has not completed.                                *)
Pending == [outcome |-> "pending", unknown |-> FALSE, actions |-> 0, deliveries |-> 0,
            observed |-> FALSE]
Jobs == [private : BOOLEAN, result : Receipts \cup {Pending}]
Errors == {"none", "notAdmitted", "cancelled", "notFound", "ambiguous", "other"}
Endings == [status : {"successful", "failed"}, err : Errors]
NoCall == [command |-> "none", nick |-> NoTarget, caps |-> {}, target |-> NoTarget,
           whisper |-> FALSE]
NoEnding == [status |-> "none", err |-> "none"]

(* What the gateway returns: the counts recorded, and the data if the      *)
(* command succeeded or its producer vouches for them.                     *)
Execution(status, err) ==
    [status |-> status, err |-> err,
     actions |-> actionCount + mutations, deliveries |-> deliveryCount,
     data |-> IF status = "SUCCEEDED" \/ dataObserved THEN data ELSE "none",
     observed |-> (status = "SUCCEEDED" \/ dataObserved) /\ dataObserved]

Result(code, effect) == [code |-> code, effect |-> effect, actions |-> 0, data |-> "none"]

GatewayInit ==
    /\ stage = "idle" /\ over = FALSE /\ lease = FALSE /\ operations = 0 /\ failing = FALSE
    /\ call = NoCall
    /\ deliveryCount = 0 /\ actionCount = 0 /\ mutations = 0
    /\ messages = {} /\ data = "none" /\ dataObserved = FALSE
    /\ snapshotCompletions = <<>> /\ callEnding = NoEnding
    /\ execution = Execution("none", "none") /\ answer = Result("none", "none") /\ landed = 0

-----------------------------------------------------------------------------
(* Admission *)

Authorized(c) ==
    /\ c.target # NoTarget => c.command \in Reviewable
    /\ Access[c.command] # "public" => Access[c.command] \in c.caps

(* A review may only aim at the author it reviews.                         *)
TargetAllowed(c) ==
    c.target # NoTarget /\ c.command \in Targeting => c.nick = c.target

AnswerWith(result) ==
    /\ stage' = "answered" /\ answer' = result
    /\ UNCHANGED <<call, over, lease, operations, failing, recordVars, snapshotCompletions, callEnding,
                   execution, landed>>

Invoke ==
    /\ stage = "idle"
    /\ \E command \in Commands, nick \in Nicks, caller \in Callers :
          call' = [command |-> command, nick |-> nick, caps |-> caller.caps,
                   target |-> caller.target, whisper |-> caller.whisper]
    /\ stage' = "tool"
    /\ UNCHANGED <<over, lease, operations, failing, recordVars, snapshotCompletions, callEnding,
                   execution, answer, landed>>

ContextEnds ==
    /\ stage \notin {"idle", "answered"} /\ ~over
    /\ over' = TRUE
    /\ UNCHANGED <<stage, call, lease, operations, failing, recordVars, snapshotCompletions, callEnding,
                   execution, answer, landed>>

ToolRefuses ==
    /\ stage = "tool"
    /\ \/ over /\ AnswerWith(Result("cancelled", "notStarted"))
       \/ ~over /\ ~Authorized(call) /\ AnswerWith(Result("notAuthorized", "notStarted"))
       \/ ~over /\ Authorized(call) /\ AnswerWith(Result("invalidArguments", "notStarted"))
       \/ /\ ~over /\ Authorized(call) /\ ~TargetAllowed(call)
          /\ AnswerWith(Result("rejected", "notStarted"))

ToolAdmits ==
    /\ stage = "tool" /\ ~over /\ Authorized(call) /\ TargetAllowed(call)
    /\ stage' = "gateway"
    /\ UNCHANGED <<call, over, lease, operations, failing, recordVars, snapshotCompletions, callEnding,
                   execution, answer, landed>>

ReturnExecution(result) ==
    /\ stage' = "mapped" /\ execution' = result /\ lease' = FALSE
    /\ UNCHANGED <<call, over, operations, failing, recordVars, snapshotCompletions, callEnding, answer,
                   landed>>

(* No engine, an unknown or unapproved command, a dependency that is not   *)
(* configured, no lease because the host retires, or a context that ended. *)
GatewayRefuses ==
    /\ stage = "gateway"
    /\ ReturnExecution(Execution("REJECTED", "other"))

GatewayAdmits ==
    /\ stage = "gateway" /\ ~over /\ Authorized(call) /\ TargetAllowed(call)
    /\ stage' = "handler" /\ lease' = TRUE
    /\ UNCHANGED <<call, over, operations, failing, recordVars, snapshotCompletions, callEnding,
                   execution, answer, landed>>

-----------------------------------------------------------------------------
(* The handler, through the capturing engine *)

Operation ==
    /\ stage = "handler" /\ operations < MaxOperations
    /\ operations' = operations + 1

(* Slip: a private reply is shown as it is.                                *)
ShownAsIs(private) == IF private THEN "private" ELSE "public"

(* What the model may read of something said privately or publicly.        *)
Shown(private) == IF ~private THEN "public" ELSE IF call.whisper THEN "private" ELSE "notice"

(* A reply counts, as a delivery and as an action, only if it was sent.    *)
Reply ==
    /\ Operation
    /\ \E private \in BOOLEAN, sent \in BOOLEAN :
          /\ deliveryCount' = deliveryCount + (IF sent THEN 1 ELSE 0)
          /\ actionCount' = actionCount + (IF sent THEN 1 ELSE 0)
          /\ landed' = landed + (IF sent THEN 1 ELSE 0)
          /\ messages' = messages \cup (IF sent THEN {Shown(private)} ELSE {})
    /\ UNCHANGED <<stage, call, over, lease, failing, mutations, data, dataObserved,
                   snapshotCompletions, callEnding, execution, answer>>

(* Moderation, prefixes, replicas, subscriptions, AFK and auto-move count  *)
(* when they return no error.  With an error they may have been done in    *)
(* part, and every handler passes that error on.                           *)
Act ==
    /\ Operation
    /\ \E done \in BOOLEAN, effect \in 0..1 :
          /\ done => effect = 1
          /\ actionCount' = actionCount + (IF done THEN 1 ELSE 0)
          /\ landed' = landed + effect
          /\ failing' = (failing \/ ~done)
    /\ UNCHANGED <<stage, call, over, lease, deliveryCount, mutations, messages, data,
                   dataObserved, snapshotCompletions, callEnding, execution, answer>>

Commit ==
    /\ Operation
    /\ mutations' = mutations + 1 /\ landed' = landed + 1
    /\ UNCHANGED <<stage, call, over, lease, failing, deliveryCount, actionCount, messages, data,
                   dataObserved, snapshotCompletions, callEnding, execution, answer>>

ObserveCommandData ==
    /\ Operation
    /\ \E private \in BOOLEAN :
          IF private /\ ~call.whisper
          THEN UNCHANGED <<data, dataObserved>>
          ELSE data' = Shown(private) /\ dataObserved' = TRUE
    /\ UNCHANGED <<stage, call, over, lease, failing, deliveryCount, actionCount, mutations, messages,
                   snapshotCompletions, callEnding, execution, answer, landed>>

(* A job is the last thing a handler does: list, msgchannel, nuke and      *)
(* resurrect return once it is accepted.  A job refused after it had       *)
(* started has its receipt already.                                        *)
Submitted(jobs, status, err) ==
    /\ snapshotCompletions' = snapshotCompletions \o jobs
    /\ callEnding' = [status |-> status, err |-> err]

SubmitSnapshot ==
    /\ Operation /\ ~failing
    /\ \E private \in BOOLEAN :
          \/ /\ Submitted(<<[private |-> private, result |-> Pending]>>, "successful", "none")
             /\ UNCHANGED landed
          \/ Submitted(<<>>, "failed", "other") /\ UNCHANGED landed
          \/ \E result \in Receipts :
                /\ Submitted(<<[private |-> private, result |-> result]>>, "failed", "other")
                /\ landed' = landed + result.actions
    /\ stage' = "audit"
    /\ UNCHANGED <<call, over, lease, failing, recordVars, execution, answer>>

JobCompletes ==
    /\ \E i \in DOMAIN snapshotCompletions, result \in Receipts :
          /\ snapshotCompletions[i].result = Pending
          /\ snapshotCompletions' = [snapshotCompletions EXCEPT ![i].result = result]
          /\ landed' = landed + result.actions
    /\ UNCHANGED <<stage, call, over, lease, operations, failing, recordVars, callEnding, execution, answer>>

(* "notAdmitted" and "cancelled" are the errors of a lifecycle request that *)
(* was refused before anything was done, "cancelled" by the context.       *)
HandlerReturns ==
    /\ stage = "handler"
    /\ \E end \in Endings :
          /\ end.err = "cancelled" => over
          /\ failing => end.err = "other"
          /\ end.err \in {"notAdmitted", "cancelled"} => operations = 0
          /\ callEnding' = end
    /\ stage' = "audit"
    /\ UNCHANGED <<call, over, lease, operations, failing, recordVars, snapshotCompletions, execution,
                   answer, landed>>

(* A panic of the handler or of the audit leaves the outcome unknown.      *)
Panic ==
    /\ stage \in {"handler", "audit"}
    /\ ReturnExecution(Execution("UNKNOWN", "none"))

(* The audit's own failure is only logged.                                 *)
Audit ==
    /\ stage = "audit"
    /\ stage' = "settle"
    /\ UNCHANGED <<call, over, lease, operations, failing, recordVars, snapshotCompletions, callEnding,
                   execution, answer, landed>>

-----------------------------------------------------------------------------
(* From what happened to a status *)

(* Slip: a job that found nothing to do counts as success.                 *)
JobStatusUnlessFailed(result) ==
    IF result.unknown THEN "UNKNOWN"
    ELSE IF result.outcome = "failed" THEN "REJECTED" ELSE "SUCCEEDED"

JobStatus(result) ==
    IF result.unknown THEN "UNKNOWN"
    ELSE CASE result.outcome = "success" -> "SUCCEEDED"
           [] result.outcome = "absent" -> "NOT_FOUND"
           [] OTHER -> "REJECTED"

(* One unknown job makes the whole unknown; the last job that did not      *)
(* succeed decides otherwise.                                              *)
SnapshotStatus(jobs) ==
    LET status(i) == JobStatus(jobs[i].result)
        short == {i \in DOMAIN jobs : status(i) # "SUCCEEDED"}
    IN  CASE \E i \in short : status(i) = "UNKNOWN" -> "UNKNOWN"
          [] short = {} -> "SUCCEEDED"
          [] OTHER -> status(Max(short))

(* Jobs whose facts the caller may see.                                    *)
Sources(jobs) ==
    {i \in DOMAIN jobs : /\ jobs[i].result.outcome = "success" \/ jobs[i].result.observed
                         /\ jobs[i].private => call.whisper}

(* Slips: the end of the context ends the wait; a failed job never reports. *)
CompleteOrOver(jobs) == over \/ \A i \in DOMAIN jobs : jobs[i].result # Pending
AllWell(jobs) == \A i \in DOMAIN jobs : jobs[i].result.outcome \notin {"pending", "failed"}

AllComplete(jobs) == \A i \in DOMAIN jobs : jobs[i].result # Pending

(* All jobs are awaited, whatever became of the context: each counts, and  *)
(* the last readable source is what the model sees.                        *)
AwaitSnapshotCompletions ==
    LET jobs == snapshotCompletions
        sources == Sources(jobs)
        last == Max(sources)
        said == {i \in DOMAIN jobs : jobs[i].result.deliveries > 0 /\ jobs[i].result.outcome # "failed"}
    IN  /\ stage = "settle" /\ jobs # <<>> /\ AllComplete(jobs)
        /\ actionCount' = actionCount + MapThenSumSet(LAMBDA i : jobs[i].result.actions, DOMAIN jobs)
        /\ deliveryCount' = deliveryCount + MapThenSumSet(LAMBDA i : jobs[i].result.deliveries, DOMAIN jobs)
        /\ messages' = messages \cup {Shown(jobs[i].private) : i \in said}
        /\ data' = IF sources = {} THEN data ELSE Shown(jobs[last].private)
        /\ dataObserved' = IF sources = {} THEN dataObserved ELSE jobs[last].result.observed
        /\ stage' = "await"
        /\ UNCHANGED <<call, over, lease, operations, failing, mutations, snapshotCompletions, callEnding,
                       execution, answer, landed>>

Unadmitted == callEnding.err \in {"notAdmitted", "cancelled"}
Untouched == ~dataObserved /\ actionCount = 0 /\ mutations = 0

Status ==
    CASE callEnding.err = "notFound" -> "NOT_FOUND"
      [] callEnding.err = "ambiguous" -> "AMBIGUOUS"
      [] callEnding.err = "none" ->
            IF callEnding.status = "successful" THEN "SUCCEEDED" ELSE "REJECTED"
      [] OTHER -> "UNKNOWN"

Settle ==
    \/ /\ stage = "await"
       /\ ReturnExecution(Execution(SnapshotStatus(snapshotCompletions), "none"))
    \/ /\ stage = "settle" /\ snapshotCompletions = <<>>
       /\ ReturnExecution(
             IF Unadmitted /\ Untouched THEN Execution("REJECTED", callEnding.err)
             ELSE Execution(IF over THEN "UNKNOWN" ELSE Status, "none"))

-----------------------------------------------------------------------------
(* The tool's answer *)

(* Slip: only replies count as effects.                                    *)
Replied(e) == e.deliveries > 0
Touched(e) == e.actions > 0 \/ e.deliveries > 0
Answer(e, code, effect) ==
    [code |-> code, effect |-> effect, actions |-> e.actions,
     data |-> IF code = "ok" \/ e.observed THEN e.data ELSE "none"]

CommandExecutionFailure(e) ==
    LET state == IF Touched(e) THEN "partial" ELSE "notCommitted"
    IN  CASE e.status = "UNKNOWN" -> Answer(e, "unknown", "unknown")
          [] e.status = "NOT_FOUND" -> Answer(e, "notFound", state)
          [] e.status = "AMBIGUOUS" -> Answer(e, "ambiguous", state)
          [] e.status = "REJECTED" -> Answer(e, "rejected", state)
          [] OTHER ->
                IF e.actions = 0 THEN Answer(e, "unverifiedAction", "unknown")
                ELSE IF e.deliveries = 0 /\ call.command \notin Silent
                THEN Answer(e, "unverifiedDelivery", "committed")
                ELSE Answer(e, "ok", "committed")

(* A lifecycle request that the context ended before admission did not     *)
(* start.  Facts that do not fit the contract of the result are dropped.   *)
NotAdmitted(e) == e.status = "REJECTED" /\ e.err = "cancelled" /\ ~Touched(e) /\ ~e.observed

ToolAnswers ==
    /\ stage = "mapped"
    /\ \/ NotAdmitted(execution) /\ AnswerWith(Result("cancelled", "notStarted"))
       \/ ~NotAdmitted(execution) /\ AnswerWith(CommandExecutionFailure(execution))
       \/ /\ ~NotAdmitted(execution)
          /\ AnswerWith(CommandExecutionFailure(
                           [execution EXCEPT !.data = "none", !.observed = FALSE]))

Executing ==
    \/ Invoke \/ ToolRefuses \/ ToolAdmits \/ GatewayRefuses \/ GatewayAdmits
    \/ Reply \/ Act \/ Commit \/ ObserveCommandData \/ SubmitSnapshot
    \/ HandlerReturns \/ Panic \/ Audit
Concluding == AwaitSnapshotCompletions \/ Settle \/ ToolAnswers

GatewayNext == Executing \/ Concluding \/ ContextEnds \/ JobCompletes
GatewaySpec == GatewayInit /\ [][GatewayNext]_gatewayVars

(* A handler returns, the audit is one bounded write and every accepted    *)
(* job completes (RoomSnapshot!WorkflowsEnd).                              *)
GatewayFairness ==
    /\ WF_gatewayVars(ToolRefuses \/ ToolAdmits) /\ WF_gatewayVars(GatewayRefuses \/ GatewayAdmits)
    /\ WF_gatewayVars(HandlerReturns) /\ WF_gatewayVars(Audit)
    /\ WF_gatewayVars(Concluding) /\ WF_gatewayVars(JobCompletes)
GatewayFairSpec == GatewaySpec /\ GatewayFairness

-----------------------------------------------------------------------------
(* Properties *)

(* An effect that took place before the answer is never told to the model  *)
(* as something that did not start or was not committed, whether the       *)
(* command failed, found nothing, panicked or its jobs failed elsewhere.   *)
EffectsAreTold ==
    stage = "answered" /\ landed > 0 => answer.effect \notin {"notStarted", "notCommitted"}

(* Only an unknown outcome leaves work behind: when any other answer has   *)
(* been given, no job of the command can still change a room.              *)
NothingLandsAfterAnswer ==
    [][stage = "answered" /\ landed' # landed => answer.effect = "unknown"]_gatewayVars

(* "ok" is backed by every part of the command: at least one effect, no    *)
(* failed or unknown job, and a delivered reply where one is owed.         *)
SuccessIsBacked ==
    stage = "answered" /\ answer.code = "ok" =>
        /\ landed > 0 /\ landed = answer.actions
        /\ \A i \in DOMAIN snapshotCompletions :
              /\ snapshotCompletions[i].result.outcome = "success"
              /\ ~snapshotCompletions[i].result.unknown
        /\ call.command \in Silent \/ execution.deliveries > 0

(* What was said privately reaches the model only when the caller itself   *)
(* whispered, and a review never runs a command against anyone else.       *)
ScopeIsKept ==
    /\ ~call.whisper => "private" \notin messages \cup {data}
    /\ lease /\ call.target # NoTarget =>
          call.command \in Reviewable /\ (call.command \in Targeting => call.nick = call.target)

(* A call that was made is answered, also when its context ended while its *)
(* jobs were still running.                                                *)
CallsAreAnswered == stage = "tool" ~> stage = "answered"

GatewayTypeOK ==
    /\ stage \in {"idle", "tool", "gateway", "handler", "audit", "settle", "await", "mapped",
                  "answered"}
    /\ over \in BOOLEAN /\ lease \in BOOLEAN /\ dataObserved \in BOOLEAN
    /\ \A i \in DOMAIN snapshotCompletions : snapshotCompletions[i] \in Jobs

(* The model is told of every effect, a success has something behind it,   *)
(* and no call acts beyond the authority and the target of its turn.       *)
GatewayIsTrue == GatewayTypeOK /\ EffectsAreTold /\ SuccessIsBacked /\ ScopeIsKept
=============================================================================
