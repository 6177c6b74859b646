---------------------------- MODULE RoomSnapshot ----------------------------
(***************************************************************************)
(* Remote-room commands (list, nuke, resurrect, msgchannel) enter another  *)
(* room with a temporary session, wait for its roster, act on it and leave *)
(* (listener/snapshot/coordinator.go, session_factory.go).  A workflow is  *)
(* owned by one goroutine, RoomSnapshotCoordinator.run; its context may be *)
(* ended at any moment by the deadline, by the transport, by Cancel and by *)
(* the caller, whose own context is the parent of the workflow's.          *)
(*                                                                         *)
(* A roster is reduced to what the operation makes of it: the frames it    *)
(* has to send, the outcome and whether there is something to say.         *)
(***************************************************************************)
EXTENDS Naturals, Sequences

CONSTANTS Workflows,   \* calls of Submit
          NoWorkflow,
          Ids,         \* workflow IDs
          Cast,        \* what each workflow may be asked for
          Unreachable, \* those whose session cannot be created; nothing else
                       \* happens to them, which keeps instances small
          MaxUsers,    \* bound on the users of a room
          Retention    \* terminal outcomes kept: 256 in the code

ASSUME NoWorkflowAssumption == NoWorkflow \notin Workflows
Kinds    == {"list", "nuke", "resurrect", "msgchannel"}
Requests == [id : Ids, kind : Kinds, caller : {"chat", "agent"}]
ASSUME CastAssumption == Cast \subseteq [Workflows -> Requests]
ASSUME BoundsAssumption == MaxUsers \in Nat /\ Retention \in Nat

VARIABLES
  active,     \* coordinator: the workflow that owns an ID
  states,     \* coordinator: the state reported for an ID
  retained,   \* coordinator: IDs of terminal workflows, oldest first
  request,    \* ID, command and caller of the workflow
  pc,         \* where its goroutine stands
  context,    \* workflow.ctx
  failure,    \* workflow.failureState, once a failure was accepted
  terminal,   \* workflow.terminal
  inbox,      \* workflow.payload; claimed unless "empty"
  session,    \* the temporary session and its registry entry
  reader,     \* the goroutine of transportSession.loop
  todo,       \* frames the operation still has to send
  dispatched, \* operationDispatched
  result,     \* the OperationResult under construction
  final,      \* the terminal state of the workflow
  caller,     \* where the command that submitted the workflow stands
  parent,     \* is the context of that command still alive?
  acked,      \* history: frames written without an error
  said,       \* history: the reply handed to the reply sink
  heard,      \* history: that reply was sent
  doubt,      \* history: a frame or a reply failed and may have arrived
  disturbed   \* history: something went wrong that is not the caller's doing

coordinator == <<active, states, retained>>
endings     == <<context, failure, terminal, final>>
inbound     == <<inbox, session, reader>>
operation   == <<todo, dispatched, result, acked, doubt>>
reply       == <<said, heard>>
asking      == <<request, caller, parent>>
vars == <<coordinator, asking, pc, endings, inbound, operation, reply, disturbed>>

Steps == {"unused", "refused", "creating", "created", "starting", "waiting",
          "applying", "sending", "closing", "replying", "delivering",
          "settling", "publishing", "completing", "done"}
Endings == {"COMPLETED", "FAILED", "CANCELLED", "TIMED_OUT"}
Outcomes == {"SUCCESS", "EMPTY", "ABSENT_TARGET", "FAILED"}
Results == [outcome : Outcomes, reply : BOOLEAN, error : BOOLEAN, unknown : BOOLEAN,
            actions : Nat]

Id(w)   == request[w].id
Kind(w) == request[w].kind
Live(w) == context[w] = "live"

StateTypeOK ==
  /\ active \in [Ids -> Workflows \cup {NoWorkflow}]
  /\ states \in [Ids -> Endings \cup {"none", "PENDING", "RUNNING"}]
  /\ request \in [Workflows -> Requests]
  /\ pc \in [Workflows -> Steps]
  /\ context \in [Workflows -> {"live", "cancelled", "expired"}]
  /\ failure \in [Workflows -> {"none", "FAILED", "CANCELLED"}]
  /\ terminal \in [Workflows -> BOOLEAN]
  /\ inbox \in [Workflows -> {"empty", "roster", "other", "taken"}]
  /\ session \in [Workflows -> {"none", "open", "closed"}]
  /\ reader \in [Workflows -> {"none", "reading", "over"}]
  /\ todo \in [Workflows -> Nat]
  /\ dispatched \in [Workflows -> BOOLEAN]
  /\ result \in [Workflows -> Results]
  /\ final \in [Workflows -> Endings \cup {"none"}]
  /\ caller \in [Workflows -> {"idle", "submitting", "waiting", "left"}]
  /\ parent \in [Workflows -> BOOLEAN]
  /\ acked \in [Workflows -> Nat]
  /\ said \in [Workflows -> {"nothing", "result", "generic"}]
  /\ heard \in [Workflows -> BOOLEAN]
  /\ doubt \in [Workflows -> BOOLEAN]
  /\ disturbed \in [Workflows -> BOOLEAN]

RTypeOK == StateTypeOK /\ retained \in Seq(Ids)

\* Success(): what run starts from.
NoResult == [outcome |-> "SUCCESS", reply |-> FALSE, error |-> FALSE,
             unknown |-> FALSE, actions |-> 0]

Init ==
  /\ active = [i \in Ids |-> NoWorkflow]
  /\ states = [i \in Ids |-> "none"]
  /\ retained = <<>>
  /\ request \in Cast
  /\ pc = [w \in Workflows |-> "unused"]
  /\ context = [w \in Workflows |-> "live"]
  /\ failure = [w \in Workflows |-> "none"]
  /\ terminal = [w \in Workflows |-> FALSE]
  /\ inbox = [w \in Workflows |-> "empty"]
  /\ session = [w \in Workflows |-> "none"]
  /\ reader = [w \in Workflows |-> "none"]
  /\ todo = [w \in Workflows |-> 0]
  /\ dispatched = [w \in Workflows |-> FALSE]
  /\ result = [w \in Workflows |-> NoResult]
  /\ final = [w \in Workflows |-> "none"]
  /\ caller = [w \in Workflows |-> "idle"]
  /\ parent = [w \in Workflows |-> TRUE]
  /\ acked = [w \in Workflows |-> 0]
  /\ said = [w \in Workflows |-> "nothing"]
  /\ heard = [w \in Workflows |-> FALSE]
  /\ doubt = [w \in Workflows |-> FALSE]
  /\ disturbed = [w \in Workflows |-> FALSE]

-----------------------------------------------------------------------------
(* Submission. *)

Goto(w, step) == pc' = [pc EXCEPT ![w] = step]
Disturb(w) == disturbed' = [disturbed EXCEPT ![w] = TRUE]

\* Submit registers the workflow and starts its goroutine, or refuses an ID
\* that is active.
Submit(w) ==
  /\ pc[w] = "unused"
  /\ \/ /\ active[Id(w)] = NoWorkflow
        /\ active' = [active EXCEPT ![Id(w)] = w]
        /\ states' = [states EXCEPT ![Id(w)] = "PENDING"]
        /\ Goto(w, "creating")
        /\ caller' = [caller EXCEPT ![w] = "submitting"]
     \/ /\ active[Id(w)] # NoWorkflow
        /\ Goto(w, "refused")
        /\ caller' = [caller EXCEPT ![w] = "left"]
        /\ UNCHANGED <<active, states>>
  /\ UNCHANGED <<retained, request, parent, endings, inbound, operation, reply,
                 disturbed>>

\* result.Error = err; return, before or after the operation.
Fail(w) == result' = [result EXCEPT ![w].error = TRUE]

\* SessionFactory.Create registers the temporary session.
Create(w) ==
  /\ pc[w] = "creating"
  /\ \/ /\ w \notin Unreachable
        /\ session' = [session EXCEPT ![w] = "open"]
        /\ Goto(w, "created")
        /\ UNCHANGED <<result, disturbed>>
     \/ /\ Fail(w)
        /\ Disturb(w)
        /\ Goto(w, "replying")
        /\ UNCHANGED session
  /\ UNCHANGED <<coordinator, asking, endings, inbox, reader, todo, dispatched,
                 acked, doubt, reply>>

\* A workflow that was ended while its session was created does not start it.
Begin(w) ==
  /\ pc[w] = "created"
  /\ \/ /\ Live(w)
        /\ states' = [states EXCEPT ![Id(w)] = "RUNNING"]
        /\ Goto(w, "starting")
        /\ UNCHANGED result
     \/ /\ ~Live(w)
        /\ Fail(w)
        /\ Goto(w, "closing")
        /\ UNCHANGED states
  /\ UNCHANGED <<active, retained, asking, endings, inbound, todo, dispatched, acked,
                 doubt, reply, disturbed>>

\* transportSession.Start: dial, join the room, start the reader; Submit
\* returns.  A context that ends fails the dial or the join.
Start(w) ==
  /\ pc[w] = "starting"
  /\ \/ /\ Live(w)
        /\ reader' = [reader EXCEPT ![w] = "reading"]
        /\ caller' = [caller EXCEPT ![w] = "waiting"]
        /\ Goto(w, "waiting")
        /\ UNCHANGED <<result, disturbed>>
     \/ /\ Fail(w)
        /\ IF Live(w) THEN Disturb(w) ELSE UNCHANGED disturbed
        /\ Goto(w, "closing")
        /\ UNCHANGED <<reader, caller>>
  /\ UNCHANGED <<coordinator, request, parent, endings, inbox, session, todo,
                 dispatched, acked, doubt, reply>>

-----------------------------------------------------------------------------
(* What reaches the workflow from outside. *)

Running(w) == pc[w] \notin {"unused", "refused", "done"} /\ w \notin Unreachable

\* workflow.receive: the first frame of the room is taken, whatever it is.
Deliver(w) ==
  /\ reader[w] = "reading"
  /\ inbox[w] = "empty"
  /\ ~terminal[w]
  /\ Live(w)
  /\ inbox' \in {[inbox EXCEPT ![w] = frame] : frame \in {"roster", "other"}}
  /\ UNCHANGED <<coordinator, asking, pc, endings, session, reader, operation, reply,
                 disturbed>>

End(w, how) == context' = [context EXCEPT ![w] = IF Live(w) THEN how ELSE @]

\* A slip: a failure is accepted after the outcome was settled.
AcceptLate(w, state) ==
  IF failure[w] # "none"
  THEN UNCHANGED <<failure, context, disturbed>>
  ELSE /\ failure' = [failure EXCEPT ![w] = state]
       /\ End(w, "cancelled")
       /\ Disturb(w)

\* workflow.fail: the first failure counts, until the workflow is terminal.
Accept(w, state) ==
  IF terminal[w] \/ failure[w] # "none"
  THEN UNCHANGED <<failure, context, disturbed>>
  ELSE /\ failure' = [failure EXCEPT ![w] = state]
       /\ End(w, "cancelled")
       /\ Disturb(w)

\* The reader takes an error from the transport and ends.
TransportFails(w) ==
  /\ reader[w] = "reading"
  /\ reader' = [reader EXCEPT ![w] = "over"]
  /\ Accept(w, "FAILED")
  /\ UNCHANGED <<coordinator, asking, pc, terminal, final, inbox, session, operation,
                 reply>>

\* RoomSnapshotCoordinator.Cancel.
Cancel(w) ==
  /\ Running(w)
  /\ active[Id(w)] = w
  /\ Accept(w, "CANCELLED")
  /\ UNCHANGED <<coordinator, asking, pc, terminal, final, inbound, operation, reply>>

Expire(w) ==
  /\ Running(w)
  /\ Live(w)
  /\ End(w, "expired")
  /\ Disturb(w)
  /\ UNCHANGED <<coordinator, asking, pc, failure, terminal, final, inbound, operation,
                 reply>>

\* The context of the caller is ended above it: the host stops, or the turn of
\* the agent is cancelled.
ParentEnds(w) ==
  /\ Running(w)
  /\ parent[w] /\ caller[w] # "left"
  /\ parent' = [parent EXCEPT ![w] = FALSE]
  /\ End(w, "cancelled")
  /\ IF Live(w) THEN Disturb(w) ELSE UNCHANGED disturbed
  /\ UNCHANGED <<coordinator, request, caller, pc, failure, terminal, final, inbound,
                 operation, reply>>

\* list waits for the outcome, and so does the agent's gateway for every command.
Awaits(w) == request[w].caller = "agent" \/ Kind(w) = "list"

\* A slip: list returns as soon as its submission is answered.
MayLeaveAtOnce(w) == request[w].caller = "chat" \/ pc[w] = "done"

\* The command may return once its submission is answered.
MayLeave(w) ==
  \/ ~Awaits(w)
  \/ pc[w] = "done"
  \/ request[w].caller = "chat" /\ ~parent[w]

\* The command returns and with it UserChatListener, which cancels the context
\* it made for the message.
CallerLeaves(w) ==
  /\ caller[w] = "waiting"
  /\ MayLeave(w)
  /\ caller' = [caller EXCEPT ![w] = "left"]
  /\ End(w, "cancelled")
  /\ UNCHANGED <<coordinator, request, parent, pc, failure, terminal, final, inbound,
                 operation, reply, disturbed>>

ReaderStops(w) ==
  /\ reader[w] = "reading"
  /\ ~Live(w) \/ pc[w] = "closing" \/ session[w] = "closed"
  /\ reader' = [reader EXCEPT ![w] = "over"]
  /\ UNCHANGED <<coordinator, asking, pc, endings, inbox, session, operation, reply,
                 disturbed>>

-----------------------------------------------------------------------------
(* The operation. *)

\* What a roster can make of a command: frames to send, then the result.
Plan(frames, outcome, talks) == [frames |-> frames, outcome |-> outcome, reply |-> talks]
Plans(kind) ==
  CASE kind = "list"       -> {Plan(0, "SUCCESS", TRUE)}
    [] kind = "nuke"       -> {Plan(n + 1, "SUCCESS", FALSE) : n \in 0..MaxUsers}
    [] kind = "resurrect"  -> {Plan(1, "SUCCESS", FALSE), Plan(0, "ABSENT_TARGET", TRUE)}
    [] kind = "msgchannel" -> {Plan(1, "SUCCESS", TRUE), Plan(0, "EMPTY", TRUE)}

\* A slip: only a payload wakes the goroutine.
GiveUpOnPayload(w) ==
  /\ pc[w] = "waiting"
  /\ ~Live(w) /\ inbox[w] # "empty"
  /\ Goto(w, "closing")
  /\ UNCHANGED <<coordinator, asking, endings, inbound, operation, reply, disturbed>>

\* The select of run: the end of the context, or the payload.
GiveUp(w) ==
  /\ pc[w] = "waiting"
  /\ ~Live(w)
  /\ Goto(w, "closing")
  /\ UNCHANGED <<coordinator, asking, endings, inbound, operation, reply, disturbed>>

Reject(w) ==
  /\ pc[w] = "waiting"
  /\ inbox[w] \in {"roster", "other"}
  /\ ~Live(w) \/ inbox[w] = "other"
  /\ inbox' = [inbox EXCEPT ![w] = "taken"]
  /\ Fail(w)
  /\ IF Live(w) THEN Disturb(w) ELSE UNCHANGED disturbed
  /\ Goto(w, "closing")
  /\ UNCHANGED <<coordinator, asking, endings, session, reader, todo, dispatched, acked,
                 doubt, reply>>

Dispatch(w) ==
  /\ pc[w] = "waiting"
  /\ inbox[w] = "roster"
  /\ Live(w)
  /\ inbox' = [inbox EXCEPT ![w] = "taken"]
  /\ dispatched' = [dispatched EXCEPT ![w] = TRUE]
  /\ \E plan \in Plans(Kind(w)) :
       /\ todo' = [todo EXCEPT ![w] = plan.frames]
       /\ result' = [result EXCEPT ![w].outcome = plan.outcome, ![w].reply = plan.reply]
  /\ Goto(w, "applying")
  /\ UNCHANGED <<coordinator, asking, endings, session, reader, acked, doubt, reply,
                 disturbed>>

\* A slip: a failed write is reported like any other failure.
OperationFailsPlainly(w, unknown) ==
  /\ result' = [result EXCEPT ![w].outcome = "FAILED", ![w].error = TRUE]
  /\ Goto(w, "closing")

\* The operation returns a failure; one of a write leaves its effect unknown.
OperationFails(w, unknown) ==
  /\ result' = [result EXCEPT ![w].outcome = "FAILED", ![w].error = TRUE,
                              ![w].unknown = @ \/ unknown]
  /\ Goto(w, "closing")

\* The operation, or the SendRaw it is given, finds the context ended.
NoticeEnd(w) ==
  /\ pc[w] = "applying"
  /\ Kind(w) # "list"
  /\ todo[w] > 0 \/ acked[w] = 0
  /\ ~Live(w)
  /\ \E unknown \in BOOLEAN : OperationFails(w, unknown)
  /\ UNCHANGED <<coordinator, asking, endings, inbound, todo, dispatched, acked, doubt,
                 reply, disturbed>>

\* nuke meets a user whose name is only spaces.
Abort(w) ==
  /\ pc[w] = "applying"
  /\ Kind(w) = "nuke"
  /\ todo[w] > 1
  /\ OperationFails(w, FALSE)
  /\ Disturb(w)
  /\ UNCHANGED <<coordinator, asking, endings, inbound, todo, dispatched, acked, doubt,
                 reply>>

\* The recover of run.
Panic(w) ==
  /\ pc[w] = "applying"
  /\ OperationFails(w, TRUE)
  /\ Disturb(w)
  /\ UNCHANGED <<coordinator, asking, endings, inbound, todo, dispatched, acked, doubt,
                 reply>>

\* SendRaw looks at the context once and then writes.
Send(w) ==
  /\ pc[w] = "applying"
  /\ todo[w] > 0
  /\ Live(w)
  /\ Goto(w, "sending")
  /\ UNCHANGED <<coordinator, asking, endings, inbound, operation, reply, disturbed>>

Sent(w) ==
  /\ pc[w] = "sending"
  /\ todo' = [todo EXCEPT ![w] = @ - 1]
  /\ acked' = [acked EXCEPT ![w] = @ + 1]
  /\ result' = [result EXCEPT ![w].actions = @ + 1]
  /\ Goto(w, "applying")
  /\ UNCHANGED <<coordinator, asking, endings, inbound, dispatched, doubt, reply,
                 disturbed>>

SendFails(w) ==
  /\ pc[w] = "sending"
  /\ OperationFails(w, TRUE)
  /\ doubt' = [doubt EXCEPT ![w] = TRUE]
  /\ Disturb(w)
  /\ UNCHANGED <<coordinator, asking, endings, inbound, todo, dispatched, acked, reply>>

Return(w) ==
  /\ pc[w] = "applying"
  /\ todo[w] = 0
  /\ Goto(w, "closing")
  /\ UNCHANGED <<coordinator, asking, endings, inbound, operation, reply, disturbed>>

-----------------------------------------------------------------------------
(* The deferred clean-up of run, in its order. *)

\* coordinatedSession.Close: close the socket and wait five seconds for the
\* reader; both can fail.  The registry entry goes in any case.
Close(w) ==
  /\ pc[w] = "closing"
  /\ session' = [session EXCEPT ![w] = "closed"]
  /\ \/ reader[w] # "reading" /\ UNCHANGED <<result, disturbed>>
     \/ Fail(w) /\ Disturb(w)
  /\ Goto(w, "replying")
  /\ UNCHANGED <<coordinator, asking, endings, inbox, reader, todo, dispatched, acked,
                 doubt, reply>>

\* Only a result that is whole speaks for itself; the request's ReplyMessage
\* replaces any other.
Speak(w) ==
  /\ pc[w] = "replying"
  /\ LET whole == result[w].outcome # "FAILED" /\ ~result[w].error /\ Live(w) IN
     \/ ~whole /\ said' = [said EXCEPT ![w] = "generic"] /\ Goto(w, "delivering")
     \/ /\ whole /\ result[w].reply
        /\ said' = [said EXCEPT ![w] = "result"]
        /\ Goto(w, "delivering")
     \/ whole /\ ~result[w].reply /\ Goto(w, "settling") /\ UNCHANGED said
  /\ UNCHANGED <<coordinator, asking, endings, inbound, operation, heard, disturbed>>

Delivered(w) ==
  /\ pc[w] = "delivering"
  /\ heard' = [heard EXCEPT ![w] = TRUE]
  /\ result' = [result EXCEPT ![w].actions = @ + 1]
  /\ Goto(w, "settling")
  /\ UNCHANGED <<coordinator, asking, endings, inbound, todo, dispatched, acked, doubt,
                 said, disturbed>>

DeliveryFails(w) ==
  /\ pc[w] = "delivering"
  /\ w \notin Unreachable
  /\ result' = [result EXCEPT ![w].outcome = "FAILED", ![w].error = TRUE,
                              ![w].unknown = TRUE]
  /\ doubt' = [doubt EXCEPT ![w] = TRUE]
  /\ Disturb(w)
  /\ Goto(w, "settling")
  /\ UNCHANGED <<coordinator, asking, endings, inbound, todo, dispatched, acked, reply>>

\* What ended the workflow from outside: a failure that was accepted, or else
\* the end of its context.
Cause(w) ==
  CASE failure[w] # "none" -> failure[w]
    [] failure[w] = "none" /\ context[w] = "cancelled" -> "CANCELLED"
    [] failure[w] = "none" /\ context[w] = "expired" -> "TIMED_OUT"
    [] OTHER -> "none"

\* Close the acceptance window and settle the outcome; from here on a failure
\* is refused.
Settle(w) ==
  /\ pc[w] = "settling"
  /\ terminal' = [terminal EXCEPT ![w] = TRUE]
  /\ LET failed == result[w].error \/ Cause(w) # "none" IN
     /\ result' = [result EXCEPT ![w].error = failed,
                                 ![w].outcome = IF failed THEN "FAILED" ELSE @,
                                 ![w].unknown = @ \/ (Cause(w) # "none" /\ dispatched[w])]
     /\ final' = [final EXCEPT ![w] = IF ~failed THEN "COMPLETED"
                                      ELSE IF Cause(w) = "none" THEN "FAILED" ELSE Cause(w)]
  /\ End(w, "cancelled")
  /\ Goto(w, "publishing")
  /\ UNCHANGED <<coordinator, asking, failure, inbound, todo, dispatched, acked, doubt,
                 reply, disturbed>>

\* Is the state of this ID kept, and where?
Retains(i)  == \E n \in 1..Len(retained) : retained[n] = i
Position(i) == CHOOSE n \in 1..Len(retained) : retained[n] = i
Without(i)  == IF Retains(i)
               THEN SubSeq(retained, 1, Position(i) - 1)
                    \o SubSeq(retained, Position(i) + 1, Len(retained))
               ELSE retained

\* A slip: an ID that is used again is retained twice.
RequeuedTwice(w) == Append(retained, Id(w))

\* The retained IDs after that of w, and the one that is dropped for it.
Requeued(w) == Append(Without(Id(w)), Id(w))
Dropped(w)  == IF Len(Requeued(w)) > Retention THEN {Head(Requeued(w))} ELSE {}

\* The ID is free again; an ID that is dropped keeps its state while a newer
\* workflow uses it.
Publish(w) ==
  /\ pc[w] = "publishing"
  /\ active' = [active EXCEPT ![Id(w)] = NoWorkflow]
  /\ states' = [i \in Ids |->
                  IF i \in Dropped(w) /\ active'[i] = NoWorkflow THEN "none"
                  ELSE IF i = Id(w) THEN final[w] ELSE states[i]]
  /\ retained' = IF Dropped(w) = {} THEN Requeued(w) ELSE Tail(Requeued(w))
  /\ Goto(w, "completing")
  /\ UNCHANGED <<asking, endings, inbound, operation, reply, disturbed>>

\* OnComplete; a Submit that has not returned yet returns the error.
Complete(w) ==
  /\ pc[w] = "completing"
  /\ caller' = [caller EXCEPT ![w] = IF @ = "submitting" THEN "left" ELSE @]
  /\ Goto(w, "done")
  /\ UNCHANGED <<coordinator, request, parent, endings, inbound, operation, reply,
                 disturbed>>

-----------------------------------------------------------------------------
Operate(w) == NoticeEnd(w) \/ Abort(w) \/ Panic(w) \/ Send(w) \/ Sent(w)
              \/ SendFails(w) \/ Return(w)
CleanUp(w) == Close(w) \/ Speak(w) \/ Delivered(w) \/ DeliveryFails(w) \/ Settle(w)
              \/ Publish(w) \/ Complete(w)
Run(w)     == Create(w) \/ Begin(w) \/ Start(w) \/ GiveUp(w) \/ Reject(w) \/ Dispatch(w)
              \/ Operate(w) \/ CleanUp(w)
Outside(w) == Deliver(w) \/ TransportFails(w) \/ Cancel(w) \/ Expire(w) \/ ParentEnds(w)

Next == \E w \in Workflows :
          Submit(w) \/ Run(w) \/ Outside(w) \/ CallerLeaves(w) \/ ReaderStops(w)

\* The goroutine of a workflow runs on: its dial, its writes and its replies
\* have deadlines.  The deadline of the workflow passes and its caller is
\* scheduled; nothing is assumed of the room.
Fairness == \A w \in Workflows :
              WF_vars(Run(w)) /\ WF_vars(Expire(w)) /\ WF_vars(CallerLeaves(w))

Spec == Init /\ [][Next]_vars /\ Fairness

-----------------------------------------------------------------------------
(* Properties. *)

Done(w) == pc[w] = "done"

\* The receipt a caller is given (OperationResult) says what happened: every
\* frame and reply that was written is counted and nothing else; what may or
\* may not have reached the room is declared unknown; and only an operation
\* that was carried out to its end, closed behind itself and answered as it
\* meant to counts as completed.
ReceiptIsTrue == \A w \in Workflows : Done(w) =>
  /\ result[w].actions = acked[w] + (IF heard[w] THEN 1 ELSE 0)
  /\ doubt[w] => result[w].unknown
  /\ final[w] = "COMPLETED" <=> result[w].outcome # "FAILED"
  /\ final[w] = "COMPLETED" =>
       /\ dispatched[w] /\ todo[w] = 0 /\ ~doubt[w]
       /\ session[w] = "closed" /\ ~result[w].error
       /\ heard[w] <=> result[w].reply
  /\ said[w] = "result" => todo[w] = 0 /\ session[w] = "closed"

\* A failure that workflow.fail accepted is the published state of the
\* workflow, however late it came; an operation that was under way when its
\* workflow ended is never reported as known.
AcceptedFailureIsPublished == \A w \in Workflows : Done(w) =>
  /\ failure[w] # "none" => final[w] = failure[w]
  /\ dispatched[w] /\ (failure[w] # "none" \/ final[w] \in {"CANCELLED", "TIMED_OUT"})
       => result[w].unknown

\* The coordinator reports a state for every workflow that is active and keeps
\* that of no more than Retention finished ones.
StatesAreRetained ==
  /\ \A i \in Ids : active[i] # NoWorkflow => states[i] \in {"PENDING", "RUNNING"}
  /\ Len(retained) <= Retention
  /\ \A i \in Ids : active[i] = NoWorkflow =>
       (states[i] # "none" <=> Retains(i))

\* A command that awaits its workflow is carried out unless something else
\* goes wrong: the context it was given stays alive until the receipt is there.
AwaitedWorkIsDone == \A w \in Workflows :
  Done(w) /\ Awaits(w) /\ ~disturbed[w] => final[w] = "COMPLETED"

\* docs/commands.md says of nuke that it requests a ban for every observed user
\* and then a lock, of resurrect that it requests the kick, with no proviso:
\* an admitted command is carried out unless something goes wrong.
AdmittedWorkIsDone == \A w \in Workflows :
  Done(w) /\ ~disturbed[w] => final[w] = "COMPLETED"

\* Every workflow that is submitted ends, whatever becomes of the room, with
\* its session closed and its caller released.
WorkflowsEnd == <>[](\A w \in Workflows :
  /\ pc[w] \in {"unused", "refused", "done"}
  /\ session[w] # "open"
  /\ caller[w] \in {"idle", "left"})

(* A receipt says what its workflow did, a failure after acceptance is     *)
(* published in the room, awaited work is done, and states are kept as     *)
(* long as they may be asked for.                                          *)
SnapshotsAreTrue ==
    /\ RTypeOK /\ ReceiptIsTrue /\ AcceptedFailureIsPublished
    /\ AwaitedWorkIsDone /\ StatesAreRetained
=============================================================================
