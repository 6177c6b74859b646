------------------------- MODULE RoomSnapshotProofs -------------------------
(* Proofs about RoomSnapshot: for any workflows, IDs and rosters, a receipt  *)
(* is true, an accepted failure is published, the coordinator knows the      *)
(* state of every active workflow, and a command that awaits its workflow is *)
(* carried out unless something goes wrong.                                  *)
EXTENDS RoomSnapshot, SequenceTheorems, TLAPS

Ended  == {"publishing", "completing", "done"}
Owning == Steps \ {"unused", "refused", "completing", "done"}

\* The table of the coordinator: an ID belongs to the workflow that runs under
\* it, and the IDs kept are distinct.
TableSound ==
  /\ \A i \in Ids : active[i] # NoWorkflow =>
       /\ Id(active[i]) = i
       /\ pc[active[i]] \in Owning
  /\ \A w \in Workflows : pc[w] \in Owning => active[Id(w)] = w
  /\ retained \in Seq(Ids)
  /\ StatesAreRetained
  /\ \A m, n \in 1..Len(retained) : retained[m] = retained[n] => m = n

\* The receipt while it is made.
ReceiptSound(w) ==
  /\ result[w].actions = acked[w] + (IF heard[w] THEN 1 ELSE 0)
  /\ heard[w] => pc[w] \in {"settling"} \cup Ended
  /\ said[w] # "nothing" => pc[w] \in {"delivering", "settling"} \cup Ended
  /\ said[w] = "result" => todo[w] = 0 /\ session[w] = "closed"
  /\ doubt[w] => result[w].unknown /\ result[w].error
  /\ result[w].outcome = "FAILED" => result[w].error
  /\ pc[w] \in {"applying", "sending"} => dispatched[w]
  /\ pc[w] = "sending" => todo[w] > 0
  /\ ~result[w].error =>
       /\ pc[w] \in {"closing", "replying", "delivering", "settling"} /\ Live(w) =>
            dispatched[w] /\ todo[w] = 0
       /\ pc[w] \in {"replying", "delivering", "settling"} => session[w] = "closed"
       /\ pc[w] = "delivering" /\ Live(w) => result[w].reply
       /\ pc[w] = "settling" /\ Live(w) => (heard[w] <=> result[w].reply)

\* The outcome once it is settled.
EndSound(w) ==
  /\ terminal[w] <=> pc[w] \in Ended
  /\ failure[w] # "none" => ~Live(w)
  /\ pc[w] \in Ended =>
       /\ final[w] \in Endings
       /\ final[w] = "COMPLETED" <=> result[w].outcome # "FAILED"
       /\ final[w] = "COMPLETED" =>
            /\ dispatched[w] /\ todo[w] = 0 /\ ~doubt[w]
            /\ session[w] = "closed" /\ ~result[w].error
            /\ heard[w] <=> result[w].reply
       /\ failure[w] # "none" => final[w] = failure[w]
       /\ dispatched[w] /\ (failure[w] # "none" \/ final[w] \in {"CANCELLED", "TIMED_OUT"})
            => result[w].unknown

\* A command that waits, and that nothing disturbs, finds no reason to fail.
AwaitedSound(w) == Awaits(w) /\ ~disturbed[w] =>
  /\ failure[w] = "none"
  /\ ~Live(w) \/ ~parent[w] \/ caller[w] = "left" => pc[w] \in {"refused"} \cup Ended
  /\ pc[w] \notin Ended => ~result[w].error
  /\ pc[w] \in Ended => final[w] = "COMPLETED"

Sound(w) == ReceiptSound(w) /\ EndSound(w) /\ AwaitedSound(w)

RInv == StateTypeOK /\ TableSound /\ \A w \in Workflows : Sound(w)

-----------------------------------------------------------------------------
(* Lemmas. *)

\* Nothing of workflow q changes.
Same(q) ==
  /\ pc'[q] = pc[q]
  /\ request'[q] = request[q]
  /\ caller'[q] = caller[q]
  /\ parent'[q] = parent[q]
  /\ context'[q] = context[q]
  /\ failure'[q] = failure[q]
  /\ terminal'[q] = terminal[q]
  /\ final'[q] = final[q]
  /\ session'[q] = session[q]
  /\ todo'[q] = todo[q]
  /\ dispatched'[q] = dispatched[q]
  /\ result'[q] = result[q]
  /\ acked'[q] = acked[q]
  /\ doubt'[q] = doubt[q]
  /\ said'[q] = said[q]
  /\ heard'[q] = heard[q]
  /\ disturbed'[q] = disturbed[q]

\* A workflow that no step touches stays sound.
LEMMA SameStaysSound ==
  ASSUME NEW q \in Workflows, Sound(q), Same(q)
  PROVE  Sound(q)'
BY DEF Same, Sound, ReceiptSound, EndSound, AwaitedSound, Awaits, Kind, Live, Ended

\* The table stays sound through a step that leaves it alone and by which no
\* workflow comes to own its ID or gives it up.
LEMMA TableStaysSound ==
  ASSUME StateTypeOK, TableSound, UNCHANGED <<coordinator, request>>,
         \A w \in Workflows : pc'[w] \in Owning <=> pc[w] \in Owning
  PROVE  TableSound'
<1>1. /\ \A i \in Ids : active[i] # NoWorkflow => active[i] \in Workflows
      /\ active' = active /\ states' = states /\ retained' = retained
      /\ request' = request
  BY DEF StateTypeOK, coordinator
<1>2. StatesAreRetained'
  BY <1>1 DEF TableSound, StatesAreRetained, Retains
<1>3. \A i \in Ids : active'[i] # NoWorkflow =>
        Id(active[i])' = i /\ pc'[active'[i]] \in Owning
  BY <1>1 DEF TableSound, Id
<1>4. \A w \in Workflows : pc'[w] \in Owning => active'[Id(w)'] = w
  BY <1>1 DEF TableSound, Id
<1> QED BY <1>1, <1>2, <1>3, <1>4 DEF TableSound, Id

\* What a failure before or after the operation does to the result.
LEMMA FailEffect ==
  ASSUME NEW w \in Workflows, result \in [Workflows -> Results], Fail(w)
  PROVE  /\ result' \in [Workflows -> Results]
         /\ result'[w].error /\ result'[w].unknown = result[w].unknown
         /\ result'[w].outcome = result[w].outcome /\ result'[w].reply = result[w].reply
         /\ result'[w].actions = result[w].actions
<1>1. result[w] \in Results
  OBVIOUS
<1>2. [result[w] EXCEPT !.error = TRUE] \in Results
  BY <1>1 DEF Results
<1>3. result' = [result EXCEPT ![w] = [result[w] EXCEPT !.error = TRUE]]
  BY DEF Fail
<1>4. result'[w] = [result[w] EXCEPT !.error = TRUE]
  BY <1>3
<1>5. result' \in [Workflows -> Results]
  BY <1>2, <1>3
<1> QED BY <1>1, <1>4, <1>5 DEF Results

\* What a failure of the operation does to the result.
LEMMA OperationFailsEffect ==
  ASSUME NEW w \in Workflows, NEW unknown \in BOOLEAN,
         result \in [Workflows -> Results], OperationFails(w, unknown)
  PROVE  /\ result' \in [Workflows -> Results]
         /\ result'[w].error /\ result'[w].unknown = (result[w].unknown \/ unknown)
         /\ result'[w].outcome = "FAILED" /\ result'[w].reply = result[w].reply
         /\ result'[w].actions = result[w].actions
<1> DEFINE failed == [result[w] EXCEPT !.outcome = "FAILED", !.error = TRUE,
                                       !.unknown = @ \/ unknown]
<1>1. result[w] \in Results
  OBVIOUS
<1>2. failed \in Results
  BY <1>1 DEF Results, Outcomes
<1>3. result' = [result EXCEPT ![w] = failed]
  BY <1>1 DEF OperationFails, Results
<1> QED BY <1>1, <1>2, <1>3 DEF Results

\* The session is created, or the workflow goes straight to its reply.
LEMMA CreateKeepsRInv ==
  ASSUME RInv, NEW w \in Workflows, Create(w)
  PROVE  RInv'
<1>1. StateTypeOK'
  <2>1. /\ session \in [Workflows -> {"none", "open", "closed"}]
        /\ result \in [Workflows -> Results]
        /\ disturbed \in [Workflows -> BOOLEAN]
        /\ pc \in [Workflows -> Steps]
    BY DEF RInv, StateTypeOK
  <2>2. session' \in [Workflows -> {"none", "open", "closed"}]
    BY <2>1 DEF Create, Fail, Disturb, Goto
  <2>3. result' \in [Workflows -> Results]
    BY <2>1, FailEffect DEF Create
  <2>4. disturbed' \in [Workflows -> BOOLEAN]
    BY <2>1 DEF Create, Fail, Disturb, Goto
  <2>5. pc' \in [Workflows -> Steps]
    BY <2>1 DEF Create, Fail, Disturb, Goto, Steps
  <2>6. UNCHANGED <<active, states, context, failure, terminal, inbox, reader, todo,
                    dispatched, final, caller, parent, acked, said, heard, doubt,
                    request>>
    BY DEF Create, Fail, Disturb, Goto, vars, coordinator, asking, endings, inbound,
         operation, reply
  <2> QED BY <2>2, <2>3, <2>4, <2>5, <2>6 DEF RInv, StateTypeOK
<1>2. ASSUME NEW q \in Workflows, q # w PROVE Same(q)
  BY <1>2 DEF RInv, StateTypeOK, Same, Live, Create, Fail, Disturb, Goto, vars,
       coordinator, asking, endings, inbound, operation, reply
<1>3. Sound(w)'
  <2>1. /\ result \in [Workflows -> Results] /\ disturbed \in [Workflows -> BOOLEAN]
        /\ session \in [Workflows -> {"none", "open", "closed"}]
        /\ pc \in [Workflows -> Steps]
        /\ Sound(w)
    BY DEF RInv, StateTypeOK
  <2>2. /\ pc[w] = "creating" /\ said[w] = "nothing" /\ ~heard[w]
    BY <2>1 DEF Sound, ReceiptSound, EndSound, AwaitedSound, Awaits, Kind, Live,
         Ended, Create
  <2>3. CASE Goto(w, "created") /\ session' = [session EXCEPT ![w] = "open"]
             /\ UNCHANGED <<result, disturbed>>
    <3>1. pc'[w] = "created" /\ session'[w] = "open"
      BY <2>1, <2>3 DEF Goto
    <3> QED BY <2>1, <2>2, <2>3, <3>1 DEF Sound, ReceiptSound, EndSound, AwaitedSound,
         Awaits, Kind, Live, Ended, Create, coordinator, asking, endings, inbound,
         operation, reply
  <2>4. CASE Fail(w) /\ Disturb(w) /\ Goto(w, "replying") /\ UNCHANGED session
    <3>1. /\ result'[w].error /\ result'[w].unknown = result[w].unknown
          /\ result'[w].outcome = result[w].outcome
          /\ result'[w].actions = result[w].actions
      BY <2>1, <2>4, FailEffect
    <3>2. pc'[w] = "replying" /\ disturbed'[w]
      BY <2>1, <2>4 DEF Goto, Disturb
    <3> QED BY <2>1, <2>2, <2>4, <3>1, <3>2 DEF Sound, ReceiptSound, EndSound,
         AwaitedSound, Awaits, Kind, Live, Ended, Create, coordinator, asking,
         endings, inbound, operation, reply
  <2> QED BY <2>3, <2>4 DEF Create
<1>4. TableSound'
  <2>1. UNCHANGED <<coordinator, request>>
    BY DEF Create, vars, coordinator, asking, endings, inbound, operation, reply
  <2>2. \A q \in Workflows : pc'[q] \in Owning <=> pc[q] \in Owning
    BY DEF RInv, StateTypeOK, Owning, Steps, Create, Fail, Disturb, Goto, vars,
         coordinator, asking, endings, inbound, operation, reply
  <2> QED BY <2>1, <2>2, TableStaysSound DEF RInv
<1> QED BY <1>1, <1>2, <1>3, <1>4, SameStaysSound DEF RInv

\* The session starts, or fails to.
LEMMA StartKeepsRInv ==
  ASSUME RInv, NEW w \in Workflows, Start(w)
  PROVE  RInv'
<1>1. StateTypeOK'
  <2>1. /\ reader \in [Workflows -> {"none", "reading", "over"}]
        /\ caller \in [Workflows -> {"idle", "submitting", "waiting", "left"}]
        /\ result \in [Workflows -> Results]
        /\ disturbed \in [Workflows -> BOOLEAN]
        /\ pc \in [Workflows -> Steps]
    BY DEF RInv, StateTypeOK
  <2>2. reader' \in [Workflows -> {"none", "reading", "over"}]
    BY <2>1 DEF Start, Fail, Disturb, Goto
  <2>3. caller' \in [Workflows -> {"idle", "submitting", "waiting", "left"}]
    BY <2>1 DEF Start, Fail, Disturb, Goto
  <2>4. result' \in [Workflows -> Results]
    BY <2>1, FailEffect DEF Start
  <2>5. disturbed' \in [Workflows -> BOOLEAN]
    BY <2>1 DEF Start, Fail, Disturb, Goto
  <2>6. pc' \in [Workflows -> Steps]
    BY <2>1 DEF Start, Fail, Disturb, Goto, Steps
  <2>7. UNCHANGED <<active, states, context, failure, terminal, inbox, session, todo,
                    dispatched, final, parent, acked, said, heard, doubt, request>>
    BY DEF Start, Fail, Disturb, Goto, vars, coordinator, asking, endings, inbound,
         operation, reply
  <2> QED BY <2>2, <2>3, <2>4, <2>5, <2>6, <2>7 DEF RInv, StateTypeOK
<1>2. ASSUME NEW q \in Workflows, q # w PROVE Same(q)
  BY <1>2 DEF RInv, StateTypeOK, Same, Live, Start, Fail, Disturb, Goto, vars,
       coordinator, asking, endings, inbound, operation, reply
<1>3. Sound(w)'
  <2>1. /\ result \in [Workflows -> Results] /\ disturbed \in [Workflows -> BOOLEAN]
        /\ caller \in [Workflows -> {"idle", "submitting", "waiting", "left"}]
        /\ pc \in [Workflows -> Steps]
        /\ Sound(w)
    BY DEF RInv, StateTypeOK
  <2>2. /\ pc[w] = "starting" /\ said[w] = "nothing" /\ ~heard[w]
    BY <2>1 DEF Sound, ReceiptSound, EndSound, AwaitedSound, Awaits, Kind, Live,
         Ended, Start
  <2>3. CASE Goto(w, "waiting") /\ caller' = [caller EXCEPT ![w] = "waiting"]
             /\ UNCHANGED <<result, disturbed>>
    <3>1. pc'[w] = "waiting" /\ caller'[w] = "waiting"
      BY <2>1, <2>3 DEF Goto
    <3> QED BY <2>1, <2>2, <2>3, <3>1 DEF Sound, ReceiptSound, EndSound, AwaitedSound,
         Awaits, Kind, Live, Ended, Start, coordinator, asking, endings, inbound,
         operation, reply
  <2>4. CASE Fail(w) /\ Goto(w, "closing") /\ UNCHANGED caller
             /\ IF Live(w) THEN Disturb(w) ELSE UNCHANGED disturbed
    <3>1. /\ result'[w].error /\ result'[w].unknown = result[w].unknown
          /\ result'[w].outcome = result[w].outcome
          /\ result'[w].actions = result[w].actions
      BY <2>1, <2>4, FailEffect
    <3>2. pc'[w] = "closing" /\ (Live(w) => disturbed'[w]) /\ (~Live(w) => UNCHANGED disturbed)
      BY <2>1, <2>4 DEF Goto, Disturb
    <3> QED BY <2>1, <2>2, <2>4, <3>1, <3>2 DEF Sound, ReceiptSound, EndSound,
         AwaitedSound, Awaits, Kind, Live, Ended, Start, coordinator, asking, endings,
         inbound, operation, reply
  <2> QED BY <2>3, <2>4 DEF Start
<1>4. TableSound'
  <2>1. UNCHANGED <<coordinator, request>>
    BY DEF Start, vars, coordinator, asking, endings, inbound, operation, reply
  <2>2. \A q \in Workflows : pc'[q] \in Owning <=> pc[q] \in Owning
    BY DEF RInv, StateTypeOK, Owning, Steps, Start, Fail, Disturb, Goto, vars,
         coordinator, asking, endings, inbound, operation, reply
  <2> QED BY <2>1, <2>2, TableStaysSound DEF RInv
<1> QED BY <1>1, <1>2, <1>3, <1>4, SameStaysSound DEF RInv

\* A frame of the room is claimed.
LEMMA DeliverKeepsRInv ==
  ASSUME RInv, NEW w \in Workflows, Deliver(w)
  PROVE  RInv'
<1>1. StateTypeOK'
  <2>1. /\ inbox \in [Workflows -> {"empty", "roster", "other", "taken"}]
    BY DEF RInv, StateTypeOK
  <2>2. inbox' \in [Workflows -> {"empty", "roster", "other", "taken"}]
    BY <2>1 DEF Deliver
  <2>3. UNCHANGED <<active, states, pc, context, failure, terminal, session, reader,
                    todo, dispatched, result, final, caller, parent, acked, said,
                    heard, doubt, disturbed, request>>
    BY DEF Deliver, vars, coordinator, asking, endings, inbound, operation, reply
  <2> QED BY <2>2, <2>3 DEF RInv, StateTypeOK
<1>2. ASSUME NEW q \in Workflows, q # w PROVE Same(q)
  BY <1>2 DEF RInv, StateTypeOK, Same, Live, Deliver, vars, coordinator, asking,
       endings, inbound, operation, reply
<1>3. Sound(w)'
  BY DEF RInv, StateTypeOK, Results, Outcomes, Kind, Sound, ReceiptSound, EndSound,
       AwaitedSound, Awaits, Live, Ended, Deliver, vars, coordinator, asking, endings,
       inbound, operation, reply
<1>4. TableSound'
  <2>1. UNCHANGED <<coordinator, request>>
    BY DEF Deliver, vars, coordinator, asking, endings, inbound, operation, reply
  <2>2. \A q \in Workflows : pc'[q] \in Owning <=> pc[q] \in Owning
    BY DEF RInv, StateTypeOK, Owning, Steps, Deliver, vars, coordinator, asking,
         endings, inbound, operation, reply
  <2> QED BY <2>1, <2>2, TableStaysSound DEF RInv
<1> QED BY <1>1, <1>2, <1>3, <1>4, SameStaysSound DEF RInv

\* The transport fails.
LEMMA TransportFailsKeepsRInv ==
  ASSUME RInv, NEW w \in Workflows, TransportFails(w)
  PROVE  RInv'
<1>1. StateTypeOK'
  <2>1. /\ reader \in [Workflows -> {"none", "reading", "over"}]
        /\ failure \in [Workflows -> {"none", "FAILED", "CANCELLED"}]
        /\ context \in [Workflows -> {"live", "cancelled", "expired"}]
        /\ disturbed \in [Workflows -> BOOLEAN]
    BY DEF RInv, StateTypeOK
  <2>2. reader' \in [Workflows -> {"none", "reading", "over"}]
    BY <2>1 DEF TransportFails, Accept, End, Disturb
  <2>3. failure' \in [Workflows -> {"none", "FAILED", "CANCELLED"}]
    BY <2>1 DEF TransportFails, Accept, End, Disturb
  <2>4. context' \in [Workflows -> {"live", "cancelled", "expired"}]
    BY <2>1 DEF TransportFails, Accept, End, Disturb
  <2>5. disturbed' \in [Workflows -> BOOLEAN]
    BY <2>1 DEF TransportFails, Accept, End, Disturb
  <2>6. UNCHANGED <<active, states, pc, terminal, inbox, session, todo, dispatched,
                    result, final, caller, parent, acked, said, heard, doubt,
                    request>>
    BY DEF TransportFails, Accept, End, Disturb, vars, coordinator, asking, endings,
         inbound, operation, reply
  <2> QED BY <2>2, <2>3, <2>4, <2>5, <2>6 DEF RInv, StateTypeOK
<1>2. ASSUME NEW q \in Workflows, q # w PROVE Same(q)
  BY <1>2 DEF RInv, StateTypeOK, Same, Live, TransportFails, Accept, End, Disturb,
       vars, coordinator, asking, endings, inbound, operation, reply
<1>3. Sound(w)'
  BY DEF RInv, StateTypeOK, Results, Outcomes, Kind, Sound, ReceiptSound, EndSound,
       AwaitedSound, Awaits, Live, Ended, TransportFails, Accept, End, Disturb, vars,
       coordinator, asking, endings, inbound, operation, reply
<1>4. TableSound'
  <2>1. UNCHANGED <<coordinator, request>>
    BY DEF TransportFails, vars, coordinator, asking, endings, inbound, operation, reply
  <2>2. \A q \in Workflows : pc'[q] \in Owning <=> pc[q] \in Owning
    BY DEF RInv, StateTypeOK, Owning, Steps, TransportFails, Accept, End, Disturb,
         vars, coordinator, asking, endings, inbound, operation, reply
  <2> QED BY <2>1, <2>2, TableStaysSound DEF RInv
<1> QED BY <1>1, <1>2, <1>3, <1>4, SameStaysSound DEF RInv

\* The workflow is cancelled through the coordinator.
LEMMA CancelKeepsRInv ==
  ASSUME RInv, NEW w \in Workflows, Cancel(w)
  PROVE  RInv'
<1>1. StateTypeOK'
  <2>1. /\ failure \in [Workflows -> {"none", "FAILED", "CANCELLED"}]
        /\ context \in [Workflows -> {"live", "cancelled", "expired"}]
        /\ disturbed \in [Workflows -> BOOLEAN]
    BY DEF RInv, StateTypeOK
  <2>2. failure' \in [Workflows -> {"none", "FAILED", "CANCELLED"}]
    BY <2>1 DEF Cancel, Accept, End, Disturb, Running, Id
  <2>3. context' \in [Workflows -> {"live", "cancelled", "expired"}]
    BY <2>1 DEF Cancel, Accept, End, Disturb, Running, Id
  <2>4. disturbed' \in [Workflows -> BOOLEAN]
    BY <2>1 DEF Cancel, Accept, End, Disturb, Running, Id
  <2>5. UNCHANGED <<active, states, pc, terminal, inbox, session, reader, todo,
                    dispatched, result, final, caller, parent, acked, said, heard,
                    doubt, request>>
    BY DEF Cancel, Accept, End, Disturb, Running, Id, vars, coordinator, asking,
         endings, inbound, operation, reply
  <2> QED BY <2>2, <2>3, <2>4, <2>5 DEF RInv, StateTypeOK
<1>2. ASSUME NEW q \in Workflows, q # w PROVE Same(q)
  BY <1>2 DEF RInv, StateTypeOK, Same, Live, Cancel, Accept, End, Disturb, Running,
       Id, vars, coordinator, asking, endings, inbound, operation, reply
<1>3. Sound(w)'
  BY DEF RInv, StateTypeOK, Results, Outcomes, Kind, Sound, ReceiptSound, EndSound,
       AwaitedSound, Awaits, Live, Ended, Cancel, Accept, End, Disturb, Running, Id,
       vars, coordinator, asking, endings, inbound, operation, reply
<1>4. TableSound'
  <2>1. UNCHANGED <<coordinator, request>>
    BY DEF Cancel, vars, coordinator, asking, endings, inbound, operation, reply
  <2>2. \A q \in Workflows : pc'[q] \in Owning <=> pc[q] \in Owning
    BY DEF RInv, StateTypeOK, Owning, Steps, Cancel, Accept, End, Disturb, Running,
         Id, vars, coordinator, asking, endings, inbound, operation, reply
  <2> QED BY <2>1, <2>2, TableStaysSound DEF RInv
<1> QED BY <1>1, <1>2, <1>3, <1>4, SameStaysSound DEF RInv

\* The deadline passes.
LEMMA ExpireKeepsRInv ==
  ASSUME RInv, NEW w \in Workflows, Expire(w)
  PROVE  RInv'
<1>1. StateTypeOK'
  <2>1. /\ context \in [Workflows -> {"live", "cancelled", "expired"}]
        /\ disturbed \in [Workflows -> BOOLEAN]
    BY DEF RInv, StateTypeOK
  <2>2. context' \in [Workflows -> {"live", "cancelled", "expired"}]
    BY <2>1 DEF Expire, Running, End, Disturb
  <2>3. disturbed' \in [Workflows -> BOOLEAN]
    BY <2>1 DEF Expire, Running, End, Disturb
  <2>4. UNCHANGED <<active, states, pc, failure, terminal, inbox, session, reader,
                    todo, dispatched, result, final, caller, parent, acked, said,
                    heard, doubt, request>>
    BY DEF Expire, Running, End, Disturb, vars, coordinator, asking, endings, inbound,
         operation, reply
  <2> QED BY <2>2, <2>3, <2>4 DEF RInv, StateTypeOK
<1>2. ASSUME NEW q \in Workflows, q # w PROVE Same(q)
  BY <1>2 DEF RInv, StateTypeOK, Same, Live, Expire, Running, End, Disturb, vars,
       coordinator, asking, endings, inbound, operation, reply
<1>3. Sound(w)'
  BY DEF RInv, StateTypeOK, Results, Outcomes, Kind, Sound, ReceiptSound, EndSound,
       AwaitedSound, Awaits, Live, Ended, Expire, Running, End, Disturb, vars,
       coordinator, asking, endings, inbound, operation, reply
<1>4. TableSound'
  <2>1. UNCHANGED <<coordinator, request>>
    BY DEF Expire, vars, coordinator, asking, endings, inbound, operation, reply
  <2>2. \A q \in Workflows : pc'[q] \in Owning <=> pc[q] \in Owning
    BY DEF RInv, StateTypeOK, Owning, Steps, Expire, Running, End, Disturb, vars,
         coordinator, asking, endings, inbound, operation, reply
  <2> QED BY <2>1, <2>2, TableStaysSound DEF RInv
<1> QED BY <1>1, <1>2, <1>3, <1>4, SameStaysSound DEF RInv

\* The context of the caller ends.
LEMMA ParentEndsKeepsRInv ==
  ASSUME RInv, NEW w \in Workflows, ParentEnds(w)
  PROVE  RInv'
<1>1. StateTypeOK'
  <2>1. /\ parent \in [Workflows -> BOOLEAN]
        /\ context \in [Workflows -> {"live", "cancelled", "expired"}]
        /\ disturbed \in [Workflows -> BOOLEAN]
    BY DEF RInv, StateTypeOK
  <2>2. parent' \in [Workflows -> BOOLEAN]
    BY <2>1 DEF ParentEnds, Running, End, Disturb
  <2>3. context' \in [Workflows -> {"live", "cancelled", "expired"}]
    BY <2>1 DEF ParentEnds, Running, End, Disturb
  <2>4. disturbed' \in [Workflows -> BOOLEAN]
    BY <2>1 DEF ParentEnds, Running, End, Disturb
  <2>5. UNCHANGED <<active, states, pc, failure, terminal, inbox, session, reader,
                    todo, dispatched, result, final, caller, acked, said, heard,
                    doubt, request>>
    BY DEF ParentEnds, Running, End, Disturb, vars, coordinator, asking, endings,
         inbound, operation, reply
  <2> QED BY <2>2, <2>3, <2>4, <2>5 DEF RInv, StateTypeOK
<1>2. ASSUME NEW q \in Workflows, q # w PROVE Same(q)
  BY <1>2 DEF RInv, StateTypeOK, Same, Live, ParentEnds, Running, End, Disturb, vars,
       coordinator, asking, endings, inbound, operation, reply
<1>3. Sound(w)'
  BY DEF RInv, StateTypeOK, Results, Outcomes, Kind, Sound, ReceiptSound, EndSound,
       AwaitedSound, Awaits, Live, Ended, ParentEnds, Running, End, Disturb, vars,
       coordinator, asking, endings, inbound, operation, reply
<1>4. TableSound'
  <2>1. UNCHANGED <<coordinator, request>>
    BY DEF ParentEnds, vars, coordinator, asking, endings, inbound, operation, reply
  <2>2. \A q \in Workflows : pc'[q] \in Owning <=> pc[q] \in Owning
    BY DEF RInv, StateTypeOK, Owning, Steps, ParentEnds, Running, End, Disturb, vars,
         coordinator, asking, endings, inbound, operation, reply
  <2> QED BY <2>1, <2>2, TableStaysSound DEF RInv
<1> QED BY <1>1, <1>2, <1>3, <1>4, SameStaysSound DEF RInv

\* The caller returns: only one that does not wait, or whose workflow is over.
LEMMA CallerLeavesKeepsRInv ==
  ASSUME RInv, NEW w \in Workflows, CallerLeaves(w)
  PROVE  RInv'
<1>1. StateTypeOK'
  <2>1. /\ caller \in [Workflows -> {"idle", "submitting", "waiting", "left"}]
        /\ context \in [Workflows -> {"live", "cancelled", "expired"}]
    BY DEF RInv, StateTypeOK
  <2>2. caller' \in [Workflows -> {"idle", "submitting", "waiting", "left"}]
    BY <2>1 DEF CallerLeaves, MayLeave, End
  <2>3. context' \in [Workflows -> {"live", "cancelled", "expired"}]
    BY <2>1 DEF CallerLeaves, MayLeave, End
  <2>4. UNCHANGED <<active, states, pc, failure, terminal, inbox, session, reader,
                    todo, dispatched, result, final, parent, acked, said, heard,
                    doubt, disturbed, request>>
    BY DEF CallerLeaves, MayLeave, End, vars, coordinator, asking, endings, inbound,
         operation, reply
  <2> QED BY <2>2, <2>3, <2>4 DEF RInv, StateTypeOK
<1>2. ASSUME NEW q \in Workflows, q # w PROVE Same(q)
  BY <1>2 DEF RInv, StateTypeOK, Same, Live, CallerLeaves, MayLeave, End, vars,
       coordinator, asking, endings, inbound, operation, reply
<1>3. Sound(w)'
  BY DEF RInv, StateTypeOK, Results, Outcomes, Kind, Sound, ReceiptSound, EndSound,
       AwaitedSound, Awaits, Live, Ended, CallerLeaves, MayLeave, End, vars,
       coordinator, asking, endings, inbound, operation, reply
<1>4. TableSound'
  <2>1. UNCHANGED <<coordinator, request>>
    BY DEF CallerLeaves, vars, coordinator, asking, endings, inbound, operation, reply
  <2>2. \A q \in Workflows : pc'[q] \in Owning <=> pc[q] \in Owning
    BY DEF RInv, StateTypeOK, Owning, Steps, CallerLeaves, MayLeave, End, vars,
         coordinator, asking, endings, inbound, operation, reply
  <2> QED BY <2>1, <2>2, TableStaysSound DEF RInv
<1> QED BY <1>1, <1>2, <1>3, <1>4, SameStaysSound DEF RInv

\* The reader ends.
LEMMA ReaderStopsKeepsRInv ==
  ASSUME RInv, NEW w \in Workflows, ReaderStops(w)
  PROVE  RInv'
<1>1. StateTypeOK'
  <2>1. /\ reader \in [Workflows -> {"none", "reading", "over"}]
    BY DEF RInv, StateTypeOK
  <2>2. reader' \in [Workflows -> {"none", "reading", "over"}]
    BY <2>1 DEF ReaderStops
  <2>3. UNCHANGED <<active, states, pc, context, failure, terminal, inbox, session,
                    todo, dispatched, result, final, caller, parent, acked, said,
                    heard, doubt, disturbed, request>>
    BY DEF ReaderStops, vars, coordinator, asking, endings, inbound, operation, reply
  <2> QED BY <2>2, <2>3 DEF RInv, StateTypeOK
<1>2. ASSUME NEW q \in Workflows, q # w PROVE Same(q)
  BY <1>2 DEF RInv, StateTypeOK, Same, Live, ReaderStops, vars, coordinator, asking,
       endings, inbound, operation, reply
<1>3. Sound(w)'
  BY DEF RInv, StateTypeOK, Results, Outcomes, Kind, Sound, ReceiptSound, EndSound,
       AwaitedSound, Awaits, Live, Ended, ReaderStops, vars, coordinator, asking,
       endings, inbound, operation, reply
<1>4. TableSound'
  <2>1. UNCHANGED <<coordinator, request>>
    BY DEF ReaderStops, vars, coordinator, asking, endings, inbound, operation, reply
  <2>2. \A q \in Workflows : pc'[q] \in Owning <=> pc[q] \in Owning
    BY DEF RInv, StateTypeOK, Owning, Steps, ReaderStops, vars, coordinator, asking,
         endings, inbound, operation, reply
  <2> QED BY <2>1, <2>2, TableStaysSound DEF RInv
<1> QED BY <1>1, <1>2, <1>3, <1>4, SameStaysSound DEF RInv

\* The workflow ends while it waits for the room.
LEMMA GiveUpKeepsRInv ==
  ASSUME RInv, NEW w \in Workflows, GiveUp(w)
  PROVE  RInv'
<1>1. StateTypeOK'
  <2>1. /\ pc \in [Workflows -> Steps]
    BY DEF RInv, StateTypeOK
  <2>2. pc' \in [Workflows -> Steps]
    BY <2>1 DEF GiveUp, Goto, Steps
  <2>3. UNCHANGED <<active, states, context, failure, terminal, inbox, session,
                    reader, todo, dispatched, result, final, caller, parent, acked,
                    said, heard, doubt, disturbed, request>>
    BY DEF GiveUp, Goto, vars, coordinator, asking, endings, inbound, operation, reply
  <2> QED BY <2>2, <2>3 DEF RInv, StateTypeOK
<1>2. ASSUME NEW q \in Workflows, q # w PROVE Same(q)
  BY <1>2 DEF RInv, StateTypeOK, Same, Live, GiveUp, Goto, vars, coordinator, asking,
       endings, inbound, operation, reply
<1>3. Sound(w)'
  BY DEF RInv, StateTypeOK, Results, Outcomes, Kind, Sound, ReceiptSound, EndSound,
       AwaitedSound, Awaits, Live, Ended, GiveUp, Goto, vars, coordinator, asking,
       endings, inbound, operation, reply
<1>4. TableSound'
  <2>1. UNCHANGED <<coordinator, request>>
    BY DEF GiveUp, vars, coordinator, asking, endings, inbound, operation, reply
  <2>2. \A q \in Workflows : pc'[q] \in Owning <=> pc[q] \in Owning
    BY DEF RInv, StateTypeOK, Owning, Steps, GiveUp, Goto, vars, coordinator, asking,
         endings, inbound, operation, reply
  <2> QED BY <2>1, <2>2, TableStaysSound DEF RInv
<1> QED BY <1>1, <1>2, <1>3, <1>4, SameStaysSound DEF RInv

\* A frame is not a roster, or comes too late.
LEMMA RejectKeepsRInv ==
  ASSUME RInv, NEW w \in Workflows, Reject(w)
  PROVE  RInv'
<1>1. StateTypeOK'
  <2>1. /\ inbox \in [Workflows -> {"empty", "roster", "other", "taken"}]
        /\ result \in [Workflows -> Results]
        /\ disturbed \in [Workflows -> BOOLEAN]
        /\ pc \in [Workflows -> Steps]
    BY DEF RInv, StateTypeOK
  <2>2. inbox' \in [Workflows -> {"empty", "roster", "other", "taken"}]
    BY <2>1 DEF Reject, Fail, Disturb, Goto
  <2>3. result' \in [Workflows -> Results]
    BY <2>1, FailEffect DEF Reject
  <2>4. disturbed' \in [Workflows -> BOOLEAN]
    BY <2>1 DEF Reject, Fail, Disturb, Goto
  <2>5. pc' \in [Workflows -> Steps]
    BY <2>1 DEF Reject, Fail, Disturb, Goto, Steps
  <2>6. UNCHANGED <<active, states, context, failure, terminal, session, reader, todo,
                    dispatched, final, caller, parent, acked, said, heard, doubt,
                    request>>
    BY DEF Reject, Fail, Disturb, Goto, vars, coordinator, asking, endings, inbound,
         operation, reply
  <2> QED BY <2>2, <2>3, <2>4, <2>5, <2>6 DEF RInv, StateTypeOK
<1>2. ASSUME NEW q \in Workflows, q # w PROVE Same(q)
  BY <1>2 DEF RInv, StateTypeOK, Same, Live, Reject, Fail, Disturb, Goto, vars,
       coordinator, asking, endings, inbound, operation, reply
<1>3. Sound(w)'
  BY DEF RInv, StateTypeOK, Results, Outcomes, Kind, Sound, ReceiptSound, EndSound,
       AwaitedSound, Awaits, Live, Ended, Reject, Fail, Disturb, Goto, vars,
       coordinator, asking, endings, inbound, operation, reply
<1>4. TableSound'
  <2>1. UNCHANGED <<coordinator, request>>
    BY DEF Reject, vars, coordinator, asking, endings, inbound, operation, reply
  <2>2. \A q \in Workflows : pc'[q] \in Owning <=> pc[q] \in Owning
    BY DEF RInv, StateTypeOK, Owning, Steps, Reject, Fail, Disturb, Goto, vars,
         coordinator, asking, endings, inbound, operation, reply
  <2> QED BY <2>1, <2>2, TableStaysSound DEF RInv
<1> QED BY <1>1, <1>2, <1>3, <1>4, SameStaysSound DEF RInv

\* The operation starts from a roster.
LEMMA DispatchKeepsRInv ==
  ASSUME RInv, NEW w \in Workflows, Dispatch(w)
  PROVE  RInv'
<1>0. \A plan \in Plans(Kind(w)) :
        plan \in [frames : Nat, outcome : Outcomes \ {"FAILED"}, reply : BOOLEAN]
  <2>1. Kind(w) \in Kinds
    BY DEF RInv, StateTypeOK, Requests, Kind
  <2>0. \A n \in Nat, how \in {"SUCCESS", "EMPTY", "ABSENT_TARGET"}, talks \in BOOLEAN :
          Plan(n, how, talks) \in [frames : Nat, outcome : Outcomes \ {"FAILED"}, reply : BOOLEAN]
    BY DEF Plan, Outcomes
  <2>2. CASE Kind(w) = "list"
    <3>1. Plans(Kind(w)) = {Plan(0, "SUCCESS", TRUE)}
      BY <2>2 DEF Plans
    <3> QED BY <2>0, <3>1
  <2>3. CASE Kind(w) = "nuke"
    <3>1. Plans(Kind(w)) = {Plan(n + 1, "SUCCESS", FALSE) : n \in 0..MaxUsers}
      BY <2>3 DEF Plans
    <3>2. \A n \in 0..MaxUsers : n + 1 \in Nat
      BY BoundsAssumption
    <3> QED BY <2>0, <3>1, <3>2
  <2>4. CASE Kind(w) = "resurrect"
    <3>1. Plans(Kind(w)) = {Plan(1, "SUCCESS", FALSE), Plan(0, "ABSENT_TARGET", TRUE)}
      BY <2>4 DEF Plans
    <3>2. Plan(1, "SUCCESS", FALSE) \in [frames : Nat, outcome : Outcomes \ {"FAILED"}, reply : BOOLEAN]
      BY <2>0
    <3>3. Plan(0, "ABSENT_TARGET", TRUE) \in [frames : Nat, outcome : Outcomes \ {"FAILED"}, reply : BOOLEAN]
      BY <2>0
    <3> QED BY <3>1, <3>2, <3>3
  <2>5. CASE Kind(w) = "msgchannel"
    <3>1. Plans(Kind(w)) = {Plan(1, "SUCCESS", TRUE), Plan(0, "EMPTY", TRUE)}
      BY <2>5 DEF Plans
    <3>2. Plan(1, "SUCCESS", TRUE) \in [frames : Nat, outcome : Outcomes \ {"FAILED"}, reply : BOOLEAN]
      BY <2>0
    <3>3. Plan(0, "EMPTY", TRUE) \in [frames : Nat, outcome : Outcomes \ {"FAILED"}, reply : BOOLEAN]
      BY <2>0
    <3> QED BY <3>1, <3>2, <3>3
  <2> QED BY <2>1, <2>2, <2>3, <2>4, <2>5 DEF Kinds
<1>1. StateTypeOK'
  <2>1. /\ inbox \in [Workflows -> {"empty", "roster", "other", "taken"}]
        /\ dispatched \in [Workflows -> BOOLEAN]
        /\ todo \in [Workflows -> Nat]
        /\ result \in [Workflows -> Results]
        /\ pc \in [Workflows -> Steps]
        /\ request \in [Workflows -> Requests]
    BY DEF RInv, StateTypeOK
  <2>2. inbox' \in [Workflows -> {"empty", "roster", "other", "taken"}]
    BY <2>1 DEF Dispatch, Goto, Plan, Plans, Kind
  <2>3. dispatched' \in [Workflows -> BOOLEAN]
    BY <2>1 DEF Dispatch, Goto, Plan, Plans, Kind
  <2>4. todo' \in [Workflows -> Nat]
    BY <2>1, <1>0 DEF Dispatch, Results
  <2>5. result' \in [Workflows -> Results]
    <3>1. PICK plan \in Plans(Kind(w)) :
            result' = [result EXCEPT ![w].outcome = plan.outcome, ![w].reply = plan.reply]
      BY DEF Dispatch
    <3> DEFINE planned == [result[w] EXCEPT !.outcome = plan.outcome, !.reply = plan.reply]
    <3>2. plan.outcome \in Outcomes /\ plan.reply \in BOOLEAN
      BY <1>0
    <3>3. result[w] \in Results
      BY <2>1
    <3>4. planned \in Results
      BY <3>2, <3>3 DEF Results
    <3>5. result' = [result EXCEPT ![w] = planned]
      BY <2>1, <3>1, <3>3 DEF Results
    <3> QED BY <2>1, <3>4, <3>5
  <2>6. pc' \in [Workflows -> Steps]
    BY <2>1 DEF Dispatch, Goto, Plan, Plans, Kind, Steps
  <2>7. UNCHANGED <<active, states, context, failure, terminal, session, reader,
                    final, caller, parent, acked, said, heard, doubt, disturbed,
                    request>>
    BY DEF Dispatch, Goto, Plan, Plans, Kind, vars, coordinator, asking, endings,
         inbound, operation, reply
  <2> QED BY <2>2, <2>3, <2>4, <2>5, <2>6, <2>7 DEF RInv, StateTypeOK
<1>2. ASSUME NEW q \in Workflows, q # w PROVE Same(q)
  BY <1>2 DEF RInv, StateTypeOK, Same, Live, Dispatch, Goto, Plan, Plans, Kind, vars,
       coordinator, asking, endings, inbound, operation, reply
<1>3. Sound(w)'
  <2>1. /\ result \in [Workflows -> Results] /\ dispatched \in [Workflows -> BOOLEAN]
        /\ todo \in [Workflows -> Nat]
        /\ pc \in [Workflows -> Steps]
        /\ Sound(w)
    BY DEF RInv, StateTypeOK
  <2>2. /\ pc[w] = "waiting" /\ pc'[w] = "applying" /\ dispatched'[w] /\ Live(w)
    BY <2>1 DEF Dispatch, Goto
  <2>3. /\ result'[w].error = result[w].error /\ result'[w].unknown = result[w].unknown
        /\ result'[w].outcome # "FAILED"
        /\ result'[w].actions = result[w].actions
    BY <1>0, <2>1 DEF Dispatch, Results
  <2>4. said[w] = "nothing" /\ ~heard[w]
    BY <2>1, <2>2 DEF Sound, ReceiptSound, EndSound, AwaitedSound, Awaits, Kind, Live,
         Ended
  <2> QED BY <2>1, <2>2, <2>3, <2>4 DEF Sound, ReceiptSound, EndSound, AwaitedSound,
       Awaits, Kind, Live, Ended, Dispatch, coordinator, asking, endings, inbound,
       operation, reply
<1>4. TableSound'
  <2>1. UNCHANGED <<coordinator, request>>
    BY DEF Dispatch, vars, coordinator, asking, endings, inbound, operation, reply
  <2>2. \A q \in Workflows : pc'[q] \in Owning <=> pc[q] \in Owning
    BY DEF RInv, StateTypeOK, Owning, Steps, Dispatch, Goto, Plan, Plans, Kind, vars,
         coordinator, asking, endings, inbound, operation, reply
  <2> QED BY <2>1, <2>2, TableStaysSound DEF RInv
<1> QED BY <1>1, <1>2, <1>3, <1>4, SameStaysSound DEF RInv

\* The operation finds the workflow ended.
LEMMA NoticeEndKeepsRInv ==
  ASSUME RInv, NEW w \in Workflows, NoticeEnd(w)
  PROVE  RInv'
<1>1. StateTypeOK'
  <2>1. /\ result \in [Workflows -> Results]
        /\ pc \in [Workflows -> Steps]
    BY DEF RInv, StateTypeOK
  <2>2. result' \in [Workflows -> Results]
    BY <2>1, OperationFailsEffect DEF NoticeEnd
  <2>3. pc' \in [Workflows -> Steps]
    BY <2>1 DEF NoticeEnd, OperationFails, Goto, Steps
  <2>4. UNCHANGED <<active, states, context, failure, terminal, inbox, session,
                    reader, todo, dispatched, final, caller, parent, acked, said,
                    heard, doubt, disturbed, request>>
    BY DEF NoticeEnd, OperationFails, Goto, vars, coordinator, asking, endings,
         inbound, operation, reply
  <2> QED BY <2>2, <2>3, <2>4 DEF RInv, StateTypeOK
<1>2. ASSUME NEW q \in Workflows, q # w PROVE Same(q)
  BY <1>2 DEF RInv, StateTypeOK, Same, Live, NoticeEnd, OperationFails, Goto, vars,
       coordinator, asking, endings, inbound, operation, reply
<1>3. Sound(w)'
  BY DEF RInv, StateTypeOK, Results, Outcomes, Kind, Sound, ReceiptSound, EndSound,
       AwaitedSound, Awaits, Live, Ended, NoticeEnd, OperationFails, Goto, vars,
       coordinator, asking, endings, inbound, operation, reply
<1>4. TableSound'
  <2>1. UNCHANGED <<coordinator, request>>
    BY DEF NoticeEnd, vars, coordinator, asking, endings, inbound, operation, reply
  <2>2. \A q \in Workflows : pc'[q] \in Owning <=> pc[q] \in Owning
    BY DEF RInv, StateTypeOK, Owning, Steps, NoticeEnd, OperationFails, Goto, vars,
         coordinator, asking, endings, inbound, operation, reply
  <2> QED BY <2>1, <2>2, TableStaysSound DEF RInv
<1> QED BY <1>1, <1>2, <1>3, <1>4, SameStaysSound DEF RInv

\* The operation gives up on its own.
LEMMA AbortKeepsRInv ==
  ASSUME RInv, NEW w \in Workflows, Abort(w)
  PROVE  RInv'
<1>1. StateTypeOK'
  <2>1. /\ result \in [Workflows -> Results]
        /\ pc \in [Workflows -> Steps]
        /\ disturbed \in [Workflows -> BOOLEAN]
    BY DEF RInv, StateTypeOK
  <2>2. result' \in [Workflows -> Results]
    BY <2>1, OperationFailsEffect DEF Abort
  <2>3. pc' \in [Workflows -> Steps]
    BY <2>1 DEF Abort, OperationFails, Goto, Disturb, Steps
  <2>4. disturbed' \in [Workflows -> BOOLEAN]
    BY <2>1 DEF Abort, OperationFails, Goto, Disturb
  <2>5. UNCHANGED <<active, states, context, failure, terminal, inbox, session,
                    reader, todo, dispatched, final, caller, parent, acked, said,
                    heard, doubt, request>>
    BY DEF Abort, OperationFails, Goto, Disturb, vars, coordinator, asking, endings,
         inbound, operation, reply
  <2> QED BY <2>2, <2>3, <2>4, <2>5 DEF RInv, StateTypeOK
<1>2. ASSUME NEW q \in Workflows, q # w PROVE Same(q)
  BY <1>2 DEF RInv, StateTypeOK, Same, Live, Abort, OperationFails, Goto, Disturb,
       vars, coordinator, asking, endings, inbound, operation, reply
<1>3. Sound(w)'
  BY DEF RInv, StateTypeOK, Results, Outcomes, Kind, Sound, ReceiptSound, EndSound,
       AwaitedSound, Awaits, Live, Ended, Abort, OperationFails, Goto, Disturb, vars,
       coordinator, asking, endings, inbound, operation, reply
<1>4. TableSound'
  <2>1. UNCHANGED <<coordinator, request>>
    BY DEF Abort, vars, coordinator, asking, endings, inbound, operation, reply
  <2>2. \A q \in Workflows : pc'[q] \in Owning <=> pc[q] \in Owning
    BY DEF RInv, StateTypeOK, Owning, Steps, Abort, OperationFails, Goto, Disturb,
         vars, coordinator, asking, endings, inbound, operation, reply
  <2> QED BY <2>1, <2>2, TableStaysSound DEF RInv
<1> QED BY <1>1, <1>2, <1>3, <1>4, SameStaysSound DEF RInv

\* The operation panics.
LEMMA PanicKeepsRInv ==
  ASSUME RInv, NEW w \in Workflows, Panic(w)
  PROVE  RInv'
<1>1. StateTypeOK'
  <2>1. /\ result \in [Workflows -> Results]
        /\ pc \in [Workflows -> Steps]
        /\ disturbed \in [Workflows -> BOOLEAN]
    BY DEF RInv, StateTypeOK
  <2>2. result' \in [Workflows -> Results]
    BY <2>1, OperationFailsEffect DEF Panic
  <2>3. pc' \in [Workflows -> Steps]
    BY <2>1 DEF Panic, OperationFails, Goto, Disturb, Steps
  <2>4. disturbed' \in [Workflows -> BOOLEAN]
    BY <2>1 DEF Panic, OperationFails, Goto, Disturb
  <2>5. UNCHANGED <<active, states, context, failure, terminal, inbox, session,
                    reader, todo, dispatched, final, caller, parent, acked, said,
                    heard, doubt, request>>
    BY DEF Panic, OperationFails, Goto, Disturb, vars, coordinator, asking, endings,
         inbound, operation, reply
  <2> QED BY <2>2, <2>3, <2>4, <2>5 DEF RInv, StateTypeOK
<1>2. ASSUME NEW q \in Workflows, q # w PROVE Same(q)
  BY <1>2 DEF RInv, StateTypeOK, Same, Live, Panic, OperationFails, Goto, Disturb,
       vars, coordinator, asking, endings, inbound, operation, reply
<1>3. Sound(w)'
  <2>1. /\ result \in [Workflows -> Results] /\ disturbed \in [Workflows -> BOOLEAN]
        /\ pc \in [Workflows -> Steps]
        /\ Sound(w)
    BY DEF RInv, StateTypeOK
  <2>2. /\ pc[w] = "applying" /\ pc'[w] = "closing" /\ disturbed'[w]
    BY <2>1 DEF Panic, OperationFails, Goto, Disturb
  <2>3. /\ result'[w].error /\ result'[w].unknown /\ result'[w].outcome = "FAILED"
        /\ result'[w].actions = result[w].actions
    BY <2>1, OperationFailsEffect DEF Panic
  <2> QED BY <2>1, <2>2, <2>3 DEF Sound, ReceiptSound, EndSound, AwaitedSound, Awaits,
       Kind, Live, Ended, Panic, coordinator, asking, endings, inbound, operation,
       reply
<1>4. TableSound'
  <2>1. UNCHANGED <<coordinator, request>>
    BY DEF Panic, vars, coordinator, asking, endings, inbound, operation, reply
  <2>2. \A q \in Workflows : pc'[q] \in Owning <=> pc[q] \in Owning
    BY DEF RInv, StateTypeOK, Owning, Steps, Panic, OperationFails, Goto, Disturb,
         vars, coordinator, asking, endings, inbound, operation, reply
  <2> QED BY <2>1, <2>2, TableStaysSound DEF RInv
<1> QED BY <1>1, <1>2, <1>3, <1>4, SameStaysSound DEF RInv

\* A frame is about to be written.
LEMMA SendKeepsRInv ==
  ASSUME RInv, NEW w \in Workflows, Send(w)
  PROVE  RInv'
<1>1. StateTypeOK'
  <2>1. /\ pc \in [Workflows -> Steps]
    BY DEF RInv, StateTypeOK
  <2>2. pc' \in [Workflows -> Steps]
    BY <2>1 DEF Send, Goto, Steps
  <2>3. UNCHANGED <<active, states, context, failure, terminal, inbox, session,
                    reader, todo, dispatched, result, final, caller, parent, acked,
                    said, heard, doubt, disturbed, request>>
    BY DEF Send, Goto, vars, coordinator, asking, endings, inbound, operation, reply
  <2> QED BY <2>2, <2>3 DEF RInv, StateTypeOK
<1>2. ASSUME NEW q \in Workflows, q # w PROVE Same(q)
  BY <1>2 DEF RInv, StateTypeOK, Same, Live, Send, Goto, vars, coordinator, asking,
       endings, inbound, operation, reply
<1>3. Sound(w)'
  BY DEF RInv, StateTypeOK, Results, Outcomes, Kind, Sound, ReceiptSound, EndSound,
       AwaitedSound, Awaits, Live, Ended, Send, Goto, vars, coordinator, asking,
       endings, inbound, operation, reply
<1>4. TableSound'
  <2>1. UNCHANGED <<coordinator, request>>
    BY DEF Send, vars, coordinator, asking, endings, inbound, operation, reply
  <2>2. \A q \in Workflows : pc'[q] \in Owning <=> pc[q] \in Owning
    BY DEF RInv, StateTypeOK, Owning, Steps, Send, Goto, vars, coordinator, asking,
         endings, inbound, operation, reply
  <2> QED BY <2>1, <2>2, TableStaysSound DEF RInv
<1> QED BY <1>1, <1>2, <1>3, <1>4, SameStaysSound DEF RInv

\* A frame was written.
LEMMA SentKeepsRInv ==
  ASSUME RInv, NEW w \in Workflows, Sent(w)
  PROVE  RInv'
<1>0. todo[w] > 0
  BY DEF RInv, Sound, ReceiptSound, Sent
<1>1. StateTypeOK'
  <2>1. /\ todo \in [Workflows -> Nat]
        /\ acked \in [Workflows -> Nat]
        /\ result \in [Workflows -> Results]
        /\ pc \in [Workflows -> Steps]
    BY DEF RInv, StateTypeOK
  <2>2. todo' \in [Workflows -> Nat]
    BY <2>1, <1>0 DEF Sent, Goto
  <2>3. acked' \in [Workflows -> Nat]
    BY <2>1 DEF Sent, Goto
  <2>4. result' \in [Workflows -> Results]
    BY <2>1 DEF Sent, Goto, Results, Outcomes
  <2>5. pc' \in [Workflows -> Steps]
    BY <2>1 DEF Sent, Goto, Steps
  <2>6. UNCHANGED <<active, states, context, failure, terminal, inbox, session,
                    reader, dispatched, final, caller, parent, said, heard, doubt,
                    disturbed, request>>
    BY DEF Sent, Goto, vars, coordinator, asking, endings, inbound, operation, reply
  <2> QED BY <2>2, <2>3, <2>4, <2>5, <2>6 DEF RInv, StateTypeOK
<1>2. ASSUME NEW q \in Workflows, q # w PROVE Same(q)
  BY <1>2 DEF RInv, StateTypeOK, Same, Live, Sent, Goto, vars, coordinator, asking,
       endings, inbound, operation, reply
<1>3. Sound(w)'
  BY DEF RInv, StateTypeOK, Results, Outcomes, Kind, Sound, ReceiptSound, EndSound,
       AwaitedSound, Awaits, Live, Ended, Sent, Goto, vars, coordinator, asking,
       endings, inbound, operation, reply
<1>4. TableSound'
  <2>1. UNCHANGED <<coordinator, request>>
    BY DEF Sent, vars, coordinator, asking, endings, inbound, operation, reply
  <2>2. \A q \in Workflows : pc'[q] \in Owning <=> pc[q] \in Owning
    BY DEF RInv, StateTypeOK, Owning, Steps, Sent, Goto, vars, coordinator, asking,
         endings, inbound, operation, reply
  <2> QED BY <2>1, <2>2, TableStaysSound DEF RInv
<1> QED BY <1>1, <1>2, <1>3, <1>4, SameStaysSound DEF RInv

\* A write fails.
LEMMA SendFailsKeepsRInv ==
  ASSUME RInv, NEW w \in Workflows, SendFails(w)
  PROVE  RInv'
<1>1. StateTypeOK'
  <2>1. /\ result \in [Workflows -> Results]
        /\ pc \in [Workflows -> Steps]
        /\ doubt \in [Workflows -> BOOLEAN]
        /\ disturbed \in [Workflows -> BOOLEAN]
    BY DEF RInv, StateTypeOK
  <2>2. result' \in [Workflows -> Results]
    BY <2>1, OperationFailsEffect DEF SendFails
  <2>3. pc' \in [Workflows -> Steps]
    BY <2>1 DEF SendFails, OperationFails, Goto, Disturb, Steps
  <2>4. doubt' \in [Workflows -> BOOLEAN]
    BY <2>1 DEF SendFails, OperationFails, Goto, Disturb
  <2>5. disturbed' \in [Workflows -> BOOLEAN]
    BY <2>1 DEF SendFails, OperationFails, Goto, Disturb
  <2>6. UNCHANGED <<active, states, context, failure, terminal, inbox, session,
                    reader, todo, dispatched, final, caller, parent, acked, said,
                    heard, request>>
    BY DEF SendFails, OperationFails, Goto, Disturb, vars, coordinator, asking,
         endings, inbound, operation, reply
  <2> QED BY <2>2, <2>3, <2>4, <2>5, <2>6 DEF RInv, StateTypeOK
<1>2. ASSUME NEW q \in Workflows, q # w PROVE Same(q)
  BY <1>2 DEF RInv, StateTypeOK, Same, Live, SendFails, OperationFails, Goto, Disturb,
       vars, coordinator, asking, endings, inbound, operation, reply
<1>3. Sound(w)'
  BY DEF RInv, StateTypeOK, Results, Outcomes, Kind, Sound, ReceiptSound, EndSound,
       AwaitedSound, Awaits, Live, Ended, SendFails, OperationFails, Goto, Disturb,
       vars, coordinator, asking, endings, inbound, operation, reply
<1>4. TableSound'
  <2>1. UNCHANGED <<coordinator, request>>
    BY DEF SendFails, vars, coordinator, asking, endings, inbound, operation, reply
  <2>2. \A q \in Workflows : pc'[q] \in Owning <=> pc[q] \in Owning
    BY DEF RInv, StateTypeOK, Owning, Steps, SendFails, OperationFails, Goto, Disturb,
         vars, coordinator, asking, endings, inbound, operation, reply
  <2> QED BY <2>1, <2>2, TableStaysSound DEF RInv
<1> QED BY <1>1, <1>2, <1>3, <1>4, SameStaysSound DEF RInv

\* The operation is through.
LEMMA ReturnKeepsRInv ==
  ASSUME RInv, NEW w \in Workflows, Return(w)
  PROVE  RInv'
<1>1. StateTypeOK'
  <2>1. /\ pc \in [Workflows -> Steps]
    BY DEF RInv, StateTypeOK
  <2>2. pc' \in [Workflows -> Steps]
    BY <2>1 DEF Return, Goto, Steps
  <2>3. UNCHANGED <<active, states, context, failure, terminal, inbox, session,
                    reader, todo, dispatched, result, final, caller, parent, acked,
                    said, heard, doubt, disturbed, request>>
    BY DEF Return, Goto, vars, coordinator, asking, endings, inbound, operation, reply
  <2> QED BY <2>2, <2>3 DEF RInv, StateTypeOK
<1>2. ASSUME NEW q \in Workflows, q # w PROVE Same(q)
  BY <1>2 DEF RInv, StateTypeOK, Same, Live, Return, Goto, vars, coordinator, asking,
       endings, inbound, operation, reply
<1>3. Sound(w)'
  BY DEF RInv, StateTypeOK, Results, Outcomes, Kind, Sound, ReceiptSound, EndSound,
       AwaitedSound, Awaits, Live, Ended, Return, Goto, vars, coordinator, asking,
       endings, inbound, operation, reply
<1>4. TableSound'
  <2>1. UNCHANGED <<coordinator, request>>
    BY DEF Return, vars, coordinator, asking, endings, inbound, operation, reply
  <2>2. \A q \in Workflows : pc'[q] \in Owning <=> pc[q] \in Owning
    BY DEF RInv, StateTypeOK, Owning, Steps, Return, Goto, vars, coordinator, asking,
         endings, inbound, operation, reply
  <2> QED BY <2>1, <2>2, TableStaysSound DEF RInv
<1> QED BY <1>1, <1>2, <1>3, <1>4, SameStaysSound DEF RInv

\* The session is closed.
LEMMA CloseKeepsRInv ==
  ASSUME RInv, NEW w \in Workflows, Close(w)
  PROVE  RInv'
<1>1. StateTypeOK'
  <2>1. /\ session \in [Workflows -> {"none", "open", "closed"}]
        /\ result \in [Workflows -> Results]
        /\ disturbed \in [Workflows -> BOOLEAN]
        /\ pc \in [Workflows -> Steps]
    BY DEF RInv, StateTypeOK
  <2>2. session' \in [Workflows -> {"none", "open", "closed"}]
    BY <2>1 DEF Close, Fail, Disturb, Goto
  <2>3. result' \in [Workflows -> Results]
    BY <2>1, FailEffect DEF Close
  <2>4. disturbed' \in [Workflows -> BOOLEAN]
    BY <2>1 DEF Close, Fail, Disturb, Goto
  <2>5. pc' \in [Workflows -> Steps]
    BY <2>1 DEF Close, Fail, Disturb, Goto, Steps
  <2>6. UNCHANGED <<active, states, context, failure, terminal, inbox, reader, todo,
                    dispatched, final, caller, parent, acked, said, heard, doubt,
                    request>>
    BY DEF Close, Fail, Disturb, Goto, vars, coordinator, asking, endings, inbound,
         operation, reply
  <2> QED BY <2>2, <2>3, <2>4, <2>5, <2>6 DEF RInv, StateTypeOK
<1>2. ASSUME NEW q \in Workflows, q # w PROVE Same(q)
  BY <1>2 DEF RInv, StateTypeOK, Same, Live, Close, Fail, Disturb, Goto, vars,
       coordinator, asking, endings, inbound, operation, reply
<1>3. Sound(w)'
  <2>1. /\ result \in [Workflows -> Results] /\ disturbed \in [Workflows -> BOOLEAN]
        /\ session \in [Workflows -> {"none", "open", "closed"}]
        /\ pc \in [Workflows -> Steps]
        /\ Sound(w)
    BY DEF RInv, StateTypeOK
  <2>2. /\ pc[w] = "closing" /\ pc'[w] = "replying" /\ session'[w] = "closed"
    BY <2>1 DEF Close, Goto
  <2>3. CASE UNCHANGED <<result, disturbed>>
    BY <2>1, <2>2, <2>3 DEF Sound, ReceiptSound, EndSound, AwaitedSound, Awaits, Kind,
         Live, Ended, Close, coordinator, asking, endings, inbound, operation, reply
  <2>4. CASE Fail(w) /\ Disturb(w)
    <3>1. /\ result'[w].error /\ result'[w].unknown = result[w].unknown
          /\ result'[w].outcome = result[w].outcome
          /\ result'[w].actions = result[w].actions
      BY <2>1, <2>4, FailEffect
    <3>2. disturbed'[w]
      BY <2>1, <2>4 DEF Disturb
    <3> QED BY <2>1, <2>2, <3>1, <3>2 DEF Sound, ReceiptSound, EndSound, AwaitedSound,
         Awaits, Kind, Live, Ended, Close, coordinator, asking, endings, inbound,
         operation, reply
  <2> QED BY <2>3, <2>4 DEF Close
<1>4. TableSound'
  <2>1. UNCHANGED <<coordinator, request>>
    BY DEF Close, vars, coordinator, asking, endings, inbound, operation, reply
  <2>2. \A q \in Workflows : pc'[q] \in Owning <=> pc[q] \in Owning
    BY DEF RInv, StateTypeOK, Owning, Steps, Close, Fail, Disturb, Goto, vars,
         coordinator, asking, endings, inbound, operation, reply
  <2> QED BY <2>1, <2>2, TableStaysSound DEF RInv
<1> QED BY <1>1, <1>2, <1>3, <1>4, SameStaysSound DEF RInv

\* A reply is chosen.
LEMMA SpeakKeepsRInv ==
  ASSUME RInv, NEW w \in Workflows, Speak(w)
  PROVE  RInv'
<1>1. StateTypeOK'
  <2>1. /\ said \in [Workflows -> {"nothing", "result", "generic"}]
        /\ pc \in [Workflows -> Steps]
    BY DEF RInv, StateTypeOK
  <2>2. said' \in [Workflows -> {"nothing", "result", "generic"}]
    BY <2>1 DEF Speak, Goto
  <2>3. pc' \in [Workflows -> Steps]
    BY <2>1 DEF Speak, Goto, Steps
  <2>4. UNCHANGED <<active, states, context, failure, terminal, inbox, session,
                    reader, todo, dispatched, result, final, caller, parent, acked,
                    heard, doubt, disturbed, request>>
    BY DEF Speak, Goto, vars, coordinator, asking, endings, inbound, operation, reply
  <2> QED BY <2>2, <2>3, <2>4 DEF RInv, StateTypeOK
<1>2. ASSUME NEW q \in Workflows, q # w PROVE Same(q)
  BY <1>2 DEF RInv, StateTypeOK, Same, Live, Speak, Goto, vars, coordinator, asking,
       endings, inbound, operation, reply
<1>3. Sound(w)'
  BY DEF RInv, StateTypeOK, Results, Outcomes, Kind, Sound, ReceiptSound, EndSound,
       AwaitedSound, Awaits, Live, Ended, Speak, Goto, vars, coordinator, asking,
       endings, inbound, operation, reply
<1>4. TableSound'
  <2>1. UNCHANGED <<coordinator, request>>
    BY DEF Speak, vars, coordinator, asking, endings, inbound, operation, reply
  <2>2. \A q \in Workflows : pc'[q] \in Owning <=> pc[q] \in Owning
    BY DEF RInv, StateTypeOK, Owning, Steps, Speak, Goto, vars, coordinator, asking,
         endings, inbound, operation, reply
  <2> QED BY <2>1, <2>2, TableStaysSound DEF RInv
<1> QED BY <1>1, <1>2, <1>3, <1>4, SameStaysSound DEF RInv

\* The reply was sent.
LEMMA DeliveredKeepsRInv ==
  ASSUME RInv, NEW w \in Workflows, Delivered(w)
  PROVE  RInv'
<1>1. StateTypeOK'
  <2>1. /\ heard \in [Workflows -> BOOLEAN]
        /\ result \in [Workflows -> Results]
        /\ pc \in [Workflows -> Steps]
    BY DEF RInv, StateTypeOK
  <2>2. heard' \in [Workflows -> BOOLEAN]
    BY <2>1 DEF Delivered, Goto
  <2>3. result' \in [Workflows -> Results]
    BY <2>1 DEF Delivered, Goto, Results, Outcomes
  <2>4. pc' \in [Workflows -> Steps]
    BY <2>1 DEF Delivered, Goto, Steps
  <2>5. UNCHANGED <<active, states, context, failure, terminal, inbox, session,
                    reader, todo, dispatched, final, caller, parent, acked, said,
                    doubt, disturbed, request>>
    BY DEF Delivered, Goto, vars, coordinator, asking, endings, inbound, operation,
         reply
  <2> QED BY <2>2, <2>3, <2>4, <2>5 DEF RInv, StateTypeOK
<1>2. ASSUME NEW q \in Workflows, q # w PROVE Same(q)
  BY <1>2 DEF RInv, StateTypeOK, Same, Live, Delivered, Goto, vars, coordinator,
       asking, endings, inbound, operation, reply
<1>3. Sound(w)'
  BY DEF RInv, StateTypeOK, Results, Outcomes, Kind, Sound, ReceiptSound, EndSound,
       AwaitedSound, Awaits, Live, Ended, Delivered, Goto, vars, coordinator, asking,
       endings, inbound, operation, reply
<1>4. TableSound'
  <2>1. UNCHANGED <<coordinator, request>>
    BY DEF Delivered, vars, coordinator, asking, endings, inbound, operation, reply
  <2>2. \A q \in Workflows : pc'[q] \in Owning <=> pc[q] \in Owning
    BY DEF RInv, StateTypeOK, Owning, Steps, Delivered, Goto, vars, coordinator,
         asking, endings, inbound, operation, reply
  <2> QED BY <2>1, <2>2, TableStaysSound DEF RInv
<1> QED BY <1>1, <1>2, <1>3, <1>4, SameStaysSound DEF RInv

\* The reply fails.
LEMMA DeliveryFailsKeepsRInv ==
  ASSUME RInv, NEW w \in Workflows, DeliveryFails(w)
  PROVE  RInv'
<1>1. StateTypeOK'
  <2>1. /\ result \in [Workflows -> Results]
        /\ doubt \in [Workflows -> BOOLEAN]
        /\ disturbed \in [Workflows -> BOOLEAN]
        /\ pc \in [Workflows -> Steps]
    BY DEF RInv, StateTypeOK
  <2>2. result' \in [Workflows -> Results]
    BY <2>1 DEF DeliveryFails, Goto, Disturb, Results, Outcomes
  <2>3. doubt' \in [Workflows -> BOOLEAN]
    BY <2>1 DEF DeliveryFails, Goto, Disturb
  <2>4. disturbed' \in [Workflows -> BOOLEAN]
    BY <2>1 DEF DeliveryFails, Goto, Disturb
  <2>5. pc' \in [Workflows -> Steps]
    BY <2>1 DEF DeliveryFails, Goto, Disturb, Steps
  <2>6. UNCHANGED <<active, states, context, failure, terminal, inbox, session,
                    reader, todo, dispatched, final, caller, parent, acked, said,
                    heard, request>>
    BY DEF DeliveryFails, Goto, Disturb, vars, coordinator, asking, endings, inbound,
         operation, reply
  <2> QED BY <2>2, <2>3, <2>4, <2>5, <2>6 DEF RInv, StateTypeOK
<1>2. ASSUME NEW q \in Workflows, q # w PROVE Same(q)
  BY <1>2 DEF RInv, StateTypeOK, Same, Live, DeliveryFails, Goto, Disturb, vars,
       coordinator, asking, endings, inbound, operation, reply
<1>3. Sound(w)'
  <2>1. /\ result \in [Workflows -> Results] /\ disturbed \in [Workflows -> BOOLEAN]
        /\ doubt \in [Workflows -> BOOLEAN]
        /\ pc \in [Workflows -> Steps]
        /\ Sound(w)
    BY DEF RInv, StateTypeOK
  <2>2. /\ pc[w] = "delivering" /\ pc'[w] = "settling" /\ disturbed'[w] /\ doubt'[w]
    BY <2>1 DEF DeliveryFails, Goto, Disturb
  <2>3. /\ result'[w].error /\ result'[w].unknown /\ result'[w].outcome = "FAILED"
        /\ result'[w].actions = result[w].actions
    BY <2>1 DEF DeliveryFails, Results
  <2> QED BY <2>1, <2>2, <2>3 DEF Sound, ReceiptSound, EndSound, AwaitedSound, Awaits,
       Kind, Live, Ended, DeliveryFails, coordinator, asking, endings, inbound,
       operation, reply
<1>4. TableSound'
  <2>1. UNCHANGED <<coordinator, request>>
    BY DEF DeliveryFails, vars, coordinator, asking, endings, inbound, operation, reply
  <2>2. \A q \in Workflows : pc'[q] \in Owning <=> pc[q] \in Owning
    BY DEF RInv, StateTypeOK, Owning, Steps, DeliveryFails, Goto, Disturb, vars,
         coordinator, asking, endings, inbound, operation, reply
  <2> QED BY <2>1, <2>2, TableStaysSound DEF RInv
<1> QED BY <1>1, <1>2, <1>3, <1>4, SameStaysSound DEF RInv

\* The outcome is settled.
LEMMA SettleKeepsRInv ==
  ASSUME RInv, NEW w \in Workflows, Settle(w)
  PROVE  RInv'
<1>0. /\ result'[w].error = (result[w].error \/ Cause(w) # "none")
      /\ result'[w].unknown = (result[w].unknown \/ (Cause(w) # "none" /\ dispatched[w]))
      /\ result'[w].outcome = IF result[w].error \/ Cause(w) # "none" THEN "FAILED"
                              ELSE result[w].outcome
      /\ result'[w].actions = result[w].actions /\ result'[w].reply = result[w].reply
      /\ result' \in [Workflows -> Results]
  <2> DEFINE failed == result[w].error \/ Cause(w) # "none"
             unknown == result[w].unknown \/ (Cause(w) # "none" /\ dispatched[w])
             settled == [result[w] EXCEPT !.error = failed,
                                          !.outcome = IF failed THEN "FAILED" ELSE @,
                                          !.unknown = unknown]
  <2>1. result \in [Workflows -> Results] /\ result[w] \in Results
    BY DEF RInv, StateTypeOK
  <2>2. failed \in BOOLEAN /\ unknown \in BOOLEAN
    BY <2>1 DEF Results
  <2>3. result' = [result EXCEPT ![w] = settled]
    BY <2>1 DEF Settle, Results
  <2>4. settled \in Results
    BY <2>1, <2>2 DEF Results, Outcomes
  <2>5. result'[w] = settled /\ result' \in [Workflows -> Results]
    BY <2>1, <2>3, <2>4
  <2>6. /\ settled.error = failed /\ settled.unknown = unknown
        /\ settled.outcome = IF failed THEN "FAILED" ELSE result[w].outcome
        /\ settled.actions = result[w].actions /\ settled.reply = result[w].reply
    BY <2>1 DEF Results
  <2> HIDE DEF settled
  <2> QED BY <2>5, <2>6
<1>1. StateTypeOK'
  <2>1. /\ terminal \in [Workflows -> BOOLEAN]
        /\ result \in [Workflows -> Results]
        /\ final \in [Workflows -> Endings \cup {"none"}]
        /\ context \in [Workflows -> {"live", "cancelled", "expired"}]
        /\ pc \in [Workflows -> Steps]
        /\ failure \in [Workflows -> {"none", "FAILED", "CANCELLED"}]
        /\ dispatched \in [Workflows -> BOOLEAN]
    BY DEF RInv, StateTypeOK
  <2>2. terminal' \in [Workflows -> BOOLEAN]
    BY <2>1 DEF Settle, Goto, Cause, End, Endings
  <2>3. result' \in [Workflows -> Results]
    BY <1>0
  <2>4. final' \in [Workflows -> Endings \cup {"none"}]
    BY <2>1 DEF Settle, Goto, Cause, End, Endings
  <2>5. context' \in [Workflows -> {"live", "cancelled", "expired"}]
    BY <2>1 DEF Settle, Goto, Cause, End, Endings
  <2>6. pc' \in [Workflows -> Steps]
    BY <2>1 DEF Settle, Goto, Cause, End, Endings, Steps
  <2>7. UNCHANGED <<active, states, failure, inbox, session, reader, todo, dispatched,
                    caller, parent, acked, said, heard, doubt, disturbed, request>>
    BY DEF Settle, Goto, Cause, End, Endings, vars, coordinator, asking, endings,
         inbound, operation, reply
  <2> QED BY <2>2, <2>3, <2>4, <2>5, <2>6, <2>7 DEF RInv, StateTypeOK
<1>2. ASSUME NEW q \in Workflows, q # w PROVE Same(q)
  BY <1>2 DEF RInv, StateTypeOK, Same, Live, Settle, Goto, Cause, End, Endings, vars,
       coordinator, asking, endings, inbound, operation, reply
<1>3. Sound(w)'
  BY DEF RInv, StateTypeOK, Results, Outcomes, Kind, Sound, ReceiptSound, EndSound,
       AwaitedSound, Awaits, Live, Ended, Settle, Goto, Cause, End, Endings, vars,
       coordinator, asking, endings, inbound, operation, reply
<1>4. TableSound'
  <2>1. UNCHANGED <<coordinator, request>>
    BY DEF Settle, vars, coordinator, asking, endings, inbound, operation, reply
  <2>2. \A q \in Workflows : pc'[q] \in Owning <=> pc[q] \in Owning
    BY DEF RInv, StateTypeOK, Owning, Steps, Settle, Goto, Cause, End, Endings, vars,
         coordinator, asking, endings, inbound, operation, reply
  <2> QED BY <2>1, <2>2, TableStaysSound DEF RInv
<1> QED BY <1>1, <1>2, <1>3, <1>4, SameStaysSound DEF RInv

\* The workflow is over.
LEMMA CompleteKeepsRInv ==
  ASSUME RInv, NEW w \in Workflows, Complete(w)
  PROVE  RInv'
<1>1. StateTypeOK'
  <2>1. /\ caller \in [Workflows -> {"idle", "submitting", "waiting", "left"}]
        /\ pc \in [Workflows -> Steps]
    BY DEF RInv, StateTypeOK
  <2>2. caller' \in [Workflows -> {"idle", "submitting", "waiting", "left"}]
    BY <2>1 DEF Complete, Goto
  <2>3. pc' \in [Workflows -> Steps]
    BY <2>1 DEF Complete, Goto, Steps
  <2>4. UNCHANGED <<active, states, context, failure, terminal, inbox, session,
                    reader, todo, dispatched, result, final, parent, acked, said,
                    heard, doubt, disturbed, request>>
    BY DEF Complete, Goto, vars, coordinator, asking, endings, inbound, operation, reply
  <2> QED BY <2>2, <2>3, <2>4 DEF RInv, StateTypeOK
<1>2. ASSUME NEW q \in Workflows, q # w PROVE Same(q)
  BY <1>2 DEF RInv, StateTypeOK, Same, Live, Complete, Goto, vars, coordinator,
       asking, endings, inbound, operation, reply
<1>3. Sound(w)'
  BY DEF RInv, StateTypeOK, Results, Outcomes, Kind, Sound, ReceiptSound, EndSound,
       AwaitedSound, Awaits, Live, Ended, Complete, Goto, vars, coordinator, asking,
       endings, inbound, operation, reply
<1>4. TableSound'
  <2>1. UNCHANGED <<coordinator, request>>
    BY DEF Complete, vars, coordinator, asking, endings, inbound, operation, reply
  <2>2. \A q \in Workflows : pc'[q] \in Owning <=> pc[q] \in Owning
    BY DEF RInv, StateTypeOK, Owning, Steps, Complete, Goto, vars, coordinator,
         asking, endings, inbound, operation, reply
  <2> QED BY <2>1, <2>2, TableStaysSound DEF RInv
<1> QED BY <1>1, <1>2, <1>3, <1>4, SameStaysSound DEF RInv

-----------------------------------------------------------------------------
(* The IDs that are kept. *)

Holds(s, i)    == \E n \in 1..Len(s) : s[n] = i
Distinct(s) == \A m, n \in 1..Len(s) : s[m] = s[n] => m = n

\* Dropping the oldest of distinct IDs takes that ID away and no other.
LEMMA TailDropsHead ==
  ASSUME NEW s \in Seq(Ids), Distinct(s), s # <<>>
  PROVE  /\ Tail(s) \in Seq(Ids) /\ Len(Tail(s)) = Len(s) - 1
         /\ Distinct(Tail(s))
         /\ \A i \in Ids : Holds(Tail(s), i) <=> Holds(s, i) /\ i # Head(s)
<1>1. /\ Len(s) \in Nat \ {0} /\ Tail(s) \in Seq(Ids) /\ Len(Tail(s)) = Len(s) - 1
      /\ \A n \in 1..Len(Tail(s)) : Tail(s)[n] = s[n + 1]
      /\ Head(s) = s[1]
  BY HeadTailProperties, EmptySeq
<1>2. Distinct(Tail(s))
  <2>1. ASSUME NEW m \in 1..Len(Tail(s)), NEW n \in 1..Len(Tail(s)), Tail(s)[m] = Tail(s)[n]
        PROVE  m = n
    <3>1. /\ m + 1 \in 1..Len(s) /\ n + 1 \in 1..Len(s) /\ s[m + 1] = s[n + 1]
          /\ m \in Int /\ n \in Int
      BY <1>1, <2>1
    <3>2. m + 1 = n + 1
      BY <3>1 DEF Distinct
    <3> QED BY <3>1, <3>2
  <2> QED BY <2>1 DEF Distinct
<1>3. ASSUME NEW i \in Ids, Holds(Tail(s), i) PROVE Holds(s, i) /\ i # Head(s)
  <2>1. PICK n \in 1..Len(Tail(s)) : Tail(s)[n] = i
    BY <1>3 DEF Holds
  <2>2. n + 1 \in 1..Len(s) /\ s[n + 1] = i /\ n + 1 # 1 /\ 1 \in 1..Len(s)
    BY <1>1, <2>1
  <2> QED BY <1>1, <2>2 DEF Holds, Distinct
<1>4. ASSUME NEW i \in Ids, Holds(s, i), i # Head(s) PROVE Holds(Tail(s), i)
  <2>1. PICK n \in 1..Len(s) : s[n] = i
    BY <1>4 DEF Holds
  <2>2. n # 1
    BY <1>1, <1>4, <2>1
  <2>3. n - 1 \in 1..Len(Tail(s)) /\ (n - 1) + 1 = n
    BY <1>1, <2>2
  <2>4. Tail(s)[n - 1] = i
    BY <1>1, <2>1, <2>3
  <2> QED BY <2>3, <2>4 DEF Holds
<1> QED BY <1>1, <1>2, <1>3, <1>4

\* What cutting one element out of a sequence leaves.
LEMMA CutOut ==
  ASSUME NEW s \in Seq(Ids), NEW p \in 1..Len(s)
  PROVE  \E t \in Seq(Ids) :
           /\ t = SubSeq(s, 1, p - 1) \o SubSeq(s, p + 1, Len(s))
           /\ Len(t) = Len(s) - 1
           /\ \A n \in 1..(Len(s) - 1) : n < p => t[n] = s[n]
           /\ \A n \in 1..(Len(s) - 1) : n >= p => t[n] = s[n + 1]
<1>0. PICK a, b : a = SubSeq(s, 1, p - 1) /\ b = SubSeq(s, p + 1, Len(s))
  OBVIOUS
<1>1. Len(s) \in Nat /\ p \in Int /\ \A n \in 1..Len(s) : s[n] \in Ids
  BY ElementOfSeq, LenProperties
<1>2. /\ a \in Seq(Ids) /\ Len(a) = p - 1
      /\ \A n \in 1..(p - 1) : a[n] = s[n]
  <2>1. \A n \in 1..(p - 1) : s[n] \in Ids
    BY <1>1
  <2>2. /\ a \in Seq(Ids)
        /\ Len(a) = IF 1 <= p - 1 THEN (p - 1) - 1 + 1 ELSE 0
        /\ \A n \in 1..((p - 1) - 1 + 1) : a[n] = s[1 + n - 1]
    BY <1>0, <1>1, <2>1, SubSeqProperties
  <2> QED BY <1>1, <2>2
<1>3. /\ b \in Seq(Ids) /\ Len(b) = Len(s) - p
      /\ \A n \in 1..(Len(s) - p) : b[n] = s[p + n]
  <2>1. \A n \in (p + 1)..Len(s) : s[n] \in Ids
    BY <1>1
  <2>2. /\ b \in Seq(Ids)
        /\ Len(b) = IF p + 1 <= Len(s) THEN Len(s) - (p + 1) + 1 ELSE 0
        /\ \A n \in 1..(Len(s) - (p + 1) + 1) : b[n] = s[(p + 1) + n - 1]
    BY <1>0, <1>1, <2>1, SubSeqProperties
  <2> QED BY <1>1, <2>2
<1>4. PICK t : t = a \o b
  OBVIOUS
<1>5. /\ t \in Seq(Ids) /\ Len(t) = Len(s) - 1
      /\ \A n \in 1..(Len(s) - 1) : n < p => t[n] = s[n]
      /\ \A n \in 1..(Len(s) - 1) : n >= p => t[n] = s[n + 1]
  <2>2. /\ t \in Seq(Ids) /\ Len(t) = Len(a) + Len(b)
        /\ \A n \in 1..(Len(a) + Len(b)) : t[n] = IF n <= Len(a) THEN a[n] ELSE b[n - Len(a)]
    BY <1>2, <1>3, <1>4, ConcatProperties
  <2>3. Len(a) = p - 1 /\ Len(b) = Len(s) - p /\ Len(t) = Len(s) - 1
    BY <1>1, <1>2, <1>3, <2>2
  <2>4. ASSUME NEW n \in 1..(Len(s) - 1), n < p PROVE t[n] = s[n]
    <3>1. n \in 1..(p - 1) /\ n <= p - 1 /\ n \in 1..(Len(a) + Len(b))
      BY <1>1, <2>3, <2>4
    <3> QED BY <1>2, <2>2, <2>3, <3>1
  <2>5. ASSUME NEW n \in 1..(Len(s) - 1), n >= p PROVE t[n] = s[n + 1]
    <3>1. n - (p - 1) \in 1..(Len(s) - p) /\ p + (n - (p - 1)) = n + 1
      BY <1>1, <2>5
    <3>2. t[n] = b[n - (p - 1)]
      BY <1>1, <2>2, <2>3, <2>5
    <3>3. b[n - (p - 1)] = s[p + (n - (p - 1))]
      BY <1>3, <3>1
    <3> QED BY <3>1, <3>2, <3>3
  <2> QED BY <2>2, <2>3, <2>4, <2>5
<1> QED BY <1>0, <1>4, <1>5

\* Cutting one of distinct IDs out takes that ID away and no other.
LEMMA CutTakesOne ==
  ASSUME NEW s \in Seq(Ids), Distinct(s), NEW p \in 1..Len(s),
         NEW t \in Seq(Ids), Len(t) = Len(s) - 1,
         \A n \in 1..(Len(s) - 1) : n < p => t[n] = s[n],
         \A n \in 1..(Len(s) - 1) : n >= p => t[n] = s[n + 1]
  PROVE  /\ Distinct(t)
         /\ \A i \in Ids : Holds(t, i) <=> Holds(s, i) /\ i # s[p]
<1>1. Len(s) \in Nat /\ p \in Int
  BY LenProperties
<1>5. Distinct(t)
  <2>1. ASSUME NEW m \in 1..Len(t), NEW n \in 1..Len(t), t[m] = t[n] PROVE m = n
    <3> DEFINE up(k) == IF k < p THEN k ELSE k + 1
    <3>1. ASSUME NEW k \in 1..Len(t) PROVE up(k) \in 1..Len(s) /\ t[k] = s[up(k)]
      BY <1>1
    <3> HIDE DEF up
    <3>2. up(m) = up(n)
      BY <2>1, <3>1 DEF Distinct
    <3> USE DEF up
    <3> QED BY <1>1, <3>2
  <2> QED BY <2>1 DEF Distinct
<1>6. ASSUME NEW i \in Ids, Holds(t, i) PROVE Holds(s, i) /\ i # s[p]
  <2>1. PICK n \in 1..Len(t) : t[n] = i
    BY <1>6 DEF Holds
  <2>2. PICK k \in 1..Len(s) : s[k] = i /\ k # p
    <3>1. CASE n < p
      BY <1>1, <2>1, <3>1
    <3>2. CASE n >= p
      <4>1. n + 1 \in 1..Len(s) /\ n + 1 # p /\ s[n + 1] = i
        BY <1>1, <2>1, <3>2
      <4> QED BY <4>1
    <3> QED BY <1>1, <3>1, <3>2
  <2> QED BY <2>2 DEF Holds, Distinct
<1>7. ASSUME NEW i \in Ids, Holds(s, i), i # s[p] PROVE Holds(t, i)
  <2>1. PICK k \in 1..Len(s) : s[k] = i /\ k # p
    BY <1>7 DEF Holds
  <2>2. CASE k < p
    <3>1. k \in 1..Len(t) /\ t[k] = i
      BY <1>1, <2>1, <2>2
    <3> QED BY <3>1 DEF Holds
  <2>3. CASE k > p
    <3>1. k - 1 \in 1..(Len(s) - 1) /\ k - 1 >= p /\ (k - 1) + 1 = k
      BY <1>1, <2>1, <2>3
    <3>2. k - 1 \in 1..Len(t) /\ t[k - 1] = i
      BY <2>1, <3>1
    <3> QED BY <3>2 DEF Holds
  <2> QED BY <1>1, <2>1, <2>2, <2>3
<1> QED BY <1>5, <1>6, <1>7

\* What retaining the ID of w makes of the IDs that are kept.
LEMMA RequeueEffect ==
  ASSUME StateTypeOK, TableSound, NEW w \in Workflows
  PROVE  /\ Requeued(w) \in Seq(Ids) /\ Requeued(w) # <<>> /\ Distinct(Requeued(w))
         /\ Len(Requeued(w)) <= Retention + 1
         /\ \A i \in Ids : Holds(Requeued(w), i) <=> Retains(i) \/ i = Id(w)
<1> DEFINE t == Without(Id(w))
           u == Requeued(w)
<1>1. /\ retained \in Seq(Ids) /\ Distinct(retained) /\ Len(retained) \in Nat
      /\ Len(retained) <= Retention /\ Retention \in Nat /\ Id(w) \in Ids
  <2>1. Id(w) \in Ids
    BY DEF StateTypeOK, Requests, Id
  <2> QED BY <2>1, BoundsAssumption, LenProperties DEF TableSound, StatesAreRetained,
       Distinct
<1>2. /\ t \in Seq(Ids) /\ Distinct(t) /\ Len(t) <= Len(retained)
      /\ \A i \in Ids : Holds(t, i) <=> Retains(i) /\ i # Id(w)
  <2>1. CASE Retains(Id(w))
    <3>1. Position(Id(w)) \in 1..Len(retained) /\ retained[Position(Id(w))] = Id(w)
      BY <2>1 DEF Retains, Position
    <3>2. t = SubSeq(retained, 1, Position(Id(w)) - 1)
              \o SubSeq(retained, Position(Id(w)) + 1, Len(retained))
      BY <2>1 DEF Without
    <3>3. /\ t \in Seq(Ids) /\ Len(t) = Len(retained) - 1 /\ Distinct(t)
          /\ \A i \in Ids : Holds(t, i) <=> Holds(retained, i) /\ i # Id(w)
      <4>1. PICK v \in Seq(Ids) :
              /\ v = SubSeq(retained, 1, Position(Id(w)) - 1)
                     \o SubSeq(retained, Position(Id(w)) + 1, Len(retained))
              /\ Len(v) = Len(retained) - 1
              /\ \A n \in 1..(Len(retained) - 1) : n < Position(Id(w)) => v[n] = retained[n]
              /\ \A n \in 1..(Len(retained) - 1) : n >= Position(Id(w)) => v[n] = retained[n + 1]
        BY <1>1, <3>1, CutOut
      <4>2. /\ Distinct(v)
            /\ \A i \in Ids : Holds(v, i) <=> Holds(retained, i) /\ i # retained[Position(Id(w))]
        BY <1>1, <3>1, <4>1, CutTakesOne
      <4> QED BY <3>1, <3>2, <4>1, <4>2
    <3> QED BY <1>1, <3>3 DEF Holds, Retains
  <2>2. CASE ~Retains(Id(w))
    BY <1>1, <2>2 DEF Without, Retains, Holds
  <2> QED BY <2>1, <2>2
<1>3. Len(t) \in Nat
  BY <1>2, LenProperties
<1>4. /\ u \in Seq(Ids) /\ u # <<>> /\ Len(u) = Len(t) + 1
      /\ \A n \in 1..Len(t) : u[n] = t[n]
      /\ u[Len(t) + 1] = Id(w)
  <2>1. u = Append(t, Id(w))
    BY DEF Requeued
  <2> HIDE DEF t, u
  <2> QED BY <1>1, <1>2, <2>1, AppendProperties
<1> HIDE DEF t, u
<1>5. Distinct(u)
  <2>1. ~Holds(t, Id(w))
    BY <1>1, <1>2
  <2>2. ASSUME NEW m \in 1..Len(u), NEW n \in 1..Len(u), u[m] = u[n] PROVE m = n
    <3>1. CASE m \in 1..Len(t) /\ n \in 1..Len(t)
      BY <1>2, <1>4, <2>2, <3>1 DEF Distinct
    <3>2. CASE m = Len(t) + 1 /\ n \in 1..Len(t)
      BY <1>4, <2>1, <2>2, <3>2 DEF Holds
    <3>3. CASE n = Len(t) + 1 /\ m \in 1..Len(t)
      BY <1>4, <2>1, <2>2, <3>3 DEF Holds
    <3> QED BY <1>3, <1>4, <3>1, <3>2, <3>3
  <2> QED BY <2>2 DEF Distinct
<1>6. ASSUME NEW i \in Ids PROVE Holds(u, i) <=> Retains(i) \/ i = Id(w)
  <2>1. Holds(u, i) <=> Holds(t, i) \/ i = Id(w)
    <3>1. ASSUME Holds(u, i) PROVE Holds(t, i) \/ i = Id(w)
      <4>1. PICK n \in 1..Len(u) : u[n] = i
        BY <3>1 DEF Holds
      <4>2. n \in 1..Len(t) \/ n = Len(t) + 1
        BY <1>3, <1>4
      <4> QED BY <1>4, <4>1, <4>2 DEF Holds
    <3>2. ASSUME Holds(t, i) PROVE Holds(u, i)
      <4>1. PICK n \in 1..Len(t) : t[n] = i
        BY <3>2 DEF Holds
      <4>2. n \in 1..Len(u)
        BY <1>3, <1>4
      <4> QED BY <1>4, <4>1, <4>2 DEF Holds
    <3>3. Len(t) + 1 \in 1..Len(u)
      BY <1>3, <1>4
    <3> QED BY <1>4, <3>1, <3>2, <3>3 DEF Holds
  <2> QED BY <1>2, <2>1
<1>7. Len(u) <= Retention + 1
  BY <1>1, <1>2, <1>3, <1>4
<1> QED BY <1>4, <1>5, <1>6, <1>7 DEF u

-----------------------------------------------------------------------------
(* The steps that change the table. *)

\* A submission takes an ID that is free, or is refused.
LEMMA SubmitKeepsRInv ==
  ASSUME RInv, NEW w \in Workflows, Submit(w)
  PROVE  RInv'
<1>1. /\ active \in [Ids -> Workflows \cup {NoWorkflow}]
      /\ states \in [Ids -> Endings \cup {"none", "PENDING", "RUNNING"}]
      /\ pc \in [Workflows -> Steps]
      /\ caller \in [Workflows -> {"idle", "submitting", "waiting", "left"}]
      /\ Id(w) \in Ids /\ w # NoWorkflow
  BY NoWorkflowAssumption DEF RInv, StateTypeOK, Requests, Id
<1>2. UNCHANGED <<retained, request, parent, context, failure, terminal, final, inbox,
                  session, reader, todo, dispatched, result, acked, doubt, said, heard,
                  disturbed>>
  BY DEF Submit, endings, inbound, operation, reply
<1>3. StateTypeOK'
  <2>1. /\ active' \in [Ids -> Workflows \cup {NoWorkflow}]
        /\ states' \in [Ids -> Endings \cup {"none", "PENDING", "RUNNING"}]
    BY <1>1 DEF Submit
  <2>2. pc' \in [Workflows -> Steps]
    BY <1>1 DEF Submit, Goto, Steps
  <2>3. caller' \in [Workflows -> {"idle", "submitting", "waiting", "left"}]
    BY <1>1 DEF Submit
  <2> QED BY <1>2, <2>1, <2>2, <2>3 DEF RInv, StateTypeOK
<1>4. ASSUME NEW q \in Workflows, q # w PROVE Same(q)
  BY <1>1, <1>2, <1>4 DEF Same, Submit, Goto
<1>5. Sound(w)'
  <2>1. pc[w] = "unused" /\ pc'[w] \in {"creating", "refused"}
        /\ (pc'[w] = "creating" => caller'[w] = "submitting")
    BY <1>1 DEF Submit, Goto
  <2>2. Sound(w)
    BY DEF RInv
  <2> QED BY <1>2, <2>1, <2>2 DEF Sound, ReceiptSound, EndSound, AwaitedSound, Awaits,
             Kind, Live, Ended
<1>6. TableSound'
  <2>1. CASE active[Id(w)] # NoWorkflow
    <3>1. UNCHANGED <<coordinator, request>>
      BY <1>2, <2>1 DEF Submit, coordinator
    <3>2. \A q \in Workflows : pc'[q] \in Owning <=> pc[q] \in Owning
      BY <1>1, <2>1 DEF Submit, Goto, Owning, Steps
    <3> QED BY <3>1, <3>2, TableStaysSound DEF RInv
  <2>2. CASE active[Id(w)] = NoWorkflow
    <3>1. /\ active' = [active EXCEPT ![Id(w)] = w]
          /\ states' = [states EXCEPT ![Id(w)] = "PENDING"]
          /\ pc' = [pc EXCEPT ![w] = "creating"] /\ pc[w] = "unused"
      BY <2>2 DEF Submit, Goto
    <3>2. /\ active'[Id(w)] = w /\ states'[Id(w)] = "PENDING" /\ pc'[w] = "creating"
          /\ \A i \in Ids : i # Id(w) => active'[i] = active[i] /\ states'[i] = states[i]
          /\ \A q \in Workflows : q # w => pc'[q] = pc[q]
      BY <1>1, <3>1
    <3>3. \A q \in Workflows : Id(q)' = Id(q) /\ Id(q) \in Ids
      BY <1>2 DEF RInv, StateTypeOK, Requests, Id
    <3>4. ASSUME NEW i \in Ids, active'[i] # NoWorkflow
          PROVE  Id(active[i])' = i /\ pc'[active'[i]] \in Owning
      <4>1. CASE i = Id(w)
        BY <3>2, <3>3, <4>1 DEF Owning, Steps
      <4>2. CASE i # Id(w)
        <5>1. /\ active[i] # NoWorkflow /\ active'[i] = active[i] /\ active[i] \in Workflows
              /\ Id(active[i]) = i /\ active[i] # w
          BY <1>1, <3>2, <3>4, <4>2 DEF RInv, TableSound
        <5> QED BY <3>2, <3>3, <5>1 DEF RInv, TableSound
      <4> QED BY <4>1, <4>2
    <3>5. ASSUME NEW q \in Workflows, pc'[q] \in Owning PROVE active'[Id(q)'] = q
      <4>1. CASE q = w
        BY <3>2, <3>3, <4>1
      <4>2. CASE q # w
        <5>1. active[Id(q)] = q /\ q # NoWorkflow
          BY <3>2, <3>5, <4>2, NoWorkflowAssumption DEF RInv, TableSound
        <5> QED BY <2>2, <3>2, <3>3, <5>1
      <4> QED BY <4>1, <4>2
    <3>6. StatesAreRetained'
      BY <1>1, <1>2, <3>2 DEF RInv, TableSound, StatesAreRetained, Retains
    <3> QED BY <1>2, <3>4, <3>5, <3>6 DEF RInv, TableSound
  <2> QED BY <2>1, <2>2
<1> QED BY <1>3, <1>4, <1>5, <1>6, SameStaysSound DEF RInv

\* A workflow that begins is still the owner of its ID.
LEMMA BeginKeepsRInv ==
  ASSUME RInv, NEW w \in Workflows, Begin(w)
  PROVE  RInv'
<1>1. /\ states \in [Ids -> Endings \cup {"none", "PENDING", "RUNNING"}]
      /\ pc \in [Workflows -> Steps]
      /\ result \in [Workflows -> Results]
      /\ Id(w) \in Ids
  BY DEF RInv, StateTypeOK, Requests, Id
<1>2. UNCHANGED <<active, retained, request, parent, caller, context, failure, terminal,
                  final, inbox, session, reader, todo, dispatched, acked, doubt, said,
                  heard, disturbed>>
  BY DEF Begin, asking, endings, inbound, reply
<1>3. StateTypeOK'
  <2>1. states' \in [Ids -> Endings \cup {"none", "PENDING", "RUNNING"}]
    BY <1>1 DEF Begin
  <2>2. pc' \in [Workflows -> Steps]
    BY <1>1 DEF Begin, Goto, Steps
  <2>3. result' \in [Workflows -> Results]
    BY <1>1, FailEffect DEF Begin
  <2> QED BY <1>2, <2>1, <2>2, <2>3 DEF RInv, StateTypeOK
<1>4. ASSUME NEW q \in Workflows, q # w PROVE Same(q)
  BY <1>1, <1>2, <1>4 DEF Same, Begin, Goto, Fail
<1>5. Sound(w)'
  <2>1. Sound(w) /\ pc[w] = "created"
    BY DEF RInv, Begin
  <2>2. CASE Live(w)
    <3>1. pc'[w] = "starting" /\ result' = result
      BY <1>1, <2>2 DEF Begin, Goto
    <3> QED BY <1>2, <2>1, <3>1 DEF Sound, ReceiptSound, EndSound, AwaitedSound, Awaits,
               Kind, Live, Ended
  <2>3. CASE ~Live(w)
    <3>1. pc'[w] = "closing" /\ Fail(w)
      BY <1>1, <2>3 DEF Begin, Goto
    <3>2. /\ result'[w].error /\ result'[w].unknown = result[w].unknown
          /\ result'[w].outcome = result[w].outcome
          /\ result'[w].actions = result[w].actions
      BY <1>1, <3>1, FailEffect
    <3> QED BY <1>2, <2>1, <2>3, <3>1, <3>2 DEF Sound, ReceiptSound, EndSound,
               AwaitedSound, Awaits, Kind, Live, Ended
  <2> QED BY <2>2, <2>3
<1>6. TableSound'
  <2>1. active[Id(w)] = w /\ w # NoWorkflow
    BY NoWorkflowAssumption DEF RInv, TableSound, Begin, Owning, Steps
  <2>2. \A q \in Workflows : pc'[q] \in Owning <=> pc[q] \in Owning
    BY <1>1 DEF Begin, Goto, Owning, Steps
  <2>3. states'[Id(w)] \in {"PENDING", "RUNNING"}
        /\ \A i \in Ids : i # Id(w) => states'[i] = states[i]
    BY <1>1, <2>1 DEF Begin, RInv, TableSound, StatesAreRetained
  <2>4. StatesAreRetained'
    BY <1>2, <2>1, <2>3 DEF RInv, TableSound, StatesAreRetained, Retains
  <2>5. \A i \in Ids : active[i] # NoWorkflow => active[i] \in Workflows
    BY DEF RInv, StateTypeOK
  <2>6. \A q \in Workflows : Id(q)' = Id(q)
    BY <1>2 DEF Id
  <2>7. \A i \in Ids : active'[i] # NoWorkflow =>
          Id(active[i])' = i /\ pc'[active'[i]] \in Owning
    BY <1>2, <2>2, <2>5, <2>6 DEF RInv, TableSound
  <2>8. \A q \in Workflows : pc'[q] \in Owning => active'[Id(q)'] = q
    BY <1>2, <2>2, <2>6 DEF RInv, TableSound
  <2> QED BY <1>2, <2>4, <2>7, <2>8 DEF RInv, TableSound
<1> QED BY <1>3, <1>4, <1>5, <1>6, SameStaysSound DEF RInv

\* The outcome is published and the ID is free; no state is lost that is still
\* kept, and the oldest goes when there is one too many.
LEMMA PublishKeepsRInv ==
  ASSUME RInv, NEW w \in Workflows, Publish(w)
  PROVE  RInv'
<1> DEFINE u == Requeued(w)
<1>1. /\ active \in [Ids -> Workflows \cup {NoWorkflow}]
      /\ states \in [Ids -> Endings \cup {"none", "PENDING", "RUNNING"}]
      /\ pc \in [Workflows -> Steps]
      /\ final \in [Workflows -> Endings \cup {"none"}]
      /\ Id(w) \in Ids /\ Retention \in Nat
  BY BoundsAssumption DEF RInv, StateTypeOK, Requests, Id
<1>2. UNCHANGED <<request, parent, caller, context, failure, terminal,
                  final, inbox, session, reader, todo, dispatched, result, acked, doubt,
                  said, heard, disturbed>>
  BY DEF Publish, asking, endings, inbound, operation, reply
<1>3. /\ pc[w] = "publishing" /\ active[Id(w)] = w /\ final[w] \in Endings
      /\ active' = [active EXCEPT ![Id(w)] = NoWorkflow]
      /\ pc' = [pc EXCEPT ![w] = "completing"]
  BY DEF RInv, TableSound, Sound, EndSound, Publish, Goto, Owning, Steps, Ended
<1>4. /\ active'[Id(w)] = NoWorkflow /\ pc'[w] = "completing"
      /\ \A i \in Ids : i # Id(w) => active'[i] = active[i]
      /\ \A q \in Workflows : q # w => pc'[q] = pc[q]
  BY <1>1, <1>3
<1>5. \A i \in Ids : states'[i] =
        IF i \in Dropped(w) /\ active'[i] = NoWorkflow THEN "none"
        ELSE IF i = Id(w) THEN final[w] ELSE states[i]
  BY DEF Publish
<1>6. /\ u \in Seq(Ids) /\ u # <<>> /\ Distinct(u) /\ Len(u) <= Retention + 1
      /\ \A i \in Ids : Holds(u, i) <=> Retains(i) \/ i = Id(w)
      /\ Len(u) \in Nat
  BY RequeueEffect, LenProperties DEF RInv
<1>7. /\ retained' \in Seq(Ids) /\ Distinct(retained') /\ Len(retained') <= Retention
      /\ \A i \in Ids : Holds(retained', i) <=> Holds(u, i) /\ i \notin Dropped(w)
  <2>1. CASE Len(u) > Retention
    <3>1. Dropped(w) = {Head(u)} /\ retained' = Tail(u)
      BY <2>1 DEF Dropped, Publish
    <3> HIDE DEF u
    <3>2. /\ Tail(u) \in Seq(Ids) /\ Len(Tail(u)) = Len(u) - 1 /\ Distinct(Tail(u))
          /\ \A i \in Ids : Holds(Tail(u), i) <=> Holds(u, i) /\ i # Head(u)
      BY <1>6, TailDropsHead
    <3> QED BY <1>1, <1>6, <3>1, <3>2
  <2>2. CASE ~(Len(u) > Retention)
    <3>1. Dropped(w) = {} /\ retained' = u
      BY <2>2 DEF Dropped, Publish
    <3> HIDE DEF u
    <3> QED BY <1>1, <1>6, <2>2, <3>1
  <2> QED BY <2>1, <2>2
<1> HIDE DEF u
<1>8. StateTypeOK'
  <2>1. active' \in [Ids -> Workflows \cup {NoWorkflow}]
    BY <1>1, <1>3
  <2>2. states' \in [Ids -> Endings \cup {"none", "PENDING", "RUNNING"}]
    <3>1. states' = [i \in Ids |-> IF i \in Dropped(w) /\ active'[i] = NoWorkflow THEN "none"
                                   ELSE IF i = Id(w) THEN final[w] ELSE states[i]]
      BY DEF Publish
    <3> QED BY <1>1, <1>3, <3>1
  <2>3. pc' \in [Workflows -> Steps]
    BY <1>1, <1>3 DEF Steps
  <2> QED BY <1>2, <2>1, <2>2, <2>3 DEF RInv, StateTypeOK
<1>9. ASSUME NEW q \in Workflows, q # w PROVE Same(q)
  BY <1>2, <1>4, <1>9 DEF Same
<1>10. Sound(w)'
  <2>1. Sound(w)
    BY DEF RInv
  <2> QED BY <1>2, <1>3, <1>4, <2>1 DEF Sound, ReceiptSound, EndSound, AwaitedSound,
             Awaits, Kind, Live, Ended
<1>11. TableSound'
  <2>1. \A q \in Workflows : Id(q)' = Id(q) /\ Id(q) \in Ids
    BY <1>2 DEF RInv, StateTypeOK, Requests, Id
  <2>2. ASSUME NEW i \in Ids, active'[i] # NoWorkflow
        PROVE  /\ Id(active[i])' = i /\ pc'[active'[i]] \in Owning
               /\ states'[i] \in {"PENDING", "RUNNING"}
    <3>1. i # Id(w) /\ active'[i] = active[i] /\ active[i] # NoWorkflow
      BY <1>4, <2>2
    <3>2. active[i] \in Workflows /\ Id(active[i]) = i /\ pc[active[i]] \in Owning
          /\ states[i] \in {"PENDING", "RUNNING"}
      BY <1>1, <3>1 DEF RInv, TableSound, StatesAreRetained
    <3>3. active[i] # w
      BY <3>1, <3>2
    <3>4. states'[i] = states[i]
      BY <1>5, <2>2, <3>1
    <3> QED BY <1>4, <2>1, <3>1, <3>2, <3>3, <3>4
  <2>3. ASSUME NEW q \in Workflows, pc'[q] \in Owning PROVE active'[Id(q)'] = q
    <3>1. q # w
      BY <1>4, <2>3 DEF Owning
    <3>2. active[Id(q)] = q
      BY <1>4, <2>3, <3>1 DEF RInv, TableSound
    <3>3. Id(q) # Id(w)
      BY <1>3, <3>1, <3>2
    <3> QED BY <1>4, <2>1, <3>2, <3>3
  <2>4. ASSUME NEW i \in Ids, active'[i] = NoWorkflow
        PROVE  states'[i] # "none" <=> Holds(retained', i)
    <3>1. CASE i \in Dropped(w)
      BY <1>5, <1>7, <2>4, <3>1
    <3>2. CASE i \notin Dropped(w) /\ i = Id(w)
      BY <1>3, <1>5, <1>6, <1>7, <3>2 DEF Endings
    <3>3. CASE i \notin Dropped(w) /\ i # Id(w)
      <4>1. active[i] = NoWorkflow /\ states'[i] = states[i]
        BY <1>4, <1>5, <2>4, <3>3
      <4>2. states[i] # "none" <=> Retains(i)
        BY <4>1 DEF RInv, TableSound, StatesAreRetained
      <4> QED BY <1>6, <1>7, <3>3, <4>1, <4>2
    <3> QED BY <3>1, <3>2, <3>3
  <2>5. \A i \in Ids : Holds(retained', i) <=> Retains(i)'
    BY DEF Holds, Retains
  <2>6. StatesAreRetained'
    BY <1>7, <2>2, <2>4, <2>5 DEF StatesAreRetained
  <2> QED BY <1>7, <2>2, <2>3, <2>6 DEF TableSound, Distinct
<1> QED BY <1>8, <1>9, <1>10, <1>11, SameStaysSound DEF RInv

-----------------------------------------------------------------------------
(* Theorems. *)

\* The invariant holds of the initial states.
LEMMA RInitially == Init => RInv
<1> SUFFICES ASSUME Init PROVE RInv
  OBVIOUS
<1>1. request \in [Workflows -> Requests]
  BY CastAssumption DEF Init
<1>2. StateTypeOK
  <2>1. result \in [Workflows -> Results]
    BY DEF Init, NoResult, Results, Outcomes
  <2> QED BY <1>1, <2>1 DEF Init, StateTypeOK, Steps
<1>3. TableSound
  <2>1. retained \in Seq(Ids) /\ Len(retained) = 0
    BY EmptySeq DEF Init
  <2>2. StatesAreRetained
    BY <2>1, BoundsAssumption DEF Init, StatesAreRetained, Retains
  <2> QED BY <2>1, <2>2 DEF Init, TableSound, Owning
<1>4. ASSUME NEW w \in Workflows PROVE Sound(w)
  BY <1>4 DEF Init, NoResult, Sound, ReceiptSound, EndSound, AwaitedSound, Live, Ended
<1> QED BY <1>2, <1>3, <1>4 DEF RInv

\* Every step keeps the invariant.
LEMMA RNextKeepsRInv == RInv /\ [Next]_vars => RInv'
<1>1. ASSUME RInv, UNCHANGED vars PROVE RInv'
  BY <1>1 DEF vars, coordinator, asking, endings, inbound, operation, reply,
     RInv, StateTypeOK, TableSound, StatesAreRetained, Retains, Id, Sound, ReceiptSound, EndSound, AwaitedSound, Awaits, Kind, Live
<1>2. ASSUME RInv, NEW w \in Workflows, Operate(w) PROVE RInv'
  BY <1>2, NoticeEndKeepsRInv, AbortKeepsRInv, PanicKeepsRInv, SendKeepsRInv,
     SentKeepsRInv, SendFailsKeepsRInv, ReturnKeepsRInv DEF Operate
<1>3. ASSUME RInv, NEW w \in Workflows, CleanUp(w) PROVE RInv'
  BY <1>3, CloseKeepsRInv, SpeakKeepsRInv, DeliveredKeepsRInv, DeliveryFailsKeepsRInv,
     SettleKeepsRInv, PublishKeepsRInv, CompleteKeepsRInv DEF CleanUp
<1>4. ASSUME RInv, NEW w \in Workflows, Run(w) PROVE RInv'
  BY <1>2, <1>3, <1>4, CreateKeepsRInv, BeginKeepsRInv, StartKeepsRInv, GiveUpKeepsRInv,
     RejectKeepsRInv, DispatchKeepsRInv DEF Run
<1>5. ASSUME RInv, NEW w \in Workflows, Outside(w) PROVE RInv'
  BY <1>5, DeliverKeepsRInv, TransportFailsKeepsRInv, CancelKeepsRInv, ExpireKeepsRInv,
     ParentEndsKeepsRInv DEF Outside
<1> QED BY <1>1, <1>4, <1>5, SubmitKeepsRInv, CallerLeavesKeepsRInv,
     ReaderStopsKeepsRInv
        DEF Next

\* The invariant of the workflows.
THEOREM RInvariant == Spec => []RInv
  BY RInitially, RNextKeepsRInv, PTL DEF Spec

\* Type correctness.
THEOREM RTypeCorrect == Spec => []RTypeOK
<1>1. RInv => RTypeOK
  BY DEF RInv, TableSound, RTypeOK
<1> QED BY <1>1, RInvariant, PTL

\* The receipt of a workflow that is over says what happened to it.
THEOREM ReceiptsAreTrue == Spec => []ReceiptIsTrue
<1>1. RInv => ReceiptIsTrue
  BY DEF RInv, Sound, ReceiptSound, EndSound, Ended, ReceiptIsTrue, Done
<1> QED BY <1>1, RInvariant, PTL

\* A failure that workflow.fail accepted becomes the outcome.
THEOREM FailuresArePublished == Spec => []AcceptedFailureIsPublished
<1>1. RInv => AcceptedFailureIsPublished
  BY DEF RInv, Sound, EndSound, Ended, AcceptedFailureIsPublished, Done
<1> QED BY <1>1, RInvariant, PTL

\* The coordinator has a state for every active workflow and for the last
\* Retention that are over.
THEOREM StatesStayRetained == Spec => []StatesAreRetained
<1>1. RInv => StatesAreRetained
  BY DEF RInv, TableSound
<1> QED BY <1>1, RInvariant, PTL

\* A command that waits for its workflow is carried out unless something else
\* goes wrong.
THEOREM AwaitedIsDone == Spec => []AwaitedWorkIsDone
<1>1. RInv => AwaitedWorkIsDone
  BY DEF RInv, Sound, AwaitedSound, Ended, AwaitedWorkIsDone, Done
<1> QED BY <1>1, RInvariant, PTL

(* Receipts, published failures, awaited work and kept states together.    *)
THEOREM SnapshotsStayTrue == Spec => []SnapshotsAreTrue
<1>1. RTypeOK /\ ReceiptIsTrue /\ AcceptedFailureIsPublished /\ AwaitedWorkIsDone
      /\ StatesAreRetained => SnapshotsAreTrue
  BY DEF SnapshotsAreTrue
<1> QED BY <1>1, RTypeCorrect, ReceiptsAreTrue, FailuresArePublished, StatesStayRetained,
           AwaitedIsDone, PTL
=============================================================================
