------------------------------ MODULE MailDelivery ------------------------------
(***************************************************************************)
(* Offline mail (internal/service/mail_notes.go, mail_delivery.go).  A     *)
(* mail names the trips that shall receive it.  Whenever somebody speaks,  *)
(* every engine that hears it delivers the pending mail of the speaker's   *)
(* trip: it claims the pair of mail and trip in the database, sends, and   *)
(* records the outcome under the identity of its attempt.                  *)
(*                                                                         *)
(* A transaction commits, rolls back, or fails at its commit with an       *)
(* outcome nobody knows (repository.WithTx).  A crash loses everything but *)
(* the tables.                                                             *)
(***************************************************************************)
EXTENDS Integers, FiniteSets, FiniteSetsExt

CONSTANTS MaxMail,        \* bound: mails ever queued
          MaxPairs,       \* bound: recipients over all mails
          Trips,          \* registered trips
          Deliveries,     \* calls of DeliverPending that may overlap
          Attempts,       \* attempt identities, random and unique
          NoTrip, NoAttempt

ASSUME MailAssumption == MaxMail \in Nat /\ MaxPairs \in Nat /\ NoTrip \notin Trips /\ NoAttempt \notin Attempts

Mails == 1..MaxMail

VARIABLES
    status, receivers,      \* table mail
    row,                    \* table mail_delivery: its state and attempt_id
    pc, trip, todo, attempt, cancelled, verdict,    \* of each delivery
    sends,          \* history: times a mail may have reached the room
    accepted,       \* history: pairs whose send was acknowledged
    explained       \* history: stuck pairs reported as uncertain or left by a crash

tables == <<status, receivers, row>>
callVars == <<pc, trip, todo, attempt, cancelled, verdict>>
history == <<sends, accepted, explained>>
mailVars == <<tables, callVars, history>>

MTypeOK ==
    /\ status \in [Mails -> {"absent", "PENDING", "DELIVERED"}]
    /\ receivers \in [Mails -> SUBSET Trips]
    /\ \A m \in Mails : status[m] = "absent" <=> receivers[m] = {}
    /\ row \in [Mails \X Trips ->
                  [state : {"none", "PENDING", "ATTEMPTING", "ACCEPTED", "UNKNOWN"},
                   attempt : Attempts \cup {NoAttempt}]]
    /\ pc \in [Deliveries -> {"idle", "claim", "claimed", "sending", "finalize", "mark"}]
    /\ trip \in [Deliveries -> Trips \cup {NoTrip}]
    /\ todo \in [Deliveries -> SUBSET Mails]
    /\ attempt \in [Deliveries -> Attempts \cup {NoAttempt}]
    /\ cancelled \in [Deliveries -> BOOLEAN]
    /\ verdict \in [Deliveries -> {"none", "PENDING", "ACCEPTED", "UNKNOWN"}]
    /\ sends \in [Mails \X Trips -> Nat]
    /\ accepted \subseteq Mails \X Trips
    /\ explained \subseteq Mails \X Trips

MInit ==
    /\ status = [m \in Mails |-> "absent"]
    /\ receivers = [m \in Mails |-> {}]
    /\ row = [p \in Mails \X Trips |-> [state |-> "none", attempt |-> NoAttempt]]
    /\ pc = [d \in Deliveries |-> "idle"]
    /\ trip = [d \in Deliveries |-> NoTrip]
    /\ todo = [d \in Deliveries |-> {}]
    /\ attempt = [d \in Deliveries |-> NoAttempt]
    /\ cancelled = [d \in Deliveries |-> FALSE]
    /\ verdict = [d \in Deliveries |-> "none"]
    /\ sends = [p \in Mails \X Trips |-> 0]
    /\ accepted = {} /\ explained = {}

-----------------------------------------------------------------------------
Addressed == {p \in Mails \X Trips : p[2] \in receivers[p[1]]}

\* QueueResolved: a recipient resolves to the trips registered for it, one
\* transaction inserts the mail.
QueueFor(m, R) ==
    /\ status[m] = "absent" /\ \A k \in Mails : k < m => status[k] # "absent"
    /\ Cardinality(Addressed) + Cardinality(R) <= MaxPairs
    /\ status' = [status EXCEPT ![m] = "PENDING"]
    /\ receivers' = [receivers EXCEPT ![m] = R]
    /\ UNCHANGED <<row, callVars, history>>
Queue(m, R) == R # {} /\ QueueFor(m, R)

\* Pending: what a trip is still owed.
PendingFor(t) ==
    {m \in Mails : /\ status[m] = "PENDING" /\ t \in receivers[m]
                   /\ row[<<m, t>>].state \in {"none", "PENDING"}}

\* A message arrives and its chain delivers; without mail the call ends at once.
Hear(d, t) ==
    /\ pc[d] = "idle" /\ PendingFor(t) # {}
    /\ pc' = [pc EXCEPT ![d] = "claim"]
    /\ trip' = [trip EXCEPT ![d] = t]
    /\ todo' = [todo EXCEPT ![d] = PendingFor(t)]
    /\ UNCHANGED <<tables, attempt, cancelled, verdict, history>>

\* The context of the call ends at any time.
Cancel(d) ==
    /\ pc[d] # "idle" /\ ~cancelled[d]
    /\ cancelled' = [cancelled EXCEPT ![d] = TRUE]
    /\ UNCHANGED <<tables, pc, trip, todo, attempt, verdict, history>>

Mail(d) == Min(todo[d])         \* in the order of the ids
Pair(d) == <<Mail(d), trip[d]>>

Stuck == {"ATTEMPTING", "UNKNOWN"}      \* states no claim leaves again

\* DeliverPending returns; ps are the pairs its error declares uncertain.
Return(d, ps) ==
    /\ pc' = [pc EXCEPT ![d] = "idle"]
    /\ trip' = [trip EXCEPT ![d] = NoTrip]
    /\ todo' = [todo EXCEPT ![d] = {}]
    /\ attempt' = [attempt EXCEPT ![d] = NoAttempt]
    /\ cancelled' = [cancelled EXCEPT ![d] = FALSE]
    /\ verdict' = [verdict EXCEPT ![d] = "none"]
    /\ explained' = explained \cup {p \in ps : row'[p].state \in Stuck}

\* On to the next mail of the list; nothing is left to say about this one.
Advance(d) ==
    IF todo[d] = {Mail(d)} THEN Return(d, {})
    ELSE /\ pc' = [pc EXCEPT ![d] = "claim"]
         /\ todo' = [todo EXCEPT ![d] = @ \ {Mail(d)}]
         /\ attempt' = [attempt EXCEPT ![d] = NoAttempt]
         /\ verdict' = [verdict EXCEPT ![d] = "none"]
         /\ UNCHANGED <<trip, cancelled, explained>>

\* How a transaction may end, and those ends under which it took place.
Ends == {"committed", "rolledBack", "unknownApplied", "unknownLost"}
Applied(end) == end \in {"committed", "unknownApplied"}

-----------------------------------------------------------------------------
\* Identities are compared within one pair only: fresh means fresh there.
Used(p) == {row[p].attempt} \cup {attempt[d] : d \in {e \in Deliveries : pc[e] # "idle" /\ Pair(e) = p}}
NewAttempt(p) == CHOOSE a \in Attempts : a \notin Used(p)

GiveUp(d) ==
    /\ pc[d] = "claim" /\ cancelled[d]
    /\ Return(d, {})
    /\ UNCHANGED <<tables, sends, accepted>>

\* claimMail: re-reads the mail and its row inside the transaction.
Claimable(m, t) == m \in PendingFor(t)

ClaimWhen(d, claimable, end) ==
    /\ pc[d] = "claim" /\ ~cancelled[d]
    /\ Attempts \ Used(Pair(d)) # {}
    /\ row' = [row EXCEPT ![Pair(d)] =
                 IF claimable /\ Applied(end)
                 THEN [state |-> "ATTEMPTING", attempt |-> NewAttempt(Pair(d))] ELSE @]
    /\ \/ /\ end = "committed" /\ claimable
          /\ pc' = [pc EXCEPT ![d] = "claimed"]
          /\ attempt' = [attempt EXCEPT ![d] = NewAttempt(Pair(d))]
          /\ UNCHANGED <<trip, todo, cancelled, verdict, explained>>
       \/ end = "committed" /\ ~claimable /\ Advance(d)
       \/ end = "rolledBack" /\ Return(d, {})
       \/ end \in {"unknownApplied", "unknownLost"} /\ Return(d, {Pair(d)})
    /\ UNCHANGED <<status, receivers, sends, accepted>>

\* Mutant: the claim trusts the list that Pending read outside of it.
ClaimListed(d, end) == ClaimWhen(d, TRUE, end)
\* Mutant: a commit of unknown outcome is an error like any other.
ClaimQuietly(d, end) ==
    \/ end # "unknownApplied" /\ ClaimWhen(d, Claimable(Mail(d), trip[d]), end)
    \/ /\ end = "unknownApplied" /\ pc[d] = "claim" /\ ~cancelled[d]
       /\ Claimable(Mail(d), trip[d]) /\ Attempts \ Used(Pair(d)) # {}
       /\ row' = [row EXCEPT ![Pair(d)] = [state |-> "ATTEMPTING", attempt |-> NewAttempt(Pair(d))]]
       /\ Return(d, {})
       /\ UNCHANGED <<status, receivers, sends, accepted>>
Claim(d, end) == ClaimWhen(d, Claimable(Mail(d), trip[d]), end)

\* The send begins unless the context ended after the claim.  The sender
\* looks at the context once more before it enters the transport.
Proceed(d) ==
    /\ pc[d] = "claimed" /\ ~cancelled[d]
    /\ pc' = [pc EXCEPT ![d] = "sending"]
    /\ UNCHANGED <<tables, trip, todo, attempt, cancelled, verdict, history>>

\* Result of the send: ErrMailSendNotStarted, success, or any other error,
\* after which the text may be in the room or not.
SendEnds(d, v, reached) ==
    /\ pc[d] = "sending"
    /\ v = "PENDING" => cancelled[d] /\ ~reached
    /\ v = "ACCEPTED" => reached
    /\ verdict' = [verdict EXCEPT ![d] = v]
    /\ sends' = [sends EXCEPT ![Pair(d)] = IF reached THEN @ + 1 ELSE @]
    /\ accepted' = IF v = "ACCEPTED" THEN accepted \cup {Pair(d)} ELSE accepted
    /\ pc' = [pc EXCEPT ![d] = "finalize"]
    /\ UNCHANGED <<tables, trip, todo, attempt, cancelled, explained>>

\* setMailAttempt: only the owner of the attempt changes the row; the last
\* recipient that accepts completes the mail in the same transaction.
Owns(d) == row[Pair(d)] = [state |-> "ATTEMPTING", attempt |-> attempt[d]]
AllAccepted(m) == \A t \in receivers[m] : row'[<<m, t>>].state = "ACCEPTED"

SetMailAttempt(d, v) ==
    /\ row' = [row EXCEPT ![Pair(d)].state = v]
    /\ status' = IF v = "ACCEPTED" /\ status[Mail(d)] = "PENDING" /\ AllAccepted(Mail(d))
                 THEN [status EXCEPT ![Mail(d)] = "DELIVERED"] ELSE status

\* Cancelled after the claim and before the send: the row is released.
Release(d, end) ==
    /\ pc[d] = "claimed" /\ cancelled[d]
    /\ IF Owns(d) /\ Applied(end) THEN SetMailAttempt(d, "PENDING") ELSE UNCHANGED <<row, status>>
    /\ Return(d, IF Owns(d) /\ end = "committed" THEN {} ELSE {Pair(d)})
    /\ UNCHANGED <<receivers, sends, accepted>>

FinalizeTo(d, v, end) ==
    /\ pc[d] = "finalize"
    /\ IF Owns(d) /\ Applied(end) THEN SetMailAttempt(d, v) ELSE UNCHANGED <<row, status>>
    /\ IF Owns(d) /\ end = "committed"
       THEN CASE v = "ACCEPTED" -> Advance(d)
              [] v = "PENDING" -> Return(d, {})
              [] v = "UNKNOWN" -> Return(d, {Pair(d)})
       ELSE /\ pc' = [pc EXCEPT ![d] = "mark"]
            /\ UNCHANGED <<trip, todo, attempt, cancelled, verdict, explained>>
    /\ UNCHANGED <<receivers, sends, accepted>>

\* Mutant: a failed send is put back for the next message of the recipient.
FinalizeRetrying(d, end) ==
    FinalizeTo(d, IF verdict[d] = "UNKNOWN" THEN "PENDING" ELSE verdict[d], end)
Finalize(d, end) == FinalizeTo(d, verdict[d], end)

\* markMailUnknown, best effort, after a failed setMailAttempt.
MarkWhen(d, mine, done) ==
    /\ pc[d] = "mark"
    /\ row' = [row EXCEPT ![Pair(d)].state = IF mine /\ done THEN "UNKNOWN" ELSE @]
    /\ Return(d, {Pair(d)})
    /\ UNCHANGED <<status, receivers, sends, accepted>>

\* Mutant: the update names the attempt but not the state.
MarkAnyState(d, done) == MarkWhen(d, row[Pair(d)].attempt = attempt[d], done)
\* Mutant: the update names the state but not the attempt.
MarkAnyAttempt(d, done) == MarkWhen(d, row[Pair(d)].state = "ATTEMPTING", done)
Mark(d, done) == MarkWhen(d, Owns(d), done)

\* The process dies; claims it held stay ATTEMPTING for an operator.
Crash ==
    /\ \E d \in Deliveries : pc[d] # "idle"
    /\ pc' = [d \in Deliveries |-> "idle"]
    /\ trip' = [d \in Deliveries |-> NoTrip]
    /\ todo' = [d \in Deliveries |-> {}]
    /\ attempt' = [d \in Deliveries |-> NoAttempt]
    /\ cancelled' = [d \in Deliveries |-> FALSE]
    /\ verdict' = [d \in Deliveries |-> "none"]
    /\ explained' = explained \cup
         {p \in {Pair(d) : d \in {e \in Deliveries : pc[e] # "idle"}} : row[p].state \in Stuck}
    /\ UNCHANGED <<tables, sends, accepted>>

DeliverPending(d) ==
    \/ \E t \in Trips : Hear(d, t)
    \/ Cancel(d) \/ GiveUp(d) \/ Proceed(d)
    \/ \E end \in Ends : Claim(d, end) \/ Release(d, end) \/ Finalize(d, end)
    \/ \E v \in {"PENDING", "ACCEPTED", "UNKNOWN"}, reached \in BOOLEAN : SendEnds(d, v, reached)
    \/ \E done \in BOOLEAN : Mark(d, done)

MNext ==
    \/ \E m \in Mails, R \in SUBSET Trips : Queue(m, R)
    \/ \E d \in Deliveries : DeliverPending(d)
    \/ Crash

MSpec == MInit /\ [][MNext]_mailVars

-----------------------------------------------------------------------------
\* Whatever the engines, the database and crashes do, a recipient is shown a
\* mail at most once (mail_delivery.go: "no retries or claim expiry").
SentAtMostOnce == \A p \in Mails \X Trips : sends[p] <= 1

\* The tables tell what happened: an accepted row was acknowledged, a row that
\* may be claimed was never sent, and a mail is DELIVERED exactly when all its
\* recipients accepted it.
RowsAreTrue ==
    /\ \A p \in Mails \X Trips :
         /\ row[p].state = "ACCEPTED" => p \in accepted
         /\ row[p].state \in {"none", "PENDING"} => sends[p] = 0
    /\ \A m \in Mails : status[m] = "DELIVERED" <=>
         receivers[m] # {} /\ \A t \in receivers[m] : row[<<m, t>>].state = "ACCEPTED"

\* A receipt is final and a claim is its owner's: no late, repeated or best
\* effort update overwrites ACCEPTED, UNKNOWN or DELIVERED, and an attempt at
\* work is settled by a step of its own delivery only (or outlives a crash).
OnlyTheOwnerWrites ==
    [][/\ \A p \in Mails \X Trips : row[p].state \in {"ACCEPTED", "UNKNOWN"} => row'[p] = row[p]
       /\ \A m \in Mails : status[m] = "DELIVERED" => status'[m] = "DELIVERED"
       /\ \A d \in Deliveries :
            pc[d] # "idle" /\ Owns(d) /\ row'[Pair(d)] # row[Pair(d)] => pc'[d] # pc[d]]_mailVars

\* Mail that nobody will deliver any more is never silent: a pair that stays
\* ATTEMPTING or UNKNOWN without a call at work was reported as uncertain, or
\* the process died while it had it.
StuckMailIsReported ==
    \A p \in Mails \X Trips :
      row[p].state \in Stuck =>
        \/ p \in explained
        \/ \E d \in Deliveries : pc[d] # "idle" /\ Pair(d) = p /\ attempt[d] = row[p].attempt

(* A mail reaches a recipient once at most, the tables agree with what was *)
(* sent, and mail nobody will deliver any more is reported.                *)
MailIsTrue ==
    [](MTypeOK /\ SentAtMostOnce /\ RowsAreTrue /\ StuckMailIsReported) /\ OnlyTheOwnerWrites
=============================================================================
