----------------------------- MODULE HostLifecycle -----------------------------
(***************************************************************************)
(* The owner of command admission and of the process-lifetime callbacks of *)
(* the host (internal/core/host_lifecycle.go).                             *)
(*                                                                         *)
(* Every command that a dispatcher executes holds a lease; a restart or a  *)
(* shutdown is accepted at any time, waits until every lease is released,  *)
(* and is executed by one worker goroutine.  The actions below are the     *)
(* critical sections of the code under h.mu plus the unlocked steps of     *)
(* the worker between them, so that the interleavings of callers, worker,  *)
(* waiter and closer are those of the code.                                *)
(*                                                                         *)
(* A refused request, a refused dispatch and a coalesced request leave     *)
(* the owner's state as it is: they are stuttering steps.                  *)
(***************************************************************************)
EXTENDS Integers, FiniteSets

CONSTANTS Callers,      \* goroutines that dispatch commands or request changes
          MaxOps,       \* bound: how many operations are ever created
          Configured    \* kinds whose callback is not nil

Kinds == {"restart", "shutdown"}

ASSUME CallersAssumption == IsFiniteSet(Callers)
ASSUME MaxOpsAssumption == MaxOps \in Nat
ASSUME ConfiguredAssumption == Configured \subseteq Kinds

Ops == 1..MaxOps
None == 0               \* the nil *LifecycleOperation

(* How an operation ended: the callback's own outcome (a panic is a        *)
(* failure), its context was cancelled before it was called, or it was     *)
(* settled without being started.                                          *)
Outcomes == {"ok", "failed", "canceled"}
Results == Outcomes \cup {"open", "superseded", "closed"}

WorkerPoints == {"select", "decide", "call", "running", "finish", "retire",
                 "settle", "clear", "stopped"}

VARIABLES
    pending, active,    \* the two operations the owner retains
    dispatches,         \* number of leases out
    terminal, closed,
    cancelled,          \* h.ctx.Err() # nil
    wake,               \* a token is in the one-slot wake channel
    issued,             \* operations created so far; operation o is the o-th
    kind, result,       \* the fields of each LifecycleOperation
    worker,             \* where the goroutine of run() stands
    outcome,            \* what the callback returned to the worker
    lease,              \* what each caller knows of its latest lease
    superseded,         \* operation a caller displaced and still has to report
    waiter,             \* the goroutine in Wait()
    closer,             \* the goroutine in Close()
    ran, reports        \* history: callbacks called, reporter calls

queue == <<pending, active>>
opVars == <<issued, kind, result>>
modeVars == <<terminal, closed, cancelled>>
leaseVars == <<dispatches, lease>>
workVars == <<worker, outcome>>
ownerVars == <<waiter, closer>>
historyVars == <<ran, reports>>
vars == <<queue, leaseVars, modeVars, wake, opVars, workVars, superseded,
          ownerVars, historyVars>>

Init ==
    /\ pending = None /\ active = None
    /\ dispatches = 0
    /\ terminal = FALSE /\ closed = FALSE /\ cancelled = FALSE
    /\ wake = FALSE
    /\ issued = 0
    /\ kind = [o \in Ops |-> "restart"]
    /\ result = [o \in Ops |-> "open"]
    /\ worker = "select" /\ outcome = "ok"
    /\ lease = [c \in Callers |-> "none"]
    /\ superseded = [c \in Callers |-> None]
    /\ waiter = "out" /\ closer = "out"
    /\ ran = [o \in Ops |-> FALSE]
    /\ reports = [o \in Ops |-> 0]

Idle == pending = None /\ active = None

(* LifecycleOperation.finish: the first result stays.                      *)
Settled(o, r) == IF result[o] = "open" THEN [result EXCEPT ![o] = r] ELSE result

(* idle.Broadcast: whoever sleeps in Wait() re-examines its condition.     *)
Broadcast == waiter' = IF waiter = "asleep" THEN "checking" ELSE waiter

-----------------------------------------------------------------------------
(* Callers *)

TakeLease(c) ==
    /\ superseded[c] = None /\ lease[c] # "held"
    /\ ~closed /\ ~cancelled /\ ~terminal
    /\ dispatches' = dispatches + 1
    /\ lease' = [lease EXCEPT ![c] = "held"]
    /\ UNCHANGED <<queue, modeVars, wake, opVars, workVars, superseded,
                   ownerVars, historyVars>>

(* Variant: admission looks at the pending operation only. *)
BeginDispatchUnlessPending(c) == pending = None /\ TakeLease(c)

BeginDispatch(c) == Idle /\ TakeLease(c)

GiveBack(c) ==
    /\ superseded[c] = None
    /\ dispatches' = dispatches - 1
    /\ lease' = [lease EXCEPT ![c] = "spent"]
    /\ UNCHANGED <<queue, modeVars, opVars, workVars, superseded, ownerVars,
                   historyVars>>

(* Variants: the release function without its sync.Once; a release that    *)
(* forgets to signal the worker.                                           *)
ReleaseRepeatedly(c) == lease[c] # "none" /\ GiveBack(c) /\ wake' = TRUE
ReleaseSilently(c) == lease[c] = "held" /\ GiveBack(c) /\ UNCHANGED wake

(* The function BeginDispatch returns; sync.Once makes a second call void. *)
Release(c) == lease[c] = "held" /\ GiveBack(c) /\ wake' = TRUE

Coalesces(k) == \E o \in {active, pending} \ {None} : kind[o] = k

Admit(c, k, displaced) ==
    /\ superseded[c] = None
    /\ ~closed /\ ~cancelled
    /\ k \in Configured
    /\ ~Coalesces(k)
    /\ ~terminal
    /\ issued < MaxOps
    /\ terminal' = (k = "shutdown")
    /\ issued' = issued + 1
    /\ kind' = [kind EXCEPT ![issued + 1] = k]
    /\ result' = IF displaced = None THEN result ELSE Settled(displaced, "superseded")
    /\ superseded' = [superseded EXCEPT ![c] = displaced]
    /\ pending' = issued + 1
    /\ wake' = TRUE
    /\ UNCHANGED <<active, leaseVars, closed, cancelled, workVars, ownerVars,
                   historyVars>>

(* Variant: a shutdown also supersedes the operation that is running. *)
RequestDisplacingActive(c, k) ==
    Admit(c, k, IF pending = None /\ k = "shutdown" THEN active ELSE pending)

(* request(): a new operation takes the pending slot; a shutdown closes    *)
(* admission for good and settles the restart it displaces.                *)
Request(c, k) == Admit(c, k, pending)

(* The displaced operation is reported by its displacer, outside the lock. *)
ReportSuperseded(c) ==
    /\ superseded[c] # None
    /\ reports' = [reports EXCEPT ![superseded[c]] = @ + 1]
    /\ superseded' = [superseded EXCEPT ![c] = None]
    /\ UNCHANGED <<queue, leaseVars, modeVars, wake, opVars, workVars,
                   ownerVars, ran>>

-----------------------------------------------------------------------------
(* The worker goroutine: run() *)

Awaken ==
    /\ worker = "select"
    /\ \/ wake /\ wake' = FALSE
       \/ cancelled /\ UNCHANGED wake
    /\ worker' = "decide"
    /\ UNCHANGED <<queue, leaseVars, modeVars, opVars, outcome, superseded,
                   ownerVars, historyVars>>

Skip ==
    /\ worker = "decide"
    /\ ~closed /\ ~cancelled
    /\ dispatches # 0 \/ pending = None
    /\ worker' = "select"
    /\ UNCHANGED <<queue, leaseVars, modeVars, wake, opVars, outcome,
                   superseded, ownerVars, historyVars>>

TakePending ==
    /\ worker = "decide"
    /\ dispatches = 0 /\ pending # None
    /\ active' = pending /\ pending' = None
    /\ worker' = "call"
    /\ UNCHANGED <<leaseVars, modeVars, wake, opVars, outcome, superseded,
                   ownerVars, historyVars>>

(* Variant: the worker starts an operation without looking at its context. *)
StartUnconditionally == TakePending

Start == ~closed /\ ~cancelled /\ TakePending

(* callHostLifecycle tests its context once before it calls the callback.  *)
Call ==
    /\ worker = "call"
    /\ IF cancelled
         THEN /\ worker' = "finish" /\ outcome' = "canceled"
              /\ UNCHANGED ran
         ELSE /\ worker' = "running"
              /\ ran' = [ran EXCEPT ![active] = TRUE]
              /\ UNCHANGED outcome
    /\ UNCHANGED <<queue, leaseVars, modeVars, wake, opVars, superseded,
                   ownerVars, reports>>

CallbackReturns ==
    /\ worker = "running"
    /\ outcome' \in Outcomes
    /\ worker' = "finish"
    /\ UNCHANGED <<queue, leaseVars, modeVars, wake, opVars, superseded,
                   ownerVars, historyVars>>

(* complete(): the result becomes visible, then it is reported.            *)
Complete ==
    /\ worker = "finish"
    /\ result' = Settled(active, outcome)
    /\ reports' = [reports EXCEPT ![active] = @ + 1]
    /\ worker' = "retire"
    /\ UNCHANGED <<queue, leaseVars, modeVars, wake, issued, kind, outcome,
                   superseded, ownerVars, ran>>

Retire ==
    /\ worker = "retire"
    /\ active' = None
    /\ Broadcast
    /\ wake' = (wake \/ pending # None)
    /\ worker' = "select"
    /\ UNCHANGED <<pending, leaseVars, modeVars, opVars, outcome, superseded,
                   closer, historyVars>>

Leave(next) ==
    /\ worker = "decide"
    /\ closed \/ cancelled
    /\ closed' = TRUE
    /\ worker' = next
    /\ UNCHANGED <<queue, leaseVars, terminal, cancelled, wake, opVars, outcome,
                   superseded, ownerVars, historyVars>>

(* Variant: closing discards the pending operation without settling it. *)
QuitDiscarding == Leave("clear")

(* The branch taken once the owner is closed or its context cancelled.     *)
Quit == Leave(IF pending = None THEN "clear" ELSE "settle")

CompletePending ==
    /\ worker = "settle"
    /\ result' = Settled(pending, "closed")
    /\ reports' = [reports EXCEPT ![pending] = @ + 1]
    /\ worker' = "clear"
    /\ UNCHANGED <<queue, leaseVars, modeVars, wake, issued, kind, outcome,
                   superseded, ownerVars, ran>>

Clear ==
    /\ worker = "clear"
    /\ pending' = None
    /\ Broadcast
    /\ cancelled' = TRUE
    /\ worker' = "stopped"
    /\ UNCHANGED <<active, leaseVars, terminal, closed, wake, opVars, outcome,
                   superseded, closer, historyVars>>

Worker == \/ Awaken \/ Skip \/ Start \/ Call \/ CallbackReturns \/ Complete
          \/ Retire \/ Quit \/ CompletePending \/ Clear

-----------------------------------------------------------------------------
(* Process owners *)

(* Wait(): the condition is examined under the lock before each sleep.     *)
WaitExamines ==
    /\ \/ waiter = "out" /\ ~Idle
       \/ waiter = "checking"
    /\ waiter' = IF Idle THEN "out" ELSE "asleep"
    /\ UNCHANGED <<queue, leaseVars, modeVars, wake, opVars, workVars,
                   superseded, closer, historyVars>>

Close ==
    /\ closer = "out"
    /\ closed' = TRUE /\ cancelled' = TRUE
    /\ wake' = TRUE
    /\ closer' = "joining"
    /\ UNCHANGED <<queue, leaseVars, terminal, opVars, workVars, superseded,
                   waiter, historyVars>>

CloseReturns ==
    /\ closer = "joining"
    /\ worker = "stopped"
    /\ closer' = "returned"
    /\ UNCHANGED <<queue, leaseVars, modeVars, wake, opVars, workVars,
                   superseded, waiter, historyVars>>

(* The context the owner was built from is cancelled (a process signal).   *)
CancelParent ==
    /\ ~cancelled
    /\ cancelled' = TRUE
    /\ UNCHANGED <<queue, leaseVars, terminal, closed, wake, opVars, workVars,
                   superseded, ownerVars, historyVars>>

Next ==
    \/ \E c \in Callers :
         \/ BeginDispatch(c) \/ Release(c) \/ ReportSuperseded(c)
         \/ \E k \in Kinds : Request(c, k)
    \/ Worker
    \/ WaitExamines \/ Close \/ CloseReturns \/ CancelParent

Spec == Init /\ [][Next]_vars

(* Go schedules every runnable goroutine; a dispatcher returns and with it *)
(* its lease (the deferred release of InvokeCommand), a callback honours   *)
(* its context and its timeouts, and a reporter only logs.                 *)
Fairness ==
    /\ WF_vars(Worker)
    /\ WF_vars(CloseReturns)
    /\ WF_vars(WaitExamines /\ waiter = "checking")
    /\ \A c \in Callers : WF_vars(Release(c)) /\ WF_vars(ReportSuperseded(c))

FairSpec == Spec /\ Fairness
-----------------------------------------------------------------------------
(* Properties *)

TypeOK ==
    /\ pending \in Ops \cup {None} /\ active \in Ops \cup {None}
    /\ dispatches \in 0..Cardinality(Callers)
    /\ terminal \in BOOLEAN /\ closed \in BOOLEAN /\ cancelled \in BOOLEAN
    /\ wake \in BOOLEAN
    /\ issued \in 0..MaxOps
    /\ kind \in [Ops -> Kinds] /\ result \in [Ops -> Results]
    /\ worker \in WorkerPoints /\ outcome \in Outcomes
    /\ lease \in [Callers -> {"none", "held", "spent"}]
    /\ superseded \in [Callers -> Ops \cup {None}]
    /\ waiter \in {"out", "asleep", "checking"}
    /\ closer \in {"out", "joining", "returned"}
    /\ ran \in [Ops -> BOOLEAN] /\ reports \in [Ops -> Nat]

(* A restart or shutdown that has been taken from the queue excludes every *)
(* command dispatch until its completion has been reported: no command     *)
(* executes on a host that is being replaced or torn down.                 *)
RetirementExcludesDispatch ==
    active # None => \A c \in Callers : lease[c] # "held"

(* No wake-up is lost: while the worker sleeps in its select although it   *)
(* could take a pending operation, a token is in the wake channel.         *)
NoLostWakeup ==
    worker = "select" /\ pending # None /\ dispatches = 0 => wake \/ cancelled

(* No waiter is left asleep in Wait() once nothing is pending or active.   *)
NoStrandedWaiter == waiter = "asleep" => ~Idle

(* An operation whose owner was told that it was superseded or refused by  *)
(* closing has not run, so a retry cannot execute it twice.                *)
RefusedNeverRan ==
    \A o \in Ops : result[o] \in {"superseded", "closed"} => ~ran[o]

(* Once a shutdown is accepted no restart is taken from the queue any      *)
(* more, not even the one that was pending when the shutdown arrived.      *)
NoRestartAfterShutdown ==
    [][terminal /\ active' # active /\ active' # None
         => kind[active'] = "shutdown"]_vars

(* Exactly one completion is reported for every settled operation: the     *)
(* worker and a superseding caller never both report it.                   *)
ReportedAtMostOnce == \A o \in Ops : reports[o] <= (IF result[o] = "open" THEN 0 ELSE 1)

(* Every accepted operation is settled and its completion is reported.     *)
AcceptedIsReported == \A o \in Ops : (o <= issued) ~> (reports[o] = 1)

(* Close() returns, whatever leases are still out.                         *)
CloseEnds == (closer = "joining") ~> (closer = "returned")

(* The owner implements its contract.                                      *)
Stage(o) ==
    IF o > issued THEN "new"
    ELSE IF result[o] \in {"superseded", "closed"} THEN "dropped"
    ELSE IF result[o] # "open" THEN "settled"
    ELSE IF o = active THEN "running"
    ELSE "queued"

Contract == INSTANCE LifecycleContract WITH
    Dispatchers <- Callers,
    leases <- {c \in Callers : lease[c] = "held"},
    stage <- [o \in Ops |-> Stage(o)],
    kinds <- kind,
    mode <- IF closed \/ cancelled THEN "closed"
            ELSE IF terminal THEN "terminal" ELSE "open"

ImplementsContract == Contract!CSpec
-----------------------------------------------------------------------------
(* The inductive invariant behind these properties *)

Held == {c \in Callers : lease[c] = "held"}

LeasesCounted == dispatches = Cardinality(Held)

(* The worker's position tells which operation it holds.                   *)
WorkerPosition ==
    /\ worker \in {"call", "running", "finish", "retire"} <=> active # None
    /\ worker = "settle" => pending # None
    /\ worker \in {"settle", "clear", "stopped"} => closed
    /\ worker = "stopped" => pending = None
    /\ closed => cancelled

(* Operations are created in order and retained in one place at a time.    *)
Custody ==
    /\ pending <= issued /\ active <= issued
    /\ active # None => pending # active
    /\ \A o \in Ops : o > issued => result[o] = "open" /\ ~ran[o]
    /\ \A o \in Ops : o <= issued /\ result[o] = "open" => o = pending \/ o = active
    /\ \A c \in Callers : superseded[c] # None =>
         /\ superseded[c] <= issued
         /\ superseded[c] # pending /\ superseded[c] # active
         /\ result[superseded[c]] = "superseded"
         /\ reports[superseded[c]] = 0
         /\ \A d \in Callers : superseded[d] = superseded[c] => d = c

PendingState == pending # None =>
    /\ ~ran[pending]
    /\ result[pending] = IF worker = "clear" THEN "closed" ELSE "open"

ActiveState == active # None =>
    /\ worker = "call" => ~ran[active]
    /\ IF worker = "retire" THEN result[active] \in Outcomes
       ELSE result[active] = "open"

(* Admission and the shutdown latch agree.                                 *)
ShutdownLatched == \A o \in {pending, active} \ {None} :
    /\ kind[o] = "shutdown" => terminal
    /\ o = pending /\ terminal => kind[o] = "shutdown"

IInv ==
    /\ TypeOK
    /\ LeasesCounted
    /\ RetirementExcludesDispatch
    /\ WorkerPosition
    /\ Custody
    /\ PendingState
    /\ ActiveState
    /\ ShutdownLatched
    /\ RefusedNeverRan
    /\ ReportedAtMostOnce
    /\ NoLostWakeup
    /\ NoStrandedWaiter

(* A restart or shutdown excludes commands, wakes whoever must take it,    *)
(* and is reported at most once.                                           *)
OperationsAreSafe ==
    TypeOK /\ RetirementExcludesDispatch /\ NoLostWakeup /\ ReportedAtMostOnce
=============================================================================
