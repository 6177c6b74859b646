----------------------------- MODULE HostProofs ------------------------------
(***************************************************************************)
(* Proofs about the host, for any number of callers, operations and hosts. *)
(* The lifecycle owner keeps dispatches and lifetime operations apart,     *)
(* loses no wake-up and reports every operation once.  The supervisor      *)
(* never has two hosts, loses none and leaves none behind, whoever calls   *)
(* it; in the process around it the teardown is alone.                     *)
(***************************************************************************)
EXTENDS HostLifecycle, HostProcess, FiniteSetTheorems, TLAPS

(* The lifecycle owner *)

(* A typed set of holders is a finite set no larger than the callers.      *)
LEMMA HeldIsFinite ==
    /\ IsFiniteSet(Held)
    /\ Cardinality(Held) \in 0..Cardinality(Callers)
    /\ Held = {} <=> Cardinality(Held) = 0
  <1>1. Held \subseteq Callers
    BY DEF Held
  <1>2. IsFiniteSet(Held) /\ Cardinality(Held) <= Cardinality(Callers)
    BY <1>1, CallersAssumption, FS_Subset
  <1>3. Cardinality(Held) \in Nat /\ Cardinality(Callers) \in Nat
    BY <1>2, CallersAssumption, FS_CardinalityType
  <1> QED
    BY <1>2, <1>3, FS_EmptySet

(* The owner's counter follows the set of leases through every step.       *)
LEMMA LeasesStayCounted ==
    ASSUME TypeOK, LeasesCounted, [Next]_vars
    PROVE  LeasesCounted' /\ dispatches' \in 0..Cardinality(Callers)
  <1>1. LeasesCounted'
    <2> USE DEF leaseVars, TakeLease, GiveBack, Admit, TakePending, Leave
    <2>1. ASSUME NEW c \in Callers, BeginDispatch(c)
          PROVE  LeasesCounted'
      <3>1. c \notin Held /\ Held' = Held \cup {c}
        BY <2>1 DEF BeginDispatch, TakeLease, Held, TypeOK
      <3>2. Cardinality(Held') = Cardinality(Held) + 1
        BY <3>1, HeldIsFinite, FS_AddElement
      <3> QED
        BY <2>1, <3>2 DEF BeginDispatch, TakeLease, LeasesCounted
    <2>2. ASSUME NEW c \in Callers, Release(c)
          PROVE  LeasesCounted'
      <3>1. c \in Held /\ Held' = Held \ {c}
        BY <2>2 DEF Release, GiveBack, Held, TypeOK
      <3>2. Cardinality(Held') = Cardinality(Held) - 1
        BY <3>1, HeldIsFinite, FS_RemoveElement
      <3> QED
        BY <2>2, <3>2 DEF Release, GiveBack, LeasesCounted
    <2>3. CASE UNCHANGED <<dispatches, lease>>
      BY <2>3 DEF LeasesCounted, Held
    <2>4. CASE UNCHANGED vars
      BY <2>3, <2>4 DEF vars
    <2>5. ASSUME NEW c \in Callers,
                 ReportSuperseded(c) \/ \E k \in Kinds : Request(c, k)
          PROVE  LeasesCounted'
      BY <2>5, <2>3 DEF ReportSuperseded, Request
    <2>6. CASE Worker
      BY <2>6, <2>3 DEF Worker, Awaken, Skip, Start, Call, CallbackReturns,
         Complete, Retire,
         Quit, CompletePending, Clear
    <2>7. CASE WaitExamines \/ Close \/ CloseReturns \/ CancelParent
      BY <2>7, <2>3 DEF WaitExamines, Close, CloseReturns, CancelParent
    <2> QED
      BY <2>1, <2>2, <2>4, <2>5, <2>6, <2>7 DEF Next
  <1>2. Held' \subseteq Callers
    BY DEF Held
  <1>3. IsFiniteSet(Held') /\ Cardinality(Held') <= Cardinality(Callers)
    BY <1>2, CallersAssumption, FS_Subset
  <1>4. Cardinality(Held') \in Nat /\ Cardinality(Callers) \in Nat
    BY <1>3, CallersAssumption, FS_CardinalityType
  <1> QED
    BY <1>1, <1>3, <1>4 DEF LeasesCounted

(* A new owner, as NewHostLifecycleWithContext builds it, is safe. *)
LEMMA InitIsSafe == Init => IInv
  <1> SUFFICES ASSUME Init PROVE IInv
    OBVIOUS
  <1> USE MaxOpsAssumption DEF Init, Ops, None
  <1>1. Held = {} /\ LeasesCounted
    BY FS_EmptySet DEF Held, LeasesCounted
  <1>2. TypeOK
    <2>1. dispatches \in 0..Cardinality(Callers)
      BY <1>1, HeldIsFinite DEF LeasesCounted
    <2>2. /\ issued \in 0..MaxOps
          /\ kind \in [Ops -> Kinds] /\ result \in [Ops -> Results]
          /\ ran \in [Ops -> BOOLEAN] /\ reports \in [Ops -> Nat]
      BY DEF Kinds, Results
    <2>3. /\ lease \in [Callers -> {"none", "held", "spent"}]
          /\ superseded \in [Callers -> Ops \cup {None}]
      OBVIOUS
    <2> QED
      BY <2>1, <2>2, <2>3 DEF TypeOK, Outcomes, WorkerPoints
  <1>3. Custody
    BY DEF Custody
  <1> QED
    BY <1>1, <1>2, <1>3 DEF IInv, RetirementExcludesDispatch, WorkerPosition,
       PendingState, ActiveState, ShutdownLatched, RefusedNeverRan,
       ReportedAtMostOnce, NoLostWakeup, NoStrandedWaiter

(* Every critical section of the owner keeps the inductive invariant. *)
LEMMA StepIsSafe == IInv /\ [Next]_vars => IInv'
  <1> SUFFICES ASSUME IInv, [Next]_vars PROVE IInv'
    OBVIOUS
  <1> USE MaxOpsAssumption DEF Ops, None, Kinds, Outcomes, Results, WorkerPoints, Idle,
      queue, leaseVars, modeVars, opVars, workVars, ownerVars, historyVars,
      Settled, Broadcast, TakeLease, GiveBack, Admit, TakePending, Leave,
      IInv, TypeOK, RetirementExcludesDispatch, WorkerPosition, Custody,
      PendingState, ActiveState, ShutdownLatched, RefusedNeverRan,
      ReportedAtMostOnce, NoLostWakeup, NoStrandedWaiter
  <1>0. LeasesCounted' /\ dispatches' \in 0..Cardinality(Callers)
    BY LeasesStayCounted DEF IInv
  <1>1. ASSUME NEW c \in Callers, BeginDispatch(c)
        PROVE  IInv'
    BY <1>0, <1>1 DEF BeginDispatch
  <1>2. ASSUME NEW c \in Callers, Release(c)
        PROVE  IInv'
    BY <1>0, <1>2 DEF Release
  <1>3. ASSUME NEW c \in Callers, ReportSuperseded(c)
        PROVE  IInv'
    BY <1>0, <1>3 DEF ReportSuperseded
  <1>4. ASSUME NEW c \in Callers, NEW k \in Kinds, Request(c, k)
        PROVE  IInv'
    <2>1. TypeOK'
      BY <1>0, <1>4 DEF Request, Coalesces
    <2>2. RetirementExcludesDispatch'
      BY <1>0, <1>4 DEF Request, Coalesces
    <2>3. WorkerPosition'
      BY <1>0, <1>4 DEF Request, Coalesces
    <2>4. Custody'
      BY <1>0, <1>4 DEF Request, Coalesces
    <2>5. PendingState'
      BY <1>0, <1>4 DEF Request, Coalesces
    <2>6. ActiveState'
      BY <1>0, <1>4 DEF Request, Coalesces
    <2>7. ShutdownLatched'
      <3>1. pending' # active' /\ active' = active /\ kind'[pending'] = k
        BY <1>4 DEF Request
      <3>2. active # None => kind'[active] = kind[active] /\ kind[active] # "shutdown"
        BY <1>4 DEF Request
      <3>3. terminal' <=> k = "shutdown"
        BY <1>4 DEF Request
      <3> QED
        BY <3>1, <3>2, <3>3
    <2>8. RefusedNeverRan'
      BY <1>0, <1>4 DEF Request, Coalesces
    <2>9. ReportedAtMostOnce'
      BY <1>0, <1>4 DEF Request, Coalesces
    <2>10. NoLostWakeup'
      BY <1>0, <1>4 DEF Request, Coalesces
    <2>11. NoStrandedWaiter'
      BY <1>0, <1>4 DEF Request, Coalesces
    <2> QED
      BY <1>0, <2>1, <2>2, <2>3, <2>4, <2>5, <2>6, <2>7, <2>8, <2>9, <2>10, <2>11
  <1>5. ASSUME Awaken
        PROVE  IInv'
    <2>1. TypeOK'
      BY <1>0, <1>5 DEF Awaken
    <2>2. RetirementExcludesDispatch'
      BY <1>0, <1>5 DEF Awaken
    <2>3. WorkerPosition'
      BY <1>0, <1>5 DEF Awaken
    <2>4. Custody'
      BY <1>0, <1>5 DEF Awaken
    <2>5. PendingState'
      BY <1>0, <1>5 DEF Awaken
    <2>6. ActiveState'
      BY <1>0, <1>5 DEF Awaken
    <2>7. ShutdownLatched'
      BY <1>0, <1>5 DEF Awaken
    <2>8. RefusedNeverRan'
      BY <1>0, <1>5 DEF Awaken
    <2>9. ReportedAtMostOnce'
      BY <1>0, <1>5 DEF Awaken
    <2>10. NoLostWakeup'
      BY <1>0, <1>5 DEF Awaken
    <2>11. NoStrandedWaiter'
      BY <1>0, <1>5 DEF Awaken
    <2> QED
      BY <1>0, <2>1, <2>2, <2>3, <2>4, <2>5, <2>6, <2>7, <2>8, <2>9, <2>10, <2>11
  <1>6. ASSUME Skip
        PROVE  IInv'
    BY <1>0, <1>6 DEF Skip
  <1>7. ASSUME Start
        PROVE  IInv'
    <2>1. TypeOK'
      BY <1>0, <1>7 DEF Start
    <2>2. RetirementExcludesDispatch'
      BY <1>7, HeldIsFinite DEF Start, LeasesCounted, Held
    <2>3. WorkerPosition'
      BY <1>0, <1>7 DEF Start
    <2>4. Custody'
      BY <1>0, <1>7 DEF Start
    <2>5. PendingState'
      BY <1>0, <1>7 DEF Start
    <2>6. ActiveState'
      BY <1>0, <1>7 DEF Start
    <2>7. ShutdownLatched'
      BY <1>0, <1>7 DEF Start
    <2>8. RefusedNeverRan'
      BY <1>0, <1>7 DEF Start
    <2>9. ReportedAtMostOnce'
      BY <1>0, <1>7 DEF Start
    <2>10. NoLostWakeup'
      BY <1>0, <1>7 DEF Start
    <2>11. NoStrandedWaiter'
      BY <1>0, <1>7 DEF Start
    <2> QED
      BY <1>0, <2>1, <2>2, <2>3, <2>4, <2>5, <2>6, <2>7, <2>8, <2>9, <2>10, <2>11
  <1>8. ASSUME Call
        PROVE  IInv'
    <2>1. TypeOK'
      <3>1. CASE cancelled
        BY <1>0, <1>8, <3>1 DEF Call
      <3>2. CASE ~cancelled
        <4>1. ran' = [ran EXCEPT ![active] = TRUE]
          BY <1>8, <3>2 DEF Call
        <4>2. ran \in [Ops -> BOOLEAN]
          OBVIOUS
        <4>3. ran' \in [Ops -> BOOLEAN]
          BY ONLY <4>1, <4>2, Zenon
        <4> QED
          BY <1>0, <1>8, <3>2, <4>3 DEF Call
      <3> QED
        BY <3>1, <3>2
    <2>2. RetirementExcludesDispatch'
      BY <1>0, <1>8 DEF Call
    <2>3. WorkerPosition'
      BY <1>0, <1>8 DEF Call
    <2>4. Custody'
      BY <1>0, <1>8 DEF Call
    <2>5. PendingState'
      BY <1>0, <1>8 DEF Call
    <2>6. ActiveState'
      BY <1>0, <1>8 DEF Call
    <2>7. ShutdownLatched'
      BY <1>0, <1>8 DEF Call
    <2>8. RefusedNeverRan'
      BY <1>0, <1>8 DEF Call
    <2>9. ReportedAtMostOnce'
      BY <1>0, <1>8 DEF Call
    <2>10. NoLostWakeup'
      BY <1>0, <1>8 DEF Call
    <2>11. NoStrandedWaiter'
      BY <1>0, <1>8 DEF Call
    <2> QED
      BY <1>0, <2>1, <2>2, <2>3, <2>4, <2>5, <2>6, <2>7, <2>8, <2>9, <2>10, <2>11
  <1>9. ASSUME CallbackReturns
        PROVE  IInv'
    BY <1>0, <1>9 DEF CallbackReturns
  <1>10. ASSUME Complete
        PROVE  IInv'
    BY <1>0, <1>10 DEF Complete
  <1>11. ASSUME Retire
        PROVE  IInv'
    <2>1. TypeOK'
      BY <1>0, <1>11 DEF Retire
    <2>2. RetirementExcludesDispatch'
      BY <1>0, <1>11 DEF Retire
    <2>3. WorkerPosition'
      BY <1>0, <1>11 DEF Retire
    <2>4. Custody'
      BY <1>0, <1>11 DEF Retire
    <2>5. PendingState'
      BY <1>0, <1>11 DEF Retire
    <2>6. ActiveState'
      BY <1>0, <1>11 DEF Retire
    <2>7. ShutdownLatched'
      BY <1>0, <1>11 DEF Retire
    <2>8. RefusedNeverRan'
      BY <1>0, <1>11 DEF Retire
    <2>9. ReportedAtMostOnce'
      BY <1>0, <1>11 DEF Retire
    <2>10. NoLostWakeup'
      BY <1>0, <1>11 DEF Retire
    <2>11. NoStrandedWaiter'
      BY <1>0, <1>11 DEF Retire
    <2> QED
      BY <1>0, <2>1, <2>2, <2>3, <2>4, <2>5, <2>6, <2>7, <2>8, <2>9, <2>10, <2>11
  <1>12. ASSUME Quit
        PROVE  IInv'
    BY <1>0, <1>12 DEF Quit
  <1>13. ASSUME CompletePending
        PROVE  IInv'
    BY <1>0, <1>13 DEF CompletePending
  <1>14. ASSUME Clear
        PROVE  IInv'
    BY <1>0, <1>14 DEF Clear
  <1>15. ASSUME WaitExamines
        PROVE  IInv'
    BY <1>0, <1>15 DEF WaitExamines
  <1>16. ASSUME Close
        PROVE  IInv'
    BY <1>0, <1>16 DEF Close
  <1>17. ASSUME CloseReturns
        PROVE  IInv'
    BY <1>0, <1>17 DEF CloseReturns
  <1>18. ASSUME CancelParent
        PROVE  IInv'
    BY <1>0, <1>18 DEF CancelParent
  <1>19. CASE UNCHANGED vars
    BY <1>0, <1>19 DEF vars
  <1> HIDE DEF IInv
  <1> QED
    BY <1>1, <1>2, <1>3, <1>4, <1>5, <1>6, <1>7, <1>8, <1>9, <1>10, <1>11, <1>12, <1>13, <1>14, <1>15, <1>16, <1>17, <1>18, <1>19
    DEF Next, Worker

(* The inductive invariant holds in every reachable state. *)
THEOREM Safety == Spec => []IInv
  BY InitIsSafe, StepIsSafe, PTL DEF Spec

(* Every reachable state is well typed, and the counter of dispatches is   *)
(* never negative nor above the number of callers.                         *)
THEOREM TypeCorrectness == Spec => []TypeOK
  <1>1. IInv => TypeOK
    BY DEF IInv
  <1> QED
    BY <1>1, Safety, PTL

(* No command executes while a restart or shutdown is being carried out.   *)
THEOREM DispatchExclusion == Spec => []RetirementExcludesDispatch
  <1>1. IInv => RetirementExcludesDispatch
    BY DEF IInv
  <1> QED
    BY <1>1, Safety, PTL

(* The worker never sleeps on an operation it could take.                  *)
THEOREM WakeupsAreKept == Spec => []NoLostWakeup
  <1>1. IInv => NoLostWakeup
    BY DEF IInv
  <1> QED
    BY <1>1, Safety, PTL

(* Wait() never sleeps on an idle owner.                                   *)
THEOREM WaitersAreWoken == Spec => []NoStrandedWaiter
  <1>1. IInv => NoStrandedWaiter
    BY DEF IInv
  <1> QED
    BY <1>1, Safety, PTL

(* A completion is reported once at most, and only after it is settled.    *)
THEOREM SingleReport == Spec => []ReportedAtMostOnce
  <1>1. IInv => ReportedAtMostOnce
    BY DEF IInv
  <1> QED
    BY <1>1, Safety, PTL

(* An operation that was superseded or closed had no effect.               *)
THEOREM RefusalIsHarmless == Spec => []RefusedNeverRan
  <1>1. IInv => RefusedNeverRan
    BY DEF IInv
  <1> QED
    BY <1>1, Safety, PTL

(* After an accepted shutdown the only operation the worker still takes    *)
(* from the queue is that shutdown.                                        *)
THEOREM ShutdownIsLast == Spec => NoRestartAfterShutdown
  <1>1. IInv /\ [Next]_vars
        => [terminal /\ active' # active /\ active' # None
            => kind[active'] = "shutdown"]_vars
    <2> SUFFICES ASSUME IInv, Next, terminal, active' # active, active' # None
                 PROVE  kind[active'] = "shutdown"
      OBVIOUS
    <2>1. Start
      BY DEF queue, TakeLease, GiveBack, Admit, Leave, Next, Worker, BeginDispatch, Release, ReportSuperseded, Request,
         Awaken, Skip, Call, CallbackReturns, Complete, Retire, Quit,
         CompletePending, Clear, WaitExamines, Close, CloseReturns,
         CancelParent
    <2> QED
      BY <2>1 DEF Start, TakePending, IInv, ShutdownLatched
  <1> QED
    BY <1>1, Safety, PTL DEF Spec, NoRestartAfterShutdown

-----------------------------------------------------------------------------
(* The owner implements its contract *)

CLeases == {c \in Callers : lease[c] = "held"}
CStage == [o \in Ops |-> Stage(o)]
CMode == IF closed \/ cancelled THEN "closed"
         ELSE IF terminal THEN "terminal" ELSE "open"

(* A new owner maps to the initial state of the contract. *)
LEMMA InitRefines == Init => Contract!CInit
  BY MaxOpsAssumption
     DEF Init, Contract!CInit, Ops, None, Kinds, Stage

(* Every critical section maps to a step of the contract or a stutter. *)
LEMMA StepRefines ==
    ASSUME IInv, IInv', [Next]_vars
    PROVE  [Contract!CNext]_(Contract!cvars)
  <1> USE MaxOpsAssumption DEF Ops, None, Kinds, Outcomes, Results, WorkerPoints, Idle,
      queue, leaseVars, modeVars, opVars, workVars, ownerVars, historyVars,
      Settled, Broadcast, TakeLease, GiveBack, Admit, TakePending, Leave,
      CLeases, CStage, CMode, Contract!cvars
  <1>t. TypeOK /\ TypeOK'
    BY DEF IInv
  <1>1. ASSUME NEW c \in Callers, BeginDispatch(c)
        PROVE  Contract!Grant(c)
    <2>1. CLeases' = CLeases \cup {c} /\ CStage' = CStage /\ CMode' = CMode /\ CMode = "open"
      BY <1>t, <1>1 DEF BeginDispatch, TypeOK, Stage
    <2>2. ~Contract!Busy
      BY <1>t, <1>1 DEF BeginDispatch, TypeOK, IInv, Custody, Stage, Contract!Busy
    <2> QED
      BY <1>1, <2>1, <2>2 DEF BeginDispatch, Contract!Grant
  <1>2. ASSUME NEW c \in Callers, Release(c)
        PROVE  Contract!Return(c)
    BY <1>t, <1>2 DEF Release, TypeOK, Stage, Contract!Return
  <1>3. ASSUME NEW c \in Callers, NEW k \in Kinds, Request(c, k)
        PROVE  Contract!Queue(issued + 1, k) /\ issued + 1 \in Ops
    <2>1. issued + 1 \in Ops /\ CMode = "open" /\ Stage(issued + 1) = "new"
      BY <1>t, <1>3 DEF Request, TypeOK, Stage
    <2>2. k = "restart" => \A p \in Ops : Stage(p) # "queued"
      BY <1>t, <1>3 DEF Request, Coalesces, TypeOK, Stage, IInv, Custody, ShutdownLatched
    <2>3. \A p \in Ops : Stage(p)' = IF p = issued + 1 THEN "queued"
                                     ELSE IF Stage(p) = "queued" THEN "dropped"
                                     ELSE Stage(p)
      BY <1>t, <1>3 DEF Request, TypeOK, Stage, IInv, Custody, PendingState, WorkerPosition
    <2>4. CMode' = IF k = "shutdown" THEN "terminal" ELSE CMode
      BY <1>t, <1>3 DEF Request, TypeOK
    <2> QED
      BY <1>3, <2>1, <2>2, <2>3, <2>4 DEF Request, Contract!Queue
  <1>4. ASSUME Start
        PROVE  Contract!Run(pending) /\ pending \in Ops
    <2>1. CLeases = {}
      BY <1>4, HeldIsFinite DEF Start, IInv, LeasesCounted, Held
    <2>2. pending \in Ops /\ CMode # "closed" /\ CMode' = CMode
      BY <1>t, <1>4 DEF Start, TypeOK
    <2>3. Stage(pending) = "queued" /\ \A p \in Ops : Stage(p) # "running"
      BY <1>t, <1>4 DEF Start, TypeOK, Stage, IInv, Custody, PendingState, WorkerPosition
    <2>4. \A p \in Ops : Stage(p)' = IF p = pending THEN "running" ELSE Stage(p)
      BY <1>t, <1>4, <2>3 DEF Start, TypeOK, Stage, IInv, Custody, PendingState, WorkerPosition
    <2> QED
      BY <1>4, <2>1, <2>2, <2>3, <2>4 DEF Start, Contract!Run
  <1>5. ASSUME Complete
        PROVE  Contract!Settle(active) /\ active \in Ops
    <2>1. active \in Ops /\ Stage(active) = "running"
      BY <1>t, <1>5 DEF Complete, TypeOK, Stage, IInv, WorkerPosition, ActiveState, Custody
    <2>2. \A p \in Ops : Stage(p)' = IF p = active THEN "settled" ELSE Stage(p)
      BY <1>t, <1>5, <2>1 DEF Complete, TypeOK, Stage, IInv, ActiveState, Custody
    <2> QED
      BY <1>5, <2>1, <2>2 DEF Complete, Contract!Settle
  <1>6. ASSUME CompletePending
        PROVE  Contract!Drop(pending) /\ pending \in Ops
    <2>1. pending \in Ops /\ Stage(pending) = "queued" /\ CMode = "closed"
      BY <1>t, <1>6 DEF CompletePending, TypeOK, Stage, IInv, WorkerPosition, PendingState, Custody
    <2>2. \A p \in Ops : Stage(p)' = IF p = pending THEN "dropped" ELSE Stage(p)
      BY <1>t, <1>6, <2>1 DEF CompletePending, TypeOK, Stage, IInv, PendingState, Custody
    <2> QED
      BY <1>6, <2>1, <2>2 DEF CompletePending, Contract!Drop
  <1>7. ASSUME Quit \/ Clear \/ Close \/ CancelParent
        PROVE  Contract!CloseMode
    <2>1. CMode' = "closed" /\ UNCHANGED <<lease, kind>>
      BY <1>7 DEF Quit, Clear, Close, CancelParent
    <2>2. \A p \in Ops : Stage(p)' = Stage(p)
      BY <1>t, <1>7 DEF Quit, Clear, Close, CancelParent, Stage, TypeOK
    <2> QED
      BY <2>1, <2>2 DEF Contract!CloseMode
  <1>8. ASSUME Retire
        PROVE  UNCHANGED Contract!cvars
    <2>1. \A p \in Ops : Stage(p)' = Stage(p)
      BY <1>t, <1>8 DEF Retire, Stage, TypeOK, IInv, WorkerPosition, ActiveState, Custody
    <2> QED
      BY <1>8, <2>1 DEF Retire
  <1>9. ASSUME UNCHANGED <<queue, lease, modeVars, opVars>>
        PROVE  UNCHANGED Contract!cvars
    BY <1>9 DEF Stage
  <1>10. CASE UNCHANGED vars
    BY <1>9, <1>10 DEF vars
  <1>11. CASE Awaken \/ Skip \/ Call \/ CallbackReturns \/ WaitExamines \/ CloseReturns
    BY <1>9, <1>11 DEF Awaken, Skip, Call, CallbackReturns, WaitExamines, CloseReturns
  <1>12. ASSUME NEW c \in Callers, ReportSuperseded(c)
         PROVE  UNCHANGED Contract!cvars
    BY <1>9, <1>12 DEF ReportSuperseded
  <1> HIDE DEF Ops, Kinds, Contract!cvars
  <1> QED
    BY <1>1, <1>2, <1>3, <1>4, <1>5, <1>6, <1>7, <1>8, <1>10, <1>11, <1>12
    DEF Next, Worker, Contract!CNext

(* Whatever the process observes of dispatches and lifetime operations is  *)
(* a behaviour of the contract.                                            *)
THEOREM ImplementsTheContract == Spec => ImplementsContract
  BY Safety, InitRefines, StepRefines, PTL DEF Spec, ImplementsContract, Contract!CSpec

(* The safety of operations as the runs check it: exclusion, wake-ups and  *)
(* single reports together.                                                *)
THEOREM OperationsStaySafe == Spec => []OperationsAreSafe
  <1>1. TypeOK /\ RetirementExcludesDispatch /\ NoLostWakeup /\ ReportedAtMostOnce
        => OperationsAreSafe
    BY DEF OperationsAreSafe
  <1> QED
    BY <1>1, TypeCorrectness, DispatchExclusion, WakeupsAreKept, SingleReport, PTL

-----------------------------------------------------------------------------
(* The supervisor *)

(* The supervisor starts without a host. *)
LEMMA InitOwnership == SInit => SInv
  <1> SUFFICES ASSUME SInit PROVE SInv
    OBVIOUS
  <1> USE NoHostAssumption, NoProcAssumption DEF SInit
  <1>1. STypeOK
    BY DEF STypeOK, Critical, HostStates
  <1>2. Ownership
    BY DEF Ownership, Owns, Withdrawn
  <1> QED
    BY <1>1, <1>2 DEF SInv

(* Every step hands the host over without duplicating or dropping it. *)
LEMMA StepOwnership == SInv /\ [SNext]_svars => SInv'
  <1> SUFFICES ASSUME SInv, [SNext]_svars PROVE SInv'
    OBVIOUS
  <1> USE NoHostAssumption, NoProcAssumption
      DEF SInv, STypeOK, Ownership, Owns, Withdrawn, Critical, HostStates, Goto, Return,
          fields, locals, procs
  <1>1. ASSUME NEW p \in Procs, NEW k \in {"initial", "restart"}, CallReplace(p, k)
        PROVE  SInv'
    <2>1. STypeOK'
      BY <1>1 DEF CallReplace
    <2>2. Ownership'
      BY <1>1, <2>1 DEF CallReplace
    <2> QED
      BY <2>1, <2>2
  <1>2. ASSUME NEW p \in Procs, CallShutdown(p)
        PROVE  SInv'
    <2>1. STypeOK'
      BY <1>2 DEF CallShutdown
    <2>2. Ownership'
      BY <1>2, <2>1 DEF CallShutdown
    <2> QED
      BY <2>1, <2>2
  <1>3. ASSUME NEW p \in Procs, CancelCaller(p)
        PROVE  SInv'
    <2>1. STypeOK'
      BY <1>3 DEF CancelCaller
    <2>2. Ownership'
      BY <1>3, <2>1 DEF CancelCaller
    <2> QED
      BY <2>1, <2>2
  <1>4. ASSUME NEW p \in Procs, RefuseReplace(p)
        PROVE  SInv'
    <2>1. STypeOK'
      BY <1>4 DEF RefuseReplace, Refused
    <2>2. Ownership'
      BY <1>4, <2>1 DEF RefuseReplace, Refused
    <2> QED
      BY <2>1, <2>2
  <1>5. ASSUME NEW p \in Procs, BeginReplace(p)
        PROVE  SInv'
    <2>1. STypeOK'
      BY <1>5 DEF BeginReplace, BeginWith, Refused
    <2>2. Ownership'
      BY <1>5, <2>1 DEF BeginReplace, BeginWith, Refused
    <2> QED
      BY <2>1, <2>2
  <1>6. ASSUME NEW p \in Procs, NEW ok \in BOOLEAN, RetireOld(p, ok)
        PROVE  SInv'
    <2>1. STypeOK'
      <3>1. CASE ok /\ ~OwnedErr(p)
        BY <1>6, <3>1 DEF RetireOld, Retired, OwnedErr
      <3>2. CASE ~(ok /\ ~OwnedErr(p))
        <4>1. Return(p, "error") /\ Retired(old, ok) /\ pc[p] = "retire"
          BY <1>6, <3>2 DEF RetireOld
        <4>2. old \in Hosts /\ opMu = p
          BY <4>1
        <4>3. unretired' \in Hosts \cup {NoHost} /\ host' \in [Hosts -> HostStates]
          BY <4>1, <4>2 DEF Retired
        <4>4. /\ master' \in Hosts \cup {NoHost} /\ binding' \in Hosts \cup {NoHost}
              /\ old' \in Hosts \cup {NoHost} /\ next' \in Hosts \cup {NoHost}
              /\ shut' \in BOOLEAN /\ torn' \in BOOLEAN
          BY <4>1 DEF Retired
        <4>5. /\ candidate' \in BOOLEAN /\ ownedDone' \in BOOLEAN
              /\ opMu' = NoProc /\ pc' = [pc EXCEPT ![p] = "idle"]
          BY <4>1
        <4>6. /\ pc' \in [Procs -> Critical \cup {"idle", "replace", "shutdown"}]
              /\ \A q \in Procs : pc'[q] \in Critical <=> opMu' = q
          BY <4>2, <4>5
        <4>7. /\ call' \in [Procs -> {"none", "initial", "restart", "shutdown"}]
              /\ callerDone' \in [Procs -> BOOLEAN]
              /\ replied' \in [Procs -> {"none", "ok", "error"}]
          BY <4>1
        <4> QED
          BY <4>3, <4>4, <4>5, <4>6, <4>7
      <3> QED
        BY <3>1, <3>2
    <2>2. Ownership'
      BY <1>6, <2>1 DEF RetireOld, Retired, OwnedErr
    <2> QED
      BY <2>1, <2>2
  <1>7. ASSUME NEW p \in Procs, NEW ok \in BOOLEAN, StartEnds(p, ok)
        PROVE  SInv'
    <2>1. STypeOK'
      BY <1>7 DEF StartEnds, OwnedErr
    <2>2. Ownership'
      BY <1>7, <2>1 DEF StartEnds, OwnedErr
    <2> QED
      BY <2>1, <2>2
  <1>8. ASSUME NEW p \in Procs, NEW ok \in BOOLEAN, CleanupNext(p, ok)
        PROVE  SInv'
    <2>1. STypeOK'
      BY <1>8 DEF CleanupNext, Retired
    <2>2. Ownership'
      BY <1>8, <2>1 DEF CleanupNext, Retired
    <2> QED
      BY <2>1, <2>2
  <1>9. ASSUME NEW p \in Procs, NEW ok \in BOOLEAN, RetireLast(p, ok)
        PROVE  SInv'
    <2>1. STypeOK'
      BY <1>9 DEF RetireLast
    <2>2. Ownership'
      <3>1. CASE ok
        BY <1>9, <2>1, <3>1 DEF RetireLast
      <3>2. CASE ~(ok)
        BY <1>9, <2>1, <3>2 DEF RetireLast
      <3> QED
        BY <3>1, <3>2
    <2> QED
      BY <2>1, <2>2
  <1>10. ASSUME NEW p \in Procs, NEW ok \in BOOLEAN, NEW h \in Hosts, Build(p, h, ok)
        PROVE  SInv'
    <2>1. STypeOK'
      BY <1>10 DEF Build
    <2>2. Ownership'
      BY <1>10, <2>1 DEF Build
    <2> QED
      BY <2>1, <2>2
  <1>11. ASSUME NEW p \in Procs, BuildFails(p)
        PROVE  SInv'
    <2>1. STypeOK'
      BY <1>11 DEF BuildFails
    <2>2. Ownership'
      BY <1>11, <2>1 DEF BuildFails
    <2> QED
      BY <2>1, <2>2
  <1>12. ASSUME NEW p \in Procs, StartCandidate(p)
        PROVE  SInv'
    <2>1. STypeOK'
      BY <1>12 DEF StartCandidate
    <2>2. Ownership'
      BY <1>12, <2>1 DEF StartCandidate
    <2> QED
      BY <2>1, <2>2
  <1>13. ASSUME NEW p \in Procs, Publish(p)
        PROVE  SInv'
    <2>1. STypeOK'
      <3>1. CASE shut \/ OwnedErr(p)
        BY <1>13, <3>1 DEF Publish, PublishNext
      <3>2. CASE ~(shut \/ OwnedErr(p))
        <4>1. PublishNext(p) /\ pc[p] = "publish" /\ next \in Hosts /\ opMu = p
          BY <1>13, <3>2 DEF Publish
        <4> QED
          BY <4>1 DEF PublishNext
      <3> QED
        BY <3>1, <3>2
    <2>2. Ownership'
      BY <1>13, <2>1 DEF Publish, PublishNext
    <2> QED
      BY <2>1, <2>2
  <1>14. ASSUME NEW p \in Procs, BeginShutdown(p)
        PROVE  SInv'
    <2>1. STypeOK'
      <3>1. CASE Withdrawn
        BY <1>14, <3>1 DEF BeginShutdown, ShutdownTakes
      <3>2. CASE ~(Withdrawn)
        BY <1>14, <3>2 DEF BeginShutdown, ShutdownTakes
      <3> QED
        BY <3>1, <3>2
    <2>2. Ownership'
      <3>1. CASE Withdrawn
        BY <1>14, <2>1, <3>1 DEF BeginShutdown, ShutdownTakes
      <3>2. CASE ~(Withdrawn)
        BY <1>14, <2>1, <3>2 DEF BeginShutdown, ShutdownTakes
      <3> QED
        BY <3>1, <3>2
    <2> QED
      BY <2>1, <2>2
  <1>15. CASE UNCHANGED svars
    BY <1>15 DEF svars
  <1> HIDE DEF SInv
  <1> QED
    BY <1>1, <1>2, <1>3, <1>4, <1>5, <1>6, <1>7, <1>8, <1>9, <1>10, <1>11, <1>12, <1>13, <1>14, <1>15
    DEF SNext, Proceed

(* Every host that is not free has exactly one owner, in every state.      *)
THEOREM OwnershipInvariant == SSpec => []SInv
  BY InitOwnership, StepOwnership, PTL DEF SSpec

(* At most one host object is ever connected or half connected.            *)
THEOREM AtMostOneHost == SSpec => []OneHost
  <1>1. SInv => OneHost
    BY NoHostAssumption DEF SInv, STypeOK, Ownership, Owns, OneHost, Critical, Withdrawn
  <1> QED
    BY <1>1, OwnershipInvariant, PTL

(* A host is published, retained for the last cleanup, or in hand.         *)
THEOREM HostsAreOwned == SSpec => []NoOrphan
  <1>1. SInv => NoOrphan
    BY NoHostAssumption DEF SInv, STypeOK, Ownership, Owns, NoOrphan, Critical, Withdrawn
  <1> QED
    BY <1>1, OwnershipInvariant, PTL

(* A shutdown that succeeded leaves no host behind, ever.                  *)
THEOREM TeardownHolds == SSpec => []TeardownIsFinal
  <1>1. SInv => TeardownIsFinal
    BY NoHostAssumption DEF SInv, STypeOK, Ownership, Owns, TeardownIsFinal, Withdrawn
  <1> QED
    BY <1>1, OwnershipInvariant, PTL

(* Nothing is published once the supervisor is closed, and the process is  *)
(* bound to the published host only.                                       *)
THEOREM PublicationIsGuarded == SSpec => NothingPublishedAfterClose
  <1>1. [SNext]_svars => [/\ shut => master' \in {master, NoHost}
                          /\ binding' # binding => binding' = master']_svars
    <2> SUFFICES ASSUME SNext
                 PROVE  /\ shut => master' \in {master, NoHost}
                        /\ binding' # binding => binding' = master'
      OBVIOUS
    <2> USE DEF fields, locals, procs, CallReplace, CallShutdown, CancelCaller, BeginReplace,
            BeginWith, RefuseReplace, Return, RetireOld, Retired, Build, BuildFails,
            StartCandidate, StartEnds, CleanupNext, BeginShutdown, ShutdownTakes, RetireLast
    <2>1. ASSUME NEW p \in Procs, Publish(p)
          PROVE  /\ shut => master' \in {master, NoHost}
                 /\ binding' # binding => binding' = master'
      <3>1. CASE shut \/ OwnedErr(p)
        BY <2>1, <3>1 DEF Publish
      <3>2. CASE ~(shut \/ OwnedErr(p))
        BY <2>1, <3>2 DEF Publish, PublishNext
      <3> QED
        BY <3>1, <3>2
    <2> QED
      BY <2>1 DEF SNext, Proceed
  <1> QED
    BY <1>1, PTL DEF SSpec, NothingPublishedAfterClose

(* One live host, none forgotten, none left after the teardown or          *)
(* published after it.                                                     *)
THEOREM HostsStayAccounted == SSpec => HostsAreAccounted
  <1>1. SInv => STypeOK
    BY DEF SInv
  <1> QED
    BY <1>1, OwnershipInvariant, AtMostOneHost, HostsAreOwned, TeardownHolds,
       PublicationIsGuarded, PTL DEF HostsAreAccounted

-----------------------------------------------------------------------------
(* The process: main, the worker and the recovery loop around the          *)
(* supervisor.  PInv adds to SInv when the worker may be inside a call.    *)
WorkerQuiesces ==
    /\ lactive = "none" => pc["worker"] = "idle"
    /\ workerAt = "stopped" => lactive = "none"
    /\ mainAt \in {"teardown", "exited"} => workerAt = "stopped"

PInv == SInv /\ WorkerQuiesces

(* The process moves the supervisor by the supervisor's own steps, by the  *)
(* loss of a connection and by the end of every caller's context.          *)
LEMMA ProcessMovesSupervisor ==
    ASSUME PNext
    PROVE  \/ [SNext]_svars
           \/ \E h \in Hosts : Disconnect(h)
           \/ Signal
  <1> USE ProcsAssumption DEF PNext, SNext
  <1>1. CASE Main
    BY <1>1 DEF Main, MainStarts, MainServes, MainCloses, MainTearsDown, MainCallsShutdown,
                MainExits
  <1>2. CASE Recovery
    BY <1>2 DEF Recovery, ReceiveEvent, HealthTick, RequestRecovery, RecoveryStops
  <1>3. CASE WorkerLoop
    BY <1>3 DEF WorkerLoop, WorkerCalls, WorkerSettles, WorkerStops, WorkerStopsIf
  <1>4. ASSUME NEW p \in Procs, SupervisorStep(p)
        PROVE  Proceed(p)
    BY <1>4 DEF SupervisorStep, StartFails, Proceed
  <1>5. ASSUME NEW k \in {"restart", "shutdown"}, Command(k)
        PROVE  UNCHANGED svars
    BY <1>5 DEF Command
  <1> QED
    BY <1>1, <1>2, <1>3, <1>4, <1>5

(* A lost connection and a signal leave every host where it was.           *)
LEMMA ProcessKeepsOwnership == SInv /\ [PNext]_pvars => SInv'
  <1> SUFFICES ASSUME SInv, PNext PROVE SInv'
    BY StepOwnership DEF pvars
  <1> USE DEF SInv, STypeOK, Ownership, Owns, Withdrawn, Critical, HostStates, fields, locals,
              procs
  <1>1. ASSUME NEW h \in Hosts, Disconnect(h)
        PROVE  SInv'
    <2>1. STypeOK'
      BY <1>1 DEF Disconnect
    <2>2. \A g \in Hosts : host[g] # "free" <=> host'[g] # "free"
      BY <1>1 DEF Disconnect
    <2>3. Ownership'
      BY <1>1, <2>2, NoHostAssumption DEF Disconnect
    <2> QED
      BY <2>1, <2>3
  <1>2. CASE Signal
    BY <1>2 DEF Signal
  <1> HIDE DEF SInv
  <1> QED
    BY <1>1, <1>2, ProcessMovesSupervisor, StepOwnership

(* The worker is inside a call only between WorkerCalls and WorkerSettles, *)
(* and main goes on to the teardown only when it has stopped.              *)
LEMMA ProcessKeepsQuiescence == PInv /\ [PNext]_pvars => WorkerQuiesces'
  <1> SUFFICES ASSUME PInv, [PNext]_pvars PROVE WorkerQuiesces'
    OBVIOUS
  <1> USE ProcsAssumption DEF PInv, WorkerQuiesces, svars, lvars, fields, locals, procs, Goto
  <1>0. pc \in [Procs -> Critical \cup {"idle", "replace", "shutdown"}]
    BY DEF SInv, STypeOK
  <1>1. CASE Main
    BY <1>0, <1>1 DEF Main, MainStarts, MainServes, MainCloses, MainTearsDown, MainCallsShutdown,
                MainExits, CallReplace, CallShutdown
  <1>2. CASE Recovery
    BY <1>2 DEF Recovery, ReceiveEvent, HealthTick, RequestRecovery, RecoveryStops, RequestKind
  <1>3. CASE WorkerLoop
    BY <1>3 DEF WorkerLoop, WorkerCalls, WorkerSettles, WorkerStops, WorkerStopsIf
  <1>4. ASSUME NEW p \in Procs, SupervisorStep(p)
        PROVE  WorkerQuiesces'
    <2>1. UNCHANGED <<lactive, workerAt, mainAt>>
      BY <1>4 DEF SupervisorStep, StartFails
    <2>2. pc[p] # "idle"
      BY <1>4 DEF SupervisorStep, StartFails, RefuseReplace, BeginReplace, BeginWith, RetireOld,
                  Build, BuildFails, StartCandidate, StartEnds, Publish, CleanupNext,
                  BeginShutdown, ShutdownTakes, RetireLast
    <2>3. \A q \in Procs \ {p} : pc'[q] = pc[q]
      BY <1>0, <1>4 DEF SupervisorStep, StartFails, RefuseReplace, BeginReplace, BeginWith,
                  RetireOld, Build, BuildFails, StartCandidate, StartEnds, Publish, PublishNext,
                  CleanupNext, BeginShutdown, ShutdownTakes, RetireLast, Return
    <2> QED
      BY <2>1, <2>2, <2>3
  <1>5. ASSUME NEW k \in {"restart", "shutdown"}, Command(k)
        PROVE  WorkerQuiesces'
    BY <1>5 DEF Command, RequestKind
  <1>6. ASSUME NEW h \in Hosts, Disconnect(h)
        PROVE  WorkerQuiesces'
    BY <1>6 DEF Disconnect
  <1>7. CASE Signal
    BY <1>7 DEF Signal
  <1>8. CASE UNCHANGED pvars
    BY <1>8 DEF pvars
  <1> QED
    BY <1>1, <1>2, <1>3, <1>4, <1>5, <1>6, <1>7, <1>8 DEF PNext

(* In every state of the process the host has one owner and the worker is  *)
(* inside a call only while an operation is active.                        *)
THEOREM ProcessInvariant == PSpec => []PInv
  <1>1. PInit => PInv
    BY InitOwnership, ProcsAssumption DEF PInit, SInit, PInv, WorkerQuiesces
  <1>2. PInv /\ [PNext]_pvars => PInv'
    BY ProcessKeepsOwnership, ProcessKeepsQuiescence DEF PInv
  <1> QED
    BY <1>1, <1>2, PTL DEF PSpec

(* The teardown never runs beside the worker: main waited for it.          *)
THEOREM TeardownStaysAlone == PSpec => []TeardownIsAlone
  <1>1. PInv => TeardownIsAlone
    BY ProcsAssumption DEF PInv, SInv, STypeOK, Critical, WorkerQuiesces, TeardownIsAlone
  <1> QED
    BY <1>1, ProcessInvariant, PTL

(* What holds of the supervisor for any callers holds in the process too,  *)
(* where connections are lost and a signal ends every context.             *)
THEOREM ProcessAccountsForHosts == PSpec => [](OneHost /\ NoOrphan /\ TeardownIsFinal)
  <1>1. SInv => OneHost /\ NoOrphan /\ TeardownIsFinal
    BY NoHostAssumption DEF SInv, STypeOK, Ownership, Owns, OneHost, NoOrphan, TeardownIsFinal,
                            Critical, Withdrawn
  <1> QED
    BY <1>1, ProcessInvariant, PTL DEF PInv
=============================================================================
