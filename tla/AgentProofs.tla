----------------------------- MODULE AgentProofs -----------------------------
(***************************************************************************)
(* Proofs about the agent around a turn, for any number of invocations,    *)
(* keys, slots, queue places, exchanges and people.  The runtime runs one  *)
(* turn per memory key, counts what it has admitted and is quiet once      *)
(* Close returned; the memory of a conversation tells a turn all that has  *)
(* not expired, once; people who asked for quiet have it; the monitors     *)
(* forget nothing that counts, whatever their limits: sanctions climb, a   *)
(* raid is met and a ban follows the second one.                           *)
(***************************************************************************)
EXTENDS AgentRuntime, AgentMemory, Participation, MessageMonitor, JoinMonitor,
        SequenceTheorems, FiniteSetTheorems, WellFoundedInduction, TLAPS

(* Sets of invocations are finite, and counting them gives a number.       *)
LEMMA SubsetsAreFinite ==
    ASSUME NEW S \in SUBSET Invs
    PROVE  IsFiniteSet(S) /\ Cardinality(S) \in Nat
  BY InvsAssumption, FS_Subset, FS_CardinalityType

(* A new runtime satisfies the invariant.                                  *)
LEMMA InitIsQuiet == AInit => AInv
  <1> SUFFICES ASSUME AInit PROVE AInv
    OBVIOUS
  <1> USE DEF AInit
  <1>0. MaxConcurrent \in Nat /\ Capacity \in Nat
    BY CapacityAssumption DEF Capacity
  <1>1. ATypeOK
    <2>1. 0 \in 0..Capacity /\ MaxConcurrent \in 0..MaxConcurrent
      BY <1>0
    <2>2. at \in [Invs -> Executing \cup Outside]
      BY DEF Outside
    <2>3. jobs \in Seq(Requests)
      OBVIOUS
    <2>4. closed \in BOOLEAN /\ bound \in BOOLEAN /\ crashed \in BOOLEAN
      BY ZenonT(20)
    <2> QED
      BY <2>1, <2>2, <2>3, <2>4 DEF ATypeOK
  <1>2. Admitted = {} /\ Queued = {} /\ \A e \in Invs : Users(e) = {}
    BY InvsAssumption DEF Admitted, Queued, Users, Executing, Registered, Holding, InSlot, Invs
  <1>3. RefsCounted /\ JobsQueued /\ AdmissionCounts
    <2>1. Cardinality({}) = 0 /\ Len(jobs) = 0 /\ admission = 0
      BY FS_EmptySet
    <2>2. RefsCounted
      BY <1>2, <2>1 DEF RefsCounted
    <2>3. AdmissionCounts
      BY <1>2, <2>1 DEF AdmissionCounts
    <2>4. JobsQueued
      BY <1>2, <2>1 DEF JobsQueued
    <2> QED
      BY <2>2, <2>3, <2>4
  <1>4. EntriesShared /\ MutexHeld /\ LocksReclaimed
    BY DEF EntriesShared, MutexHeld, LocksReclaimed, Registered, Holding, InSlot
  <1>5. AmbientLane /\ Closing
    BY InvsAssumption DEF AmbientLane, Closing, Executing, Registered, Holding, InSlot, Invs
  <1> QED
    BY <1>1, <1>3, <1>4, <1>5 DEF AInv

(* Moving one turn between two positions at which it is registered with    *)
(* its lock entry disturbs nothing but the mutex of that entry.            *)
LEMMA MoveKeepsInvariant ==
    ASSUME AInv, NEW i \in Invs, NEW to \in Registered,
           at[i] \in Registered,
           at' = [at EXCEPT ![i] = to],
           to \in Holding /\ at[i] \notin Holding =>
               \A j \in Invs : mine[j] = mine[i] => at[j] \notin Holding,
           answer' \in [Replying -> {"none", "sent", "lost", "expired"}],
           bound' \in BOOLEAN, crashed' \in BOOLEAN,
           UNCHANGED <<closed, admissionVars, lockVars, ambientVars, closer>>
    PROVE  AInv'
  <1> USE DEF AInv, admissionVars, lockVars, ambientVars
  <1>1. ATypeOK'
    BY DEF ATypeOK, Executing
  <1>2. /\ \A j \in Invs : at'[j] \in Registered <=> at[j] \in Registered
        /\ \A j \in Invs : at'[j] \in Executing <=> at[j] \in Executing
        /\ \A j \in Invs : \A p \in {"queued", "pending", "returning"} : at'[j] = p <=> at[j] = p
    BY DEF ATypeOK, Executing, Registered, Holding, InSlot
  <1>3. EntriesShared' /\ LocksReclaimed'
    BY <1>2 DEF EntriesShared, LocksReclaimed
  <1>4. RefsCounted'
    BY DEF RefsCounted, Users
  <1>5. MutexHeld'
    BY DEF MutexHeld, ATypeOK
  <1>6. Admitted' = Admitted /\ Queued' = Queued
    BY <1>2 DEF Admitted, Queued, Invs
  <1>7. AdmissionCounts'
    BY <1>6 DEF AdmissionCounts
  <1>8. JobsQueued'
    <2>1. \A n \in 1..Len(jobs) : jobs[n] \in Invs
      BY DEF ATypeOK, Invs
    <2> QED
      BY <1>2, <1>6, <2>1 DEF JobsQueued
  <1>9. AmbientLane' /\ Closing'
    BY <1>2 DEF AmbientLane, Closing, NoneExecutes, Invs
  <1> QED
    BY <1>1, <1>3, <1>4, <1>5, <1>7, <1>8, <1>9

(* The count of users follows the entries through Acquire and release.     *)
LEMMA AcquireCounts ==
    ASSUME AInv, NEW i \in Invs, Acquire(i)
    PROVE  RefsCounted'
  <1> DEFINE e == IF entries[KeyOf[i]] = None THEN i ELSE entries[KeyOf[i]]
  <1>1. e \in Invs /\ mine[i] = None /\ refs' = [refs EXCEPT ![e] = @ + 1]
        /\ mine' = [mine EXCEPT ![i] = e]
    BY KeyOfAssumption DEF AInv, ATypeOK, EntriesShared, Acquire, Registered, Holding, InSlot
  <1> HIDE DEF e
  <1>2. e # None /\ mine \in [Invs -> Invs \cup {None}] /\ refs \in [Invs -> Nat]
    BY <1>1, InvsAssumption DEF AInv, ATypeOK
  <1> SUFFICES ASSUME NEW d \in Invs PROVE refs'[d] = Cardinality(Users(d)')
    BY DEF RefsCounted
  <1>3. refs[d] = Cardinality(Users(d)) /\ Users(d) \in SUBSET Invs
    BY DEF AInv, RefsCounted, Users
  <1>4. CASE d = e
    <2>1. Users(d)' = Users(d) \cup {i} /\ i \notin Users(d)
      BY <1>1, <1>2, <1>4 DEF Users
    <2> QED
      BY <1>1, <1>2, <1>3, <1>4, <2>1, SubsetsAreFinite, FS_AddElement
  <1>5. CASE d # e
    <2>1. Users(d)' = Users(d)
      BY <1>1, <1>2, <1>5, InvsAssumption DEF Users
    <2> QED
      BY <1>1, <1>2, <1>3, <1>5, <2>1
  <1> QED
    BY <1>4, <1>5

(* A release leaves a positive count exactly when another turn uses the     *)
(* entry, so deleting it at zero never takes it away from a waiting turn.   *)
LEMMA UnregisterCounts ==
    ASSUME AInv, NEW i \in Invs, Unregister(i)
    PROVE  /\ RefsCounted' /\ refs' \in [Invs -> Nat]
           /\ refs[mine[i]] = 1 => \A j \in Invs : mine[j] = mine[i] => j = i
           /\ refs[mine[i]] # 1 => \E j \in Invs : j # i /\ mine[j] = mine[i]
  <1> DEFINE e == mine[i]
  <1>1. e \in Invs /\ refs' = [refs EXCEPT ![e] = @ - 1]
        /\ mine' = [mine EXCEPT ![i] = None]
    BY DEF AInv, ATypeOK, EntriesShared, Unregister, UnregisterTo, Registered
  <1> HIDE DEF e
  <1>2. mine \in [Invs -> Invs \cup {None}] /\ refs \in [Invs -> Nat] /\ None \notin Invs
    BY InvsAssumption DEF AInv, ATypeOK
  <1>3. \A d \in Invs : refs[d] = Cardinality(Users(d))
    BY DEF AInv, RefsCounted
  <1>4. i \in Users(e) /\ Users(e) \in SUBSET Invs
    BY <1>1 DEF Users, e
  <1>5. refs[e] > 0 /\ Cardinality(Users(e) \ {i}) = refs[e] - 1
    <2>1. refs[e] = Cardinality(Users(e)) /\ IsFiniteSet(Users(e))
          /\ Cardinality(Users(e)) \in Nat
      BY <1>1, <1>3, <1>4, SubsetsAreFinite
    <2>2. Cardinality(Users(e) \ {i}) = Cardinality(Users(e)) - 1
      BY <1>4, <2>1, FS_RemoveElement
    <2>3. Cardinality(Users(e) \ {i}) \in Nat
      BY <1>4, SubsetsAreFinite
    <2> QED
      BY <2>1, <2>2, <2>3
  <1>6. refs[e] = 1 <=> Users(e) \ {i} = {}
    <2>1. IsFiniteSet(Users(e) \ {i})
      BY <1>4, SubsetsAreFinite
    <2> QED
      BY <1>2, <1>5, <2>1, <1>1, FS_EmptySet
  <1>7. RefsCounted'
    <2> SUFFICES ASSUME NEW d \in Invs PROVE refs'[d] = Cardinality(Users(d)')
      BY DEF RefsCounted
    <2>1. CASE d = e
      <3>1. Users(d)' = Users(d) \ {i}
        BY <1>1, <1>2, <2>1 DEF Users
      <3> QED
        BY <1>1, <1>2, <1>5, <2>1, <3>1
    <2>2. CASE d # e
      <3>1. Users(d)' = Users(d)
        BY <1>1, <1>2, <2>2 DEF Users, e
      <3> QED
        BY <1>1, <1>2, <1>3, <2>2, <3>1
    <2> QED
      BY <2>1, <2>2
  <1>8. refs' \in [Invs -> Nat]
    BY <1>1, <1>2, <1>5
  <1> QED
    BY <1>6, <1>7, <1>8 DEF Users, e

(* Submission and the queue keep the tokens, the channel and the set of    *)
(* queued requests in step.                                                *)
LEMMA SubmitKeepsInvariant ==
    ASSUME AInv, NEW i \in Requests, Submit(i)
    PROVE  AInv'
  <1> USE DEF AInv, lockVars, ambientVars, worldVars
  <1>0. i \in Invs /\ at[i] = "new" /\ Capacity \in Nat
    BY CapacityAssumption DEF Submit, Invs, Capacity
  <1>1. CASE admission = Capacity \/ Len(jobs) = Capacity
    <2>1. at' = [at EXCEPT ![i] = "refused"] /\ UNCHANGED <<jobs, admission>>
      BY <1>1 DEF Submit, Move
    <2>2. ATypeOK'
      BY <1>0, <2>1 DEF Submit, ATypeOK, Outside
    <2>3. /\ \A j \in Invs : at'[j] \in Registered <=> at[j] \in Registered
          /\ \A j \in Invs : at'[j] \in Holding <=> at[j] \in Holding
          /\ \A j \in Invs : at'[j] \in Executing <=> at[j] \in Executing
          /\ \A j \in Invs : \A p \in {"queued", "pending", "returning"} : at'[j] = p <=> at[j] = p
      BY <1>0, <2>1 DEF ATypeOK, Executing, Registered, Holding, InSlot
    <2>4. EntriesShared' /\ LocksReclaimed' /\ MutexHeld' /\ RefsCounted'
      BY <2>3 DEF Submit, EntriesShared, LocksReclaimed, MutexHeld, RefsCounted, Users
    <2>5. Admitted' = Admitted /\ Queued' = Queued
      BY <2>3 DEF Admitted, Queued, Invs
    <2>6. \A n \in 1..Len(jobs) : jobs[n] \in Invs
      BY DEF ATypeOK, Invs
    <2>7. AdmissionCounts' /\ JobsQueued'
      BY <2>1, <2>3, <2>5, <2>6 DEF AdmissionCounts, JobsQueued
    <2>8. AmbientLane' /\ Closing'
      BY <2>3 DEF Submit, AmbientLane, Closing, NoneExecutes, Invs
    <2> QED
      BY <2>2, <2>4, <2>7, <2>8
  <1>2. CASE ~(admission = Capacity \/ Len(jobs) = Capacity)
    <2>1. /\ at' = [at EXCEPT ![i] = "queued"]
          /\ admission' = admission + 1 /\ jobs' = Append(jobs, i)
      BY <1>2 DEF Submit, Move
    <2>2. admission' \in 0..Capacity /\ jobs' \in Seq(Requests)
      BY <1>0, <1>2, <2>1 DEF ATypeOK
    <2>3. ATypeOK'
      BY <1>0, <2>1, <2>2 DEF Submit, ATypeOK, Executing, Outside
    <2>4. /\ \A j \in Invs : at'[j] \in Registered <=> at[j] \in Registered
          /\ \A j \in Invs : at'[j] \in Holding <=> at[j] \in Holding
          /\ \A j \in Invs : at'[j] \in Executing <=> at[j] \in Executing
          /\ \A j \in Invs : \A p \in {"pending", "returning"} : at'[j] = p <=> at[j] = p
          /\ \A j \in Invs : at'[j] = "queued" <=> at[j] = "queued" \/ j = i
      BY <1>0, <2>1 DEF ATypeOK, Executing, Registered, Holding, InSlot
    <2>5. EntriesShared' /\ LocksReclaimed' /\ MutexHeld' /\ RefsCounted'
      BY <2>4 DEF Submit, EntriesShared, LocksReclaimed, MutexHeld, RefsCounted, Users
    <2>6. /\ Admitted' = Admitted \cup {i} /\ i \notin Admitted
          /\ Queued' = Queued \cup {i} /\ i \notin Queued
      BY <1>0, <2>4 DEF Admitted, Queued, Invs, Executing, Registered, Holding, InSlot
    <2>7. /\ Cardinality(Admitted') = Cardinality(Admitted) + 1
          /\ Cardinality(Queued') = Cardinality(Queued) + 1
      <3>1. IsFiniteSet(Admitted) /\ IsFiniteSet(Queued)
        BY SubsetsAreFinite DEF Admitted, Queued, Invs
      <3> QED
        BY <2>6, <3>1, FS_AddElement
    <2>8. jobs \in Seq(Requests) /\ admission \in Nat
      BY <1>0 DEF ATypeOK
    <2>9. AdmissionCounts'
      BY <2>1, <2>7, <2>8 DEF AdmissionCounts
    <2>10. JobsQueued'
      <3>1. /\ Len(jobs') = Len(jobs) + 1 /\ jobs'[Len(jobs) + 1] = i
            /\ \A n \in 1..Len(jobs) : jobs'[n] = jobs[n] /\ jobs[n] \in Invs
        BY <2>1, <2>8 DEF Invs
      <3>2. \A n \in 1..Len(jobs) : jobs[n] # i
        BY <1>0 DEF JobsQueued
      <3>3. \A n \in 1..Len(jobs') : at'[jobs'[n]] = "queued"
        BY <1>0, <2>4, <2>8, <3>1 DEF JobsQueued
      <3>4. \A m, n \in 1..Len(jobs') : jobs'[m] = jobs'[n] => m = n
        BY <2>8, <3>1, <3>2 DEF JobsQueued
      <3> QED
        BY <2>7, <3>1, <3>3, <3>4 DEF JobsQueued
    <2>11. AmbientLane'
      BY <1>0, <2>4, InvsAssumption DEF Submit, AmbientLane, Invs
    <2>12. Closing'
      BY <2>4 DEF Submit, Closing, NoneExecutes, Invs
    <2> QED
      BY <2>3, <2>5, <2>9, <2>10, <2>11, <2>12
  <1> QED
    BY <1>1, <1>2

(* A worker moves the request at the head of the channel into execution.   *)
LEMMA TakeKeepsInvariant == AInv /\ WorkerTakes => AInv'
  <1> SUFFICES ASSUME AInv, WorkerTakes PROVE AInv'
    OBVIOUS
  <1> USE DEF AInv, lockVars, ambientVars, worldVars
  <1> DEFINE i == Head(jobs)
  <1>0. /\ jobs \in Seq(Requests) /\ Len(jobs) > 0 /\ jobs # <<>>
        /\ i \in Requests /\ i \in Invs /\ i = jobs[1] /\ at[i] = "queued"
        /\ Capacity \in Nat
    BY CapacityAssumption DEF WorkerTakes, TakeJob, ATypeOK, Invs, Capacity, JobsQueued
  <1>1. at' = [at EXCEPT ![i] = "acquire"] /\ jobs' = Tail(jobs)
        /\ UNCHANGED <<admission, closed, workers, lockVars, ambientVars, closer, answer, worldVars>>
    BY DEF WorkerTakes, TakeJob, Move
  <1> HIDE DEF i
  <1>2. ATypeOK'
    BY <1>0, <1>1 DEF ATypeOK, Executing
  <1>3. /\ \A j \in Invs : at'[j] \in Registered <=> at[j] \in Registered
        /\ \A j \in Invs : at'[j] \in Holding <=> at[j] \in Holding
        /\ \A j \in Invs : at'[j] \in Executing <=> at[j] \in Executing \/ j = i
        /\ \A j \in Invs : \A p \in {"pending", "returning"} : at'[j] = p <=> at[j] = p
        /\ \A j \in Invs : at'[j] = "queued" <=> at[j] = "queued" /\ j # i
    BY <1>0, <1>1 DEF ATypeOK, Executing, Registered, Holding, InSlot
  <1>4. EntriesShared' /\ LocksReclaimed' /\ MutexHeld' /\ RefsCounted'
    BY <1>1, <1>3 DEF EntriesShared, LocksReclaimed, MutexHeld, RefsCounted, Users
  <1>5. Admitted' = Admitted
    BY <1>0, <1>3 DEF Admitted, Invs
  <1>6. Cardinality(Queued') = Cardinality(Queued) - 1
    <2>1. Queued' = Queued \ {i} /\ i \in Queued
      BY <1>0, <1>3 DEF Queued, Invs
    <2>2. IsFiniteSet(Queued)
      BY SubsetsAreFinite DEF Queued, Invs
    <2> QED
      BY <2>1, <2>2, FS_RemoveElement
  <1>7. /\ Len(jobs') = Len(jobs) - 1
        /\ \A n \in 1..Len(jobs') : n + 1 \in 1..Len(jobs) /\ jobs'[n] = jobs[n + 1]
        /\ \A n \in 1..Len(jobs) : jobs[n] \in Invs
    BY <1>0, <1>1 DEF Invs
  <1>8. JobsQueued'
    <2>1. \A n \in 1..Len(jobs') : at'[jobs'[n]] = "queued"
      <3> SUFFICES ASSUME NEW n \in 1..Len(jobs') PROVE at'[jobs'[n]] = "queued"
        OBVIOUS
      <3>1. n \in Nat /\ n # 0 /\ 1 \in 1..Len(jobs)
        BY <1>0
      <3>2. jobs[n + 1] # i
        BY <1>0, <1>7, <3>1 DEF JobsQueued
      <3> QED
        BY <1>3, <1>7, <3>2 DEF JobsQueued
    <2>2. \A m, n \in 1..Len(jobs') : jobs'[m] = jobs'[n] => m = n
      BY <1>0, <1>7 DEF JobsQueued
    <2> QED
      BY <1>6, <1>7, <2>1, <2>2 DEF JobsQueued
  <1>9. AdmissionCounts'
    BY <1>0, <1>1, <1>5, <1>7 DEF AdmissionCounts, ATypeOK
  <1>10. AmbientLane'
    BY <1>0, <1>1, <1>3, InvsAssumption DEF AmbientLane, Invs
  <1>11. Closing'
    BY <1>0, <1>1, <1>3 DEF WorkerTakes, TakeJob, Closing, ATypeOK
  <1> QED
    BY <1>2, <1>4, <1>8, <1>9, <1>10, <1>11

(* Registering with an entry and leaving it keep the invariant.            *)
LEMMA AcquireKeepsInvariant ==
    ASSUME AInv, NEW i \in Invs, Acquire(i)
    PROVE  AInv'
  <1> USE DEF AInv, admissionVars, ambientVars, worldVars
  <1> DEFINE e == IF entries[KeyOf[i]] = None THEN i ELSE entries[KeyOf[i]]
  <1>0. /\ e \in Invs /\ e # None /\ mine[i] = None /\ at[i] = "acquire"
        /\ KeyOf[i] \in Keys /\ KeyOf[e] = KeyOf[i]
    BY KeyOfAssumption, InvsAssumption
       DEF ATypeOK, EntriesShared, Acquire, Registered, Holding, InSlot
  <1>1. /\ at' = [at EXCEPT ![i] = "locking"]
        /\ entries' = [entries EXCEPT ![KeyOf[i]] = e]
        /\ refs' = [refs EXCEPT ![e] = @ + 1]
        /\ mine' = [mine EXCEPT ![i] = e]
        /\ UNCHANGED <<closed, admissionVars, ambientVars, closer, answer, worldVars>>
    BY DEF Acquire, Move
  <1>2. \A j \in Invs : mine[j] # None => mine[j] = entries[KeyOf[j]]
    BY DEF EntriesShared
  <1> HIDE DEF e
  <1>3. ATypeOK'
    BY <1>0, <1>1 DEF ATypeOK, Executing, Registered
  <1>4. /\ \A j \in Invs : at'[j] \in Registered <=> at[j] \in Registered \/ j = i
        /\ \A j \in Invs : at'[j] \in Holding <=> at[j] \in Holding
        /\ \A j \in Invs : at'[j] \in Executing <=> at[j] \in Executing
        /\ \A j \in Invs : \A p \in {"queued", "pending", "returning"} : at'[j] = p <=> at[j] = p
    BY <1>0, <1>1 DEF ATypeOK, Executing, Registered, Holding, InSlot
  <1>5. entries[KeyOf[i]] # None => e = entries[KeyOf[i]]
    BY DEF e
  <1>6. EntriesShared'
    <2>1. \A j \in Invs : mine'[j] # None <=> at'[j] \in Registered
      BY <1>0, <1>1, <1>4 DEF EntriesShared, ATypeOK
    <2>2. \A j \in Invs : mine'[j] # None => entries'[KeyOf[j]] = mine'[j]
      BY <1>0, <1>1, <1>2, <1>5, KeyOfAssumption DEF EntriesShared, ATypeOK
    <2>3. \A k \in Keys : entries'[k] # None => KeyOf[entries'[k]] = k
      BY <1>0, <1>1 DEF EntriesShared, ATypeOK
    <2> QED
      BY <2>1, <2>2, <2>3 DEF EntriesShared
  <1>7. LocksReclaimed'
    BY <1>0, <1>1, <1>4 DEF LocksReclaimed, ATypeOK
  <1>8. MutexHeld'
    BY <1>0, <1>1, <1>4 DEF MutexHeld, ATypeOK, Holding, InSlot
  <1>9. RefsCounted'
    BY AcquireCounts
  <1>10. Admitted' = Admitted /\ Queued' = Queued /\ \A n \in 1..Len(jobs) : jobs[n] \in Invs
    BY <1>4 DEF Admitted, Queued, Invs, ATypeOK
  <1>11. AdmissionCounts' /\ JobsQueued'
    BY <1>1, <1>4, <1>10 DEF AdmissionCounts, JobsQueued
  <1>12. AmbientLane' /\ Closing'
    BY <1>1, <1>4 DEF AmbientLane, Closing, NoneExecutes, Invs
  <1> QED
    BY <1>3, <1>6, <1>7, <1>8, <1>9, <1>11, <1>12

(* The entry of a key goes exactly with its last user.                     *)
LEMMA UnregisterKeepsInvariant ==
    ASSUME AInv, NEW i \in Invs, Unregister(i)
    PROVE  AInv'
  <1> USE DEF AInv, admissionVars, ambientVars, worldVars
  <1> DEFINE e == mine[i]
  <1>0. /\ e \in Invs /\ at[i] = "unregister" /\ entries[KeyOf[i]] = e /\ e # None
        /\ KeyOf[i] \in Keys /\ KeyOf[e] = KeyOf[i]
    <2>1. at[i] = "unregister" /\ KeyOf[i] \in Keys
      BY KeyOfAssumption DEF Unregister, UnregisterTo
    <2>2. mine[i] # None /\ entries[KeyOf[i]] = mine[i]
      BY <2>1 DEF EntriesShared, Registered
    <2> QED
      BY <2>1, <2>2 DEF EntriesShared, ATypeOK
  <1>1. /\ at' = [at EXCEPT ![i] = AfterLock(i)]
        /\ entries' = IF refs[e] = 1 THEN [entries EXCEPT ![KeyOf[i]] = None] ELSE entries
        /\ mine' = [mine EXCEPT ![i] = None]
        /\ UNCHANGED <<closed, admissionVars, ambientVars, closer, answer, worldVars>>
    BY <1>0 DEF Unregister, UnregisterTo, LastUser, Move
  <1>2. /\ RefsCounted' /\ refs' \in [Invs -> Nat]
        /\ refs[e] = 1 => \A j \in Invs : mine[j] = e => j = i
        /\ refs[e] # 1 => \E j \in Invs : j # i /\ mine[j] = e
    BY UnregisterCounts
  <1> HIDE DEF e
  <1>3. AfterLock(i) \in {"returning", "done"} /\ (i \in Requests <=> AfterLock(i) = "returning")
    BY DEF AfterLock
  <1>4. ATypeOK'
    BY <1>0, <1>1, <1>2, <1>3 DEF ATypeOK, Executing, Outside
  <1>5. /\ \A j \in Invs : at'[j] \in Registered <=> at[j] \in Registered /\ j # i
        /\ \A j \in Invs : at'[j] \in Holding <=> at[j] \in Holding
        /\ \A j \in Invs : at'[j] \in Executing => at[j] \in Executing
        /\ \A j \in Requests : at'[j] \in Executing <=> at[j] \in Executing
        /\ \A j \in Invs : \A p \in {"queued", "pending"} : at'[j] = p <=> at[j] = p
        /\ \A j \in Ambients : at'[j] = "returning" => at[j] = "returning"
    BY <1>0, <1>1, <1>3, InvsAssumption DEF ATypeOK, Executing, Registered, Holding, InSlot, Invs
  <1>6. EntriesShared'
    <2>1. \A j \in Invs : mine'[j] # None <=> at'[j] \in Registered
      BY <1>0, <1>1, <1>5 DEF EntriesShared, ATypeOK
    <2>2. \A j \in Invs : mine'[j] # None => entries'[KeyOf[j]] = mine'[j]
      <3> SUFFICES ASSUME NEW j \in Invs, mine'[j] # None PROVE entries'[KeyOf[j]] = mine'[j]
        OBVIOUS
      <3>1. j # i /\ mine'[j] = mine[j] /\ entries[KeyOf[j]] = mine[j] /\ KeyOf[j] \in Keys
        BY <1>1, KeyOfAssumption DEF EntriesShared, ATypeOK
      <3>2. CASE refs[e] = 1
        <4>1. KeyOf[j] # KeyOf[i]
          BY <1>0, <1>2, <3>1, <3>2
        <4> QED
          BY <1>1, <3>1, <3>2, <4>1 DEF ATypeOK
      <3> QED
        BY <1>1, <3>1, <3>2
    <2>3. \A k \in Keys : entries'[k] # None => KeyOf[entries'[k]] = k
      BY <1>0, <1>1 DEF EntriesShared, ATypeOK
    <2> QED
      BY <2>1, <2>2, <2>3 DEF EntriesShared
  <1>7. LocksReclaimed'
    <2> SUFFICES ASSUME NEW k \in Keys
                 PROVE  entries'[k] # None <=>
                            \E j \in Invs : KeyOf[j] = k /\ at'[j] \in Registered
      BY DEF LocksReclaimed
    <2>1. CASE k # KeyOf[i]
      <3>1. entries'[k] = entries[k]
        BY <1>0, <1>1, <2>1 DEF ATypeOK
      <3> QED
        BY <1>5, <2>1, <3>1 DEF LocksReclaimed
    <2>2. CASE k = KeyOf[i] /\ refs[e] = 1
      <3>1. entries'[k] = None
        BY <1>0, <1>1, <2>2 DEF ATypeOK
      <3>2. \A j \in Invs : KeyOf[j] = k /\ at[j] \in Registered => j = i
        BY <1>0, <1>2, <2>2 DEF EntriesShared
      <3> QED
        BY <1>5, <3>1, <3>2
    <2>3. CASE k = KeyOf[i] /\ refs[e] # 1
      <3>1. entries'[k] = e
        BY <1>0, <1>1, <2>3
      <3>2. PICK j \in Invs : j # i /\ mine[j] = e
        BY <1>2, <2>3
      <3>3. KeyOf[j] = k /\ at[j] \in Registered
        <4>1. mine[j] # None /\ entries[KeyOf[j]] = e /\ KeyOf[j] \in Keys
          BY <1>0, <3>2, KeyOfAssumption DEF EntriesShared
        <4> QED
          BY <1>0, <2>3, <4>1 DEF EntriesShared
      <3> QED
        BY <1>0, <1>5, <3>1, <3>2, <3>3
    <2> QED
      BY <2>1, <2>2, <2>3
  <1>8. MutexHeld'
    BY <1>0, <1>1, <1>5, InvsAssumption DEF MutexHeld, ATypeOK, Holding, InSlot
  <1>9. Admitted' = Admitted /\ Queued' = Queued /\ \A n \in 1..Len(jobs) : jobs[n] \in Invs
    BY <1>5 DEF Admitted, Queued, Invs, ATypeOK
  <1>10. AdmissionCounts' /\ JobsQueued'
    BY <1>1, <1>5, <1>9 DEF AdmissionCounts, JobsQueued
  <1>11. AmbientLane' /\ Closing'
    BY <1>1, <1>5 DEF AmbientLane, Closing, NoneExecutes, Invs
  <1> QED
    BY <1>2, <1>4, <1>6, <1>7, <1>8, <1>10, <1>11

(* Returning a token ends the request that holds it.                       *)
LEMMA ReturnKeepsInvariant ==
    ASSUME AInv, NEW i \in Invs, ReturnToken(i)
    PROVE  AInv'
  <1> USE DEF AInv, lockVars, ambientVars, worldVars
  <1>0. at[i] = "returning" /\ Capacity \in Nat
        /\ at' = [at EXCEPT ![i] = "done"] /\ admission' = admission - 1
        /\ UNCHANGED <<closed, jobs, workers, lockVars, ambientVars, closer, answer, worldVars>>
    BY CapacityAssumption DEF ReturnToken, Move, Capacity
  <1>1. /\ \A j \in Invs : at'[j] \in Registered <=> at[j] \in Registered
        /\ \A j \in Invs : at'[j] \in Holding <=> at[j] \in Holding
        /\ \A j \in Invs : at'[j] \in Executing <=> at[j] \in Executing /\ j # i
        /\ \A j \in Invs : \A p \in {"queued", "pending"} : at'[j] = p <=> at[j] = p
        /\ \A j \in Invs : at'[j] = "returning" => at[j] = "returning"
    BY <1>0 DEF ATypeOK, Executing, Registered, Holding, InSlot
  <1>2. EntriesShared' /\ LocksReclaimed' /\ MutexHeld' /\ RefsCounted'
    BY <1>0, <1>1 DEF EntriesShared, LocksReclaimed, MutexHeld, RefsCounted, Users
  <1>3. i \in Requests
    BY <1>0 DEF AmbientLane, Invs
  <1>4. Admitted' = Admitted \ {i} /\ i \in Admitted /\ Queued' = Queued
        /\ \A n \in 1..Len(jobs) : jobs[n] \in Invs
    BY <1>0, <1>1, <1>3 DEF Admitted, Queued, Invs, Executing, ATypeOK
  <1>5. /\ Cardinality(Admitted') = Cardinality(Admitted) - 1
        /\ Cardinality(Admitted') \in Nat
        /\ Cardinality(Queued) <= Cardinality(Admitted')
    <2>1. IsFiniteSet(Admitted)
      BY SubsetsAreFinite DEF Admitted, Invs
    <2>2. Queued \subseteq Admitted \ {i} /\ IsFiniteSet(Admitted \ {i})
      BY <1>0, <1>4, <2>1, FS_RemoveElement DEF Queued, Admitted
    <2> QED
      BY <1>4, <2>1, <2>2, FS_RemoveElement, FS_Subset, FS_CardinalityType
  <1>6. AdmissionCounts' /\ JobsQueued'
    BY <1>0, <1>1, <1>4, <1>5 DEF AdmissionCounts, JobsQueued, ATypeOK
  <1>7. ATypeOK'
    <2>1. admission' \in 0..Capacity
      BY <1>0, <1>5, <1>6 DEF AdmissionCounts, ATypeOK
    <2> QED
      BY <1>0, <2>1 DEF ATypeOK, Outside
  <1>8. AmbientLane' /\ Closing'
    BY <1>0, <1>1 DEF AmbientLane, Closing, NoneExecutes, Invs
  <1> QED
    BY <1>2, <1>6, <1>7, <1>8

(* Every step of execute() keeps the invariant.                            *)
LEMMA ExecuteKeepsInvariant ==
    ASSUME AInv, NEW i \in Invs, Execute(i)
    PROVE  AInv'
  <1>0. /\ answer \in [Replying -> {"none", "sent", "lost", "expired"}]
        /\ bound \in BOOLEAN /\ crashed \in BOOLEAN
        /\ at \in [Invs -> Executing \cup Outside]
    BY DEF AInv, ATypeOK
  <1> USE DEF Registered, Holding, InSlot, Move, worldVars
  <1>1. CASE Acquire(i)
    BY <1>1, AcquireKeepsInvariant
  <1>2. CASE Lock(i)
    BY <1>0, <1>2, MoveKeepsInvariant DEF Lock
  <1>3. CASE TakeSlot(i)
    BY <1>0, <1>3, MoveKeepsInvariant DEF TakeSlot
  <1>4. ASSUME NEW outcome \in Outcomes, RunEnds(i, outcome) PROVE AInv'
    <2>1. PICK to \in {"replying", "persisting", "failing", "ending"} :
            at' = [at EXCEPT ![i] = to]
      BY <1>4 DEF RunEnds, RunEndsWith
    <2>2. answer' \in [Replying -> {"none", "sent", "lost", "expired"}]
      BY <1>0, <1>4 DEF RunEnds, RunEndsWith, Answered
    <2> QED
      BY <1>0, <1>4, <2>1, <2>2, MoveKeepsInvariant DEF RunEnds, RunEndsWith
  <1>5. ASSUME NEW next \in {"persisting", "ending"}, at[i] \in {"replying", "failing"},
               SendTo(i, next),
               UNCHANGED <<closed, admissionVars, lockVars, ambientVars, closer, bound>>
        PROVE AInv'
    <2>1. CASE bound
      <3>1. PICK sent \in BOOLEAN :
              /\ at' = [at EXCEPT ![i] = IF sent THEN next ELSE "ending"]
              /\ Answered(i, IF sent THEN "sent" ELSE "lost")
        BY <1>5, <2>1 DEF SendTo
      <3>2. answer' \in [Replying -> {"none", "sent", "lost", "expired"}] /\ crashed' = crashed
        BY <1>0, <1>5, <2>1, <3>1 DEF SendTo, Answered
      <3>3. PICK to \in {"persisting", "ending"} : at' = [at EXCEPT ![i] = to]
        BY <3>1
      <3> QED
        BY <1>0, <1>5, <3>2, <3>3, MoveKeepsInvariant
    <2>2. CASE ~bound
      <3>1. at' = [at EXCEPT ![i] = at[i]] /\ answer' = answer /\ crashed' = TRUE
        BY <1>0, <1>5, <2>2 DEF SendTo
      <3>2. crashed' \in BOOLEAN
        BY <3>1, ZenonT(20)
      <3> QED
        BY <1>0, <1>5, <3>1, <3>2, MoveKeepsInvariant
    <2> QED
      BY <2>1, <2>2
  <1>6. CASE Deliver(i)
    BY <1>5, <1>6 DEF Deliver
  <1>7. CASE DeliverFailure(i)
    BY <1>5, <1>7 DEF DeliverFailure
  <1>8. CASE Persist(i) \/ GiveSlot(i) \/ Unlock(i)
    BY <1>0, <1>8, MoveKeepsInvariant DEF Persist, GiveSlot, Unlock, Advance
  <1>9. CASE Unregister(i)
    BY <1>9, UnregisterKeepsInvariant
  <1>10. CASE ReturnToken(i)
    BY <1>10, ReturnKeepsInvariant
  <1> QED
    BY <1>1, <1>2, <1>3, <1>4, <1>6, <1>7, <1>8, <1>9, <1>10 DEF Execute

(* Ambient positions change outside the counts, the locks and the channel. *)
LEMMA AmbientKeepsCounts ==
    ASSUME AInv, UNCHANGED <<jobs, admission, lockVars>>,
           at' \in [Invs -> Executing \cup Outside],
           \A j \in Invs : at'[j] # at[j] =>
               j \in Ambients /\ at[j] \notin Registered /\ at'[j] \notin Registered
    PROVE  /\ EntriesShared' /\ RefsCounted' /\ MutexHeld' /\ LocksReclaimed'
           /\ JobsQueued' /\ AdmissionCounts'
  <1> USE DEF AInv, lockVars
  <1>1. EntriesShared' /\ RefsCounted' /\ MutexHeld' /\ LocksReclaimed'
    BY DEF EntriesShared, RefsCounted, Users, MutexHeld, LocksReclaimed, Registered
  <1>2. \A j \in Requests : j \in Invs /\ at'[j] = at[j]
    BY InvsAssumption DEF Invs
  <1>3. Admitted' = Admitted /\ Queued' = Queued
    BY <1>2 DEF Admitted, Queued
  <1>4. \A n \in 1..Len(jobs) : jobs[n] \in Requests
    BY DEF ATypeOK
  <1> QED
    BY <1>1, <1>2, <1>3, <1>4 DEF JobsQueued, AdmissionCounts

(* The inductive step.                                                     *)
LEMMA StepIsQuiet == AInv /\ [ANext]_avars => AInv'
  <1> SUFFICES ASSUME AInv, [ANext]_avars PROVE AInv'
    OBVIOUS
  <1>0. CASE UNCHANGED avars
    <2> USE <1>0 DEF avars, admissionVars, lockVars, ambientVars, worldVars, AInv
    <2>1. ATypeOK'
      BY DEF ATypeOK
    <2>2. EntriesShared' /\ RefsCounted' /\ MutexHeld' /\ LocksReclaimed'
          /\ JobsQueued' /\ AdmissionCounts'
      BY <2>1, AmbientKeepsCounts DEF ATypeOK
    <2>3. AmbientLane' /\ Closing'
      BY DEF AmbientLane, Closing, NoneExecutes
    <2> QED
      BY <2>1, <2>2, <2>3
  <1>1. ASSUME NEW i \in Requests, Submit(i) PROVE AInv'
    BY <1>1, SubmitKeepsInvariant
  <1>2. ASSUME NEW i \in Invs, Execute(i) PROVE AInv'
    BY <1>2, ExecuteKeepsInvariant
  <1>3. CASE WorkerTakes
    BY <1>3, TakeKeepsInvariant
  <1> USE DEF AInv, admissionVars, lockVars, ambientVars, worldVars
  <1>4. ASSUME NEW i \in Ambients, SubmitAmbient(i) PROVE AInv'
    <2>1. /\ i \in Invs /\ at[i] = "new" /\ ~closed /\ at' = Displaced(i)
          /\ pendingAmbient' = i
          /\ UNCHANGED <<closed, admissionVars, lockVars, draining, closer, answer, worldVars>>
      BY <1>4 DEF SubmitAmbient, Invs
    <2>2. \A j \in Invs : at[j] = "pending" <=> j = pendingAmbient
      BY InvsAssumption DEF AmbientLane, ATypeOK, Invs
    <2>3. \A j \in Invs : at'[j] = IF j = i THEN "pending"
                                    ELSE IF j = pendingAmbient THEN "dropped" ELSE at[j]
      BY <2>1 DEF Displaced
    <2>4. at' \in [Invs -> Executing \cup Outside]
      BY <2>1, <2>3 DEF ATypeOK, Displaced, Outside
    <2>5. \A j \in Invs : at'[j] # at[j] =>
             j \in Ambients /\ at[j] \notin Executing /\ at'[j] \notin Executing
      <3>1. "new" \notin Executing /\ "pending" \notin Executing /\ "dropped" \notin Executing
        BY DEF Executing, Registered, Holding, InSlot
      <3>2. pendingAmbient \in Ambients \cup {None} /\ None \notin Invs
        BY InvsAssumption DEF ATypeOK
      <3> HIDE DEF AInv, admissionVars, lockVars, ambientVars, worldVars
      <3>3. ASSUME NEW j \in Invs, at'[j] # at[j]
            PROVE  j \in Ambients /\ at[j] \notin Executing /\ at'[j] \notin Executing
        <4>1. CASE j = i
          BY <1>4, <2>1, <2>3, <3>1, <4>1
        <4>2. CASE j # i
          BY <2>2, <2>3, <3>1, <3>2, <3>3, <4>2
        <4> QED
          BY <4>1, <4>2
      <3> QED
        BY <3>3
    <2>6. ATypeOK'
      BY <1>4, <2>1, <2>4 DEF SubmitAmbient, ATypeOK
    <2>7. EntriesShared' /\ RefsCounted' /\ MutexHeld' /\ LocksReclaimed'
          /\ JobsQueued' /\ AdmissionCounts'
      BY <2>1, <2>4, <2>5, AmbientKeepsCounts DEF Executing
    <2>8. AmbientLane'
      <3>1. (drain' = "execute" <=> drain = "execute") /\ draining' = draining
        BY <1>4, <2>1 DEF SubmitAmbient
      <3>2. \A j \in Ambients : at'[j] \in Executing => j = draining'
        BY <2>1, <2>5 DEF AmbientLane, Invs
      <3>3. \A j \in Invs : at'[j] = "pending" <=> j = pendingAmbient'
        <4> HIDE DEF AInv, admissionVars, lockVars, ambientVars, worldVars
        <4> QED
          BY <2>1, <2>2, <2>3
      <3>4. \A j \in Ambients : at'[j] \notin {"queued", "returning"}
        <4>1. \A j \in Ambients : j \in Invs /\ at[j] \notin {"queued", "returning"}
          BY DEF AmbientLane, Invs
        <4> HIDE DEF AInv, admissionVars, lockVars, ambientVars, worldVars
        <4> QED
          BY <2>3, <4>1
      <3>5. \A j \in Requests : j \in Invs /\ j # i
        BY <1>4, InvsAssumption DEF Invs
      <3>6. \A j \in Ambients : j \in Invs
        BY DEF Invs
      <3>7. drain = "execute" <=> draining # None
        BY DEF AmbientLane
      <3> HIDE DEF AInv, admissionVars, lockVars, ambientVars, worldVars
      <3>8. \A j \in Requests : at'[j] # "pending"
        BY <2>1, <3>3, <3>5
      <3> QED
        BY <3>1, <3>2, <3>3, <3>4, <3>6, <3>7, <3>8 DEF AmbientLane
    <2>9. Closing'
      BY <1>4, <2>1, <2>5, InvsAssumption DEF SubmitAmbient, Closing, NoneExecutes, Invs
    <2> QED
      BY <2>6, <2>7, <2>8, <2>9
  <1>5. CASE DrainCheck
    <2>1. /\ drain = "check" /\ draining = None
          /\ draining' = IF closed THEN None ELSE pendingAmbient
          /\ drain' = IF draining' = None THEN "off" ELSE "execute"
          /\ at' = IF draining' = None THEN at ELSE [at EXCEPT ![draining'] = "acquire"]
          /\ pendingAmbient' = None
          /\ UNCHANGED <<closed, admissionVars, lockVars, closer, answer, worldVars>>
      BY <1>5 DEF DrainCheck, AmbientLane
    <2>2. draining' # None => draining' = pendingAmbient /\ draining' \in Ambients
                              /\ at[draining'] = "pending"
      BY <2>1 DEF AmbientLane, ATypeOK
    <2>3. ATypeOK'
      BY <2>1, <2>2 DEF ATypeOK, Executing, Invs
    <2>4. \A j \in Invs : at'[j] # at[j] =>
             j \in Ambients /\ j = draining' /\ at[j] = "pending" /\ at'[j] = "acquire"
      BY <2>1, <2>2 DEF ATypeOK
    <2>5. EntriesShared' /\ RefsCounted' /\ MutexHeld' /\ LocksReclaimed'
          /\ JobsQueued' /\ AdmissionCounts'
      BY <2>1, <2>3, <2>4, AmbientKeepsCounts DEF ATypeOK, Registered, Holding, InSlot
    <2>6. AmbientLane'
      <3>1. \A j \in Ambients : at'[j] \in Executing => j = draining'
        BY <2>1, <2>4, InvsAssumption DEF AmbientLane, Invs
      <3>2. \A j \in Ambients : at'[j] = "pending" <=> j = pendingAmbient'
        <4>1. CASE draining' = None
          <5>1. pendingAmbient = None
            BY <2>1, <4>1 DEF Closing
          <5> QED
            BY <2>1, <4>1, <5>1 DEF AmbientLane
        <4>2. CASE draining' # None
          BY <2>1, <2>2, <4>2, InvsAssumption DEF AmbientLane, ATypeOK, Invs
        <4> QED
          BY <4>1, <4>2
      <3> QED
        BY <2>1, <2>4, <3>1, <3>2, InvsAssumption DEF AmbientLane, Invs
    <2>7. Closing'
      BY <2>1, <2>4, InvsAssumption DEF Closing, NoneExecutes, Invs
    <2> QED
      BY <2>3, <2>5, <2>6, <2>7
  <1>6. CASE WorkerExits \/ DrainEnds \/ WaitForOrdinary \/ Joins \/ Rebind
    <2>1. UNCHANGED <<at, jobs, admission, lockVars, answer, pendingAmbient, closed>>
      BY <1>6 DEF WorkerExits, DrainEnds, DrainTo, WaitForOrdinary, WaitUntil, Joins,
          JoinWorkers, JoinExecutions, JoinDrains, Join, Rebind
    <2>2. EntriesShared' /\ RefsCounted' /\ MutexHeld' /\ LocksReclaimed'
          /\ JobsQueued' /\ AdmissionCounts'
      BY <2>1, AmbientKeepsCounts DEF ATypeOK
    <2>3. ATypeOK' /\ AmbientLane' /\ Closing'
      <3>1. CASE WorkerExits
        BY <2>1, <3>1, CapacityAssumption DEF WorkerExits, ATypeOK, AmbientLane, Closing, NoneExecutes
      <3>2. CASE DrainEnds
        BY <2>1, <3>2, InvsAssumption
           DEF DrainEnds, DrainTo, ATypeOK, AmbientLane, Closing, NoneExecutes, Executing,
               Registered, Holding, InSlot, Invs
      <3>3. CASE WaitForOrdinary
        BY <2>1, <3>3 DEF WaitForOrdinary, WaitUntil, ATypeOK, AmbientLane, Closing, NoneExecutes
      <3>4. CASE Joins
        BY <2>1, <3>4 DEF Joins, JoinWorkers, JoinExecutions, JoinDrains, Join, ATypeOK,
            AmbientLane, Closing, NoneExecutes
      <3>5. CASE Rebind
        <4>1. bound' \in BOOLEAN
          BY <3>5, ZenonT(20) DEF Rebind
        <4> QED
          BY <2>1, <3>5, <4>1 DEF Rebind, ATypeOK, AmbientLane, Closing, NoneExecutes
      <3> QED
        BY <1>6, <3>1, <3>2, <3>3, <3>4, <3>5
    <2> QED
      BY <2>2, <2>3
  <1>7. CASE Close
    <2>1. /\ closed' = TRUE /\ pendingAmbient' = None /\ closer' = "workers"
          /\ at' = [i \in Invs |-> IF i = pendingAmbient THEN "dropped" ELSE at[i]]
          /\ UNCHANGED <<admissionVars, lockVars, drain, draining, answer, worldVars>>
      BY <1>7 DEF Close
    <2>2. \A j \in Invs : at'[j] # at[j] =>
             j \in Ambients /\ j = pendingAmbient /\ at[j] = "pending" /\ at'[j] = "dropped"
      BY <2>1, InvsAssumption DEF AmbientLane, ATypeOK, Invs
    <2>3. closed' \in BOOLEAN
      BY <2>1, ZenonT(20)
    <2>4. ATypeOK'
      BY <2>1, <2>3 DEF ATypeOK, Outside
    <2>5. EntriesShared' /\ RefsCounted' /\ MutexHeld' /\ LocksReclaimed'
          /\ JobsQueued' /\ AdmissionCounts'
      BY <2>1, <2>2, <2>4, AmbientKeepsCounts DEF ATypeOK, Registered, Holding, InSlot
    <2>6. AmbientLane'
      BY <2>1, <2>2, InvsAssumption
         DEF AmbientLane, Invs, Executing, Registered, Holding, InSlot
    <2>7. Closing'
      BY <2>1 DEF Closing
    <2> QED
      BY <2>4, <2>5, <2>6, <2>7
  <1> HIDE DEF AInv
  <1> QED
    BY <1>0, <1>1, <1>2, <1>3, <1>4, <1>5, <1>6, <1>7 DEF ANext, Drain

(* The invariant holds in every reachable state of the runtime.            *)
THEOREM RuntimeInvariant == ASpec => []AInv
  BY InitIsQuiet, StepIsQuiet, PTL DEF ASpec

(* Types, and the admission channel never exceeds its capacity.            *)
THEOREM RuntimeTypes == ASpec => []ATypeOK
  <1>1. AInv => ATypeOK
    BY DEF AInv
  <1> QED
    BY <1>1, RuntimeInvariant, PTL

(* The reference-counted locks serialize the turns of a memory key.        *)
THEOREM TurnsAreSerialized == ASpec => []OneTurnPerKey
  <1>1. AInv => OneTurnPerKey
    BY DEF AInv, EntriesShared, MutexHeld, OneTurnPerKey, Registered
  <1> QED
    BY <1>1, RuntimeInvariant, PTL

(* No lock entry outlives its last user.                                   *)
THEOREM LocksAreReclaimed == ASpec => []LocksReclaimed
  <1>1. AInv => LocksReclaimed
    BY DEF AInv
  <1> QED
    BY <1>1, RuntimeInvariant, PTL

(* Tokens count the unfinished requests, and a token guarantees a place.   *)
THEOREM AdmissionIsExact == ASpec => []AdmissionCounts
  <1>1. AInv => AdmissionCounts
    BY DEF AInv
  <1> QED
    BY <1>1, RuntimeInvariant, PTL

(* Nothing executes once Close has returned.                               *)
THEOREM CloseIsFinal == ASpec => []ClosedIsQuiet
  <1>1. AInv => ClosedIsQuiet
    <2>1. ASSUME AInv, closer = "returned"
          PROVE  workers = 0 /\ drain = "off" /\ NoneExecutes /\ draining = None
      BY <2>1 DEF AInv, Closing, AmbientLane
    <2>2. ASSUME AInv, closer = "returned", NEW i \in Invs
          PROVE  at[i] \notin Executing
      <3>1. CASE i \in Requests
        BY <2>1, <2>2, <3>1 DEF NoneExecutes
      <3>2. CASE i \in Ambients
        BY <2>1, <2>2, <3>2, InvsAssumption DEF AInv, AmbientLane, Invs
      <3> QED
        BY <3>1, <3>2 DEF Invs
    <2> QED
      BY <2>1, <2>2 DEF ClosedIsQuiet
  <1> QED
    BY <1>1, RuntimeInvariant, PTL

(* Keys are exclusive, their locks are reclaimed and admission counts.     *)
THEOREM TurnsStayKeyed == ASpec => []TurnsAreKeyed
  <1>1. ATypeOK /\ OneTurnPerKey /\ LocksReclaimed /\ AdmissionCounts => TurnsAreKeyed
    BY DEF TurnsAreKeyed
  <1> QED
    BY <1>1, RuntimeTypes, TurnsAreSerialized, LocksAreReclaimed, AdmissionIsExact, PTL

-----------------------------------------------------------------------------
LEMMA LeastOfNumbers ==
  ASSUME NEW S \in SUBSET Nat, S # {}
  PROVE  \E x \in S : \A y \in S : x <= y
<1> DEFINE Less == {pair \in Nat \X Nat : pair[1] < pair[2]}
<1>1. IsWellFoundedOn(Less, Nat)
  BY NatLessThanWellFounded, Zenon DEF OpToRel
<1>2. PICK x \in S : \A y \in S : ~(<<y, x>> \in Less)
  <2> HIDE DEF Less
  <2> QED BY <1>1, WFMin
<1>3. ASSUME NEW y \in S PROVE x <= y
  <2>1. x \in Nat /\ y \in Nat /\ ~(<<y, x>> \in Less)
    BY <1>2
  <2>2. y < x => <<y, x>> \in Less
    BY <2>1
  <2> QED BY <2>1, <2>2
<1> QED BY <1>3

\* Exchanges are told apart by their ids.
Told(xs) == xs \subseteq Exchange /\ \A x, y \in xs : x.id = y.id => x = y

LEMMA EarliestExists ==
  ASSUME NEW xs, Told(xs), xs # {}
  PROVE  \E x \in xs : \A y \in xs \ {x} : Earlier(x, y)
<1>1. \A x \in xs : x.created \in Nat /\ x.id \in Nat
  BY DEF Told, Exchange
<1>2. PICK t \in {x.created : x \in xs} : \A u \in {x.created : x \in xs} : t <= u
  BY <1>1, LeastOfNumbers
<1>3. PICK first : first = {x \in xs : x.created = t}
  OBVIOUS
<1>4. {x.id : x \in first} \in SUBSET Nat /\ {x.id : x \in first} # {}
  BY <1>1, <1>2, <1>3
<1>5. PICK i \in {x.id : x \in first} : \A j \in {x.id : x \in first} : i <= j
  BY <1>4, LeastOfNumbers
<1>6. PICK x \in first : x.id = i
  BY <1>5
<1>7. ASSUME NEW y \in xs \ {x} PROVE Earlier(x, y)
  <2>1. x \in xs /\ x.created = t /\ t <= y.created /\ y.id # x.id
    BY <1>2, <1>3, <1>6 DEF Told
  <2>2. y.created = t => x.id <= y.id
    BY <1>3, <1>5, <1>6
  <2> QED BY <1>1, <2>1, <2>2 DEF Earlier
<1> QED BY <1>3, <1>6, <1>7

LEMMA GreatestOfNumbers ==
  ASSUME NEW S \in SUBSET Nat, NEW top \in Nat, \A x \in S : x <= top, S # {}
  PROVE  \E x \in S : \A y \in S : y <= x
<1>1. PICK T : T = {top - x : x \in S}
  OBVIOUS
<1>2. T \in SUBSET Nat /\ T # {}
  <2>1. \A x \in S : x \in Nat /\ top - x \in Nat
    OBVIOUS
  <2> QED BY <1>1, <2>1
<1>3. PICK d \in T : \A e \in T : d <= e
  BY <1>2, LeastOfNumbers
<1>4. PICK x \in S : d = top - x
  BY <1>1, <1>3
<1>5. ASSUME NEW y \in S PROVE y <= x
  <2>1. top - y \in T /\ top - x <= top - y
    BY <1>1, <1>3, <1>4
  <2> QED BY <2>1
<1> QED BY <1>5

LEMMA LatestExists ==
  ASSUME NEW xs, Told(xs), xs # {}
  PROVE  Latest(xs) \in xs /\ \A y \in xs \ {Latest(xs)} : Earlier(y, Latest(xs))
<1>0. MaxId \in Nat /\ MaxClock \in Nat
  BY TTLAssumption
<1>1. \A x \in xs : x.created \in 0..MaxClock /\ x.id \in 1..MaxId
  BY DEF Told, Exchange
<1>2. PICK t \in {x.created : x \in xs} : \A u \in {x.created : x \in xs} : u <= t
  <2>1. PICK S : S = {x.created : x \in xs}
    OBVIOUS
  <2>2. S \in SUBSET Nat /\ (\A u \in S : u <= MaxClock) /\ S # {}
    BY <1>0, <1>1, <2>1
  <2> QED BY <1>0, <2>1, <2>2, GreatestOfNumbers
<1>3. PICK last : last = {x \in xs : x.created = t}
  OBVIOUS
<1>4. PICK S : S = {x.id : x \in last}
  OBVIOUS
<1>5. S \in SUBSET Nat /\ (\A u \in S : u <= MaxId) /\ S # {}
  BY <1>0, <1>1, <1>2, <1>3, <1>4
<1>6. PICK i \in S : \A j \in S : j <= i
  BY <1>0, <1>5, GreatestOfNumbers
<1>7. PICK x \in last : x.id = i
  BY <1>4, <1>6
<1>8. ASSUME NEW y \in xs \ {x} PROVE Earlier(y, x)
  <2>1. x \in xs /\ x.created = t /\ y.created <= t /\ y.id # x.id
    BY <1>2, <1>3, <1>7 DEF Told
  <2>2. y.created = t => y.id <= x.id
    BY <1>3, <1>4, <1>6, <1>7
  <2>3. x.created \in Nat /\ y.created \in Nat /\ x.id \in Nat /\ y.id \in Nat
    BY <1>1, <2>1
  <2> QED BY <2>1, <2>2, <2>3 DEF Earlier
<1>9. \E z \in xs : \A y \in xs \ {z} : Earlier(y, z)
  BY <1>3, <1>7, <1>8
<1> QED BY <1>9 DEF Latest

\* A set of exchanges that are told apart is finite.
LEMMA ToldIsFinite ==
  ASSUME NEW xs, Told(xs)
  PROVE  IsFiniteSet(xs) /\ Cardinality(xs) \in Nat
<1>1. PICK f : f = [x \in xs |-> x.id]
  OBVIOUS
<1>2. IsFiniteSet(1..MaxId)
  BY TTLAssumption, FS_Interval
<1>3. f \in Injection(xs, 1..MaxId)
  BY <1>1 DEF Told, Exchange, Injection, IsInjective
<1>4. IsFiniteSet(xs)
  BY <1>2, <1>3, FS_Injection
<1> QED BY <1>4, FS_CardinalityType

\* At most n exchanges are the newest n.
LEMMA NewestAreFew ==
  ASSUME NEW xs, Told(xs), NEW n \in Nat
  PROVE  Newest(xs, n) \subseteq xs /\ Cardinality(Newest(xs, n)) <= n
<1>1. PICK few : few = Newest(xs, n)
  OBVIOUS
<1>2. few \subseteq xs /\ Told(few)
  BY <1>1 DEF Newest, Told
<1>3. CASE few = {}
  BY <1>1, <1>2, <1>3, FS_EmptySet
<1>4. CASE few # {}
  <2>1. PICK x \in few : \A y \in few \ {x} : Earlier(x, y)
    BY <1>2, <1>4, EarliestExists
  <2>2. PICK later : later = {y \in xs : Earlier(x, y)}
    OBVIOUS
  <2>3. Cardinality(later) < n
    BY <1>1, <2>1, <2>2 DEF Newest
  <2>4. few \subseteq later \union {x}
    BY <1>2, <2>1, <2>2
  <2>5. IsFiniteSet(later) /\ Cardinality(later) \in Nat
    <3>1. later \subseteq xs
      BY <2>2
    <3> QED BY <3>1, ToldIsFinite, FS_Subset, FS_CardinalityType
  <2>6. /\ IsFiniteSet(later \union {x}) /\ Cardinality(later \union {x}) <= Cardinality(later) + 1
        /\ Cardinality(later \union {x}) \in Nat
    <3>1. PICK more : more = later \union {x}
      OBVIOUS
    <3>2. /\ IsFiniteSet(more)
          /\ Cardinality(more) = IF x \in later THEN Cardinality(later) ELSE Cardinality(later) + 1
      BY <2>5, <3>1, FS_AddElement
    <3> QED BY <2>5, <3>1, <3>2
  <2>7. Cardinality(few) <= Cardinality(later \union {x}) /\ Cardinality(few) \in Nat
    BY <1>2, <2>4, <2>6, FS_Subset, ToldIsFinite
  <2> QED BY <1>1, <1>2, <2>3, <2>5, <2>6, <2>7
<1> QED BY <1>3, <1>4

\* Exchanges of whose successors there are fewer than n are among the newest n.
LEMMA FewAreNewest ==
  ASSUME NEW xs, Told(xs), NEW n \in Nat, NEW some \in SUBSET xs, Cardinality(some) <= n,
         \A x \in some, y \in xs : Earlier(x, y) => y \in some
  PROVE  some \subseteq Newest(xs, n)
<1> SUFFICES ASSUME NEW x \in some PROVE x \in Newest(xs, n)
  OBVIOUS
<1>1. PICK later : later = {y \in xs : Earlier(x, y)}
  OBVIOUS
<1>2. IsFiniteSet(some) /\ Cardinality(some) \in Nat
  BY ToldIsFinite, FS_Subset, FS_CardinalityType
<1>3. later \subseteq some \ {x}
  <2>1. ~Earlier(x, x)
    BY DEF Earlier, Told, Exchange
  <2> QED BY <1>1, <2>1
<1>4. IsFiniteSet(some \ {x}) /\ Cardinality(some \ {x}) = Cardinality(some) - 1
  BY <1>2, FS_RemoveElement
<1>5. Cardinality(later) <= Cardinality(some \ {x}) /\ Cardinality(later) \in Nat
  BY <1>3, <1>4, FS_Subset, FS_CardinalityType
<1>6. Cardinality(later) < n
  BY <1>2, <1>4, <1>5
<1> QED BY <1>1, <1>6 DEF Newest

LEMMA SomeAreCompacted ==
  ASSUME NEW w, Told(w), ~Fits(w)
  PROVE  ToCompact(w) \subseteq w /\ ToCompact(w) # {} /\ Told(ToCompact(w))
         /\ Cardinality(w \ ToCompact(w)) <= RawTurns
<1>1. RawTurns \in Nat
  BY WindowAssumption
<1>2. Newest(w, RawTurns) \subseteq w /\ Cardinality(Newest(w, RawTurns)) <= RawTurns
  BY <1>1, NewestAreFew
<1>3. w \ ToCompact(w) = Newest(w, RawTurns)
  BY <1>2 DEF ToCompact
<1>4. w # Newest(w, RawTurns)
  BY <1>2 DEF Fits
<1> QED BY <1>2, <1>3, <1>4 DEF ToCompact, Told

-----------------------------------------------------------------------------
(* The memory of a conversation *)

Opened(now) == {x \in rows : Live(x, now) /\ x.id > summary.cursor}

\* What holds on any clock.
MemoryTypes ==
  /\ clock \in 0..MaxClock /\ stepped \in BOOLEAN /\ Told(rows) /\ nextId \in 1..(MaxId + 1)
  /\ summary \in Summary \union {NoSummary} /\ known \in Summary \union {NoSummary}
  /\ step \in {"idle", "read", "summarizing", "storing", "running", "recording"}
  /\ asked \in 0..MaxClock /\ Told(window) /\ acted \in BOOLEAN
  /\ context \in [raw : SUBSET (1..MaxId), covers : SUBSET (1..MaxId)]
  /\ \A x \in rows : x.id < nextId /\ x.expires = x.created + TTL
  /\ step # "idle" => nextId <= MaxId
  /\ step = "summarizing" => ~Fits(window)
  /\ step = "storing" => known \in Summary /\ ~Fits(window)

\* Exchanges are in the order of their ids, none is from the future.
InOrder(xs) ==
  /\ \A x \in xs : x.created <= clock
  /\ \A x, y \in xs : x.id < y.id => x.created <= y.created

\* What the text of a summary covers ends at its cursor, and whatever lives of
\* what loads skip is in the text and dies before it.
SummarySound ==
  /\ summary.cursor < nextId /\ summary.covers \subseteq 1..summary.cursor
  /\ \A x \in rows : x.id <= summary.cursor =>
       /\ x.expires <= summary.expires
       /\ Live(x, clock) => x.id \in summary.covers

\* How many exchanges a load has yet to read.
FewOpened ==
  Cardinality(Opened(clock)) <= IF step \in {"running", "recording"} THEN RawTurns ELSE RawTurns + 1

\* What the turn in hand has read.
ReadSound ==
  /\ step = "read" => asked <= clock /\ Opened(clock) \subseteq window
  /\ step \in {"summarizing", "storing"} =>
       /\ known.covers \subseteq 1..known.cursor
       /\ \A x \in rows : Live(x, clock) /\ x.id <= known.cursor => x.id \in known.covers
       /\ \A x \in rows : Live(x, clock) /\ x.id > known.cursor => x \in window
       /\ \A x \in window : x.id < nextId
  /\ step = "summarizing" => \A x \in window : x.id > known.cursor
  /\ step = "storing" =>
       /\ \A x \in window : x.id > known.cursor <=> x \notin ToCompact(window)
       /\ known.cursor < nextId
  /\ step \in {"running", "recording"} =>
       /\ context.raw \intersect context.covers = {}
       /\ \A x \in rows : Live(x, clock) => x.id \in context.raw \union context.covers

\* As long as the clock has not stepped back.
MemorySound ==
  /\ InOrder(rows) /\ InOrder(window) /\ SummarySound /\ FewOpened /\ ReadSound
  /\ \A x \in window : x.id < nextId

MemoryInv == MemoryTypes /\ (~stepped => MemorySound)

-----------------------------------------------------------------------------
LEMMA SummaryShapes ==
  /\ NoSummary.cursor = 0 /\ NoSummary.covers = {} /\ NoSummary.expires = 0
  /\ \A s \in Summary \union {NoSummary} :
       s.cursor \in 0..MaxId /\ s.covers \subseteq 1..MaxId /\ s.expires \in Int
  /\ NoContext \in [raw : SUBSET (1..MaxId), covers : SUBSET (1..MaxId)]
BY TTLAssumption DEF NoSummary, Summary, NoContext

LEMMA ToldSubset == ASSUME NEW xs, Told(xs), NEW ys \in SUBSET xs PROVE Told(ys)
BY DEF Told

LEMMA ToldIds == ASSUME NEW xs, Told(xs) PROVE Ids(xs) \subseteq 1..MaxId
BY DEF Told, Ids, Exchange

LEMMA CompactedIsSummary ==
  ASSUME NEW w, Told(w), ~Fits(w), NEW s \in Summary \union {NoSummary}
  PROVE  Compacted(w, s) \in Summary
<1>1. PICK done : done = ToCompact(w)
  OBVIOUS
<1>2. Told(done) /\ Latest(done) \in done /\ done \subseteq w
  BY <1>1, SomeAreCompacted, LatestExists
<1>3. Latest(done).id \in 1..MaxId /\ Ids(done) \subseteq 1..MaxId
  BY <1>2, ToldIds DEF Told, Exchange
<1> QED BY <1>1, <1>3, SummaryShapes DEF Compacted, Summary

LEMMA TypesKeep == ASSUME MemoryTypes, MemoryNext PROVE MemoryTypes'
<1> USE DEF MemoryTypes
<1>0. /\ NoSummary \in Summary \union {NoSummary} /\ Told({})
      /\ MaxId \in Nat /\ MaxClock \in Nat /\ TTL \in Nat
  BY TTLAssumption DEF Told
<1>1. CASE Tick
  BY <1>0, <1>1 DEF Tick, tableVars, turnVars
<1>2. CASE StepBack
  BY <1>0, <1>2 DEF StepBack, tableVars, turnVars
<1>3. ASSUME NEW now, rows' = Kept(now) \/ rows' = rows
      PROVE  Told(rows') /\ \A x \in rows' : x.id < nextId /\ x.expires = x.created + TTL
  BY <1>3, ToldSubset DEF Kept
<1>4. CASE OtherKeyCleansUp
  <2>1. summary' \in Summary \union {NoSummary} /\ UNCHANGED <<clock, stepped, nextId, turnVars>>
    BY <1>4 DEF OtherKeyCleansUp, KeptSummary, timeVars
  <2> QED BY <1>3, <1>4, <2>1 DEF OtherKeyCleansUp, turnVars
<1>5. CASE ReadRows
  <2>1. window' \subseteq rows
    BY <1>5 DEF ReadRows, Newest, Kept
  <2> QED BY <1>5, <2>1, ToldSubset DEF ReadRows, timeVars, tableVars
<1>6. ASSUME NEW raw, Told(raw), NEW s \in Summary \union {NoSummary}, Started(raw, s)
      PROVE  /\ step' = "running" /\ Told(window') /\ known' \in Summary \union {NoSummary}
             /\ context' \in [raw : SUBSET (1..MaxId), covers : SUBSET (1..MaxId)]
  BY <1>0, <1>6, ToldIds, SummaryShapes DEF Started
<1>7. CASE ReadSummary
  <2>1. PICK s : s = KeptSummary(asked)
    OBVIOUS
  <2>2. PICK w : w = Eligible(window, s)
    OBVIOUS
  <2>3. s \in Summary \union {NoSummary} /\ Told(w)
    BY <2>1, <2>2, ToldSubset DEF KeptSummary, Eligible
  <2>4. /\ step = "read" /\ UNCHANGED <<clock, stepped, rows, nextId, summary, asked, acted>>
        /\ Fits(w) => Started(w, s)
        /\ ~Fits(w) => step' = "summarizing" /\ window' = w /\ known' = s /\ UNCHANGED context
    BY <1>7, <2>1, <2>2 DEF ReadSummary, timeVars, tableVars
  <2>5. CASE Fits(w)
    BY <1>6, <2>3, <2>4, <2>5
  <2>6. CASE ~Fits(w)
    BY <2>3, <2>4, <2>6
  <2> QED BY <2>5, <2>6
<1>8. ASSUME GiveUp
      PROVE  /\ step' = "idle" /\ Told(window') /\ known' \in Summary \union {NoSummary}
             /\ context' \in [raw : SUBSET (1..MaxId), covers : SUBSET (1..MaxId)]
             /\ acted' \in BOOLEAN
  BY <1>0, <1>8, SummaryShapes DEF GiveUp
<1>9. CASE Summarize
  <2>1. step = "summarizing" /\ UNCHANGED <<clock, stepped, rows, nextId, summary, asked>>
    BY <1>9 DEF Summarize, timeVars, tableVars
  <2>2. CASE GiveUp
    BY <1>8, <2>1, <2>2
  <2>3. CASE step' = "storing" /\ known' = Compacted(window, known)
             /\ UNCHANGED <<window, context, acted>>
    BY <2>1, <2>3, CompactedIsSummary
  <2> QED BY <1>9, <2>2, <2>3 DEF Summarize
<1>10. CASE Store
  <2>1. PICK e \in Ends :
          /\ step = "storing" /\ UNCHANGED <<clock, stepped, rows, nextId, asked>>
          /\ summary' = (IF e.applied THEN [known EXCEPT !.expires = clock + TTL] ELSE summary)
          /\ IF e.ok THEN Started(window \ ToCompact(window), known) /\ UNCHANGED acted ELSE GiveUp
    BY <1>10 DEF Store, timeVars
  <2>2. [known EXCEPT !.expires = clock + TTL] \in Summary
    BY <1>0, <2>1 DEF Summary
  <2>3. CASE e.ok
    <3>1. Told(window \ ToCompact(window))
      BY ToldSubset
    <3> QED BY <1>6, <2>1, <2>2, <2>3, <3>1
  <2>4. CASE ~e.ok
    BY <1>8, <2>1, <2>2, <2>4
  <2> QED BY <2>3, <2>4
<1>11. CASE Act \/ EndsWithRecord
  BY <1>11 DEF Act, EndsWithRecord, timeVars, tableVars
<1>12. CASE EndsWithout \/ Crash
  <2>1. GiveUp /\ UNCHANGED <<clock, stepped, rows, nextId, summary, asked>>
    BY <1>12 DEF EndsWithout, Crash, timeVars, tableVars
  <2> QED BY <1>8, <2>1
<1>13. CASE Record
  <2>1. GiveUp /\ step = "recording" /\ UNCHANGED <<clock, stepped, asked>>
    BY <1>13 DEF Record, timeVars
  <2>2. CASE UNCHANGED tableVars
    BY <1>8, <2>1, <2>2 DEF tableVars
  <2>3. CASE /\ rows' = Kept(clock) \union {[id |-> NewId, created |-> clock, expires |-> clock + TTL]}
             /\ nextId' = nextId + 1 /\ summary' = KeptSummary(clock)
    <3>1. PICK x : x = [id |-> nextId, created |-> clock, expires |-> clock + TTL]
      OBVIOUS
    <3>2. x \in Exchange /\ x.id = nextId /\ x.expires = x.created + TTL
      BY <1>0, <2>1, <3>1 DEF Exchange
    <3>3. rows' = Kept(clock) \union {x} /\ Kept(clock) \subseteq rows
      BY <2>3, <3>1 DEF NewId, Kept
    <3>4. \A y \in rows : y.id \in Nat
      BY DEF Told, Exchange
    <3>5. Told(rows')
      BY <3>2, <3>3, <3>4 DEF Told
    <3>6. summary' \in Summary \union {NoSummary} /\ nextId' \in 1..(MaxId + 1)
      BY <1>0, <2>1, <2>3 DEF KeptSummary
    <3>7. \A y \in rows' : y.id < nextId' /\ y.expires = y.created + TTL
      BY <2>3, <3>2, <3>3, <3>4
    <3> QED BY <1>8, <2>1, <3>5, <3>6, <3>7
  <2> QED BY <1>13, <2>2, <2>3 DEF Record
<1> QED BY <1>1, <1>2, <1>4, <1>5, <1>7, <1>9, <1>10, <1>11, <1>12, <1>13 DEF MemoryNext

-----------------------------------------------------------------------------
(* As long as the clock does not step back *)

LEMMA Numbers ==
  ASSUME MemoryTypes
  PROVE  /\ clock \in Nat /\ nextId \in Nat /\ asked \in Nat /\ TTL \in Nat
         /\ RawTurns \in Nat /\ RawTurns + 1 <= Turns /\ Turns \in Nat
         /\ summary.cursor \in Nat /\ summary.expires \in Int
         /\ known.cursor \in Nat /\ known.expires \in Int
         /\ \A x \in rows \union window :
              /\ x.id \in Nat /\ x.id > 0 /\ x.created \in Nat /\ x.expires \in Int
              /\ x.id \in 1..MaxId
<1>1. \A s \in Summary \union {NoSummary} : s.cursor \in 0..MaxId /\ s.expires \in Int
  BY SummaryShapes
<1>2. MaxId \in Nat /\ MaxClock \in Nat /\ TTL \in Nat /\ RawTurns \in Nat /\ Turns \in Nat
      /\ RawTurns + 1 <= Turns
  BY WindowAssumption, TTLAssumption
<1>3. \A x \in rows \union window : x \in Exchange
  BY DEF MemoryTypes, Told
<1> QED BY <1>1, <1>2, <1>3 DEF MemoryTypes, Exchange

\* Fewer are opened when some have gone.
LEMMA FewerOpened ==
  ASSUME MemoryTypes, NEW some \in SUBSET Opened(clock), NEW n \in Nat, Cardinality(Opened(clock)) <= n
  PROVE  Cardinality(some) <= n
<1>1. Told(Opened(clock)) /\ Told(some)
  BY ToldSubset DEF MemoryTypes, Opened
<1>2. Cardinality(some) <= Cardinality(Opened(clock))
        /\ Cardinality(some) \in Nat /\ Cardinality(Opened(clock)) \in Nat
  BY <1>1, ToldIsFinite, FS_Subset
<1> QED BY <1>2

\* In a set in order, the later of two exchanges has the higher id.
LEMMA EarlierIsLower ==
  ASSUME NEW xs, Told(xs), InOrder(xs), NEW x \in xs, NEW y \in xs
  PROVE  (Earlier(x, y) <=> x.id < y.id)
<1>1. x.id \in Nat /\ y.id \in Nat /\ x.created \in Nat /\ y.created \in Nat
  BY TTLAssumption DEF Told, Exchange
<1>2. x.id < y.id => x.created <= y.created
  BY DEF InOrder
<1>3. y.id < x.id => y.created <= x.created
  BY DEF InOrder
<1>4. x.id = y.id => x = y
  BY DEF Told
<1> QED BY <1>1, <1>2, <1>3, <1>4 DEF Earlier

\* A summary that is dead covers nothing that lives.
LEMMA DeadCoversDead ==
  ASSUME MemoryTypes, SummarySound, NEW now \in Nat, now <= clock
  PROVE  /\ KeptSummary(now) \in Summary \union {NoSummary}
         /\ KeptSummary(now).covers \subseteq 1..KeptSummary(now).cursor
         /\ \A x \in rows : Live(x, clock) =>
              /\ (x.id > summary.cursor <=> x.id > KeptSummary(now).cursor)
              /\ (x.id <= KeptSummary(now).cursor => x.id \in KeptSummary(now).covers)
<1>1. CASE Live(summary, now)
  BY <1>1, Numbers DEF KeptSummary, SummarySound, MemoryTypes
<1>2. CASE ~Live(summary, now)
  <2>1. KeptSummary(now) = NoSummary
    BY <1>2 DEF KeptSummary
  <2>2. ASSUME NEW x \in rows, Live(x, clock) PROVE x.id > summary.cursor /\ x.id > 0
    <3>1. x.id \in Nat /\ x.id > 0 /\ x.expires \in Int /\ summary.cursor \in Nat
          /\ summary.expires \in Int /\ clock \in Nat
      BY Numbers
    <3>2. x.id <= summary.cursor => x.expires <= summary.expires
      BY DEF SummarySound
    <3> QED BY <1>2, <2>2, <3>1, <3>2 DEF Live
  <2>3. \A x \in rows : Live(x, clock) => x.id > 0 /\ ~(x.id <= 0)
    BY <2>2, Numbers
  <2>4. NoSummary.covers \subseteq 1..NoSummary.cursor /\ NoSummary \in Summary \union {NoSummary}
    BY SummaryShapes
  <2> QED BY <2>1, <2>2, <2>3, <2>4, SummaryShapes
<1> QED BY <1>1, <1>2

\* The clean-up and the passing of time open nothing.
LEMMA CleanedUp ==
  ASSUME MemoryTypes, SummarySound, rows' \subseteq rows, UNCHANGED <<nextId>>, clock' \in Nat,
         clock <= clock', summary' = summary \/ summary' = KeptSummary(clock)
  PROVE  SummarySound' /\ Opened(clock)' \subseteq Opened(clock)
<1>1. clock \in Nat /\ \A x \in rows : x.expires \in Int
  BY Numbers
<1>2. \A x \in rows : Live(x, clock') => Live(x, clock)
  BY <1>1 DEF Live
<1>3. CASE summary' = summary
  BY <1>2, <1>3 DEF SummarySound, Opened, Live
<1>4. CASE summary' = KeptSummary(clock) /\ ~Live(summary, clock)
  <2>1. summary' = NoSummary
    BY <1>4 DEF KeptSummary
  <2>2. \A x \in rows : x.id \in Nat /\ x.id > 0
    BY Numbers
  <2>3. SummarySound'
    BY <2>1, <2>2, SummaryShapes, Numbers DEF SummarySound, MemoryTypes
  <2>4. \A x \in rows : Live(x, clock) => x.id > summary.cursor
    BY <1>1, <1>4, <2>2, DeadCoversDead, SummaryShapes DEF KeptSummary
  <2>5. Opened(clock)' \subseteq Opened(clock)
    BY <1>2, <2>4 DEF Opened, Live
  <2> QED BY <2>3, <2>5
<1> QED BY <1>3, <1>4 DEF KeptSummary

LEMMA TimeKeeps ==
  ASSUME MemoryTypes, MemorySound, Tick \/ OtherKeyCleansUp
  PROVE  MemorySound'
<1>1. /\ rows' \subseteq rows /\ UNCHANGED <<nextId, turnVars, stepped>> /\ clock' \in Nat /\ clock <= clock'
      /\ summary' = summary \/ summary' = KeptSummary(clock)
  BY Numbers DEF Tick, OtherKeyCleansUp, timeVars, tableVars, Kept
<1>2. UNCHANGED <<step, asked, window, known, context, acted>>
  BY <1>1 DEF turnVars
<1>3. SummarySound' /\ Opened(clock)' \subseteq Opened(clock)
  BY <1>1, CleanedUp DEF MemorySound
<1>4. clock \in Nat /\ asked \in Nat /\ RawTurns \in Nat
      /\ \A x \in rows \union window : x.expires \in Int /\ x.created \in Nat
  BY Numbers
<1>5. \A x \in rows : Live(x, clock') => Live(x, clock)
  BY <1>1, <1>4 DEF Live
<1>6. InOrder(rows)' /\ InOrder(window)'
  BY <1>1, <1>2, <1>4 DEF MemorySound, InOrder
<1>7. FewOpened'
  <2>1. PICK n \in Nat : n = IF step \in {"running", "recording"} THEN RawTurns ELSE RawTurns + 1
    BY <1>4
  <2>2. Cardinality(Opened(clock)) <= n
    BY <2>1 DEF MemorySound, FewOpened
  <2>3. Cardinality(Opened(clock)') <= n
    BY <1>3, <2>2, FewerOpened
  <2> QED BY <1>2, <2>1, <2>3 DEF FewOpened
<1>8. ReadSound'
  <2>1. step' = "read" => asked' <= clock' /\ Opened(clock)' \subseteq window'
    BY <1>1, <1>2, <1>3, <1>4 DEF MemorySound, ReadSound
  <2>2. \A x \in rows' : Live(x, clock)' => x \in rows /\ Live(x, clock)
    BY <1>1, <1>5 DEF Live
  <2>3. ToCompact(window)' = ToCompact(window)
    BY <1>2 DEF ToCompact
  <2> QED BY <1>1, <1>2, <2>1, <2>2, <2>3 DEF MemorySound, ReadSound
<1> QED BY <1>1, <1>2, <1>3, <1>6, <1>7, <1>8 DEF MemorySound

\* A turn that ends, or a step that leaves the tables alone.
LEMMA EndKeeps ==
  ASSUME MemoryTypes, MemorySound, step' = "idle", window' = {}, UNCHANGED <<clock, rows, nextId, summary>>
  PROVE  MemorySound'
<1>1. Opened(clock)' = Opened(clock)
  BY DEF Opened, Live
<1>2. FewOpened'
  <2>1. Cardinality(Opened(clock)) <= RawTurns + 1
    <3>1. Told(Opened(clock))
      BY ToldSubset DEF MemoryTypes, Opened
    <3>2. Cardinality(Opened(clock)) \in Nat /\ RawTurns \in Nat
      BY <3>1, Numbers, ToldIsFinite
    <3> QED BY <3>2 DEF MemorySound, FewOpened
  <2> QED BY <1>1, <2>1 DEF FewOpened
<1> QED BY <1>2 DEF MemorySound, InOrder, SummarySound, ReadSound, Live

LEMMA LoadingKeeps ==
  ASSUME MemoryTypes, MemorySound, ReadRows
  PROVE  MemorySound'
<1>1. /\ step = "idle" /\ asked' = clock /\ window' = Newest(Kept(clock), Turns) /\ step' = "read"
      /\ UNCHANGED <<clock, rows, nextId, summary, known, context>>
  BY DEF ReadRows, timeVars, tableVars
<1>2. Kept(clock) \subseteq rows /\ Told(Kept(clock)) /\ InOrder(Kept(clock))
  BY ToldSubset DEF MemoryTypes, MemorySound, InOrder, Kept
<1>3. Opened(clock)' = Opened(clock) /\ Opened(clock) \subseteq Kept(clock)
  BY <1>1 DEF Opened, Live, Kept
<1>4. Opened(clock) \subseteq Newest(Kept(clock), Turns)
  <2>1. ASSUME NEW x \in Opened(clock), NEW y \in Kept(clock), Earlier(x, y) PROVE y \in Opened(clock)
    <3>1. x.id < y.id /\ x.id > summary.cursor
      BY <1>2, <1>3, <2>1, EarlierIsLower DEF Opened
    <3>2. x.id \in Nat /\ y.id \in Nat /\ summary.cursor \in Nat
      BY <1>2, <1>3, Numbers
    <3> QED BY <3>1, <3>2 DEF Kept, Opened
  <2>2. Cardinality(Opened(clock)) <= Turns
    <3>1. Cardinality(Opened(clock)) <= RawTurns + 1
      BY <1>1 DEF MemorySound, FewOpened
    <3>2. Told(Opened(clock))
      BY <1>2, <1>3, ToldSubset
    <3> QED BY <3>1, <3>2, Numbers, ToldIsFinite
  <2> QED BY <1>2, <1>3, <2>1, <2>2, Numbers, FewAreNewest
<1>5. window' \subseteq rows
  BY <1>1, <1>2 DEF Newest
<1>6. InOrder(rows)' /\ InOrder(window)' /\ \A x \in window' : x.id < nextId'
  BY <1>1, <1>5 DEF MemorySound, MemoryTypes, InOrder
<1>7. SummarySound' /\ FewOpened'
  BY <1>1, <1>3 DEF MemorySound, SummarySound, FewOpened, Live
<1>8. ReadSound'
  BY <1>1, <1>3, <1>4, Numbers DEF ReadSound
<1> QED BY <1>6, <1>7, <1>8 DEF MemorySound
\* What is summarised lies below the cursor that stands for it, what stays as
\* it is lies above.
LEMMA CursorDivides ==
  ASSUME NEW w, Told(w), InOrder(w), ~Fits(w), NEW s, NEW made, made = Compacted(w, s)
  PROVE  /\ \A x \in w : (x.id > made.cursor <=> x \notin ToCompact(w))
         /\ \E x \in w : x.id = made.cursor
         /\ made.covers = s.covers \union Ids(ToCompact(w))
<1>1. PICK done : done = ToCompact(w)
  OBVIOUS
<1>2. PICK last : last = Latest(done)
  OBVIOUS
<1>3. done \subseteq w /\ Told(done) /\ last \in done /\ \A y \in done \ {last} : Earlier(y, last)
  BY <1>1, <1>2, SomeAreCompacted, LatestExists
<1>4. made.cursor = last.id /\ made.covers = s.covers \union Ids(done)
  BY <1>1, <1>2 DEF Compacted
<1>5. \A x \in w : x.id \in Nat
  BY DEF Told, Exchange
<1>6. ASSUME NEW x \in done PROVE ~(x.id > last.id)
  BY <1>3, <1>5, <1>6, EarlierIsLower
<1>7. ASSUME NEW x \in w \ done PROVE x.id > last.id
  <2>1. PICK after : after = {y \in w : Earlier(last, y)}
    OBVIOUS
  <2>2. PICK beyond : beyond = {y \in w : Earlier(x, y)}
    OBVIOUS
  <2>3. RawTurns \in Nat /\ Cardinality(beyond) < RawTurns /\ ~(Cardinality(after) < RawTurns)
    BY <1>1, <1>3, <1>7, <2>1, <2>2, WindowAssumption DEF ToCompact, Newest
  <2>4. ASSUME x.id <= last.id PROVE after \subseteq beyond
    <3>1. ASSUME NEW y \in after PROVE y \in beyond
      <4>1. y \in w /\ last.id < y.id
        BY <1>3, <2>1, <3>1, EarlierIsLower
      <4>2. x.id < y.id
        BY <1>3, <1>5, <2>4, <4>1
      <4> QED BY <2>2, <4>1, <4>2, EarlierIsLower
    <3> QED BY <3>1
  <2>5. ASSUME after \subseteq beyond PROVE FALSE
    <3>1. Told(beyond) /\ Told(after)
      BY <2>1, <2>2, ToldSubset
    <3>2. Cardinality(after) <= Cardinality(beyond) /\ Cardinality(beyond) \in Nat /\ Cardinality(after) \in Nat
      BY <2>5, <3>1, ToldIsFinite, FS_Subset
    <3> QED BY <2>3, <3>2
  <2> QED BY <1>3, <1>5, <2>4, <2>5
<1> QED BY <1>1, <1>3, <1>4, <1>6, <1>7

LEMMA SummaryIsRead ==
  ASSUME MemoryTypes, MemorySound, ReadSummary
  PROVE  MemorySound'
<1>1. PICK s : s = KeptSummary(asked)
  OBVIOUS
<1>2. PICK w : w = Eligible(window, s)
  OBVIOUS
<1>3. /\ step = "read" /\ UNCHANGED <<clock, stepped, rows, nextId, summary, asked, acted>>
      /\ Fits(w) => Started(w, s)
      /\ ~Fits(w) => step' = "summarizing" /\ window' = w /\ known' = s /\ UNCHANGED context
  BY <1>1, <1>2 DEF ReadSummary, timeVars, tableVars
<1>4. asked \in Nat /\ asked <= clock /\ Opened(clock) \subseteq window /\ SummarySound
  BY <1>3, Numbers DEF MemorySound, ReadSound
<1>5. /\ s \in Summary \union {NoSummary} /\ s.covers \subseteq 1..s.cursor
      /\ \A x \in rows : Live(x, clock) =>
           /\ (x.id > summary.cursor <=> x.id > s.cursor)
           /\ (x.id <= s.cursor => x.id \in s.covers)
  BY <1>1, <1>4, DeadCoversDead
<1>6. w \subseteq window /\ Told(w) /\ \A x \in w : x.id > s.cursor
  BY <1>2, ToldSubset DEF Eligible, MemoryTypes
<1>7. Opened(clock) \subseteq w /\ Opened(clock)' = Opened(clock)
  BY <1>2, <1>3, <1>4, <1>5 DEF Opened, Eligible, Live
<1>8. \A x \in rows : Live(x, clock) => x.id <= s.cursor \/ x \in w
  <2>1. \A x \in rows : x.id \in Nat /\ s.cursor \in Nat
    BY <1>5, Numbers, SummaryShapes
  <2> QED BY <1>5, <1>7, <2>1 DEF Opened
<1>9. InOrder(rows)' /\ SummarySound'
  BY <1>3 DEF MemorySound, InOrder, SummarySound, Live
<1>10. CASE Fits(w)
  <2>1. /\ step' = "running" /\ window' = {}
        /\ context'.raw = Ids(w) /\ context'.covers = s.covers
    BY <1>3, <1>10 DEF Started
  <2>2. Cardinality(Opened(clock)) <= RawTurns
    <3>1. Cardinality(w) <= RawTurns /\ RawTurns \in Nat
      BY <1>10, WindowAssumption DEF Fits
    <3>2. Cardinality(Opened(clock)) <= Cardinality(w) /\ Cardinality(w) \in Nat /\ Cardinality(Opened(clock)) \in Nat
      <4>1. Told(Opened(clock))
        BY <1>6, <1>7, ToldSubset
      <4> QED BY <1>6, <1>7, <4>1, ToldIsFinite, FS_Subset
    <3> QED BY <3>1, <3>2
  <2>3. FewOpened'
    BY <1>7, <2>1, <2>2 DEF FewOpened
  <2>4. Ids(w) \intersect s.covers = {}
    <3>1. \A x \in w : x.id \in Nat /\ s.cursor \in Nat
      BY <1>5, <1>6, Numbers, SummaryShapes
    <3> QED BY <1>5, <1>6, <3>1 DEF Ids
  <2>5. \A x \in rows : Live(x, clock) => x.id \in Ids(w) \union s.covers
    BY <1>5, <1>8 DEF Ids
  <2>6. ReadSound'
    BY <1>3, <2>1, <2>4, <2>5 DEF ReadSound, Live
  <2> QED BY <1>9, <2>1, <2>3, <2>6 DEF MemorySound, InOrder
<1>11. CASE ~Fits(w)
  <2>1. step' = "summarizing" /\ window' = w /\ known' = s
    BY <1>3, <1>11
  <2>2. FewOpened'
    BY <1>3, <1>7, <2>1 DEF MemorySound, FewOpened
  <2>3. InOrder(window)' /\ \A x \in window' : x.id < nextId'
    BY <1>3, <1>6, <2>1 DEF MemorySound, InOrder
  <2>4. ReadSound'
    <3>1. \A x \in rows : x.id \in Nat /\ s.cursor \in Nat
      BY <1>5, Numbers, SummaryShapes
    <3>2. \A x \in rows : Live(x, clock) /\ x.id > s.cursor => x \in w
      BY <1>8, <3>1
    <3> QED BY <1>3, <1>5, <1>6, <2>1, <2>3, <3>2 DEF ReadSound, Live
  <2> QED BY <1>9, <2>1, <2>2, <2>3, <2>4 DEF MemorySound
<1> QED BY <1>10, <1>11

LEMMA SummarizingKeeps ==
  ASSUME MemoryTypes, MemorySound, Summarize
  PROVE  MemorySound'
<1>1. step = "summarizing" /\ ~Fits(window) /\ UNCHANGED <<clock, stepped, rows, nextId, summary, asked>>
  BY DEF Summarize, timeVars, tableVars, MemoryTypes
<1>2. CASE GiveUp
  BY <1>1, <1>2, EndKeeps DEF GiveUp
<1>3. CASE step' = "storing" /\ known' = Compacted(window, known) /\ UNCHANGED <<window, context, acted>>
  <2>1. PICK made : made = Compacted(window, known)
    OBVIOUS
  <2>2. known' = made /\ made \in Summary
    BY <1>1, <1>3, <2>1, CompactedIsSummary DEF MemoryTypes
  <2>3. /\ \A x \in window : (x.id > made.cursor <=> x \notin ToCompact(window))
        /\ \E x \in window : x.id = made.cursor
        /\ made.covers = known.covers \union Ids(ToCompact(window))
    BY <1>1, <2>1, CursorDivides DEF MemoryTypes, MemorySound
  <2>4. /\ known.covers \subseteq 1..known.cursor
        /\ \A x \in rows : Live(x, clock) /\ x.id <= known.cursor => x.id \in known.covers
        /\ \A x \in rows : Live(x, clock) /\ x.id > known.cursor => x \in window
        /\ \A x \in window : x.id > known.cursor /\ x.id < nextId
    BY <1>1 DEF MemorySound, ReadSound
  <2>5. known.cursor \in Nat /\ made.cursor \in Nat /\ \A x \in rows \union window : x.id \in Nat /\ x.id > 0
    BY <2>2, Numbers, SummaryShapes
  <2>6. known.cursor < made.cursor /\ made.cursor < nextId
    BY <2>3, <2>4
  <2>7. Ids(ToCompact(window)) \subseteq 1..made.cursor
    BY <2>3, <2>5 DEF Ids, ToCompact
  <2>8. made.covers \subseteq 1..made.cursor
    BY <2>3, <2>4, <2>5, <2>6, <2>7
  <2>9. ASSUME NEW x \in rows, Live(x, clock)
        PROVE  /\ (x.id <= made.cursor => x.id \in made.covers)
               /\ (x.id > made.cursor => x \in window)
    <3>1. CASE x.id <= known.cursor
      BY <2>3, <2>4, <2>5, <2>6, <2>9, <3>1
    <3>2. CASE x.id > known.cursor
      <4>1. x \in window
        BY <2>4, <2>9, <3>2
      <4> QED BY <2>3, <2>5, <4>1 DEF Ids
    <3> QED BY <2>5, <3>1, <3>2
  <2>10. ReadSound'
    <3>1. ToCompact(window)' = ToCompact(window)
      BY <1>3 DEF ToCompact
    <3> QED BY <1>1, <1>3, <2>2, <2>3, <2>4, <2>6, <2>8, <2>9, <3>1 DEF ReadSound, Live
  <2>11. FewOpened'
    BY <1>1, <1>3 DEF MemorySound, FewOpened, Opened, Live
  <2> QED BY <1>1, <1>3, <2>10, <2>11 DEF MemorySound, InOrder, SummarySound, Live
<1> QED BY <1>2, <1>3 DEF Summarize

LEMMA StoringKeeps ==
  ASSUME MemoryTypes, MemorySound, Store
  PROVE  MemorySound'
<1>1. PICK e \in Ends :
        /\ step = "storing" /\ UNCHANGED <<clock, stepped, rows, nextId, asked>>
        /\ summary' = (IF e.applied THEN [known EXCEPT !.expires = clock + TTL] ELSE summary)
        /\ IF e.ok THEN Started(window \ ToCompact(window), known) /\ UNCHANGED acted ELSE GiveUp
  BY DEF Store, timeVars
<1>2. /\ known \in Summary /\ ~Fits(window) /\ Told(window)
      /\ known.covers \subseteq 1..known.cursor /\ known.cursor < nextId
      /\ \A x \in rows : Live(x, clock) /\ x.id <= known.cursor => x.id \in known.covers
      /\ \A x \in rows : Live(x, clock) /\ x.id > known.cursor => x \in window
      /\ \A x \in window : (x.id > known.cursor <=> x \notin ToCompact(window))
  BY <1>1 DEF MemorySound, ReadSound, MemoryTypes
<1>3. CASE ~e.applied
  <2>1. GiveUp /\ UNCHANGED summary
    BY <1>1, <1>3 DEF Ends
  <2> QED BY <1>1, <2>1, EndKeeps DEF GiveUp
<1>4. CASE e.applied
  <2>1. PICK stored : stored = [known EXCEPT !.expires = clock + TTL]
    OBVIOUS
  <2>2. summary' = stored /\ stored.cursor = known.cursor /\ stored.covers = known.covers
        /\ stored.expires = clock + TTL
    BY <1>1, <1>2, <1>4, <2>1 DEF Summary
  <2>3. SummarySound'
    <3>1. \A x \in rows : x.expires <= clock + TTL
      BY Numbers DEF MemoryTypes, MemorySound, InOrder
    <3> QED BY <1>1, <1>2, <2>2, <3>1 DEF SummarySound, Live
  <2>4. PICK kept : kept = window \ ToCompact(window)
    OBVIOUS
  <2>5. Opened(clock)' \subseteq kept /\ Told(kept) /\ Cardinality(kept) <= RawTurns
    <3>1. \A x \in Opened(clock)' : x \in kept
      BY <1>1, <1>2, <2>2, <2>4 DEF Opened, Live
    <3>2. Cardinality(kept) <= RawTurns
      BY <1>2, <2>4, SomeAreCompacted
    <3> QED BY <1>2, <2>4, <3>1, <3>2, ToldSubset
  <2>6. FewOpened'
    <3>1. Cardinality(Opened(clock)') <= Cardinality(kept)
      BY <2>5, ToldIsFinite, FS_Subset
    <3>2. Told(Opened(clock)')
      BY <2>5, ToldSubset
    <3>3. Cardinality(Opened(clock)') \in Nat /\ Cardinality(kept) \in Nat /\ RawTurns \in Nat
      BY <2>5, <3>2, ToldIsFinite, Numbers
    <3>4. Cardinality(Opened(clock)') <= RawTurns /\ Cardinality(Opened(clock)') <= RawTurns + 1
      BY <2>5, <3>1, <3>3
    <3> QED BY <3>4 DEF FewOpened
  <2>7. InOrder(rows)' /\ window' = {} /\ step' \in {"running", "idle"}
    BY <1>1 DEF MemorySound, InOrder, Started, GiveUp
  <2>8. ReadSound'
    <3>1. CASE step' = "running"
      <4>1. context'.raw = Ids(kept) /\ context'.covers = known.covers
        BY <1>1, <2>4, <3>1 DEF Started, GiveUp
      <4>2. \A x \in rows \union window : x.id \in Nat /\ known.cursor \in Nat
        BY Numbers
      <4>3. Ids(kept) \intersect known.covers = {}
        BY <1>2, <2>4, <4>2 DEF Ids
      <4>4. \A x \in rows : Live(x, clock) => x.id \in Ids(kept) \union known.covers
        BY <1>2, <2>4, <4>2 DEF Ids
      <4> QED BY <1>1, <3>1, <4>1, <4>3, <4>4 DEF ReadSound, Live
    <3>2. CASE step' = "idle"
      BY <3>2 DEF ReadSound
    <3> QED BY <2>7, <3>1, <3>2
  <2> QED BY <2>3, <2>6, <2>7, <2>8 DEF MemorySound, InOrder
<1> QED BY <1>3, <1>4

LEMMA TurnKeeps ==
  ASSUME MemoryTypes, MemorySound, Act \/ EndsWithRecord
  PROVE  MemorySound'
<1>1. /\ step = "running" /\ step' \in {"running", "recording"}
      /\ UNCHANGED <<clock, rows, nextId, summary, asked, window, known, context>>
  BY DEF Act, EndsWithRecord, timeVars, tableVars
<1> QED BY <1>1 DEF MemorySound, InOrder, SummarySound, FewOpened, ReadSound, Opened, Live

LEMMA RecordingKeeps ==
  ASSUME MemoryTypes, MemorySound, Record
  PROVE  MemorySound'
<1>1. /\ GiveUp /\ step = "recording" /\ UNCHANGED <<clock, stepped, asked>>
      /\ step' = "idle" /\ window' = {}
  BY DEF Record, timeVars, GiveUp
<1>2. CASE UNCHANGED tableVars
  BY <1>1, <1>2, EndKeeps DEF tableVars
<1>3. CASE /\ rows' = Kept(clock) \union {[id |-> NewId, created |-> clock, expires |-> clock + TTL]}
           /\ nextId' = nextId + 1 /\ summary' = KeptSummary(clock)
  <2>1. PICK x : x = [id |-> nextId, created |-> clock, expires |-> clock + TTL]
    OBVIOUS
  <2>2. x.id = nextId /\ x.created = clock
    BY <2>1
  <2>3. rows' = Kept(clock) \union {x} /\ Kept(clock) \subseteq rows
    BY <1>3, <2>1 DEF NewId, Kept
  <2>4. clock \in Nat /\ nextId \in Nat /\ RawTurns \in Nat
        /\ \A y \in rows : y.id \in Nat /\ y.created \in Nat /\ y.id < nextId /\ y.created <= clock
    BY Numbers DEF MemoryTypes, MemorySound, InOrder
  <2>5. InOrder(rows)'
    BY <1>1, <2>2, <2>3, <2>4 DEF MemorySound, InOrder
  <2>6. PICK s : s = KeptSummary(clock)
    OBVIOUS
  <2>7. summary' = s /\ s \in Summary \union {NoSummary} /\ s.covers \subseteq 1..s.cursor
        /\ s.cursor \in Nat /\ s.cursor < nextId
        /\ \A y \in rows : Live(y, clock) =>
              (y.id > summary.cursor <=> y.id > s.cursor) /\ (y.id <= s.cursor => y.id \in s.covers)
    <3>1. SummarySound /\ clock \in Nat /\ clock <= clock
      BY Numbers DEF MemorySound
    <3>2. s.cursor < nextId
      BY <2>4, <2>6, <3>1, SummaryShapes DEF KeptSummary, SummarySound, MemoryTypes
    <3> QED BY <1>3, <2>6, <3>1, <3>2, DeadCoversDead, SummaryShapes
  <2>8. \A y \in Kept(clock) : y.id <= s.cursor => y.expires <= s.expires
    <3>1. \A y \in Kept(clock) : y \in rows /\ Live(y, clock)
      BY DEF Kept
    <3>2. CASE s = summary
      BY <3>1, <3>2 DEF MemorySound, SummarySound
    <3>3. CASE s = NoSummary
      BY <3>1, <3>3, SummaryShapes, Numbers
    <3> QED BY <2>6, <3>2, <3>3 DEF KeptSummary
  <2>9. SummarySound'
    <3>1. ~(x.id <= s.cursor) /\ s.cursor < nextId'
      BY <1>3, <2>2, <2>4, <2>7
    <3> QED BY <1>1, <2>3, <2>7, <2>8, <3>1 DEF SummarySound, Kept, Live
  <2>10. Opened(clock)' \subseteq Opened(clock) \union {x}
    BY <1>1, <2>3, <2>7 DEF Opened, Kept, Live
  <2>11. FewOpened'
    <3>1. PICK open : open = Opened(clock)
      OBVIOUS
    <3>2. open \subseteq rows /\ Told(open) /\ Cardinality(open) <= RawTurns
      BY <1>1, <3>1, ToldSubset DEF Opened, MemoryTypes, MemorySound, FewOpened
    <3>3. IsFiniteSet(open) /\ Cardinality(open) \in Nat
      BY <3>2, ToldIsFinite
    <3>4. PICK more : more = open \union {x}
      OBVIOUS
    <3>5. /\ IsFiniteSet(more)
          /\ Cardinality(more) = IF x \in open THEN Cardinality(open) ELSE Cardinality(open) + 1
      BY <3>3, <3>4, FS_AddElement
    <3>6. PICK after : after = Opened(clock)'
      OBVIOUS
    <3>7. IsFiniteSet(after) /\ Cardinality(after) <= Cardinality(more)
      BY <2>10, <3>1, <3>4, <3>5, <3>6, FS_Subset
    <3>8. Cardinality(after) \in Nat
      BY <3>7, FS_CardinalityType
    <3>9. Cardinality(after) <= RawTurns + 1
      BY <2>4, <3>2, <3>3, <3>5, <3>7, <3>8
    <3> QED BY <1>1, <3>6, <3>9 DEF FewOpened
  <2> QED BY <1>1, <2>5, <2>9, <2>11 DEF MemorySound, InOrder, ReadSound
<1> QED BY <1>2, <1>3 DEF Record

LEMMA MemoryStep == ASSUME MemoryInv, MemoryNext PROVE MemoryInv'
<1>1. MemoryTypes'
  BY TypesKeep DEF MemoryInv
<1>2. CASE StepBack
  BY <1>1, <1>2 DEF StepBack, MemoryInv
<1>3. ASSUME ~StepBack, ~stepped' PROVE MemorySound'
  <2>1. UNCHANGED stepped
    BY <1>3 DEF MemoryNext, Tick, OtherKeyCleansUp, ReadRows, ReadSummary, Summarize, Store, Act,
                EndsWithRecord, EndsWithout, Record, Crash, timeVars
  <2>2. MemoryTypes /\ MemorySound
    BY <1>3, <2>1 DEF MemoryInv
  <2>3. CASE EndsWithout \/ Crash
    <3>1. GiveUp /\ UNCHANGED <<clock, rows, nextId, summary>>
      BY <2>3 DEF EndsWithout, Crash, timeVars, tableVars
    <3> QED BY <2>2, <3>1, EndKeeps DEF GiveUp
  <2> QED BY <1>3, <2>2, <2>3, TimeKeeps, LoadingKeeps, SummaryIsRead, SummarizingKeeps,
             StoringKeeps, TurnKeeps, RecordingKeeps DEF MemoryNext
<1> QED BY <1>1, <1>2, <1>3 DEF MemoryInv

LEMMA MemoryStutters == ASSUME MemoryInv, UNCHANGED memoryVars PROVE MemoryInv'
<1>1. UNCHANGED <<clock, stepped, rows, nextId, summary, step, asked, window, known, context, acted>>
  BY DEF memoryVars, timeVars, tableVars, turnVars
<1> QED BY <1>1 DEF MemoryInv, MemoryTypes, MemorySound, InOrder, SummarySound, FewOpened, ReadSound,
             Opened, Live, Told, ToCompact, Fits

LEMMA MemoryStarts == ASSUME MemoryInit PROVE MemoryInv
<1>1. clock = 0 /\ stepped = FALSE /\ rows = {} /\ nextId = 1 /\ summary = NoSummary /\ step = "idle"
      /\ asked = 0 /\ window = {} /\ known = NoSummary /\ context = NoContext /\ acted = FALSE
  BY DEF MemoryInit
<1>2. MemoryTypes
  <2>1. /\ clock \in 0..MaxClock /\ asked \in 0..MaxClock /\ nextId \in 1..(MaxId + 1)
        /\ NoSummary \in Summary \union {NoSummary}
    BY <1>1, TTLAssumption
  <2> QED BY <1>1, <2>1, SummaryShapes DEF MemoryTypes, Told
<1>3. FewOpened
  <2>1. Opened(clock) = {}
    BY <1>1 DEF Opened
  <2> QED BY <1>1, <2>1, FS_EmptySet, WindowAssumption DEF FewOpened
<1>4. MemorySound
  BY <1>1, <1>3, SummaryShapes DEF MemorySound, InOrder, SummarySound, ReadSound
<1> QED BY <1>2, <1>4 DEF MemoryInv

(* Every exchange of the conversation that has not expired is told to a    *)
(* turn, word for word or in the summary and never in both, and what loads *)
(* skip is in the text, as long as the clock does not step back.           *)
THEOREM MemoryKeepsFaith == MemorySpec => []MemoryIsFaithful
<1>1. MemoryInit => MemoryInv
  BY MemoryStarts
<1>2. MemoryInv /\ [MemoryNext]_memoryVars => MemoryInv'
  BY MemoryStep, MemoryStutters
<1>3. MemoryInv => MemoryIsFaithful
  <2> SUFFICES ASSUME MemoryInv PROVE MemoryIsFaithful
    OBVIOUS
  <2>1. MemoryTypeOK
    BY DEF MemoryInv, MemoryTypes, MemoryTypeOK, Told
  <2>2. ASSUME ~stepped PROVE CoverageIsHonest /\ NoTurnIsLost /\ NothingIsToldTwice
    BY <2>2 DEF MemoryInv, MemorySound, SummarySound, ReadSound, CoverageIsHonest, NoTurnIsLost,
                NothingIsToldTwice, Kept
  <2>3. ASSUME stepped PROVE CoverageIsHonest /\ NoTurnIsLost /\ NothingIsToldTwice
    BY <2>3 DEF CoverageIsHonest, NoTurnIsLost, NothingIsToldTwice
  <2> QED BY <2>1, <2>2, <2>3 DEF MemoryIsFaithful
<1> QED BY <1>1, <1>2, <1>3, PTL DEF MemorySpec

-----------------------------------------------------------------------------
(* Participation *)

\* Whoever asked for quiet has an entry until the time is over.
QuietIsNoted ==
  \A p \in People : askedQuiet[p] # NotYet =>
    /\ askedQuiet[p] \in Nat
    /\ \/ quiet[p] = askedQuiet[p] + QuietTicks
       \/ quiet[p] = NotYet /\ ptime >= askedQuiet[p] + QuietTicks

\* Every turn is one of a review, one that was asked for, or an ambient one
\* whose time has come.
TurnsAreMade ==
  \A inv \in submitted : \E a \in Authors :
    \/ inv = CreateModeration(a)
    \/ \E mode \in {"DIRECT", "VIBE", "MENTION"} : inv = Create(a, mode)
    \/ /\ inv = Create(a, "AMBIENT") /\ unanswered = 0
       /\ askedQuiet[Person[a]] # NotYet => ptime >= askedQuiet[Person[a]] + QuietTicks

PartInv ==
  /\ ptime \in 0..MaxQuietTime /\ heard \in 0..MaxHeard /\ users \subseteq Authors
  /\ quiet \in [People -> Int] /\ askedQuiet \in [People -> Int]
  /\ eligible \in Nat /\ eligible <= heard
  /\ unanswered = eligible % AmbientEvery
  /\ QuietIsNoted /\ TurnsAreMade

LEMMA PartNumbers ==
  /\ AmbientEvery \in Nat /\ AmbientEvery \in Int /\ AmbientEvery > 0
  /\ QuietTicks \in Nat /\ QuietTicks > 0 /\ MaxQuietTime \in Nat /\ MaxHeard \in Nat
<1>1. /\ AmbientEvery \in Nat \ {0} /\ QuietTicks \in Nat \ {0}
      /\ MaxQuietTime \in Nat /\ MaxHeard \in Nat
  BY ParticipationAssumption, Zenon
<1> QED BY <1>1

LEMMA RemainderIsUnique ==
  ASSUME NEW m \in Int, m > 0, NEW q \in Int, NEW r \in Int, 0 <= r, r < m, NEW n \in Int, n = m * q + r
  PROVE  n % m = r
OBVIOUS

\* One more, and the remainder is one more or none.
LEMMA NextRemainder ==
  ASSUME NEW n \in Nat, NEW m \in Int, m > 0
  PROVE  /\ n % m \in Nat /\ n % m < m
         /\ (n + 1) % m = IF (n % m) + 1 = m THEN 0 ELSE (n % m) + 1
<1>1. n % m \in Int /\ 0 <= n % m /\ n % m < m
  OBVIOUS
<1>2. PICK q \in Int, r \in Int : q = n \div m /\ r = n % m
  <2>1. n \div m \in Int
    OBVIOUS
  <2> QED BY <1>1, <2>1
<1>3. n = m * q + r
  BY <1>2
<1>4. CASE r + 1 = m
  <2>1. PICK t \in Int, u \in Int : t = q + 1 /\ u = 0
    BY <1>2
  <2>2. PICK next \in Int : next = n + 1
    OBVIOUS
  <2>3. m * t = m * q + m
    BY <1>2, <2>1
  <2>4. next = m * t + u /\ 0 <= u /\ u < m
    BY <1>2, <1>3, <1>4, <2>1, <2>2, <2>3
  <2>5. next % m = u
    BY <2>1, <2>4, RemainderIsUnique
  <2> QED BY <1>1, <1>2, <1>4, <2>1, <2>2, <2>5
<1>5. CASE r + 1 # m
  <2>1. n + 1 = m * q + (r + 1) /\ 0 <= r + 1 /\ r + 1 < m
    BY <1>1, <1>2, <1>3, <1>5
  <2>2. (n + 1) % m = r + 1
    BY <1>2, <2>1, RemainderIsUnique
  <2> QED BY <1>1, <1>2, <1>5, <2>2
<1> QED BY <1>4, <1>5

LEMMA PartStep == ASSUME PartInv, PartNext PROVE PartInv'
<1>0. /\ AmbientEvery \in Nat /\ QuietTicks \in Nat /\ QuietTicks > 0 /\ MaxQuietTime \in Nat /\ MaxHeard \in Nat
      /\ AmbientEvery \in Int /\ AmbientEvery > 0
      /\ ptime \in Nat /\ heard \in Nat /\ eligible \in Nat
  BY PartNumbers DEF PartInv
<1>1. CASE OnRoomMessage
  <2>1. /\ heard < MaxHeard /\ heard' = heard + 1 /\ UNCHANGED <<ptime, users>>
        /\ heard' \in 0..MaxHeard
    BY <1>0, <1>1 DEF OnRoomMessage
  <2>2. CASE submitted' = {} /\ UNCHANGED <<quiet, eligible, askedQuiet, unanswered>>
    BY <1>0, <2>1, <2>2 DEF PartInv, QuietIsNoted, TurnsAreMade
  <2>3. ASSUME NEW a \in Authors, NEW text \in Utterances, NEW accepted \in BOOLEAN, Hear(a, text, accepted)
        PROVE  PartInv'
    <3>1. PICK p \in People : p = Person[a]
      BY DEF People
    <3>2. CASE /\ quiet' = Silence(p) /\ askedQuiet' = [askedQuiet EXCEPT ![p] = ptime] /\ submitted' = {}
               /\ UNCHANGED <<eligible, unanswered>>
      <4>1. quiet' \in [People -> Int] /\ askedQuiet' \in [People -> Int]
        BY <1>0, <3>2 DEF PartInv, Silence
      <4>2. QuietIsNoted'
        BY <1>0, <2>1, <3>2 DEF PartInv, QuietIsNoted, Silence
      <4> QED BY <1>0, <2>1, <3>2, <4>1, <4>2 DEF PartInv, TurnsAreMade
    <3>3. CASE submitted' = {Create(a, "MENTION")} /\ UNCHANGED <<quiet, eligible, askedQuiet, unanswered>>
      <4>1. QuietIsNoted'
        BY <2>1, <3>3 DEF PartInv, QuietIsNoted
      <4>2. TurnsAreMade'
        <5>1. PICK inv : inv = Create(a, "MENTION")'
          OBVIOUS
        <5>2. Create(a, "MENTION")' = Create(a, "MENTION")
          BY <2>1 DEF Create, Creator, Admin, Role, Addressed
        <5> QED BY <3>3, <5>2, Zenon DEF TurnsAreMade
      <4> QED BY <1>0, <2>1, <3>3, <4>1, <4>2 DEF PartInv
    <3>4. CASE /\ quiet' = Forgotten(p) /\ eligible' = Count(p)
               /\ submitted' = {CreateModeration(a) : r \in {TRUE} \cap {SemanticReady /\ text.abusive /\ a \in users}}
                                 \cup {Create(a, "AMBIENT") : r \in {TRUE} \cap {AmbientDue(p)}}
               /\ unanswered' = (IF AmbientDue(p) THEN 0 ELSE unanswered + (IF IsQuiet(p) THEN 0 ELSE 1))
               /\ UNCHANGED askedQuiet
      <4>1. quiet' \in [People -> Int] /\ QuietIsNoted'
        <5>1. NotYet = -1
          BY DEF NotYet
        <5>2. CASE IsQuiet(p)
          BY <2>1, <3>4, <5>2 DEF PartInv, QuietIsNoted, Forgotten
        <5>3. CASE ~IsQuiet(p)
          <6>1. quiet' = [quiet EXCEPT ![p] = NotYet]
            BY <3>4, <5>3 DEF Forgotten
          <6>2. quiet' \in [People -> Int] /\ quiet'[p] = NotYet
                /\ \A o \in People \ {p} : quiet'[o] = quiet[o]
            BY <5>1, <6>1 DEF PartInv
          <6>3. askedQuiet[p] # NotYet => askedQuiet[p] \in Nat /\ ptime >= askedQuiet[p] + QuietTicks
            BY <1>0, <5>1, <5>3 DEF PartInv, QuietIsNoted, IsQuiet
          <6> QED BY <2>1, <3>4, <6>2, <6>3 DEF PartInv, QuietIsNoted
        <5> QED BY <5>2, <5>3
      <4>2. eligible' \in Nat /\ eligible' <= heard'
        BY <1>0, <2>1, <3>4 DEF PartInv, Count
      <4>3. unanswered' = eligible' % AmbientEvery
        <5>1. CASE AmbientDue(p)
          BY <3>4, <5>1 DEF AmbientDue
        <5>2. CASE IsQuiet(p)
          <6>1. ~AmbientDue(p) /\ eligible' = eligible
            BY <3>4, <5>2 DEF AmbientDue, Count
          <6>2. unanswered \in Nat
            BY <1>0, NextRemainder DEF PartInv
          <6> QED BY <3>4, <5>2, <6>1, <6>2 DEF PartInv
        <5>3. CASE ~IsQuiet(p) /\ ~AmbientDue(p)
          <6>1. eligible' = eligible + 1 /\ (eligible + 1) % AmbientEvery # 0 /\ unanswered' = unanswered + 1
            BY <3>4, <5>3 DEF AmbientDue, Count
          <6> QED BY <1>0, <6>1, NextRemainder DEF PartInv
        <5> QED BY <5>1, <5>2, <5>3
      <4>4. TurnsAreMade'
        <5> SUFFICES ASSUME NEW inv \in submitted'
                     PROVE  \/ inv = CreateModeration(a)
                            \/ /\ inv = Create(a, "AMBIENT")' /\ unanswered' = 0
                               /\ askedQuiet'[p] # NotYet => ptime' >= askedQuiet'[p] + QuietTicks
          BY <3>1, Zenon DEF TurnsAreMade, CreateModeration
        <5>1. Create(a, "AMBIENT")' = Create(a, "AMBIENT")
          BY <2>1 DEF Create, Creator, Admin, Role, Addressed
        <5>2. inv = CreateModeration(a) \/ (inv = Create(a, "AMBIENT") /\ AmbientDue(p))
          BY <3>4
        <5>3. AmbientDue(p) => /\ unanswered' = 0
                               /\ askedQuiet[p] # NotYet => ptime >= askedQuiet[p] + QuietTicks
          <6>1. AmbientDue(p) => ~IsQuiet(p)
            BY DEF AmbientDue
          <6>2. ~IsQuiet(p) /\ askedQuiet[p] # NotYet => ptime >= askedQuiet[p] + QuietTicks
            BY <1>0 DEF PartInv, QuietIsNoted, IsQuiet, NotYet
          <6> QED BY <3>4, <6>1, <6>2
        <5> QED BY <2>1, <3>4, <5>1, <5>2, <5>3
      <4> QED BY <1>0, <2>1, <3>4, <4>1, <4>2, <4>3, <4>4 DEF PartInv
    <3> QED BY <2>2, <2>3, <3>1, <3>2, <3>3, <3>4, Zenon DEF Hear
  <2> QED BY <1>1, <2>2, <2>3 DEF OnRoomMessage
<1>2. CASE OnDirect
  <2>1. PICK a \in Authors, mode \in {"DIRECT", "VIBE"} :
          /\ heard < MaxHeard /\ heard' = heard + 1 /\ submitted' = {Create(a, mode)}
          /\ UNCHANGED <<ptime, users, quiet, eligible, askedQuiet, unanswered>>
    BY <1>2 DEF OnDirect
  <2>2. Create(a, mode)' = Create(a, mode)
    BY <2>1 DEF Create, Creator, Admin, Role, Addressed
  <2>3. TurnsAreMade'
    <3>1. mode \in {"DIRECT", "VIBE", "MENTION"}
      BY <2>1
    <3> QED BY <2>1, <2>2, <3>1, Zenon DEF TurnsAreMade
  <2>4. QuietIsNoted'
    BY <2>1 DEF PartInv, QuietIsNoted
  <2> QED BY <1>0, <2>1, <2>3, <2>4 DEF PartInv
<1>3. CASE RosterChanges
  BY <1>3 DEF RosterChanges, PartInv, QuietIsNoted, TurnsAreMade
<1>4. CASE QuietTick
  <2>1. ptime' = ptime + 1 /\ ptime' \in 0..MaxQuietTime /\ submitted' = {}
        /\ UNCHANGED <<heard, users, quiet, eligible, askedQuiet, unanswered>>
    BY <1>0, <1>4 DEF QuietTick
  <2>2. QuietIsNoted'
    BY <1>0, <2>1 DEF PartInv, QuietIsNoted
  <2> QED BY <2>1, <2>2 DEF PartInv, TurnsAreMade
<1> QED BY <1>1, <1>2, <1>3, <1>4 DEF PartNext

\* A turn of a review reaches nobody but the one reviewed.
LEMMA ReviewIsHarmless ==
  ASSUME NEW a \in Authors, NEW inv, inv = CreateModeration(a), NEW c \in Commands, NEW who \in Authors,
         MayRun(inv, c, who)
  PROVE  inv.mode = "MODERATION" /\ c = "mute" /\ who = inv.target
<1>1. inv.mode = "MODERATION" /\ inv.target # ""
  BY ParticipationAssumption DEF CreateModeration
<1> QED BY <1>1 DEF MayRun, FilterTools, TargetAllowed

\* A turn that was asked for has the authority of its author.
LEMMA AskedHasAuthority ==
  ASSUME NEW a \in Authors, NEW inv, NEW mode \in {"DIRECT", "VIBE", "MENTION", "AMBIENT"},
         inv = Create(a, mode), NEW c \in Commands, NEW who \in Authors, MayRun(inv, c, who)
  PROVE  /\ inv.mode = mode /\ inv.nick = a /\ mode # "AMBIENT"
         /\ c \in {"ban", "sql"} => Creator(a) /\ mode = "DIRECT"
         /\ c = "mute" => Creator(a) \/ Admin(a) \/ Role(a) = "MODERATOR"
<1>1. inv.mode = mode /\ inv.nick = a
  BY DEF Create
<1>2. \A d \in inv.capabilities :
        /\ d = "MODERATION_COMMANDS" => Creator(a) \/ Admin(a) \/ Role(a) = "MODERATOR"
        /\ d \in {"PERMANENT_BAN", "ADMIN_COMMANDS"} => Creator(a) /\ mode = "DIRECT"
  BY DEF Create
<1>3. /\ c = "mute" => "MODERATION_COMMANDS" \in inv.capabilities
      /\ c = "ban" => "PERMANENT_BAN" \in inv.capabilities
      /\ c = "sql" => "ADMIN_COMMANDS" \in inv.capabilities
  BY DEF MayRun, Authorized, RequiredCapability
<1>4. mode # "AMBIENT"
  BY <1>1 DEF MayRun, FilterTools
<1> QED BY <1>1, <1>2, <1>3, <1>4

(* Who asked for quiet is left alone for the time, whichever nick is used, *)
(* the agent speaks unasked on exactly every AmbientEvery-th message that  *)
(* could have been the one, and no turn that nobody asked for acts on the  *)
(* room, but for a review on the one it reviews.                           *)
THEOREM PeopleAreLeftAlone == PartSpec => []PeopleAreRespected
<1>1. PartInit => PartInv
  <2> SUFFICES ASSUME PartInit PROVE PartInv
    OBVIOUS
  <2>1. quiet \in [People -> Int] /\ askedQuiet \in [People -> Int] /\ QuietIsNoted
    BY DEF PartInit, NotYet, QuietIsNoted
  <2>2. AmbientEvery \in Int /\ AmbientEvery > 0
    BY PartNumbers
  <2>3. 0 % AmbientEvery = 0
    BY <2>2
  <2>4. 0 \in 0..MaxQuietTime /\ 0 \in 0..MaxHeard
    BY PartNumbers
  <2> QED BY <2>1, <2>3, <2>4 DEF PartInit, PartInv, TurnsAreMade
<1>2. PartInv /\ [PartNext]_partVars => PartInv'
  <2>1. ASSUME PartInv, UNCHANGED partVars PROVE PartInv'
    <3>1. \A a, mode : Create(a, mode)' = Create(a, mode)
      BY <2>1 DEF partVars, Create, Creator, Admin, Role, Addressed
    <3>2. TurnsAreMade'
      BY <2>1, <3>1 DEF PartInv, partVars, TurnsAreMade, CreateModeration
    <3> QED BY <2>1, <3>2 DEF PartInv, partVars, QuietIsNoted
  <2> QED BY <2>1, PartStep
<1>3. PartInv => PeopleAreRespected
  <2> SUFFICES ASSUME PartInv PROVE PeopleAreRespected
    OBVIOUS
  <2>1. unanswered < AmbientEvery /\ eligible \in 0..MaxHeard
    <3>1. AmbientEvery \in Int /\ AmbientEvery > 0 /\ eligible \in Nat /\ unanswered = eligible % AmbientEvery
          /\ eligible <= heard /\ heard \in 0..MaxHeard /\ MaxHeard \in Nat
      BY PartNumbers DEF PartInv
    <3> QED BY <3>1, NextRemainder
  <2>2. ASSUME NEW inv \in submitted
        PROVE  /\ inv.mode \in Modes
               /\ inv.mode = "AMBIENT" =>
                    /\ unanswered = 0
                    /\ askedQuiet[Person[inv.nick]] # NotYet =>
                         ptime >= askedQuiet[Person[inv.nick]] + QuietTicks
    <3>1. PICK a \in Authors :
            \/ inv = CreateModeration(a)
            \/ \E mode \in {"DIRECT", "VIBE", "MENTION"} : inv = Create(a, mode)
            \/ /\ inv = Create(a, "AMBIENT") /\ unanswered = 0
               /\ askedQuiet[Person[a]] # NotYet => ptime >= askedQuiet[Person[a]] + QuietTicks
      BY <2>2 DEF PartInv, TurnsAreMade
    <3>2. CreateModeration(a).mode = "MODERATION"
      BY DEF CreateModeration
    <3>3. \A mode : Create(a, mode).mode = mode /\ Create(a, mode).nick = a
      BY DEF Create
    <3> QED BY <3>1, <3>2, <3>3 DEF Modes
  <2>3. ASSUME NEW inv \in submitted, NEW c \in Commands, NEW who \in Authors, MayRun(inv, c, who)
        PROVE  /\ inv.mode # "AMBIENT"
               /\ inv.mode = "MODERATION" => c = "mute" /\ who = inv.target
               /\ c \in {"ban", "sql"} => Creator(inv.nick) /\ inv.mode = "DIRECT"
               /\ inv.mode \in {"DIRECT", "MENTION"} /\ c = "mute"
                     => Creator(inv.nick) \/ Admin(inv.nick) \/ Role(inv.nick) = "MODERATOR"
    <3>1. PICK a \in Authors : \/ inv = CreateModeration(a)
                               \/ \E mode \in {"DIRECT", "VIBE", "MENTION", "AMBIENT"} : inv = Create(a, mode)
      BY <2>3 DEF PartInv, TurnsAreMade
    <3>2. CASE inv = CreateModeration(a)
      BY <2>3, <3>2, ReviewIsHarmless
    <3>3. CASE \E mode \in {"DIRECT", "VIBE", "MENTION", "AMBIENT"} : inv = Create(a, mode)
      BY <2>3, <3>3, AskedHasAuthority
    <3> QED BY <3>1, <3>2, <3>3
  <2>4. PartTypeOK
    BY <2>1, <2>2 DEF PartInv, PartTypeOK
  <2>5. QuietIsKept /\ AmbientIsPaced
    BY <2>1, <2>2 DEF PartInv, QuietIsKept, AmbientIsPaced
  <2>6. UnaskedTurnsAreHarmless
    BY <2>3 DEF UnaskedTurnsAreHarmless
  <2> QED BY <2>4, <2>5, <2>6 DEF PeopleAreRespected
<1> QED BY <1>1, <1>2, <1>3, PTL DEF PartSpec

-----------------------------------------------------------------------------
(* The monitor of messages *)

(* A set of places has a first one.                                        *)
LEMMA FirstPlace ==
    ASSUME NEW S \in SUBSET Nat, S # {}
    PROVE  Min(S) \in S /\ \A y \in S : Min(S) <= y
  <1> DEFINE Less == {pair \in Nat \X Nat : pair[1] < pair[2]}
  <1>1. IsWellFoundedOn(Less, Nat)
    BY NatLessThanWellFounded, Zenon DEF OpToRel
  <1>2. PICK x \in S : \A y \in S : ~ (<<y, x>> \in Less)
    <2> HIDE DEF Less
    <2> QED
      BY <1>1, WFMin
  <1>3. \A y \in S : x <= y
    <2> SUFFICES ASSUME NEW y \in S PROVE x <= y
      OBVIOUS
    <2>1. x \in Nat /\ y \in Nat /\ ~ (<<y, x>> \in Less)
      BY <1>2
    <2>2. y < x => <<y, x>> \in Less
      BY <2>1
    <2> QED
      BY <2>1, <2>2
  <1> QED
    BY <1>3 DEF Min

Heard == [at : 0..MaxTime, text : Texts]
Offence == [action : Sanctions, at : 0..MaxTime] \cup {NoOffence}

(* What is kept of an identity is the end of its history, and what was     *)
(* forgotten of it is older than the longer window.                        *)
EndOf(kept, whole) ==
    \E k \in 1..(Len(whole) + 1) :
        /\ kept = SubSeq(whole, k, Len(whole))
        /\ \A i \in 1..(k - 1) : whole[i].at < mtime - Window

(* The last verdict is on record as long as it is fresh.                   *)
OnRecord(i) ==
    \/ offences[i] = verdicts[i]
    \/ ~ Within(verdicts[i].at, Limit(verdicts[i].action)) /\ offences[i] = NoOffence

MonitorInv ==
    /\ mtime \in 0..MaxTime /\ mcount \in 0..MaxMessages
    /\ decision \in Sanctions \cup {"none"}
    /\ log \in [Identities -> Seq(Heard)]
    /\ offences \in [Identities -> Offence] /\ verdicts \in [Identities -> Offence]
    /\ \A i \in Identities :
         /\ EndOf(recent[i], log[i]) /\ CountMessages(log[i], BurstWindow) < BurstCount
         /\ verdicts[i].at <= mtime /\ OnRecord(i)

(* The four steps of the ladder, and the limits of the configuration.      *)
LEMMA LadderIs ==
    /\ Sanctions = {"warning", "mute", "kick", "shadow-ban"}
    /\ Rank("warning") = 1 /\ Rank("mute") = 2 /\ Rank("kick") = 3 /\ Rank("shadow-ban") = 4
  <1>1. Len(Ladder) = 4 /\ DOMAIN Ladder = 1..4 /\ Ladder[1] = "warning" /\ Ladder[2] = "mute"
        /\ Ladder[3] = "kick" /\ Ladder[4] = "shadow-ban"
    BY DEF Ladder
  <1>2. 1..4 = {1, 2, 3, 4}
    OBVIOUS
  <1>3. Sanctions = {"warning", "mute", "kick", "shadow-ban"}
    <2>1. Sanctions = {Ladder[i] : i \in {1, 2, 3, 4}}
      BY <1>1, <1>2 DEF Sanctions, ToSet
    <2> QED
      BY <1>1, <2>1
  <1>4. \A i \in {1, 2, 3, 4} : Rank(Ladder[i]) = i
    <2> SUFFICES ASSUME NEW i \in {1, 2, 3, 4} PROVE Rank(Ladder[i]) = i
      OBVIOUS
    <2>1. \A j \in {1, 2, 3, 4} : Ladder[j] = Ladder[i] => j = i
      BY <1>1
    <2>2. Rank(Ladder[i]) = CHOOSE j \in {1, 2, 3, 4} : Ladder[j] = Ladder[i]
      BY <1>1, <1>2 DEF Rank
    <2> QED
      BY <2>1, <2>2
  <1>5. 1 \in {1, 2, 3, 4} /\ 2 \in {1, 2, 3, 4} /\ 3 \in {1, 2, 3, 4} /\ 4 \in {1, 2, 3, 4}
    OBVIOUS
  <1>6. Rank(Ladder[1]) = 1 /\ Rank(Ladder[2]) = 2 /\ Rank(Ladder[3]) = 3 /\ Rank(Ladder[4]) = 4
    BY <1>4, <1>5, Zenon
  <1>7. Rank("warning") = 1 /\ Rank("mute") = 2 /\ Rank("kick") = 3 /\ Rank("shadow-ban") = 4
    BY <1>1, <1>6
  <1> QED
    BY <1>3, <1>7, Zenon

LEMMA LimitsAre ==
    /\ BurstCount \in Nat \ {0} /\ BurstWindow \in Nat \ {0}
    /\ RepeatedCount \in Nat \ {0} /\ RepeatedWindow \in Nat \ {0}
    /\ SecondBreachWindow \in Nat \ {0} /\ PostKickWindow \in Nat \ {0}
    /\ ActionCooldown \in Nat \ {0} /\ MaxTime \in Nat /\ MaxMessages \in Nat
    /\ Window \in Nat /\ BurstWindow <= Window /\ RepeatedWindow <= Window
    /\ \A a \in Sanctions \cup {"none"} : Limit(a) \in Nat
  <1>1. BurstCount \in Nat \ {0}
    BY MonitorAssumption, Zenon
  <1>2. BurstWindow \in Nat \ {0}
    BY MonitorAssumption, Zenon
  <1>3. RepeatedCount \in Nat \ {0}
    BY MonitorAssumption, Zenon
  <1>4. RepeatedWindow \in Nat \ {0}
    BY MonitorAssumption, Zenon
  <1>5. SecondBreachWindow \in Nat \ {0}
    BY MonitorAssumption, Zenon
  <1>6. PostKickWindow \in Nat \ {0}
    BY MonitorAssumption, Zenon
  <1>7. ActionCooldown \in Nat \ {0} /\ MaxTime \in Nat /\ MaxMessages \in Nat
    BY MonitorAssumption, Zenon
  <1>8. Window \in Nat /\ BurstWindow <= Window /\ RepeatedWindow <= Window
    BY <1>2, <1>4 DEF Window
  <1>9. \A a \in Sanctions \cup {"none"} : Limit(a) \in Nat
    BY <1>5, <1>6 DEF Limit
  <1> QED
    BY <1>1, <1>2, <1>3, <1>4, <1>5, <1>6, <1>7, <1>8, <1>9

LEMMA OffenceIs ==
    /\ NoOffence \in Offence /\ NoOffence.at = Never /\ NoOffence.action = "none" /\ Never \in Int
    /\ \A o \in Offence : /\ o.action \in Sanctions \cup {"none"} /\ o.at \in Int
                          /\ o.at <= MaxTime /\ (o.action # "none" => o.at # Never)
    /\ \A a \in Sanctions, t \in 0..MaxTime : [action |-> a, at |-> t] \in Offence
  BY LimitsAre DEF Offence, NoOffence, Never

LEMMA HeardIs ==
    ASSUME NEW whole \in Seq(Heard)
    PROVE  Len(whole) \in Nat /\ DOMAIN whole = 1..Len(whole)
           /\ \A i \in 1..Len(whole) : whole[i] \in Heard /\ whole[i].at \in Int /\ whole[i].at \in 0..MaxTime
  <1>1. \A i \in 1..Len(whole) : whole[i] \in Heard
    OBVIOUS
  <1>2. \A m \in Heard : m.at \in Int /\ m.at \in 0..MaxTime
    BY LimitsAre DEF Heard
  <1> QED
    BY <1>1, <1>2

(* The end of a sequence, place by place.                                  *)
LEMMA EndOfSequence ==
    ASSUME NEW S, NEW s \in Seq(S), NEW k \in 1..(Len(s) + 1)
    PROVE  LET end == SubSeq(s, k, Len(s))
           IN  /\ end \in Seq(S) /\ Len(end) = Len(s) - k + 1 /\ Len(s) - k + 1 \in Nat
               /\ DOMAIN end = 1..(Len(s) - k + 1)
               /\ \A i \in 1..(Len(s) - k + 1) : end[i] = s[i + k - 1] /\ i + k - 1 \in 1..Len(s)
  <1>1. Len(s) \in Nat /\ \A i \in 1..Len(s) : s[i] \in S
    OBVIOUS
  <1>2. \A i \in 1..(Len(s) - k + 1) : i + k - 1 \in 1..Len(s)
    BY <1>1
  <1> QED
    BY <1>1, <1>2

(* How many messages of a window are of the kind P.                        *)
Places(messages, span, P) == {i \in Since(messages, span) : messages[i] \in P}
HowMany(messages, span, P) == Cardinality(Places(messages, span, P))

(* Counting the end of a history, from which only what is too old is       *)
(* missing, is counting the history.                                       *)
LEMMA EndCounts ==
    ASSUME NEW whole \in Seq(Heard), NEW k \in 1..(Len(whole) + 1), NEW span \in Nat,
           mtime \in 0..MaxTime, \A i \in 1..(k - 1) : whole[i].at < mtime - span,
           NEW P \in SUBSET Heard, NEW kept, kept = SubSeq(whole, k, Len(whole))
    PROVE  HowMany(kept, span, P) = HowMany(whole, span, P)
  <1> DEFINE A == {i \in Since(kept, span) : kept[i] \in P}
             B == {i \in Since(whole, span) : whole[i] \in P}
             f == [i \in A |-> i + k - 1]
  <1>1. Len(whole) \in Nat /\ Len(kept) = Len(whole) - k + 1 /\ DOMAIN whole = 1..Len(whole)
        /\ DOMAIN kept = 1..(Len(whole) - k + 1)
    OBVIOUS
  <1>2. \A i \in DOMAIN kept : kept[i] = whole[i + k - 1] /\ i + k - 1 \in DOMAIN whole
    BY <1>1
  <1>3. A \subseteq Nat /\ B \subseteq 1..Len(whole) /\ \A i \in B : whole[i].at >= mtime - span
    BY <1>1 DEF Since
  <1>4. IsFiniteSet(A)
    <2>1. A \subseteq DOMAIN kept
      <3>1. Since(kept, span) \subseteq DOMAIN kept
        BY Zenon DEF Since
      <3> QED
        BY <3>1
    <2>2. A \subseteq 1..(Len(whole) - k + 1) /\ Len(whole) - k + 1 \in Int
      <3> HIDE DEF A
      <3> QED
        BY <1>1, <2>1
    <2>3. IsFiniteSet(1..(Len(whole) - k + 1))
      BY <2>2, FS_Interval
    <2> HIDE DEF A
    <2> QED
      BY <2>2, <2>3, FS_Subset
  <1>5. \A i \in A : f[i] \in B
    BY <1>1, <1>2, <1>3 DEF Since
  <1>6. \A i, j \in A : f[i] = f[j] => i = j
    <2>1. \A i \in A : f[i] = i + k - 1 /\ i \in Nat
      BY <1>3
    <2> HIDE DEF f, A
    <2> QED
      BY <2>1
  <1>7. \A y \in B : \E i \in A : f[i] = y
    <2> SUFFICES ASSUME NEW y \in B PROVE \E i \in A : f[i] = y
      OBVIOUS
    <2>1. y \in 1..Len(whole) /\ whole[y].at >= mtime - span /\ whole[y] \in P /\ whole[y] \in Heard
      BY <1>1, <1>3
    <2>2. ~ (y <= k - 1)
      <3> SUFFICES ASSUME y <= k - 1 PROVE FALSE
        OBVIOUS
      <3>1. whole[y].at < mtime - span
        BY <2>1
      <3> QED
        BY <2>1, <3>1, LimitsAre DEF Heard
    <2>3. y - k + 1 \in DOMAIN kept /\ kept[y - k + 1] = whole[y]
      BY <1>1, <1>2, <2>1, <2>2
    <2>4. y - k + 1 \in A
      BY <2>1, <2>3 DEF Since
    <2>5. f[y - k + 1] = y
      <3>1. f[y - k + 1] = (y - k + 1) + k - 1
        <4> HIDE DEF A
        <4> QED
          BY <2>4
      <3> HIDE DEF f, A
      <3> QED
        BY <2>1, <3>1
    <2> QED
      BY <2>4, <2>5
  <1>8. ExistsBijection(A, B)
    <2> HIDE DEF A, B
    <2>1. f \in Bijection(A, B)
      BY <1>5, <1>6, <1>7 DEF Bijection, Injection, Surjection, IsInjective
    <2> QED
      BY <2>1 DEF ExistsBijection
  <1>9. Cardinality(B) = Cardinality(A)
    <2> HIDE DEF A, B
    <2> QED
      BY <1>4, <1>8, FS_Bijection
  <1> QED
    BY <1>9 DEF HowMany, Places

(* Both kinds of breach look the same from the end as from the history.    *)
LEMMA JudgedAlike ==
    ASSUME NEW kept, NEW whole \in Seq(Heard), mtime \in 0..MaxTime, EndOf(kept, whole)
    PROVE  /\ CountMessages(kept, BurstWindow) = CountMessages(whole, BurstWindow)
           /\ \A text \in Texts : Repeated(kept, text) = Repeated(whole, text)
           /\ kept \in Seq(Heard)
  <1>1. PICK k \in 1..(Len(whole) + 1) :
            kept = SubSeq(whole, k, Len(whole)) /\ \A i \in 1..(k - 1) : whole[i].at < mtime - Window
    BY DEF EndOf
  <1>2. kept \in Seq(Heard)
    BY <1>1, EndOfSequence
  <1>3. \A i \in 1..(k - 1) : whole[i].at \in Int /\ whole[i].at < mtime - Window
    <2>1. \A i \in 1..(k - 1) : i \in 1..Len(whole)
      BY HeardIs
    <2> QED
      BY <1>1, <2>1, HeardIs
  <1>4. \A span \in Nat : span <= Window => \A i \in 1..(k - 1) : whole[i].at < mtime - span
    BY <1>3, LimitsAre
  <1>5. CountMessages(kept, BurstWindow) = CountMessages(whole, BurstWindow)
    <2>1. HowMany(kept, BurstWindow, Heard) = HowMany(whole, BurstWindow, Heard)
      <3>1. BurstWindow \in Nat /\ \A i \in 1..(k - 1) : whole[i].at < mtime - BurstWindow
        BY <1>4, LimitsAre
      <3>2. Heard \in SUBSET Heard
        OBVIOUS
      <3> QED
        BY <1>1, <3>1, <3>2, EndCounts
    <2>2. \A s \in Seq(Heard) : Places(s, BurstWindow, Heard) = Since(s, BurstWindow)
      BY DEF Since, Places
    <2> QED
      BY <1>2, <2>1, <2>2 DEF CountMessages, HowMany
  <1>6. ASSUME NEW text \in Texts PROVE Repeated(kept, text) = Repeated(whole, text)
    <2> DEFINE P == {m \in Heard : m.text = text}
    <2>1. P \in SUBSET Heard
      OBVIOUS
    <2>2. HowMany(kept, RepeatedWindow, P) = HowMany(whole, RepeatedWindow, P)
      <3>1. RepeatedWindow \in Nat /\ \A i \in 1..(k - 1) : whole[i].at < mtime - RepeatedWindow
        BY <1>4, LimitsAre
      <3> HIDE DEF P
      <3> QED
        BY <1>1, <2>1, <3>1, EndCounts
    <2>3. \A s \in Seq(Heard) : Places(s, RepeatedWindow, P)
                                = {i \in Since(s, RepeatedWindow) : s[i].text = text}
      BY DEF Since, Places
    <2> HIDE DEF P
    <2> QED
      BY <1>2, <2>2, <2>3 DEF Repeated, HowMany
  <1> QED
    BY <1>2, <1>5, <1>6

(* What is cut off the end of a history leaves an end of it.               *)
LEMMA PrunedIsEnd ==
    ASSUME NEW kept, NEW whole \in Seq(Heard), mtime \in 0..MaxTime, EndOf(kept, whole)
    PROVE  EndOf(PruneMessages(kept, Window), whole)
  <1>1. PICK k \in 1..(Len(whole) + 1) :
            kept = SubSeq(whole, k, Len(whole)) /\ \A i \in 1..(k - 1) : whole[i].at < mtime - Window
    BY DEF EndOf
  <1>2. Len(whole) \in Nat /\ k \in Nat /\ DOMAIN kept = 1..(Len(whole) - k + 1)
        /\ Len(kept) = Len(whole) - k + 1
        /\ \A i \in 1..(Len(whole) - k + 1) : kept[i] = whole[i + k - 1]
    BY <1>1, HeardIs, EndOfSequence
  <1>3. \A i \in 1..Len(whole) : whole[i].at \in Int
    BY HeardIs
  <1>4. CASE Since(kept, Window) = {}
    <2>1. PruneMessages(kept, Window) = <<>>
      BY <1>4 DEF PruneMessages
    <2>2. SubSeq(whole, Len(whole) + 1, Len(whole)) = <<>>
      BY <1>2
    <2>3. \A i \in 1..Len(whole) : whole[i].at < mtime - Window
      <3> SUFFICES ASSUME NEW i \in 1..Len(whole) PROVE whole[i].at < mtime - Window
        OBVIOUS
      <3>1. CASE i < k
        BY <1>1, <1>2, <3>1
      <3>2. CASE ~ (i < k)
        <4>1. i - k + 1 \in DOMAIN kept /\ kept[i - k + 1] = whole[i]
          BY <1>2, <3>2
        <4>2. ~ (whole[i].at >= mtime - Window)
          BY <1>4, <4>1 DEF Since
        <4> QED
          BY <1>3, <4>2, LimitsAre
      <3> QED
        BY <3>1, <3>2
    <2>4. Len(whole) + 1 \in 1..(Len(whole) + 1) /\ (Len(whole) + 1) - 1 = Len(whole)
      BY <1>2
    <2> QED
      BY <2>1, <2>2, <2>3, <2>4 DEF EndOf
  <1>5. CASE Since(kept, Window) # {}
    <2> DEFINE f == Min(Since(kept, Window))
               n == k + f - 1
    <2>1. Since(kept, Window) \in SUBSET Nat /\ Since(kept, Window) \subseteq DOMAIN kept
      BY <1>2 DEF Since
    <2>2. f \in Since(kept, Window) /\ \A y \in Since(kept, Window) : f <= y
      BY <1>5, <2>1, FirstPlace
    <2> HIDE DEF f
    <2>3. f \in 1..(Len(whole) - k + 1) /\ PruneMessages(kept, Window) = SubSeq(kept, f, Len(kept))
      BY <1>2, <1>5, <2>1, <2>2 DEF PruneMessages, f
    <2>4. n \in 1..(Len(whole) + 1)
      BY <1>2, <2>3
    <2>5. SubSeq(kept, f, Len(kept)) = SubSeq(whole, n, Len(whole))
      <3>1. kept \in Seq(Heard)
        BY JudgedAlike
      <3> DEFINE x == SubSeq(kept, f, Len(kept))
                 y == SubSeq(whole, n, Len(whole))
      <3>2. /\ x \in Seq(Heard) /\ Len(x) = Len(whole) - n + 1
            /\ \A i \in 1..(Len(whole) - n + 1) : x[i] = kept[i + f - 1]
        <4>1. f \in 1..(Len(kept) + 1) /\ Len(kept) - f + 1 = Len(whole) - n + 1
          BY <1>2, <2>3
        <4> HIDE DEF n
        <4> QED
          BY <3>1, <4>1, EndOfSequence
      <3>3. /\ y \in Seq(Heard) /\ Len(y) = Len(whole) - n + 1
            /\ \A i \in 1..(Len(whole) - n + 1) : y[i] = whole[i + n - 1]
        <4> HIDE DEF n
        <4> QED
          BY <2>4, EndOfSequence
      <3>4. \A i \in 1..(Len(whole) - n + 1) : kept[i + f - 1] = whole[i + n - 1]
        <4> SUFFICES ASSUME NEW i \in 1..(Len(whole) - n + 1)
                     PROVE  kept[i + f - 1] = whole[i + n - 1]
          OBVIOUS
        <4>1. i + f - 1 \in 1..(Len(whole) - k + 1) /\ (i + f - 1) + k - 1 = i + n - 1
          BY <1>2, <2>3
        <4> QED
          BY <1>2, <4>1
      <3> HIDE DEF n, x, y
      <3>5. \A i \in 1..Len(x) : x[i] = y[i]
        BY <3>2, <3>3, <3>4
      <3>6. x = y
        BY <3>2, <3>3, <3>5, SeqEqual
      <3> QED
        BY <3>6 DEF x, y
    <2>6. \A i \in 1..(n - 1) : whole[i].at < mtime - Window
      <3> SUFFICES ASSUME NEW i \in 1..(n - 1) PROVE whole[i].at < mtime - Window
        OBVIOUS
      <3>1. CASE i < k
        BY <1>1, <1>2, <3>1, <2>3
      <3>2. CASE ~ (i < k)
        <4>1. i - k + 1 \in DOMAIN kept /\ kept[i - k + 1] = whole[i] /\ i - k + 1 < f
              /\ i \in 1..Len(whole)
          BY <1>2, <2>3, <3>2, SMTT(30)
        <4>2. i - k + 1 \notin Since(kept, Window)
          BY <1>2, <2>2, <2>3, <4>1
        <4>3. ~ (whole[i].at >= mtime - Window)
          BY <4>1, <4>2 DEF Since
        <4> QED
          BY <1>3, <4>1, <4>3, LimitsAre
      <3> QED
        BY <3>1, <3>2
    <2> HIDE DEF n
    <2> QED
      BY <2>3, <2>4, <2>5, <2>6 DEF EndOf
  <1> QED
    BY <1>4, <1>5

(* A new monitor has nothing on record.                                    *)
LEMMA MonitorStart == MonitorInit => MonitorInv
  <1> SUFFICES ASSUME MonitorInit PROVE MonitorInv
    OBVIOUS
  <1> USE DEF MonitorInit
  <1>1. NoOffence \in Offence
    BY OffenceIs
  <1>2. <<>> \in Seq(Heard)
    OBVIOUS
  <1>3. EndOf(<<>>, <<>>)
    <2>1. Len(<<>>) = 0 /\ SubSeq(<<>>, 1, 0) = <<>> /\ 1 \in 1..(Len(<<>>) + 1)
      OBVIOUS
    <2>2. \A i \in 1..(1 - 1) : <<>>[i].at < mtime - Window
      OBVIOUS
    <2> QED
      BY <2>1, <2>2 DEF EndOf
  <1>4. CountMessages(<<>>, BurstWindow) = 0
    <2>1. Since(<<>>, BurstWindow) = {}
      BY DEF Since
    <2> QED
      BY <2>1, FS_EmptySet DEF CountMessages
  <1>5. \A i \in Identities : OnRecord(i) /\ verdicts[i].at <= mtime
    BY DEF OnRecord, NoOffence, Never
  <1> QED
    BY <1>1, <1>2, <1>3, <1>4, <1>5, LimitsAre DEF MonitorInv

(* A message that is counted was said after the cut.                       *)
LEMMA SinceIsFinite ==
    ASSUME NEW whole \in Seq(Heard), NEW span
    PROVE  IsFiniteSet(Since(whole, span)) /\ CountMessages(whole, span) \in Nat
  <1>1. Since(whole, span) \subseteq 1..Len(whole) /\ Len(whole) \in Nat
    BY HeardIs DEF Since
  <1>2. IsFiniteSet(1..Len(whole))
    BY <1>1, FS_Interval
  <1> QED
    BY <1>1, <1>2, FS_Subset, FS_CardinalityType DEF CountMessages

(* Nothing becomes new by waiting.                                         *)
LEMMA ElapseKeeps == MonitorInv /\ Elapse => MonitorInv'
  <1> SUFFICES ASSUME MonitorInv, Elapse PROVE MonitorInv'
    OBVIOUS
  <1>1. mtime \in Nat /\ mtime < MaxTime /\ mtime' = mtime + 1 /\ log' = log /\ recent' = recent
        /\ offences' = offences /\ verdicts' = verdicts /\ mcount' = mcount /\ decision' = "none"
    BY LimitsAre DEF Elapse, MonitorInv
  <1>2. ASSUME NEW i \in Identities
        PROVE  /\ EndOf(recent[i], log[i])' /\ CountMessages(log[i], BurstWindow)' < BurstCount
               /\ verdicts'[i].at <= mtime' /\ OnRecord(i)'
    <2>1. log[i] \in Seq(Heard) /\ verdicts[i] \in Offence
      BY DEF MonitorInv
    <2>2. EndOf(recent[i], log[i])'
      <3>1. PICK k \in 1..(Len(log[i]) + 1) :
                /\ recent[i] = SubSeq(log[i], k, Len(log[i]))
                /\ \A j \in 1..(k - 1) : log[i][j].at < mtime - Window
        BY DEF MonitorInv, EndOf
      <3>2. \A j \in 1..(k - 1) : log[i][j].at < mtime' - Window
        <4>1. \A j \in 1..(k - 1) : log[i][j].at \in Int
          BY <2>1, HeardIs
        <4> QED
          BY <1>1, <3>1, <4>1, LimitsAre
      <3>3. Window' = Window
        BY DEF Window
      <3> QED
        BY <1>1, <3>1, <3>2, <3>3 DEF EndOf
    <2>3. CountMessages(log[i], BurstWindow)' < BurstCount
      <3>1. Since(log[i], BurstWindow)' \subseteq Since(log[i], BurstWindow)
        <4>1. \A j \in DOMAIN log[i] : log[i][j].at \in Int
          BY <2>1, HeardIs
        <4> QED
          BY <1>1, <4>1, LimitsAre DEF Since
      <3>2. Cardinality(Since(log[i], BurstWindow)') <= Cardinality(Since(log[i], BurstWindow))
            /\ Cardinality(Since(log[i], BurstWindow)') \in Nat
        BY <2>1, <3>1, SinceIsFinite, FS_Subset, FS_CardinalityType
      <3> QED
        BY <1>1, <2>1, <3>2, SinceIsFinite, LimitsAre DEF MonitorInv, CountMessages
    <2>4. OnRecord(i)'
      <3>1. verdicts[i].at \in Int /\ verdicts[i].action \in Sanctions \cup {"none"}
        BY <2>1, OffenceIs
      <3>2. verdicts[i].at <= mtime
        BY DEF MonitorInv
      <3>3. Limit(verdicts[i].action) \in Nat
        BY <3>1, LimitsAre
      <3>4. Within(verdicts[i].at, Limit(verdicts[i].action))'
            => Within(verdicts[i].at, Limit(verdicts[i].action))
        BY <1>1, <3>1, <3>2, <3>3 DEF Within, Limit
      <3> QED
        BY <1>1, <3>4 DEF MonitorInv, OnRecord, NoOffence, Limit
    <2>5. verdicts'[i].at <= mtime'
      BY <1>1, <2>1, OffenceIs DEF MonitorInv
    <2> QED
      BY <2>2, <2>3, <2>4, <2>5
  <1>4. Window' = Window /\ Heard' = Heard /\ Offence' = Offence /\ Identities' = Identities
    BY DEF Window, Heard, Offence, Identities, NoOffence
  <1>3. /\ mtime' \in 0..MaxTime /\ mcount' \in 0..MaxMessages
        /\ decision' \in Sanctions \cup {"none"} /\ log' \in [Identities -> Seq(Heard)]
        /\ offences' \in [Identities -> Offence] /\ verdicts' \in [Identities -> Offence]
    BY <1>1, LimitsAre DEF MonitorInv
  <1> QED
    BY <1>2, <1>3, <1>4 DEF MonitorInv

(* When nothing is judged, nothing changes.                                *)
LEMMA NothingHeard ==
    ASSUME MonitorInv, UNCHANGED <<mtime, recent, offences, log, verdicts>>,
           mcount' \in 0..MaxMessages, decision' \in Sanctions \cup {"none"}
    PROVE  MonitorInv'
  <1>1. Window' = Window /\ Heard' = Heard /\ Offence' = Offence /\ Identities' = Identities
    BY DEF Window, Heard, Offence, Identities, NoOffence
  <1>2. ASSUME NEW i \in Identities
        PROVE  EndOf(recent[i], log[i])' /\ (CountMessages(log[i], BurstWindow) < BurstCount)' /\ OnRecord(i)'
    BY <1>1 DEF MonitorInv, EndOf, CountMessages, Since, OnRecord, Within, Limit, NoOffence
  <1> QED
    BY <1>1, <1>2 DEF MonitorInv

LEMMA OnIgnoredKeeps == MonitorInv /\ OnIgnored => MonitorInv'
  <1> SUFFICES ASSUME MonitorInv, OnIgnored PROVE MonitorInv'
    OBVIOUS
  <1>1. mcount' \in 0..MaxMessages
    BY LimitsAre DEF OnIgnored, MonitorInv
  <1> QED
    BY <1>1, NothingHeard DEF OnIgnored

(* What is still on record after the pruning of a message.                 *)
LEMMA PrunedOnRecord ==
    ASSUME MonitorInv, NEW i \in Identities
    PROVE  /\ PrunedOffences \in [Identities -> Offence]
           /\ \/ PrunedOffences[i] = verdicts[i]
              \/ /\ ~ Within(verdicts[i].at, Limit(verdicts[i].action))
                 /\ PrunedOffences[i] = NoOffence
  <1>1. NoOffence \in Offence /\ NoOffence.at = Never
    BY OffenceIs
  <1>2. PrunedOffences \in [Identities -> Offence]
    BY <1>1 DEF MonitorInv, PrunedOffences
  <1>3. ~ Within(Never, Limit("none"))
    BY DEF Within
  <1> QED
    BY <1>2, <1>3 DEF MonitorInv, OnRecord, PrunedOffences, NoOffence

(* One more message: it is counted, and the end of a history that is       *)
(* followed by it is the end of the history that is.                       *)
LEMMA OneMore ==
    ASSUME NEW kept, NEW whole \in Seq(Heard), NEW m \in Heard, EndOf(kept, whole)
    PROVE  EndOf(Append(kept, m), Append(whole, m))
  <1>1. PICK k \in 1..(Len(whole) + 1) :
            kept = SubSeq(whole, k, Len(whole)) /\ \A i \in 1..(k - 1) : whole[i].at < mtime - Window
    BY DEF EndOf
  <1>2. /\ kept \in Seq(Heard) /\ Len(kept) = Len(whole) - k + 1 /\ Len(whole) \in Nat
        /\ \A i \in 1..(Len(whole) - k + 1) : kept[i] = whole[i + k - 1]
    BY <1>1, HeardIs, EndOfSequence
  <1> DEFINE w == Append(whole, m)
             x == Append(kept, m)
             y == SubSeq(w, k, Len(w))
  <1>3. /\ w \in Seq(Heard) /\ Len(w) = Len(whole) + 1 /\ w[Len(whole) + 1] = m
        /\ \A i \in 1..Len(whole) : w[i] = whole[i]
    BY <1>2
  <1>4. /\ x \in Seq(Heard) /\ Len(x) = Len(kept) + 1 /\ x[Len(kept) + 1] = m
        /\ \A i \in 1..Len(kept) : x[i] = kept[i]
    BY <1>2
  <1> HIDE DEF w, x
  <1>5. k \in 1..(Len(w) + 1)
    BY <1>2, <1>3
  <1>6. /\ y \in Seq(Heard) /\ Len(y) = Len(w) - k + 1
        /\ \A i \in 1..(Len(w) - k + 1) : y[i] = w[i + k - 1]
    BY <1>3, <1>5, EndOfSequence
  <1> HIDE DEF y
  <1>7. Len(x) = Len(y)
    BY <1>2, <1>3, <1>4, <1>6
  <1>8. \A i \in 1..Len(x) : x[i] = y[i]
    <2> SUFFICES ASSUME NEW i \in 1..Len(x) PROVE x[i] = y[i]
      OBVIOUS
    <2>1. y[i] = w[i + k - 1]
      BY <1>6, <1>7
    <2>2. CASE i = Len(kept) + 1
      <3>1. i + k - 1 = Len(whole) + 1
        BY <1>2, <2>2
      <3> QED
        BY <1>3, <1>4, <2>1, <2>2, <3>1
    <2>3. CASE i # Len(kept) + 1
      <3>1. i \in 1..Len(kept) /\ i + k - 1 \in 1..Len(whole) /\ kept[i] = whole[i + k - 1]
        BY <1>2, <1>4, <2>3
      <3> QED
        BY <1>3, <1>4, <2>1, <3>1
    <2> QED
      BY <2>2, <2>3
  <1>9. x = y
    BY <1>4, <1>6, <1>7, <1>8, SeqEqual
  <1>10. \A i \in 1..(k - 1) : w[i].at < mtime - Window
    <2>1. \A i \in 1..(k - 1) : i \in 1..Len(whole)
      BY <1>2
    <2> QED
      BY <1>1, <1>3, <2>1
  <1>11. EndOf(x, w)
    BY <1>5, <1>9, <1>10 DEF EndOf, y
  <1> QED
    BY <1>11 DEF x, w

(* A message is judged, or it joins the others of its author.              *)
LEMMA OnMessageKeeps == MonitorInv /\ OnMessage => MonitorInv'
  <1> SUFFICES ASSUME MonitorInv, OnMessage PROVE MonitorInv'
    OBVIOUS
  <1>1. PICK s \in Senders \ Protected, text \in Texts :
          LET id == Identity[s]
              message == [at |-> mtime, text |-> text]
              own == Append(PrunedRecent[id], message)
          IN  IF Breached(own, text)
              THEN /\ recent' = [PrunedRecent EXCEPT ![id] = <<>>]
                   /\ log' = [log EXCEPT ![id] = <<>>]
                   /\ Escalate(id, IsRepeated(own, text))
              ELSE /\ recent' = [PrunedRecent EXCEPT ![id] = own]
                   /\ log' = [log EXCEPT ![id] = Append(@, message)]
                   /\ decision' = "none"
                   /\ offences' = PrunedOffences /\ cooling' = PrunedCooling
                   /\ UNCHANGED verdicts
    BY DEF OnMessage
  <1> DEFINE id == Identity[s]
             message == [at |-> mtime, text |-> text]
             own == Append(PrunedRecent[id], message)
  <1>2. /\ id \in Identities /\ message \in Heard /\ mtime' = mtime /\ mcount' \in 0..MaxMessages
        /\ mtime \in 0..MaxTime
    BY LimitsAre DEF OnMessage, MonitorInv, Heard, Identities
  <1>3. Window' = Window /\ Heard' = Heard /\ Offence' = Offence /\ Identities' = Identities
    BY DEF Window, Heard, Offence, Identities, NoOffence
  <1>4. \A i \in Identities : log[i] \in Seq(Heard) /\ EndOf(PrunedRecent[i], log[i])
    <2> SUFFICES ASSUME NEW i \in Identities
                 PROVE  log[i] \in Seq(Heard) /\ EndOf(PrunedRecent[i], log[i])
      OBVIOUS
    <2>1. log[i] \in Seq(Heard) /\ EndOf(recent[i], log[i])
      BY DEF MonitorInv
    <2> QED
      BY <1>2, <2>1, PrunedIsEnd DEF PrunedRecent
  <1>5. \A x, w : EndOf(x, w) => EndOf(x, w)'
    BY <1>2, <1>3 DEF EndOf
  <1>6. \A w : CountMessages(w, BurstWindow)' = CountMessages(w, BurstWindow)
    BY <1>2 DEF CountMessages, Since
  <1>7. DOMAIN PrunedRecent = Identities /\ log \in [Identities -> Seq(Heard)]
    BY DEF PrunedRecent, MonitorInv
  <1> HIDE DEF message
  <1>8. /\ log' \in [Identities -> Seq(Heard)]
        /\ \A i \in Identities : EndOf(recent[i], log[i])' /\ CountMessages(log[i], BurstWindow)' < BurstCount
    <2>1. CASE Breached(own, text)
      <3>1. recent' = [PrunedRecent EXCEPT ![id] = <<>>] /\ log' = [log EXCEPT ![id] = <<>>]
        BY <1>1, <2>1 DEF message
      <3>2. <<>> \in Seq(Heard) /\ EndOf(<<>>, <<>>)
        <4>1. Len(<<>>) = 0 /\ SubSeq(<<>>, 1, 0) = <<>> /\ 1 \in 1..(Len(<<>>) + 1)
          OBVIOUS
        <4>2. \A i \in 1..(1 - 1) : <<>>[i].at < mtime - Window
          OBVIOUS
        <4> QED
          BY <4>1, <4>2 DEF EndOf
      <3>3. CountMessages(<<>>, BurstWindow) < BurstCount
        <4>1. Since(<<>>, BurstWindow) = {}
          BY DEF Since
        <4>2. CountMessages(<<>>, BurstWindow) = 0
          BY <4>1, FS_EmptySet DEF CountMessages
        <4> QED
          BY <4>2, LimitsAre
      <3>4. \A i \in Identities : EndOf(recent'[i], log'[i]) /\ CountMessages(log'[i], BurstWindow) < BurstCount
        <4> SUFFICES ASSUME NEW i \in Identities
                     PROVE  EndOf(recent'[i], log'[i]) /\ CountMessages(log'[i], BurstWindow) < BurstCount
          OBVIOUS
        <4>1. CASE i = id
          BY <1>2, <1>7, <3>1, <3>2, <3>3, <4>1
        <4>2. CASE i # id
          <5>1. recent'[i] = PrunedRecent[i] /\ log'[i] = log[i]
            BY <1>2, <1>7, <3>1, <4>2
          <5> QED
            BY <1>4, <5>1 DEF MonitorInv
        <4> QED
          BY <4>1, <4>2
      <3> QED
        BY <1>5, <1>6, <1>7, <3>1, <3>2, <3>4, ZenonT(40)
    <2>2. CASE ~ Breached(own, text)
      <3>1. recent' = [PrunedRecent EXCEPT ![id] = own] /\ log' = [log EXCEPT ![id] = Append(@, message)]
        BY <1>1, <2>2 DEF message
      <3>2. Append(log[id], message) \in Seq(Heard) /\ EndOf(own, Append(log[id], message))
        <4>1. log[id] \in Seq(Heard) /\ EndOf(PrunedRecent[id], log[id])
          BY <1>2, <1>4
        <4> QED
          BY <1>2, <4>1, OneMore
      <3>3. CountMessages(Append(log[id], message), BurstWindow) < BurstCount
        <4> DEFINE w == Append(log[id], message)
        <4> HIDE DEF w, own
        <4>1. CountMessages(own, BurstWindow) = CountMessages(w, BurstWindow)
              /\ CountMessages(w, BurstWindow) \in Nat
          BY <1>2, <3>2, JudgedAlike, SinceIsFinite DEF w
        <4>2. ~ (CountMessages(own, BurstWindow) >= BurstCount)
          BY <2>2 DEF Breached
        <4> QED
          BY <4>1, <4>2, LimitsAre DEF w
      <3> HIDE DEF own
      <3>4. \A i \in Identities : EndOf(recent'[i], log'[i]) /\ CountMessages(log'[i], BurstWindow) < BurstCount
        <4> SUFFICES ASSUME NEW i \in Identities
                     PROVE  EndOf(recent'[i], log'[i]) /\ CountMessages(log'[i], BurstWindow) < BurstCount
          OBVIOUS
        <4>1. CASE i = id
          <5>1. recent'[i] = own /\ log'[i] = Append(log[id], message)
            BY <1>2, <1>7, <3>1, <4>1
          <5> QED
            BY <3>2, <3>3, <5>1
        <4>2. CASE i # id
          <5>1. recent'[i] = PrunedRecent[i] /\ log'[i] = log[i]
            BY <1>2, <1>7, <3>1, <4>2
          <5> QED
            BY <1>4, <5>1 DEF MonitorInv
        <4> QED
          BY <4>1, <4>2
      <3>5. log' \in [Identities -> Seq(Heard)]
        BY <1>2, <1>7, <3>1, <3>2
      <3> QED
        BY <1>5, <1>6, <3>4, <3>5
    <2> QED
      BY <2>1, <2>2
  <1>9. /\ decision' \in Sanctions \cup {"none"}
        /\ offences' \in [Identities -> Offence] /\ verdicts' \in [Identities -> Offence]
        /\ \A i \in Identities : verdicts'[i].at <= mtime /\ OnRecord(i)'
    <2>1. CASE offences' = PrunedOffences /\ verdicts' = verdicts /\ decision' = "none"
      <3>1. \A i \in Identities : OnRecord(i)'
        BY <1>2, <2>1, PrunedOnRecord DEF OnRecord, Within, Limit, NoOffence
      <3> QED
        BY <1>2, <2>1, <3>1, PrunedOnRecord DEF MonitorInv
    <2>2. CASE \E action \in Sanctions : /\ decision' = action
                   /\ offences' = [PrunedOffences EXCEPT ![id] = [action |-> action, at |-> mtime]]
                   /\ verdicts' = [verdicts EXCEPT ![id] = [action |-> action, at |-> mtime]]
      <3>1. PICK action \in Sanctions : /\ decision' = action
                   /\ offences' = [PrunedOffences EXCEPT ![id] = [action |-> action, at |-> mtime]]
                   /\ verdicts' = [verdicts EXCEPT ![id] = [action |-> action, at |-> mtime]]
        BY <2>2
      <3> DEFINE v == [action |-> action, at |-> mtime]
      <3>2. v \in Offence /\ v.at = mtime
        BY <1>2, OffenceIs
      <3> HIDE DEF v
      <3>3. PrunedOffences \in [Identities -> Offence] /\ verdicts \in [Identities -> Offence]
        BY <1>2, PrunedOnRecord DEF MonitorInv
      <3>4. offences' = [PrunedOffences EXCEPT ![id] = v] /\ verdicts' = [verdicts EXCEPT ![id] = v]
        BY <3>1 DEF v
      <3>5. offences' \in [Identities -> Offence] /\ verdicts' \in [Identities -> Offence]
        BY <1>2, <3>2, <3>3, <3>4
      <3>6. ASSUME NEW i \in Identities PROVE verdicts'[i].at <= mtime /\ OnRecord(i)'
        <4>1. CASE i = id
          <5>1. verdicts'[i] = v /\ offences'[i] = v
            BY <3>3, <3>4, <4>1
          <5> QED
            BY <1>2, <3>2, <5>1 DEF OnRecord
        <4>2. CASE i # id
          <5>1. verdicts'[i] = verdicts[i] /\ offences'[i] = PrunedOffences[i]
            BY <3>3, <3>4, <4>2
          <5> QED
            BY <1>2, <5>1, PrunedOnRecord DEF OnRecord, Within, Limit, NoOffence, MonitorInv
        <4> QED
          BY <4>1, <4>2
      <3> QED
        BY <3>1, <3>5, <3>6
    <2>3. \A r : NextSanction(PrunedOffences[id], r) \in Sanctions
      BY LadderIs DEF NextSanction
    <2> QED
      BY <1>1, <2>1, <2>2, <2>3 DEF Escalate
  <1> QED
    BY <1>2, <1>3, <1>8, <1>9 DEF MonitorInv

(* What is pruned is judged like the history, so nothing that is forgotten *)
(* would have made a breach.                                               *)
LEMMA InvIsFair == MonitorInv => MonitorTypeOK /\ PruningIsInvisible
  <1> SUFFICES ASSUME MonitorInv PROVE MonitorTypeOK /\ PruningIsInvisible
    OBVIOUS
  <1>1. ASSUME NEW i \in Identities
        PROVE  /\ recent[i] \in Seq(Heard) /\ CountMessages(log[i], BurstWindow) < BurstCount
               /\ CountMessages(recent[i], BurstWindow) = CountMessages(log[i], BurstWindow)
               /\ \A text \in Texts : Repeated(recent[i], text) = Repeated(log[i], text)
    <2>1. log[i] \in Seq(Heard) /\ EndOf(recent[i], log[i]) /\ mtime \in 0..MaxTime
          /\ CountMessages(log[i], BurstWindow) < BurstCount
      BY DEF MonitorInv
    <2> QED
      BY <2>1, JudgedAlike
  <1>2. PruningIsInvisible
    BY <1>1 DEF PruningIsInvisible
  <1>3. MonitorTypeOK
    BY <1>1 DEF MonitorTypeOK, MonitorInv, Heard
  <1> QED
    BY <1>2, <1>3

(* The next sanction is a step up from one that is fresh.                  *)
LEMMA LadderStep ==
    ASSUME MonitorInv, MonitorNext, NEW i \in Identities, verdicts'[i] # verdicts[i]
    PROVE  /\ verdicts[i].action \in {"warning", "mute"}
                /\ verdicts'[i].at - verdicts[i].at <= SecondBreachWindow
                => Rank(verdicts'[i].action) > Rank(verdicts[i].action)
           /\ verdicts[i].action = "kick" /\ verdicts'[i].at - verdicts[i].at <= PostKickWindow
                => verdicts'[i].action = "shadow-ban"
           /\ verdicts[i].action = "shadow-ban" => verdicts'[i].at - verdicts[i].at > PostKickWindow
  <1>1. PICK id \in Identities, r \in BOOLEAN : Escalate(id, r)
    <2>1. OnMessage
      BY DEF MonitorNext, OnIgnored, Elapse
    <2>2. PICK s \in Senders \ Protected, text \in Texts :
              LET own == Append(PrunedRecent[Identity[s]], [at |-> mtime, text |-> text])
              IN  Escalate(Identity[s], IsRepeated(own, text))
      BY <2>1 DEF OnMessage
    <2>3. \A own, said : IsRepeated(own, said) \in BOOLEAN
      BY DEF IsRepeated
    <2>4. Identity[s] \in Identities
      BY DEF Identities
    <2> QED
      BY <2>2, <2>3, <2>4
  <1>2. /\ id = i /\ PrunedOffences[i].action # "shadow-ban"
        /\ verdicts'[i] = [action |-> NextSanction(PrunedOffences[i], r), at |-> mtime]
    BY <1>1 DEF Escalate, MonitorInv
  <1>3. /\ verdicts[i].at \in Int /\ verdicts[i].at <= mtime /\ mtime \in Nat
        /\ verdicts[i].action \in Sanctions \cup {"none"} /\ verdicts[i] \in Offence
    BY LimitsAre, OffenceIs DEF MonitorInv
  <1>4. \/ PrunedOffences[i] = verdicts[i]
        \/ ~ Within(verdicts[i].at, Limit(verdicts[i].action)) /\ PrunedOffences[i] = NoOffence
    BY PrunedOnRecord
  <1>5. verdicts'[i].at = mtime /\ verdicts'[i].action = NextSanction(PrunedOffences[i], r)
    BY <1>2
  <1>6. ASSUME verdicts[i].action \in {"warning", "mute"}, mtime - verdicts[i].at <= SecondBreachWindow,
               verdicts[i].at # Never
        PROVE  Rank(NextSanction(PrunedOffences[i], r)) > Rank(verdicts[i].action)
    <2>1. Limit(verdicts[i].action) = SecondBreachWindow
      BY <1>6 DEF Limit
    <2>2. Within(verdicts[i].at, SecondBreachWindow)
      BY <1>3, <1>6, LimitsAre DEF Within
    <2>3. PrunedOffences[i] = verdicts[i]
      BY <1>4, <2>1, <2>2
    <2>4. CASE verdicts[i].action = "warning"
      <3>1. NextSanction(PrunedOffences[i], r) = "mute"
        BY <2>2, <2>3, <2>4 DEF NextSanction
      <3> QED
        BY <2>4, <3>1, LadderIs
    <2>5. CASE verdicts[i].action = "mute"
      <3>1. NextSanction(PrunedOffences[i], r) = "kick"
        BY <2>2, <2>3, <2>5 DEF NextSanction
      <3> QED
        BY <2>5, <3>1, LadderIs
    <2> QED
      BY <1>6, <2>4, <2>5
  <1>7. ASSUME verdicts[i].action = "kick", mtime - verdicts[i].at <= PostKickWindow,
               verdicts[i].at # Never
        PROVE  NextSanction(PrunedOffences[i], r) = "shadow-ban"
    <2>1. Within(verdicts[i].at, PostKickWindow) /\ Limit(verdicts[i].action) = PostKickWindow
      BY <1>3, <1>7, LimitsAre DEF Within, Limit
    <2>2. PrunedOffences[i] = verdicts[i]
      BY <1>4, <2>1
    <2> QED
      BY <1>7, <2>1, <2>2 DEF NextSanction
  <1>8. ASSUME verdicts[i].action = "shadow-ban", verdicts[i].at # Never
        PROVE  mtime - verdicts[i].at > PostKickWindow
    <2>1. ~ Within(verdicts[i].at, PostKickWindow)
      BY <1>2, <1>4, <1>8 DEF Limit
    <2> QED
      BY <1>3, <1>8, <2>1, LimitsAre DEF Within
  <1>9. verdicts[i].action # "none" => verdicts[i].at # Never
    BY <1>3, OffenceIs
  <1> QED
    BY <1>5, <1>6, <1>7, <1>8, <1>9

(* What a message, an ignored message or time leads to.                    *)
THEOREM MonitorInductive == MonitorSpec => []MonitorInv
  <1>1. MonitorInit => MonitorInv
    BY MonitorStart
  <1>2. MonitorInv /\ [MonitorNext]_monitorVars => MonitorInv'
    <2> SUFFICES ASSUME MonitorInv, [MonitorNext]_monitorVars PROVE MonitorInv'
      OBVIOUS
    <2>1. CASE OnMessage
      BY <2>1, OnMessageKeeps
    <2>2. CASE OnIgnored
      BY <2>2, OnIgnoredKeeps
    <2>3. CASE Elapse
      BY <2>3, ElapseKeeps
    <2>4. CASE UNCHANGED monitorVars
      <3>1. UNCHANGED <<mtime, recent, offences, log, verdicts>> /\ mcount' = mcount /\ decision' = decision
        BY <2>4 DEF monitorVars
      <3>2. mcount \in 0..MaxMessages /\ decision \in Sanctions \cup {"none"}
        BY DEF MonitorInv
      <3> QED
        BY <3>1, <3>2, NothingHeard
    <2> QED
      BY <2>1, <2>2, <2>3, <2>4 DEF MonitorNext
  <1> QED
    BY <1>1, <1>2, PTL DEF MonitorSpec

(* For any senders, identities, texts, counts and windows: forgetting old  *)
(* messages changes no judgement, every breach is judged, and sanctions    *)
(* against an identity climb as long as the last one is fresh.             *)
THEOREM MonitorStaysFair == MonitorSpec => MonitorIsFair
  <1>1. MonitorInv => MonitorTypeOK /\ PruningIsInvisible
    BY InvIsFair
  <1>2. MonitorInv /\ [MonitorNext]_monitorVars =>
            [\A i \in Identities :
                LET last == verdicts[i]
                    age == verdicts'[i].at - last.at
                IN  verdicts'[i] # last
                    => /\ last.action \in {"warning", "mute"} /\ age <= SecondBreachWindow
                             => Rank(verdicts'[i].action) > Rank(last.action)
                       /\ last.action = "kick" /\ age <= PostKickWindow
                             => verdicts'[i].action = "shadow-ban"
                       /\ last.action = "shadow-ban" => age > PostKickWindow]_monitorVars
    BY LadderStep
  <1> QED
    BY <1>1, <1>2, MonitorInductive, PTL DEF MonitorIsFair, LadderIsClimbed, MonitorSpec

-----------------------------------------------------------------------------
(* The monitor of joins *)

Arrivals == [at : 0..MaxJoinTime, who : Joiners]
OldestFirst(joins) == \A i, k \in DOMAIN joins : i <= k => joins[i].at <= joins[k].at

(* The joins with the hash h that were judged after the join number r.     *)
After(h, r) == {i \in (r + 1)..Len(joined) : HashOf[joined[i].who] = h}

(* The bucket of h started over with the join r: what it holds came later, *)
(* and it holds all of that which is young enough.  If r is a join, a      *)
(* captcha was decided a cooldown before it at most; and a signal of h is  *)
(* the raid that ended with r.                                             *)
SoundSince(h, r) ==
    /\ OldestFirst(hashes[h])
    /\ ToSet(hashes[h]) \subseteq {joined[i] : i \in After(h, r)}
    /\ \A i \in After(h, r) : joined[i].at >= jtime - SameHashWindow
                                  => joined[i] \in ToSet(hashes[h])
    /\ r > 0 => captchaAt # Unset /\ captchaAt >= joined[r].at - JoinCooldown
    /\ signals[h] # Unset
          => r > 0 /\ signals[h] = joined[r].at /\ \E a \in 1..r : IsRaid(h, a, r)

JoinedInOrder ==
    /\ jtime \in 0..MaxJoinTime /\ captchaAt \in Unset..MaxJoinTime /\ captchaAt <= jtime
    /\ joined \in Seq(Arrivals) /\ OldestFirst(joined)
    /\ \A i \in 1..Len(joined) : joined[i].at <= jtime
    /\ hashes \in [Hashes -> Seq(Arrivals)] /\ signals \in [Hashes -> Unset..MaxJoinTime]

JoinInv ==
    /\ JoinedInOrder /\ decided \in [captcha : BOOLEAN, ban : SUBSET Joiners]
    /\ \A h \in Hashes : \E r \in 0..Len(joined) : SoundSince(h, r)
    /\ RaidIsRepeated /\ RaidIsMet

LEMMA JoinLimits ==
    /\ SameHashCount \in Nat \ {0} /\ SameHashWindow \in Nat \ {0}
    /\ JoinCooldown \in Nat \ {0} /\ RaidWindow \in Nat \ {0} /\ MaxJoinTime \in Nat
    /\ Unset \in Int /\ Unset < 0
  <1>1. SameHashCount \in Nat \ {0}
    BY JoinAssumption, Zenon
  <1>2. SameHashWindow \in Nat \ {0}
    BY JoinAssumption, Zenon
  <1>3. JoinCooldown \in Nat \ {0}
    BY JoinAssumption, Zenon
  <1>4. RaidWindow \in Nat \ {0} /\ MaxJoinTime \in Nat
    BY JoinAssumption, Zenon
  <1> QED
    BY <1>1, <1>2, <1>3, <1>4 DEF Unset

LEMMA JoinsAre ==
    ASSUME NEW s \in Seq(Arrivals)
    PROVE  /\ Len(s) \in Nat /\ DOMAIN s = 1..Len(s)
           /\ ToSet(s) = {s[i] : i \in 1..Len(s)} /\ ToSet(s) \subseteq Arrivals
           /\ \A i \in 1..Len(s) : s[i] \in Arrivals /\ s[i].at \in 0..MaxJoinTime /\ s[i].who \in Joiners
           /\ \A m \in ToSet(s) : m.at \in 0..MaxJoinTime /\ m.at \in Int
  <1>1. Len(s) \in Nat /\ DOMAIN s = 1..Len(s) /\ \A i \in 1..Len(s) : s[i] \in Arrivals
    OBVIOUS
  <1>2. ToSet(s) = {s[i] : i \in 1..Len(s)}
    BY <1>1 DEF ToSet
  <1>3. \A m \in Arrivals : m.at \in 0..MaxJoinTime /\ m.who \in Joiners /\ m.at \in Int
    BY JoinLimits DEF Arrivals
  <1>4. ToSet(s) \subseteq Arrivals
    BY <1>1, <1>2
  <1> QED
    BY <1>1, <1>2, <1>3, <1>4

(* Ageing a bucket that is in order leaves what is young enough.           *)
LEMMA PrunedJoins ==
    ASSUME NEW s \in Seq(Arrivals), OldestFirst(s), NEW span \in Nat, jtime \in 0..MaxJoinTime
    PROVE  /\ Prune(s, span) \in Seq(Arrivals) /\ OldestFirst(Prune(s, span))
           /\ ToSet(Prune(s, span)) = {m \in ToSet(s) : m.at >= jtime - span}
  <1> DEFINE young == NotBefore(s, span)
  <1>1. Len(s) \in Nat /\ DOMAIN s = 1..Len(s) /\ ToSet(s) = {s[i] : i \in 1..Len(s)}
        /\ \A i \in 1..Len(s) : s[i] \in Arrivals /\ s[i].at \in Int
    BY JoinsAre
  <1>2. young = {i \in 1..Len(s) : s[i].at >= jtime - span}
    BY <1>1 DEF NotBefore
  <1>3. jtime - span \in Int
    BY JoinLimits
  <1>4. CASE young = {}
    <2>1. Prune(s, span) = <<>>
      BY <1>4 DEF Prune
    <2>2. {m \in ToSet(s) : m.at >= jtime - span} = {}
      BY <1>1, <1>2, <1>4
    <2>3. <<>> \in Seq(Arrivals) /\ OldestFirst(<<>>) /\ ToSet(<<>>) = {}
      BY DEF OldestFirst, ToSet
    <2> QED
      BY <2>1, <2>2, <2>3
  <1>5. CASE young # {}
    <2> DEFINE f == Min(young)
               t == SubSeq(s, f, Len(s))
    <2>1. f \in young /\ \A y \in young : f <= y
      <3>1. young \in SUBSET Nat
        BY <1>2
      <3> HIDE DEF young
      <3> QED
        BY <1>5, <3>1, FirstPlace
    <2>2. Prune(s, span) = t
      BY <1>5 DEF Prune
    <2> HIDE DEF f
    <2>3. f \in 1..Len(s) /\ s[f].at >= jtime - span
      BY <1>2, <2>1
    <2>4. t \in Seq(Arrivals) /\ DOMAIN t = 1..(Len(s) - f + 1) /\ Len(t) = Len(s) - f + 1
          /\ \A i \in 1..(Len(s) - f + 1) : t[i] = s[i + f - 1] /\ i + f - 1 \in 1..Len(s)
      <3>1. f \in 1..(Len(s) + 1)
        BY <1>1, <2>3
      <3> QED
        BY <3>1, EndOfSequence
    <2> HIDE DEF t
    <2>5. \A i \in 1..(Len(s) - f + 1) : i + f - 1 >= f
      BY <2>3
    <2>6. OldestFirst(t)
      <3> SUFFICES ASSUME NEW i \in DOMAIN t, NEW k \in DOMAIN t, i <= k PROVE t[i].at <= t[k].at
        BY DEF OldestFirst
      <3>1. t[i] = s[i + f - 1] /\ t[k] = s[k + f - 1] /\ i + f - 1 \in DOMAIN s
            /\ k + f - 1 \in DOMAIN s /\ i + f - 1 <= k + f - 1
        BY <1>1, <2>3, <2>4
      <3> QED
        BY <3>1 DEF OldestFirst
    <2>7. \A i \in f..Len(s) : s[i].at >= jtime - span
      <3> SUFFICES ASSUME NEW i \in f..Len(s) PROVE s[i].at >= jtime - span
        OBVIOUS
      <3>1. i \in DOMAIN s /\ f \in DOMAIN s /\ f <= i
        BY <1>1, <2>3
      <3>2. s[f].at <= s[i].at /\ s[f].at \in Int /\ s[i].at \in Int
        BY <1>1, <3>1 DEF OldestFirst
      <3> QED
        BY <1>3, <2>3, <3>2
    <2>8. ToSet(t) = {s[i] : i \in f..Len(s)}
      <3>1. ToSet(t) = {t[i] : i \in 1..(Len(s) - f + 1)}
        BY <2>4 DEF ToSet
      <3>2. \A i \in 1..(Len(s) - f + 1) : t[i] = s[i + f - 1] /\ i + f - 1 \in f..Len(s)
        BY <1>1, <2>3, <2>4
      <3>3. \A k \in f..Len(s) : s[k] = t[k - f + 1] /\ k - f + 1 \in 1..(Len(s) - f + 1)
        <4> SUFFICES ASSUME NEW k \in f..Len(s)
                     PROVE  s[k] = t[k - f + 1] /\ k - f + 1 \in 1..(Len(s) - f + 1)
          OBVIOUS
        <4>1. k - f + 1 \in 1..(Len(s) - f + 1) /\ (k - f + 1) + f - 1 = k
          BY <1>1, <2>3
        <4> QED
          BY <2>4, <4>1
      <3> QED
        BY <3>1, <3>2, <3>3
    <2>9. {m \in ToSet(s) : m.at >= jtime - span} = {s[i] : i \in f..Len(s)}
      <3>1. \A i \in 1..Len(s) : s[i].at >= jtime - span => i \in f..Len(s)
        BY <1>2, <2>1, <2>3
      <3>2. \A i \in f..Len(s) : i \in 1..Len(s)
        BY <1>1, <2>3
      <3> QED
        BY <1>1, <2>7, <3>1, <3>2
    <2> QED
      BY <2>2, <2>4, <2>6, <2>8, <2>9
  <1> QED
    BY <1>4, <1>5

(* A bucket takes a join that is not earlier than what it holds.           *)
LEMMA OneMoreJoin ==
    ASSUME NEW s \in Seq(Arrivals), OldestFirst(s), NEW m \in Arrivals, \A x \in ToSet(s) : x.at <= m.at
    PROVE  /\ Append(s, m) \in Seq(Arrivals) /\ OldestFirst(Append(s, m))
           /\ ToSet(Append(s, m)) = ToSet(s) \cup {m}
  <1> DEFINE t == Append(s, m)
  <1>1. Len(s) \in Nat /\ DOMAIN s = 1..Len(s) /\ ToSet(s) = {s[i] : i \in 1..Len(s)}
        /\ \A i \in 1..Len(s) : s[i].at \in Int
    BY JoinsAre
  <1>2. t \in Seq(Arrivals) /\ DOMAIN t = 1..(Len(s) + 1) /\ t[Len(s) + 1] = m
        /\ \A i \in 1..Len(s) : t[i] = s[i]
    OBVIOUS
  <1>3. m.at \in Int
    BY JoinLimits DEF Arrivals
  <1> HIDE DEF t
  <1>4. \A i \in 1..(Len(s) + 1) : i \in 1..Len(s) \/ i = Len(s) + 1
    BY <1>1
  <1>5. ToSet(t) = ToSet(s) \cup {m}
    <2>1. ToSet(t) = {t[i] : i \in 1..(Len(s) + 1)}
      BY <1>2 DEF ToSet
    <2>2. 1..Len(s) \subseteq 1..(Len(s) + 1) /\ Len(s) + 1 \in 1..(Len(s) + 1)
      BY <1>1
    <2> QED
      BY <1>1, <1>2, <1>4, <2>1, <2>2
  <1>6. OldestFirst(t)
    <2> SUFFICES ASSUME NEW i \in DOMAIN t, NEW k \in DOMAIN t, i <= k PROVE t[i].at <= t[k].at
      BY DEF OldestFirst
    <2>1. CASE k \in 1..Len(s)
      <3>1. i \in 1..Len(s)
        BY <1>1, <1>2, <2>1
      <3> QED
        BY <1>1, <1>2, <2>1, <3>1 DEF OldestFirst
    <2>2. CASE k = Len(s) + 1 /\ i \in 1..Len(s)
      BY <1>1, <1>2, <2>2
    <2>3. CASE k = Len(s) + 1 /\ i = Len(s) + 1
      BY <1>2, <1>3, <2>3
    <2> QED
      BY <1>2, <1>4, <2>1, <2>2, <2>3
  <1> QED
    BY <1>2, <1>5, <1>6 DEF t

(* The nicks of a bucket, and of the joins from a to b.                    *)
LEMMA VariantsAre ==
    ASSUME NEW s \in Seq(Arrivals)
    PROVE  Variants(s) = {Nick[m.who] : m \in ToSet(s)}
  <1>1. DOMAIN s = 1..Len(s) /\ ToSet(s) = {s[i] : i \in 1..Len(s)}
    BY JoinsAre
  <1> QED
    BY <1>1 DEF Variants

RaidersIn(joins, h, a, b) == {Nick[joins[i].who] : i \in {k \in a..b : HashOf[joins[k].who] = h}}

LEMMA RaidersAreFinite ==
    ASSUME NEW joins, NEW h, NEW a \in Int, NEW b \in Int,
           NEW S \in SUBSET RaidersIn(joins, h, a, b)
    PROVE  /\ IsFiniteSet(S) /\ Cardinality(S) \in Nat
           /\ Cardinality(RaidersIn(joins, h, a, b)) \in Nat
           /\ Cardinality(S) <= Cardinality(RaidersIn(joins, h, a, b))
  <1> DEFINE of == {k \in a..b : HashOf[joins[k].who] = h}
             nicks == {Nick[joins[i].who] : i \in of}
             f == [i \in of |-> Nick[joins[i].who]]
  <1>1. IsFiniteSet(of)
    <2>1. IsFiniteSet(a..b)
      BY FS_Interval
    <2>2. of \subseteq a..b
      OBVIOUS
    <2> HIDE DEF of
    <2> QED
      BY <2>1, <2>2, FS_Subset
  <1>2. RaidersIn(joins, h, a, b) = nicks
    BY DEF RaidersIn
  <1>3. IsFiniteSet(nicks)
    <2> HIDE DEF of
    <2>1. f \in Surjection(of, nicks)
      BY DEF Surjection
    <2> HIDE DEF nicks, f
    <2> QED
      BY <1>1, <2>1, FS_Surjection
  <1> HIDE DEF nicks
  <1> QED
    BY <1>2, <1>3, FS_Subset, FS_CardinalityType

(* The history with one more join.                                         *)
LEMMA NewJoin ==
    ASSUME JoinedInOrder, NEW j \in Joiners, NEW join, join = [at |-> jtime, who |-> j],
           joined' = Append(joined, join), NEW n, n = Len(joined) + 1
    PROVE  /\ n \in Nat /\ n >= 1 /\ Len(joined) = n - 1 /\ Len(joined') = n /\ DOMAIN joined' = 1..n
           /\ join \in Arrivals /\ joined'[n] = join /\ \A i \in 1..(n - 1) : joined'[i] = joined[i]
           /\ joined' \in Seq(Arrivals) /\ OldestFirst(joined')
           /\ \A i \in 1..n : joined'[i].at \in 0..MaxJoinTime /\ joined'[i].at <= jtime
           /\ \A h, a, b : a \in 1..(n - 1) /\ b \in 1..(n - 1) => (IsRaid(h, a, b)' <=> IsRaid(h, a, b))
  <1>1. joined \in Seq(Arrivals) /\ OldestFirst(joined) /\ jtime \in 0..MaxJoinTime
        /\ \A i \in 1..Len(joined) : joined[i].at <= jtime
    BY DEF JoinedInOrder
  <1>2. Len(joined) \in Nat /\ n \in Nat /\ n >= 1 /\ Len(joined) = n - 1
        /\ \A i \in 1..(n - 1) : joined[i].at \in 0..MaxJoinTime
    BY <1>1, JoinsAre
  <1>3. join \in Arrivals /\ join.at = jtime
    BY <1>1 DEF Arrivals
  <1>4. \A x \in ToSet(joined) : x.at <= join.at
    <2>1. ToSet(joined) = {joined[i] : i \in 1..Len(joined)}
      BY <1>1, JoinsAre
    <2> QED
      BY <1>1, <1>3, <2>1
  <1>5. joined' \in Seq(Arrivals) /\ OldestFirst(joined')
    BY <1>1, <1>3, <1>4, OneMoreJoin
  <1>6. Len(joined') = n /\ DOMAIN joined' = 1..n /\ joined'[n] = join
        /\ \A i \in 1..(n - 1) : joined'[i] = joined[i]
    BY <1>1, <1>2, <1>3
  <1>7. \A i \in 1..n : joined'[i].at \in 0..MaxJoinTime /\ joined'[i].at <= jtime
    <2> SUFFICES ASSUME NEW i \in 1..n PROVE joined'[i].at \in 0..MaxJoinTime /\ joined'[i].at <= jtime
      OBVIOUS
    <2>1. i \in 1..(n - 1) \/ i = n
      BY <1>2
    <2>2. CASE i = n
      BY <1>1, <1>3, <1>6, <2>2, JoinLimits
    <2>3. CASE i \in 1..(n - 1)
      BY <1>1, <1>2, <1>6, <2>3
    <2> QED
      BY <2>1, <2>2, <2>3
  <1>8. ASSUME NEW h, NEW a, NEW b, a \in 1..(n - 1), b \in 1..(n - 1)
        PROVE  IsRaid(h, a, b)' <=> IsRaid(h, a, b)
    <2>1. \A i \in a..b : joined'[i] = joined[i]
      BY <1>2, <1>6, <1>8
    <2>2. RaidersIn(joined', h, a, b) = RaidersIn(joined, h, a, b)
      BY <2>1 DEF RaidersIn
    <2>3. Raiders(h, a, b)' = Raiders(h, a, b)
      BY <2>2 DEF Raiders, RaidersIn
    <2> QED
      BY <1>6, <1>8, <2>3 DEF IsRaid
  <1> QED
    BY <1>2, <1>3, <1>5, <1>6, <1>7, <1>8

(* The joins of a hash after r, with one more join.                        *)
LEMMA OneMoreAfter ==
    ASSUME JoinedInOrder, NEW j \in Joiners, NEW join, join = [at |-> jtime, who |-> j],
           joined' = Append(joined, join), NEW n, n = Len(joined) + 1, NEW h, NEW r \in 0..(n - 1)
    PROVE  After(h, r)' = After(h, r) \cup (IF HashOf[j] = h THEN {n} ELSE {})
           /\ After(h, r) \subseteq (r + 1)..(n - 1)
  <1>1. /\ n \in Nat /\ Len(joined) = n - 1 /\ Len(joined') = n /\ joined'[n] = join
        /\ \A i \in 1..(n - 1) : joined'[i] = joined[i]
    BY NewJoin
  <1>2. After(h, r)' = {i \in (r + 1)..n : HashOf[joined'[i].who] = h}
    BY <1>1 DEF After
  <1>3. After(h, r) = {i \in (r + 1)..(n - 1) : HashOf[joined[i].who] = h}
    BY <1>1 DEF After
  <1>4. \A i \in (r + 1)..n : i = n \/ i \in (r + 1)..(n - 1)
    BY <1>1
  <1>5. \A i \in (r + 1)..(n - 1) : i \in (r + 1)..n /\ i # n /\ joined'[i] = joined[i]
    BY <1>1
  <1>6. n \in (r + 1)..n /\ joined'[n].who = j
    BY <1>1
  <1> QED
    BY <1>2, <1>3, <1>4, <1>5, <1>6

(* The bucket of h as a join finds it: what is young enough of the joins   *)
(* after r.                                                                *)
LEMMA AgedBucket ==
    ASSUME JoinedInOrder, NEW h \in Hashes, NEW r \in 0..Len(joined), SoundSince(h, r)
    PROVE  /\ AgedHashes[h] \in Seq(Arrivals) /\ OldestFirst(AgedHashes[h])
           /\ ToSet(AgedHashes[h]) = {joined[i] : i \in {k \in After(h, r) :
                                           joined[k].at >= jtime - SameHashWindow}}
  <1>1. AgedHashes[h] = Prune(hashes[h], SameHashWindow)
    BY DEF AgedHashes
  <1>2. hashes[h] \in Seq(Arrivals) /\ OldestFirst(hashes[h]) /\ jtime \in 0..MaxJoinTime
    BY DEF JoinedInOrder, SoundSince
  <1>3. /\ AgedHashes[h] \in Seq(Arrivals) /\ OldestFirst(AgedHashes[h])
        /\ ToSet(AgedHashes[h]) = {m \in ToSet(hashes[h]) : m.at >= jtime - SameHashWindow}
    <2>1. SameHashWindow \in Nat
      BY JoinLimits
    <2> QED
      BY <1>1, <1>2, <2>1, PrunedJoins
  <1>4. ToSet(hashes[h]) \subseteq {joined[i] : i \in After(h, r)}
        /\ \A i \in After(h, r) : joined[i].at >= jtime - SameHashWindow
                                  => joined[i] \in ToSet(hashes[h])
    BY DEF SoundSince
  <1> QED
    BY <1>3, <1>4

(* A bucket breaches its limit with a join when the joins after r end with *)
(* a raid.                                                                 *)
LEMMA BreachIsRaid ==
    ASSUME JoinedInOrder, NEW j \in Joiners, NEW join, join = [at |-> jtime, who |-> j],
           joined' = Append(joined, join), NEW n, n = Len(joined) + 1,
           NEW h \in Hashes, HashOf[j] = h, NEW r \in 0..(n - 1), SoundSince(h, r)
    PROVE  /\ HashWith(join) \in Seq(Arrivals) /\ OldestFirst(HashWith(join))
           /\ ToSet(HashWith(join)) \subseteq {joined'[i] : i \in After(h, r)'}
           /\ \A i \in After(h, r)' : joined'[i].at >= jtime - SameHashWindow
                                      => joined'[i] \in ToSet(HashWith(join))
           /\ HashBreached(join) <=> \E a \in (r + 1)..n : IsRaid(h, a, n)'
  <1> DEFINE young == {k \in After(h, r)' : joined'[k].at >= jtime - SameHashWindow}
             told == {joined'[i] : i \in young}
             with == HashWith(join)
  <1>1. /\ n \in Nat /\ n >= 1 /\ Len(joined) = n - 1 /\ DOMAIN joined' = 1..n
        /\ join \in Arrivals /\ joined'[n] = join /\ \A i \in 1..(n - 1) : joined'[i] = joined[i]
        /\ OldestFirst(joined')
        /\ \A i \in 1..n : joined'[i].at \in 0..MaxJoinTime /\ joined'[i].at <= jtime
    BY NewJoin
  <1>2. After(h, r)' = After(h, r) \cup {n} /\ After(h, r) \subseteq (r + 1)..(n - 1)
    BY OneMoreAfter
  <1>3. /\ AgedHashes[h] \in Seq(Arrivals) /\ OldestFirst(AgedHashes[h])
        /\ ToSet(AgedHashes[h]) = {joined[i] : i \in {k \in After(h, r) :
                                        joined[k].at >= jtime - SameHashWindow}}
    BY <1>1, AgedBucket
  <1>4. jtime \in Int /\ join.at = jtime /\ SameHashWindow \in Nat /\ SameHashCount \in Nat
    BY JoinLimits DEF JoinedInOrder
  <1>5. young = {k \in After(h, r) : joined[k].at >= jtime - SameHashWindow} \cup {n}
    <2>1. \A k \in After(h, r) : joined'[k] = joined[k] /\ k # n
      BY <1>1, <1>2
    <2>2. joined'[n].at >= jtime - SameHashWindow
      BY <1>1, <1>4
    <2> QED
      BY <1>2, <2>1, <2>2
  <1>6. ToSet(AgedHashes[h]) \cup {join} = told
    <2>1. \A k \in After(h, r) : joined'[k] = joined[k]
      BY <1>1, <1>2
    <2> DEFINE old == {k \in After(h, r) : joined[k].at >= jtime - SameHashWindow}
    <2>2. ToSet(AgedHashes[h]) = {joined[i] : i \in old} /\ young = old \cup {n}
      BY <1>3, <1>5
    <2>3. \A k \in old : joined'[k] = joined[k]
      BY <2>1
    <2> HIDE DEF old, young
    <2> QED
      BY <1>1, <2>2, <2>3, ZenonT(40)
  <1>7. with = Append(AgedHashes[h], join)
    BY DEF HashWith
  <1>8. \A x \in ToSet(AgedHashes[h]) : x.at <= join.at
    <2>1. \A i \in After(h, r) : joined[i].at <= jtime
      <3>1. \A i \in (r + 1)..(n - 1) : i \in 1..Len(joined)
        BY <1>1
      <3> QED
        BY <1>2, <3>1 DEF JoinedInOrder
    <2> QED
      BY <1>3, <1>4, <2>1
  <1>9. with \in Seq(Arrivals) /\ OldestFirst(with) /\ ToSet(with) = told
    BY <1>1, <1>3, <1>6, <1>7, <1>8, OneMoreJoin
  <1>10. young \subseteq (r + 1)..n /\ n \in young
    <2>1. \A k \in (r + 1)..(n - 1) : k \in (r + 1)..n
      BY <1>1
    <2>2. n \in (r + 1)..n
      BY <1>1
    <2> QED
      BY <1>2, <1>5, <2>1, <2>2
  <1>11. \A k \in young : HashOf[joined'[k].who] = h
    BY DEF After
  <1>12. Variants(with) = {Nick[joined'[i].who] : i \in young}
    <2>1. Variants(with) = {Nick[m.who] : m \in told}
      <3> HIDE DEF told, with
      <3> QED
        BY <1>9, VariantsAre
    <2> HIDE DEF young, with
    <2> QED
      BY <2>1
  <1>13. HashBreached(join) <=> Cardinality(Variants(with)) >= SameHashCount
    <2>1. h # Blank /\ HashOf[join.who] = h
      BY DEF Hashes
    <2> QED
      BY <2>1 DEF HashBreached, Distinct
  <1>14. \A a \in 1..n : IsRaid(h, a, n)' <=> /\ joined'[a].at >= jtime - SameHashWindow
                                             /\ Cardinality(RaidersIn(joined', h, a, n)) >= SameHashCount
    <2> SUFFICES ASSUME NEW a \in 1..n
                 PROVE  IsRaid(h, a, n)' <=> /\ joined'[a].at >= jtime - SameHashWindow
                                            /\ Cardinality(RaidersIn(joined', h, a, n)) >= SameHashCount
      OBVIOUS
    <2>1. Raiders(h, a, n)' = RaidersIn(joined', h, a, n)
      BY DEF Raiders, RaidersIn
    <2>2. joined'[n].at - joined'[a].at <= SameHashWindow <=> joined'[a].at >= jtime - SameHashWindow
      BY <1>1, <1>4
    <2> QED
      BY <2>1, <2>2 DEF IsRaid
  <1>15. ASSUME HashBreached(join) PROVE \E a \in (r + 1)..n : IsRaid(h, a, n)'
    <2>1. PICK a \in young : \A y \in young : a <= y
      <3>1. young \in SUBSET Nat /\ young # {}
        <4> HIDE DEF young
        <4> QED
          BY <1>1, <1>10
      <3> HIDE DEF young
      <3> QED
        BY <3>1, FirstPlace
    <2>2. a \in 1..n /\ a \in (r + 1)..n
      <3> HIDE DEF young
      <3> QED
        BY <1>1, <1>10, <2>1
    <2>3. \A i \in young : i \in a..n
      <3> HIDE DEF young
      <3> QED
        BY <1>1, <1>10, <2>1, <2>2
    <2>4. Variants(with) \subseteq RaidersIn(joined', h, a, n)
      <3> HIDE DEF young, with
      <3> QED
        BY <1>11, <1>12, <2>3 DEF RaidersIn
    <2>5. /\ Cardinality(Variants(with)) \in Nat /\ Cardinality(RaidersIn(joined', h, a, n)) \in Nat
          /\ Cardinality(Variants(with)) <= Cardinality(RaidersIn(joined', h, a, n))
      <3>1. a \in Int /\ n \in Int
        BY <1>1, <2>2
      <3> QED
        BY <2>4, <3>1, RaidersAreFinite
    <2>6. joined'[a].at >= jtime - SameHashWindow
      BY <2>1
    <2> QED
      BY <1>4, <1>13, <1>14, <1>15, <2>2, <2>5, <2>6
  <1>16. ASSUME NEW a \in (r + 1)..n, IsRaid(h, a, n)' PROVE HashBreached(join)
    <2>1. a \in 1..n
      BY <1>1
    <2>2. joined'[a].at >= jtime - SameHashWindow
          /\ Cardinality(RaidersIn(joined', h, a, n)) >= SameHashCount
      BY <1>14, <1>16, <2>1
    <2>3. ASSUME NEW k \in a..n, HashOf[joined'[k].who] = h PROVE k \in young
      <3>1. k \in 1..n /\ k \in (r + 1)..n
        BY <1>1, <2>1
      <3>2. joined'[a].at <= joined'[k].at
        BY <1>1, <2>1, <3>1 DEF OldestFirst
      <3>3. joined'[k].at >= jtime - SameHashWindow
        <4>1. joined'[a].at \in Int /\ joined'[k].at \in Int
          BY <1>1, <2>1, <3>1, JoinLimits
        <4> QED
          BY <1>4, <2>2, <3>2, <4>1
      <3>4. k \in After(h, r)'
        <4>1. Len(joined') = n
          BY NewJoin
        <4> QED
          BY <2>3, <3>1, <4>1 DEF After
      <3> QED
        BY <3>3, <3>4
    <2>4. RaidersIn(joined', h, a, n) \subseteq Variants(with)
      <3> HIDE DEF young, with
      <3> QED
        BY <1>12, <2>3 DEF RaidersIn
    <2>5. Variants(with) \subseteq RaidersIn(joined', h, r + 1, n)
      <3> HIDE DEF young, with
      <3> QED
        BY <1>10, <1>11, <1>12 DEF RaidersIn
    <2>6. IsFiniteSet(Variants(with)) /\ Cardinality(Variants(with)) \in Nat
      <3>1. r + 1 \in Int /\ n \in Int
        BY <1>1
      <3> HIDE DEF with
      <3> QED
        BY <2>5, <3>1, RaidersAreFinite
    <2>7. /\ Cardinality(RaidersIn(joined', h, a, n)) <= Cardinality(Variants(with))
          /\ Cardinality(RaidersIn(joined', h, a, n)) \in Nat
      <3> HIDE DEF with
      <3> QED
        BY <2>4, <2>6, FS_Subset, FS_CardinalityType
    <2> QED
      BY <1>4, <1>13, <2>2, <2>6, <2>7
  <1>17. told \subseteq {joined'[i] : i \in After(h, r)'}
    OBVIOUS
  <1> QED
    BY <1>9, <1>15, <1>16, <1>17

(* What a join does to the signals, to the captcha and to the clock.       *)
LEMMA JoinEffects ==
    ASSUME JoinedInOrder, NEW j \in Joiners, OnJoin(j), NEW join, join = [at |-> jtime, who |-> j],
           NEW n, n = Len(joined) + 1
    PROVE  /\ joined' = Append(joined, join) /\ jtime' = jtime
           /\ HashBreached(join) => HashOf[j] \in Hashes
           /\ \A h \in Hashes : HashOf[j] = h => hashes'[h] = IF HashBreached(join) THEN <<>> ELSE HashWith(join)
           /\ \A h \in Hashes : HashOf[j] # h => hashes'[h] = AgedHashes[h]
           /\ DOMAIN hashes' = Hashes /\ DOMAIN signals' = Hashes
           /\ \A h \in Hashes : HashOf[j] = h /\ HashBreached(join) => signals'[h] = jtime
           /\ \A h \in Hashes : ~ (HashOf[j] = h /\ HashBreached(join))
                                 => signals'[h] = signals[h] \/ signals'[h] = Unset
           /\ captchaAt' = captchaAt \/ captchaAt' = jtime
           /\ captchaAt' \in Int /\ captchaAt' <= jtime /\ captchaAt' >= captchaAt
           /\ captchaAt # Unset => captchaAt' # Unset
           /\ HashBreached(join) => captchaAt' # Unset /\ captchaAt' >= jtime - JoinCooldown
           /\ \A i \in decided'.ban : i = j /\ Repeats(join)
           /\ decided' \in [captcha : BOOLEAN, ban : SUBSET Joiners]
  <1>1. jtime \in 0..MaxJoinTime /\ captchaAt \in Unset..MaxJoinTime /\ captchaAt <= jtime
    BY DEF JoinedInOrder
  <1>2. joined' = Append(joined, join) /\ jtime' = jtime
    BY DEF OnJoin
  <1>3. hashes' = HashAfter(join)
        /\ signals' = (IF HashBreached(join) THEN [AgedSignals EXCEPT ![HashOf[j]] = jtime] ELSE AgedSignals)
    BY DEF OnJoin
  <1>4. HashBreached(join) => HashOf[j] \in Hashes
    BY DEF HashBreached, Hashes
  <1>5. DOMAIN AgedHashes = Hashes /\ DOMAIN AgedSignals = Hashes
    BY DEF AgedHashes, AgedSignals
  <1>6. Blank \notin Hashes /\ join.who = j
    BY DEF Hashes
  <1>7. /\ \A h \in Hashes : HashOf[j] = h => hashes'[h] = IF HashBreached(join) THEN <<>> ELSE HashWith(join)
        /\ \A h \in Hashes : HashOf[j] # h => hashes'[h] = AgedHashes[h]
        /\ DOMAIN hashes' = Hashes
    BY <1>3, <1>5, <1>6 DEF HashAfter
  <1>8. \A h \in Hashes : AgedSignals[h] = signals[h] \/ AgedSignals[h] = Unset
    BY DEF AgedSignals
  <1>9. /\ \A h \in Hashes : HashOf[j] = h /\ HashBreached(join) => signals'[h] = jtime
        /\ \A h \in Hashes : ~ (HashOf[j] = h /\ HashBreached(join))
                                 => signals'[h] = signals[h] \/ signals'[h] = Unset
        /\ DOMAIN signals' = Hashes
    BY <1>3, <1>4, <1>5, <1>8
  <1>10. captchaAt' = (IF CaptchaWanted(join) /\ AllowCaptcha(join) THEN jtime ELSE captchaAt)
    BY DEF OnJoin
  <1>11. /\ captchaAt' = captchaAt \/ captchaAt' = jtime
         /\ captchaAt' \in Int /\ captchaAt' <= jtime /\ captchaAt' >= captchaAt
         /\ captchaAt # Unset => captchaAt' # Unset
    BY <1>1, <1>10, JoinLimits
  <1>12. HashBreached(join) => captchaAt' # Unset /\ captchaAt' >= jtime - JoinCooldown
    <2> SUFFICES ASSUME HashBreached(join) PROVE captchaAt' # Unset /\ captchaAt' >= jtime - JoinCooldown
      OBVIOUS
    <2>1. CaptchaWanted(join)
      BY DEF CaptchaWanted
    <2>2. CASE AllowCaptcha(join)
      BY <1>1, <1>10, <2>1, <2>2, JoinLimits
    <2>3. CASE ~ AllowCaptcha(join)
      <3>1. captchaAt # Unset /\ jtime - captchaAt \in 0..JoinCooldown
        BY <2>3 DEF AllowCaptcha, Lately
      <3> QED
        BY <1>1, <1>10, <2>3, <3>1, JoinLimits
    <2> QED
      BY <2>2, <2>3
  <1>13. decided' = [captcha |-> CaptchaWanted(join) /\ AllowCaptcha(join),
                     ban |-> IF Repeats(join) THEN {j} ELSE {}]
    BY DEF OnJoin
  <1>14. (CaptchaWanted(join) /\ AllowCaptcha(join)) \in BOOLEAN
    OBVIOUS
  <1>15. \A i \in decided'.ban : i = j /\ Repeats(join)
    BY <1>13
  <1>16. decided' \in [captcha : BOOLEAN, ban : SUBSET Joiners]
    <2> DEFINE c == CaptchaWanted(join) /\ AllowCaptcha(join)
               b == IF Repeats(join) THEN {j} ELSE {}
    <2>1. c \in BOOLEAN /\ b \in SUBSET Joiners
      BY <1>14
    <2>2. decided' = [captcha |-> c, ban |-> b]
      BY <1>13
    <2> HIDE DEF c, b
    <2> QED
      BY <2>1, <2>2
  <1> QED
    BY <1>2, <1>4, <1>7, <1>9, <1>11, <1>12, <1>15, <1>16

(* The raids of the past, one join later.                                  *)
LEMMA StillSound ==
    ASSUME JoinedInOrder, NEW j \in Joiners, OnJoin(j), NEW join, join = [at |-> jtime, who |-> j],
           NEW n, n = Len(joined) + 1, NEW h \in Hashes, NEW r \in 0..(n - 1), SoundSince(h, r)
    PROVE  /\ r > 0 => captchaAt' # Unset /\ captchaAt' >= joined'[r].at - JoinCooldown
           /\ signals[h] # Unset
                => r > 0 /\ signals[h] = joined'[r].at /\ \E a \in 1..r : IsRaid(h, a, r)'
  <1>1. joined' = Append(joined, join)
    BY JoinEffects
  <1>2. /\ n \in Nat /\ \A i \in 1..(n - 1) : joined'[i] = joined[i]
        /\ \A i \in 1..n : joined'[i].at \in 0..MaxJoinTime
        /\ \A a, b : a \in 1..(n - 1) /\ b \in 1..(n - 1) => (IsRaid(h, a, b)' <=> IsRaid(h, a, b))
    BY <1>1, NewJoin
  <1>3. r > 0 => r \in 1..(n - 1) /\ r \in 1..n
    BY <1>2
  <1>4. ASSUME r > 0 PROVE captchaAt' # Unset /\ captchaAt' >= joined'[r].at - JoinCooldown
    <2>1. captchaAt # Unset /\ captchaAt >= joined[r].at - JoinCooldown
      BY <1>4 DEF SoundSince
    <2>2. captchaAt' # Unset /\ captchaAt' >= captchaAt /\ captchaAt' \in Int /\ captchaAt \in Int
      BY <2>1, JoinEffects, JoinLimits DEF JoinedInOrder
    <2>3. joined'[r] = joined[r] /\ joined'[r].at \in Int
      BY <1>2, <1>3, <1>4, JoinLimits
    <2> QED
      BY <2>1, <2>2, <2>3, JoinLimits
  <1>5. ASSUME signals[h] # Unset
        PROVE  r > 0 /\ signals[h] = joined'[r].at /\ \E a \in 1..r : IsRaid(h, a, r)'
    <2>1. r > 0 /\ signals[h] = joined[r].at
      BY <1>5 DEF SoundSince
    <2>2. PICK a \in 1..r : IsRaid(h, a, r)
      BY <1>5 DEF SoundSince
    <2>3. a \in 1..(n - 1) /\ r \in 1..(n - 1)
      BY <1>2, <1>3, <2>1
    <2> QED
      BY <1>2, <2>1, <2>2, <2>3
  <1> QED
    BY <1>4, <1>5

(* The bucket of every hash is sound after a join.                         *)
LEMMA BucketsStaySound ==
    ASSUME JoinedInOrder, NEW j \in Joiners, OnJoin(j), NEW join, join = [at |-> jtime, who |-> j],
           NEW n, n = Len(joined) + 1, NEW h \in Hashes, NEW r \in 0..(n - 1), SoundSince(h, r)
    PROVE  /\ hashes'[h] \in Seq(Arrivals)
           /\ \E q \in 0..n : SoundSince(h, q)'
  <1>1. joined' = Append(joined, join) /\ jtime' = jtime
    BY JoinEffects
  <1>2. /\ n \in Nat /\ n >= 1 /\ Len(joined) = n - 1 /\ Len(joined') = n
        /\ join.at = jtime /\ joined'[n] = join /\ \A i \in 1..(n - 1) : joined'[i] = joined[i]
    BY <1>1, NewJoin
  <1>3. After(h, r)' = After(h, r) \cup (IF HashOf[j] = h THEN {n} ELSE {})
        /\ After(h, r) \subseteq (r + 1)..(n - 1)
    BY <1>1, OneMoreAfter
  <1>4. jtime \in Int /\ jtime # Unset /\ SameHashWindow \in Nat
    BY JoinLimits DEF JoinedInOrder
  <1>5. CASE HashOf[j] = h /\ HashBreached(join)
    <2>1. hashes'[h] = <<>> /\ signals'[h] = jtime
          /\ captchaAt' # Unset /\ captchaAt' >= jtime - JoinCooldown
      BY <1>5, JoinEffects
    <2>2. \E a \in 1..n : IsRaid(h, a, n)'
      <3>1. \E a \in (r + 1)..n : IsRaid(h, a, n)'
        BY <1>1, <1>5, BreachIsRaid
      <3>2. \A a \in (r + 1)..n : a \in 1..n
        BY <1>2
      <3> QED
        BY <3>1, <3>2
    <2>3. After(h, n)' = {}
      BY <1>2 DEF After
    <2>4. OldestFirst(<<>>) /\ ToSet(<<>>) = {} /\ <<>> \in Seq(Arrivals)
      BY DEF OldestFirst, ToSet
    <2>5. SoundSince(h, n)'
      BY <1>1, <1>2, <2>1, <2>2, <2>3, <2>4 DEF SoundSince
    <2>6. n \in 0..n
      BY <1>2
    <2> QED
      BY <2>1, <2>4, <2>5, <2>6
  <1>6. CASE ~ (HashOf[j] = h /\ HashBreached(join))
    <2>1. signals'[h] = signals[h] \/ signals'[h] = Unset
      BY <1>6, JoinEffects
    <2>2. /\ r > 0 => captchaAt' # Unset /\ captchaAt' >= joined'[r].at - JoinCooldown
          /\ signals[h] # Unset
                => r > 0 /\ signals[h] = joined'[r].at /\ \E a \in 1..r : IsRaid(h, a, r)'
      BY StillSound
    <2>3. /\ hashes'[h] \in Seq(Arrivals) /\ OldestFirst(hashes'[h])
          /\ ToSet(hashes'[h]) \subseteq {joined'[i] : i \in After(h, r)'}
          /\ \A i \in After(h, r)' : joined'[i].at >= jtime - SameHashWindow
                                      => joined'[i] \in ToSet(hashes'[h])
      <3>1. CASE HashOf[j] = h
        <4>1. hashes'[h] = HashWith(join)
          BY <1>6, <3>1, JoinEffects
        <4> QED
          BY <1>1, <3>1, <4>1, BreachIsRaid
      <3>2. CASE HashOf[j] # h
        <4>1. hashes'[h] = AgedHashes[h]
          BY <3>2, JoinEffects
        <4>2. /\ AgedHashes[h] \in Seq(Arrivals) /\ OldestFirst(AgedHashes[h])
              /\ ToSet(AgedHashes[h]) = {joined[i] : i \in {k \in After(h, r) :
                                              joined[k].at >= jtime - SameHashWindow}}
          BY <1>2, AgedBucket
        <4>3. After(h, r)' = After(h, r) /\ \A i \in After(h, r) : joined'[i] = joined[i]
          BY <1>2, <1>3, <3>2
        <4> QED
          BY <4>1, <4>2, <4>3
      <3> QED
        BY <3>1, <3>2
    <2>4. SoundSince(h, r)'
      BY <1>1, <2>1, <2>2, <2>3 DEF SoundSince
    <2>5. r \in 0..n
      BY <1>2
    <2> QED
      BY <2>3, <2>4, <2>5
  <1> QED
    BY <1>5, <1>6

(* Nobody is banned by the first raid of a hash.                           *)
LEMMA BanIsRepeated ==
    ASSUME JoinInv, NEW j \in Joiners, OnJoin(j), NEW join, join = [at |-> jtime, who |-> j],
           NEW n, n = Len(joined) + 1
    PROVE  RaidIsRepeated'
  <1> USE DEF JoinInv
  <1>1. joined' = Append(joined, join) /\ jtime' = jtime
        /\ \A i \in decided'.ban : i = j /\ Repeats(join)
    BY JoinEffects
  <1>2. /\ n \in Nat /\ n >= 1 /\ Len(joined) = n - 1 /\ Len(joined') = n
        /\ join.at = jtime /\ join.who = j /\ joined'[n] = join
        /\ \A i \in 1..(n - 1) : joined'[i] = joined[i]
    BY <1>1, NewJoin
  <1> DEFINE h == HashOf[j]
  <1> SUFFICES ASSUME Repeats(join)
               PROVE  \E b \in 1..(n - 1) :
                         /\ \E a \in 1..b : IsRaid(h, a, b)'
                         /\ \E a \in (b + 1)..n : IsRaid(h, a, n)'
                         /\ joined'[n].at - joined'[b].at <= RaidWindow
    BY <1>1, <1>2 DEF RaidIsRepeated
  <1>3. HashBreached(join) /\ Lately(AgedSignals[h], RaidWindow)
    BY <1>2 DEF Repeats
  <1>4. h \in Hashes
    BY <1>3, JoinEffects
  <1>5. signals[h] # Unset /\ jtime - signals[h] \in 0..RaidWindow
    BY <1>3, <1>4 DEF AgedSignals, Lately
  <1>6. PICK r \in 0..Len(joined) : SoundSince(h, r)
    BY <1>4
  <1> HIDE DEF h
  <1>7. r \in 0..(n - 1)
    BY <1>2
  <1>8. r > 0 /\ signals[h] = joined'[r].at /\ \E a \in 1..r : IsRaid(h, a, r)'
    BY <1>4, <1>5, <1>6, <1>7, StillSound
  <1>9. \E a \in (r + 1)..n : IsRaid(h, a, n)'
    BY <1>1, <1>3, <1>4, <1>6, <1>7, BreachIsRaid DEF h
  <1>10. joined'[n].at - joined'[r].at <= RaidWindow
    BY <1>2, <1>5, <1>8, JoinLimits
  <1>11. r \in 1..(n - 1)
    BY <1>7, <1>8
  <1> QED
    BY <1>8, <1>9, <1>10, <1>11

(* A raid that a join completes is met, or was met before its bucket       *)
(* started over.                                                           *)
LEMMA CompleteRaidIsMet ==
    ASSUME JoinInv, NEW j \in Joiners, OnJoin(j), NEW join, join = [at |-> jtime, who |-> j],
           NEW n, n = Len(joined) + 1, NEW h, HashOf[j] = h, h # Blank, NEW a \in 1..n, IsRaid(h, a, n)'
    PROVE  captchaAt' # Unset /\ captchaAt' >= jtime - (JoinCooldown + SameHashWindow)
  <1> USE DEF JoinInv
  <1>1. joined' = Append(joined, join) /\ jtime' = jtime /\ captchaAt' \in Int
    BY JoinEffects
  <1>2. /\ n \in Nat /\ n >= 1 /\ Len(joined) = n - 1 /\ DOMAIN joined' = 1..n /\ OldestFirst(joined')
        /\ join.at = jtime /\ joined'[n] = join
        /\ \A i \in 1..n : joined'[i].at \in 0..MaxJoinTime
    BY <1>1, NewJoin
  <1>3. h \in Hashes
    BY DEF Hashes
  <1>4. PICK r \in 0..(n - 1) : SoundSince(h, r)
    BY <1>2, <1>3
  <1>6. jtime \in Int /\ JoinCooldown \in Nat /\ SameHashWindow \in Nat
    BY JoinLimits DEF JoinedInOrder
  <1>7. CASE HashBreached(join)
    <2>1. captchaAt' # Unset /\ captchaAt' >= jtime - JoinCooldown
      BY <1>7, JoinEffects
    <2> QED
      BY <1>1, <1>6, <2>1
  <1>8. CASE ~ HashBreached(join)
    <2>1. a \notin (r + 1)..n
      BY <1>1, <1>3, <1>4, <1>8, BreachIsRaid
    <2>2. r > 0 /\ r \in 1..n /\ a <= r
      BY <1>2, <2>1
    <2>3. captchaAt' # Unset /\ captchaAt' >= joined'[r].at - JoinCooldown
      BY <1>3, <1>4, <2>2, StillSound
    <2>4. joined'[a].at <= joined'[r].at
      BY <1>2, <2>2 DEF OldestFirst
    <2>5. joined'[n].at - joined'[a].at <= SameHashWindow
      BY DEF IsRaid
    <2>6. joined'[a].at \in Int /\ joined'[r].at \in Int /\ joined'[n].at = jtime
      BY <1>2, <2>2, JoinLimits
    <2>7. PICK start \in Int, first \in Int, now \in Int, captcha \in Int :
             /\ start = joined'[r].at /\ first = joined'[a].at /\ now = jtime /\ captcha = captchaAt'
      BY <1>1, <1>6, <2>6
    <2>8. captcha >= start - JoinCooldown /\ first <= start /\ now - first <= SameHashWindow
      BY <2>3, <2>4, <2>5, <2>6, <2>7
    <2>9. captcha >= now - (JoinCooldown + SameHashWindow)
      BY <1>6, <2>8
    <2> QED
      BY <2>3, <2>7, <2>9
  <1> QED
    BY <1>7, <1>8

LEMMA RaidStaysMet ==
    ASSUME JoinInv, NEW j \in Joiners, OnJoin(j), NEW join, join = [at |-> jtime, who |-> j],
           NEW n, n = Len(joined) + 1
    PROVE  RaidIsMet'
  <1> USE DEF JoinInv
  <1>1. joined' = Append(joined, join) /\ captchaAt' \in Int /\ captchaAt' >= captchaAt
        /\ (captchaAt # Unset => captchaAt' # Unset)
    BY JoinEffects
  <1>2. /\ n \in Nat /\ Len(joined) = n - 1 /\ DOMAIN joined' = 1..n
        /\ join.at = jtime /\ join.who = j /\ joined'[n] = join
        /\ \A i \in 1..(n - 1) : joined'[i] = joined[i]
        /\ \A i \in 1..n : joined'[i].at \in 0..MaxJoinTime
    BY <1>1, NewJoin
  <1>3. \A h, a, b : a \in 1..(n - 1) /\ b \in 1..(n - 1) => (IsRaid(h, a, b)' <=> IsRaid(h, a, b))
    BY <1>1, NewJoin
  <1> SUFFICES ASSUME NEW a \in 1..n, NEW b \in 1..n, a <= b, NEW h, h = HashOf[joined'[b].who],
                      h # Blank, IsRaid(h, a, b)'
               PROVE  captchaAt' # Unset /\ captchaAt' >= joined'[b].at - (JoinCooldown + SameHashWindow)
    <2> DEFINE raid(h, a, b) == /\ joined'[b].at - joined'[a].at <= SameHashWindow
                                /\ Cardinality(RaidersIn(joined', h, a, b)) >= SameHashCount
    <2>1. \A h, a, b : IsRaid(h, a, b)' <=> raid(h, a, b)
      BY DEF IsRaid, Raiders, RaidersIn
    <2>2. RaidIsMet' <=> \A a, b \in DOMAIN joined' :
             (a <= b /\ HashOf[joined'[b].who] # Blank /\ raid(HashOf[joined'[b].who], a, b))
             => captchaAt' # Unset /\ captchaAt' >= joined'[b].at - (JoinCooldown + SameHashWindow)
      BY DEF RaidIsMet, IsRaid, Raiders, RaidersIn
    <2> HIDE DEF raid
    <2> QED
      BY <1>2, <2>1, <2>2
  <1>4. CASE b = n
    <2>1. HashOf[j] = h /\ IsRaid(h, a, n)' /\ joined'[b].at = jtime
      BY <1>2, <1>4 DEF IsRaid, Raiders
    <2> QED
      BY <2>1, CompleteRaidIsMet
  <1>5. CASE b # n
    <2>1. a \in 1..(n - 1) /\ b \in 1..(n - 1) /\ joined'[b] = joined[b]
          /\ a \in DOMAIN joined /\ b \in DOMAIN joined
      <3>1. a \in 1..(n - 1) /\ b \in 1..(n - 1)
        BY <1>2, <1>5
      <3>2. DOMAIN joined = 1..(n - 1)
        BY <1>2, JoinsAre DEF JoinedInOrder
      <3> QED
        BY <1>2, <3>1, <3>2
    <2>2. h = HashOf[joined[b].who] /\ IsRaid(h, a, b)
      BY <1>3, <2>1
    <2>3. captchaAt # Unset /\ captchaAt >= joined[b].at - (JoinCooldown + SameHashWindow)
      BY <2>1, <2>2 DEF RaidIsMet
    <2>4. captchaAt \in Int /\ joined'[b].at \in Int
      BY <1>2, JoinLimits DEF JoinedInOrder
    <2> QED
      BY <1>1, <2>1, <2>3, <2>4, JoinLimits
  <1> QED
    BY <1>4, <1>5

LEMMA JoinKeeps == ASSUME JoinInv, NEW j \in Joiners, OnJoin(j) PROVE JoinInv'
  <1> DEFINE join == [at |-> jtime, who |-> j]
             n == Len(joined) + 1
  <1>1. JoinedInOrder /\ \A h \in Hashes : \E r \in 0..Len(joined) : SoundSince(h, r)
    BY DEF JoinInv
  <1>2. /\ joined' = Append(joined, join) /\ jtime' = jtime
        /\ DOMAIN hashes' = Hashes /\ DOMAIN signals' = Hashes
        /\ \A h \in Hashes : HashOf[j] = h /\ HashBreached(join) => signals'[h] = jtime
        /\ \A h \in Hashes : ~ (HashOf[j] = h /\ HashBreached(join))
                              => signals'[h] = signals[h] \/ signals'[h] = Unset
        /\ captchaAt' = captchaAt \/ captchaAt' = jtime
        /\ captchaAt' <= jtime
        /\ decided' \in [captcha : BOOLEAN, ban : SUBSET Joiners]
    BY <1>1, JoinEffects
  <1> HIDE DEF join
  <1>3. /\ n \in Nat /\ Len(joined) = n - 1 /\ Len(joined') = n
        /\ joined' \in Seq(Arrivals) /\ OldestFirst(joined')
        /\ \A i \in 1..n : joined'[i].at <= jtime
    BY <1>1, <1>2, NewJoin DEF join
  <1>4. \A h \in Hashes : hashes'[h] \in Seq(Arrivals) /\ \E q \in 0..n : SoundSince(h, q)'
    <2> SUFFICES ASSUME NEW h \in Hashes
                 PROVE  hashes'[h] \in Seq(Arrivals) /\ \E q \in 0..n : SoundSince(h, q)'
      OBVIOUS
    <2>1. PICK r \in 0..(n - 1) : SoundSince(h, r)
      BY <1>1, <1>3
    <2> QED
      BY <1>1, <2>1, BucketsStaySound DEF join
  <1>5. hashes' \in [Hashes -> Seq(Arrivals)]
    <2>1. hashes' = [h \in Hashes |-> hashes'[h]]
      <3>1. hashes' = HashAfter(join)
        BY DEF OnJoin, join
      <3> QED
        BY <3>1 DEF HashAfter, AgedHashes
    <2> QED
      BY <1>4, <2>1
  <1>6. signals' \in [Hashes -> Unset..MaxJoinTime]
    <2>1. signals' = [h \in Hashes |-> signals'[h]]
      <3>1. signals' = (IF HashBreached(join) THEN [AgedSignals EXCEPT ![HashOf[j]] = jtime] ELSE AgedSignals)
        BY DEF OnJoin, join
      <3> QED
        BY <3>1 DEF AgedSignals
    <2>2. \A h \in Hashes : signals'[h] \in Unset..MaxJoinTime
      <3> SUFFICES ASSUME NEW h \in Hashes PROVE signals'[h] \in Unset..MaxJoinTime
        OBVIOUS
      <3>1. signals[h] \in Unset..MaxJoinTime /\ jtime \in Unset..MaxJoinTime /\ Unset \in Unset..MaxJoinTime
        BY <1>1, JoinLimits DEF JoinedInOrder
      <3> QED
        BY <1>2, <3>1
    <2> QED
      BY <2>1, <2>2
  <1>7. captchaAt' \in Unset..MaxJoinTime /\ jtime' \in 0..MaxJoinTime
    BY <1>1, <1>2, JoinLimits DEF JoinedInOrder
  <1>8. JoinedInOrder'
    BY <1>2, <1>3, <1>5, <1>6, <1>7 DEF JoinedInOrder
  <1>9. RaidIsRepeated' /\ RaidIsMet'
    BY BanIsRepeated, RaidStaysMet
  <1> QED
    BY <1>2, <1>3, <1>4, <1>8, <1>9 DEF JoinInv

(* Waiting makes no join younger, and a guarded joiner leaves no trace.    *)
LEMMA WaitingKeeps ==
    ASSUME JoinInv, UNCHANGED <<room, hashes, names, signals, captchaAt, banAt, joined>>,
           decided' = Nothing \/ decided' = decided, jtime' \in 0..MaxJoinTime, jtime' >= jtime
    PROVE  JoinInv'
  <1>1. /\ hashes' = hashes /\ signals' = signals /\ captchaAt' = captchaAt /\ joined' = joined
    OBVIOUS
  <1>2. /\ jtime \in 0..MaxJoinTime /\ captchaAt \in Unset..MaxJoinTime /\ captchaAt <= jtime
        /\ joined \in Seq(Arrivals) /\ OldestFirst(joined)
        /\ \A i \in 1..Len(joined) : joined[i].at <= jtime
        /\ hashes \in [Hashes -> Seq(Arrivals)] /\ signals \in [Hashes -> Unset..MaxJoinTime]
    BY DEF JoinInv, JoinedInOrder
  <1>3. /\ decided \in [captcha : BOOLEAN, ban : SUBSET Joiners] /\ RaidIsRepeated /\ RaidIsMet
        /\ \A h \in Hashes : \E r \in 0..Len(joined) : SoundSince(h, r)
    BY DEF JoinInv
  <1>4. \A i \in 1..Len(joined) : joined[i].at \in 0..MaxJoinTime /\ joined[i].at \in Int
    BY <1>2, JoinsAre, JoinLimits
  <1>5. JoinedInOrder'
    <2>1. captchaAt' <= jtime'
      BY <1>1, <1>2, JoinLimits
    <2>2. \A i \in 1..Len(joined) : joined[i].at <= jtime'
      BY <1>2, <1>4, JoinLimits
    <2> QED
      BY <1>1, <1>2, <2>1, <2>2 DEF JoinedInOrder
  <1>6. \A h, a, b : IsRaid(h, a, b)' <=> IsRaid(h, a, b)
    BY <1>1 DEF IsRaid, Raiders
  <1>7. \A h \in Hashes, r \in 0..Len(joined) : SoundSince(h, r) => SoundSince(h, r)'
    <2> SUFFICES ASSUME NEW h \in Hashes, NEW r \in 0..Len(joined), SoundSince(h, r)
                 PROVE  SoundSince(h, r)'
      OBVIOUS
    <2>1. After(h, r)' = After(h, r) /\ \A i \in After(h, r) : i \in 1..Len(joined)
      BY <1>1, <1>2 DEF After
    <2>2. \A i \in After(h, r) : joined[i].at >= jtime' - SameHashWindow
                                 => joined[i] \in ToSet(hashes[h])
      <3> SUFFICES ASSUME NEW i \in After(h, r), joined[i].at >= jtime' - SameHashWindow
                   PROVE  joined[i].at >= jtime - SameHashWindow
        BY DEF SoundSince
      <3> QED
        BY <1>2, <1>4, <2>1, JoinLimits
    <2> QED
      BY <1>1, <1>6, <2>1, <2>2 DEF SoundSince
  <1>8. RaidIsMet'
    BY <1>1, <1>3, <1>6 DEF RaidIsMet
  <1>9. decided' \in [captcha : BOOLEAN, ban : SUBSET Joiners] /\ RaidIsRepeated'
    <2>1. CASE decided' = decided
      BY <1>1, <1>3, <1>6, <2>1 DEF RaidIsRepeated
    <2>2. CASE decided' = Nothing
      <3>1. Nothing.ban = {} /\ Nothing \in [captcha : BOOLEAN, ban : SUBSET Joiners]
        BY DEF Nothing
      <3> QED
        BY <2>2, <3>1 DEF RaidIsRepeated
    <2> QED
      BY <2>1, <2>2
  <1> QED
    BY <1>1, <1>3, <1>5, <1>7, <1>8, <1>9 DEF JoinInv

LEMMA NoJoinYet == JoinInit => JoinInv
  <1> SUFFICES ASSUME JoinInit PROVE JoinInv
    OBVIOUS
  <1> USE DEF JoinInit
  <1>1. Len(<<>>) = 0 /\ OldestFirst(<<>>) /\ ToSet(<<>>) = {} /\ <<>> \in Seq(Arrivals)
        /\ DOMAIN <<>> = {}
    BY DEF OldestFirst, ToSet
  <1>2. JoinedInOrder
    BY <1>1, JoinLimits DEF JoinedInOrder
  <1>3. ASSUME NEW h \in Hashes PROVE SoundSince(h, 0)
    <2>1. After(h, 0) = {}
      BY <1>1 DEF After
    <2> QED
      BY <1>1, <2>1 DEF SoundSince
  <1>4. Nothing.ban = {} /\ Nothing \in [captcha : BOOLEAN, ban : SUBSET Joiners]
    BY DEF Nothing
  <1>5. RaidIsRepeated /\ RaidIsMet
    BY <1>1, <1>4 DEF RaidIsRepeated, RaidIsMet
  <1> QED
    BY <1>1, <1>2, <1>3, <1>4, <1>5 DEF JoinInv

(* What a join, a guarded join or time leads to.                           *)
THEOREM JoinsInductive == JoinSpec => []JoinInv
  <1>1. JoinInit => JoinInv
    BY NoJoinYet
  <1>2. JoinInv /\ [JoinNext]_joinVars => JoinInv'
    <2> SUFFICES ASSUME JoinInv, [JoinNext]_joinVars PROVE JoinInv'
      OBVIOUS
    <2>1. jtime \in 0..MaxJoinTime /\ MaxJoinTime \in Nat
      BY JoinLimits DEF JoinInv, JoinedInOrder
    <2>2. ASSUME NEW j \in Joiners, OnJoin(j) PROVE JoinInv'
      BY <2>2, JoinKeeps
    <2>3. CASE OnGuarded
      <3>1. decided' = Nothing /\ jtime' = jtime
            /\ UNCHANGED <<room, hashes, names, signals, captchaAt, banAt, joined>>
        BY <2>3 DEF OnGuarded
      <3> QED
        BY <2>1, <3>1, WaitingKeeps
    <2>4. CASE JoinTick
      <3>1. decided' = Nothing /\ jtime' = jtime + 1 /\ jtime < MaxJoinTime
            /\ UNCHANGED <<room, hashes, names, signals, captchaAt, banAt, joined>>
        BY <2>4 DEF JoinTick
      <3> QED
        BY <2>1, <3>1, WaitingKeeps
    <2>5. CASE UNCHANGED joinVars
      <3>1. decided' = decided /\ jtime' = jtime
            /\ UNCHANGED <<room, hashes, names, signals, captchaAt, banAt, joined>>
        BY <2>5 DEF joinVars
      <3> QED
        BY <2>1, <3>1, WaitingKeeps
    <2> QED
      BY <2>2, <2>3, <2>4, <2>5 DEF JoinNext
  <1> QED
    BY <1>1, <1>2, PTL DEF JoinSpec

(* A raid is met by a captcha or a ban, nobody is banned for the first one *)
(* and a captcha is set once per cooldown, whatever the limits, the joins, *)
(* the hashes and the nicks.                                               *)
THEOREM RaidsStayMet == JoinSpec => RaidsAreMet
  <1>1. JoinInv => JoinTypeOK /\ RaidIsRepeated /\ RaidIsMet
    <2> SUFFICES ASSUME JoinInv PROVE JoinTypeOK
      BY DEF JoinInv
    <2> QED
      BY DEF JoinInv, JoinedInOrder, JoinTypeOK, Arrivals
  <1>2. JoinInv /\ [JoinNext]_joinVars
        => [decided'.captcha /\ captchaAt # Unset => jtime - captchaAt > JoinCooldown]_joinVars
    <2> SUFFICES ASSUME JoinInv, JoinNext, decided'.captcha, captchaAt # Unset
                 PROVE  jtime - captchaAt > JoinCooldown \/ UNCHANGED joinVars
      OBVIOUS
    <2>1. jtime \in Int /\ captchaAt \in Int /\ captchaAt <= jtime /\ JoinCooldown \in Nat
      BY JoinLimits DEF JoinInv, JoinedInOrder
    <2>2. ~ Nothing.captcha
      BY DEF Nothing
    <2>3. PICK j \in Joiners : OnJoin(j)
      BY <2>2 DEF JoinNext, OnGuarded, JoinTick
    <2>4. AllowCaptcha([at |-> jtime, who |-> j])
      BY <2>3 DEF OnJoin
    <2> QED
      BY <2>1, <2>4 DEF AllowCaptcha, Lately
  <1> QED
    BY <1>1, <1>2, JoinsInductive, PTL DEF JoinSpec, RaidsAreMet, CaptchaIsThrottled
=============================================================================
