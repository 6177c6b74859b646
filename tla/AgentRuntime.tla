------------------------------ MODULE AgentRuntime -----------------------------
(***************************************************************************)
(* The process-owned agent runtime (internal/agent/runtime): bounded       *)
(* admission of requests, one turn per memory key at a time, a bounded     *)
(* number of running turns, one coalescing lane for ambient requests, and  *)
(* a Close that joins everything.  The reply and failure sinks are those   *)
(* of cmd/zenbot/main.go, which look up the current master on each use.    *)
(*                                                                         *)
(* An invocation is submitted once and executed once, so its position in   *)
(* execute() is a function of the invocation.                              *)
(***************************************************************************)
EXTENDS Integers, Sequences, FiniteSets

CONSTANTS Requests,         \* invocations for Submit
          Ambients,         \* invocations for SubmitAmbient
          Keys, KeyOf,      \* memory keys; KeyOf[i] is the one of invocation i
          Replying,         \* requests whose mode requires a reply
          MaxConcurrent, QueueCapacity,
          None

Invs == Requests \cup Ambients
Capacity == MaxConcurrent + QueueCapacity

ASSUME InvsAssumption ==
    IsFiniteSet(Invs) /\ Requests \cap Ambients = {} /\ None \notin Invs
ASSUME KeyOfAssumption == KeyOf \in [Invs -> Keys]
ASSUME ReplyingAssumption == Replying \subseteq Requests
ASSUME CapacityAssumption == MaxConcurrent \in Nat \ {0} /\ QueueCapacity \in Nat

(* Positions in execute().  An invocation is registered with the lock      *)
(* entry of its key from "locking" on, and holds it from "slot" on.        *)
InSlot == {"running", "replying", "failing", "persisting", "ending"}
Holding == InSlot \cup {"slot", "unlocking"}
Registered == Holding \cup {"locking", "unregister"}
Executing == Registered \cup {"acquire", "returning"}
Outside == {"new", "refused", "queued", "pending", "dropped", "done"}

VARIABLES
    closed,         \* closed flag; its context is cancelled with it
    jobs,           \* the jobs channel
    admission,      \* tokens in the admission channel
    workers,        \* worker goroutines still running
    at,             \* position of each invocation
    entries,        \* keyedLocker.entries; an entry is named by its creator
    refs,           \* reference count of each entry
    mine,           \* the entry an invocation acquired
    pendingAmbient, drain, draining,    \* the ambient lane
    closer,         \* position of the goroutine that called Close
    answer,         \* history: what became of each required answer
    bound,          \* masterBinding holds an engine
    crashed         \* a goroutine panicked: the process is gone

lockVars == <<entries, refs, mine>>
admissionVars == <<jobs, admission, workers>>
ambientVars == <<pendingAmbient, drain, draining>>
worldVars == <<bound, crashed>>
avars == <<closed, admissionVars, at, lockVars, ambientVars, closer, answer, worldVars>>

AInit ==
    /\ closed = FALSE
    /\ jobs = <<>> /\ admission = 0 /\ workers = MaxConcurrent
    /\ at = [i \in Invs |-> "new"]
    /\ entries = [k \in Keys |-> None]
    /\ refs = [e \in Invs |-> 0]
    /\ mine = [i \in Invs |-> None]
    /\ pendingAmbient = None /\ drain = "off" /\ draining = None
    /\ closer = "out"
    /\ answer = [i \in Replying |-> "none"]
    /\ bound = TRUE /\ crashed = FALSE

Move(i, point) == at' = [at EXCEPT ![i] = point]

-----------------------------------------------------------------------------
(* Submission and the workers *)

Submit(i) ==
    /\ at[i] = "new" /\ ~closed
    /\ IF admission = Capacity \/ Len(jobs) = Capacity
         THEN Move(i, "refused") /\ UNCHANGED <<jobs, admission>>
         ELSE /\ Move(i, "queued")
              /\ admission' = admission + 1
              /\ jobs' = Append(jobs, i)
    /\ UNCHANGED <<closed, workers, lockVars, ambientVars, closer, answer, worldVars>>

TakeJob(tokens) ==
    /\ workers > 0 /\ jobs # <<>>
    /\ Move(Head(jobs), "acquire")
    /\ jobs' = Tail(jobs)
    /\ admission' = tokens
    /\ UNCHANGED <<closed, workers, lockVars, ambientVars, closer, answer, worldVars>>

(* Variant: the token is returned when the request leaves the queue. *)
WorkerTakesReturning == TakeJob(admission - 1)

(* A worker takes the oldest job and starts a goroutine for it.  After     *)
(* Close it may still take jobs: select chooses among the ready cases.     *)
WorkerTakes == TakeJob(admission)

WorkerExits ==
    /\ workers > 0 /\ closed
    /\ workers' = workers - 1
    /\ UNCHANGED <<closed, jobs, admission, at, lockVars, ambientVars, closer,
                   answer, worldVars>>

-----------------------------------------------------------------------------
(* execute() *)

(* keyedLocker.Acquire finds or creates the entry under the map's mutex... *)
Acquire(i) ==
    /\ at[i] = "acquire"
    /\ LET key == KeyOf[i]
           entry == IF entries[key] = None THEN i ELSE entries[key]
       IN  /\ entries' = [entries EXCEPT ![key] = entry]
           /\ refs' = [refs EXCEPT ![entry] = @ + 1]
           /\ mine' = [mine EXCEPT ![i] = entry]
    /\ Move(i, "locking")
    /\ UNCHANGED <<closed, admissionVars, ambientVars, closer, answer, worldVars>>

(* ...and then waits for the mutex of the entry, without its context.      *)
Lock(i) ==
    /\ at[i] = "locking"
    /\ \A j \in Invs : mine[j] = mine[i] => at[j] \notin Holding
    /\ Move(i, "slot")
    /\ UNCHANGED <<closed, admissionVars, lockVars, ambientVars, closer, answer, worldVars>>

TakeSlot(i) ==
    /\ at[i] = "slot"
    /\ \/ /\ Cardinality({j \in Invs : at[j] \in InSlot}) < MaxConcurrent
          /\ Move(i, "running")
       \/ closed /\ Move(i, "unlocking")
    /\ UNCHANGED <<closed, admissionVars, lockVars, ambientVars, closer, answer, worldVars>>

Answered(i, a) == answer' = [r \in Replying |-> IF r = i THEN a ELSE answer[r]]

(* The runner returns a reply, nothing (never for a required reply), a     *)
(* reply its tools already sent, an error or, at the deadline of the       *)
(* request, an error with an expired context: then nothing is sent.        *)
RunEndsWith(i, outcome, afterError) ==
    /\ at[i] = "running"
    /\ outcome = "silent" => i \notin Replying
    /\ CASE outcome = "owned"   -> Answered(i, "sent")
         [] outcome = "timeout" -> Answered(i, "expired")
         [] OTHER               -> UNCHANGED answer
    /\ Move(i, CASE outcome = "reply" /\ ~closed -> "replying"
                 [] outcome = "owned" /\ ~closed -> "persisting"
                 [] outcome = "error" /\ ~closed -> afterError
                 [] OTHER -> "ending")
    /\ UNCHANGED <<closed, admissionVars, lockVars, ambientVars, closer, worldVars>>

(* Variant: a failed run is only logged. *)
RunEndsQuietly(i, outcome) == RunEndsWith(i, outcome, "ending")

RunEnds(i, outcome) ==
    RunEndsWith(i, outcome, IF i \in Replying THEN "failing" ELSE "ending")

(* The sinks compare an interface with nil that holds a nil *EngineImpl:   *)
(* the comparison is false, and SendChatMessage dereferences the pointer.  *)
SendTo(i, next) ==
    IF bound
    THEN /\ \E sent \in BOOLEAN :
              /\ Move(i, IF sent THEN next ELSE "ending")
              /\ Answered(i, IF sent THEN "sent" ELSE "lost")
         /\ UNCHANGED crashed
    ELSE crashed' = TRUE /\ UNCHANGED <<at, answer>>

Deliver(i) ==
    /\ at[i] = "replying"
    /\ SendTo(i, "persisting")
    /\ UNCHANGED <<closed, admissionVars, lockVars, ambientVars, closer, bound>>

DeliverFailure(i) ==
    /\ at[i] = "failing"
    /\ SendTo(i, "ending")
    /\ UNCHANGED <<closed, admissionVars, lockVars, ambientVars, closer, bound>>

(* AfterDelivery stores memory and evidence; then the slot is given back.  *)
Advance(i, from, to) ==
    /\ at[i] = from
    /\ Move(i, to)
    /\ UNCHANGED <<closed, admissionVars, lockVars, ambientVars, closer, answer, worldVars>>

Persist(i) == Advance(i, "persisting", "ending")
GiveSlot(i) == Advance(i, "ending", "unlocking")
Unlock(i) == Advance(i, "unlocking", "unregister")

UnregisterTo(i, delete, next) ==
    /\ at[i] = "unregister"
    /\ refs' = [refs EXCEPT ![mine[i]] = @ - 1]
    /\ entries' = IF delete THEN [entries EXCEPT ![KeyOf[i]] = None] ELSE entries
    /\ mine' = [mine EXCEPT ![i] = None]
    /\ Move(i, next)
    /\ UNCHANGED <<closed, admissionVars, ambientVars, closer, answer, worldVars>>

LastUser(i) == refs[mine[i]] = 1 /\ entries[KeyOf[i]] = mine[i]
AfterLock(i) == IF i \in Requests THEN "returning" ELSE "done"

(* Variants: the entry is deleted while others wait for it, or never; an   *)
(* ambient turn returns a token that it never took.                        *)
UnregisterDeleting(i) == UnregisterTo(i, TRUE, AfterLock(i))
UnregisterKeeping(i) == UnregisterTo(i, FALSE, AfterLock(i))
UnregisterReturning(i) == UnregisterTo(i, LastUser(i), "returning")

Unregister(i) == UnregisterTo(i, LastUser(i), AfterLock(i))

ReturnToken(i) ==
    /\ at[i] = "returning"
    /\ admission' = admission - 1
    /\ Move(i, "done")
    /\ UNCHANGED <<closed, jobs, workers, lockVars, ambientVars, closer, answer, worldVars>>

Outcomes == {"reply", "silent", "owned", "error", "timeout"}

Execute(i) ==
    \/ Acquire(i) \/ Lock(i) \/ TakeSlot(i)
    \/ \E outcome \in Outcomes : RunEnds(i, outcome)
    \/ Deliver(i) \/ DeliverFailure(i) \/ Persist(i)
    \/ GiveSlot(i) \/ Unlock(i) \/ Unregister(i) \/ ReturnToken(i)

-----------------------------------------------------------------------------
(* The ambient lane *)

(* The newest ambient request replaces the one that waits.                 *)
Displaced(i) == [j \in Invs |-> IF j = i THEN "pending"
                                ELSE IF j = pendingAmbient THEN "dropped" ELSE at[j]]

SubmitAmbient(i) ==
    /\ at[i] = "new" /\ ~closed
    /\ at' = Displaced(i)
    /\ pendingAmbient' = i
    /\ drain' = IF drain = "off" THEN "check" ELSE drain
    /\ UNCHANGED <<closed, admissionVars, lockVars, draining, closer, answer, worldVars>>

DrainCheck ==
    /\ drain = "check"
    /\ draining' = IF closed THEN None ELSE pendingAmbient
    /\ drain' = IF draining' = None THEN "off" ELSE "execute"
    /\ at' = IF draining' = None THEN at ELSE [at EXCEPT ![draining'] = "acquire"]
    /\ pendingAmbient' = None
    /\ UNCHANGED <<closed, admissionVars, lockVars, closer, answer, worldVars>>

DrainTo(point) ==
    /\ drain = "execute" /\ at[draining] = "done"
    /\ drain' = point
    /\ draining' = None
    /\ UNCHANGED <<closed, admissionVars, at, lockVars, pendingAmbient, closer,
                   answer, worldVars>>

(* Variant: the drain ends after one execution. *)
DrainOnce == DrainTo("off")

DrainEnds == DrainTo("wait")

(* waitForOrdinary polls the admission channel until it is empty or the    *)
(* runtime is closed (queued jobs keep their tokens then).                 *)
WaitUntil(over) ==
    /\ drain = "wait" /\ over
    /\ drain' = "check"
    /\ UNCHANGED <<closed, admissionVars, at, lockVars, pendingAmbient, draining,
                   closer, answer, worldVars>>

(* Variant: the poll does not watch the context. *)
WaitForOrdinaryOnly == WaitUntil(admission = 0)

WaitForOrdinary == WaitUntil(admission = 0 \/ closed)

Drain == DrainCheck \/ DrainEnds \/ WaitForOrdinary

-----------------------------------------------------------------------------
(* Close and the surrounding process *)

Close ==
    /\ closer = "out"
    /\ closed' = TRUE
    /\ at' = [i \in Invs |-> IF i = pendingAmbient THEN "dropped" ELSE at[i]]
    /\ pendingAmbient' = None
    /\ closer' = "workers"
    /\ UNCHANGED <<admissionVars, lockVars, drain, draining, answer, worldVars>>

Join(from, condition, to) ==
    /\ closer = from /\ condition
    /\ closer' = to
    /\ UNCHANGED <<closed, admissionVars, at, lockVars, ambientVars, answer, worldVars>>

NoneExecutes == \A i \in Requests : at[i] \notin Executing

(* Variant: the executions are joined while workers still start some. *)
JoinWorkersLast == Join("workers", NoneExecutes, "executions")
JoinWorkers == Join("workers", workers = 0, "executions")
JoinExecutions == Join("executions", NoneExecutes, "drains")
JoinDrains == Join("drains", drain = "off", "returned")

Joins == JoinWorkers \/ JoinExecutions \/ JoinDrains

(* hostSupervisor's rebind withdraws the master and publishes the next.    *)
Rebind ==
    /\ bound' = ~bound
    /\ UNCHANGED <<closed, admissionVars, at, lockVars, ambientVars, closer, answer, crashed>>

ANext ==
    /\ ~crashed
    /\ \/ \E i \in Requests : Submit(i)
       \/ \E i \in Ambients : SubmitAmbient(i)
       \/ \E i \in Invs : Execute(i)
       \/ WorkerTakes \/ WorkerExits \/ Drain
       \/ Close \/ Joins \/ Rebind

ASpec == AInit /\ [][ANext]_avars

(* Goroutines are scheduled; every run ends because its context has a      *)
(* deadline and is cancelled by Close, every send after five seconds.      *)
AFairness ==
    /\ \A i \in Invs : WF_avars(~crashed /\ Execute(i))
    /\ WF_avars(~crashed /\ WorkerTakes) /\ WF_avars(~crashed /\ WorkerExits)
    /\ WF_avars(~crashed /\ Drain) /\ WF_avars(~crashed /\ Joins)

AFairSpec == ASpec /\ AFairness

-----------------------------------------------------------------------------
(* Properties *)

ATypeOK ==
    /\ closed \in BOOLEAN /\ bound \in BOOLEAN /\ crashed \in BOOLEAN
    /\ jobs \in Seq(Requests)
    /\ admission \in 0..Capacity /\ workers \in 0..MaxConcurrent
    /\ at \in [Invs -> Executing \cup Outside]
    /\ entries \in [Keys -> Invs \cup {None}]
    /\ refs \in [Invs -> Nat]
    /\ mine \in [Invs -> Invs \cup {None}]
    /\ pendingAmbient \in Ambients \cup {None}
    /\ drain \in {"off", "check", "execute", "wait"}
    /\ draining \in Ambients \cup {None}
    /\ closer \in {"out", "workers", "executions", "drains", "returned"}
    /\ answer \in [Replying -> {"none", "sent", "lost", "expired"}]

(* Two turns never run for one memory key, although lock entries are       *)
(* created, shared and deleted while other turns wait for them.            *)
OneTurnPerKey ==
    \A i, j \in Invs : at[i] \in Holding /\ at[j] \in Holding /\ KeyOf[i] = KeyOf[j] => i = j

(* The map of locks holds exactly the keys that some turn uses: none is    *)
(* leaked for a room that is idle.                                         *)
LocksReclaimed ==
    \A k \in Keys : entries[k] # None <=>
        \E i \in Invs : KeyOf[i] = k /\ at[i] \in Registered

Admitted == {i \in Requests : at[i] \in Executing \cup {"queued"}}

(* The admission channel counts the requests that are queued or executing, *)
(* on every path out of execute(), so capacity is neither lost nor         *)
(* exceeded, and a request with a token always finds room in the channel.  *)
AdmissionCounts == admission = Cardinality(Admitted) /\ Len(jobs) <= admission

(* When Close has returned nothing executes any more and nothing will:     *)
(* main closes the host and the database after it.                         *)
ClosedIsQuiet ==
    closer = "returned" => workers = 0 /\ drain = "off" /\ \A i \in Invs : at[i] \notin Executing

(* Close returns, even with jobs left in the queue.                        *)
CloseReturns == (closer = "workers") ~> (closer = "returned" \/ crashed)

(* An accepted request ends, an ambient one that waits is executed or      *)
(* displaced by a newer one, unless the runtime is closed.                 *)
AcceptedEnds == \A i \in Invs :
    (at[i] \in {"queued", "pending"}) ~> (at[i] \in {"done", "dropped"} \/ closed \/ crashed)

(* A request whose mode requires a reply (DIRECT, VIBE, MENTION) ends with *)
(* an answer or a failure reply handed to the room, unless its deadline    *)
(* passed or the runtime is closed.  A send that the network loses counts. *)
RequiredReplyIsSent == \A i \in Replying :
    (at[i] = "queued") ~> (answer[i] # "none" \/ closed \/ crashed)

(* main.go: a sink that finds no master reports "current master is not     *)
(* constructed".                                                           *)
MissingMasterIsAnError == ~crashed
-----------------------------------------------------------------------------
(* The inductive invariant behind the safety properties *)

Users(e) == {i \in Invs : mine[i] = e}

(* A turn uses an entry from Acquire to release, the one its key maps to,  *)
(* and the entry counts its users.                                         *)
EntriesShared ==
    /\ \A i \in Invs : mine[i] # None <=> at[i] \in Registered
    /\ \A i \in Invs : mine[i] # None => entries[KeyOf[i]] = mine[i]
    /\ \A k \in Keys : entries[k] # None => KeyOf[entries[k]] = k

RefsCounted == \A e \in Invs : refs[e] = Cardinality(Users(e))

MutexHeld == \A i, j \in Invs :
    at[i] \in Holding /\ at[j] \in Holding /\ mine[i] = mine[j] => i = j

Queued == {i \in Requests : at[i] = "queued"}

(* The channel holds every queued request once.                            *)
JobsQueued ==
    /\ \A n \in 1..Len(jobs) : at[jobs[n]] = "queued"
    /\ \A m, n \in 1..Len(jobs) : jobs[m] = jobs[n] => m = n
    /\ Len(jobs) = Cardinality(Queued)

AmbientLane ==
    /\ drain = "execute" <=> draining # None
    /\ \A i \in Ambients : at[i] \in Executing => i = draining
    /\ \A i \in Ambients : at[i] = "pending" <=> i = pendingAmbient
    /\ \A i \in Ambients : at[i] \notin {"queued", "returning"}
    /\ \A i \in Requests : at[i] # "pending"

Closing ==
    /\ closer # "out" => closed
    /\ closed => pendingAmbient = None
    /\ closer \in {"executions", "drains", "returned"} => workers = 0
    /\ closer \in {"drains", "returned"} => NoneExecutes
    /\ closer = "returned" => drain = "off"

AInv ==
    /\ ATypeOK /\ EntriesShared /\ RefsCounted /\ MutexHeld /\ LocksReclaimed
    /\ JobsQueued /\ AdmissionCounts /\ AmbientLane /\ Closing

(* Turns of one key exclude each other, their lock goes with its last      *)
(* user, and admission counts the turns that are in.                       *)
TurnsAreKeyed == ATypeOK /\ OneTurnPerKey /\ LocksReclaimed /\ AdmissionCounts
=============================================================================
