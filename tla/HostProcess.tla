------------------------------ MODULE HostProcess ------------------------------
(***************************************************************************)
(* The process around the host: main() starts the first host, serves until *)
(* a signal, then closes the lifecycle owner and tears the host down; the  *)
(* recovery loop asks for a restart when the transport reports an error or *)
(* a health check fails; the worker of the lifecycle owner calls the       *)
(* supervisor.                                                             *)
(*                                                                         *)
(* HostLifecycle is reduced here to the kinds of its pending and active    *)
(* operation (HostLifecycle.tla has the operations, leases and wake-ups),  *)
(* which keeps the state finite while restarts may go on for ever.         *)
(***************************************************************************)
EXTENDS HostSupervisor

CONSTANTS AutoReconnect,    \* the configuration switch of the same name
          EventCap          \* bound: capacity of transportErrors (16 in main)

ASSUME ProcsAssumption == Procs = {"main", "worker"}

VARIABLES
    lpending, lactive,    \* kind of the lifecycle operation in each slot
    lterminal, lclosed,  \* the lifecycle owner's flags
    workerAt,           \* "loop" or "stopped"
    signalled,          \* the process context is cancelled
    events,             \* length of the transportErrors channel
    recovery,           \* position of runHostRecovery
    mainAt              \* position of main()

lvars == <<lpending, lactive, lterminal, lclosed, workerAt>>
pvars == <<svars, lvars, signalled, events, recovery, mainAt>>

PInit ==
    /\ SInit
    /\ lpending = "none" /\ lactive = "none"
    /\ lterminal = FALSE /\ lclosed = FALSE /\ workerAt = "loop"
    /\ signalled = FALSE
    /\ events = 0
    /\ recovery = "off"
    /\ mainAt = "init"

(* Until main returns or log.Fatal is called; both end every goroutine.    *)
Running == mainAt \notin {"fatal", "exited"}

(* reportTransportError: a non-blocking send, so a full channel drops it.  *)
Reported == events' = IF events < EventCap THEN events + 1 ELSE events

-----------------------------------------------------------------------------
(* The lifecycle owner *)

RequestKind(k) ==
    IF lclosed \/ signalled \/ lterminal \/ k \in {lpending, lactive}
    THEN UNCHANGED lvars
    ELSE /\ lpending' = k
         /\ lterminal' = (k = "shutdown")
         /\ UNCHANGED <<lactive, lclosed, workerAt>>

(* The restart and shutdown chat commands, on a host that is connected.    *)
Command(k) ==
    /\ Running
    /\ \E h \in Hosts : host[h] = "running"
    /\ RequestKind(k) /\ lvars' # lvars
    /\ UNCHANGED <<svars, signalled, events, recovery, mainAt>>

WorkerCalls ==
    /\ Running /\ workerAt = "loop" /\ ~lclosed /\ ~signalled
    /\ lpending # "none" /\ lactive = "none"
    /\ lactive' = lpending /\ lpending' = "none"
    /\ IF lpending = "restart" THEN CallReplace("worker", "restart")
                              ELSE CallShutdown("worker")
    /\ UNCHANGED <<lterminal, lclosed, workerAt, signalled, events, recovery, mainAt>>

WorkerSettles ==
    /\ Running /\ lactive # "none" /\ pc["worker"] = "idle"
    /\ lactive' = "none"
    /\ UNCHANGED <<lpending, lterminal, lclosed, workerAt>>
    /\ UNCHANGED <<svars, signalled, events, recovery, mainAt>>

WorkerStopsIf(drained) ==
    /\ Running /\ workerAt = "loop" /\ lactive = "none"
    /\ lclosed \/ signalled
    /\ drained
    /\ lpending' = "none" /\ lclosed' = TRUE
    /\ workerAt' = "stopped"
    /\ UNCHANGED <<lactive, lterminal>>
    /\ UNCHANGED <<svars, signalled, events, recovery, mainAt>>

(* Variant: the worker stops only once nothing is pending. *)
WorkerStopsDrained == WorkerStopsIf(lpending = "none")

WorkerStops == WorkerStopsIf(TRUE)

-----------------------------------------------------------------------------
(* Hosts and the supervisor *)

(* The dispatcher reports a failure unless its own context was cancelled.  *)
Disconnect(h) ==
    /\ Running /\ host[h] = "running"
    /\ host' = [host EXCEPT ![h] = "dead"]
    /\ IF signalled \/ shut \/ (opMu # NoProc /\ h = old) THEN UNCHANGED events ELSE Reported
    /\ UNCHANGED <<fields, opMu, locals, procs, torn>>
    /\ UNCHANGED <<lvars, signalled, recovery, mainAt>>

(* A start that fails by itself is reported like a lost connection.        *)
StartFails(p) ==
    /\ StartEnds(p, FALSE)
    /\ IF OwnedErr(p) THEN UNCHANGED events ELSE Reported
    /\ UNCHANGED <<lvars, signalled, recovery, mainAt>>

SupervisorStep(p) ==
    \/ Running /\ StartFails(p)
    \/ /\ Running
       /\ \/ RefuseReplace(p) \/ BeginReplace(p) \/ StartEnds(p, TRUE)
          \/ BuildFails(p) \/ StartCandidate(p) \/ Publish(p) \/ BeginShutdown(p)
          \/ \E ok \in BOOLEAN :
               \/ RetireOld(p, ok) \/ CleanupNext(p, ok) \/ RetireLast(p, ok)
               \/ \E h \in Hosts : Build(p, h, ok)
       /\ UNCHANGED <<lvars, signalled, events, recovery, mainAt>>

-----------------------------------------------------------------------------
(* The recovery loop *)

Healthy == master # NoHost /\ host[master] = "running"

(* After an event or a failed check the loop calls restart; what it saw    *)
(* may be stale by then.                                                   *)
ReceiveEvent ==
    /\ Running /\ recovery = "select" /\ events > 0
    /\ events' = events - 1
    /\ recovery' = IF AutoReconnect THEN "request" ELSE "select"
    /\ UNCHANGED <<svars, lvars, signalled, mainAt>>

(* Variant: a missing master counts as healthy. *)
HealthTickOfMaster ==
    /\ Running /\ recovery = "select" /\ AutoReconnect
    /\ master # NoHost /\ ~Healthy
    /\ recovery' = "request"
    /\ UNCHANGED <<svars, lvars, signalled, events, mainAt>>

HealthTick ==
    /\ Running /\ recovery = "select" /\ AutoReconnect
    /\ ~Healthy
    /\ recovery' = "request"
    /\ UNCHANGED <<svars, lvars, signalled, events, mainAt>>

RequestRecovery ==
    /\ Running /\ recovery = "request"
    /\ RequestKind("restart")
    /\ recovery' = "select"
    /\ UNCHANGED <<svars, signalled, events, mainAt>>

RecoveryStops ==
    /\ Running /\ recovery = "select" /\ signalled
    /\ recovery' = "stopped"
    /\ UNCHANGED <<svars, lvars, signalled, events, mainAt>>

-----------------------------------------------------------------------------
(* main() *)

MainStarts ==
    /\ mainAt = "init"
    /\ CallReplace("main", "initial")
    /\ mainAt' = "starting"
    /\ UNCHANGED <<lvars, signalled, events, recovery>>

(* log.Fatal ends the process when the first host cannot be started.       *)
MainServes ==
    /\ mainAt = "starting" /\ pc["main"] = "idle"
    /\ IF replied["main"] = "ok"
         THEN mainAt' = "serving" /\ recovery' = "select"
         ELSE mainAt' = "fatal" /\ UNCHANGED recovery
    /\ UNCHANGED <<svars, lvars, signalled, events>>

(* The context of both the initial start and the worker's callbacks.       *)
Signal ==
    /\ Running /\ ~signalled
    /\ signalled' = TRUE
    /\ callerDone' = [p \in Procs |-> TRUE]
    /\ UNCHANGED <<fields, opMu, locals, pc, call, replied, host, torn>>
    /\ UNCHANGED <<lvars, events, recovery, mainAt>>

MainCloses ==
    /\ mainAt = "serving" /\ signalled
    /\ lclosed' = TRUE
    /\ mainAt' = "closing"
    /\ UNCHANGED <<lpending, lactive, lterminal, workerAt>>
    /\ UNCHANGED <<svars, signalled, events, recovery>>

MainCallsShutdown ==
    /\ CallShutdown("main")
    /\ mainAt' = "teardown"
    /\ UNCHANGED <<lvars, signalled, events, recovery>>

(* Variant: main tears the host down without joining the worker. *)
MainTearsDownAtOnce == mainAt = "closing" /\ MainCallsShutdown

MainTearsDown == mainAt = "closing" /\ workerAt = "stopped" /\ MainCallsShutdown

MainExits ==
    /\ mainAt = "teardown" /\ pc["main"] = "idle"
    /\ mainAt' = "exited"
    /\ UNCHANGED <<svars, lvars, signalled, events, recovery>>

Main == MainStarts \/ MainServes \/ MainCloses \/ MainTearsDown \/ MainExits
Recovery == ReceiveEvent \/ HealthTick \/ RequestRecovery \/ RecoveryStops
WorkerLoop == WorkerCalls \/ WorkerSettles \/ WorkerStops

PNext ==
    \/ Main \/ Recovery \/ WorkerLoop \/ Signal
    \/ \E p \in Procs : SupervisorStep(p)
    \/ \E k \in {"restart", "shutdown"} : Command(k)
    \/ \E h \in Hosts : Disconnect(h)

(* Goroutines are scheduled and callbacks return; the ticker fires again   *)
(* and again.  World is what recovery needs of its environment: builds and *)
(* starts of the worker that do not fail every time they are tried, on     *)
(* connections that are not always lost before the host is published.      *)
Outside == UNCHANGED <<lvars, signalled, events, recovery, mainAt>>

World ==
    /\ SF_pvars(Running /\ Outside /\ \E h \in Hosts : Build("worker", h, TRUE))
    /\ SF_pvars(Running /\ Outside /\ StartEnds("worker", TRUE))
    /\ SF_pvars(Running /\ Outside /\ Publish("worker") /\ host[next] = "running")

PFairness ==
    /\ WF_pvars(Main)
    /\ WF_pvars(WorkerLoop)
    /\ WF_pvars(Recovery)
    /\ SF_pvars(HealthTick)
    /\ \A p \in Procs : WF_pvars(SupervisorStep(p))
    /\ World

PSpec == PInit /\ [][PNext]_pvars /\ PFairness

-----------------------------------------------------------------------------
(* Properties *)

(* Teardown starts only after the lifecycle worker has quiesced, so the    *)
(* host that is taken down is not being replaced under main's feet.        *)
TeardownIsAlone ==
    mainAt \in {"teardown", "exited"} =>
        pc["worker"] = "idle" /\ lactive = "none" /\ opMu # "worker"

Stopping == lterminal \/ signalled

(* With AutoReconnect a lost or never restarted host is replaced by a      *)
(* healthy one, although restart requests that arrive while a restart is   *)
(* failing are absorbed by it: only an unfinished cleanup can prevent it.  *)
HostIsReplaced ==
    (mainAt = "serving" /\ ~Healthy) ~> (Healthy \/ Stopping \/ unretired # NoHost)

(* A signal ends the process, whatever the worker is doing.                *)
SignalEndsProcess == (signalled /\ mainAt # "init") ~> ~Running

(* main.go, lifecyclePolicy: "Saturn's scheduler keeps recovering a        *)
(* disconnected host until shutdown."                                      *)
RecoversUntilShutdown == (mainAt = "serving" /\ ~Healthy) ~> (Healthy \/ Stopping)
=============================================================================
