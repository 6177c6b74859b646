--------------------------------- MODULE MCHost --------------------------------
(***************************************************************************)
(* The three modules about the host in one run of TLC.  Each initial state *)
(* picks one of them, and only the module it picks moves: the owner of the *)
(* lifecycle operations, the supervisor with two goroutines that call it   *)
(* in every order, or the whole process (whose calls of the supervisor are *)
(* those of main, the worker and the recovery loop).                       *)
(***************************************************************************)
EXTENDS HostLifecycle, HostProcess

VARIABLE part    \* the module this behaviour is about

MCProcs == {"main", "worker"}

MCInit == part \in {"owner", "supervisor", "process"} /\ Init /\ PInit

MCNext ==
    /\ UNCHANGED part
    /\ \/ part = "owner" /\ Next /\ UNCHANGED pvars
       \/ part = "supervisor" /\ SNext /\ Outside /\ UNCHANGED <<mainAt, vars>>
       \/ part = "process" /\ PNext /\ UNCHANGED vars

(* HostLifecycle!Fairness and HostProcess!PFairness, each for its part.    *)
OwnerFairness ==
    /\ WF_vars(part = "owner" /\ Worker)
    /\ WF_vars(part = "owner" /\ CloseReturns)
    /\ WF_vars(part = "owner" /\ WaitExamines /\ waiter = "checking")
    /\ \A c \in Callers : /\ WF_vars(part = "owner" /\ Release(c))
                          /\ WF_vars(part = "owner" /\ ReportSuperseded(c))

ProcessFairness ==
    /\ WF_pvars(part = "process" /\ Main)
    /\ WF_pvars(part = "process" /\ WorkerLoop)
    /\ WF_pvars(part = "process" /\ Recovery)
    /\ SF_pvars(part = "process" /\ HealthTick)
    /\ \A p \in Procs : WF_pvars(part = "process" /\ SupervisorStep(p))
    /\ SF_pvars(part = "process" /\ Running /\ Outside
                /\ \E h \in Hosts : Build("worker", h, TRUE))
    /\ SF_pvars(part = "process" /\ Running /\ Outside /\ StartEnds("worker", TRUE))
    /\ SF_pvars(part = "process" /\ Running /\ Outside
                /\ Publish("worker") /\ host[next] = "running")

MCSpec == MCInit /\ [][MCNext]_<<part, vars, pvars>> /\ OwnerFairness /\ ProcessFairness
=============================================================================
