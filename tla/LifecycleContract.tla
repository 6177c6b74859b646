--------------------------- MODULE LifecycleContract ---------------------------
(***************************************************************************)
(* What the host lifecycle owner promises to the rest of the process,      *)
(* without its lock, wake channel, condition variable and worker: command  *)
(* dispatches and process-lifetime operations exclude each other, one      *)
(* operation runs at a time, a shutdown is the last operation, and an      *)
(* operation that is refused after its admission never runs.               *)
(***************************************************************************)
EXTENDS Integers

CONSTANTS Dispatchers, Ops, Kinds

VARIABLES leases,   \* dispatchers that execute a command
          stage,    \* of each operation
          kinds,    \* of each operation, fixed when it is queued
          mode      \* "open", then "terminal" and/or "closed"

cvars == <<leases, stage, kinds, mode>>

Busy == \E o \in Ops : stage[o] \in {"queued", "running"}

CInit ==
    /\ leases = {}
    /\ stage = [o \in Ops |-> "new"]
    /\ kinds \in [Ops -> Kinds]
    /\ mode = "open"

Grant(d) ==
    /\ mode = "open" /\ ~Busy
    /\ leases' = leases \cup {d}
    /\ UNCHANGED <<stage, kinds, mode>>

Return(d) ==
    /\ leases' = leases \ {d}
    /\ UNCHANGED <<stage, kinds, mode>>

(* A restart is queued only if nothing is, a shutdown drops what is.       *)
Queue(o, k) ==
    /\ mode = "open" /\ stage[o] = "new"
    /\ k = "restart" => \A p \in Ops : stage[p] # "queued"
    /\ stage' = [p \in Ops |-> IF p = o THEN "queued"
                               ELSE IF stage[p] = "queued" THEN "dropped"
                               ELSE stage[p]]
    /\ kinds' = [kinds EXCEPT ![o] = k]
    /\ mode' = IF k = "shutdown" THEN "terminal" ELSE mode
    /\ UNCHANGED leases

Run(o) ==
    /\ mode # "closed" /\ leases = {}
    /\ stage[o] = "queued"
    /\ \A p \in Ops : stage[p] # "running"
    /\ stage' = [stage EXCEPT ![o] = "running"]
    /\ UNCHANGED <<leases, kinds, mode>>

Settle(o) ==
    /\ stage[o] = "running"
    /\ stage' = [stage EXCEPT ![o] = "settled"]
    /\ UNCHANGED <<leases, kinds, mode>>

CloseMode ==
    /\ mode' = "closed"
    /\ UNCHANGED <<leases, stage, kinds>>

Drop(o) ==
    /\ mode = "closed" /\ stage[o] = "queued"
    /\ stage' = [stage EXCEPT ![o] = "dropped"]
    /\ UNCHANGED <<leases, kinds, mode>>

CNext ==
    \/ \E d \in Dispatchers : Grant(d) \/ Return(d)
    \/ \E o \in Ops : \/ \E k \in Kinds : Queue(o, k)
                      \/ Run(o) \/ Settle(o) \/ Drop(o)
    \/ CloseMode

CSpec == CInit /\ [][CNext]_cvars
=============================================================================
