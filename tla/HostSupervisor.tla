----------------------------- MODULE HostSupervisor ----------------------------
(***************************************************************************)
(* The owner of the master host (cmd/zenbot/host_supervisor.go): it        *)
(* retires the old host, builds, starts and publishes the next one, and    *)
(* keeps a host whose cleanup failed until the final teardown.             *)
(*                                                                         *)
(* opMu serializes the operations; mu protects the published state and is  *)
(* taken for each of the short critical sections that are one action here, *)
(* so that a teardown can close admission while a host is being built.     *)
(***************************************************************************)
EXTENDS Integers, FiniteSets

CONSTANTS Hosts,    \* host objects; a stopped one is garbage and used again
          Procs,    \* goroutines that call the supervisor
          NoHost, NoProc

ASSUME NoHostAssumption == NoHost \notin Hosts
ASSUME NoProcAssumption == NoProc \notin Procs

(* "free": not built, or verified stopped.  "starting": StartContext was   *)
(* called.  "running": it succeeded.  "dead": the connection was lost.     *)
HostStates == {"free", "built", "starting", "running", "dead"}

VARIABLES
    master, unretired, shut,  \* the supervisor's fields
    candidate,                  \* candidateCancel # nil
    binding,                    \* what rebind published to the process
    opMu,                       \* who holds opMu
    old, next,                  \* locals of the operation that holds it
    ownedDone,                  \* the context of that operation is cancelled
    pc, call,                   \* per goroutine: position, operation called
    callerDone,                 \* per goroutine: its own context is cancelled
    replied,                     \* per goroutine: how its last call ended
    host,                       \* state of every host object
    torn                        \* history: some Shutdown returned nil

fields == <<master, unretired, shut, candidate, binding>>
locals == <<old, next, ownedDone>>
procs == <<pc, call, callerDone, replied>>
svars == <<fields, opMu, locals, procs, host, torn>>

SInit ==
    /\ master = NoHost /\ unretired = NoHost /\ shut = FALSE
    /\ candidate = FALSE /\ binding = NoHost
    /\ opMu = NoProc
    /\ old = NoHost /\ next = NoHost /\ ownedDone = FALSE
    /\ pc = [p \in Procs |-> "idle"]
    /\ call = [p \in Procs |-> "none"]
    /\ callerDone = [p \in Procs |-> FALSE]
    /\ replied = [p \in Procs |-> "none"]
    /\ host = [h \in Hosts |-> "free"]
    /\ torn = FALSE

Goto(p, point) == pc' = [pc EXCEPT ![p] = point]

(* The operation ends: opMu and the candidate's cancel function are given  *)
(* up, and an unpublished candidate's context is cancelled.                *)
Return(p, r) ==
    /\ Goto(p, "idle")
    /\ replied' = [replied EXCEPT ![p] = r]
    /\ opMu' = NoProc
    /\ candidate' = FALSE
    /\ old' = NoHost /\ next' = NoHost
    /\ UNCHANGED <<ownedDone, call, callerDone>>

OwnedErr(p) == ownedDone \/ callerDone[p]

-----------------------------------------------------------------------------
(* StartInitial and Restart: replace() *)

CallReplace(p, k) ==
    /\ pc[p] = "idle"
    /\ Goto(p, "replace")
    /\ call' = [call EXCEPT ![p] = k]
    /\ UNCHANGED <<fields, opMu, locals, callerDone, replied, host, torn>>

Refused(p) ==
    \/ shut
    \/ callerDone[p]
    \/ unretired # NoHost
    \/ call[p] = "initial" /\ master # NoHost

RefuseReplace(p) ==
    /\ pc[p] = "replace" /\ opMu = NoProc
    /\ Refused(p)
    /\ Goto(p, "idle")
    /\ replied' = [replied EXCEPT ![p] = "error"]
    /\ UNCHANGED <<fields, opMu, locals, call, callerDone, host, torn>>

BeginWith(p) ==
    /\ pc[p] = "replace"
    /\ opMu' = p
    /\ candidate' = TRUE /\ ownedDone' = FALSE
    /\ old' = master
    /\ master' = NoHost /\ binding' = NoHost
    /\ Goto(p, IF master = NoHost THEN "build" ELSE "retire")
    /\ UNCHANGED <<unretired, shut, next, call, callerDone, replied, host, torn>>

(* A slip: a replacement forgets the host it could not clean up.           *)
BeginDespiteUnretired(p) ==
    opMu = NoProc /\ ~shut /\ ~callerDone[p] /\ BeginWith(p)

BeginReplace(p) == opMu = NoProc /\ ~Refused(p) /\ BeginWith(p)

(* retireHost: a host is given up only after its cleanup succeeded.        *)
Retired(h, ok) ==
    /\ unretired' = IF ok THEN NoHost ELSE h
    /\ host' = IF ok THEN [host EXCEPT ![h] = "free"] ELSE host
    /\ UNCHANGED <<master, shut, binding, torn>>

RetireOld(p, ok) ==
    /\ pc[p] = "retire"
    /\ Retired(old, ok)
    /\ IF ok /\ ~OwnedErr(p)
         THEN /\ Goto(p, "build")
              /\ UNCHANGED <<opMu, candidate, locals, call, callerDone, replied>>
         ELSE Return(p, "error")

(* The builder returns a host, or an error together with the half built    *)
(* host, or nothing; the context is tested again before the start.         *)
Build(p, h, ok) ==
    /\ pc[p] = "build" /\ ~OwnedErr(p)
    /\ host[h] = "free" /\ h # unretired
    /\ host' = [host EXCEPT ![h] = "built"]
    /\ next' = h
    /\ Goto(p, IF ok THEN "start" ELSE "cleanup")
    /\ UNCHANGED <<fields, opMu, old, ownedDone, call, callerDone, replied, torn>>

BuildFails(p) ==
    /\ pc[p] = "build"
    /\ Return(p, "error")
    /\ UNCHANGED <<master, unretired, shut, binding, host, torn>>

StartCandidate(p) ==
    /\ pc[p] = "start"
    /\ IF OwnedErr(p)
         THEN Goto(p, "cleanup") /\ UNCHANGED host
         ELSE Goto(p, "starting") /\ host' = [host EXCEPT ![next] = "starting"]
    /\ UNCHANGED <<fields, opMu, locals, call, callerDone, replied, torn>>

StartEnds(p, ok) ==
    /\ pc[p] = "starting"
    /\ host' = IF ok THEN [host EXCEPT ![next] = "running"] ELSE host
    /\ Goto(p, IF ok /\ ~OwnedErr(p) THEN "publish" ELSE "cleanup")
    /\ UNCHANGED <<fields, opMu, locals, call, callerDone, replied, torn>>

PublishNext(p) ==
    /\ master' = next /\ binding' = next
    /\ Return(p, "ok")
    /\ UNCHANGED <<unretired, shut, host, torn>>

(* Variant: publication does not look at the state it may have lost. *)
PublishBlindly(p) == pc[p] = "publish" /\ PublishNext(p)

Publish(p) ==
    /\ pc[p] = "publish"
    /\ IF shut \/ OwnedErr(p)
         THEN /\ Goto(p, "cleanup")
              /\ UNCHANGED <<fields, opMu, locals, call, callerDone, replied, host, torn>>
         ELSE PublishNext(p)

(* Variant: the error of the clean-up is returned but not remembered. *)
CleanupUnrecorded(p, ok) ==
    /\ pc[p] = "cleanup"
    /\ host' = IF ok THEN [host EXCEPT ![next] = "free"] ELSE host
    /\ Return(p, "error")
    /\ UNCHANGED <<master, unretired, shut, binding, torn>>

CleanupNext(p, ok) ==
    /\ pc[p] = "cleanup"
    /\ Retired(next, ok)
    /\ Return(p, "error")

-----------------------------------------------------------------------------
(* Shutdown and SignalTeardown *)

(* closeAdmission() under mu, before opMu is taken.                        *)
CallShutdown(p) ==
    /\ pc[p] = "idle"
    /\ shut' = TRUE
    /\ ownedDone' = (ownedDone \/ candidate)
    /\ Goto(p, "shutdown")
    /\ call' = [call EXCEPT ![p] = "shutdown"]
    /\ UNCHANGED <<master, unretired, candidate, binding, opMu, old, next,
                   callerDone, replied, host, torn>>

(* Shutdown takes whichever host is still owned, published or unretired.   *)
ShutdownTakes(p, owned) ==
    /\ pc[p] = "shutdown" /\ opMu = NoProc
    /\ master' = NoHost /\ binding' = NoHost
    /\ IF owned = NoHost
         THEN /\ Goto(p, "idle")
              /\ replied' = [replied EXCEPT ![p] = "ok"]
              /\ torn' = TRUE
              /\ UNCHANGED <<opMu, old>>
         ELSE /\ Goto(p, "retireLast")
              /\ opMu' = p /\ old' = owned
              /\ UNCHANGED <<replied, torn>>
    /\ UNCHANGED <<unretired, shut, candidate, next, ownedDone, call,
                   callerDone, host>>

(* Variant: the final shutdown forgets the host whose cleanup failed. *)
ShutdownForgetting(p) == ShutdownTakes(p, master)

BeginShutdown(p) == ShutdownTakes(p, IF master # NoHost THEN master ELSE unretired)

RetireLast(p, ok) ==
    /\ pc[p] = "retireLast"
    /\ unretired' = IF ok THEN NoHost ELSE old
    /\ host' = IF ok THEN [host EXCEPT ![old] = "free"] ELSE host
    /\ torn' = (torn \/ ok)
    /\ Return(p, IF ok THEN "ok" ELSE "error")
    /\ UNCHANGED <<master, shut, binding>>

CancelCaller(p) ==
    /\ ~callerDone[p]
    /\ callerDone' = [callerDone EXCEPT ![p] = TRUE]
    /\ UNCHANGED <<fields, opMu, locals, pc, call, replied, host, torn>>

(* What a call does once it is made.                                       *)
Proceed(p) ==
    \/ RefuseReplace(p) \/ BeginReplace(p)
    \/ \E ok \in BOOLEAN :
         \/ RetireOld(p, ok) \/ StartEnds(p, ok) \/ CleanupNext(p, ok) \/ RetireLast(p, ok)
         \/ \E h \in Hosts : Build(p, h, ok)
    \/ BuildFails(p) \/ StartCandidate(p) \/ Publish(p) \/ BeginShutdown(p)

SNext == \E p \in Procs :
    \/ \E k \in {"initial", "restart"} : CallReplace(p, k)
    \/ CallShutdown(p) \/ CancelCaller(p) \/ Proceed(p)

SSpec == SInit /\ [][SNext]_svars

-----------------------------------------------------------------------------
(* Properties *)

(* Where a goroutine stands between taking opMu and returning.             *)
Critical == {"retire", "build", "start", "starting", "publish", "cleanup", "retireLast"}

STypeOK ==
    /\ master \in Hosts \cup {NoHost} /\ unretired \in Hosts \cup {NoHost}
    /\ binding \in Hosts \cup {NoHost}
    /\ old \in Hosts \cup {NoHost} /\ next \in Hosts \cup {NoHost}
    /\ opMu \in Procs \cup {NoProc}
    /\ shut \in BOOLEAN /\ candidate \in BOOLEAN /\ ownedDone \in BOOLEAN
    /\ torn \in BOOLEAN
    /\ pc \in [Procs -> Critical \cup {"idle", "replace", "shutdown"}]
    /\ \A p \in Procs : pc[p] \in Critical <=> opMu = p
    /\ call \in [Procs -> {"none", "initial", "restart", "shutdown"}]
    /\ callerDone \in [Procs -> BOOLEAN]
    /\ replied \in [Procs -> {"none", "ok", "error"}]
    /\ host \in [Hosts -> HostStates]

(* The bot is never connected twice: a host whose stop is not verified     *)
(* (still running, half started or failed) excludes every other one.       *)
OneHost == \A g, h \in Hosts : host[g] # "free" /\ host[h] # "free" => g = h

(* No host leaks: each one that was built and is not verified stopped is   *)
(* published, retained for the final cleanup, or held by the operation     *)
(* that owns opMu.                                                         *)
NoOrphan == \A h \in Hosts : host[h] # "free" =>
    h \in {master, unretired} \/ (opMu # NoProc /\ h \in {old, next})

(* Once a shutdown returned without error no host remains, and none is     *)
(* ever built again.                                                       *)
TeardownIsFinal == torn => \A h \in Hosts : host[h] = "free"

(* A host can appear as master only while the supervisor is open, and the  *)
(* process is never bound to any other host.                               *)
NothingPublishedAfterClose ==
    [][/\ shut => master' \in {master, NoHost}
       /\ binding' # binding => binding' = master']_svars

-----------------------------------------------------------------------------
(* The inductive invariant behind these properties: at every point of an   *)
(* operation exactly one place owns the host that is not free.             *)
Owns(h) == \A g \in Hosts : host[g] # "free" <=> g = h

Withdrawn == master = NoHost /\ unretired = NoHost

Ownership ==
    /\ opMu = NoProc =>
         /\ old = NoHost /\ next = NoHost
         /\ master = NoHost \/ unretired = NoHost
         /\ Owns(IF master # NoHost THEN master ELSE unretired)
    /\ \A p \in Procs :
         /\ pc[p] = "retire" =>
              Withdrawn /\ next = NoHost /\ old \in Hosts /\ Owns(old)
         /\ pc[p] = "build" => Withdrawn /\ next = NoHost /\ Owns(NoHost)
         /\ pc[p] \in {"start", "starting", "publish", "cleanup"} =>
              Withdrawn /\ next \in Hosts /\ Owns(next)
         /\ pc[p] = "retireLast" =>
              /\ master = NoHost /\ unretired \in {NoHost, old}
              /\ next = NoHost /\ old \in Hosts /\ Owns(old)
         /\ pc[p] \in {"shutdown", "retireLast"} => shut
    /\ torn => shut /\ opMu = NoProc /\ Withdrawn

SInv == STypeOK /\ Ownership

(* However replacements and the teardown overlap and fail, there is one    *)
(* live host at most, none is forgotten, none outlives a clean teardown    *)
(* and none is published after it.                                         *)
HostsAreAccounted ==
    /\ [](STypeOK /\ OneHost /\ NoOrphan /\ TeardownIsFinal)
    /\ NothingPublishedAfterClose
=============================================================================
