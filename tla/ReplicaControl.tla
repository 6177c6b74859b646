--------------------------- MODULE ReplicaControl ---------------------------
(***************************************************************************)
(* Room replicas: ManagedReplicaController.AddReplica starts an engine and *)
(* hands it to the ReplicaManager, while its request may be cancelled, its *)
(* transport may fail, an operator may remove it and the process may tear  *)
(* the manager down (core/replica_controller.go, core/replica_manager.go). *)
(* Of the engine and its transport the module keeps what these race on:    *)
(* the lifetime's context, the socket, and the dispatcher with its failure *)
(* report (core/engine_impl.go StartContext, StopContext).                 *)
(*                                                                         *)
(* A replica is one AddReplica call: the call, its dispatcher, and the one *)
(* failure handler that either of the two may run.                         *)
(***************************************************************************)
EXTENDS Naturals

CONSTANTS Channels,     \* room names
          HostChannel,  \* the master's own room
          Replicas,     \* AddReplica calls, each with the engine it builds
          NoReplica

ASSUME HostAssumption == HostChannel \in Channels
ASSUME NoReplicaAssumption == NoReplica \notin Replicas

VARIABLES
  registered,  \* ReplicaManager.replicas
  stopped,     \* ReplicaManager.stopped
  room,        \* the channel argument of the call
  add,         \* where the AddReplica call stands
  request,     \* is the caller's context still alive?
  cancelled,   \* is the lifetime of StartContext cancelled?
  socket,      \* the websocket of the replica
  broken,      \* did that transport fail by itself?
  dispatcher,  \* the goroutine StartContext launches
  done,        \* runtimeDone is closed
  handler,     \* the runtime failure handler
  failed,      \* the variable of AddReplica that handler sets
  stop,        \* the one ownedReplica.Stop of this replica
  stopper      \* who called it

call     == <<room, add, request>>
engine   == <<cancelled, socket, broken, dispatcher, done>>
failure  == <<handler, failed>>
manager  == <<registered, stopped>>
stopping == <<stop, stopper>>
vars     == <<call, engine, failure, manager, stopping>>

AddSteps == {"unused", "asked", "starting", "joining", "reporting", "started",
             "registering", "cleaning", "added", "refused"}

RTypeOK ==
  /\ registered \in [Channels -> Replicas \cup {NoReplica}]
  /\ stopped \in BOOLEAN
  /\ room \in [Replicas -> Channels]
  /\ add \in [Replicas -> AddSteps]
  /\ request \in [Replicas -> BOOLEAN]
  /\ cancelled \in [Replicas -> BOOLEAN]
  /\ socket \in [Replicas -> {"none", "open", "closed"}]
  /\ broken \in [Replicas -> BOOLEAN]
  /\ dispatcher \in [Replicas -> {"none", "running", "failing", "ended"}]
  /\ done \in [Replicas -> BOOLEAN]
  /\ handler \in [Replicas -> {"idle", "called", "marked", "stopping", "over"}]
  /\ failed \in [Replicas -> BOOLEAN]
  /\ stop \in [Replicas -> {"none", "due", "cancelled", "closed", "over"}]
  /\ stopper \in [Replicas -> {"none", "cleanup", "operator", "failure", "all"}]

Init ==
  /\ registered = [c \in Channels |-> NoReplica]
  /\ stopped = FALSE
  /\ room = [r \in Replicas |-> HostChannel]
  /\ add = [r \in Replicas |-> "unused"]
  /\ request = [r \in Replicas |-> TRUE]
  /\ cancelled = [r \in Replicas |-> FALSE]
  /\ socket = [r \in Replicas |-> "none"]
  /\ broken = [r \in Replicas |-> FALSE]
  /\ dispatcher = [r \in Replicas |-> "none"]
  /\ done = [r \in Replicas |-> FALSE]
  /\ handler = [r \in Replicas |-> "idle"]
  /\ failed = [r \in Replicas |-> FALSE]
  /\ stop = [r \in Replicas |-> "none"]
  /\ stopper = [r \in Replicas |-> "none"]

-----------------------------------------------------------------------------
(* The AddReplica call. *)

StopIsDue(r, by) ==
  /\ stop' = [stop EXCEPT ![r] = "due"]
  /\ stopper' = [stopper EXCEPT ![r] = by]

\* The deferred call of r.Stop, by a call that returns an error.
CleanUp(r) ==
  /\ add' = [add EXCEPT ![r] = "cleaning"]
  /\ StopIsDue(r, "cleanup")

\* replicaCommand.Execute: refuse the host's room and a room already served.
Ask(r, c) ==
  /\ add[r] = "unused"
  /\ c # HostChannel
  /\ registered[c] = NoReplica
  /\ room' = [room EXCEPT ![r] = c]
  /\ add' = [add EXCEPT ![r] = "asked"]
  /\ UNCHANGED <<request, engine, failure, manager, stopping>>

\* The caller's context ends: the master that runs the command is replaced.
CancelRequest(r) ==
  /\ add[r] \notin {"unused", "added", "refused"}
  /\ request[r]
  /\ request' = [request EXCEPT ![r] = FALSE]
  /\ UNCHANGED <<room, add, engine, failure, manager, stopping>>

Construct(r) ==
  /\ add[r] = "asked"
  /\ \/ request[r] /\ add' = [add EXCEPT ![r] = "starting"]
     \/ add' = [add EXCEPT ![r] = "refused"]   \* ctx.Err or construct failed
  /\ UNCHANGED <<room, request, engine, failure, manager, stopping>>

\* context.AfterFunc(ctx, cancel), until detach.
RequestEndsLifetime(r) ==
  /\ add[r] \in {"starting", "joining", "reporting", "started"}
  /\ ~request[r]
  /\ cancelled' = [cancelled EXCEPT ![r] = TRUE]
  /\ UNCHANGED <<call, socket, broken, dispatcher, done, failure, manager, stopping>>

Dial(r) ==
  /\ add[r] = "starting"
  /\ socket' = [socket EXCEPT ![r] = "open"]
  /\ add' = [add EXCEPT ![r] = "joining"]
  /\ UNCHANGED <<room, request, cancelled, broken, dispatcher, done, failure,
                 manager, stopping>>

\* failStart: close what is open, complete the lifetime, then report the error
\* unless the lifetime had been cancelled.
StartFails(r) ==
  /\ add[r] \in {"starting", "joining"}
  /\ cancelled' = [cancelled EXCEPT ![r] = TRUE]
  /\ socket' = [socket EXCEPT ![r] = "closed"]
  /\ done' = [done EXCEPT ![r] = TRUE]
  /\ \/ /\ cancelled[r]
        /\ CleanUp(r)
        /\ UNCHANGED <<broken, handler>>
     \/ /\ ~cancelled[r]
        /\ broken' = [broken EXCEPT ![r] = TRUE]
        /\ handler' = [handler EXCEPT ![r] = "called"]
        /\ add' = [add EXCEPT ![r] = "reporting"]
        /\ UNCHANGED stopping
  /\ UNCHANGED <<room, request, dispatcher, failed, manager>>

StartReported(r) ==
  /\ add[r] = "reporting"
  /\ handler[r] = "over"
  /\ CleanUp(r)
  /\ UNCHANGED <<room, request, engine, failure, manager>>

\* The join frame is sent and the dispatcher launched.
Launch(r) ==
  /\ add[r] = "joining"
  /\ ~cancelled[r]
  /\ dispatcher' = [dispatcher EXCEPT ![r] = "running"]
  /\ add' = [add EXCEPT ![r] = "started"]
  /\ UNCHANGED <<room, request, cancelled, socket, broken, done, failure,
                 manager, stopping>>

\* !detach() || ctx.Err() != nil
Detach(r) ==
  /\ add[r] = "started"
  /\ \/ /\ request[r]
        /\ add' = [add EXCEPT ![r] = "registering"]
        /\ UNCHANGED stopping
     \/ ~request[r] /\ CleanUp(r)
  /\ UNCHANGED <<room, request, engine, failure, manager>>

\* A slip: the failure that came before registration is not looked at.
MayRegisterFailed(r) ==
  /\ ~stopped
  /\ room[r] # HostChannel
  /\ registered[room[r]] = NoReplica

\* Under registrationMu: the failure of this replica, then ReplicaManager.Add.
MayRegister(r) ==
  /\ ~failed[r]
  /\ ~stopped
  /\ room[r] # HostChannel
  /\ registered[room[r]] = NoReplica

Register(r) ==
  /\ add[r] = "registering"
  /\ \/ /\ MayRegister(r)
        /\ registered' = [registered EXCEPT ![room[r]] = r]
        /\ add' = [add EXCEPT ![r] = "added"]
        /\ UNCHANGED stopping
     \/ /\ ~MayRegister(r)
        /\ CleanUp(r)
        /\ UNCHANGED registered
  /\ UNCHANGED <<room, request, stopped, engine, failure>>

CleanedUp(r) ==
  /\ add[r] = "cleaning"
  /\ stop[r] = "over"
  /\ add' = [add EXCEPT ![r] = "refused"]
  /\ UNCHANGED <<room, request, engine, failure, manager, stopping>>

-----------------------------------------------------------------------------
(* The transport and the dispatcher of a started engine. *)

\* The socket fails under the reader or the pinger.
Break(r) ==
  /\ socket[r] = "open"
  /\ ~broken[r]
  /\ broken' = [broken EXCEPT ![r] = TRUE]
  /\ UNCHANGED <<call, cancelled, socket, dispatcher, done, failure, manager, stopping>>

\* The dispatcher receives an error: the transport broke, or the pinger found
\* the socket closed (transport.Connection.write returns ErrClosed).
ReceiveError(r) ==
  /\ dispatcher[r] = "running"
  /\ broken[r] \/ socket[r] = "closed"
  /\ dispatcher' = [dispatcher EXCEPT ![r] = "failing"]
  /\ UNCHANGED <<call, cancelled, socket, broken, done, failure, manager, stopping>>

\* A slip: the failure is reported before done is closed.
DispatcherReportsFirst(r) ==
  /\ \/ dispatcher[r] = "failing"
     \/ dispatcher[r] = "running" /\ cancelled[r]
  /\ \/ /\ dispatcher[r] = "failing" /\ ~cancelled[r]
        /\ handler' = [handler EXCEPT ![r] = "called"]
        /\ UNCHANGED <<dispatcher, done>>
     \/ /\ dispatcher[r] = "running" \/ handler[r] \in {"idle", "over"}
        /\ dispatcher' = [dispatcher EXCEPT ![r] = "ended"]
        /\ done' = [done EXCEPT ![r] = TRUE]
        /\ UNCHANGED handler
  /\ cancelled' = [cancelled EXCEPT ![r] = TRUE]
  /\ UNCHANGED <<call, socket, broken, failed, manager, stopping>>

\* The dispatcher's deferred function: a failure of a lifetime nobody cancelled
\* is reported, after done is closed.
DispatcherEnds(r) ==
  /\ \/ dispatcher[r] = "failing"
     \/ dispatcher[r] = "running" /\ cancelled[r]
  /\ handler' = [handler EXCEPT ![r] =
                   IF dispatcher[r] = "failing" /\ ~cancelled[r] THEN "called" ELSE @]
  /\ dispatcher' = [dispatcher EXCEPT ![r] = "ended"]
  /\ cancelled' = [cancelled EXCEPT ![r] = TRUE]
  /\ done' = [done EXCEPT ![r] = TRUE]
  /\ UNCHANGED <<call, socket, broken, failed, manager, stopping>>

-----------------------------------------------------------------------------
(* The failure handler of AddReplica. *)

MarkFailed(r) ==
  /\ handler[r] = "called"
  /\ handler' = [handler EXCEPT ![r] = "marked"]
  /\ failed' = [failed EXCEPT ![r] = TRUE]
  /\ UNCHANGED <<call, engine, manager, stopping>>

\* A slip: whoever owns the room by now is removed.
EvictAnyOwner(r) ==
  /\ handler[r] = "marked"
  /\ LET owner == registered[room[r]] IN
       \/ /\ owner # NoReplica
          /\ registered' = [registered EXCEPT ![room[r]] = NoReplica]
          /\ StopIsDue(owner, "failure")
          /\ handler' = [handler EXCEPT ![r] = "over"]
       \/ /\ owner = NoReplica
          /\ handler' = [handler EXCEPT ![r] = "over"]
          /\ UNCHANGED <<registered, stopping>>
  /\ UNCHANGED <<call, engine, failed, stopped>>

\* ReplicaManager.remove(channel, r): only this owner of the room.
Evict(r) ==
  /\ handler[r] = "marked"
  /\ \/ /\ registered[room[r]] = r
        /\ registered' = [registered EXCEPT ![room[r]] = NoReplica]
        /\ StopIsDue(r, "failure")
        /\ handler' = [handler EXCEPT ![r] = "stopping"]
     \/ /\ registered[room[r]] # r
        /\ handler' = [handler EXCEPT ![r] = "over"]
        /\ UNCHANGED <<registered, stopping>>
  /\ UNCHANGED <<call, engine, failed, stopped>>

Evicted(r) ==
  /\ handler[r] = "stopping"
  /\ stop[r] = "over"
  /\ handler' = [handler EXCEPT ![r] = "over"]
  /\ UNCHANGED <<call, engine, failed, manager, stopping>>

-----------------------------------------------------------------------------
(* The manager: an operator's Remove, the teardown's StopAll, and Stop. *)

RemoveReplica(c) ==
  /\ registered[c] # NoReplica
  /\ registered' = [registered EXCEPT ![c] = NoReplica]
  /\ StopIsDue(registered[c], "operator")
  /\ UNCHANGED <<call, engine, failure, stopped>>

StopAll ==
  /\ ~stopped
  /\ stopped' = TRUE
  /\ registered' = [c \in Channels |-> NoReplica]
  /\ stop' = [r \in Replicas |-> IF registered[room[r]] = r THEN "due" ELSE stop[r]]
  /\ stopper' = [r \in Replicas |-> IF registered[room[r]] = r THEN "all" ELSE stopper[r]]
  /\ UNCHANGED <<call, engine, failure>>

\* StopAll stops its replicas one after the other, in no fixed order.
MayStop(r) ==
  stopper[r] = "all" =>
    \A q \in Replicas : stopper[q] = "all" => stop[q] \notin {"cancelled", "closed"}

\* ownedReplica.Stop and StopContext: cancel the lifetime, ...
StopCancels(r) ==
  /\ stop[r] = "due"
  /\ MayStop(r)
  /\ stop' = [stop EXCEPT ![r] = "cancelled"]
  /\ cancelled' = [cancelled EXCEPT ![r] = TRUE]
  /\ UNCHANGED <<call, socket, broken, dispatcher, done, failure, manager, stopper>>

\* ... close the transport, ...
StopCloses(r) ==
  /\ stop[r] = "cancelled"
  /\ stop' = [stop EXCEPT ![r] = "closed"]
  /\ socket' = [socket EXCEPT ![r] = "closed"]
  /\ UNCHANGED <<call, cancelled, broken, dispatcher, done, failure, manager, stopper>>

\* ... and wait for the dispatcher, or for the deadline of the stop.
StopReturns(r) ==
  /\ stop[r] = "closed"
  /\ stop' = [stop EXCEPT ![r] = "over"]
  /\ UNCHANGED <<call, engine, failure, manager, stopper>>

-----------------------------------------------------------------------------
Call(r) == \/ \E c \in Channels : Ask(r, c)
           \/ CancelRequest(r) \/ Construct(r) \/ RequestEndsLifetime(r) \/ Dial(r)
           \/ StartFails(r) \/ StartReported(r) \/ Launch(r) \/ Detach(r)
           \/ Register(r) \/ CleanedUp(r)

Engine(r) == Break(r) \/ ReceiveError(r) \/ DispatcherEnds(r)

Handler(r) == MarkFailed(r) \/ Evict(r) \/ Evicted(r)

Stop(r) == StopCancels(r) \/ StopCloses(r) \/ StopReturns(r)

Next == \/ \E r \in Replicas : Call(r) \/ Engine(r) \/ Handler(r) \/ Stop(r)
        \/ \E c \in Channels : RemoveReplica(c)
        \/ StopAll

Spec == Init /\ [][Next]_vars

-----------------------------------------------------------------------------
(* Properties. *)

\* The failure handler of r is running, or about to.
FailurePending(r) == handler[r] \in {"called", "marked"}

Served(r) == registered[room[r]] = r

\* No replica is lost between AddReplica, the manager and the failure handler.
\* A registered replica has a dispatcher, or a failure handler that will evict
\* it; one whose call is over and that nobody holds has its lifetime cancelled
\* and its socket closed, unless a Stop that will do so is under way; and a
\* manager that was stopped holds none. AddReplica, the handler, Remove and
\* StopAll each drop a replica at a different point, under two mutexes.
ReplicasAccounted ==
  /\ \A r \in Replicas :
       /\ Served(r) => \/ dispatcher[r] \in {"running", "failing"}
                       \/ FailurePending(r)
       /\ add[r] \in {"added", "refused"} /\ ~Served(r) /\ socket[r] # "none"
            => \/ stop[r] \in {"due", "cancelled"}
               \/ cancelled[r] /\ socket[r] = "closed"
  /\ stopped => \A c \in Channels : registered[c] = NoReplica

\* A failure evicts only the replica it happened to, and a stop is no failure:
\* the handler never removes a newer owner of the room, and closing the socket
\* of a replica that is stopped on purpose is not reported as its failure
\* (the comments of ReplicaManager.remove and of StartContext's dispatcher).
OnlyBrokenReplicasAreEvicted ==
  \A r \in Replicas :
    /\ stopper[r] = "failure" => failed[r]
    /\ handler[r] # "idle" => broken[r]

\* The failure handler stops its engine from that engine's own dispatcher, or
\* from a start that failed: what its Stop waits for has already happened
\* ("Publish completion before notifying the owner").
HandlerNeverAwaitsItself ==
  \A r \in Replicas : handler[r] # "idle" => done[r]

(* Every replica that runs is known to its manager or being stopped, and   *)
(* only a replica whose own connection failed is evicted.                  *)
ReplicasAreOwned == RTypeOK /\ ReplicasAccounted /\ OnlyBrokenReplicasAreEvicted
=============================================================================
