------------------------ MODULE ReplicaControlProofs ------------------------
(* Proofs about ReplicaControl: for any rooms and any number of AddReplica  *)
(* calls, no replica is lost, a failure evicts only the replica it happened *)
(* to, and a failure handler never waits for itself.                        *)
EXTENDS ReplicaControl, TLAPS

\* What holds of a call before its engine has a socket or a dispatcher.
Fresh(r) ==
  /\ dispatcher[r] = "none"
  /\ ~done[r]
  /\ handler[r] = "idle"
  /\ ~failed[r]

\* What AddReplica has built so far, and which Stop it or others called.
CallSound(r) ==
  /\ add[r] \in {"unused", "asked", "starting"} => Fresh(r) /\ socket[r] = "none"
  /\ add[r] = "joining" => Fresh(r) /\ socket[r] = "open"
  /\ add[r] = "reporting" => cancelled[r] /\ socket[r] = "closed" /\ dispatcher[r] = "none"
  /\ add[r] \in {"started", "registering", "added"} => dispatcher[r] # "none"
  /\ add[r] \in {"cleaning", "added", "refused"} \/ stop[r] = "none"
  /\ add[r] = "cleaning" => stop[r] # "none"
  /\ add[r] = "refused" => \/ stop[r] = "over"
                           \/ Fresh(r) /\ socket[r] = "none" /\ stop[r] = "none"
  /\ add[r] = "added" => (stop[r] = "none" <=> Served(r))
  /\ Served(r) => add[r] = "added"

\* A lifetime nobody stopped ends only by the failure of its dispatcher.
Unstopped(r) ==
  \/ add[r] = "started" /\ request[r]
  \/ add[r] = "registering"
  \/ add[r] = "added" /\ stop[r] = "none"

LifetimeSound(r) ==
  /\ add[r] \in {"unused", "asked", "starting", "joining"} /\ request[r] => ~cancelled[r]
  /\ Unstopped(r) /\ cancelled[r] => dispatcher[r] = "ended" /\ handler[r] # "idle"
  /\ done[r] => cancelled[r]
  /\ dispatcher[r] = "ended" => done[r]
  /\ socket[r] = "closed" => cancelled[r]
  /\ dispatcher[r] = "failing" /\ ~cancelled[r] => broken[r]
  /\ stop[r] \in {"cancelled", "closed", "over"} => cancelled[r]
  /\ stop[r] \in {"closed", "over"} => socket[r] = "closed"

\* The handler runs once, after done, and marks before it evicts.
HandlerSound(r) ==
  /\ handler[r] # "idle" =>
       /\ broken[r] /\ done[r]
       /\ dispatcher[r] \in {"none", "ended"}
  /\ handler[r] \in {"marked", "stopping", "over"} => failed[r]
  /\ handler[r] = "stopping" => ~Served(r)
  /\ Served(r) => handler[r] # "over"
  /\ stopper[r] = "failure" => failed[r]

Sound(r) == CallSound(r) /\ LifetimeSound(r) /\ HandlerSound(r)

\* A room maps to a call for that room, and a stopped manager holds none.
RoomsSound ==
  /\ \A c \in Channels : registered[c] # NoReplica => room[registered[c]] = c
  /\ stopped => \A c \in Channels : registered[c] = NoReplica

RInv ==
  /\ RTypeOK
  /\ RoomsSound
  /\ \A r \in Replicas : Sound(r)

-----------------------------------------------------------------------------

\* The initial state: no call made, nothing registered.
LEMMA RInitially == Init => RInv
<1> SUFFICES ASSUME Init PROVE RInv
  OBVIOUS
<1>1. RTypeOK
  BY HostAssumption DEF Init, RTypeOK, AddSteps
<1>2. RoomsSound
  BY DEF Init, RoomsSound
<1>3. ASSUME NEW r \in Replicas PROVE Sound(r)
  BY HostAssumption, NoReplicaAssumption
     DEF Init, Sound, CallSound, LifetimeSound, HandlerSound, Fresh, Unstopped, Served
<1> QED BY <1>1, <1>2, <1>3 DEF RInv

\* The steps of an AddReplica call.
LEMMA CallKeepsRInv ==
  ASSUME RInv, NEW r \in Replicas, Call(r)
  PROVE  RInv'
<1>1. ASSUME NEW c \in Channels, Ask(r, c) PROVE RInv'
  <2>1. RTypeOK'
    BY <1>1 DEF RInv, RTypeOK, AddSteps, Ask, vars, call, engine, failure, manager, stopping
  <2>2. RoomsSound'
    BY <1>1, HostAssumption, NoReplicaAssumption DEF RInv, RTypeOK, RoomsSound, Sound, CallSound, LifetimeSound, HandlerSound, Fresh, Unstopped, Served, Ask, vars, call, engine, failure, manager, stopping
  <2>3. ASSUME NEW q \in Replicas PROVE Sound(q)'
    <3>1. CASE q = r
      BY <1>1, <3>1, HostAssumption, NoReplicaAssumption DEF RInv, RTypeOK, RoomsSound, Sound, CallSound, LifetimeSound, HandlerSound, Fresh, Unstopped, Served, Ask, vars, call, engine, failure, manager, stopping
    <3>2. CASE q # r
      BY <1>1, <3>2, NoReplicaAssumption DEF RInv, RTypeOK, RoomsSound, Sound, CallSound, LifetimeSound, HandlerSound, Fresh, Unstopped, Served, Ask, vars, call, engine, failure, manager, stopping
    <3> QED BY <3>1, <3>2
  <2> QED BY <2>1, <2>2, <2>3 DEF RInv
<1>2. CASE CancelRequest(r)
  <2>1. RTypeOK'
    BY <1>2 DEF RInv, RTypeOK, AddSteps, CancelRequest, vars, call, engine, failure, manager, stopping
  <2>2. RoomsSound'
    BY <1>2, HostAssumption, NoReplicaAssumption DEF RInv, RTypeOK, RoomsSound, Sound, CallSound, LifetimeSound, HandlerSound, Fresh, Unstopped, Served, CancelRequest, vars, call, engine, failure, manager, stopping
  <2>3. ASSUME NEW q \in Replicas PROVE Sound(q)'
    <3>1. CASE q = r
      BY <1>2, <3>1, HostAssumption, NoReplicaAssumption DEF RInv, RTypeOK, RoomsSound, Sound, CallSound, LifetimeSound, HandlerSound, Fresh, Unstopped, Served, CancelRequest, vars, call, engine, failure, manager, stopping
    <3>2. CASE q # r
      BY <1>2, <3>2, NoReplicaAssumption DEF RInv, RTypeOK, RoomsSound, Sound, CallSound, LifetimeSound, HandlerSound, Fresh, Unstopped, Served, CancelRequest, vars, call, engine, failure, manager, stopping
    <3> QED BY <3>1, <3>2
  <2> QED BY <2>1, <2>2, <2>3 DEF RInv
<1>3. CASE Construct(r)
  <2>1. RTypeOK'
    BY <1>3 DEF RInv, RTypeOK, AddSteps, Construct, vars, call, engine, failure, manager, stopping
  <2>2. RoomsSound'
    BY <1>3, HostAssumption, NoReplicaAssumption DEF RInv, RTypeOK, RoomsSound, Sound, CallSound, LifetimeSound, HandlerSound, Fresh, Unstopped, Served, Construct, vars, call, engine, failure, manager, stopping
  <2>3. ASSUME NEW q \in Replicas PROVE Sound(q)'
    <3>1. CASE q = r
      BY <1>3, <3>1, HostAssumption, NoReplicaAssumption DEF RInv, RTypeOK, RoomsSound, Sound, CallSound, LifetimeSound, HandlerSound, Fresh, Unstopped, Served, Construct, vars, call, engine, failure, manager, stopping
    <3>2. CASE q # r
      BY <1>3, <3>2, NoReplicaAssumption DEF RInv, RTypeOK, RoomsSound, Sound, CallSound, LifetimeSound, HandlerSound, Fresh, Unstopped, Served, Construct, vars, call, engine, failure, manager, stopping
    <3> QED BY <3>1, <3>2
  <2> QED BY <2>1, <2>2, <2>3 DEF RInv
<1>4. CASE RequestEndsLifetime(r)
  <2>1. RTypeOK'
    BY <1>4 DEF RInv, RTypeOK, AddSteps, RequestEndsLifetime, vars, call, engine, failure, manager, stopping
  <2>2. RoomsSound'
    BY <1>4, HostAssumption, NoReplicaAssumption DEF RInv, RTypeOK, RoomsSound, Sound, CallSound, LifetimeSound, HandlerSound, Fresh, Unstopped, Served, RequestEndsLifetime, vars, call, engine, failure, manager, stopping
  <2>3. ASSUME NEW q \in Replicas PROVE Sound(q)'
    <3>1. CASE q = r
      BY <1>4, <3>1, HostAssumption, NoReplicaAssumption DEF RInv, RTypeOK, RoomsSound, Sound, CallSound, LifetimeSound, HandlerSound, Fresh, Unstopped, Served, RequestEndsLifetime, vars, call, engine, failure, manager, stopping
    <3>2. CASE q # r
      BY <1>4, <3>2, NoReplicaAssumption DEF RInv, RTypeOK, RoomsSound, Sound, CallSound, LifetimeSound, HandlerSound, Fresh, Unstopped, Served, RequestEndsLifetime, vars, call, engine, failure, manager, stopping
    <3> QED BY <3>1, <3>2
  <2> QED BY <2>1, <2>2, <2>3 DEF RInv
<1>5. CASE Dial(r)
  <2>1. RTypeOK'
    BY <1>5 DEF RInv, RTypeOK, AddSteps, Dial, vars, call, engine, failure, manager, stopping
  <2>2. RoomsSound'
    BY <1>5, HostAssumption, NoReplicaAssumption DEF RInv, RTypeOK, RoomsSound, Sound, CallSound, LifetimeSound, HandlerSound, Fresh, Unstopped, Served, Dial, vars, call, engine, failure, manager, stopping
  <2>3. ASSUME NEW q \in Replicas PROVE Sound(q)'
    <3>1. CASE q = r
      BY <1>5, <3>1, HostAssumption, NoReplicaAssumption DEF RInv, RTypeOK, RoomsSound, Sound, CallSound, LifetimeSound, HandlerSound, Fresh, Unstopped, Served, Dial, vars, call, engine, failure, manager, stopping
    <3>2. CASE q # r
      BY <1>5, <3>2, NoReplicaAssumption DEF RInv, RTypeOK, RoomsSound, Sound, CallSound, LifetimeSound, HandlerSound, Fresh, Unstopped, Served, Dial, vars, call, engine, failure, manager, stopping
    <3> QED BY <3>1, <3>2
  <2> QED BY <2>1, <2>2, <2>3 DEF RInv
<1>6. CASE StartFails(r)
  <2>1. RTypeOK'
    BY <1>6 DEF RInv, RTypeOK, AddSteps, StartFails, CleanUp, StopIsDue, vars, call, engine, failure, manager, stopping
  <2>2. RoomsSound'
    BY <1>6, HostAssumption, NoReplicaAssumption DEF RInv, RTypeOK, RoomsSound, Sound, CallSound, LifetimeSound, HandlerSound, Fresh, Unstopped, Served, StartFails, CleanUp, StopIsDue, vars, call, engine, failure, manager, stopping
  <2>3. ASSUME NEW q \in Replicas PROVE Sound(q)'
    <3>1. CASE q = r
      BY <1>6, <3>1, HostAssumption, NoReplicaAssumption DEF RInv, RTypeOK, RoomsSound, Sound, CallSound, LifetimeSound, HandlerSound, Fresh, Unstopped, Served, StartFails, CleanUp, StopIsDue, vars, call, engine, failure, manager, stopping
    <3>2. CASE q # r
      BY <1>6, <3>2, NoReplicaAssumption DEF RInv, RTypeOK, RoomsSound, Sound, CallSound, LifetimeSound, HandlerSound, Fresh, Unstopped, Served, StartFails, CleanUp, StopIsDue, vars, call, engine, failure, manager, stopping
    <3> QED BY <3>1, <3>2
  <2> QED BY <2>1, <2>2, <2>3 DEF RInv
<1>7. CASE StartReported(r)
  <2>1. RTypeOK'
    BY <1>7 DEF RInv, RTypeOK, AddSteps, StartReported, CleanUp, StopIsDue, vars, call, engine, failure, manager, stopping
  <2>2. RoomsSound'
    BY <1>7, HostAssumption, NoReplicaAssumption DEF RInv, RTypeOK, RoomsSound, Sound, CallSound, LifetimeSound, HandlerSound, Fresh, Unstopped, Served, StartReported, CleanUp, StopIsDue, vars, call, engine, failure, manager, stopping
  <2>3. ASSUME NEW q \in Replicas PROVE Sound(q)'
    <3>1. CASE q = r
      BY <1>7, <3>1, HostAssumption, NoReplicaAssumption DEF RInv, RTypeOK, RoomsSound, Sound, CallSound, LifetimeSound, HandlerSound, Fresh, Unstopped, Served, StartReported, CleanUp, StopIsDue, vars, call, engine, failure, manager, stopping
    <3>2. CASE q # r
      BY <1>7, <3>2, NoReplicaAssumption DEF RInv, RTypeOK, RoomsSound, Sound, CallSound, LifetimeSound, HandlerSound, Fresh, Unstopped, Served, StartReported, CleanUp, StopIsDue, vars, call, engine, failure, manager, stopping
    <3> QED BY <3>1, <3>2
  <2> QED BY <2>1, <2>2, <2>3 DEF RInv
<1>8. CASE Launch(r)
  <2>1. RTypeOK'
    BY <1>8 DEF RInv, RTypeOK, AddSteps, Launch, vars, call, engine, failure, manager, stopping
  <2>2. RoomsSound'
    BY <1>8, HostAssumption, NoReplicaAssumption DEF RInv, RTypeOK, RoomsSound, Sound, CallSound, LifetimeSound, HandlerSound, Fresh, Unstopped, Served, Launch, vars, call, engine, failure, manager, stopping
  <2>3. ASSUME NEW q \in Replicas PROVE Sound(q)'
    <3>1. CASE q = r
      BY <1>8, <3>1, HostAssumption, NoReplicaAssumption DEF RInv, RTypeOK, RoomsSound, Sound, CallSound, LifetimeSound, HandlerSound, Fresh, Unstopped, Served, Launch, vars, call, engine, failure, manager, stopping
    <3>2. CASE q # r
      BY <1>8, <3>2, NoReplicaAssumption DEF RInv, RTypeOK, RoomsSound, Sound, CallSound, LifetimeSound, HandlerSound, Fresh, Unstopped, Served, Launch, vars, call, engine, failure, manager, stopping
    <3> QED BY <3>1, <3>2
  <2> QED BY <2>1, <2>2, <2>3 DEF RInv
<1>9. CASE Detach(r)
  <2>1. RTypeOK'
    BY <1>9 DEF RInv, RTypeOK, AddSteps, Detach, CleanUp, StopIsDue, vars, call, engine, failure, manager, stopping
  <2>2. RoomsSound'
    BY <1>9, HostAssumption, NoReplicaAssumption DEF RInv, RTypeOK, RoomsSound, Sound, CallSound, LifetimeSound, HandlerSound, Fresh, Unstopped, Served, Detach, CleanUp, StopIsDue, vars, call, engine, failure, manager, stopping
  <2>3. ASSUME NEW q \in Replicas PROVE Sound(q)'
    <3>1. CASE q = r
      BY <1>9, <3>1, HostAssumption, NoReplicaAssumption DEF RInv, RTypeOK, RoomsSound, Sound, CallSound, LifetimeSound, HandlerSound, Fresh, Unstopped, Served, Detach, CleanUp, StopIsDue, vars, call, engine, failure, manager, stopping
    <3>2. CASE q # r
      BY <1>9, <3>2, NoReplicaAssumption DEF RInv, RTypeOK, RoomsSound, Sound, CallSound, LifetimeSound, HandlerSound, Fresh, Unstopped, Served, Detach, CleanUp, StopIsDue, vars, call, engine, failure, manager, stopping
    <3> QED BY <3>1, <3>2
  <2> QED BY <2>1, <2>2, <2>3 DEF RInv
<1>10. CASE Register(r)
  <2>1. RTypeOK'
    BY <1>10 DEF RInv, RTypeOK, AddSteps, Register, MayRegister, CleanUp, StopIsDue, vars, call, engine, failure, manager, stopping
  <2>2. RoomsSound'
    BY <1>10, HostAssumption, NoReplicaAssumption DEF RInv, RTypeOK, RoomsSound, Sound, CallSound, LifetimeSound, HandlerSound, Fresh, Unstopped, Served, Register, MayRegister, CleanUp, StopIsDue, vars, call, engine, failure, manager, stopping
  <2>3. ASSUME NEW q \in Replicas PROVE Sound(q)'
    <3>1. CASE q = r
      BY <1>10, <3>1, HostAssumption, NoReplicaAssumption DEF RInv, RTypeOK, RoomsSound, Sound, CallSound, LifetimeSound, HandlerSound, Fresh, Unstopped, Served, Register, MayRegister, CleanUp, StopIsDue, vars, call, engine, failure, manager, stopping
    <3>2. CASE q # r
      BY <1>10, <3>2, NoReplicaAssumption DEF RInv, RTypeOK, RoomsSound, Sound, CallSound, LifetimeSound, HandlerSound, Fresh, Unstopped, Served, Register, MayRegister, CleanUp, StopIsDue, vars, call, engine, failure, manager, stopping
    <3> QED BY <3>1, <3>2
  <2> QED BY <2>1, <2>2, <2>3 DEF RInv
<1>11. CASE CleanedUp(r)
  <2>1. RTypeOK'
    BY <1>11 DEF RInv, RTypeOK, AddSteps, CleanedUp, vars, call, engine, failure, manager, stopping
  <2>2. RoomsSound'
    BY <1>11, HostAssumption, NoReplicaAssumption DEF RInv, RTypeOK, RoomsSound, Sound, CallSound, LifetimeSound, HandlerSound, Fresh, Unstopped, Served, CleanedUp, vars, call, engine, failure, manager, stopping
  <2>3. ASSUME NEW q \in Replicas PROVE Sound(q)'
    <3>1. CASE q = r
      BY <1>11, <3>1, HostAssumption, NoReplicaAssumption DEF RInv, RTypeOK, RoomsSound, Sound, CallSound, LifetimeSound, HandlerSound, Fresh, Unstopped, Served, CleanedUp, vars, call, engine, failure, manager, stopping
    <3>2. CASE q # r
      BY <1>11, <3>2, NoReplicaAssumption DEF RInv, RTypeOK, RoomsSound, Sound, CallSound, LifetimeSound, HandlerSound, Fresh, Unstopped, Served, CleanedUp, vars, call, engine, failure, manager, stopping
    <3> QED BY <3>1, <3>2
  <2> QED BY <2>1, <2>2, <2>3 DEF RInv
<1> QED BY <1>1, <1>2, <1>3, <1>4, <1>5, <1>6, <1>7, <1>8, <1>9, <1>10, <1>11 DEF Call

\* The transport and the dispatcher.
LEMMA EngineKeepsRInv ==
  ASSUME RInv, NEW r \in Replicas, Engine(r)
  PROVE  RInv'
<1>1. CASE Break(r)
  <2>1. RTypeOK'
    BY <1>1 DEF RInv, RTypeOK, AddSteps, Break, vars, call, engine, failure, manager, stopping
  <2>2. RoomsSound'
    BY <1>1, HostAssumption, NoReplicaAssumption DEF RInv, RTypeOK, RoomsSound, Sound, CallSound, LifetimeSound, HandlerSound, Fresh, Unstopped, Served, Break, vars, call, engine, failure, manager, stopping
  <2>3. ASSUME NEW q \in Replicas PROVE Sound(q)'
    <3>1. CASE q = r
      BY <1>1, <3>1, HostAssumption, NoReplicaAssumption DEF RInv, RTypeOK, RoomsSound, Sound, CallSound, LifetimeSound, HandlerSound, Fresh, Unstopped, Served, Break, vars, call, engine, failure, manager, stopping
    <3>2. CASE q # r
      BY <1>1, <3>2, NoReplicaAssumption DEF RInv, RTypeOK, RoomsSound, Sound, CallSound, LifetimeSound, HandlerSound, Fresh, Unstopped, Served, Break, vars, call, engine, failure, manager, stopping
    <3> QED BY <3>1, <3>2
  <2> QED BY <2>1, <2>2, <2>3 DEF RInv
<1>2. CASE ReceiveError(r)
  <2>1. RTypeOK'
    BY <1>2 DEF RInv, RTypeOK, AddSteps, ReceiveError, vars, call, engine, failure, manager, stopping
  <2>2. RoomsSound'
    BY <1>2, HostAssumption, NoReplicaAssumption DEF RInv, RTypeOK, RoomsSound, Sound, CallSound, LifetimeSound, HandlerSound, Fresh, Unstopped, Served, ReceiveError, vars, call, engine, failure, manager, stopping
  <2>3. ASSUME NEW q \in Replicas PROVE Sound(q)'
    <3>1. CASE q = r
      BY <1>2, <3>1, HostAssumption, NoReplicaAssumption DEF RInv, RTypeOK, RoomsSound, Sound, CallSound, LifetimeSound, HandlerSound, Fresh, Unstopped, Served, ReceiveError, vars, call, engine, failure, manager, stopping
    <3>2. CASE q # r
      BY <1>2, <3>2, NoReplicaAssumption DEF RInv, RTypeOK, RoomsSound, Sound, CallSound, LifetimeSound, HandlerSound, Fresh, Unstopped, Served, ReceiveError, vars, call, engine, failure, manager, stopping
    <3> QED BY <3>1, <3>2
  <2> QED BY <2>1, <2>2, <2>3 DEF RInv
<1>3. CASE DispatcherEnds(r)
  <2>1. RTypeOK'
    BY <1>3 DEF RInv, RTypeOK, AddSteps, DispatcherEnds, vars, call, engine, failure, manager, stopping
  <2>2. RoomsSound'
    BY <1>3, HostAssumption, NoReplicaAssumption DEF RInv, RTypeOK, RoomsSound, Sound, CallSound, LifetimeSound, HandlerSound, Fresh, Unstopped, Served, DispatcherEnds, vars, call, engine, failure, manager, stopping
  <2>3. ASSUME NEW q \in Replicas PROVE Sound(q)'
    <3>1. CASE q = r
      BY <1>3, <3>1, HostAssumption, NoReplicaAssumption DEF RInv, RTypeOK, RoomsSound, Sound, CallSound, LifetimeSound, HandlerSound, Fresh, Unstopped, Served, DispatcherEnds, vars, call, engine, failure, manager, stopping
    <3>2. CASE q # r
      BY <1>3, <3>2, NoReplicaAssumption DEF RInv, RTypeOK, RoomsSound, Sound, CallSound, LifetimeSound, HandlerSound, Fresh, Unstopped, Served, DispatcherEnds, vars, call, engine, failure, manager, stopping
    <3> QED BY <3>1, <3>2
  <2> QED BY <2>1, <2>2, <2>3 DEF RInv
<1> QED BY <1>1, <1>2, <1>3 DEF Engine

\* The failure handler.
LEMMA HandlerKeepsRInv ==
  ASSUME RInv, NEW r \in Replicas, Handler(r)
  PROVE  RInv'
<1>1. CASE MarkFailed(r)
  <2>1. RTypeOK'
    BY <1>1 DEF RInv, RTypeOK, AddSteps, MarkFailed, vars, call, engine, failure, manager, stopping
  <2>2. RoomsSound'
    BY <1>1, HostAssumption, NoReplicaAssumption DEF RInv, RTypeOK, RoomsSound, Sound, CallSound, LifetimeSound, HandlerSound, Fresh, Unstopped, Served, MarkFailed, vars, call, engine, failure, manager, stopping
  <2>3. ASSUME NEW q \in Replicas PROVE Sound(q)'
    <3>1. CASE q = r
      BY <1>1, <3>1, HostAssumption, NoReplicaAssumption DEF RInv, RTypeOK, RoomsSound, Sound, CallSound, LifetimeSound, HandlerSound, Fresh, Unstopped, Served, MarkFailed, vars, call, engine, failure, manager, stopping
    <3>2. CASE q # r
      BY <1>1, <3>2, NoReplicaAssumption DEF RInv, RTypeOK, RoomsSound, Sound, CallSound, LifetimeSound, HandlerSound, Fresh, Unstopped, Served, MarkFailed, vars, call, engine, failure, manager, stopping
    <3> QED BY <3>1, <3>2
  <2> QED BY <2>1, <2>2, <2>3 DEF RInv
<1>2. CASE Evict(r)
  <2>1. RTypeOK'
    BY <1>2 DEF RInv, RTypeOK, AddSteps, Evict, StopIsDue, vars, call, engine, failure, manager, stopping
  <2>2. RoomsSound'
    BY <1>2, HostAssumption, NoReplicaAssumption DEF RInv, RTypeOK, RoomsSound, Sound, CallSound, LifetimeSound, HandlerSound, Fresh, Unstopped, Served, Evict, StopIsDue, vars, call, engine, failure, manager, stopping
  <2>3. ASSUME NEW q \in Replicas PROVE Sound(q)'
    <3>1. CASE q = r
      BY <1>2, <3>1, HostAssumption, NoReplicaAssumption DEF RInv, RTypeOK, RoomsSound, Sound, CallSound, LifetimeSound, HandlerSound, Fresh, Unstopped, Served, Evict, StopIsDue, vars, call, engine, failure, manager, stopping
    <3>2. CASE q # r
      BY <1>2, <3>2, NoReplicaAssumption DEF RInv, RTypeOK, RoomsSound, Sound, CallSound, LifetimeSound, HandlerSound, Fresh, Unstopped, Served, Evict, StopIsDue, vars, call, engine, failure, manager, stopping
    <3> QED BY <3>1, <3>2
  <2> QED BY <2>1, <2>2, <2>3 DEF RInv
<1>3. CASE Evicted(r)
  <2>1. RTypeOK'
    BY <1>3 DEF RInv, RTypeOK, AddSteps, Evicted, vars, call, engine, failure, manager, stopping
  <2>2. RoomsSound'
    BY <1>3, HostAssumption, NoReplicaAssumption DEF RInv, RTypeOK, RoomsSound, Sound, CallSound, LifetimeSound, HandlerSound, Fresh, Unstopped, Served, Evicted, vars, call, engine, failure, manager, stopping
  <2>3. ASSUME NEW q \in Replicas PROVE Sound(q)'
    <3>1. CASE q = r
      BY <1>3, <3>1, HostAssumption, NoReplicaAssumption DEF RInv, RTypeOK, RoomsSound, Sound, CallSound, LifetimeSound, HandlerSound, Fresh, Unstopped, Served, Evicted, vars, call, engine, failure, manager, stopping
    <3>2. CASE q # r
      BY <1>3, <3>2, NoReplicaAssumption DEF RInv, RTypeOK, RoomsSound, Sound, CallSound, LifetimeSound, HandlerSound, Fresh, Unstopped, Served, Evicted, vars, call, engine, failure, manager, stopping
    <3> QED BY <3>1, <3>2
  <2> QED BY <2>1, <2>2, <2>3 DEF RInv
<1> QED BY <1>1, <1>2, <1>3 DEF Handler

\* The Stop of a replica.
LEMMA StopKeepsRInv ==
  ASSUME RInv, NEW r \in Replicas, Stop(r)
  PROVE  RInv'
<1>1. CASE StopCancels(r)
  <2>1. RTypeOK'
    BY <1>1 DEF RInv, RTypeOK, AddSteps, StopCancels, MayStop, vars, call, engine, failure, manager, stopping
  <2>2. RoomsSound'
    BY <1>1, HostAssumption, NoReplicaAssumption DEF RInv, RTypeOK, RoomsSound, Sound, CallSound, LifetimeSound, HandlerSound, Fresh, Unstopped, Served, StopCancels, MayStop, vars, call, engine, failure, manager, stopping
  <2>3. ASSUME NEW q \in Replicas PROVE Sound(q)'
    <3>1. CASE q = r
      BY <1>1, <3>1, HostAssumption, NoReplicaAssumption DEF RInv, RTypeOK, RoomsSound, Sound, CallSound, LifetimeSound, HandlerSound, Fresh, Unstopped, Served, StopCancels, MayStop, vars, call, engine, failure, manager, stopping
    <3>2. CASE q # r
      BY <1>1, <3>2, NoReplicaAssumption DEF RInv, RTypeOK, RoomsSound, Sound, CallSound, LifetimeSound, HandlerSound, Fresh, Unstopped, Served, StopCancels, MayStop, vars, call, engine, failure, manager, stopping
    <3> QED BY <3>1, <3>2
  <2> QED BY <2>1, <2>2, <2>3 DEF RInv
<1>2. CASE StopCloses(r)
  <2>1. RTypeOK'
    BY <1>2 DEF RInv, RTypeOK, AddSteps, StopCloses, vars, call, engine, failure, manager, stopping
  <2>2. RoomsSound'
    BY <1>2, HostAssumption, NoReplicaAssumption DEF RInv, RTypeOK, RoomsSound, Sound, CallSound, LifetimeSound, HandlerSound, Fresh, Unstopped, Served, StopCloses, vars, call, engine, failure, manager, stopping
  <2>3. ASSUME NEW q \in Replicas PROVE Sound(q)'
    <3>1. CASE q = r
      BY <1>2, <3>1, HostAssumption, NoReplicaAssumption DEF RInv, RTypeOK, RoomsSound, Sound, CallSound, LifetimeSound, HandlerSound, Fresh, Unstopped, Served, StopCloses, vars, call, engine, failure, manager, stopping
    <3>2. CASE q # r
      BY <1>2, <3>2, NoReplicaAssumption DEF RInv, RTypeOK, RoomsSound, Sound, CallSound, LifetimeSound, HandlerSound, Fresh, Unstopped, Served, StopCloses, vars, call, engine, failure, manager, stopping
    <3> QED BY <3>1, <3>2
  <2> QED BY <2>1, <2>2, <2>3 DEF RInv
<1>3. CASE StopReturns(r)
  <2>1. RTypeOK'
    BY <1>3 DEF RInv, RTypeOK, AddSteps, StopReturns, vars, call, engine, failure, manager, stopping
  <2>2. RoomsSound'
    BY <1>3, HostAssumption, NoReplicaAssumption DEF RInv, RTypeOK, RoomsSound, Sound, CallSound, LifetimeSound, HandlerSound, Fresh, Unstopped, Served, StopReturns, vars, call, engine, failure, manager, stopping
  <2>3. ASSUME NEW q \in Replicas PROVE Sound(q)'
    <3>1. CASE q = r
      BY <1>3, <3>1, HostAssumption, NoReplicaAssumption DEF RInv, RTypeOK, RoomsSound, Sound, CallSound, LifetimeSound, HandlerSound, Fresh, Unstopped, Served, StopReturns, vars, call, engine, failure, manager, stopping
    <3>2. CASE q # r
      BY <1>3, <3>2, NoReplicaAssumption DEF RInv, RTypeOK, RoomsSound, Sound, CallSound, LifetimeSound, HandlerSound, Fresh, Unstopped, Served, StopReturns, vars, call, engine, failure, manager, stopping
    <3> QED BY <3>1, <3>2
  <2> QED BY <2>1, <2>2, <2>3 DEF RInv
<1> QED BY <1>1, <1>2, <1>3 DEF Stop

\* An operator removes whoever owns the room.
LEMMA RemoveReplicaKeepsRInv ==
  ASSUME RInv, NEW c \in Channels, RemoveReplica(c)
  PROVE  RInv'
<1> DEFINE r == registered[c]
<1>1. r \in Replicas /\ room[r] = c /\ Served(r)
  BY DEF RInv, RTypeOK, RoomsSound, RemoveReplica, Served
<1> HIDE DEF r
<1>2. /\ registered' = [registered EXCEPT ![c] = NoReplica]
      /\ stop' = [stop EXCEPT ![r] = "due"]
      /\ stopper' = [stopper EXCEPT ![r] = "operator"]
      /\ UNCHANGED <<call, engine, failure, stopped>>
  BY DEF RemoveReplica, StopIsDue, r
<1>3. RTypeOK'
  BY <1>1, <1>2 DEF RInv, RTypeOK, vars, call, engine, failure, manager, stopping
<1>4. RoomsSound'
  BY <1>1, <1>2 DEF RInv, RTypeOK, RoomsSound, vars, call, engine, failure, manager, stopping
<1>5. ASSUME NEW q \in Replicas PROVE Sound(q)'
  <2>1. CASE q = r
    BY <1>1, <1>2, <2>1, NoReplicaAssumption DEF RInv, RTypeOK, RoomsSound, Sound, CallSound, LifetimeSound, HandlerSound, Fresh, Unstopped, Served, vars, call, engine, failure, manager, stopping
  <2>2. CASE q # r
    <3>1. registered[c] = r
      BY DEF r
    <3> QED BY <1>1, <1>2, <2>2, <3>1, NoReplicaAssumption DEF RInv, RTypeOK, RoomsSound, Sound, CallSound, LifetimeSound, HandlerSound, Fresh, Unstopped, Served, vars, call, engine, failure, manager, stopping
  <2> QED BY <2>1, <2>2
<1> QED BY <1>3, <1>4, <1>5 DEF RInv

\* The teardown empties the manager.
LEMMA StopAllKeepsRInv ==
  ASSUME RInv, StopAll
  PROVE  RInv'
<1>1. RTypeOK'
  BY DEF RInv, RTypeOK, StopAll, vars, call, engine, failure, manager, stopping
<1>2. RoomsSound'
  BY DEF RInv, RTypeOK, RoomsSound, StopAll, vars, call, engine, failure, manager, stopping
<1>3. ASSUME NEW q \in Replicas PROVE Sound(q)'
  <2>1. CASE registered[room[q]] = q
    BY <2>1, NoReplicaAssumption DEF RInv, RTypeOK, RoomsSound, StopAll, Sound, CallSound, LifetimeSound, HandlerSound, Fresh, Unstopped, Served, vars, call, engine, failure, manager, stopping
  <2>2. CASE registered[room[q]] # q
    BY <2>2, NoReplicaAssumption DEF RInv, RTypeOK, RoomsSound, StopAll, Sound, CallSound, LifetimeSound, HandlerSound, Fresh, Unstopped, Served, vars, call, engine, failure, manager, stopping
  <2> QED BY <2>1, <2>2
<1> QED BY <1>1, <1>2, <1>3 DEF RInv

\* Nothing changes: the predicates are state predicates.
LEMMA StutterKeepsRInv ==
  ASSUME RInv, UNCHANGED vars
  PROVE  RInv'
BY DEF RInv, RTypeOK, AddSteps, RoomsSound, Sound, CallSound, LifetimeSound, HandlerSound, Fresh, Unstopped, Served, vars, call, engine, failure, manager, stopping

-----------------------------------------------------------------------------

\* The inductive invariant of AddReplica, the manager and the failure handler.
THEOREM RInvariant == Spec => []RInv
<1>1. RInv /\ [Next]_vars => RInv'
  <2> SUFFICES ASSUME RInv, [Next]_vars PROVE RInv'
    OBVIOUS
  <2>1. CASE Next
    <3>1. ASSUME NEW r \in Replicas, Call(r) \/ Engine(r) \/ Handler(r) \/ Stop(r)
          PROVE  RInv'
      BY <3>1, CallKeepsRInv, EngineKeepsRInv, HandlerKeepsRInv, StopKeepsRInv
    <3>2. ASSUME NEW c \in Channels, RemoveReplica(c) PROVE RInv'
      BY <3>2, RemoveReplicaKeepsRInv
    <3>3. CASE StopAll
      BY <3>3, StopAllKeepsRInv
    <3> QED BY <2>1, <3>1, <3>2, <3>3 DEF Next
  <2>2. CASE UNCHANGED vars
    BY <2>2, StutterKeepsRInv
  <2> QED BY <2>1, <2>2
<1> QED BY <1>1, RInitially, PTL DEF Spec

\* Every variable keeps its type.
THEOREM ReplicaTypeCorrect == Spec => []RTypeOK
<1>1. RInv => RTypeOK
  BY DEF RInv
<1> QED BY <1>1, RInvariant, PTL

\* No replica is lost between AddReplica, the manager, the failure handler and
\* the teardown (ReplicaManager, ManagedReplicaController).
THEOREM ReplicasAreAccounted == Spec => []ReplicasAccounted
<1>1. RInv => ReplicasAccounted
  BY DEF RInv, RTypeOK, RoomsSound, Sound, CallSound, LifetimeSound, HandlerSound, Fresh, Unstopped, Served, ReplicasAccounted, FailurePending
<1> QED BY <1>1, RInvariant, PTL

\* A stale failure never stops a newer owner of the room, and a stop on
\* purpose is never taken for a failure.
THEOREM EvictionIsDeserved == Spec => []OnlyBrokenReplicasAreEvicted
<1>1. RInv => OnlyBrokenReplicasAreEvicted
  BY DEF RInv, Sound, CallSound, LifetimeSound, HandlerSound, Fresh, Unstopped, Served, OnlyBrokenReplicasAreEvicted
<1> QED BY <1>1, RInvariant, PTL

\* The failure handler's Stop never waits for the goroutine that runs it.
THEOREM HandlerIsNotItsOwnWaiter == Spec => []HandlerNeverAwaitsItself
<1>1. RInv => HandlerNeverAwaitsItself
  BY DEF RInv, Sound, CallSound, LifetimeSound, HandlerSound, Fresh, Unstopped, Served, HandlerNeverAwaitsItself
<1> QED BY <1>1, RInvariant, PTL

(* Replicas are accounted for, and only broken ones are evicted.           *)
THEOREM ReplicasStayOwned == Spec => []ReplicasAreOwned
  <1>1. RTypeOK /\ ReplicasAccounted /\ OnlyBrokenReplicasAreEvicted => ReplicasAreOwned
    BY DEF ReplicasAreOwned
  <1> QED
    BY <1>1, ReplicaTypeCorrect, ReplicasAreAccounted, EvictionIsDeserved, PTL
=============================================================================
