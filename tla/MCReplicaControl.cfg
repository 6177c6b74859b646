\* Three AddReplica calls for one room besides the host's, with removal,
\* teardown, request cancellation and transport failure.
CONSTANTS
  Channels = {"host", "lobby"}
  HostChannel = "host"
  Replicas = {r1, r2, r3}
  NoReplica = NoReplica
SYMMETRY Symmetry
SPECIFICATION Spec
INVARIANTS
    ReplicasAreOwned
    HandlerNeverAwaitsItself
CHECK_DEADLOCK FALSE
