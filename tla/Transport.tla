------------------------------ MODULE Transport ------------------------------
(***************************************************************************)
(* One WebSocket of one engine: transport.Connection (Start, readLoop,     *)
(* pingLoop, Close; transport/connection.go) with the engine that owns it  *)
(* (StartContext, its dispatcher, StopContext; core/engine_impl.go).  Four *)
(* goroutines and a stopper meet at the done channel, the socket pointer,  *)
(* the connected flag and two bounded channels.  Frames and errors are     *)
(* counted, not told apart.                                                *)
(***************************************************************************)
EXTENDS Naturals

CONSTANTS MessageCap,  \* capacity of Connection.messages: 32
          ErrorCap     \* capacity of Connection.errs: 8

ASSUME MessageCapAssumption == MessageCap \in Nat \ {0}
ASSUME ErrorCapAssumption == ErrorCap \in Nat \ {0}

VARIABLES
  socket,     \* the websocket at the operating system
  conn,       \* Connection.conn is set
  connected,  \* Connection.connected
  closing,    \* Connection.done is closed
  closes,     \* where closeOnce stands
  reader,     \* readLoop
  pinger,     \* pingLoop
  frames,     \* length of Connection.messages
  errs,       \* length of Connection.errs
  start,      \* where StartContext stands
  parent,     \* the context given to StartContext lives
  alive,      \* the lifetime of StartContext is not cancelled
  finished,   \* runtimeDone is closed
  loop,       \* the dispatcher goroutine
  failure,    \* its local variable failure is set
  reports,    \* errors handed to the owner of the engine
  stopper,    \* the goroutine in StopContext
  raced       \* history: Close came between the test in start and conn

connection == <<socket, conn, connected>>
ending     == <<closing, closes>>
channels   == <<frames, errs>>
workers    == <<reader, pinger>>
lifetime   == <<parent, alive, finished>>
dispatch   == <<loop, failure>>
transportVars == <<connection, ending, channels, workers, start, lifetime,
                   dispatch, reports, stopper, raced>>

TransportTypeOK ==
  /\ socket \in {"none", "open", "broken", "closed"}
  /\ conn \in BOOLEAN /\ connected \in BOOLEAN
  /\ closing \in BOOLEAN /\ closes \in {"idle", "marked", "over"}
  /\ reader \in {"none", "reading", "holding", "ended"}
  /\ pinger \in {"none", "waiting", "ended"}
  /\ frames \in 0..MessageCap
  /\ errs \in 0..ErrorCap
  /\ start \in {"idle", "dialing", "dialed", "checked", "joining", "failing",
                "cleaning", "started", "failed"}
  /\ parent \in BOOLEAN /\ alive \in BOOLEAN /\ finished \in BOOLEAN
  /\ loop \in {"none", "selecting", "handling", "leaving", "ended"}
  /\ failure \in BOOLEAN
  /\ reports \in 0..2
  /\ stopper \in {"idle", "closing", "waiting", "returned"}
  /\ raced \in BOOLEAN

TransportInit ==
  /\ socket = "none" /\ conn = FALSE /\ connected = FALSE
  /\ closing = FALSE /\ closes = "idle"
  /\ reader = "none" /\ pinger = "none"
  /\ frames = 0 /\ errs = 0
  /\ start = "idle" /\ parent = TRUE /\ alive = TRUE /\ finished = FALSE
  /\ loop = "none" /\ failure = FALSE
  /\ reports = 0 /\ stopper = "idle" /\ raced = FALSE

-----------------------------------------------------------------------------
(* Connection. *)

\* publish never blocks: an error that finds the channel full is dropped.
PublishError == errs' = IF errs < ErrorCap THEN errs + 1 ELSE errs

\* What the remote side and the network do.
Breaks ==
  /\ socket = "open"
  /\ socket' = "broken"
  /\ UNCHANGED <<conn, connected, ending, channels, workers, start, lifetime,
                 dispatch, reports, stopper, raced>>

\* ReadMessage returns a frame.
Read ==
  /\ reader = "reading" /\ socket = "open"
  /\ reader' = "holding"
  /\ UNCHANGED <<connection, ending, channels, pinger, start, lifetime,
                 dispatch, reports, stopper, raced>>

\* A slip: a reader that holds a frame does not look at done.
EnqueueOnly ==
  /\ reader = "holding" /\ frames < MessageCap
  /\ frames' = frames + 1 /\ reader' = "reading"
  /\ UNCHANGED <<connection, ending, errs, pinger, start, lifetime, dispatch,
                 reports, stopper, raced>>

\* The blocking select between messages and done.
Enqueue ==
  /\ reader = "holding"
  /\ \/ frames < MessageCap /\ frames' = frames + 1 /\ reader' = "reading"
        /\ UNCHANGED connected
     \/ closing /\ reader' = "ended" /\ connected' = FALSE /\ UNCHANGED frames
  /\ UNCHANGED <<socket, conn, ending, errs, pinger, start, lifetime, dispatch,
                 reports, stopper, raced>>

\* A slip: the error of a dead socket is kept to the reader.
ReadFailsSilently ==
  /\ reader = "reading" /\ socket \in {"broken", "closed"}
  /\ reader' = "ended" /\ connected' = FALSE
  /\ UNCHANGED <<socket, conn, ending, channels, pinger, start, lifetime,
                 dispatch, reports, stopper, raced>>

\* ReadMessage returns an error: published unless the owner closed.
ReadFails ==
  /\ reader = "reading" /\ socket \in {"broken", "closed"}
  /\ reader' = "ended" /\ connected' = FALSE
  /\ IF closing THEN UNCHANGED errs ELSE PublishError
  /\ UNCHANGED <<socket, conn, ending, frames, pinger, start, lifetime,
                 dispatch, reports, stopper, raced>>

\* write: fails without a connected socket and on a socket that is not open.
Writable == conn /\ connected /\ socket = "open"

Ping ==
  /\ pinger = "waiting"
  /\ IF Writable THEN UNCHANGED <<pinger, errs>>
                 ELSE pinger' = "ended" /\ PublishError
  /\ UNCHANGED <<connection, ending, frames, reader, start, lifetime, dispatch,
                 reports, stopper, raced>>

PingerLeaves ==
  /\ pinger = "waiting" /\ closing
  /\ pinger' = "ended"
  /\ UNCHANGED <<connection, ending, channels, reader, start, lifetime,
                 dispatch, reports, stopper, raced>>

\* Close, first half of closeOnce: done and connected.
MarkClosed ==
  /\ closes = "idle"
  /\ closes' = "marked" /\ closing' = TRUE /\ connected' = FALSE
  /\ raced' = (raced \/ start = "checked")

\* Close, second half: the socket it finds, if any.
CloseSocket ==
  /\ closes = "marked"
  /\ closes' = "over"
  /\ socket' = IF conn THEN "closed" ELSE socket
  /\ raced' = (raced \/ start = "checked")

-----------------------------------------------------------------------------
(* EngineImpl.StartContext. *)

StartBegins ==
  /\ start = "idle"
  /\ start' = IF closing THEN "failing" ELSE "dialing"
  /\ UNCHANGED <<connection, ending, channels, workers, lifetime, dispatch,
                 reports, stopper, raced>>

Dial ==
  /\ start = "dialing"
  /\ \/ start' = "dialed" /\ socket' = "open" /\ UNCHANGED errs
     \/ start' = "failing" /\ PublishError /\ UNCHANGED socket
  /\ UNCHANGED <<conn, connected, ending, frames, workers, lifetime, dispatch,
                 reports, stopper, raced>>

\* The context of the start ends: the process stops, or a start takes too long.
ParentEnds ==
  /\ parent /\ start # "idle"
  /\ parent' = FALSE /\ alive' = FALSE
  /\ UNCHANGED <<connection, ending, channels, workers, start, finished,
                 dispatch, reports, stopper, raced>>

\* A slip: a Close during the dial is not looked for.
SkipTest ==
  /\ start = "dialed"
  /\ start' = "checked"
  /\ UNCHANGED <<connection, ending, channels, workers, lifetime, dispatch,
                 reports, stopper, raced>>

\* The test after the dial closes a socket that nobody else knows.
TestClosed ==
  /\ start = "dialed"
  /\ IF closing THEN start' = "failing" /\ socket' = "closed"
                ELSE start' = "checked" /\ UNCHANGED socket
  /\ UNCHANGED <<conn, connected, ending, channels, workers, lifetime,
                 dispatch, reports, stopper, raced>>

PublishSocket ==
  /\ start = "checked"
  /\ conn' = TRUE /\ connected' = TRUE
  /\ reader' = "reading" /\ pinger' = "waiting"
  /\ start' = "joining"
  /\ UNCHANGED <<socket, ending, channels, lifetime, dispatch, reports,
                 stopper, raced>>

\* The join frame, then the test of the lifetime, then the dispatcher.
Join ==
  /\ start = "joining"
  /\ IF alive /\ Writable THEN start' = "started" /\ loop' = "selecting"
                          ELSE start' = "failing" /\ UNCHANGED loop
  /\ UNCHANGED <<connection, ending, channels, workers, lifetime, failure,
                 reports, stopper, raced>>

\* failStart, until its Close; the caller's cancellation is not a failure.
FailStart ==
  /\ start = "failing"
  /\ start' = "cleaning"
  /\ failure' = alive
  /\ alive' = FALSE
  /\ UNCHANGED <<connection, ending, channels, workers, parent, finished,
                 loop, reports, stopper, raced>>

StartCloses ==
  /\ start = "cleaning"
  /\ \/ MarkClosed /\ UNCHANGED socket
     \/ CloseSocket /\ UNCHANGED <<closing, connected>>
  /\ UNCHANGED <<conn, channels, workers, start, lifetime, dispatch, reports,
                 stopper>>

\* reportTransportError: once, whoever calls it first.
Report(due) == reports' = IF due /\ reports = 0 THEN 1 ELSE reports

StartReports ==
  /\ start = "cleaning" /\ closes = "over"
  /\ start' = "failed"
  /\ finished' = TRUE
  /\ Report(failure)
  /\ UNCHANGED <<connection, ending, channels, workers, parent, alive,
                 dispatch, stopper, raced>>

-----------------------------------------------------------------------------
(* The dispatcher.  Go's select takes any ready case. *)

\* A slip: the dispatcher waits for the channel of messages to be closed.
SelectFrames ==
  /\ loop = "selecting"
  /\ \/ ~alive /\ loop' = "leaving" /\ UNCHANGED frames
     \/ frames > 0 /\ frames' = frames - 1 /\ loop' = "handling"
  /\ UNCHANGED <<connection, ending, workers, start, lifetime, errs, failure,
                 reports, stopper, raced>>

Select ==
  /\ loop = "selecting"
  /\ \/ ~alive /\ loop' = "leaving" /\ UNCHANGED <<channels, failure>>
     \/ frames > 0 /\ frames' = frames - 1 /\ loop' = "handling"
        /\ UNCHANGED <<errs, failure>>
     \/ errs > 0 /\ errs' = errs - 1 /\ failure' = TRUE /\ loop' = "leaving"
        /\ UNCHANGED frames
  /\ UNCHANGED <<connection, ending, workers, start, lifetime, reports,
                 stopper, raced>>

Handled ==
  /\ loop = "handling"
  /\ loop' = "selecting"
  /\ UNCHANGED <<connection, ending, channels, workers, start, lifetime,
                 failure, reports, stopper, raced>>

\* A slip: the lifetime is asked after it has been cancelled here.
LeaveLate ==
  /\ loop = "leaving"
  /\ loop' = "ended"
  /\ alive' = FALSE /\ finished' = TRUE
  /\ UNCHANGED <<connection, ending, channels, workers, start, parent, failure,
                 reports, stopper, raced>>

\* The deferred function: a lifetime that was cancelled makes no failure.
Leave ==
  /\ loop = "leaving"
  /\ loop' = "ended"
  /\ alive' = FALSE /\ finished' = TRUE
  /\ Report(failure /\ alive)
  /\ UNCHANGED <<connection, ending, channels, workers, start, parent, failure,
                 stopper, raced>>

-----------------------------------------------------------------------------
(* EngineImpl.StopContext, called once at any time after StartContext. *)

Stop ==
  /\ stopper = "idle" /\ start # "idle"
  /\ stopper' = "closing"
  /\ alive' = FALSE
  /\ UNCHANGED <<connection, ending, channels, workers, start, parent, finished,
                 dispatch, reports, raced>>

StopCloses ==
  /\ stopper = "closing"
  /\ \/ MarkClosed /\ UNCHANGED socket
     \/ CloseSocket /\ UNCHANGED <<closing, connected>>
  /\ UNCHANGED <<conn, channels, workers, start, lifetime, dispatch, reports,
                 stopper>>

StopWaits ==
  /\ stopper = "closing" /\ closes = "over"
  /\ stopper' = "waiting"
  /\ UNCHANGED <<connection, ending, channels, workers, start, lifetime,
                 dispatch, reports, raced>>

StopReturns ==
  /\ stopper = "waiting" /\ finished
  /\ stopper' = "returned"
  /\ UNCHANGED <<connection, ending, channels, workers, start, lifetime,
                 dispatch, reports, raced>>

-----------------------------------------------------------------------------
Starting == StartBegins \/ Dial \/ TestClosed \/ PublishSocket \/ Join
            \/ FailStart \/ StartCloses \/ StartReports
Reading == Enqueue \/ ReadFails
Pinging == Ping \/ PingerLeaves
Dispatching == Select \/ Handled \/ Leave
Stopping == StopCloses \/ StopWaits \/ StopReturns

TransportNext == Starting \/ Reading \/ Read \/ Pinging \/ Dispatching
                 \/ Stop \/ Stopping \/ Breaks \/ ParentEnds

\* Goroutines run, the dial ends and a frame is handled; frames, failures and
\* StopContext need not come.
TransportFairness ==
  /\ WF_transportVars(Starting)
  /\ WF_transportVars(Reading)
  /\ WF_transportVars(Pinging)
  /\ WF_transportVars(Dispatching)
  /\ WF_transportVars(Stopping)

TransportSpec == TransportInit /\ [][TransportNext]_transportVars
TransportFairSpec == TransportSpec /\ TransportFairness

-----------------------------------------------------------------------------
(* Once StartContext and Close are over, no socket of the engine is open:  *)
(* also when Close ran while start was dialling, and had no socket to      *)
(* close.  The one window left is between start's test and conn            *)
(* (connection.go:98), of which raced keeps the memory.                    *)
NoSocketIsLeft ==
  (closes = "over" /\ start \in {"started", "failed"} /\ ~raced)
    => socket \notin {"open", "broken"}

(* A transport that dies under a running engine is never lost: until the   *)
(* dispatcher knows, an error is on its way, however full the channels     *)
(* are and whoever drops one.  The master's recovery loop and the failure  *)
(* handler of a replica live on that.                                      *)
DeathIsOnItsWay ==
  (reader = "ended" /\ loop \in {"selecting", "handling"} /\ ~closing)
    => errs > 0

(* An engine that was started and whose lifetime nobody cancelled ends     *)
(* with one report to its owner; there is never a second.                  *)
ReportedOnce ==
  /\ reports <= 1
  /\ (start = "failed" \/ loop = "ended") /\ stopper = "idle" /\ parent => reports = 1

(* Every goroutine of the connection ends once the engine is stopped, also *)
(* a reader that holds a frame for a full channel (unless the socket was   *)
(* left open, see NoSocketIsLeft); StopContext returns.                    *)
StoppedIsQuiet ==
  (stopper = "closing") ~>
    \/ raced
    \/ reader # "reading" /\ reader # "holding" /\ pinger # "waiting"
       /\ stopper = "returned"

(* A broken socket ends the dispatcher. *)
BrokenEndsTheEngine == (socket = "broken" /\ conn) ~> finished

(* However starting, failing and closing overlap, no socket outlives its   *)
(* engine and the end of a live one is on its way to exactly one report.   *)
ConnectionIsSound == TransportTypeOK /\ NoSocketIsLeft /\ DeathIsOnItsWay /\ ReportedOnce
=============================================================================
