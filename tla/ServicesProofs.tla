--------------------------- MODULE ServicesProofs ----------------------------
(***************************************************************************)
(* Proofs about what an engine and a turn rest on, for any capacities,     *)
(* retries, commands and rooms.  No socket outlives its engine and its end *)
(* is reported once; a call of the model provider tells how it ended; an   *)
(* answer of the command gateway denies no effect and claims none; the     *)
(* last switch of automove is the one that is kept.                        *)
(***************************************************************************)
EXTENDS Transport, ModelClient, CommandGateway, AutoMove, WellFoundedInduction, TLAPS

(* The connection of an engine *)

\* What StartContext has made so far, and what Close found of it.
SocketSound ==
  /\ closing <=> closes # "idle"
  /\ start \in {"joining", "started"} => conn
  /\ conn => /\ start \in {"joining", "started", "failing", "cleaning", "failed"}
             /\ socket # "none"
  /\ ~conn => reader = "none" /\ pinger = "none" /\ ~connected
  /\ conn => reader # "none" /\ pinger # "none"
  /\ ~conn /\ start \notin {"dialed", "checked"} => socket \in {"none", "closed"}
  /\ start \in {"dialed", "checked"} => socket # "none"
  /\ start = "checked" /\ closing => raced
  /\ conn /\ closes = "over" /\ ~raced => socket = "closed"

\* The reader's error waits for a dispatcher that may not have begun.
DeathAwaited ==
  reader = "ended" /\ loop \in {"none", "selecting", "handling"} /\ ~closing => errs > 0

\* A lifetime that nobody cancelled ends in one place, which knows why.
EndSound ==
  /\ loop # "none" => start = "started"
  /\ start = "started" => loop # "none"
  /\ loop = "leaving" => failure \/ ~alive
  /\ reports <= 1
  /\ parent /\ stopper = "idle" =>
       /\ start \notin {"cleaning", "failed"} /\ loop # "ended" => alive
       /\ start = "cleaning" => failure
       /\ start = "failed" \/ loop = "ended" => reports = 1

\* The flags of the connection and of the engine (their types alone).
Flags ==
  /\ conn \in BOOLEAN /\ connected \in BOOLEAN /\ closing \in BOOLEAN
  /\ parent \in BOOLEAN /\ alive \in BOOLEAN /\ finished \in BOOLEAN
  /\ failure \in BOOLEAN /\ raced \in BOOLEAN

CInv == TransportTypeOK /\ SocketSound /\ DeathAwaited /\ EndSound

-----------------------------------------------------------------------------
\* Before StartContext.
LEMMA InitCInv == TransportInit => CInv
<1> SUFFICES ASSUME TransportInit PROVE CInv
  OBVIOUS
<1>1. Flags
  BY DEF TransportInit, Flags
<1>2. TransportTypeOK
  BY <1>1, ErrorCapAssumption, MessageCapAssumption DEF TransportInit, TransportTypeOK, Flags
<1>3. SocketSound /\ DeathAwaited /\ EndSound
  BY DEF TransportInit, SocketSound, DeathAwaited, EndSound
<1> QED BY <1>2, <1>3 DEF CInv

\* Close, by whom it may be called: both halves of closeOnce.
LEMMA CloseKeepsCInv ==
  ASSUME CInv,
         \/ MarkClosed /\ UNCHANGED socket
         \/ CloseSocket /\ UNCHANGED <<closing, connected>>,
         UNCHANGED <<conn, channels, workers, start, lifetime, dispatch, reports, stopper>>
  PROVE  CInv'
<1>1. UNCHANGED <<conn, frames, errs, reader, pinger, start, parent, alive, finished, loop,
                  failure, reports, stopper>>
  BY DEF channels, workers, lifetime, dispatch
<1>2. CASE MarkClosed /\ UNCHANGED socket
  <2>1f. Flags'
    BY <1>1, <1>2 DEF CInv, TransportTypeOK, Flags, MarkClosed
  <2>1. TransportTypeOK'
    BY <1>1, <1>2, <2>1f DEF CInv, TransportTypeOK, Flags, MarkClosed
  <2>2. SocketSound'
    <3>1. closing' /\ ~connected' /\ closes' = "marked" /\ socket' = socket
      BY <1>2 DEF MarkClosed
    <3>2. raced' <=> raced \/ start = "checked"
      BY <1>2 DEF MarkClosed
    <3> QED BY <1>1, <3>1, <3>2 DEF CInv, SocketSound
  <2>3. DeathAwaited' /\ EndSound'
    BY <1>1, <1>2 DEF CInv, DeathAwaited, EndSound, MarkClosed
  <2> QED BY <2>1, <2>2, <2>3 DEF CInv
<1>3. CASE CloseSocket /\ UNCHANGED <<closing, connected>>
  BY <1>1, <1>3
     DEF CInv, TransportTypeOK, SocketSound, DeathAwaited, EndSound, CloseSocket
<1> QED BY <1>2, <1>3

\* StartContext, from its first test to the end of failStart.
LEMMA StartingKeepsCInv == ASSUME CInv, Starting PROVE CInv'
<1> USE DEF connection, ending, channels, workers, lifetime, dispatch
<1>1. CASE StartBegins
  BY <1>1 DEF CInv, TransportTypeOK, SocketSound, DeathAwaited, EndSound, StartBegins
<1>2. CASE Dial
  <2>1. errs' \in 0..ErrorCap /\ (errs > 0 => errs' > 0)
    BY <1>2, ErrorCapAssumption DEF CInv, TransportTypeOK, Dial, PublishError
  <2> QED BY <1>2, <2>1 DEF CInv, TransportTypeOK, SocketSound, DeathAwaited, EndSound, Dial
<1>3. CASE TestClosed
  BY <1>3 DEF CInv, TransportTypeOK, SocketSound, DeathAwaited, EndSound, TestClosed
<1>4. CASE PublishSocket
  <2>1f. Flags'
    BY <1>4 DEF CInv, TransportTypeOK, Flags, PublishSocket
  <2>1. TransportTypeOK'
    BY <1>4, <2>1f DEF CInv, TransportTypeOK, Flags, PublishSocket
  <2>2. SocketSound'
    <3>1. conn' /\ connected' /\ reader' = "reading" /\ pinger' = "waiting" /\ start' = "joining"
      BY <1>4 DEF PublishSocket
    <3>2. socket' = socket /\ closing' = closing /\ closes' = closes /\ raced' = raced
          /\ start = "checked"
      BY <1>4 DEF PublishSocket
    <3>3. socket # "none"
      BY <3>2 DEF CInv, SocketSound
    <3>4. closing <=> closes # "idle"
      BY DEF CInv, SocketSound
    <3>5. closing => raced
      BY <3>2 DEF CInv, SocketSound
    <3> QED BY <3>1, <3>2, <3>3, <3>4, <3>5 DEF SocketSound
  <2>3. DeathAwaited'
    BY <1>4 DEF CInv, TransportTypeOK, DeathAwaited, PublishSocket
  <2>4. EndSound'
    BY <1>4 DEF CInv, TransportTypeOK, EndSound, PublishSocket
  <2> QED BY <2>1, <2>2, <2>3, <2>4 DEF CInv
<1>5. CASE Join
  BY <1>5 DEF CInv, TransportTypeOK, SocketSound, DeathAwaited, EndSound, Join, Writable
<1>6. CASE FailStart
  <2>1f. Flags'
    BY <1>6 DEF CInv, TransportTypeOK, Flags, FailStart
  <2>1. TransportTypeOK'
    BY <1>6, <2>1f DEF CInv, TransportTypeOK, Flags, FailStart
  <2>2. SocketSound'
    BY <1>6 DEF CInv, TransportTypeOK, SocketSound, FailStart
  <2>3. DeathAwaited'
    BY <1>6 DEF CInv, TransportTypeOK, DeathAwaited, FailStart
  <2>4. EndSound'
    BY <1>6 DEF CInv, TransportTypeOK, EndSound, FailStart
  <2> QED BY <2>1, <2>2, <2>3, <2>4 DEF CInv
<1>7. CASE StartCloses
  BY <1>7, CloseKeepsCInv DEF StartCloses
<1>8. CASE StartReports
  BY <1>8 DEF CInv, TransportTypeOK, SocketSound, DeathAwaited, EndSound, StartReports, Report
<1> QED BY <1>1, <1>2, <1>3, <1>4, <1>5, <1>6, <1>7, <1>8 DEF Starting

\* The reader and the pinger.
LEMMA WorkersKeepCInv == ASSUME CInv, Read \/ Reading \/ Pinging PROVE CInv'
<1> USE DEF connection, ending, channels, workers, lifetime, dispatch
<1>1. CASE Read
  BY <1>1 DEF CInv, TransportTypeOK, SocketSound, DeathAwaited, EndSound, Read
<1>2. CASE Enqueue
  <2>1. frames' \in 0..MessageCap
    BY <1>2, MessageCapAssumption DEF CInv, TransportTypeOK, Enqueue
  <2>2f. Flags'
    BY <1>2, <2>1 DEF CInv, TransportTypeOK, Flags, Enqueue
  <2>2. TransportTypeOK'
    BY <1>2, <2>1, <2>2f DEF CInv, TransportTypeOK, Flags, Enqueue
  <2>3. SocketSound'
    BY <1>2, <2>1 DEF CInv, TransportTypeOK, SocketSound, Enqueue
  <2>4. DeathAwaited'
    BY <1>2, <2>1 DEF CInv, TransportTypeOK, DeathAwaited, Enqueue
  <2>5. EndSound'
    BY <1>2, <2>1 DEF CInv, TransportTypeOK, EndSound, Enqueue
  <2> QED BY <2>2, <2>3, <2>4, <2>5 DEF CInv
<1>3. CASE ReadFails
  <2>1. errs' \in 0..ErrorCap /\ (~closing => errs' > 0)
    BY <1>3, ErrorCapAssumption DEF CInv, TransportTypeOK, ReadFails, PublishError
  <2>2f. Flags'
    BY <1>3, <2>1 DEF CInv, TransportTypeOK, Flags, ReadFails
  <2>2. TransportTypeOK'
    BY <1>3, <2>1, <2>2f DEF CInv, TransportTypeOK, Flags, ReadFails
  <2>3. SocketSound'
    BY <1>3, <2>1 DEF CInv, TransportTypeOK, SocketSound, ReadFails
  <2>4. DeathAwaited'
    BY <1>3, <2>1 DEF CInv, TransportTypeOK, DeathAwaited, ReadFails
  <2>5. EndSound'
    BY <1>3, <2>1 DEF CInv, TransportTypeOK, EndSound, ReadFails
  <2> QED BY <2>2, <2>3, <2>4, <2>5 DEF CInv
<1>4. CASE Ping
  <2>1. errs' \in 0..ErrorCap /\ (errs > 0 => errs' > 0)
    BY <1>4, ErrorCapAssumption DEF CInv, TransportTypeOK, Ping, PublishError
  <2> QED BY <1>4, <2>1 DEF CInv, TransportTypeOK, SocketSound, DeathAwaited, EndSound, Ping
<1>5. CASE PingerLeaves
  BY <1>5 DEF CInv, TransportTypeOK, SocketSound, DeathAwaited, EndSound, PingerLeaves
<1> QED BY <1>1, <1>2, <1>3, <1>4, <1>5 DEF Reading, Pinging

\* The dispatcher of the engine.
LEMMA DispatchKeepsCInv == ASSUME CInv, Dispatching PROVE CInv'
<1> USE DEF connection, ending, channels, workers, lifetime, dispatch
<1>1. CASE Select
  <2>1. frames' \in 0..MessageCap /\ errs' \in 0..ErrorCap
    BY <1>1, MessageCapAssumption, ErrorCapAssumption DEF CInv, TransportTypeOK, Select
  <2>2f. Flags'
    BY <1>1, <2>1 DEF CInv, TransportTypeOK, Flags, Select
  <2>2. TransportTypeOK'
    BY <1>1, <2>1, <2>2f DEF CInv, TransportTypeOK, Flags, Select
  <2>3. SocketSound'
    BY <1>1, <2>1 DEF CInv, TransportTypeOK, SocketSound, Select
  <2>4. DeathAwaited'
    BY <1>1, <2>1 DEF CInv, TransportTypeOK, DeathAwaited, Select
  <2>5. EndSound'
    BY <1>1, <2>1 DEF CInv, TransportTypeOK, EndSound, Select
  <2> QED BY <2>2, <2>3, <2>4, <2>5 DEF CInv
<1>2. CASE Handled
  BY <1>2 DEF CInv, TransportTypeOK, SocketSound, DeathAwaited, EndSound, Handled
<1>3. CASE Leave
  <2>1f. Flags'
    BY <1>3 DEF CInv, TransportTypeOK, Flags, Leave, Report
  <2>1. TransportTypeOK'
    BY <1>3, <2>1f DEF CInv, TransportTypeOK, Flags, Leave, Report
  <2>2. SocketSound'
    BY <1>3 DEF CInv, TransportTypeOK, SocketSound, Leave, Report
  <2>3. DeathAwaited'
    BY <1>3 DEF CInv, TransportTypeOK, DeathAwaited, Leave, Report
  <2>4. EndSound'
    BY <1>3 DEF CInv, TransportTypeOK, EndSound, Leave, Report
  <2> QED BY <2>1, <2>2, <2>3, <2>4 DEF CInv
<1> QED BY <1>1, <1>2, <1>3 DEF Dispatching

\* StopContext, and what comes from outside.
LEMMA OthersKeepCInv ==
  ASSUME CInv, Stop \/ Stopping \/ Breaks \/ ParentEnds \/ UNCHANGED transportVars
  PROVE  CInv'
<1> USE DEF connection, ending, channels, workers, lifetime, dispatch
<1>1. CASE Stop
  <2>1f. Flags'
    BY <1>1 DEF CInv, TransportTypeOK, Flags, Stop
  <2>1. TransportTypeOK'
    BY <1>1, <2>1f DEF CInv, TransportTypeOK, Flags, Stop
  <2>2. SocketSound'
    BY <1>1 DEF CInv, TransportTypeOK, SocketSound, Stop
  <2>3. DeathAwaited'
    BY <1>1 DEF CInv, TransportTypeOK, DeathAwaited, Stop
  <2>4. EndSound'
    BY <1>1 DEF CInv, TransportTypeOK, EndSound, Stop
  <2> QED BY <2>1, <2>2, <2>3, <2>4 DEF CInv
<1>2. CASE StopCloses
  BY <1>2, CloseKeepsCInv DEF StopCloses
<1>3. CASE StopWaits
  BY <1>3 DEF CInv, TransportTypeOK, SocketSound, DeathAwaited, EndSound, StopWaits
<1>4. CASE StopReturns
  BY <1>4 DEF CInv, TransportTypeOK, SocketSound, DeathAwaited, EndSound, StopReturns
<1>5. CASE Breaks
  BY <1>5 DEF CInv, TransportTypeOK, SocketSound, DeathAwaited, EndSound, Breaks
<1>6. CASE ParentEnds
  <2>1f. Flags'
    BY <1>6 DEF CInv, TransportTypeOK, Flags, ParentEnds
  <2>1. TransportTypeOK'
    BY <1>6, <2>1f DEF CInv, TransportTypeOK, Flags, ParentEnds
  <2>2. SocketSound'
    BY <1>6 DEF CInv, TransportTypeOK, SocketSound, ParentEnds
  <2>3. DeathAwaited'
    BY <1>6 DEF CInv, TransportTypeOK, DeathAwaited, ParentEnds
  <2>4. EndSound'
    BY <1>6 DEF CInv, TransportTypeOK, EndSound, ParentEnds
  <2> QED BY <2>1, <2>2, <2>3, <2>4 DEF CInv
<1>7. CASE UNCHANGED transportVars
  BY <1>7 DEF CInv, TransportTypeOK, SocketSound, DeathAwaited, EndSound, transportVars
<1> QED BY <1>1, <1>2, <1>3, <1>4, <1>5, <1>6, <1>7 DEF Stopping

\* Every step of the connection and of its engine.
LEMMA NextCInv == CInv /\ [TransportNext]_transportVars => CInv'
BY StartingKeepsCInv, WorkersKeepCInv, DispatchKeepsCInv, OthersKeepCInv DEF TransportNext

-----------------------------------------------------------------------------
\* The strengthening holds in every reachable state.
THEOREM ConnectionInvariant == TransportSpec => []CInv
<1> QED BY InitCInv, NextCInv, PTL DEF TransportSpec

\* After StartContext and Close no socket is open, unless Close came in the
\* window between the test of start and the publication of the socket.
THEOREM SocketsAreClosed == TransportSpec => []NoSocketIsLeft
<1>1. CInv => NoSocketIsLeft
  BY DEF CInv, TransportTypeOK, SocketSound, NoSocketIsLeft
<1> QED BY <1>1, ConnectionInvariant, PTL

\* An error waits for the dispatcher of a transport that died.
THEOREM DeathArrives == TransportSpec => []DeathIsOnItsWay
<1>1. CInv => DeathIsOnItsWay
  BY DEF CInv, DeathAwaited, DeathIsOnItsWay
<1> QED BY <1>1, ConnectionInvariant, PTL

\* An engine that ends by itself reports once, and never twice.
THEOREM EngineReportsOnce == TransportSpec => []ReportedOnce
<1>1. CInv => ReportedOnce
  BY DEF CInv, EndSound, ReportedOnce
<1> QED BY <1>1, ConnectionInvariant, PTL

\* However starting, failing and closing overlap, no socket outlives its
\* engine and the end of a live one is on its way to exactly one report.
THEOREM ConnectionStaysSound == TransportSpec => []ConnectionIsSound
<1>1. CInv => TransportTypeOK
  BY DEF CInv
<1>2. TransportTypeOK /\ NoSocketIsLeft /\ DeathIsOnItsWay /\ ReportedOnce => ConnectionIsSound
  BY DEF ConnectionIsSound
<1> QED
  BY <1>1, <1>2, ConnectionInvariant, SocketsAreClosed, DeathArrives, EngineReportsOnce, PTL

-----------------------------------------------------------------------------
(* Numbers *)

(* Every set of numbers that is not empty has a least one.                 *)
LEMMA LeastNumber ==
    ASSUME NEW S \in SUBSET Nat, S # {}
    PROVE  \E x \in S : \A y \in S : x =< y
  <1> DEFINE Less == {pair \in Nat \X Nat : pair[1] < pair[2]}
  <1>1. IsWellFoundedOn(Less, Nat)
    BY NatLessThanWellFounded, Zenon DEF OpToRel
  <1>2. PICK x \in S : \A y \in S : ~ (<<y, x>> \in Less)
    <2> HIDE DEF Less
    <2> QED
      BY <1>1, WFMin
  <1>3. \A y \in S : x =< y
    <2> SUFFICES ASSUME NEW y \in S PROVE x =< y
      OBVIOUS
    <2>1. x \in Nat /\ y \in Nat /\ ~ (<<y, x>> \in Less)
      BY <1>2
    <2>2. y < x => <<y, x>> \in Less
      BY <2>1
    <2> QED
      BY <2>1, <2>2
  <1> QED
    BY <1>3

-----------------------------------------------------------------------------
(* The client of the language model *)

(* A table of doublings exists for every cap of the exponent.              *)
LEMMA DoublingsExist ==
    \A m \in Nat : \E f : f = [k \in 0..m |-> IF k = 0 THEN 1 ELSE 2 * f[k - 1]]
  <1> DEFINE Table(f, m) == f = [k \in 0..m |-> IF k = 0 THEN 1 ELSE 2 * f[k - 1]]
             Bad == {m \in Nat : \A f : ~Table(f, m)}
  <1>1. SUFFICES ASSUME Bad # {} PROVE FALSE
    OBVIOUS
  <1>2. PICK m \in Bad : \A n \in Bad : m =< n
    BY <1>1, LeastNumber
  <1>3. CASE m = 0
    <2>1. Table([k \in 0..0 |-> 1], m)
      BY <1>3
    <2> QED
      BY <1>2, <2>1
  <1>4. CASE m # 0
    <2> m \in Nat
      BY <1>2
    <2> HIDE DEF Bad
    <2>1. m - 1 \in Nat /\ m - 1 \notin Bad
      BY <1>2, <1>4
    <2> USE DEF Bad
    <2>2. PICK f : Table(f, m - 1)
      BY <2>1
    <2> DEFINE g == [k \in 0..m |-> IF k = m THEN 2 * f[m - 1] ELSE f[k]]
    <2>3. ASSUME NEW k \in 0..m
          PROVE  g[k] = IF k = 0 THEN 1 ELSE 2 * g[k - 1]
      <3>1. CASE k = m
        <4>1. g[m - 1] = f[m - 1]
          BY <2>1
        <4> QED
          BY <1>4, <3>1, <4>1
      <3>2. CASE k # m
        <4>1. k \in 0..(m - 1)
          BY <3>2, <2>1
        <4>2. f[k] = IF k = 0 THEN 1 ELSE 2 * f[k - 1]
          BY <2>2, <4>1
        <4>3. g[k] = f[k] /\ (k # 0 => g[k - 1] = f[k - 1])
          BY <3>2, <4>1, <2>1
        <4> QED
          BY <4>2, <4>3
      <3> QED
        BY <3>1, <3>2
    <2>4. Table(g, m)
      <3>1. g = [k \in 0..m |-> g[k]]
        OBVIOUS
      <3> HIDE DEF g
      <3> QED
        BY <2>3, <3>1
    <2> QED
      BY <1>2, <2>4
  <1> QED
    BY <1>3, <1>4

(* What is shifted is at least one.                                        *)
LEMMA DoubledIsPositive == \A k \in 0..MaxShift : Doubled[k] \in Nat \ {0}
  <1> USE ClientAssumption
  <1>1. Doubled = [k \in 0..MaxShift |-> IF k = 0 THEN 1 ELSE 2 * Doubled[k - 1]]
    <2>1. \E f : f = [k \in 0..MaxShift |-> IF k = 0 THEN 1 ELSE 2 * f[k - 1]]
      BY DoublingsExist
    <2> QED
      BY <2>1 DEF Doubled
  <1> DEFINE Bad == {k \in 0..MaxShift : Doubled[k] \notin Nat \ {0}}
  <1>2. SUFFICES ASSUME Bad # {} PROVE FALSE
    OBVIOUS
  <1>3. Bad \in SUBSET Nat
    OBVIOUS
  <1>4. PICK k \in Bad : \A n \in Bad : k =< n
    BY <1>2, <1>3, LeastNumber
  <1>5. Doubled[k] = IF k = 0 THEN 1 ELSE 2 * Doubled[k - 1]
    BY <1>1, <1>4
  <1>6. k # 0 /\ k - 1 \in 0..MaxShift /\ k - 1 \notin Bad
    BY <1>4, <1>5
  <1>7. Doubled[k - 1] \in Nat \ {0}
    BY <1>6
  <1> QED
    BY <1>4, <1>5, <1>6, <1>7

(* No attempt waits less than the configured delay, or longer than the     *)
(* type can hold.                                                          *)
LEMMA BackoffIsBounded ==
    ASSUME NEW n \in Nat
    PROVE  Backoff(n) \in Nat /\ RetryDelay <= Backoff(n) /\ Backoff(n) <= MaxDuration
  <1> USE ClientAssumption
  <1> DEFINE f == Factor(n)
  <1>1. f \in Nat \ {0}
    BY DoubledIsPositive DEF Factor
  <1>2. Backoff(n) = IF RetryDelay > MaxDuration \div f THEN RetryDelay ELSE RetryDelay * f
    BY DEF Backoff
  <1> HIDE DEF f
  <1>3. RetryDelay <= MaxDuration \div f => RetryDelay * f <= MaxDuration
    BY <1>1
  <1>4. RetryDelay * f \in Nat /\ RetryDelay <= RetryDelay * f
    BY <1>1
  <1>5. MaxDuration \div f \in Int
    BY <1>1
  <1>6. CASE RetryDelay > MaxDuration \div f
    BY <1>2, <1>6
  <1>7. CASE RetryDelay <= MaxDuration \div f
    BY <1>2, <1>3, <1>4, <1>5, <1>7
  <1> QED
    BY <1>5, <1>6, <1>7

(* A call between its start and its end: the shared options are untouched, *)
(* the payload is the request of this round, an attempt that sleeps owes   *)
(* another one, and what was read is a reply.                              *)
CallsAreWhole ==
    /\ options = Options
    /\ payload = {} \/ payload = Request(wanted)
    /\ clientAt = "sleep" => attempt < Retries /\ wake \in Nat
    /\ clientAt = "read" => seen \in Replies
    /\ clientAt = "done" => code \in {"timeout", "cancelled", "transport", "http",
                                      "provider", "malformed_response", "ok"}

ClientInv == ClientTypeOK /\ CallsAreWhole /\ OutcomeIsTrue /\ DelayIsSane

(* The delay before a retry, whoever names it, is in range.                *)
LEMMA RetrySleepsSanely ==
    ASSUME ClientInv, NEW header \in BOOLEAN, Retry(header),
           seen' = "transport" => ~header
    PROVE  /\ attempt < Retries /\ wake' \in Nat /\ wake' - elapsed <= MaxDuration
           /\ seen' = "transport" => wake' >= RetryDelay
  <1> USE ClientAssumption DEF ClientInv, ClientTypeOK
  <1>1. PICK d \in Delays(attempt, header) : wake' = elapsed + d
    BY DEF Retry
  <1>2. attempt < Retries
    BY DEF Retry, MaxAttempts
  <1>3. d = Backoff(attempt) \/ (header /\ d \in RetryAfter /\ d <= MaxDuration)
    BY <1>1 DEF Delays
  <1>4. Backoff(attempt) \in Nat /\ RetryDelay <= Backoff(attempt)
        /\ Backoff(attempt) <= MaxDuration
    BY BackoffIsBounded
  <1>5. d \in Nat /\ d <= MaxDuration /\ (~header => d >= RetryDelay)
    BY <1>3, <1>4
  <1>6. elapsed \in Nat
    OBVIOUS
  <1> HIDE DEF ClientInv, ClientTypeOK
  <1> QED
    BY <1>1, <1>2, <1>5, <1>6

(* A retry leaves the call whole.                                          *)
LEMMA RetryKeepsClient ==
    ASSUME ClientInv, NEW header \in BOOLEAN, Retry(header),
           seen' = "transport" => ~header
    PROVE  ClientInv'
  <1>1. /\ attempt < Retries /\ wake' \in Nat /\ wake' - elapsed <= MaxDuration
        /\ seen' = "transport" => wake' >= RetryDelay
    BY RetrySleepsSanely
  <1>2. /\ clientAt' = "sleep"
        /\ UNCHANGED <<options, wanted, payload, attempt, elapsed, parentEnd, code, served>>
    BY DEF Retry
  <1>3. ClientTypeOK'
    BY <1>2 DEF ClientInv, ClientTypeOK
  <1>4. CallsAreWhole' /\ OutcomeIsTrue'
    BY <1>1, <1>2 DEF ClientInv, CallsAreWhole, OutcomeIsTrue, Request
  <1>5. DelayIsSane'
    BY <1>1, <1>2 DEF DelayIsSane
  <1> QED
    BY <1>3, <1>4, <1>5 DEF ClientInv

(* The end of a call is true when its code is.                             *)
LEMMA FinishKeepsClient ==
    ASSUME ClientInv, NEW c, Finish(c),
           c \in {"timeout", "cancelled", "transport", "http", "provider",
                  "malformed_response", "ok"},
           c = "timeout" => parentEnd = "deadline" \/ elapsed >= Timeout,
           c = "cancelled" => parentEnd = "cancelled",
           c = "transport" => seen' = "transport" /\ attempt = Retries,
           c = "http" => seen' = "refusal" \/ (seen' = "transient" /\ attempt = Retries),
           c = "ok" => seen' = "completion",
           c \in {"provider", "malformed_response"} => seen' \in {"malformed", "envelope"}
    PROVE  ClientInv'
  <1>1. /\ clientAt' = "done" /\ code' = c
        /\ UNCHANGED <<options, wanted, payload, attempt, elapsed, wake, parentEnd, served>>
    BY DEF Finish
  <1>2. ClientTypeOK' /\ CallsAreWhole' /\ DelayIsSane'
    BY <1>1 DEF ClientInv, ClientTypeOK, CallsAreWhole, DelayIsSane, Request
  <1>3. OutcomeIsTrue'
    BY <1>1 DEF OutcomeIsTrue
  <1> QED
    BY <1>2, <1>3 DEF ClientInv

(* A call whose context has ended reports how.                             *)
LEMMA ContextEndKeepsClient ==
    ASSUME ClientInv, NEW c \in ContextCodes, Finish(c)
    PROVE  ClientInv'
  <1>1. /\ c \in {"timeout", "cancelled"}
        /\ c = "timeout" => parentEnd = "deadline" \/ elapsed >= Timeout
        /\ c = "cancelled" => parentEnd = "cancelled"
    BY DEF ContextCodes
  <1> QED
    BY <1>1, FinishKeepsClient

LEMMA ClientStep ==
    ASSUME ClientInv, [ClientNext]_clientVars
    PROVE  ClientInv'
  <1> USE ClientAssumption
  <1> USE DEF ClientInv
  <1>1. CASE Complete
    <2>1. options' = Options
      BY <1>1 DEF Complete, Filled, CallsAreWhole
    <2>2. ClientTypeOK'
      BY <1>1 DEF Complete, ClientTypeOK
    <2>3. payload' = Request(wanted)'
      BY <1>1, <2>1 DEF Complete, Request, CallsAreWhole
    <2> QED
      BY <1>1, <2>1, <2>2, <2>3
      DEF Complete, CallsAreWhole, OutcomeIsTrue, DelayIsSane
  <1>2. CASE SendRequest
    <2>1. CASE OperationOver
      BY <1>2, <2>1, ContextEndKeepsClient DEF SendRequest
    <2>2. CASE ~OperationOver
      BY <1>2, <2>2
      DEF SendRequest, ClientTypeOK, CallsAreWhole, OutcomeIsTrue, DelayIsSane, Request
    <2> QED
      BY <2>1, <2>2
  <1>3. CASE DoFails
    <2>1. CASE OperationOver
      BY <1>3, <2>1, ContextEndKeepsClient DEF DoFails
    <2>2. CASE ~OperationOver
      <3>1. seen' = "transport"
        BY <1>3, <2>2 DEF DoFails
      <3>2. CASE Retry(FALSE)
        BY <3>1, <3>2, RetryKeepsClient
      <3>3. CASE attempt + 1 = MaxAttempts /\ Finish("transport")
        <4>1. attempt = Retries
          BY <3>3 DEF MaxAttempts, ClientTypeOK
        <4> QED
          BY <3>1, <3>3, <4>1, FinishKeepsClient
      <3> QED
        BY <1>3, <2>2, <3>2, <3>3 DEF DoFails
    <2> QED
      BY <2>1, <2>2
  <1>4. CASE Responds
    BY <1>4
    DEF Responds, ClientTypeOK, CallsAreWhole, OutcomeIsTrue, DelayIsSane, Request
  <1>5. CASE BodyFails
    <2>1. seen' = "transport"
      BY <1>5 DEF BodyFails
    <2>2. CASE Retry(FALSE)
      BY <2>1, <2>2, RetryKeepsClient
    <2>3. CASE attempt + 1 = MaxAttempts /\ Finish("transport")
      <3>1. attempt = Retries
        BY <2>3 DEF MaxAttempts, ClientTypeOK
      <3> QED
        BY <2>1, <2>3, <3>1, FinishKeepsClient
    <2> QED
      BY <1>5, <2>2, <2>3 DEF BodyFails
  <1>6. CASE Conclude
    <2>1. seen \in Replies /\ seen' = seen
      BY <1>6 DEF Conclude, CallsAreWhole
    <2>2. CASE Retryable(seen) /\ Retry(TRUE)
      <3>1. seen' = "transient"
        BY <2>1, <2>2 DEF Retryable
      <3> QED
        BY <2>2, <3>1, RetryKeepsClient
    <2>3. CASE ~(Retryable(seen) /\ attempt + 1 < MaxAttempts) /\ Finish(Verdict(seen))
      <3>1. seen = "transient" => attempt = Retries
        BY <2>3 DEF Retryable, MaxAttempts, ClientTypeOK
      <3>2. /\ Verdict(seen) \in {"http", "provider", "malformed_response", "ok"}
            /\ Verdict(seen) = "http" => seen \in {"transient", "refusal"}
            /\ Verdict(seen) = "ok" => seen = "completion"
            /\ Verdict(seen) \in {"provider", "malformed_response"}
               => seen \in {"malformed", "envelope"}
        BY <2>1 DEF Verdict, Replies
      <3> QED
        BY <2>1, <2>3, <3>1, <3>2, FinishKeepsClient
    <2> QED
      BY <1>6, <2>2, <2>3 DEF Conclude
  <1>7. CASE Wakes
    <2>1. CASE OperationOver /\ \E c \in ContextCodes : Finish(c)
      BY <2>1, ContextEndKeepsClient
    <2>2. CASE ~(OperationOver /\ \E c \in ContextCodes : Finish(c))
      BY <1>7, <2>2
      DEF Wakes, ClientTypeOK, CallsAreWhole, OutcomeIsTrue, DelayIsSane, Request
    <2> QED
      BY <2>1, <2>2
  <1>8. CASE Tick
    BY <1>8 DEF Tick, ClientTypeOK, CallsAreWhole, OutcomeIsTrue, DelayIsSane, Request
  <1>9. CASE CallerEnds
    BY <1>9
    DEF CallerEnds, ClientTypeOK, CallsAreWhole, OutcomeIsTrue, DelayIsSane, Request
  <1>10. CASE UNCHANGED clientVars
    BY <1>10
    DEF clientVars, ClientTypeOK, CallsAreWhole, OutcomeIsTrue, DelayIsSane, Request
  <1> QED
    BY <1>1, <1>2, <1>3, <1>4, <1>5, <1>6, <1>7, <1>8, <1>9, <1>10 DEF ClientNext, Step

(* What a round sends is its own when the shared options are untouched.    *)
LEMMA WholeCallsAreTheirOwn == ASSUME ClientInv PROVE RoundIsItsOwn
  BY ClientAssumption
  DEF ClientInv, CallsAreWhole, RoundIsItsOwn, Request, RoundFields, LocalFields

(* For any number of retries, any delays, options and calls, Complete      *)
(* reports what ended it, waits a delay that is in range, and sends what   *)
(* its own round asks for.                                                 *)
THEOREM ClientTellsTheTruth == ClientSpec => []ClientIsTrue
  <1>1. ClientInit => ClientInv
    BY ClientAssumption
    DEF ClientInit, ClientInv, ClientTypeOK, CallsAreWhole, OutcomeIsTrue, DelayIsSane
  <1>2. ClientInv /\ [ClientNext]_clientVars => ClientInv'
    BY ClientStep
  <1>3. ClientInv => ClientIsTrue
    BY WholeCallsAreTheirOwn DEF ClientInv, ClientIsTrue
  <1> QED
    BY <1>1, <1>2, <1>3, PTL DEF ClientSpec

-----------------------------------------------------------------------------
(* The gateway of commands *)

(* The sum of a number over the one job there is.                          *)
LEMMA SumOfOneJob ==
    ASSUME NEW jobs, NEW field, DOMAIN jobs = {1}, jobs[1].result[field] \in Nat
    PROVE  MapThenSumSet(LAMBDA i : jobs[i].result[field], DOMAIN jobs) = jobs[1].result[field]
  <1> DEFINE iter[s \in SUBSET {1}] ==
               IF s = {} THEN 0
               ELSE jobs[CHOOSE x \in s : TRUE].result[field] + iter[s \ {CHOOSE x \in s : TRUE}]
  <1>1. iter = [s \in SUBSET {1} |->
                 IF s = {} THEN 0
                 ELSE jobs[CHOOSE x \in s : TRUE].result[field]
                        + iter[s \ {CHOOSE x \in s : TRUE}]]
    <2> DEFINE g == [s \in SUBSET {1} |-> IF s = {} THEN 0 ELSE jobs[1].result[field]]
    <2>1. ASSUME NEW s \in SUBSET {1}
          PROVE  g[s] = IF s = {} THEN 0
                        ELSE jobs[CHOOSE x \in s : TRUE].result[field]
                               + g[s \ {CHOOSE x \in s : TRUE}]
      <3>1. CASE s = {}
        BY <3>1
      <3>2. CASE s # {}
        <4>1. s = {1} /\ (CHOOSE x \in s : TRUE) = 1 /\ s \ {1} = {}
          BY <3>2
        <4> QED
          BY <4>1
      <3> QED
        BY <3>1, <3>2
    <2>2. g = [s \in SUBSET {1} |-> g[s]]
      OBVIOUS
    <2> HIDE DEF g
    <2>3. g = [s \in SUBSET {1} |->
                 IF s = {} THEN 0
                 ELSE jobs[CHOOSE x \in s : TRUE].result[field]
                        + g[s \ {CHOOSE x \in s : TRUE}]]
      BY <2>1, <2>2
    <2> QED
      BY <2>3
  <1>2. /\ (CHOOSE x \in {1} : TRUE) = 1 /\ {1} \ {1} = {}
        /\ {} \in SUBSET {1} /\ {1} \in SUBSET {1} /\ {1} # {}
    OBVIOUS
  <1>3. iter[{}] = 0 /\ iter[{1}] = jobs[1].result[field] + iter[{}]
    BY <1>1, <1>2
  <1>4. MapThenSumSet(LAMBDA i : jobs[i].result[field], DOMAIN jobs) = iter[{1}]
    BY DEF MapThenSumSet, MapThenFoldSet
  <1> QED
    BY <1>3, <1>4

(* At most one job is handed in, and what it did is all that a handler did *)
(* beyond what was recorded of it.                                         *)
Statuses == {"SUCCEEDED", "REJECTED", "NOT_FOUND", "AMBIGUOUS", "UNKNOWN"}
Shows == {"none", "public", "private", "notice"}
Executions == [status : Statuses \cup {"none"}, err : Errors, actions : Nat,
               deliveries : Nat, data : Shows, observed : BOOLEAN]

JobActions == IF snapshotCompletions = <<>> THEN 0 ELSE snapshotCompletions[1].result.actions
NoJobPends == \A i \in DOMAIN snapshotCompletions : snapshotCompletions[i].result # Pending

Counts ==
    /\ operations \in Nat /\ deliveryCount \in Nat /\ actionCount \in Nat
    /\ mutations \in Nat /\ landed \in Nat

GatewayTypes ==
    /\ Counts
    /\ stage \in {"idle", "tool", "gateway", "handler", "audit", "settle", "await", "mapped",
                  "answered"}
    /\ over \in BOOLEAN /\ lease \in BOOLEAN /\ dataObserved \in BOOLEAN /\ failing \in BOOLEAN
    /\ data \in Shows
    /\ snapshotCompletions = <<>> \/ \E j \in Jobs : snapshotCompletions = <<j>>
    /\ callEnding \in Endings \cup {NoEnding}
    /\ execution \in Executions

NothingBegan ==
    stage \in {"idle", "tool", "gateway"} =>
        /\ landed = 0 /\ operations = 0 /\ actionCount = 0 /\ mutations = 0 /\ ~failing
        /\ snapshotCompletions = <<>> /\ messages = {} /\ data = "none" /\ ~lease

HandlerHasNoJob == stage = "handler" => snapshotCompletions = <<>>

(* Before the jobs are counted, the difference between what landed and     *)
(* what was recorded is the job's, unless an operation failed in part.     *)
EffectsAreRecorded ==
    stage \in {"handler", "audit", "settle"} =>
        /\ ~failing => landed = actionCount + mutations + JobActions
        /\ operations = 0 => landed = 0 /\ snapshotCompletions = <<>>

FailureIsReported ==
    stage \in {"audit", "settle"} =>
        /\ failing => callEnding.err = "other" /\ snapshotCompletions = <<>>
        /\ callEnding.err \in {"notAdmitted", "cancelled"} => operations = 0
        /\ callEnding \in Endings

JobsAreCounted ==
    stage = "await" =>
        snapshotCompletions # <<>> /\ NoJobPends /\ landed = actionCount + mutations

ExecutionIsWhole ==
    stage = "mapped" =>
        /\ execution.status \in Statuses
        /\ execution.status # "UNKNOWN" => NoJobPends /\ landed = execution.actions
        /\ execution.status = "SUCCEEDED" =>
              \A i \in DOMAIN snapshotCompletions :
                  /\ snapshotCompletions[i].result.outcome = "success"
                  /\ ~snapshotCompletions[i].result.unknown

UnknownLeavesWork ==
    stage = "answered" =>
        /\ answer.effect # "unknown" => NoJobPends
        /\ answer.code = "ok" => answer.effect = "committed"

GatewayInv ==
    /\ GatewayTypes /\ NothingBegan /\ HandlerHasNoJob /\ EffectsAreRecorded
    /\ FailureIsReported /\ JobsAreCounted /\ ExecutionIsWhole /\ UnknownLeavesWork
    /\ EffectsAreTold /\ SuccessIsBacked /\ ScopeIsKept

LEMMA PendingIsAJobResult ==
    ASSUME NEW j \in Jobs
    PROVE  /\ j.result.actions \in Nat /\ j.result.deliveries \in Nat
           /\ j.result.unknown \in BOOLEAN /\ j.result.observed \in BOOLEAN
  <1>1. j.result \in Receipts \/ j.result = Pending
    BY DEF Jobs
  <1>2. CASE j.result \in Receipts
    BY <1>2, CommandsAssumption
  <1>3. CASE j.result = Pending
    BY <1>3 DEF Pending
  <1> QED
    BY <1>1, <1>2, <1>3

LEMMA GatewayInvInit == ASSUME GatewayInit PROVE GatewayInv
  <1>1. execution \in Executions
    BY DEF GatewayInit, Execution, Executions, Errors, Shows
  <1>2. GatewayTypes
    BY <1>1 DEF GatewayInit, GatewayTypes, Counts, Shows
  <1>3. ScopeIsKept
    BY DEF GatewayInit, ScopeIsKept
  <1> QED
    BY <1>2, <1>3
    DEF GatewayInit, GatewayInv, NothingBegan, HandlerHasNoJob, EffectsAreRecorded,
        FailureIsReported, JobsAreCounted, ExecutionIsWhole, UnknownLeavesWork,
        EffectsAreTold, SuccessIsBacked

(* Answering before anything was done.                                     *)
LEMMA RefusalKeepsGateway ==
    ASSUME GatewayInv, stage = "tool", NEW reason, reason # "ok",
           AnswerWith(Result(reason, "notStarted"))
    PROVE  GatewayInv'
  BY DEF AnswerWith, Result, recordVars, GatewayInv, GatewayTypes, Counts, NothingBegan,
     HandlerHasNoJob, EffectsAreRecorded, FailureIsReported, JobsAreCounted,
     ExecutionIsWhole, UnknownLeavesWork, EffectsAreTold, SuccessIsBacked, ScopeIsKept,
     NoJobPends

LEMMA InvokeKeepsGateway == ASSUME GatewayInv, Invoke PROVE GatewayInv'
  <1>1. /\ stage = "idle" /\ stage' = "tool"
        /\ UNCHANGED <<over, lease, operations, failing, recordVars, snapshotCompletions,
                       callEnding, execution, answer, landed>>
    BY DEF Invoke
  <1>2. messages' = {} /\ data' = "none" /\ ~lease'
    BY <1>1 DEF GatewayInv, NothingBegan, recordVars
  <1>3. GatewayTypes' /\ NothingBegan'
    BY <1>1 DEF GatewayInv, GatewayTypes, Counts, NothingBegan, recordVars
  <1>4. ScopeIsKept'
    BY <1>2 DEF ScopeIsKept
  <1> QED
    BY <1>1, <1>3, <1>4
    DEF GatewayInv, HandlerHasNoJob, EffectsAreRecorded, FailureIsReported, JobsAreCounted,
        ExecutionIsWhole, UnknownLeavesWork, EffectsAreTold, SuccessIsBacked

(* A step that only moves on, or ends the context.                         *)
LEMMA ContextKeepsGateway == ASSUME GatewayInv, ContextEnds PROVE GatewayInv'
  BY DEF ContextEnds, recordVars, GatewayInv, GatewayTypes, Counts, NothingBegan, HandlerHasNoJob,
     EffectsAreRecorded, FailureIsReported, JobsAreCounted, ExecutionIsWhole,
     UnknownLeavesWork, EffectsAreTold, SuccessIsBacked, ScopeIsKept, NoJobPends, JobActions

LEMMA AdmissionKeepsGateway ==
    ASSUME GatewayInv, ToolAdmits \/ GatewayAdmits
    PROVE  GatewayInv'
  <1>1. CASE ToolAdmits
    BY <1>1
    DEF ToolAdmits, recordVars, GatewayInv, GatewayTypes, Counts, NothingBegan, HandlerHasNoJob,
        EffectsAreRecorded, FailureIsReported, JobsAreCounted, ExecutionIsWhole,
        UnknownLeavesWork, EffectsAreTold, SuccessIsBacked, ScopeIsKept
  <1>2. CASE GatewayAdmits
    <2>1. ScopeIsKept'
      BY <1>2
      DEF GatewayAdmits, recordVars, GatewayInv, ScopeIsKept, Authorized, TargetAllowed
    <2>2. GatewayTypes' /\ HandlerHasNoJob' /\ EffectsAreRecorded'
      BY <1>2
      DEF GatewayAdmits, recordVars, GatewayInv, GatewayTypes, Counts, NothingBegan,
          HandlerHasNoJob, EffectsAreRecorded, JobActions
    <2> QED
      BY <1>2, <2>1, <2>2
      DEF GatewayAdmits, GatewayInv, NothingBegan, FailureIsReported, JobsAreCounted,
          ExecutionIsWhole, UnknownLeavesWork, EffectsAreTold, SuccessIsBacked
  <1> QED
    BY <1>1, <1>2

(* An execution that is returned says what was recorded.                   *)
LEMMA ExecutionKeepsGateway ==
    ASSUME GatewayInv, NEW status \in Statuses, NEW err \in Errors,
           ReturnExecution(Execution(status, err)),
           status # "UNKNOWN" => NoJobPends /\ landed = actionCount + mutations,
           status = "SUCCEEDED" =>
              \A i \in DOMAIN snapshotCompletions :
                  /\ snapshotCompletions[i].result.outcome = "success"
                  /\ ~snapshotCompletions[i].result.unknown
    PROVE  GatewayInv'
  <1>1. /\ stage' = "mapped" /\ execution' = Execution(status, err) /\ lease' = FALSE
        /\ UNCHANGED <<call, over, operations, failing, recordVars, snapshotCompletions,
                       callEnding, answer, landed>>
    BY DEF ReturnExecution
  <1>2. /\ Execution(status, err) \in Executions
        /\ Execution(status, err).status = status
        /\ Execution(status, err).actions = actionCount + mutations
    BY DEF GatewayInv, GatewayTypes, Counts, Execution, Executions, Shows
  <1>3. GatewayTypes'
    BY <1>1, <1>2 DEF GatewayInv, GatewayTypes, Counts, recordVars
  <1>4. ExecutionIsWhole' /\ ScopeIsKept'
    BY <1>1, <1>2 DEF ExecutionIsWhole, NoJobPends, GatewayInv, ScopeIsKept, recordVars
  <1> QED
    BY <1>1, <1>3, <1>4
    DEF GatewayInv, NothingBegan, HandlerHasNoJob, EffectsAreRecorded, FailureIsReported,
        JobsAreCounted, UnknownLeavesWork, EffectsAreTold, SuccessIsBacked

(* What is shown of something private depends on who asked.                *)
LEMMA ShownIsScoped ==
    ASSUME NEW private \in BOOLEAN
    PROVE  Shown(private) \in Shows /\ (~call.whisper => Shown(private) # "private")
  BY DEF Shown, Shows

(* A step of the handler records what it did, or fails.                    *)
LEMMA OperationKeepsGateway ==
    ASSUME GatewayInv, Operation, stage' = "handler",
           UNCHANGED <<call, over, lease, snapshotCompletions, callEnding, execution, answer>>,
           deliveryCount' \in Nat, actionCount' \in Nat, mutations' \in Nat, landed' \in Nat,
           data' \in Shows, dataObserved' \in BOOLEAN, failing' \in BOOLEAN,
           ~failing' => landed' = actionCount' + mutations',
           ~call.whisper => "private" \notin messages' \cup {data'}
    PROVE  GatewayInv'
  <1>1. stage = "handler" /\ operations' = operations + 1
    BY DEF Operation
  <1>2. GatewayTypes'
    BY <1>1 DEF GatewayInv, GatewayTypes, Counts
  <1>3. EffectsAreRecorded'
    <2>3. JobActions' = 0
      BY <1>1 DEF GatewayInv, HandlerHasNoJob, JobActions
    <2>4. operations' # 0
      BY <1>1 DEF GatewayInv, GatewayTypes, Counts
    <2>5. stage' = "handler" /\ snapshotCompletions' = <<>>
      BY <1>1 DEF GatewayInv, HandlerHasNoJob
    <2>6. ~failing' => landed' = actionCount' + mutations' + JobActions'
      BY <2>3
    <2> QED
      BY <2>4, <2>5, <2>6 DEF EffectsAreRecorded
  <1>4. ScopeIsKept' /\ HandlerHasNoJob'
    BY <1>1 DEF GatewayInv, ScopeIsKept, HandlerHasNoJob
  <1> QED
    BY <1>2, <1>3, <1>4
    DEF GatewayInv, NothingBegan, FailureIsReported, JobsAreCounted, ExecutionIsWhole,
        UnknownLeavesWork, EffectsAreTold, SuccessIsBacked

LEMMA HandlerKeepsGateway ==
    ASSUME GatewayInv, Reply \/ Act \/ Commit \/ ObserveCommandData
    PROVE  GatewayInv'
  <1> USE DEF GatewayInv, GatewayTypes, Counts
  <1>0. ~call.whisper => "private" \notin messages \cup {data}
    BY DEF ScopeIsKept
  <1>5. /\ ~failing => landed = actionCount + mutations
         /\ landed \in Nat /\ actionCount \in Nat /\ mutations \in Nat /\ deliveryCount \in Nat
    BY DEF EffectsAreRecorded, HandlerHasNoJob, JobActions, Reply, Act, Commit,
       ObserveCommandData, Operation
  <1>1. CASE Reply
    <2>1. PICK private \in BOOLEAN, sent \in BOOLEAN :
            /\ deliveryCount' = deliveryCount + (IF sent THEN 1 ELSE 0)
            /\ actionCount' = actionCount + (IF sent THEN 1 ELSE 0)
            /\ landed' = landed + (IF sent THEN 1 ELSE 0)
            /\ messages' = messages \cup (IF sent THEN {Shown(private)} ELSE {})
      BY <1>1 DEF Reply
    <2>2. ~call.whisper => "private" \notin messages' \cup {data'}
      BY <1>0, <1>1, <2>1, ShownIsScoped DEF Reply
    <2> QED
      BY <1>5, <1>1, <2>1, <2>2, OperationKeepsGateway DEF Reply, Operation
  <1>2. CASE Act
    <2>1. PICK done \in BOOLEAN, effect \in 0..1 :
            /\ done => effect = 1
            /\ actionCount' = actionCount + (IF done THEN 1 ELSE 0)
            /\ landed' = landed + effect
            /\ failing' = (failing \/ ~done)
      BY <1>2 DEF Act
    <2>2. /\ Operation /\ stage' = "handler" /\ mutations' = mutations
          /\ UNCHANGED <<call, over, lease, deliveryCount, messages, data, dataObserved,
                         snapshotCompletions, callEnding, execution, answer>>
      BY <1>2 DEF Act, Operation
    <2>3. /\ actionCount' \in Nat /\ landed' \in Nat /\ failing' \in BOOLEAN
          /\ deliveryCount' \in Nat /\ mutations' \in Nat
          /\ data' \in Shows /\ dataObserved' \in BOOLEAN
      BY <2>1, <2>2 DEF Counts
    <2>4. ~failing' => landed' = actionCount' + mutations'
      <3>1. ~failing' => ~failing /\ done
        BY <2>1, Zenon
      <3>2. done => actionCount' = actionCount + 1 /\ landed' = landed + 1
        BY <2>1
      <3>3. ASSUME ~failing, done PROVE landed' = actionCount' + mutations'
        BY <1>5, <2>2, <3>2, <3>3
      <3> QED
        BY <3>1, <3>3, Zenon
    <2> QED
      BY <1>0, <2>2, <2>3, <2>4, OperationKeepsGateway
  <1>3. CASE Commit
    <2>1. /\ Operation /\ stage' = "handler"
          /\ mutations' = mutations + 1 /\ landed' = landed + 1
          /\ UNCHANGED <<call, over, lease, failing, deliveryCount, actionCount, messages,
                         data, dataObserved, snapshotCompletions, callEnding, execution,
                         answer>>
      BY <1>3 DEF Commit, Operation
    <2> QED
      BY <1>0, <1>5, <2>1, OperationKeepsGateway
  <1>4. CASE ObserveCommandData
    <2>1. PICK private \in BOOLEAN :
            IF private /\ ~call.whisper
            THEN UNCHANGED <<data, dataObserved>>
            ELSE data' = Shown(private) /\ dataObserved' = TRUE
      BY <1>4 DEF ObserveCommandData
    <2>2. /\ ~call.whisper => "private" \notin messages' \cup {data'}
          /\ data' \in Shows /\ dataObserved' \in BOOLEAN
      BY <1>0, <1>4, <2>1, ShownIsScoped DEF ObserveCommandData
    <2> QED
      BY <1>5, <1>4, <2>2, OperationKeepsGateway DEF ObserveCommandData, Operation
  <1> QED
    BY <1>1, <1>2, <1>3, <1>4

(* A job is handed in, or refused, with what it did so far.                *)
LEMMA SubmissionKeepsGateway == ASSUME GatewayInv, SubmitSnapshot PROVE GatewayInv'
  <1> USE DEF GatewayInv
  <1>1. /\ stage = "handler" /\ stage' = "audit" /\ operations' = operations + 1
        /\ ~failing /\ snapshotCompletions = <<>>
        /\ UNCHANGED <<call, over, lease, failing, recordVars, execution, answer>>
    BY DEF SubmitSnapshot, Operation, HandlerHasNoJob
  <1>2. callEnding' \in Endings /\ callEnding'.err \in {"none", "other"}
    <2>1. \/ callEnding' = [status |-> "successful", err |-> "none"]
          \/ callEnding' = [status |-> "failed", err |-> "other"]
      BY DEF SubmitSnapshot, Submitted
    <2> QED
      BY <2>1 DEF Endings, Errors
  <1>3. /\ snapshotCompletions' = <<>> \/ \E j \in Jobs : snapshotCompletions' = <<j>>
        /\ landed' = landed + JobActions' /\ landed' \in Nat
    <2>1. PICK private \in BOOLEAN :
          \/ /\ Submitted(<<[private |-> private, result |-> Pending]>>, "successful", "none")
             /\ UNCHANGED landed
          \/ Submitted(<<>>, "failed", "other") /\ UNCHANGED landed
          \/ \E result \in Receipts :
                /\ Submitted(<<[private |-> private, result |-> result]>>, "failed", "other")
                /\ landed' = landed + result.actions
      BY DEF SubmitSnapshot
    <2>2. landed \in Nat
      BY DEF GatewayTypes, Counts
    <2>3. CASE /\ Submitted(<<[private |-> private, result |-> Pending]>>, "successful", "none")
               /\ UNCHANGED landed
      <3>1. snapshotCompletions' = <<[private |-> private, result |-> Pending]>>
        BY <1>1, <2>3 DEF Submitted
      <3>2. [private |-> private, result |-> Pending] \in Jobs
        BY DEF Jobs
      <3> QED
        BY <2>2, <2>3, <3>1, <3>2 DEF JobActions, Pending
    <2>4. CASE Submitted(<<>>, "failed", "other") /\ UNCHANGED landed
      BY <1>1, <2>2, <2>4 DEF Submitted, JobActions
    <2>5. ASSUME NEW result \in Receipts,
                 Submitted(<<[private |-> private, result |-> result]>>, "failed", "other"),
                 landed' = landed + result.actions
          PROVE  <1>3!:
      <3>1. snapshotCompletions' = <<[private |-> private, result |-> result]>>
        BY <1>1, <2>5 DEF Submitted
      <3>2. [private |-> private, result |-> result] \in Jobs
        BY DEF Jobs
      <3>3. result.actions \in Nat
        BY <3>2, PendingIsAJobResult
      <3> QED
        BY <2>2, <2>5, <3>1, <3>2, <3>3 DEF JobActions
    <2> QED
      BY <2>1, <2>3, <2>4, <2>5
  <1>4. GatewayTypes'
    BY <1>1, <1>2, <1>3 DEF GatewayTypes, Counts, recordVars
  <1>5. EffectsAreRecorded'
    <2>1. landed = actionCount + mutations
      BY <1>1 DEF EffectsAreRecorded, JobActions, GatewayTypes, Counts
    <2>2. operations' # 0
      BY <1>1 DEF GatewayTypes, Counts
    <2> QED
      BY <1>1, <1>3, <2>1, <2>2 DEF EffectsAreRecorded, recordVars
  <1>6. FailureIsReported' /\ ScopeIsKept'
    BY <1>1, <1>2 DEF FailureIsReported, ScopeIsKept, recordVars
  <1> QED
    BY <1>1, <1>4, <1>5, <1>6
    DEF NothingBegan, HandlerHasNoJob, JobsAreCounted, ExecutionIsWhole, UnknownLeavesWork,
        EffectsAreTold, SuccessIsBacked

(* A job that completes: only work that is not yet counted, or that an     *)
(* unknown outcome left behind.                                            *)
LEMMA JobKeepsGateway == ASSUME GatewayInv, JobCompletes PROVE GatewayInv'
  <1> USE DEF GatewayInv
  <1>1. PICK i \in DOMAIN snapshotCompletions, result \in Receipts :
          /\ snapshotCompletions[i].result = Pending
          /\ snapshotCompletions' = [snapshotCompletions EXCEPT ![i].result = result]
          /\ landed' = landed + result.actions
    BY DEF JobCompletes
  <1>2. UNCHANGED <<stage, call, over, lease, operations, failing, recordVars, callEnding,
                    execution, answer>>
    BY DEF JobCompletes
  <1>3. PICK j \in Jobs : snapshotCompletions = <<j>>
    BY <1>1 DEF GatewayTypes, Counts
  <1>4. i = 1 /\ j.result = Pending
    BY <1>1, <1>3
  <1>5. snapshotCompletions' = <<[j EXCEPT !.result = result]>>
    BY <1>1, <1>3, <1>4
  <1>6. [j EXCEPT !.result = result] \in Jobs /\ result.actions \in Nat
    BY CommandsAssumption DEF Jobs
  <1>7. ~NoJobPends
    BY <1>1 DEF NoJobPends
  <1>8. stage \in {"audit", "settle", "mapped", "answered"}
    BY <1>3, <1>7 DEF NothingBegan, HandlerHasNoJob, JobsAreCounted, GatewayTypes, Counts
  <1>9. GatewayTypes' /\ ScopeIsKept'
    BY <1>1, <1>2, <1>5, <1>6 DEF GatewayTypes, Counts, recordVars, ScopeIsKept
  <1>10. EffectsAreRecorded'
    <2>1. JobActions = 0 /\ JobActions' = result.actions
      BY <1>3, <1>4, <1>5, <1>6 DEF JobActions, Pending, Jobs
    <2>3. ASSUME stage \in {"audit", "settle"}
          PROVE  operations # 0
      BY <2>3, <1>3 DEF EffectsAreRecorded
    <2> QED
      BY <1>1, <1>2, <1>6, <1>8, <2>1, <2>3 DEF EffectsAreRecorded, recordVars, GatewayTypes, Counts
  <1>11. FailureIsReported'
    BY <1>2, <1>3 DEF FailureIsReported
  <1>12. EffectsAreTold' /\ SuccessIsBacked' /\ UnknownLeavesWork'
    BY <1>2, <1>7, <1>8 DEF EffectsAreTold, SuccessIsBacked, UnknownLeavesWork
  <1>13. ExecutionIsWhole'
    BY <1>2, <1>7 DEF ExecutionIsWhole, Statuses
  <1> QED
    BY <1>2, <1>8, <1>9, <1>10, <1>11, <1>12, <1>13
    DEF NothingBegan, HandlerHasNoJob, JobsAreCounted

(* The handler returns, and the audit is written.                          *)
LEMMA ReturnKeepsGateway ==
    ASSUME GatewayInv, HandlerReturns \/ Audit
    PROVE  GatewayInv'
  <1> USE DEF GatewayInv
  <1>1. CASE HandlerReturns
    <2>1. PICK end \in Endings :
            /\ failing => end.err = "other"
            /\ end.err \in {"notAdmitted", "cancelled"} => operations = 0
            /\ callEnding' = end
      BY <1>1 DEF HandlerReturns
    <2>2. /\ stage = "handler" /\ stage' = "audit"
          /\ UNCHANGED <<call, over, lease, operations, failing, recordVars,
                         snapshotCompletions, execution, answer, landed>>
      BY <1>1 DEF HandlerReturns
    <2>3. GatewayTypes' /\ FailureIsReported'
      BY <2>1, <2>2
      DEF GatewayTypes, Counts, FailureIsReported, HandlerHasNoJob, recordVars
    <2>4. EffectsAreRecorded' /\ ScopeIsKept'
      BY <2>2 DEF EffectsAreRecorded, JobActions, ScopeIsKept, recordVars
    <2> QED
      BY <2>2, <2>3, <2>4
      DEF NothingBegan, HandlerHasNoJob, JobsAreCounted, ExecutionIsWhole,
          UnknownLeavesWork, EffectsAreTold, SuccessIsBacked
  <1>2. CASE Audit
    <2>1. /\ stage = "audit" /\ stage' = "settle"
          /\ UNCHANGED <<call, over, lease, operations, failing, recordVars,
                         snapshotCompletions, callEnding, execution, answer, landed>>
      BY <1>2 DEF Audit
    <2>2. GatewayTypes' /\ FailureIsReported' /\ EffectsAreRecorded' /\ ScopeIsKept'
      BY <2>1
      DEF GatewayTypes, Counts, FailureIsReported, EffectsAreRecorded, JobActions,
          ScopeIsKept, recordVars
    <2> QED
      BY <2>1, <2>2
      DEF NothingBegan, HandlerHasNoJob, JobsAreCounted, ExecutionIsWhole,
          UnknownLeavesWork, EffectsAreTold, SuccessIsBacked
  <1> QED
    BY <1>1, <1>2

(* The jobs are counted once all have completed.                           *)
LEMMA AwaitKeepsGateway == ASSUME GatewayInv, AwaitSnapshotCompletions PROVE GatewayInv'
  <1> USE DEF GatewayInv
  <1> DEFINE jobs == snapshotCompletions
             senders == Sources(jobs)
             said == {i \in DOMAIN jobs : jobs[i].result.deliveries > 0
                                          /\ jobs[i].result.outcome # "failed"}
  <1>1. /\ stage = "settle" /\ jobs # <<>> /\ AllComplete(jobs)
        /\ actionCount' = actionCount
             + MapThenSumSet(LAMBDA i : jobs[i].result.actions, DOMAIN jobs)
        /\ deliveryCount' = deliveryCount
             + MapThenSumSet(LAMBDA i : jobs[i].result.deliveries, DOMAIN jobs)
        /\ messages' = messages \cup {Shown(jobs[i].private) : i \in said}
        /\ data' = IF senders = {} THEN data ELSE Shown(jobs[Max(senders)].private)
        /\ dataObserved' = IF senders = {} THEN dataObserved
                           ELSE jobs[Max(senders)].result.observed
        /\ stage' = "await"
    BY DEF AwaitSnapshotCompletions
  <1>2. UNCHANGED <<call, over, lease, operations, failing, mutations, snapshotCompletions,
                    callEnding, execution, answer, landed>>
    BY DEF AwaitSnapshotCompletions
  <1>3. PICK j \in Jobs : jobs = <<j>>
    BY <1>1 DEF GatewayTypes
  <1>4. DOMAIN jobs = {1} /\ jobs[1] = j /\ j.private \in BOOLEAN
        /\ \A i \in DOMAIN jobs : jobs[i] = j
    BY <1>3 DEF Jobs
  <1>5. j.result.actions \in Nat /\ j.result.deliveries \in Nat /\ j.result.observed \in BOOLEAN
    BY PendingIsAJobResult
  <1>6. actionCount' = actionCount + j.result.actions
        /\ deliveryCount' = deliveryCount + j.result.deliveries
    <2>1. jobs[1].result.actions \in Nat /\ jobs[1].result.deliveries \in Nat
      BY <1>4, <1>5
    <2>2. MapThenSumSet(LAMBDA i : jobs[i].result.actions, DOMAIN jobs) = j.result.actions
      BY <1>4, <2>1, SumOfOneJob
    <2>3. MapThenSumSet(LAMBDA i : jobs[i].result.deliveries, DOMAIN jobs)
            = j.result.deliveries
      BY <1>4, <2>1, SumOfOneJob
    <2> QED
      BY <1>1, <2>2, <2>3
  <1>7. ~failing
    BY <1>1 DEF FailureIsReported
  <1>8. landed = actionCount' + mutations'
    <2>1. landed = actionCount + mutations + j.result.actions
      BY <1>1, <1>3, <1>4, <1>7 DEF EffectsAreRecorded, JobActions
    <2> QED
      BY <1>2, <1>5, <1>6, <2>1 DEF GatewayTypes, Counts
  <1>9. NoJobPends'
    BY <1>1, <1>2 DEF AllComplete, NoJobPends
  <1>10. JobsAreCounted'
    BY <1>1, <1>2, <1>8, <1>9 DEF JobsAreCounted
  <1>11. senders # {} => Max(senders) = 1
    <2>1. senders \subseteq {1}
      BY <1>4 DEF Sources
    <2>2. Max({1}) = 1
      BY DEF Max
    <2> HIDE DEF senders
    <2> QED
      BY <2>1, <2>2
  <1>12. data' = data \/ data' = Shown(j.private)
    BY <1>1, <1>4, <1>11
  <1>13. dataObserved' \in BOOLEAN
    <2>1. CASE senders = {}
      BY <1>1, <2>1 DEF GatewayTypes
    <2>2. CASE senders # {}
      BY <1>1, <1>4, <1>5, <1>11, <2>2
    <2> QED
      BY <2>1, <2>2
  <1>14. messages' \subseteq messages \cup {Shown(j.private)}
    BY <1>1, <1>4
  <1>15. /\ Shown(j.private) \in Shows
         /\ ~call.whisper => Shown(j.private) # "private"
    BY <1>4, ShownIsScoped
  <1> HIDE DEF jobs, senders, said
  <1>16. Counts' /\ data' \in Shows
    BY <1>2, <1>5, <1>6, <1>12, <1>15 DEF GatewayTypes, Counts
  <1>17. GatewayTypes'
    BY <1>1, <1>2, <1>13, <1>16 DEF GatewayTypes
  <1>18. ScopeIsKept'
    <2>1. ~call.whisper => "private" \notin messages' \cup {data'}
      BY <1>12, <1>14, <1>15 DEF ScopeIsKept
    <2> QED
      BY <1>2, <2>1 DEF ScopeIsKept
  <1> QED
    BY <1>1, <1>10, <1>17, <1>18
    DEF NothingBegan, HandlerHasNoJob, EffectsAreRecorded, FailureIsReported,
        ExecutionIsWhole, UnknownLeavesWork, EffectsAreTold, SuccessIsBacked

(* The status of the jobs is that of each of them when it is success.      *)
LEMMA JobsStatus ==
    ASSUME NEW jobs, DOMAIN jobs \subseteq {1}
    PROVE  /\ SnapshotStatus(jobs) \in Statuses
           /\ SnapshotStatus(jobs) = "SUCCEEDED" =>
                 \A i \in DOMAIN jobs : /\ jobs[i].result.outcome = "success"
                                        /\ ~jobs[i].result.unknown
  <1> DEFINE status(i) == JobStatus(jobs[i].result)
             short == {i \in DOMAIN jobs : status(i) # "SUCCEEDED"}
  <1>1. \A i : JobStatus(jobs[i].result) \in Statuses
    BY DEF JobStatus, Statuses
  <1>2. SnapshotStatus(jobs) = CASE \E i \in short : status(i) = "UNKNOWN" -> "UNKNOWN"
                                 [] short = {} -> "SUCCEEDED"
                                 [] OTHER -> status(Max(short))
    BY DEF SnapshotStatus
  <1>3. SnapshotStatus(jobs) \in Statuses
    BY <1>1, <1>2 DEF Statuses
  <1>4. short # {} => short = {1} /\ Max(short) = 1
    <2>1. short \subseteq {1}
      OBVIOUS
    <2>2. Max({1}) = 1
      BY DEF Max
    <2> HIDE DEF short
    <2> QED
      BY <2>1, <2>2
  <1>5. short # {} => status(Max(short)) # "SUCCEEDED"
    <2> SUFFICES ASSUME short # {} PROVE status(Max(short)) # "SUCCEEDED"
      OBVIOUS
    <2>1. Max(short) \in short
      BY <1>4
    <2> QED
      BY <2>1
  <1>6. SnapshotStatus(jobs) = "SUCCEEDED" => short = {}
    <2> HIDE DEF short
    <2> QED
      BY <1>2, <1>5
  <1>7. short = {} =>
          \A i \in DOMAIN jobs : /\ jobs[i].result.outcome = "success"
                                 /\ ~jobs[i].result.unknown
    <2> SUFFICES ASSUME short = {}, NEW i \in DOMAIN jobs
                 PROVE  jobs[i].result.outcome = "success" /\ ~jobs[i].result.unknown
      OBVIOUS
    <2>1. JobStatus(jobs[i].result) = "SUCCEEDED"
      OBVIOUS
    <2> QED
      BY <2>1 DEF JobStatus
  <1> QED
    BY <1>3, <1>6, <1>7

(* From what happened to an execution.                                     *)
LEMMA SettleKeepsGateway == ASSUME GatewayInv, Settle PROVE GatewayInv'
  <1> USE DEF GatewayInv
  <1>1. ASSUME stage = "await",
               ReturnExecution(Execution(SnapshotStatus(snapshotCompletions), "none"))
        PROVE  GatewayInv'
    <2>1. DOMAIN snapshotCompletions \subseteq {1}
      BY DEF GatewayTypes
    <2>2. /\ SnapshotStatus(snapshotCompletions) \in Statuses
          /\ SnapshotStatus(snapshotCompletions) = "SUCCEEDED" =>
                \A i \in DOMAIN snapshotCompletions :
                    /\ snapshotCompletions[i].result.outcome = "success"
                    /\ ~snapshotCompletions[i].result.unknown
      BY <2>1, JobsStatus
    <2>3. NoJobPends /\ landed = actionCount + mutations /\ "none" \in Errors
      BY <1>1 DEF JobsAreCounted, Errors
    <2> QED
      BY <1>1, <2>2, <2>3, ExecutionKeepsGateway
  <1>2. ASSUME stage = "settle", snapshotCompletions = <<>>,
               ReturnExecution(
                  IF Unadmitted /\ Untouched THEN Execution("REJECTED", callEnding.err)
                  ELSE Execution(IF over THEN "UNKNOWN" ELSE Status, "none"))
        PROVE  GatewayInv'
    <2>1. NoJobPends /\ (~failing => landed = actionCount + mutations)
      BY <1>2 DEF NoJobPends, EffectsAreRecorded, JobActions, GatewayTypes, Counts
    <2>2. callEnding.err \in Errors /\ "none" \in Errors
      BY <1>2 DEF FailureIsReported, Endings, Errors
    <2>3. \A i \in DOMAIN snapshotCompletions :
              /\ snapshotCompletions[i].result.outcome = "success"
              /\ ~snapshotCompletions[i].result.unknown
      BY <1>2
    <2>4. CASE Unadmitted /\ Untouched
      <3>1. callEnding.err # "other"
        BY <2>4 DEF Unadmitted
      <3>3. ~failing
        BY <1>2, <3>1 DEF FailureIsReported
      <3>2. ReturnExecution(Execution("REJECTED", callEnding.err))
        BY <1>2, <2>4
      <3> QED
        BY <2>1, <2>2, <3>2, <3>3, ExecutionKeepsGateway DEF Statuses
    <2>5. CASE ~(Unadmitted /\ Untouched) /\ over
      <3>1. ReturnExecution(Execution("UNKNOWN", "none"))
        BY <1>2, <2>5
      <3> QED
        BY <2>2, <3>1, ExecutionKeepsGateway DEF Statuses
    <2>6. CASE ~(Unadmitted /\ Untouched) /\ ~over
      <3>1. ReturnExecution(Execution(Status, "none"))
        BY <1>2, <2>6
      <3>2. Status \in Statuses /\ (callEnding.err = "other" => Status = "UNKNOWN")
        BY DEF Status, Statuses
      <3>3. Status # "UNKNOWN" => ~failing
        BY <1>2, <3>2 DEF FailureIsReported
      <3> QED
        BY <2>1, <2>2, <2>3, <3>1, <3>2, <3>3, ExecutionKeepsGateway
    <2> QED
      BY <2>4, <2>5, <2>6
  <1> QED
    BY <1>1, <1>2 DEF Settle

(* The answer says what the execution does.                                *)
LEMMA AnswerIsHonest ==
    ASSUME GatewayInv, stage = "mapped", NEW e, AnswerWith(CommandExecutionFailure(e)),
           e.status = execution.status, e.actions = execution.actions,
           e.deliveries = execution.deliveries
    PROVE  GatewayInv'
  <1> USE DEF GatewayInv
  <1>1. /\ stage' = "answered" /\ answer' = CommandExecutionFailure(e)
        /\ UNCHANGED <<call, over, lease, operations, failing, recordVars,
                       snapshotCompletions, callEnding, execution, landed>>
    BY DEF AnswerWith
  <1>2. /\ execution.status \in Statuses /\ execution.actions \in Nat
        /\ execution.deliveries \in Nat
        /\ execution.status # "UNKNOWN" => NoJobPends /\ landed = execution.actions
    BY DEF ExecutionIsWhole, GatewayTypes, Executions
  <1>3. /\ answer'.effect \in {"partial", "notCommitted", "unknown", "committed"}
        /\ answer'.actions = execution.actions
        /\ answer'.effect # "unknown" => execution.status # "UNKNOWN"
        /\ answer'.effect = "notCommitted" =>
              execution.actions = 0 /\ execution.status # "UNKNOWN"
        /\ answer'.code = "ok" =>
              /\ execution.status = "SUCCEEDED" /\ execution.actions # 0
              /\ answer'.effect = "committed"
              /\ execution.deliveries # 0 \/ call.command \in Silent
    <2>2. \A reason, effect : /\ Answer(e, reason, effect).code = reason
                              /\ Answer(e, reason, effect).effect = effect
                              /\ Answer(e, reason, effect).actions = e.actions
      BY DEF Answer
    <2>3. ~Touched(e) => execution.actions = 0
      BY <1>2 DEF Touched
    <2>4. CASE e.status = "UNKNOWN"
      <3>1. CommandExecutionFailure(e) = Answer(e, "unknown", "unknown")
        BY <2>4 DEF CommandExecutionFailure
      <3> QED
        BY <1>1, <2>2, <3>1
    <2>5. CASE e.status \in {"NOT_FOUND", "AMBIGUOUS", "REJECTED"}
      <3>1. PICK reason \in {"notFound", "ambiguous", "rejected"} :
              CommandExecutionFailure(e)
                = Answer(e, reason, IF Touched(e) THEN "partial" ELSE "notCommitted")
        BY <2>5 DEF CommandExecutionFailure
      <3> QED
        BY <1>1, <2>2, <2>3, <2>5, <3>1
    <2>6. CASE e.status = "SUCCEEDED"
      <3>1. CASE e.actions = 0
        <4>1. CommandExecutionFailure(e) = Answer(e, "unverifiedAction", "unknown")
          BY <2>6, <3>1 DEF CommandExecutionFailure
        <4> QED
          BY <1>1, <2>2, <2>6, <3>1, <4>1
      <3>2. CASE e.actions # 0 /\ e.deliveries = 0 /\ call.command \notin Silent
        <4>1. CommandExecutionFailure(e) = Answer(e, "unverifiedDelivery", "committed")
          BY <2>6, <3>2 DEF CommandExecutionFailure
        <4> QED
          BY <1>1, <2>2, <2>6, <3>2, <4>1
      <3>3. CASE e.actions # 0 /\ ~(e.deliveries = 0 /\ call.command \notin Silent)
        <4>1. CommandExecutionFailure(e) = Answer(e, "ok", "committed")
          BY <2>6, <3>3 DEF CommandExecutionFailure
        <4> QED
          BY <1>1, <2>2, <2>6, <3>3, <4>1
      <3> QED
        BY <3>1, <3>2, <3>3
    <2> QED
      BY <1>2, <2>4, <2>5, <2>6 DEF Statuses
  <1>4. GatewayTypes' /\ ScopeIsKept'
    BY <1>1 DEF GatewayTypes, Counts, ScopeIsKept, recordVars
  <1>5. UnknownLeavesWork'
    BY <1>1, <1>2, <1>3 DEF UnknownLeavesWork, NoJobPends
  <1>6. EffectsAreTold'
    BY <1>1, <1>2, <1>3 DEF EffectsAreTold
  <1>7. SuccessIsBacked'
    BY <1>1, <1>2, <1>3 DEF SuccessIsBacked, ExecutionIsWhole, GatewayTypes, Counts
  <1> QED
    BY <1>1, <1>4, <1>5, <1>6, <1>7
    DEF NothingBegan, HandlerHasNoJob, EffectsAreRecorded, FailureIsReported, JobsAreCounted,
        ExecutionIsWhole

LEMMA ToolKeepsGateway == ASSUME GatewayInv, ToolAnswers PROVE GatewayInv'
  <1> USE DEF GatewayInv
  <1>1. stage = "mapped"
    BY DEF ToolAnswers
  <1>2. ASSUME NotAdmitted(execution), AnswerWith(Result("cancelled", "notStarted"))
        PROVE  GatewayInv'
    <2>1. /\ stage' = "answered" /\ answer'.code = "cancelled" /\ answer'.effect = "notStarted"
          /\ UNCHANGED <<call, over, lease, operations, failing, recordVars,
                         snapshotCompletions, callEnding, execution, landed>>
      BY <1>2 DEF AnswerWith, Result
    <2>2. NoJobPends /\ landed = execution.actions
      BY <1>1, <1>2 DEF ExecutionIsWhole, NotAdmitted
    <2>3. landed = 0
      BY <1>2, <2>2 DEF NotAdmitted, Touched, GatewayTypes, Counts
    <2>4. GatewayTypes' /\ ScopeIsKept'
      BY <2>1 DEF GatewayTypes, Counts, ScopeIsKept, recordVars
    <2>5. UnknownLeavesWork' /\ EffectsAreTold' /\ SuccessIsBacked'
      BY <2>1, <2>2, <2>3 DEF UnknownLeavesWork, EffectsAreTold, SuccessIsBacked, NoJobPends
    <2> QED
      BY <2>1, <2>4, <2>5
      DEF NothingBegan, HandlerHasNoJob, EffectsAreRecorded, FailureIsReported,
          JobsAreCounted, ExecutionIsWhole
  <1>3. CASE AnswerWith(CommandExecutionFailure(execution))
    BY <1>1, <1>3, AnswerIsHonest
  <1>4. CASE AnswerWith(CommandExecutionFailure(
                           [execution EXCEPT !.data = "none", !.observed = FALSE]))
    <2>1. PICK e : e = [execution EXCEPT !.data = "none", !.observed = FALSE]
      OBVIOUS
    <2>2. /\ e.status = execution.status /\ e.actions = execution.actions
          /\ e.deliveries = execution.deliveries
      BY <2>1 DEF GatewayTypes, Executions
    <2> QED
      BY <1>1, <1>4, <2>1, <2>2, AnswerIsHonest
  <1> QED
    BY <1>2, <1>3, <1>4 DEF ToolAnswers

LEMMA GatewayStep == ASSUME GatewayInv, [GatewayNext]_gatewayVars PROVE GatewayInv'
  <1>1. CASE ToolRefuses
    BY <1>1, RefusalKeepsGateway DEF ToolRefuses
  <1>2. CASE GatewayRefuses \/ Panic
    <2>1. CASE GatewayRefuses
      <3>1. NoJobPends /\ landed = actionCount + mutations
        BY <2>1 DEF GatewayRefuses, GatewayInv, NothingBegan, NoJobPends
      <3> QED
        BY <2>1, <3>1, ExecutionKeepsGateway DEF GatewayRefuses, Statuses, Errors
    <2>2. CASE Panic
      BY <2>2, ExecutionKeepsGateway DEF Panic, Statuses, Errors
    <2> QED
      BY <1>2, <2>1, <2>2
  <1>3. CASE UNCHANGED gatewayVars
    BY <1>3
    DEF gatewayVars, recordVars, GatewayInv, GatewayTypes, Counts, NothingBegan,
        HandlerHasNoJob, EffectsAreRecorded, FailureIsReported, JobsAreCounted,
        ExecutionIsWhole, UnknownLeavesWork, EffectsAreTold, SuccessIsBacked, ScopeIsKept,
        NoJobPends, JobActions
  <1> QED
    BY <1>1, <1>2, <1>3, InvokeKeepsGateway, ContextKeepsGateway, AdmissionKeepsGateway,
       HandlerKeepsGateway, SubmissionKeepsGateway, JobKeepsGateway, ReturnKeepsGateway,
       AwaitKeepsGateway, SettleKeepsGateway, ToolKeepsGateway
    DEF GatewayNext, Executing, Concluding

LEMMA GatewayInvariant == GatewaySpec => []GatewayInv
  BY GatewayInvInit, GatewayStep, PTL DEF GatewaySpec

(* For any commands, callers, targets and jobs: no effect that took place  *)
(* is denied, a success has effects behind it, and nothing private or      *)
(* outside the target of a review gets through.                            *)
THEOREM GatewayTellsTheTruth == GatewaySpec => []GatewayIsTrue
  <1>1. GatewayInv => GatewayIsTrue
    <2> SUFFICES ASSUME GatewayInv PROVE GatewayIsTrue
      OBVIOUS
    <2>1. \A i \in DOMAIN snapshotCompletions : snapshotCompletions[i] \in Jobs
      BY DEF GatewayInv, GatewayTypes
    <2> QED
      BY <2>1 DEF GatewayInv, GatewayTypes, GatewayIsTrue, GatewayTypeOK
  <1> QED
    BY <1>1, GatewayInvariant, PTL

(* Once an answer is given that is not "unknown", nothing lands any more.  *)
THEOREM AnswersAreFinal == GatewaySpec => NothingLandsAfterAnswer
  <1>1. GatewayInv /\ [GatewayNext]_gatewayVars
        => [stage = "answered" /\ landed' # landed => answer.effect = "unknown"]_gatewayVars
    <2> SUFFICES ASSUME GatewayInv, GatewayNext, stage = "answered", landed' # landed
                 PROVE  answer.effect = "unknown"
      OBVIOUS
    <2>1. JobCompletes
      BY DEF GatewayNext, Executing, Concluding, Invoke, ToolRefuses, ToolAdmits,
         GatewayRefuses, GatewayAdmits, Reply, Act, Commit, ObserveCommandData,
         SubmitSnapshot, HandlerReturns, Panic, Audit, AwaitSnapshotCompletions, Settle,
         ToolAnswers, ContextEnds, Operation
    <2>2. ~NoJobPends
      BY <2>1 DEF JobCompletes, NoJobPends
    <2> QED
      BY <2>2 DEF GatewayInv, UnknownLeavesWork
  <1> QED
    BY <1>1, GatewayInvariant, PTL DEF GatewaySpec, NothingLandsAfterAnswer

-----------------------------------------------------------------------------
(* The move of trusted users *)

(* A caller that switches holds the lock and no other does; automove is    *)
(* as it asked, and every room it has dealt with without an error has a    *)
(* replica, or none, as it asked, unless others interfered.                *)
SwitchStates == [at : {"off", "asks", "rooms"}, on : BOOLEAN, todo : SUBSET Rooms,
                 rooms : SUBSET Rooms, failed : BOOLEAN]

Served(on, rooms) == IF on THEN rooms \subseteq replicas \union touched
                     ELSE rooms \intersect replicas \subseteq touched

SwitchProgress(c) == LET s == switch[c] IN
    s.at = "rooms" =>
        /\ enabled = s.on /\ ~last.known
        /\ ~s.failed => Served(s.on, s.rooms \ s.todo)

Settled == last.known => enabled = last.on /\ Served(last.on, last.rooms)

MoveInv ==
    /\ enabled \in BOOLEAN /\ sources \in SUBSET Rooms /\ destination \in Rooms
    /\ replicas \in SUBSET Rooms /\ touched \in SUBSET Rooms
    /\ holder \in Switchers \union {Unlocked}
    /\ switch \in [Switchers -> SwitchStates]
    /\ last \in [known : BOOLEAN, on : BOOLEAN, rooms : SUBSET Rooms]
    /\ \A c \in Switchers : switch[c].at = "rooms" <=> holder = c
    /\ \A c \in Switchers : SwitchProgress(c)
    /\ Settled

LEMMA MoveInvInit == ASSUME MoveInit PROVE MoveInv
  BY AutoMoveAssumption, SwitcherAssumption
  DEF MoveInit, MoveInv, SwitchStates, SwitchProgress, Settled, Off, Unsettled

(* A step that leaves the switches and what they are about alone.          *)
LEMMA MoveInvElsewhere ==
    ASSUME MoveInv, sources' \in SUBSET Rooms, destination' \in Rooms,
           UNCHANGED <<enabled, replicas, holder, switch, last, touched>>
    PROVE  MoveInv'
  BY DEF MoveInv, SwitchProgress, Settled, Served

(* A step of one caller that is not switching.                             *)
LEMMA MoveInvWaits ==
    ASSUME MoveInv, NEW c \in Switchers, NEW s \in SwitchStates, Moved(c, s),
           switch[c].at # "rooms", s.at # "rooms",
           UNCHANGED <<policy, replicas, holder, last, touched>>
    PROVE  MoveInv'
  BY DEF MoveInv, SwitchProgress, Settled, Served, Moved, policy

LEMMA SwitchKeepsMoveInv ==
    ASSUME MoveInv, NEW c \in Switchers, Switch(c)
    PROVE  MoveInv'
  <1> DEFINE s == [switch[c] EXCEPT !.at = "rooms", !.rooms = sources,
                     !.todo = IF switch[c].on THEN sources \ replicas
                              ELSE sources \intersect replicas]
  <1>1. /\ switch[c].at = "asks" /\ holder = Unlocked /\ holder' = c
        /\ enabled' = switch[c].on /\ switch' = [switch EXCEPT ![c] = s]
        /\ last' = Unsettled /\ touched' = {}
        /\ UNCHANGED <<sources, destination, replicas>>
    BY DEF Switch, Switches, Moved
  <1>2. /\ s \in SwitchStates /\ s.at = "rooms" /\ s.on = switch[c].on /\ s.rooms = sources
        /\ s.todo = IF switch[c].on THEN sources \ replicas ELSE sources \intersect replicas
    BY DEF MoveInv, SwitchStates
  <1> HIDE DEF s
  <1>3. switch' \in [Switchers -> SwitchStates] /\ switch'[c] = s
        /\ \A d \in Switchers \ {c} : switch'[d] = switch[d]
    BY <1>1, <1>2 DEF MoveInv
  <1>4. \A d \in Switchers : switch'[d].at = "rooms" <=> holder' = d
    BY <1>1, <1>2, <1>3, SwitcherAssumption DEF MoveInv
  <1>5. SwitchProgress(c)'
    BY <1>1, <1>2, <1>3 DEF SwitchProgress, Served, Unsettled
  <1>6. \A d \in Switchers : SwitchProgress(d)'
    BY <1>1, <1>4, <1>5 DEF SwitchProgress
  <1>7. Settled' /\ last' \in [known : BOOLEAN, on : BOOLEAN, rooms : SUBSET Rooms]
    BY <1>1 DEF Settled, Unsettled
  <1>8. enabled' \in BOOLEAN
    BY <1>1 DEF MoveInv, SwitchStates
  <1> QED
    BY <1>1, <1>3, <1>4, <1>6, <1>7, <1>8 DEF MoveInv

(* One room of a switch: what the caller did to its replica is what the    *)
(* rooms it has behind it need.                                            *)
LEMMA RoomKeepsMoveInv ==
    ASSUME MoveInv, NEW c \in Switchers, NEW s \in SwitchStates, Moved(c, s),
           switch[c].at = "rooms", s.at = "rooms", s.on = switch[c].on,
           replicas' \in SUBSET Rooms,
           ~s.failed => Served(s.on, s.rooms \ s.todo)',
           UNCHANGED <<policy, holder, last, touched>>
    PROVE  MoveInv'
  <1>1. switch' \in [Switchers -> SwitchStates] /\ switch'[c] = s
        /\ \A d \in Switchers \ {c} : switch'[d] = switch[d]
    BY DEF MoveInv, Moved
  <1>2. \A d \in Switchers : switch'[d].at = "rooms" <=> holder' = d
    BY <1>1 DEF MoveInv
  <1>3. enabled = s.on /\ ~last.known
    BY DEF MoveInv, SwitchProgress
  <1>4. SwitchProgress(c)'
    BY <1>1, <1>3 DEF SwitchProgress, Served, policy
  <1>5. \A d \in Switchers \ {c} : SwitchProgress(d)'
    BY <1>1, <1>2 DEF SwitchProgress, MoveInv
  <1>6. Settled'
    BY <1>3 DEF Settled
  <1> QED
    BY <1>1, <1>2, <1>4, <1>5, <1>6 DEF MoveInv, policy

LEMMA AddKeepsMoveInv ==
    ASSUME MoveInv, NEW c \in Switchers, AddNext(c)
    PROVE  MoveInv'
  <1>1. PICK r \in switch[c].todo :
          /\ switch[c].at = "rooms" /\ switch[c].on
          /\ \/ /\ r \notin replicas /\ replicas' = replicas \union {r}
                /\ Moved(c, [switch[c] EXCEPT !.todo = @ \ {r}])
             \/ /\ UNCHANGED replicas
                /\ Moved(c, [switch[c] EXCEPT !.todo = {}, !.failed = TRUE])
          /\ UNCHANGED <<policy, holder, last, touched>>
    BY DEF AddNext
  <1>2. switch[c] \in SwitchStates /\ r \in Rooms /\ replicas \in SUBSET Rooms
    BY <1>1 DEF MoveInv, SwitchStates
  <1>3. CASE /\ r \notin replicas /\ replicas' = replicas \union {r}
             /\ Moved(c, [switch[c] EXCEPT !.todo = @ \ {r}])
    <2>0. PICK s : s = [switch[c] EXCEPT !.todo = @ \ {r}]
      OBVIOUS
    <2>1. /\ s \in SwitchStates /\ s.at = "rooms" /\ s.on = switch[c].on
          /\ s.rooms = switch[c].rooms /\ s.failed = switch[c].failed
          /\ s.todo = switch[c].todo \ {r}
      BY <1>1, <1>2, <2>0 DEF SwitchStates
    <2>2. ~switch[c].failed => Served(TRUE, switch[c].rooms \ switch[c].todo)
      BY <1>1 DEF MoveInv, SwitchProgress
    <2>3. ~s.failed => Served(s.on, s.rooms \ s.todo)'
      BY <1>1, <1>3, <2>1, <2>2 DEF Served
    <2> QED
      BY <1>1, <1>2, <1>3, <2>0, <2>1, <2>3, RoomKeepsMoveInv
  <1>4. CASE UNCHANGED replicas /\ Moved(c, [switch[c] EXCEPT !.todo = {}, !.failed = TRUE])
    <2>0. PICK s : s = [switch[c] EXCEPT !.todo = {}, !.failed = TRUE]
      OBVIOUS
    <2>1. s \in SwitchStates /\ s.at = "rooms" /\ s.on = switch[c].on /\ s.failed
      BY <1>1, <1>2, <2>0 DEF SwitchStates
    <2> QED
      BY <1>1, <1>2, <1>4, <2>0, <2>1, RoomKeepsMoveInv
  <1> QED
    BY <1>1, <1>3, <1>4

LEMMA RemoveKeepsMoveInv ==
    ASSUME MoveInv, NEW c \in Switchers, RemoveNext(c)
    PROVE  MoveInv'
  <1>1. PICK r \in switch[c].todo :
          /\ switch[c].at = "rooms" /\ ~switch[c].on
          /\ \/ /\ r \in replicas /\ replicas' = replicas \ {r}
                /\ Moved(c, [switch[c] EXCEPT !.todo = @ \ {r}])
             \/ /\ replicas' \in {replicas, replicas \ {r}}
                /\ Moved(c, [switch[c] EXCEPT !.todo = @ \ {r}, !.failed = TRUE])
          /\ UNCHANGED <<policy, holder, last, touched>>
    BY DEF RemoveNext
  <1>2. switch[c] \in SwitchStates /\ r \in Rooms /\ replicas \in SUBSET Rooms
    BY <1>1 DEF MoveInv, SwitchStates
  <1>3. CASE r \in replicas /\ replicas' = replicas \ {r}
             /\ Moved(c, [switch[c] EXCEPT !.todo = @ \ {r}])
    <2>0. PICK s : s = [switch[c] EXCEPT !.todo = @ \ {r}]
      OBVIOUS
    <2>1. /\ s \in SwitchStates /\ s.at = "rooms" /\ s.on = switch[c].on
          /\ s.rooms = switch[c].rooms /\ s.failed = switch[c].failed
          /\ s.todo = switch[c].todo \ {r}
      BY <1>1, <1>2, <2>0 DEF SwitchStates
    <2>2. ~switch[c].failed => Served(FALSE, switch[c].rooms \ switch[c].todo)
      BY <1>1 DEF MoveInv, SwitchProgress, SwitchStates
    <2>3. ~s.failed => Served(s.on, s.rooms \ s.todo)'
      BY <1>1, <1>3, <2>1, <2>2 DEF Served
    <2> QED
      BY <1>1, <1>2, <1>3, <2>0, <2>1, <2>3, RoomKeepsMoveInv
  <1>4. CASE /\ replicas' \in {replicas, replicas \ {r}}
             /\ Moved(c, [switch[c] EXCEPT !.todo = @ \ {r}, !.failed = TRUE])
    <2>0. PICK s : s = [switch[c] EXCEPT !.todo = @ \ {r}, !.failed = TRUE]
      OBVIOUS
    <2>1. s \in SwitchStates /\ s.at = "rooms" /\ s.on = switch[c].on /\ s.failed
      BY <1>1, <1>2, <2>0 DEF SwitchStates
    <2>2. replicas' \in SUBSET Rooms
      BY <1>2, <1>4
    <2> QED
      BY <1>1, <1>4, <2>0, <2>1, <2>2, RoomKeepsMoveInv
  <1> QED
    BY <1>1, <1>3, <1>4

LEMMA EndKeepsMoveInv ==
    ASSUME MoveInv, NEW c \in Switchers, SwitchEnds(c)
    PROVE  MoveInv'
  <1>1. /\ switch[c].at = "rooms" /\ switch[c].todo = {} /\ Moved(c, Off)
        /\ holder' = IF holder = c THEN Unlocked ELSE holder
        /\ last' = IF switch[c].failed THEN Unsettled
                   ELSE [known |-> TRUE, on |-> switch[c].on, rooms |-> switch[c].rooms]
        /\ UNCHANGED <<policy, replicas, touched>>
    BY DEF SwitchEnds
  <1>2. switch' \in [Switchers -> SwitchStates] /\ switch'[c].at = "off"
        /\ \A d \in Switchers \ {c} : switch'[d] = switch[d]
    BY <1>1 DEF MoveInv, Moved, Off, SwitchStates
  <1>3. holder = c /\ holder' = Unlocked
    BY <1>1 DEF MoveInv
  <1>4. \A d \in Switchers : switch'[d].at # "rooms" /\ holder' # d
    BY <1>2, <1>3, SwitcherAssumption DEF MoveInv
  <1>5. switch[c] \in SwitchStates
    BY DEF MoveInv
  <1>6. last' \in [known : BOOLEAN, on : BOOLEAN, rooms : SUBSET Rooms]
    BY <1>1, <1>5 DEF SwitchStates, Unsettled
  <1>7. Settled'
    <2>1. CASE switch[c].failed
      BY <1>1, <2>1 DEF Settled, Unsettled
    <2>2. CASE ~switch[c].failed
      <3>1. enabled = switch[c].on
            /\ Served(switch[c].on, switch[c].rooms \ switch[c].todo)
        BY <1>1, <2>2 DEF MoveInv, SwitchProgress
      <3>2. switch[c].rooms \ switch[c].todo = switch[c].rooms
        BY <1>1
      <3>3. last'.on = switch[c].on /\ last'.rooms = switch[c].rooms
        BY <1>1, <2>2
      <3> QED
        BY <1>1, <3>1, <3>2, <3>3 DEF Settled, Served, policy
    <2> QED
      BY <2>1, <2>2
  <1> QED
    BY <1>1, <1>2, <1>3, <1>4, <1>6, <1>7 DEF MoveInv, SwitchProgress, policy

LEMMA OthersKeepMoveInv == ASSUME MoveInv, OthersTouch PROVE MoveInv'
  <1>1. PICK r \in Rooms :
          /\ touched' = touched \union {r}
          /\ replicas' = IF r \in replicas THEN replicas \ {r} ELSE replicas \union {r}
          /\ UNCHANGED <<policy, holder, switch, last>>
    BY DEF OthersTouch
  <1>2. \A on \in BOOLEAN, rooms \in SUBSET Rooms : Served(on, rooms) => Served(on, rooms)'
    BY <1>1 DEF Served
  <1>3. \A c \in Switchers : SwitchProgress(c)'
    <2> SUFFICES ASSUME NEW c \in Switchers PROVE SwitchProgress(c)'
      OBVIOUS
    <2>1. switch[c].on \in BOOLEAN /\ switch[c].rooms \ switch[c].todo \in SUBSET Rooms
      BY DEF MoveInv, SwitchStates
    <2>2. SwitchProgress(c)
      BY DEF MoveInv
    <2> QED
      BY <1>1, <1>2, <2>1, <2>2 DEF SwitchProgress, policy, Served
  <1>4. Settled'
    <2>1. last.on \in BOOLEAN /\ last.rooms \in SUBSET Rooms /\ Settled
      BY DEF MoveInv
    <2> QED
      BY <1>1, <1>2, <2>1 DEF Settled, policy, Served
  <1>5. replicas' \in SUBSET Rooms /\ touched' \in SUBSET Rooms
    BY <1>1 DEF MoveInv
  <1> QED
    BY <1>1, <1>3, <1>4, <1>5 DEF MoveInv, policy

LEMMA MoveStep == ASSUME MoveInv, [MoveNext]_moveVars PROVE MoveInv'
  <1>1. CASE Configure
    <2>1. sources' \in SUBSET Rooms /\ destination' \in Rooms
      BY <1>1 DEF Configure, MoveInv
    <2> QED
      BY <1>1, <2>1, MoveInvElsewhere DEF Configure
  <1>2. CASE OthersTouch
    BY <1>2, OthersKeepMoveInv
  <1>3. ASSUME NEW c \in Switchers, AskSwitch(c) PROVE MoveInv'
    <2>1. PICK on \in BOOLEAN : Moved(c, [Off EXCEPT !.at = "asks", !.on = on])
      BY <1>3 DEF AskSwitch
    <2>2. [Off EXCEPT !.at = "asks", !.on = on] \in SwitchStates
          /\ [Off EXCEPT !.at = "asks", !.on = on].at = "asks"
      BY DEF Off, SwitchStates
    <2> QED
      BY <1>3, <2>1, <2>2, MoveInvWaits DEF AskSwitch
  <1>4. ASSUME NEW c \in Switchers, GivesUp(c) PROVE MoveInv'
    <2>1. Off \in SwitchStates /\ Off.at = "off"
      BY DEF Off, SwitchStates
    <2> QED
      BY <1>4, <2>1, MoveInvWaits DEF GivesUp
  <1>5. ASSUME NEW c \in Switchers, Switching(c) PROVE MoveInv'
    BY <1>5, SwitchKeepsMoveInv, AddKeepsMoveInv, RemoveKeepsMoveInv, EndKeepsMoveInv
    DEF Switching
  <1>6. ASSUME NEW r \in Rooms, ReplicaSeesJoin(r) \/ Moving(r) PROVE MoveInv'
    <2>1. UNCHANGED <<policy, replicas, holder, switch, last, touched>>
      BY <1>6 DEF ReplicaSeesJoin, Moving, ReadTrips, Unread, Notice, Kick, Kicked, Pumped
    <2>2. sources \in SUBSET Rooms /\ destination \in Rooms
      BY DEF MoveInv
    <2> QED
      BY <2>1, <2>2, MoveInvElsewhere DEF policy
  <1>7. CASE UNCHANGED moveVars
    <2>1. sources \in SUBSET Rooms /\ destination \in Rooms
      BY DEF MoveInv
    <2> QED
      BY <1>7, <2>1, MoveInvElsewhere DEF moveVars
  <1> QED
    BY <1>1, <1>2, <1>3, <1>4, <1>5, <1>6, <1>7 DEF MoveNext

(* However many callers switch automove, whatever the sources, and         *)
(* whatever fails or interferes, what the last switch that succeeded asked *)
(* for is what is left when none is under way.                             *)
THEOREM LastSwitchIsKept == MoveSpec => []SwitchesAreKept
  <1>1. MoveInv => SwitchesAreKept
    <2> SUFFICES ASSUME MoveInv PROVE SwitchesAreKept
      OBVIOUS
    <2>1. MoveTypeOK
      BY DEF MoveInv, MoveTypeOK, SwitchStates
    <2>2. LastSwitchWins
      BY DEF MoveInv, Settled, Served, LastSwitchWins
    <2> QED
      BY <2>1, <2>2 DEF SwitchesAreKept
  <1> QED
    BY <1>1, MoveInvInit, MoveStep, PTL DEF MoveSpec
=============================================================================
