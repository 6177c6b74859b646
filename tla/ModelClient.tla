------------------------------ MODULE ModelClient ------------------------------
(***************************************************************************)
(* The client of the language model (internal/agent/llm/openai/client.go): *)
(* calls of Complete over one shared configuration, each with its own      *)
(* payload, its attempts under one deadline, the delays between them and   *)
(* the error it reports.  A payload is the set of its fields; a response   *)
(* is its class.  Time is counted in ticks, and MaxDuration stands for the *)
(* largest value of the 64-bit type the delays are computed in.            *)
(***************************************************************************)
EXTENDS Integers, FiniteSets

CONSTANTS Retries, Timeout,         \* Config.Retries, Config.Timeout
          RetryDelay,               \* Config.RetryDelay
          MaxShift,                 \* the cap of the exponent of the delay
          MaxDuration,
          RetryAfter,               \* values a Retry-After header may hold
          Options,                  \* fields of Config.Options
          OpenRouter,               \* the endpoint is OpenRouter's
          MaxCalls                  \* bound: calls of Complete

RoundFields == {"tools", "tool_choice", "parallel_tool_calls", "response_format"}
LocalFields == {"chat_template_kwargs", "bypass_prompt_cache"}

ASSUME ClientAssumption ==
    /\ Retries \in Nat /\ Timeout \in Nat \ {0} /\ RetryDelay \in Nat \ {0}
    /\ MaxShift \in Nat /\ MaxDuration \in Nat /\ RetryDelay <= MaxDuration
    /\ RetryAfter \subseteq Nat /\ OpenRouter \in BOOLEAN /\ MaxCalls \in Nat
    /\ "bypass_prompt_cache" \notin Options

VARIABLES
    options,        \* the client's option map, shared by all calls
    wanted,          \* what this round asks for: a subset of Wishes
    payload,        \* the fields that are sent
    clientAt,       \* "idle", "send", "wait", "read", "sleep", "done"
    attempt, elapsed, wake,
    parentEnd,      \* how the caller's context has ended, if it has
    seen,           \* history: the class of what the last attempt met
    code,           \* what Complete returned: "ok" or the code of its error
    served          \* calls made

clientVars == <<options, wanted, payload, clientAt, attempt, elapsed, wake, parentEnd, seen,
                code, served>>

Wishes == {"tools", "format", "bypass"}
Replies == {"completion", "malformed", "envelope", "transient", "refusal"}
MaxAttempts == Retries + 1

ClientInit ==
    /\ options = Options /\ wanted = {} /\ payload = {} /\ clientAt = "idle"
    /\ attempt = 0 /\ elapsed = 0 /\ wake = 0 /\ parentEnd = "none"
    /\ seen = "nothing" /\ code = "none" /\ served = 0

-----------------------------------------------------------------------------
(* The payload of a round *)

Request(wishes) ==
    ((options \ RoundFields) \ (IF OpenRouter THEN LocalFields ELSE {}))
    \cup {"messages", "stream"}
    \cup (IF OpenRouter THEN {"reasoning"} ELSE {"chat_template_kwargs"})
    \cup (IF "tools" \in wishes THEN {"tools", "tool_choice"} ELSE {})
    \cup (IF "format" \in wishes THEN {"response_format"} ELSE {})
    \cup (IF "bypass" \in wishes /\ ~OpenRouter THEN {"bypass_prompt_cache"} ELSE {})

(* Slip: the payload is written into the shared map.                       *)
FilledInPlace(p) == p

(* The map of options is cloned: filling in the payload leaves it alone.   *)
Filled(p) == options

Complete ==
    /\ clientAt \in {"idle", "done"} /\ served < MaxCalls
    /\ \E wishes \in SUBSET Wishes :
          /\ wanted' = wishes /\ payload' = Request(wishes)
          /\ options' = Filled(Request(wishes))
    /\ served' = served + 1
    /\ clientAt' = "send" /\ attempt' = 0 /\ elapsed' = 0 /\ wake' = 0
    /\ parentEnd' = "none" /\ seen' = "nothing" /\ code' = "none"

-----------------------------------------------------------------------------
(* Attempts *)

OperationOver == parentEnd # "none" \/ elapsed >= Timeout

(* Slip: every end of the context is taken for the time-out.               *)
AlwaysTimeout == {"timeout"}

(* The code of a context error: which end came first is not known to the   *)
(* caller of Err once both have.                                           *)
ContextCodes ==
    (IF parentEnd = "cancelled" THEN {"cancelled"} ELSE {})
    \cup (IF parentEnd = "deadline" \/ elapsed >= Timeout THEN {"timeout"} ELSE {})

Finish(result) ==
    /\ clientAt' = "done" /\ code' = result
    /\ UNCHANGED <<options, wanted, payload, attempt, elapsed, wake, parentEnd, served>>

SendRequest ==
    /\ clientAt = "send"
    /\ \/ OperationOver /\ (\E c \in ContextCodes : Finish(c)) /\ UNCHANGED seen
       \/ /\ ~OperationOver
          /\ clientAt' = "wait" /\ seen' = "nothing"
          /\ UNCHANGED <<options, wanted, payload, attempt, elapsed, wake, parentEnd, code,
                         served>>

(* 1 << shift.                                                             *)
Doubled[shift \in 0..MaxShift] == IF shift = 0 THEN 1 ELSE 2 * Doubled[shift - 1]
Factor(n) == Doubled[IF n < MaxShift THEN n ELSE MaxShift]

(* Slip: the exponent is applied without the guard, and wraps.             *)
WrappedBackoff(n) ==
    LET wide == RetryDelay * Factor(n)
        span == 2 * (MaxDuration + 1)
    IN  ((wide + MaxDuration + 1) % span) - (MaxDuration + 1)

(* The delay doubles until it would overflow.                              *)
Backoff(n) ==
    IF RetryDelay > MaxDuration \div Factor(n) THEN RetryDelay ELSE RetryDelay * Factor(n)

(* A server may name the delay; a value out of range counts as none.       *)
Delays(n, header) ==
    {Backoff(n)} \cup (IF header THEN {d \in RetryAfter : d <= MaxDuration} ELSE {})

(* Another attempt is due after a delay.                                   *)
Retry(header) ==
    /\ attempt + 1 < MaxAttempts
    /\ \E d \in Delays(attempt, header) : wake' = elapsed + d
    /\ clientAt' = "sleep"
    /\ UNCHANGED <<options, wanted, payload, attempt, elapsed, parentEnd, code, served>>

(* Slip: the request is built without the context of the operation.        *)
DoFailsAlone ==
    /\ clientAt = "wait" /\ ~OperationOver /\ seen' = "transport"
    /\ \/ Retry(FALSE)
       \/ attempt + 1 = MaxAttempts /\ Finish("transport")

(* Do fails: the context ended, or the transport did.                      *)
DoFails ==
    /\ clientAt = "wait"
    /\ \/ OperationOver /\ (\E c \in ContextCodes : Finish(c)) /\ UNCHANGED seen
       \/ /\ ~OperationOver /\ seen' = "transport"
          /\ \/ Retry(FALSE)
             \/ attempt + 1 = MaxAttempts /\ Finish("transport")

Responds ==
    /\ clientAt = "wait"
    /\ \E r \in Replies : seen' = r
    /\ clientAt' = "read"
    /\ UNCHANGED <<options, wanted, payload, attempt, elapsed, wake, parentEnd, code, served>>

BodyFails ==
    /\ clientAt = "read" /\ seen' = "transport"
    /\ \/ Retry(FALSE)
       \/ attempt + 1 = MaxAttempts /\ Finish("transport")

(* An answer that is no completion: a status, an error in its envelope, or *)
(* something that cannot be decoded.                                       *)
Verdict(r) ==
    CASE r \in {"transient", "refusal"} -> "http"
      [] r = "envelope" -> "provider"
      [] r = "malformed" -> "malformed_response"
      [] OTHER -> "ok"

(* Slip: any status that is no success is worth another attempt.           *)
RetryableIfNot2xx(r) == r \in {"transient", "refusal"}

Retryable(r) == r = "transient"

Conclude ==
    /\ clientAt = "read" /\ UNCHANGED seen
    /\ \/ Retryable(seen) /\ Retry(TRUE)
       \/ ~(Retryable(seen) /\ attempt + 1 < MaxAttempts) /\ Finish(Verdict(seen))

(* The sleep ends with its timer or with the context.                      *)
Wakes ==
    /\ clientAt = "sleep" /\ UNCHANGED seen
    /\ \/ OperationOver /\ \E c \in ContextCodes : Finish(c)
       \/ /\ elapsed >= wake
          /\ clientAt' = "send" /\ attempt' = attempt + 1
          /\ UNCHANGED <<options, wanted, payload, elapsed, wake, parentEnd, code, served>>

Tick ==
    /\ clientAt \in {"wait", "read", "sleep"} /\ elapsed < Timeout
    /\ elapsed' = elapsed + 1
    /\ UNCHANGED <<options, wanted, payload, clientAt, attempt, wake, parentEnd, seen, code,
                   served>>

CallerEnds ==
    /\ clientAt \notin {"idle", "done"} /\ parentEnd = "none"
    /\ parentEnd' \in {"cancelled", "deadline"}
    /\ UNCHANGED <<options, wanted, payload, clientAt, attempt, elapsed, wake, seen, code,
                   served>>

Step == SendRequest \/ DoFails \/ Responds \/ BodyFails \/ Conclude \/ Wakes
ClientNext == Complete \/ Step \/ Tick \/ CallerEnds
ClientSpec == ClientInit /\ [][ClientNext]_clientVars

(* Time passes, the transport honours the context of its request, and a    *)
(* body ends.                                                              *)
ClientFairness ==
    /\ WF_clientVars(Tick) /\ WF_clientVars(SendRequest) /\ WF_clientVars(DoFails)
    /\ WF_clientVars(BodyFails \/ Conclude) /\ WF_clientVars(Wakes)
ClientFairSpec == ClientSpec /\ ClientFairness

-----------------------------------------------------------------------------
(* Properties *)

(* The error of a call is what happened to it: a time-out only past a      *)
(* deadline, a cancellation only if the caller cancelled, a status only if *)
(* a server gave it and no attempt that was owed is left, and an answer    *)
(* only if the last response was one.                                      *)
OutcomeIsTrue ==
    clientAt = "done" =>
        CASE code = "timeout" -> parentEnd = "deadline" \/ elapsed >= Timeout
          [] code = "cancelled" -> parentEnd = "cancelled"
          [] code = "transport" -> seen = "transport" /\ attempt = Retries
          [] code = "http" -> seen = "refusal" \/ (seen = "transient" /\ attempt = Retries)
          [] code = "ok" -> seen = "completion"
          [] OTHER -> seen \in {"malformed", "envelope"}

(* No delay is negative or shorter than asked for, however many attempts   *)
(* came before: the doubling stops before the type overflows.              *)
DelayIsSane ==
    clientAt = "sleep" => wake - elapsed <= MaxDuration /\ wake >= 0
        /\ (seen = "transport" => wake >= RetryDelay)

(* A round sends its own tools, format and cache directive and nothing of  *)
(* an earlier round's.                                                     *)
RoundIsItsOwn ==
    payload # {} =>
        /\ "tools" \in payload <=> "tools" \in wanted
        /\ "response_format" \in payload <=> "format" \in wanted
        /\ "bypass_prompt_cache" \in payload <=> ("bypass" \in wanted /\ ~OpenRouter)

(* Every call ends, within its time-out, whatever the server does.         *)
CompleteEnds == clientAt = "send" ~> clientAt = "done"

ClientTypeOK ==
    /\ clientAt \in {"idle", "send", "wait", "read", "sleep", "done"}
    /\ attempt \in 0..Retries /\ elapsed \in 0..Timeout /\ served \in 0..MaxCalls
    /\ wanted \subseteq Wishes

(* Complete reports what ended it, waits a sane time between tries and     *)
(* sends what this round asks for and nothing of an earlier one.           *)
ClientIsTrue == ClientTypeOK /\ OutcomeIsTrue /\ DelayIsSane /\ RoundIsItsOwn
=============================================================================
