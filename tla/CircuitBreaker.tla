--------------------------- MODULE CircuitBreaker ---------------------------
(***************************************************************************)
(* The AI client: concurrent PredictHotspots calls with retries around one *)
(* breaker.  A call asks the breaker once, before its first attempt; each  *)
(* attempt reports to it, however long ago the breaker tripped.            *)
(***************************************************************************)
EXTENDS Naturals

CONSTANTS
    Calls,          \* callers; each calls again and again
    Threshold,      \* failures that trip the breaker: 5
    ResetDuration,  \* how long it stays open: 30 s
    RetryMax,       \* AI_PREDICT_RETRY_MAX
    Timeout,        \* AI_PREDICT_TIMEOUT_MS
    MaxTime         \* bound: the clock

BreakerAssumption ==
    /\ {Threshold, ResetDuration, RetryMax, Timeout} \subseteq Nat
    /\ MaxTime \in Nat \ {0}

VARIABLES
    now,        \* the clock, from 1: 0 is Go's zero time
    failures,   \* circuitBreaker.failures
    openUntil,  \* circuitBreaker.openUntil, 0 when not open
    call,       \* the calls: [pc, attempt, sent]
    admitted    \* when a call was last let through

vars == <<now, failures, openUntil, call, admitted>>

Rest == [pc |-> "idle", attempt |-> 0, sent |-> 0]

Init ==
    /\ now       = 1
    /\ failures  = 0
    /\ openUntil = 0
    /\ call      = [c \in Calls |-> Rest]
    /\ admitted  = 1

-----------------------------------------------------------------------------
Sending(c) == call[c].pc = "sending"

Return(c) == call' = [call EXCEPT ![c] = Rest]

\* An attempt, with a timeout of its own.
Send(c, n) == call' = [call EXCEPT ![c] = [pc |-> "sending", attempt |-> n, sent |-> now]]

Fail ==
    /\ failures'  = failures + 1
    /\ openUntil' = IF failures + 1 >= Threshold THEN now + ResetDuration ELSE openUntil

Success ==
    /\ failures'  = 0
    /\ openUntil' = 0

\* Open: not tripped.
LetThrough(c) ==
    /\ call[c].pc = "idle"
    /\ openUntil = 0
    /\ Send(c, 0)
    /\ admitted' = now
    /\ UNCHANGED <<now, failures, openUntil>>

\* Open: the time is over; the count starts anew and every caller gets through.
LetThroughAgain(c) ==
    /\ call[c].pc = "idle"
    /\ openUntil # 0 /\ now > openUntil
    /\ failures'  = 0
    /\ openUntil' = 0
    /\ Send(c, 0)
    /\ admitted' = now
    /\ UNCHANGED now

\* Mutant of TurnAway: a refused call counts as a failure.
TurnAwayFails(c) ==
    /\ call[c].pc = "idle"
    /\ openUntil # 0 /\ now <= openUntil
    /\ Fail
    /\ UNCHANGED <<now, call, admitted>>

\* "ai circuit open": nothing changes.
TurnAway(c) ==
    /\ call[c].pc = "idle"
    /\ openUntil # 0 /\ now <= openUntil
    /\ UNCHANGED vars

\* No answer in time, the caller's context is done, or a 5xx: again at once,
\* without asking the breaker, unless it was the last attempt.
AttemptFails(c) ==
    /\ Sending(c)
    /\ Fail
    /\ IF call[c].attempt < RetryMax THEN Send(c, call[c].attempt + 1) ELSE Return(c)
    /\ UNCHANGED <<now, admitted>>

\* Any other status than 200: an error, the breaker is not told.
Refused(c) ==
    /\ Sending(c)
    /\ Return(c)
    /\ UNCHANGED <<now, failures, openUntil, admitted>>

\* 200 with a body that does not decode.
Garbled(c) ==
    /\ Sending(c)
    /\ Fail
    /\ Return(c)
    /\ UNCHANGED <<now, admitted>>

Answered(c) ==
    /\ Sending(c)
    /\ Success
    /\ Return(c)
    /\ UNCHANGED <<now, admitted>>

Tick ==
    /\ now < MaxTime
    /\ \A c \in Calls : Sending(c) => now < call[c].sent + Timeout
    /\ now' = now + 1
    /\ UNCHANGED <<failures, openUntil, call, admitted>>

Next ==
    \/ \E c \in Calls :
        \/ LetThrough(c) \/ LetThroughAgain(c) \/ TurnAway(c)
        \/ AttemptFails(c) \/ Refused(c) \/ Garbled(c) \/ Answered(c)
    \/ Tick

Spec == Init /\ [][Next]_vars

-----------------------------------------------------------------------------
(* Properties                                                              *)

\* failures is bounded by what the calls inside can add to a tripped breaker.
TypeOK ==
    /\ now       \in 1 .. MaxTime
    /\ failures  \in Nat
    /\ openUntil \in 0 .. MaxTime + ResetDuration
    /\ call      \in [Calls -> [pc : {"idle", "sending"}, attempt : 0 .. RetryMax,
                                sent : 0 .. MaxTime]]
    /\ admitted  \in 1 .. MaxTime

\* Late failures may prolong the open time, over and over; but only those of
\* calls let through before, so it ends: at the latest when the last of them
\* has used up its attempts and the reset time is over.
OpenEndsInTime ==
    openUntil <= admitted + (RetryMax + 1) * Timeout + ResetDuration
=============================================================================
