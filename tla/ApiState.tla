------------------------------ MODULE ApiState ------------------------------
(***************************************************************************)
(* What the goroutines of the API share in its own memory: the token       *)
(* buckets (RateLimiter), the AI client's breaker (CircuitBreaker) and the *)
(* issuer's keys (JwksCache, of the Go API and of the Python service).     *)
(* The three share no state: each has its clock and steps on its own.      *)
(***************************************************************************)
EXTENDS Integers

CONSTANTS
    Callers, Clients, Cost, Full, BucketTTL, Delay, MaxRateTime,   \* RateLimiter
    Calls, Threshold, ResetDuration, RetryMax, Timeout, MaxAiTime, \* CircuitBreaker
    Verifiers, KeyTTL, FetchTimeout, MaxKey, MaxKeyTime            \* JwksCache

VARIABLES
    rateNow, bucket, caller, from, spent, forgotten,      \* RateLimiter
    aiNow, failures, openUntil, call, admitted,           \* CircuitBreaker
    python, keyNow, key, replaced, keys, keyReq     \* JwksCache

rateVars == <<rateNow, bucket, caller, <<from, spent, forgotten>>>>
aiVars   == <<aiNow, failures, openUntil, call, admitted>>
jwksVars == <<python, keyNow, key, replaced, keys, keyReq>>

Rate == INSTANCE RateLimiter WITH now <- rateNow, TTL <- BucketTTL, MaxTime <- MaxRateTime

Ai == INSTANCE CircuitBreaker WITH now <- aiNow, MaxTime <- MaxAiTime

Jwks == INSTANCE JwksCache WITH
    now <- keyNow, cache <- keys, req <- keyReq,
    Requests <- Verifiers, TTL <- KeyTTL, MaxTime <- MaxKeyTime

\* See each component for why its assumption is justified.
ASSUME ApiAssumption ==
    /\ Rate!RateAssumption
    /\ Ai!BreakerAssumption
    /\ Jwks!JwksAssumption

\* Each of the three behaves as its component says.
ApiSpec == Rate!Spec /\ Ai!Spec /\ Jwks!Spec

-----------------------------------------------------------------------------
(* Properties                                                              *)

\* IPRateLimiter.Allow: no client is let through more often, in any window of
\* time, than a full bucket, the window's length and what it gains by being
\* forgotten allow.
AdmissionBounded == Rate!AdmissionBounded

\* circuitBreaker: failures reported late prolong the open time only while calls
\* let through before are under way.
OpenEndsInTime == Ai!OpenEndsInTime

\* authx.go: a key the issuer has replaced is not accepted for longer than the
\* time to live and two fetches.
WithdrawnKeysExpire == Jwks!WithdrawnKeysExpire

\* auth.py: nor is it on the strength of a cache taken to be fresh.
RenewedKeysExpire == Jwks!RenewedKeysExpire

\* IMPLEMENTATION_PLAN.md:329: when the network fails, an unexpired cache may be
\* used.
FallbackOnUnexpired == Jwks!FallbackOnUnexpired

\* authx.go and auth.py: the issuer's present key is refused as unknown only to a
\* request that another one's older answer overtook.
RejectedForCause == Jwks!RejectedForCause
=============================================================================
