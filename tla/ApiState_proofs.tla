--------------------------- MODULE ApiState_proofs ---------------------------
(***************************************************************************)
(* The promises of what the API's goroutines share, for every number of    *)
(* goroutines, clients, calls and rotations and all times and limits that  *)
(* ApiAssumption allows.  One section for each component; the theorems of  *)
(* all three are at the end.                                               *)
(***************************************************************************)
EXTENDS ApiState, TLAPS

-----------------------------------------------------------------------------
(* RateLimiter: the limit on admitted requests.                            *)

\* What k times forgotten gives a client.
RateGain(k) == k * Rate!Excess

\* The time that k times forgotten takes, from the first to the last.
RatePeriod == BucketTTL + 1 - Delay

\* A bucket that is known: what a client has spent in the window, less what the
\* bucket could have earned up to lastSeen, fits in a full bucket and what it
\* gained; and the bucket is never so far behind that the present time could not
\* make it good.
RateKnownOK(b, s, k) ==
    /\ -Delay <= b.tokens /\ b.tokens <= Full
    /\ b.lastSeen <= rateNow
    /\ b.lastSeen - b.tokens <= rateNow
    /\ s = 0 \/ s + b.tokens - b.lastSeen <= Full - from + Delay + RateGain(k)
    /\ k > 0 => (k - 1) * RatePeriod <= b.lastSeen + Delay - from

\* An unknown client may start with a full bucket: it has spent no more than
\* it could have earned and gained.
RateUnknownOK(s, k) == s <= rateNow - from + RateGain(k)

RateBucketOK(b, s, k) ==
    /\ IF b.known THEN RateKnownOK(b, s, k) ELSE RateUnknownOK(s, k)
    /\ k > 0 => (k - 1) * RatePeriod <= rateNow - from

RateClocksOK ==
    /\ from <= rateNow
    /\ \A g \in Callers : caller[g].pc = "allow" =>
        caller[g].read <= rateNow /\ rateNow <= caller[g].read + Delay

RateInv ==
    /\ Rate!TypeOK
    /\ RateClocksOK
    /\ \A c \in Clients : RateBucketOK(bucket[c], spent[c], forgotten[c])

RateABucket == [known : BOOLEAN, tokens : Int, lastSeen : Nat]

-----------------------------------------------------------------------------
LEMMA RateGains ==
    ASSUME Rate!RateAssumption, NEW k \in Nat
    PROVE  /\ Rate!Excess \in Nat /\ RateGain(k) \in Nat /\ RateGain(0) = 0
           /\ RateGain(k + 1) = RateGain(k) + Rate!Excess
           /\ Rate!Excess >= Full + 2 * Delay - BucketTTL
           /\ RatePeriod \in Int /\ (k - 1) * RatePeriod \in Int
           /\ k * RatePeriod = (k - 1) * RatePeriod + RatePeriod
<1>1. Rate!Excess \in Nat /\ Rate!Excess >= Full + 2 * Delay - BucketTTL /\ RatePeriod \in Int
  BY DEF Rate!RateAssumption, Rate!Excess, RatePeriod
<1>2. ASSUME NEW e \in Nat PROVE k * e \in Nat /\ 0 * e = 0 /\ (k + 1) * e = k * e + e
  OBVIOUS
<1>3. ASSUME NEW e \in Int PROVE (k - 1) * e \in Int /\ k * e = (k - 1) * e + e
  OBVIOUS
<1> QED  BY <1>1, <1>2, <1>3 DEF RateGain

\* Forgetting an expired client gains it what a full bucket holds beyond what it
\* would have earned by now; and the last time was at least a period ago.
LEMMA RateKeptOK ==
    ASSUME Rate!RateAssumption, rateNow \in Nat, from \in Nat,
           NEW b \in RateABucket, NEW s \in Nat, NEW k \in Nat, NEW t \in Nat,
           t <= rateNow, from <= rateNow, RateBucketOK(b, s, k), Rate!Expired(b, t)
    PROVE  RateBucketOK(Rate!Unknown, s, k + 1)
<1>1. /\ Delay \in Nat /\ Full \in Nat /\ BucketTTL \in Nat
      /\ b.tokens \in Int /\ b.lastSeen \in Nat /\ b.lastSeen + BucketTTL < t
      /\ RateKnownOK(b, s, k)
  BY DEF Rate!RateAssumption, RateABucket, Rate!Expired, RateBucketOK
<1>2. RateUnknownOK(s, k + 1)
  <2>1. /\ RateGain(k) \in Nat /\ Rate!Excess \in Nat /\ RateGain(k + 1) = RateGain(k) + Rate!Excess
        /\ Rate!Excess >= Full + 2 * Delay - BucketTTL
    BY RateGains
  <2> QED  BY <1>1, <2>1 DEF RateKnownOK, RateUnknownOK
<1>3. k * RatePeriod <= rateNow - from
  <2>1. CASE k = 0
    BY <2>1, RateGains
  <2>2. CASE k # 0
    <3>1. (k - 1) * RatePeriod <= b.lastSeen + Delay - from
      BY <1>1, <2>2 DEF RateKnownOK
    <3>2. (k - 1) * RatePeriod \in Int /\ k * RatePeriod = (k - 1) * RatePeriod + RatePeriod
      BY RateGains
    <3>3. RatePeriod = BucketTTL + 1 - Delay
      BY DEF RatePeriod
    <3> QED  BY <1>1, <3>1, <3>2, <3>3
  <2> QED  BY <2>1, <2>2
<1>4. (k + 1) - 1 = k
  OBVIOUS
<1> QED  BY <1>2, <1>3, <1>4 DEF RateBucketOK, Rate!Unknown

\* A request in a known bucket, admitted or not.
LEMMA RateKnownAllowOK ==
    ASSUME Rate!RateAssumption, rateNow \in Nat, from \in Nat,
           NEW b \in RateABucket, NEW s \in Nat, NEW t \in Nat,
           NEW k \in Nat, k > 0 => (k - 1) * RatePeriod <= rateNow - from,
           t <= rateNow, rateNow <= t + Delay, from <= rateNow, RateKnownOK(b, s, k),
           NEW n \in Int, n = Rate!Refilled(b, t)
    PROVE  /\ n >= Cost  => RateKnownOK(Rate!Bucket(n - Cost, t), s + Cost, k)
           /\ n < Cost => RateKnownOK(Rate!Bucket(n, t), s, k)
<1>1. /\ Delay \in Nat /\ Full \in Nat /\ Cost \in Nat /\ Cost <= Full
      /\ RateGain(k) \in Nat /\ (k - 1) * RatePeriod \in Int
  BY RateGains DEF Rate!RateAssumption
<1>2. n <= b.tokens + (t - b.lastSeen) /\ n <= Full
      /\ (n = b.tokens + (t - b.lastSeen) \/ n = Full)
  BY <1>1 DEF Rate!Refilled, Rate!Least, RateABucket
<1>3. n >= -Delay
  BY <1>1, <1>2 DEF RateKnownOK, RateABucket
<1>4. t - n <= rateNow
  BY <1>1, <1>2 DEF RateKnownOK, RateABucket
<1>7. k > 0 => (k - 1) * RatePeriod <= t + Delay - from
  BY <1>1
<1>5. CASE n >= Cost
  <2>1. s + n - t <= Full - from + Delay + RateGain(k)
    BY <1>1, <1>2 DEF RateKnownOK, RateABucket
  <2> QED  BY <1>1, <1>2, <1>4, <1>5, <1>7, <2>1 DEF RateKnownOK, Rate!Bucket
<1>6. CASE n < Cost
  <2>1. s = 0 \/ s + n - t <= Full - from + Delay + RateGain(k)
    BY <1>1, <1>2 DEF RateKnownOK, RateABucket
  <2> QED  BY <1>1, <1>2, <1>3, <1>4, <1>6, <1>7, <2>1 DEF RateKnownOK, Rate!Bucket
<1> QED  BY <1>1, <1>5, <1>6

\* The first request of an unknown client takes from a full bucket.
LEMMA RateUnknownAllowOK ==
    ASSUME Rate!RateAssumption, rateNow \in Nat, from \in Nat,
           NEW s \in Nat, NEW t \in Nat,
           NEW k \in Nat, k > 0 => (k - 1) * RatePeriod <= rateNow - from,
           t <= rateNow, rateNow <= t + Delay, from <= rateNow, RateUnknownOK(s, k)
    PROVE  RateKnownOK(Rate!Bucket(Full - Cost, t), s + Cost, k)
<1>1. RateGain(k) \in Nat /\ (k - 1) * RatePeriod \in Int
  BY RateGains
<1> QED  BY <1>1 DEF Rate!RateAssumption, RateUnknownOK, RateKnownOK, Rate!Bucket

-----------------------------------------------------------------------------
LEMMA RateInitOK == ASSUME Rate!RateAssumption PROVE Rate!Init => RateInv
<1>1. RateGain(0) = 0
  BY RateGains
<1> QED  BY <1>1 DEF Rate!Init, Rate!Unknown, RateInv, Rate!TypeOK, RateClocksOK, RateBucketOK, RateUnknownOK

LEMMA RateReadClockOK ==
    ASSUME Rate!RateAssumption, RateInv, NEW g \in Callers, Rate!ReadClock(g)
    PROVE  RateInv'
<1>1. Rate!TypeOK'
  BY DEF RateInv, Rate!TypeOK, Rate!ReadClock, Rate!accounts
<1>2. RateClocksOK'
  BY DEF RateInv, Rate!TypeOK, RateClocksOK, Rate!ReadClock, Rate!accounts, Rate!RateAssumption
<1>3. ASSUME NEW c \in Clients  PROVE RateBucketOK(bucket[c], spent[c], forgotten[c])'
  BY DEF RateInv, Rate!ReadClock, Rate!accounts, RateBucketOK, RateKnownOK, RateUnknownOK
<1> QED  BY <1>1, <1>2, <1>3 DEF RateInv

LEMMA RateAllowOK ==
    ASSUME Rate!RateAssumption, RateInv, NEW g \in Callers, NEW c \in Clients, Rate!Allow(g, c)
    PROVE  RateInv'
<1> DEFINE t == caller[g].read
           kept == Rate!Cleaned(t)
           n == IF kept[c].known THEN Rate!Refilled(kept[c], t) ELSE Full
           admit == n >= Cost \/ ~kept[c].known
<1>1. /\ t \in Nat /\ t <= rateNow /\ rateNow <= t + Delay
      /\ rateNow \in Nat /\ from \in Nat /\ from <= rateNow
      /\ \A d \in Clients : bucket[d] \in RateABucket /\ spent[d] \in Nat /\ forgotten[d] \in Nat
                              /\ RateBucketOK(bucket[d], spent[d], forgotten[d])
      /\ Cost \in Nat /\ Full \in Nat /\ Cost <= Full
  BY DEF RateInv, Rate!TypeOK, RateClocksOK, Rate!Allow, RateABucket, Rate!RateAssumption
<1>2. ASSUME NEW d \in Clients
      PROVE  /\ kept[d] \in RateABucket /\ forgotten'[d] \in Nat
             /\ RateBucketOK(kept[d], spent[d], forgotten'[d])
  <2>1. /\ kept[d] = IF Rate!Expired(bucket[d], t) THEN Rate!Unknown ELSE bucket[d]
        /\ forgotten'[d] = IF Rate!Expired(bucket[d], t) THEN forgotten[d] + 1 ELSE forgotten[d]
    BY DEF Rate!Cleaned, Rate!Allow
  <2>2. CASE Rate!Expired(bucket[d], t)
    <3>1. RateBucketOK(Rate!Unknown, spent[d], forgotten[d] + 1)
      BY <1>1, <2>2, RateKeptOK
    <3> QED  BY <1>1, <2>1, <2>2, <3>1 DEF Rate!Unknown, RateABucket
  <2>3. CASE ~Rate!Expired(bucket[d], t)
    BY <1>1, <2>1, <2>3
  <2> QED  BY <2>2, <2>3
<1>3. n \in Int
  BY <1>1, <1>2 DEF Rate!Refilled, Rate!Least, RateABucket
<1>4. /\ bucket' = [kept EXCEPT ![c] = Rate!Bucket(IF admit THEN n - Cost ELSE n, t)]
      /\ spent'  = IF admit THEN [spent EXCEPT ![c] = @ + Cost] ELSE spent
      /\ caller' = [caller EXCEPT ![g] = [pc |-> "idle", read |-> 0]]
      /\ rateNow' = rateNow /\ from' = from
  BY DEF Rate!Allow
<1>5. /\ bucket'[c] = Rate!Bucket(IF admit THEN n - Cost ELSE n, t)
      /\ spent'[c] = IF admit THEN spent[c] + Cost ELSE spent[c]
      /\ \A d \in Clients \ {c} : bucket'[d] = kept[d] /\ spent'[d] = spent[d]
  <2> HIDE DEF n, admit
  <2>1. DOMAIN kept = Clients
    BY DEF Rate!Cleaned
  <2>2. DOMAIN spent = Clients
    BY DEF RateInv, Rate!TypeOK
  <2> QED  BY <1>4, <2>1, <2>2
<1>6. Rate!TypeOK'
  <2>1. spent' \in [Clients -> Nat]
    BY <1>1, <1>4 DEF RateInv, Rate!TypeOK
  <2>4. forgotten' \in [Clients -> Nat]
    BY <1>1 DEF Rate!Allow
  <2>2. bucket' \in [Clients -> RateABucket]
    <3> HIDE DEF admit, n
    <3>1. Rate!Bucket(IF admit THEN n - Cost ELSE n, t) \in RateABucket
      BY <1>1, <1>3 DEF Rate!Bucket, RateABucket
    <3>2. kept \in [Clients -> RateABucket]
      BY <1>2 DEF Rate!Cleaned
    <3> HIDE DEF kept
    <3> QED  BY <1>4, <3>1, <3>2
  <2>3. caller' \in [Callers -> [pc : {"idle", "allow"}, read : Nat]]
    BY <1>4 DEF RateInv, Rate!TypeOK
  <2> QED  BY <1>1, <1>4, <2>1, <2>2, <2>3, <2>4 DEF Rate!TypeOK, RateABucket
<1>7. RateClocksOK'
  BY <1>1, <1>4 DEF RateInv, Rate!TypeOK, RateClocksOK
<1>8. ASSUME NEW d \in Clients  PROVE RateBucketOK(bucket[d], spent[d], forgotten[d])'
  <2>1. CASE d # c
    BY <1>2, <1>4, <1>5, <2>1 DEF RateBucketOK, RateKnownOK, RateUnknownOK
  <2>2. CASE d = c /\ kept[c].known
    <3>1. RateKnownOK(kept[c], spent[c], forgotten'[c])
      BY <1>2, <2>2 DEF RateBucketOK
    <3>6. forgotten'[c] \in Nat /\ (forgotten'[c] > 0 => (forgotten'[c] - 1) * RatePeriod <= rateNow - from)
      BY <1>2 DEF RateBucketOK
    <3>2. n = Rate!Refilled(kept[c], t) /\ (admit <=> n >= Cost)
      BY <2>2
    <3>3. /\ n >= Cost => RateKnownOK(Rate!Bucket(n - Cost, t), spent[c] + Cost, forgotten'[c])
          /\ n < Cost  => RateKnownOK(Rate!Bucket(n, t), spent[c], forgotten'[c])
      <4> HIDE DEF n, kept, t
      <4> QED  BY <1>1, <1>2, <1>3, <3>1, <3>2, <3>6, RateKnownAllowOK
    <3>4. RateKnownOK(bucket'[c], spent'[c], forgotten'[c])
      <4> HIDE DEF n, kept, t, admit
      <4>1. CASE n >= Cost
        <5>1. bucket'[c] = Rate!Bucket(n - Cost, t) /\ spent'[c] = spent[c] + Cost
          BY <1>5, <3>2, <4>1
        <5> QED  BY <3>3, <4>1, <5>1
      <4>2. CASE n < Cost
        <5>1. bucket'[c] = Rate!Bucket(n, t) /\ spent'[c] = spent[c]
          BY <1>1, <1>3, <1>5, <3>2, <4>2
        <5> QED  BY <3>3, <4>2, <5>1
      <4> QED  BY <1>1, <1>3, <4>1, <4>2
    <3>5. bucket'[c].known
      BY <1>5 DEF Rate!Bucket
    <3> QED  BY <1>4, <2>2, <3>4, <3>5, <3>6 DEF RateBucketOK, RateKnownOK
  <2>3. CASE d = c /\ ~kept[c].known
    <3>1. RateUnknownOK(spent[c], forgotten'[c])
      BY <1>2, <2>3 DEF RateBucketOK
    <3>6. forgotten'[c] \in Nat /\ (forgotten'[c] > 0 => (forgotten'[c] - 1) * RatePeriod <= rateNow - from)
      BY <1>2 DEF RateBucketOK
    <3>2. n = Full /\ admit
      BY <2>3
    <3>3. RateKnownOK(bucket'[c], spent'[c], forgotten'[c])
      BY <1>1, <1>5, <3>1, <3>2, <3>6, RateUnknownAllowOK
    <3>4. bucket'[c].known
      BY <1>5 DEF Rate!Bucket
    <3> QED  BY <1>4, <2>3, <3>3, <3>4, <3>6 DEF RateBucketOK, RateKnownOK
  <2> QED  BY <2>1, <2>2, <2>3
<1> QED  BY <1>6, <1>7, <1>8 DEF RateInv

LEMMA RateBeginAccountingOK ==
    ASSUME Rate!RateAssumption, RateInv, Rate!BeginAccounting
    PROVE  RateInv'
<1>1. Rate!TypeOK' /\ RateClocksOK'
  BY DEF RateInv, Rate!TypeOK, RateClocksOK, Rate!BeginAccounting
<1>2. ASSUME NEW c \in Clients  PROVE RateBucketOK(bucket[c], spent[c], forgotten[c])'
  <2>1. /\ bucket' = bucket /\ rateNow' = rateNow /\ rateNow \in Nat /\ from' = rateNow
        /\ spent'[c] = 0 /\ forgotten'[c] = 0 /\ RateGain(0) = 0
    BY RateGains DEF RateInv, Rate!TypeOK, Rate!BeginAccounting
  <2> QED  BY <2>1 DEF RateInv, RateBucketOK, RateKnownOK, RateUnknownOK
<1> QED  BY <1>1, <1>2 DEF RateInv

LEMMA RateTickOK ==
    ASSUME Rate!RateAssumption, RateInv, Rate!Tick
    PROVE  RateInv'
<1>1. Rate!TypeOK'
  BY DEF RateInv, Rate!TypeOK, Rate!Tick, Rate!accounts
<1>2. RateClocksOK'
  BY DEF RateInv, Rate!TypeOK, RateClocksOK, Rate!Tick, Rate!accounts, Rate!RateAssumption
<1>3. ASSUME NEW c \in Clients  PROVE RateBucketOK(bucket[c], spent[c], forgotten[c])'
  <2>1. bucket[c] \in RateABucket /\ spent[c] \in Nat /\ forgotten[c] \in Nat
        /\ rateNow \in Nat /\ from \in Nat /\ RateGain(forgotten[c]) \in Nat
        /\ (forgotten[c] - 1) * RatePeriod \in Int
    BY RateGains DEF RateInv, Rate!TypeOK, RateABucket
  <2> QED  BY <2>1 DEF RateInv, Rate!Tick, Rate!accounts, RateBucketOK, RateKnownOK, RateUnknownOK, RateABucket
<1> QED  BY <1>1, <1>2, <1>3 DEF RateInv

LEMMA RateStepOK ==
    ASSUME Rate!RateAssumption, RateInv, [Rate!Next]_rateVars
    PROVE  RateInv'
<1>1. CASE UNCHANGED rateVars
  BY <1>1 DEF rateVars, RateInv, Rate!TypeOK, RateClocksOK, RateBucketOK, RateKnownOK,
              RateUnknownOK
<1>2. CASE Rate!Next
  BY <1>2, RateReadClockOK, RateAllowOK, RateBeginAccountingOK, RateTickOK DEF Rate!Next
<1> QED  BY <1>1, <1>2

LEMMA RateInvariantOK == ASSUME Rate!RateAssumption PROVE Rate!Spec => []RateInv
BY RateInitOK, RateStepOK, PTL DEF Rate!Spec, rateVars, Rate!vars, Rate!accounts

-----------------------------------------------------------------------------
LEMMA RateInvBounds ==
    ASSUME Rate!RateAssumption, RateInv
    PROVE  Rate!AdmissionBounded
<1> SUFFICES ASSUME NEW c \in Clients
             PROVE  /\ spent[c] <= Full + (rateNow - from) + Delay + RateGain(forgotten[c])
                    /\ forgotten[c] > 0 => (forgotten[c] - 1) * RatePeriod <= rateNow - from
  BY DEF Rate!AdmissionBounded, RateGain, RatePeriod
<1>1. /\ bucket[c] \in RateABucket /\ spent[c] \in Nat /\ forgotten[c] \in Nat
      /\ rateNow \in Nat /\ from \in Nat /\ from <= rateNow /\ RateBucketOK(bucket[c], spent[c], forgotten[c])
  BY DEF RateInv, Rate!TypeOK, RateClocksOK, RateABucket
<1>2. RateGain(forgotten[c]) \in Nat /\ Full \in Nat /\ Delay \in Nat
  BY <1>1, RateGains DEF Rate!RateAssumption
<1> QED  BY <1>1, <1>2 DEF RateBucketOK, RateKnownOK, RateUnknownOK, RateABucket

-----------------------------------------------------------------------------
(* CircuitBreaker: how long the circuit stays open.                        *)

\* An attempt under way began in time: each one before it, the first one
\* included, took no longer than Timeout.
AiAttemptOK(c) ==
    Ai!Sending(c) =>
        /\ call[c].sent <= aiNow /\ aiNow <= call[c].sent + Timeout
        /\ call[c].sent <= admitted + call[c].attempt * Timeout

AiInv ==
    /\ Ai!TypeOK
    /\ admitted <= aiNow
    /\ Ai!OpenEndsInTime
    /\ \A c \in Calls : AiAttemptOK(c)

-----------------------------------------------------------------------------
\* One more attempt takes one more Timeout at most.
LEMMA AiAttempts ==
    ASSUME NEW n \in Nat, NEW T \in Nat
    PROVE  /\ n * T \in Nat
           /\ (n + 1) * T = n * T + T
OBVIOUS

\* Attempts within the budget take no longer than the whole budget.
LEMMA AiBudget ==
    ASSUME NEW n \in Nat, NEW m \in Nat, NEW T \in Nat, n <= m
    PROVE  n * T <= m * T
<1>1. PICK d \in Nat : m = n + d
  <2>1. m - n \in Nat /\ m = n + (m - n)
    OBVIOUS
  <2> QED  BY <2>1
<1>2. (n + d) * T = n * T + d * T
  OBVIOUS
<1>3. d * T \in Nat /\ n * T \in Nat
  BY AiAttempts
<1> QED  BY <1>1, <1>2, <1>3

LEMMA AiInitOK == ASSUME Ai!BreakerAssumption PROVE Ai!Init => AiInv
<1> SUFFICES ASSUME Ai!Init PROVE AiInv
  OBVIOUS
<1>1. Ai!TypeOK
  BY DEF Ai!Init, Ai!Rest, Ai!TypeOK, Ai!BreakerAssumption
<1>2. Ai!OpenEndsInTime
  <2>1. (RetryMax + 1) * Timeout \in Nat
    BY AiAttempts DEF Ai!BreakerAssumption
  <2> QED  BY <2>1 DEF Ai!Init, Ai!OpenEndsInTime, Ai!BreakerAssumption
<1> QED  BY <1>1, <1>2 DEF Ai!Init, Ai!Rest, AiInv, AiAttemptOK, Ai!Sending, Ai!BreakerAssumption

-----------------------------------------------------------------------------
\* A call that is let through starts a new time within which everything ends.
LEMMA AiAdmitOK ==
    ASSUME Ai!BreakerAssumption, AiInv, NEW c \in Calls,
           Ai!Send(c, 0), admitted' = aiNow, aiNow' = aiNow,
           openUntil' = openUntil \/ openUntil' = 0,
           failures' \in Nat
    PROVE  AiInv'
<1> DEFINE All == (RetryMax + 1) * Timeout
<1>1. All \in Nat /\ 0 * Timeout = 0
  BY AiAttempts DEF Ai!BreakerAssumption
<1>2. Ai!TypeOK'
  BY DEF AiInv, Ai!TypeOK, Ai!Send, Ai!BreakerAssumption
<1>3. Ai!OpenEndsInTime'
  <2>1. openUntil <= admitted + All + ResetDuration
    BY DEF AiInv, Ai!OpenEndsInTime
  <2> HIDE DEF All
  <2>2. openUntil' <= admitted' + All + ResetDuration
    BY <2>1, <1>1 DEF AiInv, Ai!TypeOK, Ai!BreakerAssumption
  <2> QED  BY <2>2 DEF Ai!OpenEndsInTime, All
<1>4. ASSUME NEW d \in Calls PROVE AiAttemptOK(d)'
  <2>1. CASE d = c
    BY <2>1, <1>1 DEF AiAttemptOK, Ai!Sending, Ai!Send, AiInv, Ai!TypeOK, Ai!BreakerAssumption
  <2>2. CASE d # c
    <3>1. call'[d] = call[d] /\ call[d].attempt \in Nat
      BY <2>2 DEF Ai!Send, AiInv, Ai!TypeOK, Ai!BreakerAssumption
    <3>2. call[d].attempt * Timeout \in Nat
      BY <3>1, AiAttempts DEF Ai!BreakerAssumption
    <3> QED  BY <3>1, <3>2 DEF AiAttemptOK, Ai!Sending, AiInv, Ai!TypeOK, Ai!BreakerAssumption
  <2> QED  BY <2>1, <2>2
<1> QED  BY <1>2, <1>3, <1>4 DEF AiInv, Ai!TypeOK

\* A failure opens the breaker for no longer than the bound, because it is one
\* of a call that was let through and has not used up its attempts.
LEMMA AiFailOK ==
    ASSUME Ai!BreakerAssumption, AiInv, NEW c \in Calls, Ai!Sending(c), Ai!Fail,
           UNCHANGED <<aiNow, admitted>>
    PROVE  Ai!OpenEndsInTime' /\ failures' \in Nat /\ openUntil' \in 0 .. MaxAiTime + ResetDuration
<1> DEFINE All == (RetryMax + 1) * Timeout
<1> DEFINE n == call[c].attempt
<1>1. /\ n \in Nat /\ n <= RetryMax /\ call[c].sent \in Nat
      /\ aiNow \in Nat /\ aiNow <= MaxAiTime /\ admitted \in Nat /\ openUntil \in Nat
      /\ openUntil <= MaxAiTime + ResetDuration /\ failures \in Nat
  BY DEF AiInv, Ai!TypeOK, Ai!BreakerAssumption
<1>2. n * Timeout \in Nat /\ (n + 1) * Timeout = n * Timeout + Timeout
  BY <1>1, AiAttempts DEF Ai!BreakerAssumption
<1>3. (n + 1) * Timeout <= All /\ All \in Nat
  BY <1>1, AiBudget, AiAttempts DEF Ai!BreakerAssumption
<1>4. aiNow <= call[c].sent + Timeout /\ call[c].sent <= admitted + n * Timeout
  BY DEF AiInv, AiAttemptOK
<1>5. openUntil <= admitted + All + ResetDuration
  BY DEF AiInv, Ai!OpenEndsInTime
<1> HIDE DEF All, n
<1>6. aiNow <= admitted + All
  BY <1>1, <1>2, <1>3, <1>4 DEF Ai!BreakerAssumption
<1>7. openUntil' <= admitted' + All + ResetDuration
  BY <1>1, <1>3, <1>5, <1>6 DEF Ai!Fail, Ai!BreakerAssumption
<1>8. failures' \in Nat /\ openUntil' \in 0 .. MaxAiTime + ResetDuration
  BY <1>1 DEF Ai!Fail, Ai!BreakerAssumption
<1> QED  BY <1>7, <1>8 DEF Ai!OpenEndsInTime, All

\* A call that returns leaves nothing to keep.
LEMMA AiReturnOK ==
    ASSUME Ai!BreakerAssumption, AiInv, NEW c \in Calls, Ai!Return(c),
           UNCHANGED <<aiNow, admitted>>,
           Ai!OpenEndsInTime', failures' \in Nat, openUntil' \in 0 .. MaxAiTime + ResetDuration
    PROVE  AiInv'
<1>1. Ai!TypeOK'
  BY DEF AiInv, Ai!TypeOK, Ai!Return, Ai!Rest, Ai!BreakerAssumption
<1>2. ASSUME NEW d \in Calls PROVE AiAttemptOK(d)'
  BY DEF AiAttemptOK, Ai!Sending, Ai!Return, Ai!Rest, AiInv, Ai!TypeOK
<1> QED  BY <1>1, <1>2 DEF AiInv

LEMMA AiRetryOK ==
    ASSUME Ai!BreakerAssumption, AiInv, NEW c \in Calls, Ai!Sending(c),
           call[c].attempt < RetryMax, Ai!Send(c, call[c].attempt + 1),
           UNCHANGED <<aiNow, admitted>>,
           Ai!OpenEndsInTime', failures' \in Nat, openUntil' \in 0 .. MaxAiTime + ResetDuration
    PROVE  AiInv'
<1> DEFINE n == call[c].attempt
<1>1. n \in Nat /\ n + 1 \in 0 .. RetryMax /\ call[c].sent \in Nat /\ aiNow \in Nat /\ admitted \in Nat
  BY DEF AiInv, Ai!TypeOK, Ai!BreakerAssumption
<1>2. n * Timeout \in Nat /\ (n + 1) * Timeout = n * Timeout + Timeout
  BY <1>1, AiAttempts DEF Ai!BreakerAssumption
<1>3. Ai!TypeOK'
  BY <1>1 DEF AiInv, Ai!TypeOK, Ai!Send, Ai!BreakerAssumption
<1>4. ASSUME NEW d \in Calls PROVE AiAttemptOK(d)'
  <2>1. CASE d = c
    <3>1. aiNow <= call[c].sent + Timeout /\ call[c].sent <= admitted + n * Timeout
      BY DEF AiInv, AiAttemptOK
    <3>2. aiNow <= admitted + (n + 1) * Timeout
      BY <3>1, <1>1, <1>2 DEF Ai!BreakerAssumption
    <3>3. call'[c] = [pc |-> "sending", attempt |-> n + 1, sent |-> aiNow]
      BY DEF Ai!Send, AiInv, Ai!TypeOK
    <3> QED  BY <2>1, <3>2, <3>3, <1>1 DEF AiAttemptOK, Ai!Sending, Ai!BreakerAssumption
  <2>2. CASE d # c
    <3>1. call'[d] = call[d]
      BY <2>2 DEF Ai!Send, AiInv, Ai!TypeOK
    <3> QED  BY <3>1 DEF AiAttemptOK, Ai!Sending, AiInv
  <2> QED  BY <2>1, <2>2
<1> QED  BY <1>3, <1>4 DEF AiInv

-----------------------------------------------------------------------------
LEMMA AiStepOK == ASSUME Ai!BreakerAssumption, AiInv, [Ai!Next]_aiVars PROVE AiInv'
<1> DEFINE All == (RetryMax + 1) * Timeout
<1>0. All \in Nat
  BY AiAttempts DEF Ai!BreakerAssumption
<1>1. ASSUME NEW c \in Calls, Ai!LetThrough(c) PROVE AiInv'
  BY <1>1, AiAdmitOK DEF Ai!LetThrough, AiInv, Ai!TypeOK
<1>2. ASSUME NEW c \in Calls, Ai!LetThroughAgain(c) PROVE AiInv'
  BY <1>2, AiAdmitOK DEF Ai!LetThroughAgain
<1>3. ASSUME NEW c \in Calls, Ai!AttemptFails(c) PROVE AiInv'
  <2>1. Ai!OpenEndsInTime' /\ failures' \in Nat /\ openUntil' \in 0 .. MaxAiTime + ResetDuration
    BY <1>3, AiFailOK DEF Ai!AttemptFails
  <2>2. CASE call[c].attempt < RetryMax
    BY <1>3, <2>1, <2>2, AiRetryOK DEF Ai!AttemptFails
  <2>3. CASE ~(call[c].attempt < RetryMax)
    BY <1>3, <2>1, <2>3, AiReturnOK DEF Ai!AttemptFails
  <2> QED  BY <2>2, <2>3
<1>4. ASSUME NEW c \in Calls, Ai!Refused(c) PROVE AiInv'
  <2>1. Ai!OpenEndsInTime' /\ failures' \in Nat /\ openUntil' \in 0 .. MaxAiTime + ResetDuration
    BY <1>4 DEF Ai!Refused, AiInv, Ai!TypeOK, Ai!OpenEndsInTime
  <2> QED  BY <1>4, <2>1, AiReturnOK DEF Ai!Refused
<1>5. ASSUME NEW c \in Calls, Ai!Garbled(c) PROVE AiInv'
  <2>1. Ai!OpenEndsInTime' /\ failures' \in Nat /\ openUntil' \in 0 .. MaxAiTime + ResetDuration
    BY <1>5, AiFailOK DEF Ai!Garbled
  <2> QED  BY <1>5, <2>1, AiReturnOK DEF Ai!Garbled
<1>6. ASSUME NEW c \in Calls, Ai!Answered(c) PROVE AiInv'
  <2>1. openUntil' = 0 /\ failures' = 0 /\ admitted' = admitted
    BY <1>6 DEF Ai!Answered, Ai!Success
  <2>2. openUntil' <= admitted' + All + ResetDuration
    BY <2>1, <1>0 DEF AiInv, Ai!TypeOK, Ai!BreakerAssumption
  <2>3. Ai!OpenEndsInTime' /\ failures' \in Nat /\ openUntil' \in 0 .. MaxAiTime + ResetDuration
    BY <2>1, <2>2 DEF Ai!OpenEndsInTime, Ai!BreakerAssumption
  <2> QED  BY <1>6, <2>3, AiReturnOK DEF Ai!Answered
<1>7. CASE Ai!Tick
  <2>1. Ai!TypeOK' /\ (admitted <= aiNow)' /\ Ai!OpenEndsInTime'
    BY <1>7 DEF Ai!Tick, AiInv, Ai!TypeOK, Ai!OpenEndsInTime, Ai!BreakerAssumption
  <2>2. ASSUME NEW c \in Calls PROVE AiAttemptOK(c)'
    BY <1>7 DEF Ai!Tick, AiInv, Ai!TypeOK, AiAttemptOK, Ai!Sending, Ai!BreakerAssumption
  <2> QED  BY <2>1, <2>2 DEF AiInv
<1>8. CASE UNCHANGED aiVars
  BY <1>8 DEF aiVars, AiInv, Ai!TypeOK, Ai!OpenEndsInTime, AiAttemptOK, Ai!Sending
<1> QED  BY <1>1, <1>2, <1>3, <1>4, <1>5, <1>6, <1>7, <1>8 DEF Ai!Next, Ai!TurnAway, aiVars,
                                                            Ai!vars

LEMMA AiInvariantOK == ASSUME Ai!BreakerAssumption PROVE Ai!Spec => []AiInv
BY AiInitOK, AiStepOK, PTL DEF Ai!Spec, aiVars, Ai!vars

-----------------------------------------------------------------------------
(* JwksCache: how long a withdrawn key lives on in the caches.             *)

\* A fetch under way is not over its time, and what it brought was the issuer's
\* key when it began or later.
JwksFetchOK(q) ==
    q.pc \in {"fetch", "store", "stamp", "look"} =>
        /\ q.token \in 1 .. key
        /\ q.asked <= keyNow /\ keyNow <= q.asked + FetchTimeout
        /\ q.pc = "stamp" => python
        /\ q.pc = "store" => q.got \in 1 .. key
        /\ q.pc = "store" /\ q.got < key => q.asked <= replaced[q.got]

\* While a withdrawn key is cached, a request that has stored and not looked
\* yet began no later than the fetch that brought the key could end.
JwksStoredOK(q) ==
    q.pc \in {"stamp", "look"} =>
        /\ keys.key # 0
        /\ keys.key < key => q.asked <= replaced[keys.key] + FetchTimeout

JwksAcceptedOK(q) ==
    q.pc = "accepted" =>
        /\ q.token \in 1 .. key /\ q.at <= keyNow
        /\ q.token < key /\ ~(python /\ q.fallback) =>
               q.at < replaced[q.token] + KeyTTL + 2 * FetchTimeout

JwksReqOK(q) == JwksFetchOK(q) /\ JwksStoredOK(q) /\ JwksAcceptedOK(q)

\* A withdrawn key's entry: Go sets the expiry with the key, Python may renew it
\* once more.
JwksCacheOK ==
    /\ keys.key <= key
    /\ keys.until <= keyNow + KeyTTL
    /\ keys.key # 0 /\ keys.key < key =>
        keys.until <= replaced[keys.key] + KeyTTL
                           + IF python THEN 2 * FetchTimeout ELSE FetchTimeout

JwksInv ==
    /\ Jwks!TypeOK
    /\ JwksCacheOK
    /\ \A k \in 1 .. key : k < key => replaced[k] <= keyNow
    /\ \A r \in Verifiers : JwksReqOK(keyReq[r])

JwksBusy4  == {"fetch", "store", "stamp", "look"}
JwksLabels == JwksBusy4 \cup {"idle", "accepted", "unknown", "unavailable"}
JwksKeys   == 0 .. MaxKey
JwksTimes  == 0 .. MaxKeyTime
JwksStates == [pc : JwksLabels, token : JwksKeys, asked : JwksTimes, got : JwksKeys, at : JwksTimes,
           again : BOOLEAN, overtaken : BOOLEAN, fallback : BOOLEAN]

-----------------------------------------------------------------------------
\* The type invariant, as the lemmas use it.
JwksView ==
    /\ python   \in BOOLEAN
    /\ keyNow      \in JwksTimes
    /\ key      \in 1 .. MaxKey
    /\ replaced \in [1 .. MaxKey -> JwksTimes]
    /\ keys    \in [key : JwksKeys, until : Nat]
    /\ keyReq      \in [Verifiers -> JwksStates]

LEMMA JwksTyped == (Jwks!TypeOK <=> JwksView) /\ (Jwks!TypeOK <=> JwksView)'
<1>1. /\ Jwks!TypeOK <=> JwksView
      /\ Jwks!TypeOK' <=> JwksView'
  BY DEF Jwks!TypeOK, JwksView, JwksStates, JwksLabels, JwksBusy4, JwksKeys, JwksTimes
<1> QED  BY <1>1

LEMMA JwksBounds ==
    ASSUME Jwks!JwksAssumption
    PROVE  /\ JwksKeys \subseteq Nat /\ JwksTimes \subseteq Nat /\ 1 .. MaxKey \subseteq JwksKeys
           /\ 0 \in JwksKeys /\ 0 \in JwksTimes
           /\ MaxKeyTime \in Nat /\ MaxKey \in Nat /\ KeyTTL \in Nat /\ KeyTTL > 0 /\ FetchTimeout \in Nat
BY DEF Jwks!JwksAssumption, JwksKeys, JwksTimes

LEMMA JwksInitOK == ASSUME Jwks!JwksAssumption PROVE Jwks!Init => JwksInv
BY DEF Jwks!JwksAssumption, Jwks!Init, Jwks!Idle, JwksInv, Jwks!TypeOK, JwksCacheOK, JwksReqOK,
       JwksFetchOK, JwksStoredOK, JwksAcceptedOK

\* A step that changes one request and neither key, clock nor cache.
LEMMA JwksOneOK ==
    ASSUME Jwks!JwksAssumption, JwksInv, NEW r \in Verifiers, NEW s \in JwksStates, JwksReqOK(s),
           Jwks!Put(r, s), UNCHANGED <<python, keyNow, key, replaced, keys>>
    PROVE  JwksInv'
<1>1. Jwks!TypeOK'
  BY DEF JwksInv, Jwks!TypeOK, Jwks!Put, JwksStates, JwksBusy4, JwksLabels, JwksKeys, JwksTimes
<1>2. ASSUME NEW q \in Verifiers PROVE JwksReqOK(keyReq[q])'
  <2>1. JwksReqOK(keyReq'[q])
    BY DEF JwksInv, Jwks!TypeOK, Jwks!Put
  <2> QED  BY <2>1 DEF JwksReqOK, JwksFetchOK, JwksStoredOK, JwksAcceptedOK
<1> QED  BY <1>1, <1>2 DEF JwksInv, JwksCacheOK

\* Whatever is known of one request in any state, spelled out.
LEMMA JwksKnown ==
    ASSUME Jwks!JwksAssumption, JwksInv, NEW r \in Verifiers
    PROVE  /\ keyReq[r] \in JwksStates /\ JwksReqOK(keyReq[r])
           /\ keyNow \in 0 .. MaxKeyTime /\ key \in 1 .. MaxKey
           /\ replaced \in [1 .. MaxKey -> 0 .. MaxKeyTime]
           /\ keys \in [key : 0 .. MaxKey, until : Nat]
           /\ KeyTTL \in Nat /\ KeyTTL > 0 /\ FetchTimeout \in Nat /\ MaxKeyTime \in Nat /\ MaxKey \in Nat
           /\ python \in BOOLEAN
BY DEF Jwks!JwksAssumption, JwksInv, Jwks!TypeOK, JwksStates, JwksBusy4, JwksLabels, JwksKeys,
       JwksTimes

\* A decision: accepted in time, or anything else.
LEMMA JwksDecideOK ==
    ASSUME Jwks!JwksAssumption, JwksInv, NEW s \in JwksStates,
           s.pc \in {"accepted", "unknown", "unavailable"}, s.token \in 1 .. key, s.at = keyNow,
           s.pc = "accepted" /\ s.token < key /\ ~(python /\ s.fallback) =>
               keyNow < replaced[s.token] + KeyTTL + 2 * FetchTimeout
    PROVE  JwksReqOK(s)
<1>1. JwksFetchOK(s) /\ JwksStoredOK(s)
  BY DEF JwksFetchOK, JwksStoredOK
<1>2. keyNow \in 0 .. MaxKeyTime /\ MaxKeyTime \in Nat
  BY DEF JwksInv, Jwks!TypeOK, Jwks!JwksAssumption
<1>3. JwksAcceptedOK(s)
  BY <1>2 DEF JwksAcceptedOK
<1> QED  BY <1>1, <1>3 DEF JwksReqOK

\* The fields of what Decide keeps.
LEMMA JwksDecideIs ==
    ASSUME Jwks!JwksAssumption, JwksInv, NEW r \in Verifiers,
           NEW v \in {"accepted", "unknown", "unavailable"}
    PROVE  /\ Jwks!Decide(r, v) \in JwksStates
           /\ Jwks!Decide(r, v).pc = v /\ Jwks!Decide(r, v).at = keyNow
           /\ Jwks!Decide(r, v).token = keyReq[r].token /\ Jwks!Decide(r, v).fallback = FALSE
<1>1. keyReq[r] \in JwksStates /\ keyNow \in 0 .. MaxKeyTime /\ MaxKeyTime \in Nat /\ MaxKey \in Nat
  BY JwksKnown
<1>2. /\ Jwks!Decide(r, v).pc = v /\ Jwks!Decide(r, v).at = keyNow
      /\ Jwks!Decide(r, v).token = keyReq[r].token /\ Jwks!Decide(r, v).fallback = FALSE
  BY DEF Jwks!Decide, Jwks!Idle
<1>3. v \in JwksLabels /\ 0 \in JwksKeys /\ 0 \in JwksTimes /\ keyNow \in JwksTimes
  BY <1>1 DEF JwksLabels, JwksKeys, JwksTimes
<1>4. Jwks!Decide(r, v) \in JwksStates
  BY <1>1, <1>3 DEF Jwks!Decide, Jwks!Idle, JwksStates
<1> QED  BY <1>2, <1>4

\* A fetch that begins, or begins again, for a key the issuer has had.
LEMMA JwksFetchingOK ==
    ASSUME Jwks!JwksAssumption, JwksInv, NEW r \in Verifiers, NEW k \in 1 .. key,
           NEW s \in JwksStates, s.pc = "fetch", s.token = k, s.asked = keyNow
    PROVE  JwksReqOK(s)
<1>1. keyNow \in 0 .. MaxKeyTime /\ MaxKeyTime \in Nat /\ FetchTimeout \in Nat
  BY JwksKnown
<1>2. JwksFetchOK(s)
  BY <1>1 DEF JwksFetchOK
<1>3. JwksStoredOK(s) /\ JwksAcceptedOK(s)
  BY DEF JwksStoredOK, JwksAcceptedOK
<1> QED  BY <1>2, <1>3 DEF JwksReqOK

\* What is known of a request between the beginning of a fetch and its end.
LEMMA JwksBusyKnown ==
    ASSUME Jwks!JwksAssumption, JwksInv, NEW r \in Verifiers, keyReq[r].pc \in JwksBusy4
    PROVE  /\ keyReq[r].token \in 1 .. key /\ keyReq[r].asked \in 0 .. MaxKeyTime
           /\ keyReq[r].asked <= keyNow /\ keyNow <= keyReq[r].asked + FetchTimeout
           /\ keyReq[r].pc = "stamp" => python
           /\ keyReq[r].pc = "store" => keyReq[r].got \in 1 .. key
           /\ keyReq[r].pc = "store" /\ keyReq[r].got < key => keyReq[r].asked <= replaced[keyReq[r].got]
           /\ keyReq[r].pc \in {"stamp", "look"} => keys.key # 0
           /\ keyReq[r].pc \in {"stamp", "look"} /\ keys.key < key =>
                keyReq[r].asked <= replaced[keys.key] + FetchTimeout
<1>1. keyReq[r] \in JwksStates /\ JwksFetchOK(keyReq[r]) /\ JwksStoredOK(keyReq[r])
  BY JwksKnown DEF JwksReqOK
<1>2. keyReq[r].asked \in 0 .. MaxKeyTime
  BY <1>1 DEF JwksStates, JwksTimes
<1> QED  BY <1>1, <1>2 DEF JwksFetchOK, JwksStoredOK, JwksBusy4

-----------------------------------------------------------------------------
LEMMA JwksBeginOK ==
    ASSUME Jwks!JwksAssumption, JwksInv, NEW r \in Verifiers, NEW k \in 1 .. key, Jwks!Begin(r, k)
    PROVE  JwksInv'
<1>1. /\ keyReq[r] \in JwksStates
      /\ keyNow \in 0 .. MaxKeyTime /\ key \in 1 .. MaxKey /\ MaxKeyTime \in Nat /\ MaxKey \in Nat
      /\ KeyTTL \in Nat /\ FetchTimeout \in Nat
      /\ replaced \in [1 .. MaxKey -> 0 .. MaxKeyTime]
      /\ keys \in [key : 0 .. MaxKey, until : Nat]
  BY JwksKnown
<1>2. k \in 1 .. MaxKey /\ k \in JwksKeys /\ keyNow \in JwksTimes /\ "fetch" \in JwksLabels
  BY <1>1 DEF JwksKeys, JwksTimes, JwksLabels, JwksBusy4
<1>3. CASE keys.key = k /\ Jwks!Fresh
  <2> DEFINE d == Jwks!Decide(r, "accepted")
             s == [d EXCEPT !.token = k]
  <2>1. d \in JwksStates /\ d.pc = "accepted" /\ d.at = keyNow /\ d.fallback = FALSE
    BY JwksDecideIs
  <2> HIDE DEF d
  <2>2. /\ s \in JwksStates
        /\ s.pc = "accepted" /\ s.at = keyNow /\ s.token = k
    BY <1>1, <1>2, <2>1 DEF JwksStates
  <2>3. k < key => keyNow < replaced[k] + KeyTTL + 2 * FetchTimeout
    <3>1. JwksCacheOK
      BY DEF JwksInv
    <3>2. k < key => keys.until <= replaced[k] + KeyTTL + 2 * FetchTimeout
      BY <1>1, <1>2, <1>3, <3>1 DEF JwksCacheOK
    <3> QED  BY <1>1, <1>2, <1>3, <3>2 DEF Jwks!Fresh
  <2> HIDE DEF s
  <2>4. JwksReqOK(s)
    BY <2>2, <2>3, JwksDecideOK
  <2>5. Jwks!Put(r, s) /\ UNCHANGED <<python, keyNow, key, replaced, keys>>
    BY <1>3 DEF Jwks!Begin, s, d
  <2> QED  BY <2>2, <2>4, <2>5, JwksOneOK
<1>4. CASE ~(keys.key = k /\ Jwks!Fresh)
  <2> DEFINE b == python /\ ~Jwks!Fresh
             s == Jwks!Fetching(r, k, b)
  <2>1. b \in BOOLEAN
    OBVIOUS
  <2> HIDE DEF b
  <2>2. /\ s \in JwksStates
        /\ s.pc = "fetch" /\ s.token = k /\ s.asked = keyNow
    BY <1>1, <1>2, <2>1 DEF Jwks!Fetching, JwksStates
  <2> HIDE DEF s
  <2>3. JwksReqOK(s)
    BY <2>2, JwksFetchingOK
  <2>4. Jwks!Put(r, s) /\ UNCHANGED <<python, keyNow, key, replaced, keys>>
    BY <1>4 DEF Jwks!Begin, s, b
  <2> QED  BY <2>2, <2>3, <2>4, JwksOneOK
<1> QED  BY <1>3, <1>4

LEMMA JwksFetchStepOK ==
    ASSUME Jwks!JwksAssumption, JwksInv, NEW r \in Verifiers, Jwks!Fetch(r)
    PROVE  JwksInv'
<1> DEFINE s == [keyReq[r] EXCEPT !.pc = "store", !.got = key]
<1>1. /\ keyReq[r] \in JwksStates
      /\ keyNow \in 0 .. MaxKeyTime /\ key \in 1 .. MaxKey /\ MaxKeyTime \in Nat /\ MaxKey \in Nat
  BY JwksKnown
<1>2. keyReq[r].pc \in JwksBusy4 /\ "store" \in JwksLabels /\ key \in JwksKeys
  BY <1>1 DEF Jwks!Fetch, Jwks!At, JwksBusy4, JwksLabels, JwksKeys
<1>3. /\ keyReq[r].token \in 1 .. key /\ keyReq[r].asked \in 0 .. MaxKeyTime
      /\ keyReq[r].asked <= keyNow /\ keyNow <= keyReq[r].asked + FetchTimeout
  BY <1>2, JwksBusyKnown
<1>4. /\ s \in JwksStates
      /\ s.pc = "store" /\ s.got = key
      /\ s.token = keyReq[r].token /\ s.asked = keyReq[r].asked
  BY <1>1, <1>2 DEF JwksStates
<1>5. Jwks!Put(r, s) /\ UNCHANGED <<python, keyNow, key, replaced, keys>>
  BY DEF Jwks!Fetch
<1> HIDE DEF s
<1>6. JwksFetchOK(s)
  BY <1>1, <1>3, <1>4 DEF JwksFetchOK
<1>7. JwksStoredOK(s) /\ JwksAcceptedOK(s)
  BY <1>4 DEF JwksStoredOK, JwksAcceptedOK
<1> QED  BY <1>4, <1>5, <1>6, <1>7, JwksOneOK DEF JwksReqOK

\* Go compares the expiry with the time at which the fetch began, at most one
\* fetch ago.
LEMMA JwksFetchFailsOK ==
    ASSUME Jwks!JwksAssumption, JwksInv, NEW r \in Verifiers, Jwks!FetchFails(r)
    PROVE  JwksInv'
<1> DEFINE k == keyReq[r].token
<1>1. /\ keyNow \in 0 .. MaxKeyTime /\ key \in 1 .. MaxKey /\ MaxKeyTime \in Nat /\ MaxKey \in Nat
      /\ KeyTTL \in Nat /\ FetchTimeout \in Nat
      /\ replaced \in [1 .. MaxKey -> 0 .. MaxKeyTime]
      /\ keys \in [key : 0 .. MaxKey, until : Nat]
  BY JwksKnown
<1>2. keyReq[r].pc \in JwksBusy4
  BY DEF Jwks!FetchFails, JwksBusy4
<1>3. /\ k \in 1 .. key /\ keyReq[r].asked \in 0 .. MaxKeyTime
      /\ keyNow <= keyReq[r].asked + FetchTimeout
  BY <1>2, JwksBusyKnown
<1>4. UNCHANGED <<python, keyNow, key, replaced, keys>>
  BY DEF Jwks!FetchFails
<1>5. CASE Jwks!Usable(r)
  <2> DEFINE d == Jwks!Decide(r, "accepted")
             s == [d EXCEPT !.fallback = TRUE]
  <2>1. /\ d \in JwksStates /\ d.pc = "accepted" /\ d.at = keyNow /\ d.token = k
    BY JwksDecideIs
  <2> HIDE DEF d
  <2>2. /\ s \in JwksStates
        /\ s.pc = "accepted" /\ s.at = keyNow /\ s.token = k /\ s.fallback = TRUE
    BY <2>1 DEF JwksStates
  <2>3. k < key /\ ~python => keyNow < replaced[k] + KeyTTL + 2 * FetchTimeout
    <3>1. JwksCacheOK
      BY DEF JwksInv
    <3>2. k < key /\ ~python => keys.until <= replaced[k] + KeyTTL + FetchTimeout
      BY <1>1, <1>3, <1>5, <3>1 DEF JwksCacheOK, Jwks!Usable, Jwks!Has
    <3>3. ~python => keyReq[r].asked < keys.until
      BY <1>5 DEF Jwks!Usable
    <3>4. k \in 1 .. MaxKey
      BY <1>1, <1>3
    <3>5. /\ replaced[k] \in Nat /\ keys.until \in Nat /\ keyReq[r].asked \in Nat /\ keyNow \in Nat
          /\ keyNow <= keyReq[r].asked + FetchTimeout /\ KeyTTL \in Nat /\ FetchTimeout \in Nat
      BY <1>1, <1>3, <3>4
    <3>6. ASSUME k < key, ~python PROVE keyNow < replaced[k] + KeyTTL + 2 * FetchTimeout
      <4>1. /\ keys.until <= replaced[k] + KeyTTL + FetchTimeout
            /\ keyReq[r].asked < keys.until
        BY <3>2, <3>3, <3>6
      <4> QED  BY <3>5, <4>1
    <3> QED  BY <3>6
  <2> HIDE DEF s
  <2>4. JwksReqOK(s)
    BY <1>3, <2>2, <2>3, JwksDecideOK
  <2>5. Jwks!Put(r, s)
    BY <1>5 DEF Jwks!FetchFails, s, d
  <2> QED  BY <1>4, <2>2, <2>4, <2>5, JwksOneOK
<1>6. CASE ~Jwks!Usable(r)
  <2> DEFINE s == Jwks!Decide(r, "unavailable")
  <2>1. s \in JwksStates /\ s.pc = "unavailable" /\ s.at = keyNow /\ s.token = k
    BY JwksDecideIs
  <2>2. Jwks!Put(r, s)
    BY <1>6 DEF Jwks!FetchFails
  <2> HIDE DEF s
  <2>3. JwksReqOK(s)
    BY <1>3, <2>1, JwksDecideOK
  <2> QED  BY <1>4, <2>1, <2>2, <2>3, JwksOneOK
<1> QED  BY <1>5, <1>6

LEMMA JwksLookOK ==
    ASSUME Jwks!JwksAssumption, JwksInv, NEW r \in Verifiers, Jwks!Look(r)
    PROVE  JwksInv'
<1> DEFINE k == keyReq[r].token
<1>1. /\ keyReq[r] \in JwksStates
      /\ keyNow \in 0 .. MaxKeyTime /\ key \in 1 .. MaxKey /\ MaxKeyTime \in Nat /\ MaxKey \in Nat
      /\ KeyTTL \in Nat /\ KeyTTL > 0 /\ FetchTimeout \in Nat
      /\ replaced \in [1 .. MaxKey -> 0 .. MaxKeyTime]
  BY JwksKnown
<1>2. keyReq[r].pc = "look" /\ keyReq[r].pc \in JwksBusy4
  BY DEF Jwks!Look, Jwks!At, JwksBusy4
<1>3. /\ k \in 1 .. key /\ keyReq[r].asked \in 0 .. MaxKeyTime
      /\ keyNow <= keyReq[r].asked + FetchTimeout
      /\ keys.key < key => keyReq[r].asked <= replaced[keys.key] + FetchTimeout
  BY <1>2, JwksBusyKnown
<1>4. UNCHANGED <<python, keyNow, key, replaced, keys>>
  BY DEF Jwks!Look
<1>5. k \in 1 .. MaxKey /\ k \in JwksKeys /\ keyNow \in JwksTimes /\ "fetch" \in JwksLabels
  BY <1>1, <1>3 DEF JwksKeys, JwksTimes, JwksLabels, JwksBusy4
<1>6. CASE Jwks!Has(r)
  <2> DEFINE s == Jwks!Decide(r, "accepted")
  <2>1. s \in JwksStates /\ s.pc = "accepted" /\ s.at = keyNow /\ s.token = k
    BY JwksDecideIs
  <2>2. Jwks!Put(r, s)
    BY <1>6 DEF Jwks!Look
  <2> HIDE DEF s
  <2>3. k < key => keyReq[r].asked <= replaced[k] + FetchTimeout
    BY <1>3, <1>6 DEF Jwks!Has
  <2>4. k < key => keyNow < replaced[k] + KeyTTL + 2 * FetchTimeout
    <3>1. /\ replaced[k] \in Nat /\ keyReq[r].asked \in Nat /\ keyNow \in Nat
          /\ keyNow <= keyReq[r].asked + FetchTimeout
          /\ KeyTTL \in Nat /\ KeyTTL > 0 /\ FetchTimeout \in Nat
      BY <1>1, <1>3, <1>5
    <3>2. ASSUME k < key PROVE keyNow < replaced[k] + KeyTTL + 2 * FetchTimeout
      <4>1. keyReq[r].asked <= replaced[k] + FetchTimeout
        BY <2>3, <3>2
      <4> QED  BY <3>1, <4>1
    <3> QED  BY <3>2
  <2>5. JwksReqOK(s)
    BY <1>3, <2>1, <2>4, JwksDecideOK
  <2> QED  BY <1>4, <2>1, <2>2, <2>5, JwksOneOK
<1>7. CASE ~Jwks!Has(r) /\ keyReq[r].again
  <2> DEFINE f == Jwks!Fetching(r, k, FALSE)
             s == [f EXCEPT !.overtaken = FALSE]
  <2>1. f \in JwksStates /\ f.pc = "fetch" /\ f.token = k /\ f.asked = keyNow
    BY <1>1, <1>5 DEF Jwks!Fetching, JwksStates
  <2> HIDE DEF f
  <2>2. s \in JwksStates /\ s.pc = "fetch" /\ s.token = k /\ s.asked = keyNow
    BY <2>1 DEF JwksStates
  <2>3. Jwks!Put(r, s)
    BY <1>7 DEF Jwks!Look, f
  <2> HIDE DEF s
  <2>4. JwksReqOK(s)
    BY <1>3, <2>2, JwksFetchingOK
  <2> QED  BY <1>4, <2>2, <2>3, <2>4, JwksOneOK
<1>8. CASE ~Jwks!Has(r) /\ ~keyReq[r].again
  <2> DEFINE s == Jwks!Decide(r, "unknown")
  <2>1. s \in JwksStates /\ s.pc = "unknown" /\ s.at = keyNow /\ s.token = k
    BY JwksDecideIs
  <2>2. Jwks!Put(r, s)
    BY <1>8 DEF Jwks!Look
  <2> HIDE DEF s
  <2>3. JwksReqOK(s)
    BY <1>3, <2>1, JwksDecideOK
  <2> QED  BY <1>4, <2>1, <2>2, <2>3, JwksOneOK
<1> QED  BY <1>6, <1>7, <1>8

-----------------------------------------------------------------------------
\* Storing a withdrawn key: the fetch that brought it began before the rotation.
LEMMA JwksStoreOK ==
    ASSUME Jwks!JwksAssumption, JwksInv, NEW r \in Verifiers, Jwks!Store(r)
    PROVE  JwksInv'
<1> DEFINE g == keyReq[r].got
           label == IF python THEN "stamp" ELSE "look"
<1>1. JwksView
  BY JwksTyped DEF JwksInv
<1>2. keyReq[r].pc = "store" /\ keyReq[r].pc \in JwksBusy4
  BY DEF Jwks!Store, Jwks!At, JwksBusy4
<1>3. /\ g \in 1 .. key /\ keyReq[r].asked \in 0 .. MaxKeyTime /\ keyReq[r].token \in 1 .. key
      /\ keyReq[r].asked <= keyNow /\ keyNow <= keyReq[r].asked + FetchTimeout
      /\ g < key => keyReq[r].asked <= replaced[g]
  BY <1>2, JwksBusyKnown
<1>4. /\ key \in Nat /\ keyNow \in Nat /\ keyNow \in JwksTimes
      /\ g \in 1 .. MaxKey /\ g \in JwksKeys /\ g \in Nat /\ g # 0 /\ g <= key
      /\ replaced[g] \in Nat /\ keyReq[r].asked \in Nat
      /\ keys.until \in Nat
  BY <1>1, <1>3, JwksBounds DEF JwksView
<1>5. /\ keyNow' = keyNow /\ key' = key /\ replaced' = replaced /\ python' = python
      /\ keys'.key = g
      /\ keys'.until = IF python THEN keys.until ELSE keyNow + KeyTTL
      /\ keys' \in [key : JwksKeys, until : Nat]
  BY <1>4, JwksBounds DEF Jwks!Store
<1>6. label \in JwksLabels /\ (label = "stamp" <=> python) /\ label \in {"stamp", "look"}
  BY DEF JwksLabels, JwksBusy4
<1>7. ASSUME NEW q \in Verifiers
      PROVE  /\ Jwks!Overtake(r)[q] \in JwksStates
             /\ Jwks!Overtake(r)[q].pc = keyReq[q].pc /\ Jwks!Overtake(r)[q].token = keyReq[q].token
             /\ Jwks!Overtake(r)[q].asked = keyReq[q].asked /\ Jwks!Overtake(r)[q].got = keyReq[q].got
             /\ Jwks!Overtake(r)[q].at = keyReq[q].at /\ Jwks!Overtake(r)[q].fallback = keyReq[q].fallback
  <2>1. keyReq[q] \in JwksStates
    BY <1>1 DEF JwksView
  <2>2. Jwks!Overtake(r)[q] = keyReq[q] \/ Jwks!Overtake(r)[q] = [keyReq[q] EXCEPT !.overtaken = TRUE]
    BY DEF Jwks!Overtake
  <2> QED  BY <2>1, <2>2 DEF JwksStates
<1>8. Jwks!Overtake(r) \in [Verifiers -> JwksStates]
  BY <1>7 DEF Jwks!Overtake
<1>9. /\ keyReq' = [Jwks!Overtake(r) EXCEPT ![r] = [Jwks!Overtake(r)[r] EXCEPT !.pc = label]]
      /\ [Jwks!Overtake(r)[r] EXCEPT !.pc = label] \in JwksStates
      /\ [Jwks!Overtake(r)[r] EXCEPT !.pc = label].pc = label
      /\ [Jwks!Overtake(r)[r] EXCEPT !.pc = label].token = keyReq[r].token
      /\ [Jwks!Overtake(r)[r] EXCEPT !.pc = label].asked = keyReq[r].asked
  <2>1. keyReq' = [Jwks!Overtake(r) EXCEPT ![r] = [Jwks!Overtake(r)[r] EXCEPT !.pc = label]]
    BY DEF Jwks!Store
  <2> HIDE DEF label
  <2>2. LET o == Jwks!Overtake(r)[r]
        IN  /\ [o EXCEPT !.pc = label] \in JwksStates
            /\ [o EXCEPT !.pc = label].pc = label
            /\ [o EXCEPT !.pc = label].token = o.token
            /\ [o EXCEPT !.pc = label].asked = o.asked
    BY <1>6, <1>7 DEF JwksStates
  <2> QED  BY <1>7, <2>1, <2>2
<1> HIDE DEF label
<1>10. /\ keyReq' \in [Verifiers -> JwksStates]
       /\ keyReq'[r].pc = label /\ keyReq'[r].token = keyReq[r].token /\ keyReq'[r].asked = keyReq[r].asked
       /\ \A q \in Verifiers : q # r => keyReq'[q] = Jwks!Overtake(r)[q]
  BY <1>8, <1>9
<1>11. Jwks!TypeOK'
  <2>1. JwksView'
    BY <1>1, <1>5, <1>10 DEF JwksView
  <2> QED  BY <2>1, JwksTyped
<1>12. JwksCacheOK'
  <2>1. keys.until <= keyNow + KeyTTL /\ keyNow + KeyTTL <= keyNow + KeyTTL /\ keyNow + KeyTTL \in Nat
    BY <1>4, JwksBounds DEF JwksInv, JwksCacheOK
  <2>2. (keys.key <= key)' /\ (keys.until <= keyNow + KeyTTL)'
    BY <1>4, <1>5, <2>1
  <2>3. ASSUME g < key
        PROVE  keys'.until <= replaced[g] + KeyTTL
                                 + IF python THEN 2 * FetchTimeout ELSE FetchTimeout
    <3>1. keyNow <= replaced[g] + FetchTimeout
      BY <1>3, <1>4, <2>3, JwksBounds
    <3>2. CASE python
      <4>1. keys'.until <= keyNow + KeyTTL
        BY <1>5, <2>1, <3>2
      <4>2. keyNow + KeyTTL <= replaced[g] + KeyTTL + 2 * FetchTimeout
        BY <1>4, <3>1, JwksBounds
      <4>3. keys'.until \in Nat
        BY <1>4, <1>5, <3>2
      <4> QED  BY <1>4, <3>2, <4>1, <4>2, <4>3, JwksBounds
    <3>3. CASE ~python
      <4>1. keys'.until = keyNow + KeyTTL
        BY <1>5, <3>3
      <4>2. keyNow + KeyTTL <= replaced[g] + KeyTTL + FetchTimeout
        BY <1>4, <3>1, JwksBounds
      <4> QED  BY <3>3, <4>1, <4>2
    <3> QED  BY <3>2, <3>3
  <2> QED  BY <1>5, <2>2, <2>3 DEF JwksCacheOK
<1>13. ASSUME NEW q \in Verifiers PROVE JwksReqOK(keyReq[q])'
  <2>1. CASE q = r
    <3>1. JwksFetchOK(keyReq[r])'
      BY <1>3, <1>5, <1>6, <1>10 DEF JwksFetchOK
    <3>2. JwksStoredOK(keyReq[r])'
      <4>1. g < key => keyReq[r].asked <= replaced[g] + FetchTimeout
        BY <1>3, <1>4, JwksBounds
      <4> QED  BY <1>4, <1>5, <1>10, <4>1 DEF JwksStoredOK
    <3>3. JwksAcceptedOK(keyReq[r])'
      BY <1>6, <1>10 DEF JwksAcceptedOK
    <3> QED  BY <2>1, <3>1, <3>2, <3>3 DEF JwksReqOK
  <2>2. CASE q # r
    <3>1. /\ keyReq'[q].pc = keyReq[q].pc /\ keyReq'[q].token = keyReq[q].token
          /\ keyReq'[q].asked = keyReq[q].asked /\ keyReq'[q].got = keyReq[q].got
          /\ keyReq'[q].at = keyReq[q].at /\ keyReq'[q].fallback = keyReq[q].fallback
      BY <1>7, <1>10, <2>2
    <3>2. JwksFetchOK(keyReq[q]) /\ JwksAcceptedOK(keyReq[q])
      BY DEF JwksInv, JwksReqOK
    <3>3. JwksFetchOK(keyReq[q])'
      BY <1>5, <3>1, <3>2 DEF JwksFetchOK
    <3>4. JwksAcceptedOK(keyReq[q])'
      BY <1>5, <3>1, <3>2 DEF JwksAcceptedOK
    <3>5. JwksStoredOK(keyReq[q])'
      <4>1. ASSUME keyReq[q].pc \in {"stamp", "look"}, g < key
            PROVE  keyReq[q].asked <= replaced[g] + FetchTimeout
        <5>1. keyReq[q].asked <= keyNow
          BY <3>2, <4>1 DEF JwksFetchOK
        <5>2. keyReq[q].asked \in Nat
          BY <1>1, JwksBounds DEF JwksView, JwksStates
        <5>3. keyNow <= replaced[g] + FetchTimeout
          BY <1>3, <1>4, <4>1, JwksBounds
        <5> QED  BY <1>4, <5>1, <5>2, <5>3, JwksBounds
      <4> QED  BY <1>4, <1>5, <3>1, <4>1 DEF JwksStoredOK
    <3> QED  BY <3>3, <3>4, <3>5 DEF JwksReqOK
  <2> QED  BY <2>1, <2>2
<1>14. (\A k \in 1 .. key : k < key => replaced[k] <= keyNow)'
  BY <1>5 DEF JwksInv
<1> QED  BY <1>11, <1>12, <1>13, <1>14 DEF JwksInv

\* Renewing the expiry of a withdrawn key: the one who does it began before
\* the key was stored.
LEMMA JwksStampOK ==
    ASSUME Jwks!JwksAssumption, JwksInv, NEW r \in Verifiers, Jwks!Stamp(r)
    PROVE  JwksInv'
<1>1. JwksView
  BY JwksTyped DEF JwksInv
<1>2. keyReq[r].pc = "stamp" /\ keyReq[r].pc \in JwksBusy4 /\ python
  <2>1. keyReq[r].pc = "stamp" /\ keyReq[r].pc \in JwksBusy4
    BY DEF Jwks!Stamp, Jwks!At, JwksBusy4
  <2> QED  BY <2>1, JwksBusyKnown
<1>3. /\ keyReq[r].asked \in 0 .. MaxKeyTime /\ keyReq[r].token \in 1 .. key
      /\ keyReq[r].asked <= keyNow /\ keyNow <= keyReq[r].asked + FetchTimeout
      /\ keys.key # 0 /\ (keys.key < key => keyReq[r].asked <= replaced[keys.key] + FetchTimeout)
  BY <1>2, JwksBusyKnown
<1>4. /\ key \in Nat /\ keyNow \in Nat /\ keyReq[r].asked \in Nat
      /\ keys.key \in Nat /\ keys.key <= key /\ replaced[keys.key] \in Nat
  <2>1. keys.key \in JwksKeys /\ keys.key <= key
    BY <1>1 DEF JwksView, JwksInv, JwksCacheOK
  <2>2. key \in Nat /\ keyNow \in Nat /\ keyReq[r].asked \in Nat /\ keys.key \in Nat /\ key <= MaxKey
    BY <1>1, <1>3, <2>1, JwksBounds DEF JwksView
  <2>3. keys.key \in 1 .. MaxKey
    BY <1>3, <2>1, <2>2, JwksBounds
  <2>4. replaced[keys.key] \in JwksTimes
    BY <1>1, <2>3 DEF JwksView
  <2> QED  BY <2>1, <2>2, <2>4, JwksBounds
<1>5. /\ keyNow' = keyNow /\ key' = key /\ replaced' = replaced /\ python' = python
      /\ keys'.key = keys.key /\ keys'.until = keyNow + KeyTTL
      /\ keys' \in [key : JwksKeys, until : Nat]
  <2>1. keyNow + KeyTTL \in Nat
    BY <1>4, JwksBounds
  <2> QED  BY <1>1, <2>1 DEF Jwks!Stamp, JwksView
<1>6. /\ [keyReq[r] EXCEPT !.pc = "look"] \in JwksStates
      /\ [keyReq[r] EXCEPT !.pc = "look"].pc = "look"
      /\ [keyReq[r] EXCEPT !.pc = "look"].token = keyReq[r].token
      /\ [keyReq[r] EXCEPT !.pc = "look"].asked = keyReq[r].asked
  <2>1. "look" \in JwksLabels /\ keyReq[r] \in JwksStates
    BY <1>1 DEF JwksLabels, JwksBusy4, JwksView
  <2> QED  BY <2>1 DEF JwksStates
<1>7. /\ keyReq' \in [Verifiers -> JwksStates]
      /\ keyReq'[r].pc = "look" /\ keyReq'[r].token = keyReq[r].token /\ keyReq'[r].asked = keyReq[r].asked
      /\ \A q \in Verifiers : q # r => keyReq'[q] = keyReq[q]
  <2>1. keyReq' = [keyReq EXCEPT ![r] = [keyReq[r] EXCEPT !.pc = "look"]]
    BY DEF Jwks!Stamp, Jwks!Put
  <2> QED  BY <1>1, <1>6, <2>1 DEF JwksView
<1>8. Jwks!TypeOK'
  <2>1. JwksView'
    BY <1>1, <1>5, <1>7 DEF JwksView
  <2> QED  BY <2>1, JwksTyped
<1>9. JwksCacheOK'
  <2>1. (keys.key <= key)' /\ (keys.until <= keyNow + KeyTTL)'
    BY <1>4, <1>5, JwksBounds
  <2>2. ASSUME keys.key < key PROVE keyNow + KeyTTL <= replaced[keys.key] + KeyTTL + 2 * FetchTimeout
    <3>1. keyReq[r].asked <= replaced[keys.key] + FetchTimeout
      BY <1>3, <2>2
    <3> QED  BY <1>3, <1>4, <3>1, JwksBounds
  <2> QED  BY <1>2, <1>5, <2>1, <2>2 DEF JwksCacheOK
<1>10. ASSUME NEW q \in Verifiers PROVE JwksReqOK(keyReq[q])'
  <2>1. CASE q = r
    <3>1. JwksFetchOK(keyReq[r])'
      BY <1>3, <1>5, <1>7 DEF JwksFetchOK
    <3>2. JwksStoredOK(keyReq[r])'
      BY <1>3, <1>5, <1>7 DEF JwksStoredOK
    <3>3. JwksAcceptedOK(keyReq[r])'
      BY <1>7 DEF JwksAcceptedOK
    <3> QED  BY <2>1, <3>1, <3>2, <3>3 DEF JwksReqOK
  <2>2. CASE q # r
    <3>1. keyReq'[q] = keyReq[q]
      BY <1>7, <2>2
    <3>2. JwksFetchOK(keyReq[q]) /\ JwksStoredOK(keyReq[q]) /\ JwksAcceptedOK(keyReq[q])
      BY DEF JwksInv, JwksReqOK
    <3>3. JwksFetchOK(keyReq[q])'
      BY <1>5, <3>1, <3>2 DEF JwksFetchOK
    <3>4. JwksStoredOK(keyReq[q])' /\ JwksAcceptedOK(keyReq[q])'
      BY <1>5, <3>1, <3>2 DEF JwksStoredOK, JwksAcceptedOK
    <3> QED  BY <3>3, <3>4 DEF JwksReqOK
  <2> QED  BY <2>1, <2>2
<1>11. (\A k \in 1 .. key : k < key => replaced[k] <= keyNow)'
  BY <1>5 DEF JwksInv
<1> QED  BY <1>8, <1>9, <1>10, <1>11 DEF JwksInv

LEMMA JwksRotateOK == ASSUME Jwks!JwksAssumption, JwksInv, Jwks!Rotate PROVE JwksInv'
<1>1. JwksView
  BY JwksTyped DEF JwksInv
<1>2. /\ key \in Nat /\ key \in 1 .. MaxKey /\ key + 1 \in 1 .. MaxKey
      /\ keyNow \in Nat /\ keyNow \in JwksTimes /\ keys.until \in Nat /\ keys.key \in Nat
  BY <1>1, JwksBounds DEF Jwks!Rotate, JwksView
<1>3. /\ key' = key + 1 /\ keyNow' = keyNow /\ keys' = keys /\ keyReq' = keyReq /\ python' = python
      /\ replaced' \in [1 .. MaxKey -> JwksTimes]
      /\ replaced'[key] = keyNow
      /\ \A k \in 1 .. MaxKey : k # key => replaced'[k] = replaced[k]
  BY <1>1, <1>2 DEF Jwks!Rotate, JwksView
<1>4. Jwks!TypeOK'
  <2>1. JwksView'
    BY <1>1, <1>2, <1>3 DEF JwksView
  <2> QED  BY <2>1, JwksTyped
<1>5. JwksCacheOK'
  <2>1. JwksCacheOK /\ keys.key <= key
    BY DEF JwksInv, JwksCacheOK
  <2>2. (keys.key <= key)' /\ (keys.until <= keyNow + KeyTTL)'
    BY <1>2, <1>3, <2>1 DEF JwksCacheOK
  <2>3. CASE keys.key = key
    <3>1. keys.until <= keyNow + KeyTTL
      BY <2>1 DEF JwksCacheOK
    <3>2. keys.until <= keyNow + KeyTTL + IF python THEN 2 * FetchTimeout ELSE FetchTimeout
      <4>1. CASE python
        BY <1>2, <3>1, <4>1, JwksBounds
      <4>2. CASE ~python
        BY <1>2, <3>1, <4>2, JwksBounds
      <4> QED  BY <4>1, <4>2
    <3> QED  BY <1>3, <2>2, <2>3, <3>2 DEF JwksCacheOK
  <2>4. CASE keys.key # key
    <3>1. keys.key < key
      BY <1>2, <2>1, <2>4
    <3>2. keys.key # 0 => keys.key \in 1 .. MaxKey
      BY <1>2, <3>1, JwksBounds
    <3>3. keys.key # 0 => replaced'[keys.key] = replaced[keys.key]
      BY <1>3, <2>4, <3>2
    <3> QED  BY <1>3, <2>1, <2>2, <3>1, <3>3 DEF JwksCacheOK
  <2> QED  BY <2>3, <2>4
<1>6. ASSUME NEW k \in 1 .. key, k # key
      PROVE  k < key /\ replaced'[k] = replaced[k]
  BY <1>2, <1>3, <1>6, JwksBounds
<1>7. (\A k \in 1 .. key : k < key => replaced[k] <= keyNow)'
  <2>1. ASSUME NEW k \in 1 .. key + 1, k < key + 1 PROVE replaced'[k] <= keyNow
    <3>1. CASE k = key
      BY <1>2, <1>3, <3>1
    <3>2. CASE k # key
      <4>1. k \in 1 .. key
        BY <1>2, <2>1
      <4>2. replaced[k] <= keyNow /\ replaced'[k] = replaced[k]
        BY <1>6, <3>2, <4>1 DEF JwksInv
      <4> QED  BY <4>2
    <3> QED  BY <3>1, <3>2
  <2> QED  BY <1>3, <2>1
<1>8. ASSUME NEW q \in Verifiers PROVE JwksReqOK(keyReq[q])'
  <2>1. /\ JwksFetchOK(keyReq[q]) /\ JwksStoredOK(keyReq[q]) /\ JwksAcceptedOK(keyReq[q])
        /\ keyReq[q].token \in Nat /\ keyReq[q].asked \in Nat /\ keyReq[q].got \in Nat /\ keyReq[q].at \in Nat
    <3>1. keyReq[q] \in JwksStates
      BY <1>1 DEF JwksView
    <3> QED  BY <3>1, JwksBounds DEF JwksInv, JwksReqOK, JwksStates
  <2>2. JwksFetchOK(keyReq[q])'
    <3>1. ASSUME keyReq[q].pc \in JwksBusy4
          PROVE  keyReq[q].token \in 1 .. key /\ keyReq[q].asked <= keyNow
      BY <2>1, <3>1 DEF JwksFetchOK, JwksBusy4
    <3>2. ASSUME keyReq[q].pc = "store", keyReq[q].got < key + 1
          PROVE  keyReq[q].asked <= replaced'[keyReq[q].got]
      <4>1. /\ keyReq[q].got \in 1 .. key /\ keyReq[q].asked <= keyNow
            /\ keyReq[q].got < key => keyReq[q].asked <= replaced[keyReq[q].got]
        BY <2>1, <3>2 DEF JwksFetchOK
      <4>2. CASE keyReq[q].got = key
        BY <1>3, <4>1, <4>2
      <4>3. CASE keyReq[q].got # key
        BY <1>6, <4>1, <4>3
      <4> QED  BY <4>2, <4>3
    <3> QED  BY <1>2, <1>3, <2>1, <3>1, <3>2 DEF JwksFetchOK, JwksBusy4
  <2>3. JwksAcceptedOK(keyReq[q])'
    <3>1. ASSUME keyReq[q].pc = "accepted", keyReq[q].token < key + 1, ~(python /\ keyReq[q].fallback)
          PROVE  keyReq[q].at < replaced'[keyReq[q].token] + KeyTTL + 2 * FetchTimeout
      <4>1. /\ keyReq[q].token \in 1 .. key /\ keyReq[q].at <= keyNow
            /\ keyReq[q].token < key =>
                 keyReq[q].at < replaced[keyReq[q].token] + KeyTTL + 2 * FetchTimeout
        BY <2>1, <3>1 DEF JwksAcceptedOK
      <4>2. CASE keyReq[q].token = key
        BY <1>2, <1>3, <2>1, <4>1, <4>2, JwksBounds
      <4>3. CASE keyReq[q].token # key
        BY <1>6, <4>1, <4>3
      <4> QED  BY <4>2, <4>3
    <3>2. keyReq[q].pc = "accepted" => keyReq[q].token \in 1 .. key + 1 /\ keyReq[q].at <= keyNow
      BY <1>2, <2>1 DEF JwksAcceptedOK
    <3> QED  BY <1>3, <3>1, <3>2 DEF JwksAcceptedOK
  <2>4. JwksStoredOK(keyReq[q])'
    <3>1. ASSUME keyReq[q].pc \in {"stamp", "look"}
          PROVE  keys.key # 0 /\ keyReq[q].asked <= replaced'[keys.key] + FetchTimeout
      <4>1. /\ keys.key # 0 /\ keyReq[q].asked <= keyNow
            /\ keys.key < key => keyReq[q].asked <= replaced[keys.key] + FetchTimeout
        BY <2>1, <3>1 DEF JwksFetchOK, JwksStoredOK
      <4>2. keys.key <= key
        BY DEF JwksInv, JwksCacheOK
      <4>3. CASE keys.key = key
        BY <1>2, <1>3, <2>1, <4>1, <4>3, JwksBounds
      <4>4. CASE keys.key # key
        <5>1. keys.key \in 1 .. key
          BY <1>2, <4>1, <4>2
        <5> QED  BY <1>6, <4>1, <4>4, <5>1
      <4> QED  BY <4>1, <4>3, <4>4
    <3> QED  BY <1>3, <3>1 DEF JwksStoredOK
  <2> QED  BY <2>2, <2>3, <2>4 DEF JwksReqOK
<1> QED  BY <1>4, <1>5, <1>7, <1>8 DEF JwksInv

LEMMA JwksTickOK == ASSUME Jwks!JwksAssumption, JwksInv, Jwks!Tick PROVE JwksInv'
<1>1. JwksView
  BY JwksTyped DEF JwksInv
<1>2. /\ keyNow \in Nat /\ keyNow + 1 \in JwksTimes /\ key \in Nat /\ key \in 1 .. MaxKey
      /\ keys.until \in Nat
      /\ \A k \in 1 .. MaxKey : replaced[k] \in Nat
  BY <1>1, JwksBounds DEF Jwks!Tick, JwksView, JwksTimes
<1>3. /\ key' = key /\ keyNow' = keyNow + 1 /\ keys' = keys /\ keyReq' = keyReq /\ python' = python
      /\ replaced' = replaced
  BY DEF Jwks!Tick
<1>4. Jwks!TypeOK'
  <2>1. JwksView'
    BY <1>1, <1>2, <1>3 DEF JwksView
  <2> QED  BY <2>1, JwksTyped
<1>5. JwksCacheOK'
  <2>1. JwksCacheOK
    BY DEF JwksInv
  <2>2. keys.until <= keyNow + 1 + KeyTTL
    BY <1>2, <2>1, JwksBounds DEF JwksCacheOK
  <2> QED  BY <1>3, <2>1, <2>2 DEF JwksCacheOK
<1>6. (\A k \in 1 .. key : k < key => replaced[k] <= keyNow)'
  <2>1. ASSUME NEW k \in 1 .. key, k < key PROVE replaced[k] <= keyNow + 1
    <3>1. replaced[k] <= keyNow /\ k \in 1 .. MaxKey
      BY <1>2, <2>1, JwksBounds DEF JwksInv
    <3> QED  BY <1>2, <3>1
  <2> QED  BY <1>3, <2>1
<1>7. ASSUME NEW q \in Verifiers PROVE JwksReqOK(keyReq[q])'
  <2>1. /\ JwksFetchOK(keyReq[q]) /\ JwksStoredOK(keyReq[q]) /\ JwksAcceptedOK(keyReq[q])
        /\ keyReq[q].asked \in Nat /\ keyReq[q].at \in Nat
    <3>1. keyReq[q] \in JwksStates
      BY <1>1 DEF JwksView
    <3> QED  BY <3>1, JwksBounds DEF JwksInv, JwksReqOK, JwksStates
  <2>2. keyReq[q].pc \in {"fetch", "store", "stamp", "look"} => keyNow < keyReq[q].asked + FetchTimeout
    BY DEF Jwks!Tick, Jwks!Busy
  <2>3. JwksFetchOK(keyReq[q])'
    <3>1. ASSUME keyReq[q].pc \in {"fetch", "store", "stamp", "look"}
          PROVE  keyReq[q].asked <= keyNow + 1 /\ keyNow + 1 <= keyReq[q].asked + FetchTimeout
      BY <1>2, <2>1, <2>2, <3>1, JwksBounds DEF JwksFetchOK
    <3> QED  BY <1>3, <2>1, <3>1 DEF JwksFetchOK
  <2>4. JwksStoredOK(keyReq[q])'
    BY <1>3, <2>1 DEF JwksStoredOK
  <2>5. JwksAcceptedOK(keyReq[q])'
    <3>1. keyReq[q].pc = "accepted" => keyReq[q].at <= keyNow + 1
      BY <1>2, <2>1 DEF JwksAcceptedOK
    <3> QED  BY <1>3, <2>1, <3>1 DEF JwksAcceptedOK
  <2> QED  BY <2>3, <2>4, <2>5 DEF JwksReqOK
<1> QED  BY <1>4, <1>5, <1>6, <1>7 DEF JwksInv

LEMMA JwksStepOK == ASSUME Jwks!JwksAssumption, JwksInv, [Jwks!Next]_jwksVars PROVE JwksInv'
<1>1. CASE UNCHANGED jwksVars
  BY <1>1 DEF jwksVars, JwksInv, Jwks!TypeOK, JwksCacheOK, JwksReqOK, JwksFetchOK,
              JwksStoredOK, JwksAcceptedOK
<1> QED
  BY <1>1, JwksBeginOK, JwksFetchStepOK, JwksFetchFailsOK, JwksStoreOK, JwksStampOK,
     JwksLookOK, JwksRotateOK, JwksTickOK DEF Jwks!Next

LEMMA JwksInvariantOK == ASSUME Jwks!JwksAssumption PROVE Jwks!Spec => []JwksInv
BY JwksInitOK, JwksStepOK, PTL DEF Jwks!Spec, jwksVars, Jwks!vars

-----------------------------------------------------------------------------
(* Why the issuer's present key may be refused.                            *)

\* A fetch brings no older key than the token's; what a request stored is still
\* cached unless it was overtaken.
JwksCauseOK(q) ==
    /\ q.pc \in {"store", "stamp", "look"} => q.token <= q.got /\ q.got <= key
    /\ q.pc \in {"stamp", "look"} /\ ~q.overtaken => keys.key = q.got
    /\ q.pc = "unknown" => q.token <= key /\ (q.token = key => q.overtaken)

JwksCauses == \A r \in Verifiers : JwksCauseOK(keyReq[r])

LEMMA JwksOneCauseOK ==
    ASSUME Jwks!JwksAssumption, JwksInv, JwksCauses, NEW r \in Verifiers, NEW s, JwksCauseOK(s),
           Jwks!Put(r, s), UNCHANGED <<python, keyNow, key, replaced, keys>>
    PROVE  JwksCauses'
<1>1. ASSUME NEW q \in Verifiers PROVE JwksCauseOK(keyReq[q])'
  <2>1. keyReq'[q] = s \/ keyReq'[q] = keyReq[q]
    BY DEF JwksInv, Jwks!TypeOK, Jwks!Put
  <2>2. JwksCauseOK(keyReq'[q])
    BY <2>1 DEF JwksCauses
  <2> QED  BY <2>2 DEF JwksCauseOK
<1> QED  BY <1>1 DEF JwksCauses

\* The steps of one request that leave the cache alone.
LEMMA JwksRequestCauses ==
    ASSUME Jwks!JwksAssumption, JwksInv, JwksCauses, NEW r \in Verifiers,
           \/ \E k \in 1 .. key : Jwks!Begin(r, k)
           \/ Jwks!Fetch(r) \/ Jwks!FetchFails(r) \/ Jwks!Look(r)
    PROVE  JwksCauses'
<1>1. JwksView
  BY JwksTyped DEF JwksInv
<1>2. keyReq[r] \in JwksStates /\ JwksCauseOK(keyReq[r])
  BY <1>1 DEF JwksView, JwksCauses
<1>3. ASSUME NEW k \in 1 .. key, Jwks!Begin(r, k) PROVE JwksCauses'
  <2>1. CASE keys.key = k /\ Jwks!Fresh
    <3> DEFINE d == Jwks!Decide(r, "accepted")
               s == [d EXCEPT !.token = k]
    <3>1. d \in JwksStates /\ d.pc = "accepted"
      BY JwksDecideIs
    <3>2. Jwks!Put(r, s) /\ UNCHANGED <<python, keyNow, key, replaced, keys>>
      BY <1>3, <2>1 DEF Jwks!Begin
    <3> HIDE DEF d
    <3>3. s.pc = "accepted"
      BY <3>1 DEF JwksStates
    <3> HIDE DEF s
    <3>4. JwksCauseOK(s)
      BY <3>3 DEF JwksCauseOK
    <3> QED  BY <3>2, <3>4, JwksOneCauseOK
  <2>2. CASE ~(keys.key = k /\ Jwks!Fresh)
    <3> DEFINE s == Jwks!Fetching(r, k, python /\ ~Jwks!Fresh)
    <3>1. Jwks!Put(r, s) /\ UNCHANGED <<python, keyNow, key, replaced, keys>>
      BY <1>3, <2>2 DEF Jwks!Begin
    <3>2. s.pc = "fetch"
      BY <1>2 DEF Jwks!Fetching, JwksStates
    <3> HIDE DEF s
    <3>3. JwksCauseOK(s)
      BY <3>2 DEF JwksCauseOK
    <3> QED  BY <3>1, <3>3, JwksOneCauseOK
  <2> QED  BY <2>1, <2>2
<1>4. ASSUME Jwks!Fetch(r) PROVE JwksCauses'
  <2> DEFINE s == [keyReq[r] EXCEPT !.pc = "store", !.got = key]
  <2>1. Jwks!Put(r, s) /\ UNCHANGED <<python, keyNow, key, replaced, keys>>
    BY <1>4 DEF Jwks!Fetch
  <2>2. s.pc = "store" /\ s.got = key /\ s.token = keyReq[r].token
    BY <1>2 DEF JwksStates
  <2>3. keyReq[r].token <= key /\ key \in Nat
    <3>1. keyReq[r].pc \in JwksBusy4
      BY <1>4 DEF Jwks!Fetch, Jwks!At, JwksBusy4
    <3> QED  BY <1>1, <3>1, JwksBusyKnown, JwksBounds DEF JwksView
  <2> HIDE DEF s
  <2>4. JwksCauseOK(s)
    BY <2>2, <2>3 DEF JwksCauseOK
  <2> QED  BY <2>1, <2>4, JwksOneCauseOK
<1>5. ASSUME Jwks!FetchFails(r) PROVE JwksCauses'
  <2>1. PICK s : s.pc \in {"accepted", "unavailable"} /\ Jwks!Put(r, s)
    <3>1. CASE Jwks!Usable(r)
      <4> DEFINE d == Jwks!Decide(r, "accepted")
                 s == [d EXCEPT !.fallback = TRUE]
      <4>1. d \in JwksStates /\ d.pc = "accepted"
        BY JwksDecideIs
      <4>2. Jwks!Put(r, s)
        BY <1>5, <3>1 DEF Jwks!FetchFails
      <4> HIDE DEF d
      <4>3. s.pc = "accepted"
        BY <4>1 DEF JwksStates
      <4> HIDE DEF s
      <4> QED  BY <4>2, <4>3
    <3>2. CASE ~Jwks!Usable(r)
      <4> DEFINE s == Jwks!Decide(r, "unavailable")
      <4>1. Jwks!Put(r, s) /\ s.pc = "unavailable"
        BY <1>5, <3>2, JwksDecideIs DEF Jwks!FetchFails
      <4> HIDE DEF s
      <4> QED  BY <4>1
    <3> QED  BY <3>1, <3>2
  <2>2. JwksCauseOK(s)
    BY <2>1 DEF JwksCauseOK
  <2>3. UNCHANGED <<python, keyNow, key, replaced, keys>>
    BY <1>5 DEF Jwks!FetchFails
  <2> QED  BY <2>1, <2>2, <2>3, JwksOneCauseOK
<1>6. ASSUME Jwks!Look(r) PROVE JwksCauses'
  <2>1. keyReq[r].pc = "look" /\ UNCHANGED <<python, keyNow, key, replaced, keys>>
    BY <1>6 DEF Jwks!Look, Jwks!At
  <2>2. /\ keyReq[r].token \in Nat /\ keyReq[r].got \in Nat /\ key \in Nat
        /\ keyReq[r].token <= keyReq[r].got /\ keyReq[r].got <= key
        /\ ~keyReq[r].overtaken => keys.key = keyReq[r].got
    BY <1>1, <1>2, <2>1, JwksBounds DEF JwksView, JwksStates, JwksCauseOK
  <2>3. CASE Jwks!Has(r)
    <3> DEFINE s == Jwks!Decide(r, "accepted")
    <3>1. Jwks!Put(r, s) /\ s.pc = "accepted"
      BY <1>6, <2>3, JwksDecideIs DEF Jwks!Look
    <3> HIDE DEF s
    <3>2. JwksCauseOK(s)
      BY <3>1 DEF JwksCauseOK
    <3> QED  BY <2>1, <3>1, <3>2, JwksOneCauseOK
  <2>4. CASE ~Jwks!Has(r) /\ keyReq[r].again
    <3> DEFINE f == Jwks!Fetching(r, keyReq[r].token, FALSE)
               s == [f EXCEPT !.overtaken = FALSE]
    <3>1. Jwks!Put(r, s)
      BY <1>6, <2>4 DEF Jwks!Look
    <3>2. s.pc = "fetch"
      BY <1>2 DEF Jwks!Fetching, JwksStates
    <3> HIDE DEF s
    <3>3. JwksCauseOK(s)
      BY <3>2 DEF JwksCauseOK
    <3> QED  BY <2>1, <3>1, <3>3, JwksOneCauseOK
  <2>5. CASE ~Jwks!Has(r) /\ ~keyReq[r].again
    <3> DEFINE s == Jwks!Decide(r, "unknown")
    <3>1. Jwks!Put(r, s) /\ s.pc = "unknown" /\ s.token = keyReq[r].token
      BY <1>6, <2>5, JwksDecideIs DEF Jwks!Look
    <3>2. s.overtaken = keyReq[r].overtaken
      BY DEF Jwks!Decide, Jwks!Idle
    <3> HIDE DEF s
    <3>3. ~keyReq[r].overtaken => keyReq[r].token # key
      BY <2>2, <2>5 DEF Jwks!Has
    <3>4. s.token <= key /\ (s.token = key => s.overtaken)
      BY <2>2, <3>1, <3>2, <3>3
    <3>5. JwksCauseOK(s)
      BY <3>1, <3>4 DEF JwksCauseOK
    <3> QED  BY <2>1, <3>1, <3>5, JwksOneCauseOK
  <2> QED  BY <2>3, <2>4, <2>5
<1> QED  BY <1>3, <1>4, <1>5, <1>6

\* Storing overtakes every request that stored another key and has not looked.
LEMMA JwksStoreCauses ==
    ASSUME Jwks!JwksAssumption, JwksInv, JwksCauses, NEW r \in Verifiers, Jwks!Store(r)
    PROVE  JwksCauses'
<1> DEFINE g == keyReq[r].got
           label == IF python THEN "stamp" ELSE "look"
<1>1. JwksView
  BY JwksTyped DEF JwksInv
<1>2. keyReq[r].pc = "store" /\ key' = key /\ keys'.key = g
  BY DEF Jwks!Store, Jwks!At
<1>3. label \in {"stamp", "look"}
  OBVIOUS
<1>4. keyReq' = [Jwks!Overtake(r) EXCEPT ![r] = [Jwks!Overtake(r)[r] EXCEPT !.pc = label]]
  BY DEF Jwks!Store
<1> HIDE DEF label
<1>5. ASSUME NEW q \in Verifiers PROVE JwksCauseOK(keyReq[q])'
  <2>1. keyReq[q] \in JwksStates /\ JwksCauseOK(keyReq[q])
    BY <1>1 DEF JwksView, JwksCauses
  <2>2. CASE q = r
    <3>1. keyReq'[r] = [Jwks!Overtake(r)[r] EXCEPT !.pc = label] /\ Jwks!Overtake(r)[r] = keyReq[r]
      BY <1>4 DEF Jwks!Overtake
    <3>2. keyReq'[r].pc = label /\ keyReq'[r].got = g /\ keyReq'[r].token = keyReq[r].token
      BY <2>1, <2>2, <3>1 DEF JwksStates
    <3>3. keyReq[r].token <= g /\ g <= key
      BY <1>2, <2>1, <2>2 DEF JwksCauseOK
    <3> QED  BY <1>2, <1>3, <2>2, <3>2, <3>3 DEF JwksCauseOK
  <2>3. CASE q # r
    <3>1. keyReq'[q] = Jwks!Overtake(r)[q]
      BY <1>4, <2>3 DEF Jwks!Overtake
    <3>2. CASE keyReq[q].pc \in {"stamp", "look"} /\ keyReq[q].got # g
      <4>1. keyReq'[q] = [keyReq[q] EXCEPT !.overtaken = TRUE]
        BY <2>3, <3>1, <3>2 DEF Jwks!Overtake
      <4>2. /\ keyReq'[q].pc = keyReq[q].pc /\ keyReq'[q].got = keyReq[q].got
            /\ keyReq'[q].token = keyReq[q].token /\ keyReq'[q].overtaken = TRUE
        BY <2>1, <4>1 DEF JwksStates
      <4> QED  BY <1>2, <2>1, <3>2, <4>2 DEF JwksCauseOK
    <3>3. CASE ~(keyReq[q].pc \in {"stamp", "look"} /\ keyReq[q].got # g)
      <4>1. keyReq'[q] = keyReq[q]
        BY <2>3, <3>1, <3>3 DEF Jwks!Overtake
      <4> QED  BY <1>2, <2>1, <3>3, <4>1 DEF JwksCauseOK
    <3> QED  BY <3>2, <3>3
  <2> QED  BY <2>2, <2>3
<1> QED  BY <1>5 DEF JwksCauses

LEMMA JwksStampCauses ==
    ASSUME Jwks!JwksAssumption, JwksInv, JwksCauses, NEW r \in Verifiers, Jwks!Stamp(r)
    PROVE  JwksCauses'
<1>1. JwksView
  BY JwksTyped DEF JwksInv
<1>2. keyReq[r].pc = "stamp" /\ key' = key /\ keys'.key = keys.key
  BY <1>1 DEF Jwks!Stamp, Jwks!At, JwksView
<1>3. keyReq' = [keyReq EXCEPT ![r] = [keyReq[r] EXCEPT !.pc = "look"]]
  BY DEF Jwks!Stamp, Jwks!Put
<1>4. ASSUME NEW q \in Verifiers PROVE JwksCauseOK(keyReq[q])'
  <2>1. keyReq[q] \in JwksStates /\ JwksCauseOK(keyReq[q])
    BY <1>1 DEF JwksView, JwksCauses
  <2>2. /\ keyReq'[q].got = keyReq[q].got /\ keyReq'[q].token = keyReq[q].token
        /\ keyReq'[q].overtaken = keyReq[q].overtaken
        /\ keyReq'[q].pc = IF q = r THEN "look" ELSE keyReq[q].pc
    BY <1>1, <1>3, <2>1 DEF JwksView, JwksStates
  <2> QED  BY <1>2, <2>1, <2>2 DEF JwksCauseOK
<1> QED  BY <1>4 DEF JwksCauses

LEMMA JwksRotateCauses ==
    ASSUME Jwks!JwksAssumption, JwksInv, JwksCauses, Jwks!Rotate
    PROVE  JwksCauses'
<1>1. JwksView
  BY JwksTyped DEF JwksInv
<1>2. key' = key + 1 /\ keys' = keys /\ keyReq' = keyReq /\ key \in Nat
  BY <1>1, JwksBounds DEF Jwks!Rotate, JwksView
<1>3. ASSUME NEW q \in Verifiers PROVE JwksCauseOK(keyReq[q])'
  <2>1. JwksCauseOK(keyReq[q]) /\ keyReq[q].got \in Nat /\ keyReq[q].token \in Nat
    BY <1>1, JwksBounds DEF JwksView, JwksStates, JwksCauses
  <2>2. /\ keyReq[q].got <= key => keyReq[q].got <= key + 1
        /\ keyReq[q].token <= key => keyReq[q].token <= key + 1 /\ keyReq[q].token # key + 1
    BY <1>2, <2>1
  <2> QED  BY <1>2, <2>1, <2>2 DEF JwksCauseOK
<1> QED  BY <1>3 DEF JwksCauses

LEMMA JwksCausesStep == ASSUME Jwks!JwksAssumption, JwksInv, JwksCauses, [Jwks!Next]_jwksVars PROVE JwksCauses'
<1>1. CASE Jwks!Tick \/ UNCHANGED jwksVars
  BY <1>1 DEF Jwks!Tick, jwksVars, JwksCauses, JwksCauseOK
<1> QED  BY <1>1, JwksRequestCauses, JwksStoreCauses, JwksStampCauses,
            JwksRotateCauses DEF Jwks!Next

LEMMA JwksCausesOK == ASSUME Jwks!JwksAssumption PROVE Jwks!Spec => []Jwks!RejectedForCause
<1>1. Jwks!Init => JwksCauses
  <2>1. ASSUME Jwks!Init, NEW r \in Verifiers PROVE keyReq[r].pc = "idle"
    BY <2>1 DEF Jwks!Init, Jwks!Idle
  <2> QED  BY <2>1 DEF JwksCauses, JwksCauseOK
<1>2. Jwks!JwksAssumption /\ JwksInv /\ JwksCauses /\ [Jwks!Next]_jwksVars => JwksCauses'
  BY JwksCausesStep
<1>3. ASSUME Jwks!JwksAssumption, JwksCauses PROVE Jwks!RejectedForCause
  BY <1>3 DEF JwksCauses, JwksCauseOK, Jwks!RejectedForCause, Jwks!At
<1> QED  BY <1>1, <1>2, <1>3, JwksInvariantOK, PTL DEF Jwks!Spec, jwksVars, Jwks!vars

-----------------------------------------------------------------------------
(* The theorems.                                                           *)

LEMMA ApiInvariants == ApiSpec => []RateInv /\ []AiInv /\ []JwksInv
<1>1. Rate!Spec => []RateInv
  BY ApiAssumption, RateInvariantOK
<1>2. Ai!Spec => []AiInv
  BY ApiAssumption, AiInvariantOK
<1>3. Jwks!Spec => []JwksInv
  BY ApiAssumption, JwksInvariantOK
<1> QED  BY <1>1, <1>2, <1>3, PTL DEF ApiSpec

\* Buckets, breaker, caches and their callers are well typed.
THEOREM ApiTypeCorrect == ApiSpec => [](Rate!TypeOK /\ Ai!TypeOK /\ Jwks!TypeOK)
BY ApiInvariants, PTL DEF RateInv, AiInv, JwksInv

\* No window lets a client through more often than the burst, the window's length
\* and what it gains by being forgotten allow, however Allow calls overlap; and it
\* is forgotten once in the time to live at most.  For any rate and burst, also
\* those whose bucket takes longer than the time to live to fill.
THEOREM AdmissionCorrect == ApiSpec => []AdmissionBounded
<1>1. RateInv => AdmissionBounded
  BY ApiAssumption, RateInvBounds DEF AdmissionBounded
<1> QED  BY <1>1, ApiInvariants, PTL

\* However many calls fail late and prolong the open time, it ends when the last
\* call let through has used up its attempts and the reset time is over.
THEOREM OpenCorrect == ApiSpec => []OpenEndsInTime
<1>1. AiInv => OpenEndsInTime
  BY DEF AiInv, OpenEndsInTime
<1> QED  BY <1>1, ApiInvariants, PTL

\* The Go API accepts a withdrawn key for less than the time to live and two
\* fetches after its withdrawal, however fetches overlap and fail.
THEOREM WithdrawnCorrect == ApiSpec => []WithdrawnKeysExpire
<1>1. JwksInv => Jwks!WithdrawnKeysExpire
  BY ApiAssumption, JwksKnown
     DEF JwksReqOK, JwksAcceptedOK, Jwks!WithdrawnKeysExpire, Jwks!InTime, Jwks!At
<1>2. JwksInv => WithdrawnKeysExpire
  BY <1>1 DEF WithdrawnKeysExpire
<1> QED  BY <1>2, ApiInvariants, PTL

\* The Python service, whose threads may renew an older answer's expiry, keeps to
\* the same limit whenever it does not fall back on an expired cache.
THEOREM RenewedCorrect == ApiSpec => []RenewedKeysExpire
<1>1. JwksInv => Jwks!RenewedKeysExpire
  BY ApiAssumption, JwksKnown
     DEF JwksReqOK, JwksAcceptedOK, Jwks!RenewedKeysExpire, Jwks!InTime, Jwks!At
<1>2. JwksInv => RenewedKeysExpire
  BY <1>1 DEF RenewedKeysExpire
<1> QED  BY <1>2, ApiInvariants, PTL

\* The issuer's present key is refused only to a request that another one
\* overtook between its store and its look, for any number of requests.
THEOREM RejectedCorrect == ApiSpec => []RejectedForCause
<1>1. Jwks!Spec => []Jwks!RejectedForCause
  BY ApiAssumption, JwksCausesOK
<1>2. Jwks!RejectedForCause => RejectedForCause
  BY DEF RejectedForCause
<1> QED  BY <1>1, <1>2, PTL DEF ApiSpec
=============================================================================
