---------------------------- MODULE RateLimiter ----------------------------
(***************************************************************************)
(* The token bucket per client in front of the API's routes.               *)
(*                                                                         *)
(* Tokens are counted in the time it takes to earn them: a request costs   *)
(* Cost (1 / RATE_LIMIT_RPS), a full bucket holds Full (the burst times    *)
(* Cost), and a tick earns one.  Allow reads the clock before it takes the *)
(* mutex, so calls may work with times out of order; Delay bounds how long *)
(* a goroutine takes from the one to the other.                            *)
(***************************************************************************)
EXTENDS Integers

CONSTANTS
    Callers,  \* request goroutines
    Clients,  \* keys: client addresses
    Cost,     \* what a request costs
    Full,     \* what a full bucket holds
    TTL,      \* a client not seen for longer is forgotten: two minutes
    Delay,    \* from time.Now to the mutex, at most
    MaxTime   \* bound: the clock

\* RATE_LIMIT_RPS and RATE_LIMIT_BURST may be any positive numbers, so a full
\* bucket may hold more than TTL earns.
RateAssumption ==
    /\ {Cost, Full, TTL, Delay, MaxTime} \subseteq Nat
    /\ Cost <= Full

VARIABLES
    now,       \* the clock
    bucket,    \* IPRateLimiter.clients
    caller,    \* the goroutines: [pc, read]
    from,      \* when the accounting below began
    spent,     \* what each client's admitted requests have cost since
    forgotten  \* how often each client was forgotten since

accounts == <<from, spent, forgotten>>
vars == <<now, bucket, caller, accounts>>

Unknown == [known |-> FALSE, tokens |-> 0, lastSeen |-> 0]

Init ==
    /\ now    = 0
    /\ bucket = [c \in Clients |-> Unknown]
    /\ caller = [g \in Callers |-> [pc |-> "idle", read |-> 0]]
    /\ from   = 0
    /\ spent  = [c \in Clients |-> 0]
    /\ forgotten = [c \in Clients |-> 0]

-----------------------------------------------------------------------------
Least(a, b) == IF a < b THEN a ELSE b

Bucket(tokens, t) == [known |-> TRUE, tokens |-> tokens, lastSeen |-> t]

\* now := time.Now()
ReadClock(g) ==
    /\ caller[g].pc = "idle"
    /\ caller' = [caller EXCEPT ![g] = [pc |-> "allow", read |-> now]]
    /\ UNCHANGED <<now, bucket, accounts>>

\* Mutant of Expired: forgotten as soon as it could have earned a request.
ExpiredSoon(b, t) == b.known /\ t - b.lastSeen >= Cost

Expired(b, t) == b.known /\ t - b.lastSeen > TTL

\* cleanup, of every client
Cleaned(t) == [c \in Clients |-> IF Expired(bucket[c], t) THEN Unknown ELSE bucket[c]]

\* What the bucket holds at t; less than before when t is older than lastSeen.
Refilled(b, t) == Least(b.tokens + (t - b.lastSeen), Full)

\* Allow for a client, under the mutex: cleanup, refill, take.
Allow(g, c) ==
    LET t      == caller[g].read
        kept   == Cleaned(t)
        tokens == IF kept[c].known THEN Refilled(kept[c], t) ELSE Full
        admit  == tokens >= Cost \/ ~kept[c].known
    IN  /\ caller[g].pc = "allow"
        /\ bucket' = [kept EXCEPT ![c] = Bucket(IF admit THEN tokens - Cost ELSE tokens, t)]
        /\ spent'  = IF admit THEN [spent EXCEPT ![c] = @ + Cost] ELSE spent
        /\ forgotten' = [d \in Clients |-> IF Expired(bucket[d], t) THEN forgotten[d] + 1
                                                                  ELSE forgotten[d]]
        /\ caller' = [caller EXCEPT ![g] = [pc |-> "idle", read |-> 0]]
        /\ UNCHANGED <<now, from>>

\* Accounting may begin anew at any time: each beginning is one window.
BeginAccounting ==
    /\ from'      = now
    /\ spent'     = [c \in Clients |-> 0]
    /\ forgotten' = [c \in Clients |-> 0]
    /\ UNCHANGED <<now, bucket, caller>>

Tick ==
    /\ now < MaxTime
    /\ \A g \in Callers : caller[g].pc = "allow" => now < caller[g].read + Delay
    /\ now' = now + 1
    /\ UNCHANGED <<bucket, caller, accounts>>

Next ==
    \/ \E g \in Callers : ReadClock(g) \/ (\E c \in Clients : Allow(g, c))
    \/ BeginAccounting
    \/ Tick

Spec == Init /\ [][Next]_vars

-----------------------------------------------------------------------------
(* Properties                                                              *)

TypeOK ==
    /\ now    \in Nat
    /\ bucket \in [Clients -> [known : BOOLEAN, tokens : Int, lastSeen : Nat]]
    /\ caller \in [Callers -> [pc : {"idle", "allow"}, read : Nat]]
    /\ from   \in Nat
    /\ spent     \in [Clients -> Nat]
    /\ forgotten \in [Clients -> Nat]

\* A forgotten client starts with a full bucket: what it is given beyond what it
\* could have earned.  Nothing with the defaults (5 per second, burst 10).
Excess == IF Full + 2 * Delay > TTL THEN Full + 2 * Delay - TTL ELSE 0

\* In no window of time is a client let through more often than a full bucket
\* and the time in the window allow, give or take Delay, and the excess for each
\* time it was forgotten in the window, once in TTL at most: also when refusals
\* and clocks read out of order come in between.
AdmissionBounded ==
    \A c \in Clients :
        /\ spent[c] <= Full + (now - from) + Delay + forgotten[c] * Excess
        /\ forgotten[c] > 0 => (forgotten[c] - 1) * (TTL + 1 - Delay) <= now - from
=============================================================================
