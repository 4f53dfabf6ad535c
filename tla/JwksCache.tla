------------------------------ MODULE JwksCache ------------------------------
(***************************************************************************)
(* The caches of the issuer's keys in the Go API (authx.go) and in the     *)
(* Python service (auth.py).  The issuer rotates its key; requests present *)
(* tokens signed with any of its keys so far.  Fetches overlap: what one   *)
(* request fetched may be stored after what another fetched later.         *)
(*                                                                         *)
(* Go stores keys and expiry together and never uses an expired key.       *)
(* Python stores one after the other, in threads, and falls back on an     *)
(* expired key when the refresh fails.  Signatures and claims are not      *)
(* modelled: a token is the key it names.                                  *)
(***************************************************************************)
EXTENDS Naturals

CONSTANTS
    Requests,      \* requests; each verifies one token
    TTL,           \* JWKS_CACHE_TTL_SECONDS
    FetchTimeout,  \* of the HTTP client: 5 s
    MaxKey,        \* bound: rotations
    MaxTime        \* bound: the clock

\* Go takes 300 s for a time to live that is not positive, Python one second.
JwksAssumption ==
    /\ {FetchTimeout, MaxTime} \subseteq Nat
    /\ {TTL, MaxKey} \subseteq Nat \ {0}

VARIABLES
    python,    \* which of the two services this is
    now,       \* the clock
    key,       \* the issuer's key
    replaced,  \* when each earlier key was replaced
    cache,     \* [key, until], key 0 when empty
    req        \* the requests

vars == <<python, now, key, replaced, cache, req>>

\* token: the key it names; asked: when this fetch began; got: what it brought;
\* at: when the request was decided; overtaken: another request stored a
\* different key since this one stored; fallback: decided without a refresh.
Idle == [pc |-> "idle", token |-> 0, asked |-> 0, got |-> 0, at |-> 0,
         again |-> FALSE, overtaken |-> FALSE, fallback |-> FALSE]

Init ==
    /\ python   \in BOOLEAN
    /\ now      = 0
    /\ key      = 1
    /\ replaced = [k \in 1 .. MaxKey |-> 0]
    /\ cache    = [key |-> 0, until |-> 0]
    /\ req      = [r \in Requests |-> Idle]

-----------------------------------------------------------------------------
At(r, label) == req[r].pc = label

\* What is kept of a decided request.
Decide(r, verdict) ==
    [Idle EXCEPT !.pc = verdict, !.at = now, !.token = req[r].token,
                 !.overtaken = req[r].overtaken]
Put(r, state) == req' = [req EXCEPT ![r] = state]

Has(r)  == cache.key = req[r].token
Fresh   == now < cache.until

\* A fetch; again: a second one may follow it (Python, after an expiry).
Fetching(r, k, again) ==
    [req[r] EXCEPT !.pc = "fetch", !.token = k, !.asked = now, !.again = again]

\* Mutant of Begin: a key unknown to a fresh cache is not asked for.
BeginTrusting(r, k) ==
    /\ At(r, "idle")
    /\ Put(r, CASE cache.key = k /\ Fresh -> [Decide(r, "accepted") EXCEPT !.token = k]
                [] cache.key # k /\ Fresh -> [Decide(r, "unknown") EXCEPT !.token = k]
                [] OTHER                  -> Fetching(r, k, python))
    /\ UNCHANGED <<python, now, key, replaced, cache>>

\* GetKey / get_key: a fresh cached key, or a refresh.
Begin(r, k) ==
    /\ At(r, "idle")
    /\ IF cache.key = k /\ Fresh
       THEN Put(r, [Decide(r, "accepted") EXCEPT !.token = k])
       ELSE Put(r, Fetching(r, k, python /\ ~Fresh))
    /\ UNCHANGED <<python, now, key, replaced, cache>>

\* The issuer answers with its key of this moment.
Fetch(r) ==
    /\ At(r, "fetch")
    /\ Put(r, [req[r] EXCEPT !.pc = "store", !.got = key])
    /\ UNCHANGED <<python, now, key, replaced, cache>>

\* Mutant of Usable: Go, too, falls back on an expired key.
UsableAnyway(r) == Has(r)

\* What a failed refresh leaves to use: Go compares the expiry with the time
\* read at the beginning, Python not at all, but only for the first refresh
\* after an expiry.
Usable(r) == Has(r) /\ IF python THEN req[r].again ELSE req[r].asked < cache.until

\* Mutant of FetchFails: the expiry is renewed although nothing was fetched.
FetchFailsRenews(r) ==
    /\ req[r].pc \in {"fetch", "store"}
    /\ Put(r, IF Usable(r)
              THEN [Decide(r, "accepted") EXCEPT !.fallback = TRUE]
              ELSE Decide(r, "unavailable"))
    /\ cache' = [cache EXCEPT !.until = now + TTL]
    /\ UNCHANGED <<python, now, key, replaced>>

\* No answer, not 2xx, or nothing usable in it.
FetchFails(r) ==
    /\ req[r].pc \in {"fetch", "store"}
    /\ Put(r, IF Usable(r)
              THEN [Decide(r, "accepted") EXCEPT !.fallback = TRUE]
              ELSE Decide(r, "unavailable"))
    /\ UNCHANGED <<python, now, key, replaced, cache>>

\* Others that have stored and not looked yet will find another key.
Overtake(r) ==
    [q \in Requests |->
        IF q # r /\ req[q].pc \in {"stamp", "look"} /\ req[q].got # req[r].got
        THEN [req[q] EXCEPT !.overtaken = TRUE] ELSE req[q]]

\* Go: keys and expiry under one lock.  Python: the keys first.
Store(r) ==
    /\ At(r, "store")
    /\ cache' = [key |-> req[r].got, until |-> IF python THEN cache.until ELSE now + TTL]
    /\ req'   = [Overtake(r) EXCEPT ![r].pc = IF python THEN "stamp" ELSE "look"]
    /\ UNCHANGED <<python, now, key, replaced>>

Stamp(r) ==
    /\ At(r, "stamp")
    /\ cache' = [cache EXCEPT !.until = now + TTL]
    /\ Put(r, [req[r] EXCEPT !.pc = "look"])
    /\ UNCHANGED <<python, now, key, replaced>>

\* The lookup after the refresh; Python may refresh once more.
Look(r) ==
    /\ At(r, "look")
    /\ Put(r, CASE Has(r)                   -> Decide(r, "accepted")
                [] ~Has(r) /\ req[r].again  -> [Fetching(r, req[r].token, FALSE) EXCEPT !.overtaken = FALSE]
                [] ~Has(r) /\ ~req[r].again -> Decide(r, "unknown"))
    /\ UNCHANGED <<python, now, key, replaced, cache>>

-----------------------------------------------------------------------------
Rotate ==
    /\ key < MaxKey
    /\ key'      = key + 1
    /\ replaced' = [replaced EXCEPT ![key] = now]
    /\ UNCHANGED <<python, now, cache, req>>

Busy(r) == req[r].pc \in {"fetch", "store", "stamp", "look"}

Tick ==
    /\ now < MaxTime
    /\ \A r \in Requests : Busy(r) => now < req[r].asked + FetchTimeout
    /\ now' = now + 1
    /\ UNCHANGED <<python, key, replaced, cache, req>>

Next ==
    \/ \E r \in Requests :
        \/ \E k \in 1 .. key : Begin(r, k)
        \/ Fetch(r) \/ FetchFails(r) \/ Store(r) \/ Stamp(r) \/ Look(r)
    \/ Rotate
    \/ Tick

Spec == Init /\ [][Next]_vars

-----------------------------------------------------------------------------
(* Properties                                                              *)

TypeOK ==
    /\ python   \in BOOLEAN
    /\ now      \in 0 .. MaxTime
    /\ key      \in 1 .. MaxKey
    /\ replaced \in [1 .. MaxKey -> 0 .. MaxTime]
    /\ cache    \in [key : 0 .. MaxKey, until : Nat]
    /\ req      \in [Requests -> [pc : {"idle", "fetch", "store", "stamp", "look",
                                        "accepted", "unknown", "unavailable"},
                                  token : 0 .. MaxKey, asked : 0 .. MaxTime, got : 0 .. MaxKey,
                                  at : 0 .. MaxTime, again : BOOLEAN, overtaken : BOOLEAN,
                                  fallback : BOOLEAN]]

\* A replaced key that is accepted was accepted less than the time to live and
\* two fetches after that.
InTime(r) ==
    At(r, "accepted") /\ req[r].token < key
        => req[r].at < replaced[req[r].token] + TTL + 2 * FetchTimeout

\* The Go API accepts a key the issuer has replaced no longer than that: an older
\* answer may be stored over a newer one at the end of the first fetch, and the
\* second, begun before, may fail and fall back on it.
WithdrawnKeysExpire == ~python => \A r \in Requests : InTime(r)

\* Nor does the Python service, whose threads may renew the expiry of an older
\* answer, accept it on a cache it takes to be fresh.  On a cache it knows to be
\* expired it does, and for as long as refreshing fails: see FallbackOnUnexpired.
RenewedKeysExpire == python => \A r \in Requests : req[r].fallback \/ InTime(r)

\* IMPLEMENTATION_PLAN.md:329: what a request may fall back on when the network
\* fails is a cache not yet expired when it looked.
FallbackOnUnexpired ==
    [][\A r \in Requests :
           FetchFails(r) /\ req'[r].pc = "accepted" => req[r].asked < cache.until]_vars

\* A token with the issuer's present key is refused as unknown only when
\* another request stored its older answer between this one's store and look.
RejectedForCause ==
    \A r \in Requests : At(r, "unknown") /\ req[r].token = key => req[r].overtaken
=============================================================================
