----------------------------- MODULE TokenBucket -----------------------------
(***************************************************************************)
(* The arithmetic of the rate limiter's Lua script                         *)
(* (internal/infra/redis/rate_limiter/rate_limiter.go).  Time is counted   *)
(* in ticks, Second of them to a second, and a token is Second parts, so   *)
(* that the script's fractions are integers here: a tick adds Rate parts.  *)
(***************************************************************************)
EXTENDS Integers

CONSTANTS
    Second,    \* ticks to a second; the script counts 1000
    Capacity,  \* tokens of a full bucket
    Rate,      \* tokens a second adds
    MinTtl     \* least life of the key, in ticks

ASSUME BucketAssumption ==
    /\ Second \in Nat \ {0} /\ Capacity \in Nat \ {0} /\ Rate \in Nat \ {0}
    /\ MinTtl \in Nat

Full == Capacity * Second

\* Mutant: rounded down.
FloorDiv(a, b) == a \div b
\* math.ceil of a quotient.
CeilDiv(a, b)  == (a + b - 1) \div b

\* Mutant: the refill is not capped at the capacity.
Refilled_NoCap(bucket, now) == bucket.token + Rate * (now - bucket.last)
\* What is in the bucket at now; a key that is not there counts as full.  now may be
\* before the last refill, which takes parts away.
Refilled(bucket, now) ==
    LET token == bucket.token + Rate * (now - bucket.last)
    IN  IF token < Full THEN token ELSE Full

Allowed(bucket, now) == Refilled(bucket, now) >= Second

\* The bucket the script stores, whether it lets the request pass or not.
Taken(bucket, now) ==
    [token |-> Refilled(bucket, now) - (IF Allowed(bucket, now) THEN Second ELSE 0),
     last  |-> now]

\* What a refused client is told, by the script and in the Retry-After header.
Wait(bucket, now) == CeilDiv(Second - Refilled(bucket, now), Rate)
RetryAfter(wait)  == IF CeilDiv(wait, Second) < 1 THEN 1 ELSE CeilDiv(wait, Second)

\* Mutant: no minimum for the expiry.
Ttl_Fill == CeilDiv(Capacity * Second, Rate)
Ttl ==
    LET fill == CeilDiv(Capacity * Second, Rate) IN IF fill < MinTtl THEN MinTtl ELSE fill
=============================================================================
