------------------------------- MODULE Gateway -------------------------------
(***************************************************************************)
(* What a request passes before its handler                                *)
(* (internal/transport/http/middleware): the token bucket of its address   *)
(* in Redis, then the JWT and the blocklist in Redis, where logout puts a  *)
(* JWT for the rest of its life.  A request reads the clock of the API     *)
(* before the bucket's script runs, and checks the JWT before the          *)
(* blocklist; other requests and the clock go on in between.  The API runs *)
(* in processes whose clocks differ: clock is the fastest of them.  All    *)
(* requests are one user's, from one address.                              *)
(***************************************************************************)
EXTENDS TokenBucket

CONSTANTS
    Clients,  \* requests served at once
    Life,     \* life of a JWT in seconds
    MaxLag,   \* bound on the ticks a clock is slow, and on those a request takes
              \* from its clock to the script
    MaxTime,  \* bound on the clock
    MaxAsked, \* bound on all requests
    Nothing

ASSUME GatewayAssumption ==
    /\ Life \in Nat \ {0} /\ MaxTime \in Nat /\ MaxAsked \in Nat
    /\ MaxLag \in Nat /\ CeilDiv(Full, Rate) + MaxLag <= MinTtl
    /\ Nothing \notin [token : Int, last : Nat]

VARIABLES
    clock,
    bucket,   \* what Redis holds for the address, or Nothing
    ends,     \* when that key expires
    issued,   \* JWTs some login got
    blocked,  \* entries of the blocklist, each a JWT and when it expires
    out,      \* JWTs whose logout was answered
    flight,   \* the request of each client
    asked,    \* number of requests so far
    passed,   \* number of requests let through so far
    before,   \* how many of them before each tick
    told      \* the refusal the bucket was last used for, or Nothing

vars == <<clock, bucket, ends, issued, blocked, out, flight, asked, passed, before, told>>

\* iat and exp are whole seconds, and nothing else tells two JWTs of a user apart.
Jwts == {[iat |-> s, exp |-> s + Life] : s \in 0..(MaxTime \div Second)}
Idle == [pc |-> "idle", kind |-> "use", jwt |-> Nothing, now |-> 0, late |-> FALSE]
Pcs  == {"idle", "limit", "login", "verify", "check", "logout"}

Init ==
    /\ clock = 0
    /\ bucket = Nothing /\ ends = 0
    /\ issued = {} /\ blocked = {} /\ out = {}
    /\ flight = [c \in Clients |-> Idle]
    /\ asked = 0
    /\ passed = 0 /\ before = [t \in 0..MaxTime |-> 0]
    /\ told = Nothing

At(c, pc)   == flight[c].pc = pc
Goto(c, pc) == flight' = [flight EXCEPT ![c].pc = pc]
Answer(c)   == flight' = [flight EXCEPT ![c] = Idle]

\* A request starts by reading the clock.
Request(c, kind, jwt) ==
    /\ At(c, "idle") /\ asked < MaxAsked
    /\ asked' = asked + 1
    /\ flight' = [flight EXCEPT ![c] = [pc |-> "limit", kind |-> kind, jwt |-> jwt,
                                        now |-> clock, late |-> jwt \in out]]
    /\ UNCHANGED <<clock, bucket, ends, issued, blocked, out, passed, before, told>>

Stored(now) == IF bucket = Nothing THEN [token |-> Full, last |-> now] ELSE bucket

\* The script runs once; its answer may be lost on the way, and the request gets a 500.
Limit(c) ==
    LET now == flight[c].now  b == Stored(now) IN
    /\ At(c, "limit")
    /\ bucket' = Taken(b, now)
    /\ ends' = clock + Ttl
    /\ \/ /\ Allowed(b, now)
          /\ Goto(c, IF flight[c].kind = "login" THEN "login" ELSE "verify")
          /\ passed' = passed + 1
          /\ told' = Nothing
       \/ /\ ~Allowed(b, now)
          /\ Answer(c)
          /\ told' = [now |-> now, wait |-> Wait(b, now)]
          /\ UNCHANGED passed
       \/ /\ Answer(c)
          /\ told' = Nothing
          /\ UNCHANGED passed
    /\ UNCHANGED <<clock, issued, blocked, out, asked, before>>

\* Redis is not reached: a 500, and no request passes unlimited.
LimitFails(c) ==
    /\ At(c, "limit")
    /\ Answer(c)
    /\ UNCHANGED <<clock, bucket, ends, issued, blocked, out, asked, passed, before, told>>

\* What the clock of the process that serves a request may show.
Clocks == {now \in 0..clock : clock - now <= MaxLag}

CreateJwt(c) ==
    /\ At(c, "login")
    /\ \E now \in Clocks :
          issued' = issued \cup {[iat |-> now \div Second, exp |-> now \div Second + Life]}
    /\ Answer(c)
    /\ UNCHANGED <<clock, bucket, ends, blocked, out, asked, passed, before, told>>

Valid(jwt, now) == now < jwt.exp * Second

VerifyJwt(c) ==
    /\ At(c, "verify")
    /\ \E now \in Clocks :
          IF Valid(flight[c].jwt, now) THEN Goto(c, "check") ELSE Answer(c)
    /\ UNCHANGED <<clock, bucket, ends, issued, blocked, out, asked, passed, before, told>>

OnBlocklist(jwt) == \E entry \in blocked : entry.jwt = jwt

\* The request is refused when the JWT is found or Redis fails, and is served or goes
\* on to its logout when it is not found.
CheckBlocklist(c) ==
    /\ At(c, "check")
    /\ \/ Answer(c)
       \/ ~OnBlocklist(flight[c].jwt) /\ flight[c].kind = "logout" /\ Goto(c, "logout")
    /\ UNCHANGED <<clock, bucket, ends, issued, blocked, out, asked, passed, before, told>>

\* Mutant: the entry lives one second whatever the JWT has left.
Rest_Fixed(jwt, now) == Second
Rest(jwt, now)       == jwt.exp * Second - now

\* A JWT that has expired meanwhile needs no entry; a failed write is answered 500.
Logout(c) ==
    LET jwt == flight[c].jwt IN
    /\ At(c, "logout")
    /\ \E now \in Clocks :
          \/ /\ blocked' = IF Rest(jwt, now) > 0
                           THEN blocked \cup {[jwt |-> jwt, end |-> clock + Rest(jwt, now)]}
                           ELSE blocked
             /\ out' = out \cup {jwt}
          \/ Rest(jwt, now) > 0 /\ UNCHANGED <<blocked, out>>
    /\ Answer(c)
    /\ UNCHANGED <<clock, bucket, ends, issued, asked, passed, before, told>>

\* Redis drops what has expired.
Tick ==
    /\ clock < MaxTime
    /\ \A c \in Clients : At(c, "limit") => clock - flight[c].now < MaxLag
    /\ clock' = clock + 1
    /\ bucket' = IF clock' > ends THEN Nothing ELSE bucket
    /\ blocked' = {entry \in blocked : clock' <= entry.end}
    /\ before' = [before EXCEPT ![clock'] = passed]
    /\ UNCHANGED <<ends, issued, out, flight, asked, passed, told>>

Next ==
    \/ \E c \in Clients :
          \/ Request(c, "login", Nothing)
          \/ \E jwt \in issued, kind \in {"use", "logout"} : Request(c, kind, jwt)
          \/ Limit(c) \/ LimitFails(c) \/ CreateJwt(c) \/ VerifyJwt(c) \/ CheckBlocklist(c) \/ Logout(c)
    \/ Tick

Spec == Init /\ [][Next]_vars

-----------------------------------------------------------------------------
TypeOK ==
    /\ clock \in 0..MaxTime /\ ends \in Nat /\ asked \in 0..MaxAsked
    /\ bucket = Nothing \/ (bucket.token \in -(Rate * MaxLag)..Full /\ bucket.last \in 0..clock)
    /\ issued \subseteq Jwts /\ out \subseteq issued
    /\ \A entry \in blocked : entry.jwt \in issued
    /\ \A c \in Clients : flight[c].pc \in Pcs /\ flight[c].jwt \in issued \cup {Nothing}

\* In any window of time no more requests pass than a full bucket and the refill of
\* the window, though requests use clocks up to MaxLag old, out of order, and the key
\* expires and is made anew.
WindowBound ==
    \A from \in 0..clock :
        (passed - before[from]) * Second <= Full + Rate * (clock - from + MaxLag)

\* A client that is refused and stays alone passes after the wait it was told, and
\* after the whole seconds of the Retry-After header.
WaitSuffices ==
    told # Nothing =>
        \A at \in {told.now + told.wait, told.now + RetryAfter(told.wait) * Second} :
            Allowed(Stored(at), at)

\* When Redis drops the key its bucket would have been full, also for a request that
\* read the clock MaxLag before: expiry gives nobody a token.
ExpiryGivesNothing == bucket # Nothing => Refilled(bucket, ends - MaxLag) = Full

\* A request sent after its JWT was logged out is not served while the JWT lives by the
\* fastest clock: the entry of the blocklist is there until then, whichever process wrote
\* it and whichever checks.  (A slow process takes the JWT up to MaxLag longer.)
LoggedOutIsRefused ==
    \A c \in Clients : At(c, "check") /\ flight[c].late /\ Valid(flight[c].jwt, clock)
        => OnBlocklist(flight[c].jwt)

\* The bucket in Redis is sound, and so is its end.
BucketIsSound == TypeOK /\ ExpiryGivesNothing
=============================================================================
