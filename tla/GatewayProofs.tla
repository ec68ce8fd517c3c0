---------------------------- MODULE GatewayProofs ----------------------------
(***************************************************************************)
(* Theorems about Gateway, for any capacity, rate, time to live, lag and   *)
(* number of clients: how many requests a window lets through, what the    *)
(* key's expiry and the announced wait are worth, and that a JWT that was  *)
(* logged out is refused while it lives.                                   *)
(***************************************************************************)
EXTENDS Gateway, TLAPS

-----------------------------------------------------------------------------
(* Arithmetic.                                                             *)

LEMMA Division ==
    ASSUME NEW a \in Nat, NEW b \in Nat \ {0}
    PROVE  a \div b \in Nat /\ b * (a \div b) <= a /\ a < b * (a \div b) + b
BY SMT

LEMMA CeilCovers ==
    ASSUME NEW a \in Nat, NEW b \in Nat \ {0}
    PROVE  CeilDiv(a, b) \in Nat /\ b * CeilDiv(a, b) >= a
<1>1. a + b - 1 \in Nat
  OBVIOUS
<1> DEFINE q == (a + b - 1) \div b
<1>2. q \in Nat /\ a + b - 1 < b * q + b
  BY <1>1, Division
<1>3. b * q \in Nat
  BY <1>2
<1> HIDE DEF q
<1>4. b * q >= a
  BY <1>2, <1>3
<1>5. QED
  BY <1>2, <1>4 DEF CeilDiv, q

LEMMA DivisionGrows ==
    ASSUME NEW a \in Nat, NEW c \in Nat, NEW b \in Nat \ {0}, a <= c
    PROVE  a \div b <= c \div b
<1> DEFINE p == a \div b  q == c \div b
<1>1. p \in Nat /\ q \in Nat /\ b * p <= a /\ c < b * q + b
  BY Division
<1> HIDE DEF p, q
<1>2. b * p < b * (q + 1)
  BY <1>1
<1>3. p < q + 1
  BY <1>1, <1>2
<1>4. QED
  BY <1>1, <1>3 DEF p, q

LEMMA Product ==
    ASSUME NEW r \in Nat, NEW a \in Int, NEW b \in Int
    PROVE  /\ r * a \in Int /\ r * (a + b) = r * a + r * b /\ r * (a - b) = r * a - r * b
           /\ a <= b => r * a <= r * b
           /\ 0 <= a => 0 <= r * a
BY SMT

\* What the constants give: a full bucket holds a token, and the key outlives a refill by
\* the lag of a request.
LEMMA Sizes ==
    /\ Second \in Nat \ {0} /\ Rate \in Nat \ {0} /\ MaxLag \in Nat /\ MaxTime \in Nat
    /\ Full \in Nat /\ Second <= Full
    /\ Ttl \in Nat /\ MaxLag <= Ttl /\ Rate * (Ttl - MaxLag) >= Full
<1>1. /\ Second \in Nat \ {0} /\ Rate \in Nat \ {0} /\ MaxLag \in Nat /\ MaxTime \in Nat
      /\ Capacity \in Nat \ {0} /\ MinTtl \in Nat
  BY BucketAssumption, GatewayAssumption
<1>2. Full \in Nat /\ Second <= Full
  BY <1>1 DEF Full
<1>3. CeilDiv(Full, Rate) \in Nat /\ Rate * CeilDiv(Full, Rate) >= Full
  BY <1>1, <1>2, CeilCovers
<1>4. Ttl \in Nat /\ MinTtl <= Ttl
  BY <1>1, <1>3 DEF Ttl, Full
<1>5. CeilDiv(Full, Rate) + MaxLag <= MinTtl
  BY GatewayAssumption
<1>6. CeilDiv(Full, Rate) <= Ttl - MaxLag
  BY <1>1, <1>3, <1>4, <1>5
<1> DEFINE fill == CeilDiv(Full, Rate)
           left == Ttl - MaxLag
<1> HIDE DEF fill
<1>7. left \in Int /\ fill \in Nat /\ fill <= left
  BY <1>1, <1>3, <1>4, <1>6 DEF fill
<1> HIDE DEF left
<1>8. Rate * fill <= Rate * left
  BY <1>1, <1>7, Product
<1>9. Rate * left \in Int /\ Rate * fill \in Int
  BY <1>1, <1>7, Product
<1>10. QED
  BY <1>1, <1>2, <1>3, <1>4, <1>7, <1>8, <1>9 DEF fill, left
-----------------------------------------------------------------------------
(* The bucket.  What it would hold at t if it could overflow never gets    *)
(* negative, and a request that passes takes a token from it, although the *)
(* request refills the bucket to a clock that may lie before the last.     *)

Buckets == [token : Int, last : Nat]
Holds(b, t) == b.token + Rate * (t - b.last)

\* What a window may still let through, in parts.
Most == Full + Rate * MaxLag
Capped(x) == IF x < Most THEN x ELSE Most

LEMMA HoldsLater ==
    ASSUME NEW b \in Buckets, NEW t \in Int, NEW n \in Int
    PROVE  Holds(b, t) \in Int /\ Holds(b, t + n) = Holds(b, t) + Rate * n /\ Rate * n \in Int
<1>1. Rate \in Nat /\ b.token \in Int /\ t - b.last \in Int
  BY Sizes DEF Buckets
<1> DEFINE d == t - b.last
<1>2. (t + n) - b.last = d + n
  BY <1>1 DEF Buckets
<1> HIDE DEF d
<1>3. Rate * (d + n) = Rate * d + Rate * n /\ Rate * d \in Int /\ Rate * n \in Int
  BY <1>1, Product DEF d
<1>4. Holds(b, t) = b.token + Rate * d /\ Holds(b, t + n) = b.token + Rate * (d + n)
  BY <1>2 DEF Holds, d
<1>5. QED
  BY <1>1, <1>3, <1>4

LEMMA RefilledIs ==
    ASSUME NEW b \in Buckets, NEW now \in Nat
    PROVE  /\ Refilled(b, now) = IF Holds(b, now) < Full THEN Holds(b, now) ELSE Full
           /\ Refilled(b, now) \in Int /\ Refilled(b, now) <= Full
<1>1. Refilled(b, now) = IF Holds(b, now) < Full THEN Holds(b, now) ELSE Full
  BY DEF Refilled, Holds
<1>2. Holds(b, now) \in Int /\ Full \in Nat
  BY HoldsLater, Sizes
<1>3. QED
  BY <1>1, <1>2

LEMMA TakenHolds ==
    ASSUME NEW b \in Buckets, NEW now \in Nat, NEW t \in Nat, now <= t, t - now <= MaxLag,
           Holds(b, t) >= 0
    PROVE  LET n == Taken(b, now)
           IN  /\ n \in Buckets /\ n.last = now
               /\ n.token = Refilled(b, now) - (IF Allowed(b, now) THEN Second ELSE 0)
               /\ n.token <= Full /\ n.token >= -(Rate * MaxLag)
               /\ Holds(n, t) >= 0 /\ Holds(n, t + Ttl - MaxLag) >= Full
               /\ Capped(Holds(n, t)) + (IF Allowed(b, now) THEN Second ELSE 0) <= Capped(Holds(b, t))
<1> DEFINE n == Taken(b, now)
           y == Rate * (t - now)
           m == Rate * MaxLag
           z == Rate * (Ttl - MaxLag)
<1>1. /\ Second \in Nat \ {0} /\ Full \in Nat /\ Second <= Full /\ MaxLag \in Nat /\ Rate \in Nat
      /\ Ttl \in Nat /\ z >= Full
  BY Sizes
<1>2. y \in Int /\ m \in Int /\ z \in Int /\ 0 <= y /\ y <= m
  BY <1>1, Product
<1>3. Refilled(b, now) = (IF Holds(b, now) < Full THEN Holds(b, now) ELSE Full)
      /\ Refilled(b, now) \in Int /\ Refilled(b, now) <= Full
  BY RefilledIs
<1>4. Holds(b, now) \in Int /\ Holds(b, t) = Holds(b, now) + y
  <2> DEFINE d == t - now
  <2>1. d \in Int /\ now \in Int /\ now + d = t
    OBVIOUS
  <2> HIDE DEF d
  <2>2. Holds(b, now) \in Int /\ Holds(b, now + d) = Holds(b, now) + Rate * d
    BY <2>1, HoldsLater
  <2>3. QED
    BY <2>1, <2>2 DEF d
<1>5. Allowed(b, now) <=> Refilled(b, now) >= Second
  BY DEF Allowed
<1>6. /\ n.last = now /\ n.token = Refilled(b, now) - (IF Allowed(b, now) THEN Second ELSE 0)
      /\ n = [token |-> n.token, last |-> n.last]
  BY DEF Taken
<1>7. n.token \in Int /\ n \in Buckets
  BY <1>1, <1>3, <1>6 DEF Buckets
<1> HIDE DEF n
<1>8. Holds(n, t) = n.token + y
  BY <1>6 DEF Holds
<1>9. Holds(n, t + Ttl - MaxLag) = n.token + y + z
  <2>1. t + Ttl - MaxLag = t + (Ttl - MaxLag)
    BY <1>1
  <2>2. QED
    BY <1>1, <1>7, <1>8, <2>1, HoldsLater
<1>10. Most = Full + m
  BY DEF Most
<1> HIDE DEF y, m, z
<1>11. /\ n.token <= Full /\ n.token >= -m
       /\ n.token + y >= 0 /\ n.token + y + z >= Full
  BY <1>1, <1>2, <1>3, <1>4, <1>5, <1>6
<1>12. Capped(n.token + y) + (IF Allowed(b, now) THEN Second ELSE 0) <= Capped(Holds(b, t))
  BY <1>1, <1>2, <1>3, <1>4, <1>5, <1>6, <1>10 DEF Capped
<1>13. QED
  BY <1>6, <1>7, <1>8, <1>9, <1>11, <1>12 DEF n, m
-----------------------------------------------------------------------------
(* The inductive invariant.                                                *)

BucketInv ==
    bucket # Nothing =>
        /\ bucket \in Buckets /\ bucket.last <= clock
        /\ bucket.token <= Full /\ bucket.token >= -(Rate * MaxLag)
        /\ Holds(bucket, clock) >= 0 /\ Holds(bucket, ends - MaxLag) >= Full

\* What a refused client waits for is still to come.
ToldInv ==
    told # Nothing =>
        /\ told.now \in Nat /\ told.wait \in Nat
        /\ bucket # Nothing => bucket.last = told.now /\ bucket.token + Rate * told.wait >= Second

\* What the windows may still let through; a key that is not there gives no more than one
\* that is full.
Level == IF bucket = Nothing THEN Most ELSE Capped(Holds(bucket, clock))

WindowInv ==
    /\ passed \in Nat /\ before \in [0..MaxTime -> Nat]
    /\ \A from \in 0..clock :
          (passed - before[from]) * Second + Level <= Full + Rate * (clock - from + MaxLag)

ClockInv == clock \in 0..MaxTime /\ ends \in Nat /\ asked \in 0..MaxAsked

FlightRecs == [pc : Pcs, kind : {"use", "login", "logout"}, jwt : Jwts \cup {Nothing}, now : Nat,
               late : BOOLEAN]

\* A request past the bucket has the JWT it came with; before, a clock that is not too old.
FlightOK(f) ==
    /\ f.jwt \in issued \cup {Nothing} /\ (f.late => f.jwt \in out)
    /\ f.pc = "limit" => f.now <= clock /\ clock - f.now <= MaxLag
    /\ (f.pc = "limit" /\ f.kind # "login") \/ f.pc \in {"verify", "check", "logout"} =>
          f.jwt \in issued
FlightInv == flight \in [Clients -> FlightRecs] /\ \A c \in Clients : FlightOK(flight[c])

\* A JWT that was logged out has an entry that lives as long, or longer when the clock of
\* the process that wrote it is slow.
Covers(entry, jwt) == entry.jwt = jwt /\ entry.end \in Nat /\ jwt.exp * Second <= entry.end
SessionInv ==
    /\ issued \subseteq Jwts /\ out \subseteq issued /\ \A entry \in blocked : entry.jwt \in issued
    /\ \A jwt \in out : Valid(jwt, clock) => \E entry \in blocked : Covers(entry, jwt)

BucketsInv == ClockInv /\ BucketInv /\ ToldInv /\ WindowInv
GatewayInv == BucketsInv /\ FlightInv /\ SessionInv

-----------------------------------------------------------------------------
(* The bucket's steps.                                                     *)

\* A request takes from the bucket.
LEMMA LimitBucket ==
    ASSUME GatewayInv, NEW c \in Clients, Limit(c)
    PROVE  BucketsInv'
<1> DEFINE now == flight[c].now
           b == Stored(now)
           n == Taken(b, now)
           price == IF Allowed(b, now) THEN Second ELSE 0
<1>1. /\ now \in Nat /\ now <= clock /\ clock - now <= MaxLag /\ clock \in Nat /\ ends \in Nat
      /\ clock \in 0..MaxTime /\ asked \in 0..MaxAsked
      /\ passed \in Nat /\ before \in [0..MaxTime -> Nat]
  <2>1. flight[c] \in FlightRecs /\ FlightOK(flight[c]) /\ flight[c].pc = "limit"
    BY DEF Limit, At, GatewayInv, FlightInv
  <2>2. flight[c].now \in Nat /\ flight[c].now <= clock /\ clock - flight[c].now <= MaxLag
    BY <2>1 DEF FlightRecs, FlightOK
  <2>3. /\ clock \in 0..MaxTime /\ ends \in Nat /\ asked \in 0..MaxAsked
        /\ passed \in Nat /\ before \in [0..MaxTime -> Nat]
    BY DEF GatewayInv, BucketsInv, ClockInv, WindowInv
  <2>4. clock \in Nat
    BY <2>3, Sizes
  <2>5. QED
    BY <2>2, <2>3, <2>4
<1>2. /\ Second \in Nat \ {0} /\ Rate \in Nat \ {0} /\ Full \in Nat /\ Second <= Full
      /\ MaxLag \in Nat /\ Ttl \in Nat /\ MaxTime \in Nat
  BY Sizes
<1>3. b \in Buckets /\ Holds(b, clock) >= 0 /\ Capped(Holds(b, clock)) <= Level /\ Level \in Int
  <2>1. CASE bucket = Nothing
    <3>1. b = [token |-> Full, last |-> now]
      BY <2>1 DEF Stored
    <3> DEFINE d == clock - now
    <3>a. d \in Int /\ 0 <= d
      BY <1>1
    <3>b. Holds(b, clock) = Full + Rate * d
      BY <3>1 DEF Holds
    <3> HIDE DEF d
    <3>2. Rate * d \in Int /\ 0 <= Rate * d /\ Rate * MaxLag \in Int
      BY <1>2, <3>a, Product
    <3>3. Level = Most /\ Most \in Int
      BY <1>2, <2>1, <3>2 DEF Level, Most
    <3>4. Holds(b, clock) \in Int /\ Holds(b, clock) >= 0
      BY <1>2, <3>2, <3>b
    <3>5. QED
      BY <1>1, <1>2, <3>1, <3>3, <3>4 DEF Buckets, Capped
  <2>2. CASE bucket # Nothing
    <3>1. b = bucket /\ Level = Capped(Holds(bucket, clock)) /\ b \in Buckets /\ Holds(b, clock) >= 0
      BY <2>2 DEF Stored, Level, GatewayInv, BucketsInv, BucketInv
    <3>2. Holds(b, clock) \in Int /\ Most \in Int
      <4>1. clock \in Int /\ MaxLag \in Int
        BY <1>1, <1>2
      <4>2. Holds(b, clock) \in Int
        BY <3>1, <4>1, HoldsLater
      <4>3. Rate * MaxLag \in Int
        BY <1>2, <4>1, Product
      <4>4. QED
        BY <1>2, <4>2, <4>3 DEF Most
    <3>3. QED
      BY <3>1, <3>2 DEF Capped
  <2>3. QED
    BY <2>1, <2>2
<1>4. /\ bucket' = n /\ ends' = clock + Ttl /\ UNCHANGED <<clock, asked, before>>
      /\ passed' = passed \/ (Allowed(b, now) /\ passed' = passed + 1)
      /\ told' = Nothing \/ (~Allowed(b, now) /\ told' = [now |-> now, wait |-> Wait(b, now)])
  BY DEF Limit
<1> HIDE DEF b
<1>5. /\ n \in Buckets /\ n.last = now
      /\ n.token = Refilled(b, now) - price
      /\ n.token <= Full /\ n.token >= -(Rate * MaxLag)
      /\ Holds(n, clock) >= 0 /\ Holds(n, clock + Ttl - MaxLag) >= Full
      /\ Capped(Holds(n, clock)) + price <= Capped(Holds(b, clock))
  BY <1>1, <1>3, TakenHolds
<1>6. Refilled(b, now) \in Int
  BY <1>1, <1>3, RefilledIs
<1> HIDE DEF n
<1>7. bucket' # Nothing
  BY <1>4, <1>5, GatewayAssumption DEF Buckets
<1>8. ClockInv'
  BY <1>1, <1>2, <1>4 DEF ClockInv
<1>9. BucketInv'
  <2>1. ends' - MaxLag = clock + Ttl - MaxLag
    BY <1>1, <1>2, <1>4
  <2>2. QED
    BY <1>1, <1>4, <1>5, <2>1 DEF BucketInv, Holds
<1>10. ToldInv'
  <2>1. CASE told' = Nothing
    BY <2>1 DEF ToldInv
  <2>2. CASE ~Allowed(b, now) /\ told' = [now |-> now, wait |-> Wait(b, now)]
    <3> DEFINE lack == Second - Refilled(b, now)
               wait == CeilDiv(lack, Rate)
    <3>1. lack \in Nat
      BY <1>2, <1>6, <2>2 DEF Allowed
    <3> HIDE DEF lack
    <3>2. wait \in Nat /\ Rate * wait >= lack
      BY <1>2, <3>1, CeilCovers
    <3> HIDE DEF wait
    <3>3. told'.now = now /\ told'.wait = wait
      BY <2>2 DEF Wait, wait, lack
    <3>4. Rate * wait \in Int
      BY <1>2, <3>2, Product
    <3>5. n.token + Rate * wait >= Second
      BY <1>2, <1>5, <1>6, <2>2, <3>2, <3>4 DEF lack
    <3>6. QED
      BY <1>1, <1>4, <1>5, <3>2, <3>3, <3>5 DEF ToldInv
  <2>3. QED
    BY <1>4, <2>1, <2>2
<1>11. WindowInv'
  <2>1. Level' = Capped(Holds(n, clock))
    BY <1>4, <1>7 DEF Level, Holds, Capped, Most
  <2>2. Level' + price <= Level /\ Level' \in Int
    <3>a. clock \in Int /\ MaxLag \in Int
      BY <1>1, <1>2
    <3>b. Holds(n, clock) \in Int /\ Holds(b, clock) \in Int
      BY <1>3, <1>5, <3>a, HoldsLater
    <3>c. Rate * MaxLag \in Int
      BY <1>2, <3>a, Product
    <3>1. Holds(n, clock) \in Int /\ Holds(b, clock) \in Int /\ Most \in Int
      BY <1>2, <3>b, <3>c DEF Most
    <3>2. Capped(Holds(n, clock)) \in Int /\ Capped(Holds(b, clock)) \in Int
      BY <3>1 DEF Capped
    <3>3. QED
      BY <1>2, <1>3, <1>5, <2>1, <3>2
  <2>3. ASSUME NEW from \in 0..clock
        PROVE  (passed' - before[from]) * Second + Level' <= Full + Rate * (clock - from + MaxLag)
    <3> DEFINE d  == passed - before[from]
               r == Full + Rate * (clock - from + MaxLag)
    <3>1. from \in 0..MaxTime /\ from \in Int /\ clock - from + MaxLag \in Int
      BY <1>1, <1>2
    <3>2. before[from] \in Nat
      BY <1>1, <3>1
    <3>3. /\ d \in Int /\ passed' - before[from] \in {d, d + 1}
          /\ passed' - before[from] = d + 1 => Allowed(b, now)
      BY <1>1, <1>4, <3>2
    <3>4. d * Second + Level <= r
      BY DEF GatewayInv, BucketsInv, WindowInv
    <3>5. r \in Int
      <4>1. Rate * (clock - from + MaxLag) \in Int
        BY <1>2, <3>1, Product
      <4>2. QED
        BY <1>2, <4>1
    <3> HIDE DEF d, r
    <3>6. d * Second \in Int /\ (d + 1) * Second = d * Second + Second
      BY <1>2, <3>3
    <3>7. /\ (passed' - before[from]) * Second \in Int
          /\ (passed' - before[from]) * Second <= d * Second + price
      <4>1. CASE passed' - before[from] = d
        BY <1>2, <3>6, <4>1
      <4>2. CASE passed' - before[from] = d + 1
        BY <1>2, <3>3, <3>6, <4>2
      <4>3. QED
        BY <3>3, <4>1, <4>2
    <3>8. price \in Int
      BY <1>2
    <3> HIDE DEF price
    <3>9. d * Second + price + Level' <= r
      <4> DEFINE e == d * Second  l == Level  k == Level'
      <4>1. e \in Int /\ e + l <= r /\ k + price <= l /\ k \in Int /\ l \in Int
        BY <1>3, <2>2, <3>4, <3>6
      <4> HIDE DEF e, l, k
      <4>2. e + price + k <= r
        BY <3>5, <3>8, <4>1
      <4>3. QED
        BY <4>2 DEF e, k
    <3>10. QED
      <4> DEFINE x == (passed' - before[from]) * Second  e == d * Second  k == Level'
      <4>1. x \in Int /\ e \in Int /\ k \in Int /\ x <= e + price /\ e + price + k <= r
        BY <2>2, <3>6, <3>7, <3>9
      <4> HIDE DEF x, e, k
      <4>2. x + k <= r
        BY <3>5, <3>8, <4>1
      <4>3. QED
        BY <4>2 DEF x, k, r
  <2>4. QED
    BY <1>1, <1>4, <2>3 DEF WindowInv
<1>12. QED
  BY <1>8, <1>9, <1>10, <1>11 DEF BucketsInv
\* Other requests leave the bucket as it is.
LEMMA BucketStays ==
    ASSUME BucketsInv, UNCHANGED <<clock, bucket, ends, passed, before, told>>,
           asked' \in 0..MaxAsked
    PROVE  BucketsInv'
<1>1. clock' = clock /\ bucket' = bucket /\ ends' = ends /\ passed' = passed
      /\ before' = before /\ told' = told
  OBVIOUS
<1>2. ClockInv'
  BY <1>1 DEF BucketsInv, ClockInv
<1>3. BucketInv'
  BY <1>1 DEF BucketsInv, BucketInv, Holds
<1>4. ToldInv'
  BY <1>1 DEF BucketsInv, ToldInv
<1>5. Level' = Level
  BY <1>1 DEF Level, Holds
<1>6. WindowInv'
  BY <1>1, <1>5 DEF BucketsInv, WindowInv
<1>7. QED
  BY <1>2, <1>3, <1>4, <1>6 DEF BucketsInv

\* A tick refills the windows by no more than Rate.  The key it drops was as good as full.
LEMMA TickBucket ==
    ASSUME GatewayInv, Tick
    PROVE  BucketsInv'
<1>1. /\ clock \in 0..MaxTime /\ ends \in Nat /\ asked \in 0..MaxAsked
      /\ passed \in Nat /\ before \in [0..MaxTime -> Nat]
  BY DEF GatewayInv, BucketsInv, ClockInv, WindowInv
<1>2. /\ Second \in Nat \ {0} /\ Rate \in Nat \ {0} /\ Full \in Nat /\ MaxLag \in Nat
      /\ MaxTime \in Nat
  BY Sizes
<1>3. /\ clock < MaxTime /\ clock' = clock + 1 /\ ends' = ends /\ passed' = passed
      /\ told' = told /\ asked' = asked
      /\ before' = [before EXCEPT ![clock + 1] = passed]
      /\ bucket' = IF clock + 1 > ends THEN Nothing ELSE bucket
  BY DEF Tick
<1>4. clock + 1 \in 0..MaxTime /\ clock \in Int /\ ends \in Int
  BY <1>1, <1>2, <1>3
<1>5. Rate * MaxLag \in Int /\ Most \in Int
  BY <1>2, Product DEF Most
<1>6. bucket # Nothing =>
         /\ bucket \in Buckets /\ bucket.last <= clock
         /\ bucket.token <= Full /\ bucket.token >= -(Rate * MaxLag)
         /\ Holds(bucket, clock) >= 0 /\ Holds(bucket, ends - MaxLag) >= Full
  BY DEF GatewayInv, BucketsInv, BucketInv
<1>7. bucket # Nothing =>
         Holds(bucket, clock) \in Int /\ Holds(bucket, clock + 1) = Holds(bucket, clock) + Rate
  <2> SUFFICES ASSUME bucket # Nothing
               PROVE  /\ Holds(bucket, clock) \in Int
                      /\ Holds(bucket, clock + 1) = Holds(bucket, clock) + Rate
    OBVIOUS
  <2>1. Holds(bucket, clock) \in Int /\ Holds(bucket, clock + 1) = Holds(bucket, clock) + Rate * 1
    BY <1>4, <1>6, HoldsLater
  <2>2. QED
    BY <1>2, <2>1
<1>8. Level \in Int /\ Level' \in Int /\ Level' <= Most /\ Level' <= Level + Rate
  <2>1. CASE bucket = Nothing
    <3>1. Level = Most /\ Level' = Most
      BY <1>3, <2>1 DEF Level, Most
    <3>2. QED
      BY <1>2, <1>5, <3>1
  <2>2. CASE bucket # Nothing /\ clock + 1 > ends
    <3> DEFINE s == ends - MaxLag
               n == clock - s
    <3>1. s \in Int /\ n \in Int /\ MaxLag \in Int /\ MaxLag <= n /\ s + n = clock
      BY <1>2, <1>4, <2>2
    <3>2. Holds(bucket, s) >= Full
      BY <1>6, <2>2
    <3> HIDE DEF s, n
    <3>3. Holds(bucket, s) \in Int /\ Rate * n \in Int
          /\ Holds(bucket, clock) = Holds(bucket, s) + Rate * n
      BY <1>6, <2>2, <3>1, HoldsLater
    <3>4. Rate * MaxLag <= Rate * n
      BY <1>2, <3>1, Product
    <3>5. Holds(bucket, clock) >= Most
      BY <1>2, <1>5, <3>2, <3>3, <3>4 DEF Most
    <3>6. Level = Most
      BY <1>5, <1>7, <2>2, <3>5 DEF Level, Capped
    <3>7. Level' = Most
      BY <1>3, <2>2 DEF Level, Most
    <3>8. QED
      BY <1>2, <1>5, <3>6, <3>7
  <2>3. CASE bucket # Nothing /\ ~(clock + 1 > ends)
    <3>1. bucket' = bucket
      BY <1>3, <2>3
    <3>2. Level = Capped(Holds(bucket, clock))
      BY <2>3 DEF Level
    <3>3. Level' = Capped(Holds(bucket, clock + 1))
      BY <1>3, <2>3, <3>1 DEF Level, Capped, Holds, Most
    <3> DEFINE h == Holds(bucket, clock)
    <3>4. h \in Int /\ Level = Capped(h) /\ Level' = Capped(h + Rate)
      BY <1>7, <2>3, <3>2, <3>3
    <3> HIDE DEF h
    <3>5. QED
      BY <1>2, <1>5, <3>4 DEF Capped
  <2>4. QED
    BY <2>1, <2>2, <2>3
<1>9. ClockInv'
  BY <1>1, <1>3, <1>4 DEF ClockInv
<1>10. BucketInv'
  <2> SUFFICES ASSUME bucket' # Nothing
               PROVE  BucketInv'
    BY DEF BucketInv
  <2>1. bucket' = bucket /\ bucket # Nothing
    BY <1>3
  <2>2. bucket.last \in Int
    BY <1>6, <2>1 DEF Buckets
  <2>3. Holds(bucket, clock + 1) >= 0 /\ bucket.last <= clock + 1
    BY <1>2, <1>4, <1>6, <1>7, <2>1, <2>2
  <2>4. QED
    BY <1>3, <1>6, <2>1, <2>3 DEF BucketInv, Holds
<1>11. ToldInv'
  <2>1. ToldInv
    BY DEF GatewayInv, BucketsInv
  <2>2. bucket' = Nothing \/ bucket' = bucket
    BY <1>3
  <2>3. QED
    BY <1>3, <2>1, <2>2 DEF ToldInv
<1>12. WindowInv'
  <2>1. before' \in [0..MaxTime -> Nat] /\ before'[clock + 1] = passed
        /\ \A from \in 0..clock : before'[from] = before[from]
    BY <1>1, <1>2, <1>3, <1>4
  <2>2. ASSUME NEW from \in 0..(clock + 1)
        PROVE  (passed - before'[from]) * Second + Level'
                  <= Full + Rate * (clock + 1 - from + MaxLag)
    <3>1. CASE from = clock + 1
      <4>1. (passed - before'[from]) * Second = 0 /\ clock + 1 - from + MaxLag = MaxLag
        BY <1>1, <1>2, <1>4, <2>1, <3>1
      <4>2. QED
        BY <1>2, <1>5, <1>8, <4>1 DEF Most
    <3>2. CASE from # clock + 1
      <4>1. from \in 0..clock /\ from \in Int
        BY <1>4, <3>2
      <4> DEFINE w == clock - from + MaxLag
                 x == (passed - before[from]) * Second
                 l == Level
                 k == Level'
      <4>2. x + l <= Full + Rate * w
        BY <4>1 DEF GatewayInv, BucketsInv, WindowInv
      <4>3. before[from] \in Nat
        BY <1>1, <1>2, <1>4, <4>1
      <4>4. x \in Int /\ w \in Int /\ clock + 1 - from + MaxLag = w + 1
        BY <1>1, <1>2, <1>4, <4>1, <4>3
      <4>5. l \in Int /\ k \in Int /\ k <= l + Rate
        BY <1>8
      <4>6. (passed - before'[from]) * Second = x
        BY <2>1, <4>1
      <4> HIDE DEF w, x, l, k
      <4>7. Rate * w \in Int /\ Rate * (w + 1) = Rate * w + Rate * 1
        BY <1>2, <4>4, Product
      <4>8. x + k <= Full + Rate * (w + 1)
        BY <1>2, <4>2, <4>4, <4>5, <4>7
      <4>9. QED
        BY <4>4, <4>6, <4>8 DEF k
    <3>3. QED
      BY <3>1, <3>2
  <2>3. QED
    BY <1>1, <1>3, <2>1, <2>2 DEF WindowInv
<1>13. QED
  BY <1>9, <1>10, <1>11, <1>12 DEF BucketsInv
-----------------------------------------------------------------------------
(* The requests' steps.                                                    *)

\* A step of one request that forgets no JWT.
LEMMA FlightMoves ==
    ASSUME FlightInv, NEW c \in Clients, NEW g \in FlightRecs, FlightOK(g),
           clock' = clock, issued \subseteq issued', out \subseteq out',
           flight' = [flight EXCEPT ![c] = g]
    PROVE  FlightInv'
<1>1. flight' \in [Clients -> FlightRecs]
  BY DEF FlightInv
<1>2. ASSUME NEW d \in Clients PROVE FlightOK(flight[d])'
  <2>1. FlightOK(flight[d]) /\ flight[d] \in FlightRecs
    BY DEF FlightInv
  <2>2. CASE d = c
    <3>1. flight'[d] = g
      BY <2>2 DEF FlightInv
    <3>2. QED
      BY <3>1 DEF FlightOK
  <2>3. CASE d # c
    <3>1. flight'[d] = flight[d]
      BY <2>3 DEF FlightInv
    <3>2. QED
      BY <2>1, <3>1 DEF FlightOK
  <2>4. QED
    BY <2>2, <2>3
<1>3. QED
  BY <1>1, <1>2 DEF FlightInv

LEMMA IdleOK == Idle \in FlightRecs /\ FlightOK(Idle)
BY DEF Idle, FlightRecs, FlightOK, Pcs

\* A client is answered.
LEMMA AnswerMoves ==
    ASSUME FlightInv, NEW c \in Clients, Answer(c),
           clock' = clock, issued \subseteq issued', out \subseteq out'
    PROVE  FlightInv'
BY IdleOK, FlightMoves DEF Answer

\* A request goes on behind the bucket.
LEMMA GotoMoves ==
    ASSUME FlightInv, NEW c \in Clients, NEW pc \in {"login", "verify", "check", "logout"},
           Goto(c, pc), pc # "login" => flight[c].jwt \in issued, UNCHANGED <<clock, issued, out>>
    PROVE  FlightInv'
<1> DEFINE g == [flight[c] EXCEPT !.pc = pc]
<1>1. flight[c] \in FlightRecs /\ FlightOK(flight[c]) /\ flight \in [Clients -> FlightRecs]
  BY DEF FlightInv
<1>2. g \in FlightRecs
  BY <1>1 DEF FlightRecs, Pcs
<1>3. /\ g.pc = pc /\ g.jwt = flight[c].jwt /\ g.kind = flight[c].kind /\ g.late = flight[c].late
  BY <1>1 DEF FlightRecs
<1>4. flight' = [flight EXCEPT ![c] = g]
  BY DEF Goto
<1> HIDE DEF g
<1>5. FlightOK(g)
  BY <1>1, <1>3 DEF FlightOK
<1>6. QED
  BY <1>2, <1>4, <1>5, FlightMoves

\* A request past the bucket has a JWT.
LEMMA CarriesJwt ==
    ASSUME GatewayInv, NEW c \in Clients, flight[c].pc \in {"verify", "check", "logout"}
    PROVE  flight[c].jwt \in issued
BY DEF GatewayInv, FlightInv, FlightOK

LEMMA SessionStays ==
    ASSUME SessionInv, UNCHANGED <<clock, issued, blocked, out>>
    PROVE  SessionInv'
BY DEF SessionInv, Valid, Covers

LEMMA RequestKeeps ==
    ASSUME GatewayInv, NEW c \in Clients, NEW kind \in {"use", "login", "logout"},
           NEW jwt \in issued \cup {Nothing}, kind # "login" => jwt \in issued,
           Request(c, kind, jwt)
    PROVE  GatewayInv'
<1> DEFINE g == [pc |-> "limit", kind |-> kind, jwt |-> jwt, now |-> clock, late |-> jwt \in out]
<1>1. clock \in Nat /\ MaxLag \in Nat /\ issued \subseteq Jwts
  BY Sizes DEF GatewayInv, BucketsInv, ClockInv, SessionInv
<1>2. g \in FlightRecs /\ FlightOK(g)
  <2>1. (jwt \in out) \in BOOLEAN
    OBVIOUS
  <2>2. g.pc = "limit" /\ g.kind = kind /\ g.jwt = jwt /\ g.now = clock /\ g.late = (jwt \in out)
    BY Zenon
  <2>3. g \in FlightRecs
    BY <1>1, <2>1, Zenon DEF FlightRecs, Pcs
  <2> HIDE DEF g
  <2>4. (g.late => g.jwt \in out) /\ g.jwt \in issued \cup {Nothing}
    BY <2>2, Zenon
  <2>5. g.now <= clock /\ clock - g.now <= MaxLag
    BY <1>1, <2>2
  <2>6. g.kind # "login" => g.jwt \in issued
    BY <2>2
  <2>7. QED
    BY <2>2, <2>3, <2>4, <2>5, <2>6 DEF FlightOK
<1>3. flight' = [flight EXCEPT ![c] = g] /\ UNCHANGED <<clock, issued, blocked, out>>
      /\ UNCHANGED <<bucket, ends, passed, before, told>> /\ asked < MaxAsked /\ asked' = asked + 1
  BY DEF Request
<1> HIDE DEF g
<1>4. FlightInv'
  BY <1>2, <1>3, FlightMoves DEF GatewayInv
<1>5. SessionInv'
  BY <1>3, SessionStays DEF GatewayInv
<1>6. asked' \in 0..MaxAsked
  BY <1>3, GatewayAssumption DEF GatewayInv, BucketsInv, ClockInv
<1>7. BucketsInv'
  BY <1>3, <1>6, BucketStays DEF GatewayInv
<1>8. QED
  BY <1>4, <1>5, <1>7 DEF GatewayInv

LEMMA LimitKeeps ==
    ASSUME GatewayInv, NEW c \in Clients, Limit(c)
    PROVE  GatewayInv'
<1>1. BucketsInv'
  BY LimitBucket
<1>2. UNCHANGED <<clock, issued, blocked, out>>
  BY DEF Limit
<1>3. SessionInv'
  BY <1>2, SessionStays DEF GatewayInv
<1>4. FlightInv /\ FlightOK(flight[c]) /\ flight[c].pc = "limit"
  BY DEF GatewayInv, FlightInv, Limit, At
<1>5. \/ Goto(c, IF flight[c].kind = "login" THEN "login" ELSE "verify")
      \/ Answer(c)
  BY DEF Limit
<1>6. FlightInv'
  <2>1. CASE Answer(c)
    BY <1>2, <1>4, <2>1, AnswerMoves
  <2>2. CASE Goto(c, IF flight[c].kind = "login" THEN "login" ELSE "verify")
    <3>1. CASE flight[c].kind = "login"
      <4>1. Goto(c, "login")
        BY <2>2, <3>1
      <4>2. QED
        BY <1>2, <1>4, <4>1, GotoMoves
    <3>2. CASE flight[c].kind # "login"
      <4>1. Goto(c, "verify") /\ flight[c].jwt \in issued
        BY <1>4, <2>2, <3>2 DEF FlightOK
      <4>2. QED
        BY <1>2, <1>4, <4>1, GotoMoves
    <3>3. QED
      BY <3>1, <3>2
  <2>3. QED
    BY <1>5, <2>1, <2>2
<1>7. QED
  BY <1>1, <1>3, <1>6 DEF GatewayInv

LEMMA CheckKeeps ==
    ASSUME GatewayInv, NEW c \in Clients, LimitFails(c) \/ VerifyJwt(c) \/ CheckBlocklist(c)
    PROVE  GatewayInv'
<1>1. /\ UNCHANGED <<clock, issued, blocked, out>>
      /\ UNCHANGED <<bucket, ends, passed, before, told, asked>>
  BY DEF LimitFails, VerifyJwt, CheckBlocklist
<1>2. SessionInv'
  BY <1>1, SessionStays DEF GatewayInv
<1>3. BucketsInv'
  BY <1>1, BucketStays DEF GatewayInv, BucketsInv, ClockInv
<1>4. FlightInv'
  <2>1. CASE Answer(c)
    BY <1>1, <2>1, AnswerMoves DEF GatewayInv
  <2>2. CASE ~Answer(c)
    <3>1. flight[c].pc \in {"verify", "check"} /\ (Goto(c, "check") \/ Goto(c, "logout"))
      BY <2>2 DEF LimitFails, VerifyJwt, CheckBlocklist, At
    <3>2. FlightInv /\ flight[c].jwt \in issued
      BY <3>1, CarriesJwt DEF GatewayInv
    <3>3. QED
      BY <1>1, <3>1, <3>2, GotoMoves
  <2>3. QED
    BY <2>1, <2>2
<1>5. QED
  BY <1>2, <1>3, <1>4 DEF GatewayInv

LEMMA JwtRecs ==
    ASSUME NEW jwt \in Jwts
    PROVE  jwt.exp \in Nat /\ jwt.exp * Second \in Nat
<1>1. Second \in Nat \ {0} /\ Life \in Nat /\ MaxTime \in Nat
  BY Sizes, GatewayAssumption
<1>2. PICK s \in 0..(MaxTime \div Second) : jwt = [iat |-> s, exp |-> s + Life]
  BY DEF Jwts
<1>3. MaxTime \div Second \in Nat
  BY <1>1, Division
<1>4. jwt.exp \in Nat
  BY <1>1, <1>2, <1>3
<1>5. QED
  BY <1>1, <1>4

LEMMA CreateJwtKeeps ==
    ASSUME GatewayInv, NEW c \in Clients, CreateJwt(c)
    PROVE  GatewayInv'
<1>0. PICK now \in Clocks :
         issued' = issued \cup {[iat |-> now \div Second, exp |-> now \div Second + Life]}
  BY DEF CreateJwt
<1> DEFINE s == now \div Second
           jwt == [iat |-> s, exp |-> s + Life]
<1>1. /\ issued' = issued \cup {jwt} /\ Answer(c) /\ UNCHANGED <<clock, blocked, out>>
      /\ UNCHANGED <<bucket, ends, passed, before, told, asked>>
  BY <1>0 DEF CreateJwt
<1>2. now \in Nat /\ now <= MaxTime /\ MaxTime \in Nat /\ Second \in Nat \ {0}
  BY Sizes DEF Clocks, GatewayInv, BucketsInv, ClockInv
<1>3. s \in Nat /\ s <= MaxTime \div Second /\ MaxTime \div Second \in Nat
  BY <1>2, Division, DivisionGrows
<1> HIDE DEF s
<1>4. jwt \in Jwts
  BY <1>3 DEF Jwts
<1> HIDE DEF jwt
<1>5. SessionInv'
  BY <1>1, <1>4 DEF GatewayInv, SessionInv, Valid
<1>6. FlightInv'
  BY <1>1, AnswerMoves DEF GatewayInv
<1>7. BucketsInv'
  BY <1>1, BucketStays DEF GatewayInv, BucketsInv, ClockInv
<1>8. QED
  BY <1>5, <1>6, <1>7 DEF GatewayInv

\* A logout leaves an entry that lives as long as the JWT, or the JWT is dead.
LEMMA LogoutKeeps ==
    ASSUME GatewayInv, NEW c \in Clients, Logout(c)
    PROVE  GatewayInv'
<1> DEFINE jwt == flight[c].jwt
<1>0. PICK now \in Clocks :
         \/ /\ blocked' = IF Rest(jwt, now) > 0
                          THEN blocked \cup {[jwt |-> jwt, end |-> clock + Rest(jwt, now)]}
                          ELSE blocked
            /\ out' = out \cup {jwt}
         \/ UNCHANGED <<blocked, out>>
  BY DEF Logout
<1> DEFINE entry == [jwt |-> jwt, end |-> clock + Rest(jwt, now)]
<1>1. /\ Answer(c) /\ UNCHANGED <<clock, issued>>
      /\ UNCHANGED <<bucket, ends, passed, before, told, asked>>
      /\ \/ /\ blocked' = IF Rest(jwt, now) > 0 THEN blocked \cup {entry} ELSE blocked
            /\ out' = out \cup {jwt}
         \/ UNCHANGED <<blocked, out>>
  BY <1>0 DEF Logout
<1>2. jwt \in issued /\ jwt \in Jwts /\ clock \in Nat /\ now \in Nat /\ now <= clock
  BY CarriesJwt, Sizes DEF Clocks, Logout, At, GatewayInv, SessionInv, BucketsInv, ClockInv
<1>3. jwt.exp * Second \in Nat
  BY <1>2, JwtRecs
<1>4. /\ entry.jwt = jwt /\ (Rest(jwt, now) > 0 => Covers(entry, jwt))
      /\ ~(Rest(jwt, now) > 0) => ~Valid(jwt, clock)
  <2> DEFINE e == jwt.exp * Second
  <2>1. /\ Rest(jwt, now) = e - now /\ (Valid(jwt, clock) <=> clock < e) /\ e \in Nat
        /\ entry.jwt = jwt /\ entry.end = clock + Rest(jwt, now)
        /\ Covers(entry, jwt) <=> entry.jwt = jwt /\ entry.end \in Nat /\ e <= entry.end
    BY <1>3 DEF Rest, Valid, Covers
  <2> HIDE DEF e, entry
  <2>2. QED
    BY <1>2, <2>1
<1> HIDE DEF jwt, entry
<1>5. SessionInv'
  <2>1. CASE UNCHANGED <<blocked, out>>
    BY <1>1, <2>1, SessionStays DEF GatewayInv
  <2>2. CASE /\ blocked' = IF Rest(jwt, now) > 0 THEN blocked \cup {entry} ELSE blocked
             /\ out' = out \cup {jwt}
    <3>1. issued' \subseteq Jwts /\ out' \subseteq issued' /\ \A e \in blocked' : e.jwt \in issued'
      BY <1>1, <1>2, <1>4, <2>2 DEF GatewayInv, SessionInv
    <3>2. ASSUME NEW j \in out', Valid(j, clock)
          PROVE  \E e \in blocked' : Covers(e, j)
      <4>1. CASE j \in out
        <5>1. \E e \in blocked : Covers(e, j)
          BY <3>2, <4>1 DEF GatewayInv, SessionInv
        <5>2. blocked \subseteq blocked'
          BY <2>2
        <5>3. QED
          BY <5>1, <5>2
      <4>2. CASE j = jwt
        <5>1. entry \in blocked' /\ Covers(entry, jwt)
          BY <1>4, <2>2, <3>2, <4>2
        <5>2. QED
          BY <4>2, <5>1
      <4>3. QED
        BY <2>2, <4>1, <4>2
    <3>3. QED
      BY <1>1, <3>1, <3>2 DEF SessionInv, Valid, Covers
  <2>3. QED
    BY <1>1, <2>1, <2>2
<1>6. out \subseteq out'
  BY <1>1
<1>7. FlightInv'
  BY <1>1, <1>6, AnswerMoves DEF GatewayInv
<1>8. BucketsInv'
  BY <1>1, BucketStays DEF GatewayInv, BucketsInv, ClockInv
<1>9. QED
  BY <1>5, <1>7, <1>8 DEF GatewayInv

\* A tick keeps the entries of the JWTs that live on.
LEMMA TickKeeps ==
    ASSUME GatewayInv, Tick
    PROVE  GatewayInv'
<1>1. /\ UNCHANGED <<issued, out, flight>> /\ clock' = clock + 1
      /\ blocked' = {entry \in blocked : clock' <= entry.end}
      /\ \A c \in Clients : flight[c].pc = "limit" => clock - flight[c].now < MaxLag
  BY DEF Tick, At
<1>2. clock \in Nat /\ MaxLag \in Nat
  BY Sizes DEF GatewayInv, BucketsInv, ClockInv
<1>3. SessionInv'
  <2>1. issued \subseteq Jwts /\ out \subseteq issued /\ \A entry \in blocked : entry.jwt \in issued
    BY DEF GatewayInv, SessionInv
  <2>2. ASSUME NEW jwt \in out, clock + 1 < jwt.exp * Second
        PROVE  \E entry \in blocked' : Covers(entry, jwt)
    <3>1. jwt.exp * Second \in Nat
      BY <2>1, JwtRecs
    <3>2. Valid(jwt, clock)
      BY <1>2, <2>2, <3>1 DEF Valid
    <3>3. PICK entry \in blocked : Covers(entry, jwt)
      BY <3>2 DEF GatewayInv, SessionInv
    <3>4. clock' <= entry.end
      BY <1>1, <1>2, <2>2, <3>1, <3>3 DEF Covers
    <3>5. QED
      BY <1>1, <3>3, <3>4
  <2>3. \A entry \in blocked' : entry.jwt \in issued'
    BY <1>1, <2>1
  <2>4. QED
    BY <1>1, <2>1, <2>2, <2>3 DEF SessionInv, Valid, Covers
<1>4. FlightInv'
  <2>1. ASSUME NEW c \in Clients PROVE FlightOK(flight[c])'
    <3>1. flight[c] \in FlightRecs /\ FlightOK(flight[c])
      BY DEF GatewayInv, FlightInv
    <3>2. flight[c].now \in Nat
      BY <3>1 DEF FlightRecs
    <3>3. flight[c].pc = "limit" => flight[c].now <= clock + 1 /\ (clock + 1) - flight[c].now <= MaxLag
      BY <1>1, <1>2, <3>1, <3>2 DEF FlightOK
    <3>4. flight'[c] = flight[c] /\ issued' = issued /\ out' = out /\ clock' = clock + 1
      BY <1>1
    <3>5. flight[c].pc = "limit" => flight[c].now <= clock' /\ clock' - flight[c].now <= MaxLag
      BY <3>3, <3>4
    <3>6. QED
      BY <3>1, <3>4, <3>5, Zenon DEF FlightOK
  <2>2. QED
    BY <1>1, <2>1 DEF GatewayInv, FlightInv
<1>5. BucketsInv'
  BY TickBucket
<1>6. QED
  BY <1>3, <1>4, <1>5 DEF GatewayInv

LEMMA InitGateway == Init => GatewayInv
<1> SUFFICES ASSUME Init PROVE GatewayInv
  OBVIOUS
<1>1. /\ clock = 0 /\ bucket = Nothing /\ ends = 0 /\ asked = 0 /\ passed = 0 /\ told = Nothing
      /\ before = [t \in 0..MaxTime |-> 0] /\ issued = {} /\ blocked = {} /\ out = {}
      /\ flight = [c \in Clients |-> Idle]
  BY DEF Init
<1>2. /\ Second \in Nat \ {0} /\ Rate \in Nat \ {0} /\ Full \in Nat /\ MaxLag \in Nat
      /\ MaxTime \in Nat /\ MaxAsked \in Nat
  BY Sizes, GatewayAssumption
<1>3. ClockInv /\ BucketInv /\ ToldInv
  BY <1>1, <1>2 DEF ClockInv, BucketInv, ToldInv
<1>4. WindowInv
  <2>1. Level = Full + Rate * MaxLag
    BY <1>1 DEF Level, Most
  <2>2. ASSUME NEW from \in 0..clock
        PROVE  (passed - before[from]) * Second + Level <= Full + Rate * (clock - from + MaxLag)
    <3>1. from = 0 /\ before[from] = 0
      BY <1>1, <1>2
    <3>2. clock - from + MaxLag = MaxLag /\ (passed - before[from]) * Second = 0
      BY <1>1, <1>2, <3>1
    <3>3. Rate * MaxLag \in Int
      BY <1>2, Product
    <3>4. QED
      BY <1>2, <2>1, <3>2, <3>3
  <2>3. passed \in Nat /\ before \in [0..MaxTime -> Nat]
    BY <1>1
  <2>4. QED
    BY <2>2, <2>3 DEF WindowInv
<1>5. FlightInv
  BY <1>1, IdleOK DEF FlightInv
<1>6. SessionInv
  BY <1>1 DEF SessionInv
<1>7. QED
  BY <1>3, <1>4, <1>5, <1>6 DEF GatewayInv, BucketsInv

LEMMA GatewayNext == GatewayInv /\ [Next]_vars => GatewayInv'
<1> SUFFICES ASSUME GatewayInv, [Next]_vars PROVE GatewayInv'
  OBVIOUS
<1>1. ASSUME NEW c \in Clients, Request(c, "login", Nothing) PROVE GatewayInv'
  BY <1>1, RequestKeeps
<1>2. ASSUME NEW c \in Clients, NEW jwt \in issued, NEW kind \in {"use", "logout"},
             Request(c, kind, jwt)
      PROVE  GatewayInv'
  BY <1>2, RequestKeeps
<1>3. ASSUME NEW c \in Clients, Limit(c) PROVE GatewayInv'
  BY <1>3, LimitKeeps
<1>4. ASSUME NEW c \in Clients, CreateJwt(c) PROVE GatewayInv'
  BY <1>4, CreateJwtKeeps
<1>5. ASSUME NEW c \in Clients, LimitFails(c) \/ VerifyJwt(c) \/ CheckBlocklist(c) PROVE GatewayInv'
  BY <1>5, CheckKeeps
<1>6. ASSUME NEW c \in Clients, Logout(c) PROVE GatewayInv'
  BY <1>6, LogoutKeeps
<1>7. CASE Tick
  BY <1>7, TickKeeps
<1>8. CASE UNCHANGED vars
  <2>1. UNCHANGED <<clock, issued, blocked, out>> /\ flight' = flight
        /\ UNCHANGED <<bucket, ends, passed, before, told, asked>>
    BY <1>8 DEF vars
  <2>2. SessionInv'
    BY <2>1, SessionStays DEF GatewayInv
  <2>3. FlightInv'
    BY <2>1 DEF GatewayInv, FlightInv, FlightOK
  <2>4. BucketsInv'
    BY <2>1, BucketStays DEF GatewayInv, BucketsInv, ClockInv
  <2>5. QED
    BY <2>2, <2>3, <2>4 DEF GatewayInv
<1>9. QED
  BY <1>1, <1>2, <1>3, <1>4, <1>5, <1>6, <1>7, <1>8 DEF Next
-----------------------------------------------------------------------------
(* The theorems.                                                           *)

LEMMA GatewayInvAlways == Spec => []GatewayInv
BY InitGateway, GatewayNext, PTL DEF Spec

\* The bucket in Redis is sound (internal/infra/redis/rate_limiter/rate_limiter.go): no
\* client, clock or expiry leaves it above its capacity or more than a lag in debt, and when
\* its key expires a request whose clock is as old as allowed would find it full.
THEOREM BucketSound == Spec => []BucketIsSound
<1>1. ASSUME GatewayInv PROVE BucketIsSound
  <2>1. /\ clock \in 0..MaxTime /\ ends \in Nat /\ asked \in 0..MaxAsked
        /\ issued \subseteq Jwts /\ out \subseteq issued /\ \A entry \in blocked : entry.jwt \in issued
    BY <1>1 DEF GatewayInv, BucketsInv, ClockInv, SessionInv
  <2>2. \A c \in Clients : flight[c].pc \in Pcs /\ flight[c].jwt \in issued \cup {Nothing}
    BY <1>1 DEF GatewayInv, FlightInv, FlightOK, FlightRecs
  <2>3. ASSUME bucket # Nothing
        PROVE  /\ bucket.token \in -(Rate * MaxLag)..Full /\ bucket.last \in 0..clock
               /\ Refilled(bucket, ends - MaxLag) = Full
    <3>1. /\ bucket \in Buckets /\ bucket.last <= clock
          /\ bucket.token <= Full /\ bucket.token >= -(Rate * MaxLag)
          /\ Holds(bucket, ends - MaxLag) >= Full
      BY <1>1, <2>3 DEF GatewayInv, BucketsInv, BucketInv
    <3>2. Rate * MaxLag \in Int /\ Full \in Nat /\ ends - MaxLag \in Int /\ clock \in Nat
      BY <2>1, Sizes, Product
    <3>3. Holds(bucket, ends - MaxLag) \in Int
      BY <3>1, <3>2, HoldsLater
    <3>4. Refilled(bucket, ends - MaxLag) =
             IF Holds(bucket, ends - MaxLag) < Full THEN Holds(bucket, ends - MaxLag) ELSE Full
      BY DEF Refilled, Holds
    <3>5. Refilled(bucket, ends - MaxLag) = Full
      BY <3>1, <3>2, <3>3, <3>4
    <3> DEFINE m == Rate * MaxLag
    <3>6. m \in Int /\ bucket.token >= -m /\ bucket.token \in Int /\ bucket.last \in Nat
      BY <3>1, <3>2 DEF Buckets
    <3> HIDE DEF m
    <3>7. bucket.token \in -m..Full
      BY <3>1, <3>2, <3>6
    <3>8. QED
      BY <3>1, <3>2, <3>5, <3>6, <3>7 DEF m
  <2>4. QED
    BY <2>1, <2>2, <2>3 DEF BucketIsSound, TypeOK, ExpiryGivesNothing
<1>2. QED
  BY <1>1, GatewayInvAlways, PTL

\* In no window of time do more requests pass than a full bucket and the window's refill,
\* however many requests race with clocks out of order, and although the key expires and is
\* made anew meanwhile.
THEOREM WindowBounded == Spec => []WindowBound
<1>1. ASSUME GatewayInv PROVE WindowBound
  <2>1. /\ Second \in Nat \ {0} /\ Rate \in Nat \ {0} /\ Full \in Nat /\ MaxLag \in Nat
        /\ MaxTime \in Nat /\ clock \in 0..MaxTime /\ passed \in Nat /\ before \in [0..MaxTime -> Nat]
    BY <1>1, Sizes DEF GatewayInv, BucketsInv, ClockInv, WindowInv
  <2>2. Level \in Int /\ Level >= 0
    <3>1. Rate * MaxLag \in Int /\ 0 <= Rate * MaxLag
      BY <2>1, Product
    <3>2. Most \in Int /\ 0 <= Most
      BY <2>1, <3>1 DEF Most
    <3>3. bucket # Nothing => Holds(bucket, clock) \in Int /\ Holds(bucket, clock) >= 0
      <4>1. bucket # Nothing => bucket \in Buckets /\ Holds(bucket, clock) >= 0
        BY <1>1 DEF GatewayInv, BucketsInv, BucketInv
      <4>2. clock \in Int
        BY <2>1
      <4>3. QED
        BY <4>1, <4>2, HoldsLater
    <3>4. QED
      BY <3>2, <3>3 DEF Level, Capped
  <2>3. ASSUME NEW from \in 0..clock
        PROVE  (passed - before[from]) * Second <= Full + Rate * (clock - from + MaxLag)
    <3> DEFINE x == (passed - before[from]) * Second
               w == clock - from + MaxLag
               l == Level
    <3>1. x + l <= Full + Rate * w
      BY <1>1 DEF GatewayInv, BucketsInv, WindowInv
    <3>2. from \in 0..MaxTime /\ from \in Int /\ clock \in Int
      BY <2>1
    <3>3. before[from] \in Nat
      BY <2>1, <3>2
    <3>4. x \in Int /\ w \in Int /\ l \in Int /\ l >= 0
      BY <2>1, <2>2, <3>2, <3>3
    <3> HIDE DEF x, w, l
    <3>5. Rate * w \in Int
      BY <2>1, <3>4, Product
    <3>6. x <= Full + Rate * w
      BY <2>1, <3>1, <3>4, <3>5
    <3>7. QED
      BY <3>6 DEF x, w
  <2>4. QED
    BY <2>3 DEF WindowBound
<1>2. QED
  BY <1>1, GatewayInvAlways, PTL

\* A refused client that stays alone passes after the wait the script told it, and after the
\* whole seconds of the Retry-After header made of it (middleware/rate_limiter.go).
THEOREM WaitIsEnough == Spec => []WaitSuffices
<1>1. ASSUME GatewayInv PROVE WaitSuffices
  <2> SUFFICES ASSUME told # Nothing,
                      NEW at \in {told.now + told.wait, told.now + RetryAfter(told.wait) * Second}
               PROVE  Allowed(Stored(at), at)
    BY DEF WaitSuffices
  <2>1. /\ Second \in Nat \ {0} /\ Rate \in Nat \ {0} /\ Full \in Nat /\ Second <= Full
        /\ told.now \in Nat /\ told.wait \in Nat
    BY <1>1, Sizes DEF GatewayInv, BucketsInv, ToldInv
  <2>2. PICK n \in Nat : at = told.now + n /\ told.wait <= n
    <3>1. CASE at = told.now + told.wait
      BY <2>1, <3>1
    <3>2. CASE at = told.now + RetryAfter(told.wait) * Second
      <4> DEFINE s == CeilDiv(told.wait, Second)
                 r == RetryAfter(told.wait)
      <4>1. s \in Nat /\ Second * s >= told.wait
        BY <2>1, CeilCovers
      <4>2. r = IF s < 1 THEN 1 ELSE s
        BY DEF RetryAfter
      <4> HIDE DEF s, r
      <4>3. r \in Nat /\ s <= r
        BY <4>1, <4>2
      <4>4. Second * s <= Second * r /\ Second * r \in Nat /\ r * Second = Second * r
            /\ Second * s \in Nat
        BY <2>1, <4>1, <4>3
      <4>5. at = told.now + Second * r
        BY <3>2, <4>4 DEF r
      <4>6. told.wait <= Second * r
        BY <2>1, <4>1, <4>4
      <4>7. QED
        BY <4>4, <4>5, <4>6
    <3>3. QED
      BY <3>1, <3>2
  <2>3. CASE bucket = Nothing
    <3>1. Stored(at) = [token |-> Full, last |-> at]
      BY <2>3 DEF Stored
    <3>2. at \in Int /\ Rate * (at - at) = 0
      BY <2>1, <2>2
    <3>3. Refilled(Stored(at), at) = Full
      BY <2>1, <3>1, <3>2 DEF Refilled
    <3>4. QED
      BY <2>1, <3>3 DEF Allowed
  <2>4. CASE bucket # Nothing
    <3>1. /\ Stored(at) = bucket /\ bucket \in Buckets
          /\ bucket.last = told.now /\ bucket.token + Rate * told.wait >= Second
      BY <1>1, <2>4 DEF Stored, GatewayInv, BucketsInv, BucketInv, ToldInv
    <3>2. at - bucket.last = n /\ bucket.token \in Int
      BY <2>1, <2>2, <3>1 DEF Buckets
    <3>3. Rate * told.wait \in Int /\ Rate * n \in Int /\ Rate * told.wait <= Rate * n
      BY <2>1, <2>2, Product
    <3>4. bucket.token + Rate * n >= Second
      BY <2>1, <3>1, <3>2, <3>3
    <3>5. Refilled(bucket, at) = IF bucket.token + Rate * n < Full THEN bucket.token + Rate * n ELSE Full
      BY <3>2 DEF Refilled
    <3>6. QED
      BY <2>1, <3>1, <3>4, <3>5 DEF Allowed
  <2>5. QED
    BY <2>3, <2>4
<1>2. QED
  BY <1>1, GatewayInvAlways, PTL

\* A request sent after its JWT was logged out (handlers/auth/logout.go) is not served while
\* the JWT lives by the fastest clock, whatever the clocks of the processes that log it out
\* and check it show, and although the JWT is checked before the blocklist.
THEOREM LoggedOutRefused == Spec => []LoggedOutIsRefused
<1>1. ASSUME GatewayInv PROVE LoggedOutIsRefused
  <2>1. ASSUME NEW c \in Clients, flight[c].late, Valid(flight[c].jwt, clock)
        PROVE  OnBlocklist(flight[c].jwt)
    <3>1. flight[c].jwt \in out
      BY <1>1, <2>1 DEF GatewayInv, FlightInv, FlightOK
    <3>2. QED
      BY <1>1, <2>1, <3>1 DEF GatewayInv, SessionInv, OnBlocklist, Covers
  <2>2. QED
    BY <2>1 DEF LoggedOutIsRefused
<1>2. QED
  BY <1>1, GatewayInvAlways, PTL
=============================================================================
