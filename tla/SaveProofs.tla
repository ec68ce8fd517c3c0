----------------------------- MODULE SaveProofs -----------------------------
(***************************************************************************)
(* Theorems about SaveRetry, for any users, messages and slots and any     *)
(* number of copies and failures: no message is lost between its two       *)
(* retries, only a bad user id makes one die, and an acked message has a   *)
(* row.  SaveRetry counts the copies of a message; the proofs reason about *)
(* where they are.                                                         *)
(***************************************************************************)
EXTENDS SaveRetry, FiniteSetTheorems, TLAPS

-----------------------------------------------------------------------------
(* Queues.                                                                 *)

In(q, m)   == \E i \in DOMAIN q : q[i] = m
Once(q, m) == \A i, j \in DOMAIN q : q[i] = m /\ q[j] = m => i = j

LEMMA Joined ==
    ASSUME NEW q \in Seq(Msgs), NEW r \in Seq(Msgs), NEW m
    PROVE  /\ q \o r \in Seq(Msgs)
           /\ In(q \o r, m) <=> In(q, m) \/ In(r, m)
           /\ Once(q \o r, m) <=> Once(q, m) /\ Once(r, m) /\ ~(In(q, m) /\ In(r, m))
<1> DEFINE k == Len(q)  l == Len(r)  p == q \o r
<1>1. /\ k \in Nat /\ l \in Nat /\ DOMAIN q = 1..k /\ DOMAIN r = 1..l
      /\ DOMAIN p = 1..(k + l) /\ p \in Seq(Msgs)
      /\ \A i \in 1..k : p[i] = q[i]
      /\ \A i \in 1..l : p[k + i] = r[i]
  OBVIOUS
<1> HIDE DEF k, l, p
<1>2. \A i \in DOMAIN p : i \in 1..k \/ (i - k \in 1..l /\ i = k + (i - k))
  BY <1>1
<1>3. /\ \A i \in 1..k : i \in DOMAIN p
      /\ \A i \in 1..l : k + i \in DOMAIN p /\ k + i \notin 1..k
  BY <1>1
<1>4. In(p, m) <=> In(q, m) \/ In(r, m)
  <2>1. ASSUME NEW i \in DOMAIN p, p[i] = m PROVE In(q, m) \/ In(r, m)
    BY <1>1, <1>2, <2>1 DEF In
  <2>2. ASSUME NEW i \in DOMAIN q, q[i] = m PROVE In(p, m)
    BY <1>1, <1>3, <2>2 DEF In
  <2>3. ASSUME NEW i \in DOMAIN r, r[i] = m PROVE In(p, m)
    BY <1>1, <1>3, <2>3 DEF In
  <2>4. QED
    BY <2>1, <2>2, <2>3 DEF In
<1>5. Once(p, m) => Once(q, m) /\ Once(r, m) /\ ~(In(q, m) /\ In(r, m))
  <2> SUFFICES ASSUME Once(p, m) PROVE Once(q, m) /\ Once(r, m) /\ ~(In(q, m) /\ In(r, m))
    OBVIOUS
  <2>1. Once(q, m)
    BY <1>1, <1>3 DEF Once
  <2>2. ASSUME NEW i \in 1..l, NEW j \in 1..l, r[i] = m, r[j] = m PROVE i = j
    <3>1. k + i = k + j
      BY <1>1, <1>3, <2>2 DEF Once
    <3>2. QED
      BY <1>1, <3>1
  <2>3. Once(r, m)
    BY <1>1, <2>2 DEF Once
  <2>4. ASSUME NEW i \in 1..k, NEW j \in 1..l, q[i] = m, r[j] = m PROVE FALSE
    <3>1. i = k + j
      BY <1>1, <1>3, <2>4 DEF Once
    <3>2. QED
      BY <1>3, <3>1
  <2>5. QED
    BY <1>1, <2>1, <2>3, <2>4 DEF In
<1>6. Once(q, m) /\ Once(r, m) /\ ~(In(q, m) /\ In(r, m)) => Once(p, m)
  <2> SUFFICES ASSUME Once(q, m), Once(r, m), ~(In(q, m) /\ In(r, m)),
                      NEW i \in DOMAIN p, NEW j \in DOMAIN p, p[i] = m, p[j] = m
               PROVE  i = j
    BY DEF Once
  <2>1. CASE i \in 1..k /\ j \in 1..k
    BY <1>1, <2>1 DEF Once
  <2>2. CASE i \in 1..k /\ j - k \in 1..l /\ j = k + (j - k)
    BY <1>1, <2>2 DEF In
  <2>3. CASE i - k \in 1..l /\ i = k + (i - k) /\ j \in 1..k
    BY <1>1, <2>3 DEF In
  <2>4. CASE i - k \in 1..l /\ i = k + (i - k) /\ j - k \in 1..l /\ j = k + (j - k)
    <3>1. r[i - k] = m /\ r[j - k] = m
      BY <1>1, <2>4
    <3>2. i - k = j - k
      BY <1>1, <2>4, <3>1 DEF Once
    <3>3. QED
      BY <2>4, <3>2
  <2>5. QED
    BY <1>2, <2>1, <2>2, <2>3, <2>4
<1>7. QED
  BY <1>1, <1>4, <1>5, <1>6 DEF p

LEMMA Single ==
    ASSUME NEW m \in Msgs, NEW x
    PROVE  <<m>> \in Seq(Msgs) /\ (In(<<m>>, x) <=> x = m) /\ Once(<<m>>, x)
BY DEF In, Once

LEMMA Appended ==
    ASSUME NEW q \in Seq(Msgs), NEW m \in Msgs, NEW x
    PROVE  /\ Append(q, m) \in Seq(Msgs)
           /\ In(Append(q, m), x) <=> In(q, x) \/ x = m
           /\ Once(Append(q, m), x) <=> Once(q, x) /\ ~(In(q, x) /\ x = m)
<1>1. Append(q, m) = q \o <<m>>
  OBVIOUS
<1> DEFINE r == <<m>>
<1>2. r \in Seq(Msgs) /\ (In(r, x) <=> x = m) /\ Once(r, x) /\ Append(q, m) = q \o r
  BY <1>1, Single
<1> HIDE DEF r
<1>3. /\ q \o r \in Seq(Msgs)
      /\ In(q \o r, x) <=> In(q, x) \/ In(r, x)
      /\ Once(q \o r, x) <=> Once(q, x) /\ Once(r, x) /\ ~(In(q, x) /\ In(r, x))
  BY <1>2, Joined
<1>4. QED
  BY <1>2, <1>3, Zenon

LEMMA Headed ==
    ASSUME NEW q \in Seq(Msgs), q # <<>>, NEW x
    PROVE  /\ Head(q) \in Msgs /\ Tail(q) \in Seq(Msgs)
           /\ In(q, x) <=> In(Tail(q), x) \/ x = Head(q)
           /\ Once(q, x) => Once(Tail(q), x) /\ ~(In(Tail(q), x) /\ x = Head(q))
<1>1. Head(q) \in Msgs /\ Tail(q) \in Seq(Msgs) /\ q = <<Head(q)>> \o Tail(q)
  OBVIOUS
<1> DEFINE r == <<Head(q)>>  t == Tail(q)
<1>2. r \in Seq(Msgs) /\ (In(r, x) <=> x = Head(q)) /\ t \in Seq(Msgs) /\ q = r \o t
  BY <1>1, Single
<1> HIDE DEF r, t
<1>3. /\ In(r \o t, x) <=> In(r, x) \/ In(t, x)
      /\ Once(r \o t, x) <=> Once(r, x) /\ Once(t, x) /\ ~(In(r, x) /\ In(t, x))
  BY <1>2, Joined
<1>4. /\ In(q, x) <=> In(t, x) \/ x = Head(q)
      /\ Once(q, x) => Once(t, x) /\ ~(In(t, x) /\ x = Head(q))
  BY <1>2, <1>3, Zenon
<1>5. QED
  BY <1>1, <1>4 DEF t

\* What a crash puts back: every held message once.
LEMMA SetToSeqBijects ==
    ASSUME NEW S, IsFiniteSet(S)
    PROVE  LET f == SetToSeq(S)
           IN  /\ Cardinality(S) \in Nat /\ f \in [1..Cardinality(S) -> S]
               /\ \A i, j \in 1..Cardinality(S) : f[i] = f[j] => i = j
               /\ \A s \in S : \E i \in 1..Cardinality(S) : f[i] = s
<1> DEFINE n == Cardinality(S)
           f == SetToSeq(S)
<1>1. n \in Nat /\ ExistsBijection(1..n, S)
  BY FS_CardinalityType
<1>2. IsFiniteSet(1..n) /\ Cardinality(1..n) = n
  BY <1>1, FS_Interval
<1>3. PICK g : g \in Bijection(1..n, S)
  BY <1>1 DEF ExistsBijection
<1>4. g \in [1..n -> S] /\ IsInjective(g)
  BY <1>3 DEF Bijection, Injection
<1>5. f \in [1..n -> S] /\ IsInjective(f)
  BY <1>4 DEF SetToSeq
<1> HIDE DEF f, n
<1>6. f \in Injection(1..n, S)
  BY <1>5 DEF Injection
<1>7. f \in Surjection(1..n, S)
  BY <1>2, <1>6, FS_Injection DEF n
<1>8. QED
  BY <1>1, <1>5, <1>7 DEF IsInjective, Surjection, f, n
-----------------------------------------------------------------------------
(* The inductive invariant.                                                *)

Hold(m)     == \E s \in Slots : slot[s].msg = m
HeldOnce(m) == \A s, t \in Slots : slot[s].msg = m /\ slot[t].msg = m => s = t
Present(m)  == In(queue, m) \/ retry[m] > 0 \/ Hold(m)

\* A message has a copy from its publication until it is settled; one whose user id does
\* not parse is in one place at a time.
CopyInv(m) ==
    /\ Present(m) => m \in published
    /\ m \in published => Present(m) \/ m \in acked \cup dead
    /\ UserOf[m] = BadUser =>
          retry[m] = 0 /\ Once(queue, m) /\ HeldOnce(m) /\ ~(In(queue, m) /\ Hold(m))

\* What a slot has found out about its message.
SlotOK(s) ==
    /\ slot[s].pc = "idle" <=> slot[s].msg = None
    /\ slot[s].pc \in {"stat", "copy", "create", "ack", "requeue"} => UserOf[slot[s].msg] # BadUser
    /\ slot[s].pc = "reject" => UserOf[slot[s].msg] = BadUser
    /\ slot[s].pc = "create" => slot[s].msg \in stored
    /\ slot[s].pc = "ack" => UserOf[slot[s].msg] \in Users /\ saved[UserOf[slot[s].msg]] # None

RowsInv ==
    /\ \A u \in Users : saved[u] # None => saved[u] \in stored /\ UserOf[saved[u]] = u
    /\ \A m \in acked : UserOf[m] \in Users /\ saved[UserOf[m]] # None
    /\ \A m \in dead : UserOf[m] = BadUser

SlotInv == \A s \in Slots : SlotOK(s)
SaveInv == TypeOK /\ SlotInv /\ RowsInv /\ \A m \in Msgs : CopyInv(m)

-----------------------------------------------------------------------------
(* How many copies there are.                                              *)

LEMMA CopiesCount ==
    ASSUME TypeOK, NEW m \in Msgs
    PROVE  LET at == {i \in DOMAIN queue : queue[i] = m}
           IN  /\ IsFiniteSet(at) /\ Cardinality(at) \in Nat /\ (Cardinality(at) = 0 <=> ~In(queue, m))
               /\ IsFiniteSet(Held(m)) /\ Cardinality(Held(m)) \in Nat
               /\ (Cardinality(Held(m)) = 0 <=> ~Hold(m))
               /\ retry[m] \in 0..MaxCopies
               /\ Copies(m) = Cardinality(at) + retry[m] + Cardinality(Held(m))
<1> DEFINE at == {i \in DOMAIN queue : queue[i] = m}
<1>1. DOMAIN queue = 1..Len(queue) /\ Len(queue) \in Nat
  BY DEF TypeOK
<1>2. IsFiniteSet(1..Len(queue))
  BY <1>1, FS_Interval
<1>3. IsFiniteSet(at)
  BY <1>1, <1>2, FS_Subset
<1>4. IsFiniteSet(Held(m))
  BY SaveAssumption, FS_Subset DEF Held
<1>5. at = {} <=> ~In(queue, m)
  BY DEF In
<1>6. Held(m) = {} <=> ~Hold(m)
  BY DEF Held, Hold
<1>7. retry[m] \in 0..MaxCopies
  BY DEF TypeOK
<1>8. Copies(m) = Cardinality(at) + retry[m] + Cardinality(Held(m))
  BY DEF Copies
<1> HIDE DEF at
<1>9. Cardinality(at) \in Nat /\ (Cardinality(at) = 0 <=> at = {})
  BY <1>3, FS_CardinalityType, FS_EmptySet
<1>10. Cardinality(Held(m)) \in Nat /\ (Cardinality(Held(m)) = 0 <=> Held(m) = {})
  BY <1>4, FS_CardinalityType, FS_EmptySet
<1>11. QED
  BY <1>3, <1>4, <1>5, <1>6, <1>7, <1>8, <1>9, <1>10 DEF at

LEMMA AtMostOne ==
    ASSUME NEW S, IsFiniteSet(S), \A x, y \in S : x = y
    PROVE  Cardinality(S) <= 1
<1>1. CASE S = {}
  BY <1>1, FS_EmptySet
<1>2. CASE S # {}
  <2>1. PICK x \in S : TRUE
    BY <1>2
  <2>2. S = {x}
    BY <2>1
  <2>3. QED
    BY <2>2, FS_Singleton
<1>3. QED
  BY <1>1, <1>2

\* A message that cannot be saved is counted once.
LEMMA CopiesOne ==
    ASSUME TypeOK, NEW m \in Msgs, retry[m] = 0, Once(queue, m), HeldOnce(m),
           ~(In(queue, m) /\ Hold(m))
    PROVE  Copies(m) <= 1
<1> DEFINE at == {i \in DOMAIN queue : queue[i] = m}
<1>1. /\ IsFiniteSet(at) /\ Cardinality(at) \in Nat /\ (Cardinality(at) = 0 <=> ~In(queue, m))
      /\ IsFiniteSet(Held(m)) /\ Cardinality(Held(m)) \in Nat
      /\ (Cardinality(Held(m)) = 0 <=> ~Hold(m))
      /\ Copies(m) = Cardinality(at) + retry[m] + Cardinality(Held(m))
  BY CopiesCount
<1>2. \A i, j \in at : i = j
  BY DEF Once
<1>3. \A s, t \in Held(m) : s = t
  BY DEF HeldOnce, Held
<1> HIDE DEF at
<1>4. Cardinality(at) <= 1 /\ Cardinality(Held(m)) <= 1
  BY <1>1, <1>2, <1>3, AtMostOne
<1>5. QED
  BY <1>1, <1>4

-----------------------------------------------------------------------------
(* What a step does to the slots.                                          *)

SlotRecs == [pc : SlotPcs, msg : Msgs \cup {None}]

LEMMA GotoMoves ==
    ASSUME TypeOK, NEW s \in Slots, NEW next \in SlotPcs, Goto(s, next)
    PROVE  /\ slot' \in [Slots -> SlotRecs]
           /\ \A t \in Slots : slot'[t].msg = slot[t].msg
           /\ \A t \in Slots : slot'[t].pc = IF t = s THEN next ELSE slot[t].pc
BY DEF TypeOK, Goto, SlotRecs

LEMMA SetMoves ==
    ASSUME TypeOK, NEW s \in Slots, NEW g \in SlotRecs, slot' = [slot EXCEPT ![s] = g]
    PROVE  /\ slot' \in [Slots -> SlotRecs] /\ slot'[s] = g
           /\ \A t \in Slots : t # s => slot'[t] = slot[t]
BY DEF TypeOK, SlotRecs

LEMMA SameHeld ==
    ASSUME \A t \in Slots : slot'[t].msg = slot[t].msg, NEW m
    PROVE  (Hold(m)' <=> Hold(m)) /\ (HeldOnce(m)' <=> HeldOnce(m))
BY DEF Hold, HeldOnce

LEMMA Released ==
    ASSUME NEW s \in Slots, NEW m, m # None, slot'[s].msg = None,
           \A t \in Slots : t # s => slot'[t] = slot[t]
    PROVE  /\ Hold(m)' => Hold(m)
           /\ Hold(m) => Hold(m)' \/ m = slot[s].msg
           /\ HeldOnce(m) => HeldOnce(m)'
           /\ HeldOnce(m) /\ m = slot[s].msg => ~Hold(m)'
BY DEF Hold, HeldOnce

LEMMA Grabbed ==
    ASSUME NEW s \in Slots, NEW m, m # None, slot[s].msg = None,
           \A t \in Slots : t # s => slot'[t] = slot[t]
    PROVE  /\ Hold(m)' <=> Hold(m) \/ m = slot'[s].msg
           /\ HeldOnce(m) /\ ~(Hold(m) /\ m = slot'[s].msg) => HeldOnce(m)'
<1>1. Hold(m)' <=> Hold(m) \/ m = slot'[s].msg
  BY DEF Hold
<1>2. HeldOnce(m) /\ ~(Hold(m) /\ m = slot'[s].msg) => HeldOnce(m)'
  BY DEF HeldOnce, Hold
<1>3. QED
  BY <1>1, <1>2
-----------------------------------------------------------------------------
(* The steps.                                                              *)

LEMMA NoneIsNoMsg == \A m \in Msgs : m # None
BY SaveAssumption

LEMMA SlotTypes ==
    ASSUME SaveInv, NEW s \in Slots
    PROVE  /\ slot[s] \in SlotRecs /\ slot[s].pc \in SlotPcs /\ slot[s].msg \in Msgs \cup {None}
           /\ SlotOK(s)
           /\ slot[s].pc # "idle" => slot[s].msg \in Msgs
BY DEF SaveInv, TypeOK, SlotInv, SlotOK, SlotRecs

\* A slot that learns nothing new knows what it knew.
LEMMA SlotsStay ==
    ASSUME SaveInv, UNCHANGED slot, stored \subseteq stored', UNCHANGED saved
    PROVE  SlotInv'
BY DEF SaveInv, SlotInv, SlotOK

LEMMA RowsStay ==
    ASSUME SaveInv, stored \subseteq stored', UNCHANGED <<saved, acked, dead>>
    PROVE  RowsInv'
BY DEF SaveInv, RowsInv

LEMMA PublishKeeps ==
    ASSUME SaveInv, NEW m \in Msgs, PublishSaveVideo(m)
    PROVE  SaveInv'
<1>1. /\ m \notin published /\ published' = published \cup {m} /\ queue' = Append(queue, m)
      /\ UNCHANGED <<stored, retry, slot, saved, acked, dead, failures>>
  BY DEF PublishSaveVideo
<1>2. TypeOK
  BY DEF SaveInv
<1>3. queue \in Seq(Msgs)
  BY <1>2 DEF TypeOK
<1>4. TypeOK'
  BY <1>1, <1>2 DEF TypeOK
<1>5. SlotInv' /\ RowsInv'
  BY <1>1, SlotsStay, RowsStay
<1>6. ASSUME NEW x \in Msgs PROVE CopyInv(x)'
  <2>1. CopyInv(x) /\ CopyInv(m)
    BY DEF SaveInv
  <2>2. /\ In(queue, x)' <=> In(queue, x) \/ x = m
        /\ Once(queue, x)' <=> Once(queue, x) /\ ~(In(queue, x) /\ x = m)
    BY <1>1, <1>3, Appended
  <2>3. (Hold(x)' <=> Hold(x)) /\ (HeldOnce(x)' <=> HeldOnce(x))
    BY <1>1, SameHeld
  <2>4. ~Present(m)
    BY <1>1, <2>1 DEF CopyInv
  <2>5. retry'[x] = retry[x]
    BY <1>1
  <2>6. x = m => ~In(queue, x) /\ ~Hold(x)
    BY <2>4 DEF Present
  <2>7. QED
    BY <1>1, <2>1, <2>2, <2>3, <2>5, <2>6 DEF CopyInv, Present
<1>7. QED
  BY <1>4, <1>5, <1>6 DEF SaveInv

LEMMA StoreKeeps ==
    ASSUME SaveInv, NEW m \in Msgs, StoreObject(m)
    PROVE  SaveInv'
<1>1. stored' = stored \cup {m}
      /\ UNCHANGED <<published, queue, retry, slot, saved, acked, dead, failures>>
  BY DEF StoreObject
<1>2. TypeOK'
  BY <1>1 DEF SaveInv, TypeOK
<1>3. SlotInv' /\ RowsInv'
  BY <1>1, SlotsStay, RowsStay
<1>4. ASSUME NEW x \in Msgs PROVE CopyInv(x)'
  <2>1. CopyInv(x)
    BY DEF SaveInv
  <2>2. (Hold(x)' <=> Hold(x)) /\ (HeldOnce(x)' <=> HeldOnce(x))
    BY <1>1, SameHeld
  <2>3. QED
    BY <1>1, <2>1, <2>2 DEF CopyInv, Present, In, Once
<1>5. QED
  BY <1>2, <1>3, <1>4 DEF SaveInv

LEMMA RetryDueKeeps ==
    ASSUME SaveInv, NEW m \in Msgs, RetryDue(m)
    PROVE  SaveInv'
<1>1. /\ retry[m] > 0 /\ retry' = [retry EXCEPT ![m] = retry[m] - 1] /\ queue' = Append(queue, m)
      /\ UNCHANGED <<published, stored, slot, saved, acked, dead, failures>>
  BY DEF RetryDue
<1>2. TypeOK /\ MaxCopies \in Nat
  BY SaveAssumption DEF SaveInv
<1>3. queue \in Seq(Msgs) /\ retry \in [Msgs -> 0..MaxCopies]
  BY <1>2 DEF TypeOK
<1>4. retry' \in [Msgs -> 0..MaxCopies]
  BY <1>1, <1>2, <1>3
<1>5. TypeOK'
  BY <1>1, <1>2, <1>4 DEF TypeOK
<1>6. SlotInv' /\ RowsInv'
  BY <1>1, SlotsStay, RowsStay
<1>7. ASSUME NEW x \in Msgs PROVE CopyInv(x)'
  <2>1. CopyInv(x)
    BY DEF SaveInv
  <2>2. /\ In(queue, x)' <=> In(queue, x) \/ x = m
        /\ Once(queue, x)' <=> Once(queue, x) /\ ~(In(queue, x) /\ x = m)
    BY <1>1, <1>3, Appended
  <2>3. (Hold(x)' <=> Hold(x)) /\ (HeldOnce(x)' <=> HeldOnce(x))
    BY <1>1, SameHeld
  <2>4. x # m => retry'[x] = retry[x]
    BY <1>1, <1>3
  <2>5. CASE x = m
    <3>1. Present(x) /\ Present(x)'
      BY <1>1, <2>2, <2>5 DEF Present
    <3>2. UserOf[x] # BadUser
      BY <1>1, <2>1, <2>5 DEF CopyInv
    <3>3. QED
      BY <1>1, <2>1, <3>1, <3>2 DEF CopyInv
  <2>6. CASE x # m
    BY <1>1, <2>1, <2>2, <2>3, <2>4, <2>6 DEF CopyInv, Present
  <2>7. QED
    BY <2>5, <2>6
<1>8. QED
  BY <1>5, <1>6, <1>7 DEF SaveInv

LEMMA DeliverKeeps ==
    ASSUME SaveInv, NEW s \in Slots, Deliver(s)
    PROVE  SaveInv'
<1> DEFINE m == Head(queue)
           g == [pc |-> IF UserOf[m] = BadUser THEN "reject" ELSE "stat", msg |-> m]
<1>1. /\ slot[s].pc = "idle" /\ queue # <<>> /\ slot' = [slot EXCEPT ![s] = g]
      /\ queue' = Tail(queue)
      /\ UNCHANGED <<published, stored, retry, saved, acked, dead, failures>>
  BY DEF Deliver
<1>2. TypeOK /\ queue \in Seq(Msgs) /\ slot[s].msg = None
  BY <1>1, SlotTypes DEF SaveInv, TypeOK, SlotOK
<1>3. m \in Msgs /\ queue' \in Seq(Msgs)
  BY <1>1, <1>2, Headed
<1>4. g \in SlotRecs /\ g.msg = m /\ g.pc = IF UserOf[m] = BadUser THEN "reject" ELSE "stat"
  BY <1>3 DEF SlotRecs, SlotPcs
<1> HIDE DEF g, m
<1>6. /\ slot' \in [Slots -> SlotRecs] /\ slot'[s] = g
      /\ \A t \in Slots : t # s => slot'[t] = slot[t]
  BY <1>1, <1>2, <1>4, SetMoves
<1>7. TypeOK'
  BY <1>1, <1>2, <1>3, <1>6 DEF TypeOK, SlotRecs
<1>8. RowsInv'
  BY <1>1, RowsStay
<1>9. SlotInv'
  <2>1. ASSUME NEW t \in Slots PROVE SlotOK(t)'
    <3>1. CASE t = s
      BY <1>3, <1>4, <1>6, <3>1, NoneIsNoMsg DEF SlotOK
    <3>2. CASE t # s
      BY <1>1, <1>6, <3>2, SlotTypes DEF SlotOK
    <3>3. QED
      BY <3>1, <3>2
  <2>2. QED
    BY <2>1 DEF SlotInv
<1>10. ASSUME NEW x \in Msgs PROVE CopyInv(x)'
  <2>1. CopyInv(x)
    BY DEF SaveInv
  <2>2. /\ In(queue, x) <=> In(queue, x)' \/ x = m
        /\ Once(queue, x) => Once(queue, x)' /\ ~(In(queue, x)' /\ x = m)
    BY <1>1, <1>2, Headed DEF m
  <2>3. /\ Hold(x)' <=> Hold(x) \/ x = m
        /\ HeldOnce(x) /\ ~(Hold(x) /\ x = m) => HeldOnce(x)'
    BY <1>2, <1>4, <1>6, Grabbed, NoneIsNoMsg
  <2>4. Present(x)' <=> Present(x)
    BY <1>1, <2>2, <2>3 DEF Present
  <2>5. QED
    BY <1>1, <2>1, <2>2, <2>3, <2>4 DEF CopyInv
<1>11. QED
  BY <1>7, <1>8, <1>9, <1>10 DEF SaveInv
\* A slot that keeps its message moves no copy.
LEMMA CopiesStay ==
    ASSUME SaveInv, \A t \in Slots : slot'[t].msg = slot[t].msg,
           UNCHANGED <<published, queue, retry, acked, dead>>, NEW x \in Msgs
    PROVE  CopyInv(x)'
<1>1. CopyInv(x)
  BY DEF SaveInv
<1>2. (Hold(x)' <=> Hold(x)) /\ (HeldOnce(x)' <=> HeldOnce(x))
  BY SameHeld
<1>3. QED
  BY <1>1, <1>2 DEF CopyInv, Present, In, Once

LEMMA FailureTypes ==
    ASSUME SaveInv, UNCHANGED failures \/ Failure
    PROVE  failures' \in 0..MaxFailures
BY SaveAssumption DEF SaveInv, TypeOK, Failure

LEMMA StatKeeps ==
    ASSUME SaveInv, NEW s \in Slots, Stat(s)
    PROVE  SaveInv'
<1>1. /\ slot[s].pc = "stat" /\ (UNCHANGED failures \/ Failure)
      /\ UNCHANGED <<published, stored, queue, retry, saved, acked, dead>>
  BY DEF Stat
<1>2. PICK next \in {"create", "copy"} :
         Goto(s, next) /\ (next = "create" => slot[s].msg \in stored)
  BY DEF Stat
<1>3. TypeOK /\ next \in SlotPcs
  BY DEF SaveInv, SlotPcs
<1>4. /\ slot' \in [Slots -> SlotRecs]
      /\ \A t \in Slots : slot'[t].msg = slot[t].msg
      /\ \A t \in Slots : slot'[t].pc = IF t = s THEN next ELSE slot[t].pc
  BY <1>2, <1>3, GotoMoves
<1>5. TypeOK'
  BY <1>1, <1>3, <1>4, FailureTypes DEF TypeOK, SlotRecs
<1>6. RowsInv'
  BY <1>1, RowsStay
<1>7. ASSUME NEW t \in Slots PROVE SlotOK(t)'
  BY <1>1, <1>2, <1>4, SlotTypes DEF SlotOK
<1>8. ASSUME NEW x \in Msgs PROVE CopyInv(x)'
  BY <1>1, <1>4, CopiesStay
<1>9. QED
  BY <1>5, <1>6, <1>7, <1>8 DEF SaveInv, SlotInv

LEMMA CopyForRetryKeeps ==
    ASSUME SaveInv, NEW s \in Slots, CopyForRetry(s)
    PROVE  SaveInv'
<1> DEFINE m == slot[s].msg
<1>1. /\ slot[s].pc = "copy" /\ Goto(s, "requeue")
      /\ \/ Copies(m) < MaxCopies /\ retry' = [retry EXCEPT ![m] = retry[m] + 1]
         \/ UNCHANGED retry
      /\ UNCHANGED <<published, stored, queue, saved, acked, dead, failures>>
  BY DEF CopyForRetry
<1>2. TypeOK /\ m \in Msgs
  BY <1>1, SlotTypes DEF SaveInv, SlotOK
<1>3. UserOf[m] # BadUser
  BY <1>1, SlotTypes DEF SaveInv, SlotOK
<1>4. Hold(m)
  BY DEF Hold
<1> HIDE DEF m
<1>5. /\ slot' \in [Slots -> SlotRecs]
      /\ \A t \in Slots : slot'[t].msg = slot[t].msg
      /\ \A t \in Slots : slot'[t].pc = IF t = s THEN "requeue" ELSE slot[t].pc
  BY <1>1, <1>2, GotoMoves DEF SlotPcs
<1>6. retry' \in [Msgs -> 0..MaxCopies] /\ (\A x \in Msgs : x # m => retry'[x] = retry[x])
  <2>1. retry \in [Msgs -> 0..MaxCopies] /\ MaxCopies \in Nat
    BY <1>2, SaveAssumption DEF TypeOK
  <2>2. CASE UNCHANGED retry
    BY <2>1, <2>2
  <2>3. CASE Copies(m) < MaxCopies /\ retry' = [retry EXCEPT ![m] = retry[m] + 1]
    <3>1. PICK a \in Nat, h \in Nat : Copies(m) = a + retry[m] + h
      BY <1>2, CopiesCount
    <3>2. retry[m] + 1 \in 0..MaxCopies
      BY <1>2, <2>1, <2>3, <3>1
    <3>3. QED
      BY <1>2, <2>1, <2>3, <3>2
  <2>4. QED
    BY <1>1, <2>2, <2>3
<1>7. TypeOK'
  BY <1>1, <1>2, <1>5, <1>6 DEF TypeOK, SlotRecs
<1>8. RowsInv'
  BY <1>1, RowsStay
<1>9. ASSUME NEW t \in Slots PROVE SlotOK(t)'
  BY <1>1, <1>2, <1>5, SlotTypes DEF SlotOK, m
<1>10. ASSUME NEW x \in Msgs PROVE CopyInv(x)'
  <2>1. CopyInv(x)
    BY DEF SaveInv
  <2>2. (Hold(x)' <=> Hold(x)) /\ (HeldOnce(x)' <=> HeldOnce(x))
    BY <1>5, SameHeld
  <2>3. CASE x = m
    BY <1>1, <1>3, <1>4, <2>1, <2>2, <2>3 DEF CopyInv, Present
  <2>4. CASE x # m
    BY <1>1, <1>6, <2>1, <2>2, <2>4 DEF CopyInv, Present, In, Once
  <2>5. QED
    BY <2>3, <2>4
<1>11. QED
  BY <1>7, <1>8, <1>9, <1>10 DEF SaveInv, SlotInv

LEMMA CreateKeeps ==
    ASSUME SaveInv, NEW s \in Slots, Create(s)
    PROVE  SaveInv'
<1> DEFINE m == slot[s].msg
           u == UserOf[m]
<1>1. /\ slot[s].pc = "create" /\ (UNCHANGED failures \/ Failure)
      /\ saved' = saved \/ (u \in Users /\ saved' = [saved EXCEPT ![u] = m])
      /\ UNCHANGED <<published, stored, queue, retry, acked, dead>>
  BY DEF Create
<1>2. PICK next \in {"ack", "requeue"} :
         Goto(s, next) /\ (next = "ack" => u \in Users /\ saved' = [saved EXCEPT ![u] = m])
  BY DEF Create
<1>3. TypeOK /\ next \in SlotPcs /\ m \in Msgs /\ u # BadUser /\ m \in stored /\ m # None
  BY <1>1, SlotTypes, NoneIsNoMsg DEF SaveInv, SlotOK, SlotPcs
<1>4. /\ slot' \in [Slots -> SlotRecs]
      /\ \A t \in Slots : slot'[t].msg = slot[t].msg
      /\ \A t \in Slots : slot'[t].pc = IF t = s THEN next ELSE slot[t].pc
  BY <1>2, <1>3, GotoMoves
<1>5. /\ saved \in [Users -> Msgs \cup {None}] /\ saved' \in [Users -> Msgs \cup {None}]
      /\ \A v \in Users : saved'[v] = saved[v] \/ (v = u /\ saved'[v] = m)
      /\ next = "ack" => u \in Users /\ saved'[u] = m
  BY <1>1, <1>2, <1>3 DEF TypeOK
<1>6. TypeOK'
  BY <1>1, <1>3, <1>4, <1>5, FailureTypes DEF TypeOK, SlotRecs
<1>7. UserOf[m] = u
  OBVIOUS
<1>8. slot[s].msg = m
  OBVIOUS
<1> HIDE DEF m, u
<1>9. RowsInv'
  BY <1>1, <1>3, <1>5, <1>7 DEF SaveInv, RowsInv
<1>10. ASSUME NEW t \in Slots PROVE SlotOK(t)'
  <2>1. CASE t = s
    BY <1>2, <1>3, <1>4, <1>5, <1>7, <1>8, <2>1 DEF SlotOK
  <2>2. CASE t # s
    <3>1. SlotOK(t) /\ slot'[t].pc = slot[t].pc /\ slot'[t].msg = slot[t].msg
      BY <1>4, <2>2, SlotTypes
    <3>2. slot[t].pc = "ack" => UserOf[slot[t].msg] \in Users /\ saved[UserOf[slot[t].msg]] # None
      BY <3>1 DEF SlotOK
    <3>3. slot[t].pc = "ack" => saved'[UserOf[slot[t].msg]] # None
      BY <1>3, <1>5, <3>2
    <3>4. QED
      BY <1>1, <3>1, <3>3 DEF SlotOK
  <2>3. QED
    BY <2>1, <2>2
<1>11. ASSUME NEW x \in Msgs PROVE CopyInv(x)'
  BY <1>1, <1>4, CopiesStay
<1>12. QED
  BY <1>6, <1>9, <1>10, <1>11 DEF SaveInv, SlotInv

LEMMA AckKeeps ==
    ASSUME SaveInv, NEW s \in Slots, Ack(s)
    PROVE  SaveInv'
<1> DEFINE m == slot[s].msg
<1>1. /\ slot[s].pc = "ack" /\ acked' = acked \cup {m} /\ slot' = [slot EXCEPT ![s] = Idle]
      /\ UNCHANGED <<published, stored, queue, retry, saved, dead, failures>>
  BY DEF Ack
<1>2. TypeOK /\ m \in Msgs /\ UserOf[m] \in Users /\ saved[UserOf[m]] # None
  BY <1>1, SlotTypes DEF SaveInv, SlotOK
<1> HIDE DEF m
<1>3. Idle \in SlotRecs /\ Idle.pc = "idle" /\ Idle.msg = None
  BY DEF Idle, SlotRecs, SlotPcs
<1>4. /\ slot' \in [Slots -> SlotRecs] /\ slot'[s] = Idle
      /\ \A t \in Slots : t # s => slot'[t] = slot[t]
  BY <1>1, <1>2, <1>3, SetMoves
<1>5. TypeOK'
  BY <1>1, <1>2, <1>4 DEF TypeOK, SlotRecs
<1>6. RowsInv'
  BY <1>1, <1>2 DEF SaveInv, RowsInv
<1>7. ASSUME NEW t \in Slots PROVE SlotOK(t)'
  BY <1>1, <1>3, <1>4, SlotTypes DEF SlotOK
<1>8. ASSUME NEW x \in Msgs PROVE CopyInv(x)'
  <2>1. CopyInv(x) /\ x # None
    BY NoneIsNoMsg DEF SaveInv
  <2>2. /\ Hold(x)' => Hold(x)
        /\ Hold(x) => Hold(x)' \/ x = m
        /\ HeldOnce(x) => HeldOnce(x)'
    BY <1>3, <1>4, <2>1, Released DEF m
  <2>3. QED
    BY <1>1, <2>1, <2>2 DEF CopyInv, Present, In, Once
<1>9. QED
  BY <1>5, <1>6, <1>7, <1>8 DEF SaveInv, SlotInv

LEMMA RejectKeeps ==
    ASSUME SaveInv, NEW s \in Slots, Reject(s)
    PROVE  SaveInv'
<1> DEFINE m == slot[s].msg
<1>1. /\ slot[s].pc = "reject" /\ dead' = dead \cup {m} /\ slot' = [slot EXCEPT ![s] = Idle]
      /\ UNCHANGED <<published, stored, queue, retry, saved, acked, failures>>
  BY DEF Reject
<1>2. TypeOK /\ m \in Msgs /\ UserOf[m] = BadUser
  BY <1>1, SlotTypes DEF SaveInv, SlotOK
<1> HIDE DEF m
<1>3. Idle \in SlotRecs /\ Idle.pc = "idle" /\ Idle.msg = None
  BY DEF Idle, SlotRecs, SlotPcs
<1>4. /\ slot' \in [Slots -> SlotRecs] /\ slot'[s] = Idle
      /\ \A t \in Slots : t # s => slot'[t] = slot[t]
  BY <1>1, <1>2, <1>3, SetMoves
<1>5. TypeOK'
  BY <1>1, <1>2, <1>4 DEF TypeOK, SlotRecs
<1>6. RowsInv'
  BY <1>1, <1>2 DEF SaveInv, RowsInv
<1>7. ASSUME NEW t \in Slots PROVE SlotOK(t)'
  BY <1>1, <1>3, <1>4, SlotTypes DEF SlotOK
<1>8. ASSUME NEW x \in Msgs PROVE CopyInv(x)'
  <2>1. CopyInv(x) /\ x # None
    BY NoneIsNoMsg DEF SaveInv
  <2>2. /\ Hold(x)' => Hold(x)
        /\ Hold(x) => Hold(x)' \/ x = m
        /\ HeldOnce(x) => HeldOnce(x)'
    BY <1>3, <1>4, <2>1, Released DEF m
  <2>3. QED
    BY <1>1, <2>1, <2>2 DEF CopyInv, Present, In, Once
<1>9. QED
  BY <1>5, <1>6, <1>7, <1>8 DEF SaveInv, SlotInv

LEMMA RequeueKeeps ==
    ASSUME SaveInv, NEW s \in Slots, Requeue(s)
    PROVE  SaveInv'
<1> DEFINE m == slot[s].msg
           r == <<m>>
<1>1. /\ slot[s].pc = "requeue" /\ queue' = r \o queue /\ slot' = [slot EXCEPT ![s] = Idle]
      /\ UNCHANGED <<published, stored, retry, saved, acked, dead, failures>>
  BY DEF Requeue
<1>2. TypeOK /\ m \in Msgs /\ queue \in Seq(Msgs)
  BY <1>1, SlotTypes DEF SaveInv, SlotOK, TypeOK
<1>3. UserOf[m] # BadUser
  BY <1>1, SlotTypes DEF SaveInv, SlotOK
<1>a. r \in Seq(Msgs) /\ \A x : In(r, x) <=> x = m
  BY <1>2, Single
<1> HIDE DEF m, r
<1>b. queue' \in Seq(Msgs)
  BY <1>1, <1>2, <1>a, Joined
<1>4. Idle \in SlotRecs /\ Idle.pc = "idle" /\ Idle.msg = None
  BY DEF Idle, SlotRecs, SlotPcs
<1>5. /\ slot' \in [Slots -> SlotRecs] /\ slot'[s] = Idle
      /\ \A t \in Slots : t # s => slot'[t] = slot[t]
  BY <1>1, <1>2, <1>4, SetMoves
<1>6. TypeOK'
  BY <1>1, <1>2, <1>5, <1>b DEF TypeOK, SlotRecs
<1>7. RowsInv'
  BY <1>1, RowsStay
<1>8. ASSUME NEW t \in Slots PROVE SlotOK(t)'
  BY <1>1, <1>4, <1>5, SlotTypes DEF SlotOK
<1>9. ASSUME NEW x \in Msgs PROVE CopyInv(x)'
  <2>1. CopyInv(x) /\ x # None
    BY NoneIsNoMsg DEF SaveInv
  <2>2. /\ Hold(x)' => Hold(x)
        /\ Hold(x) => Hold(x)' \/ x = m
        /\ HeldOnce(x) => HeldOnce(x)'
    BY <1>4, <1>5, <2>1, Released DEF m
  <2>3. In(queue, x)' <=> In(queue, x) \/ x = m
    BY <1>1, <1>2, <1>a, Joined
  <2>4. x # m /\ Once(queue, x) => Once(queue, x)'
    <3>1. Once(r, x)
      BY <1>2, Single DEF r
    <3>2. QED
      BY <1>1, <1>2, <1>a, <3>1, Joined
  <2>5. Hold(m)
    BY DEF Hold, m
  <2>6. Present(x)' <=> Present(x)
    BY <1>1, <2>2, <2>3, <2>5 DEF Present
  <2>7. CASE x = m
    BY <1>1, <1>3, <2>1, <2>6, <2>7 DEF CopyInv
  <2>8. CASE x # m
    BY <1>1, <2>1, <2>2, <2>3, <2>4, <2>6, <2>8 DEF CopyInv
  <2>9. QED
    BY <2>7, <2>8
<1>10. QED
  BY <1>6, <1>7, <1>8, <1>9 DEF SaveInv, SlotInv
\* A crash gives every message in hand back to the queue.
LEMMA CrashKeeps ==
    ASSUME SaveInv, Crash
    PROVE  SaveInv'
<1> DEFINE held == {s \in Slots : slot[s].msg # None}
           n == Cardinality(held)
           f == SetToSeq(held)
           r == [i \in 1..n |-> slot[f[i]].msg]
<1>1. /\ (UNCHANGED failures \/ Failure) /\ queue' = r \o queue /\ slot' = [s \in Slots |-> Idle]
      /\ UNCHANGED <<published, stored, retry, saved, acked, dead>>
  BY DEF Crash
<1>2. TypeOK /\ queue \in Seq(Msgs)
  BY DEF SaveInv, TypeOK
<1>3. IsFiniteSet(held)
  BY SaveAssumption, FS_Subset
<1>4. \A s \in held : s \in Slots /\ slot[s].msg \in Msgs
  BY <1>2 DEF TypeOK
<1>5. \A s \in Slots : slot[s].msg \in Msgs => s \in held
  BY NoneIsNoMsg
<1> HIDE DEF held
<1>6. /\ n \in Nat /\ f \in [1..n -> held]
      /\ \A i, j \in 1..n : f[i] = f[j] => i = j
      /\ \A s \in held : \E i \in 1..n : f[i] = s
  BY <1>3, SetToSeqBijects
<1> HIDE DEF n, f
<1>7. r \in Seq(Msgs) /\ DOMAIN r = 1..n /\ \A i \in 1..n : r[i] = slot[f[i]].msg
  BY <1>4, <1>6
<1> HIDE DEF r
<1>8. ASSUME NEW x \in Msgs
      PROVE  (In(r, x) <=> Hold(x)) /\ (HeldOnce(x) => Once(r, x))
  <2>1. In(r, x) => Hold(x)
    BY <1>4, <1>6, <1>7 DEF In, Hold
  <2>2. ASSUME NEW s \in Slots, slot[s].msg = x PROVE In(r, x)
    <3>1. PICK i \in 1..n : f[i] = s
      BY <1>5, <1>6, <2>2
    <3>2. QED
      BY <1>7, <2>2, <3>1 DEF In
  <2>3. ASSUME HeldOnce(x), NEW i \in 1..n, NEW j \in 1..n, r[i] = x, r[j] = x PROVE i = j
    <3>1. f[i] \in Slots /\ f[j] \in Slots /\ slot[f[i]].msg = x /\ slot[f[j]].msg = x
      BY <1>4, <1>6, <1>7, <2>3
    <3>2. f[i] = f[j]
      BY <2>3, <3>1 DEF HeldOnce
    <3>3. QED
      BY <1>6, <3>2
  <2>4. QED
    BY <1>7, <2>1, <2>2, <2>3 DEF Once, Hold
<1>9. queue' \in Seq(Msgs)
  BY <1>1, <1>2, <1>7, Joined
<1>10. Idle \in SlotRecs /\ Idle.pc = "idle" /\ Idle.msg = None
  BY DEF Idle, SlotRecs, SlotPcs
<1>11. TypeOK'
  BY <1>1, <1>2, <1>9, <1>10, FailureTypes DEF TypeOK, SlotRecs
<1>12. RowsInv'
  BY <1>1, RowsStay
<1>13. ASSUME NEW t \in Slots PROVE SlotOK(t)'
  BY <1>1, <1>10 DEF SlotOK
<1>14. ASSUME NEW x \in Msgs PROVE CopyInv(x)'
  <2>1. CopyInv(x) /\ x # None
    BY NoneIsNoMsg DEF SaveInv
  <2>2. ~Hold(x)' /\ HeldOnce(x)'
    BY <1>1, <1>10, <2>1 DEF Hold, HeldOnce
  <2>3. /\ In(queue, x)' <=> In(r, x) \/ In(queue, x)
        /\ Once(queue, x)' <=> Once(r, x) /\ Once(queue, x) /\ ~(In(r, x) /\ In(queue, x))
    BY <1>1, <1>2, <1>7, Joined
  <2>4. Present(x)' <=> Present(x)
    BY <1>1, <1>8, <2>2, <2>3 DEF Present
  <2>5. QED
    BY <1>1, <1>8, <2>1, <2>2, <2>3, <2>4 DEF CopyInv
<1>15. QED
  BY <1>11, <1>12, <1>13, <1>14 DEF SaveInv, SlotInv

LEMMA InitSave == Init => SaveInv
<1> SUFFICES ASSUME Init PROVE SaveInv
  OBVIOUS
<1>1. /\ published = {} /\ stored = {} /\ queue = <<>> /\ retry = [m \in Msgs |-> 0]
      /\ slot = [s \in Slots |-> Idle] /\ saved = [u \in Users |-> None]
      /\ acked = {} /\ dead = {} /\ failures = 0
  BY DEF Init
<1>2. Idle \in SlotRecs /\ Idle.pc = "idle" /\ Idle.msg = None
  BY DEF Idle, SlotRecs, SlotPcs
<1>3. TypeOK
  BY <1>1, <1>2, SaveAssumption DEF TypeOK, SlotRecs
<1>4. SlotInv /\ RowsInv
  BY <1>1, <1>2 DEF SlotInv, SlotOK, RowsInv
<1>5. ASSUME NEW m \in Msgs PROVE CopyInv(m)
  <2>1. ~In(queue, m) /\ Once(queue, m)
    BY <1>1 DEF In, Once
  <2>2. ~Hold(m) /\ HeldOnce(m)
    BY <1>1, <1>2, NoneIsNoMsg DEF Hold, HeldOnce
  <2>3. QED
    BY <1>1, <2>1, <2>2 DEF CopyInv, Present
<1>6. QED
  BY <1>3, <1>4, <1>5 DEF SaveInv

LEMMA SaveNext == SaveInv /\ [Next]_vars => SaveInv'
<1> SUFFICES ASSUME SaveInv, [Next]_vars PROVE SaveInv'
  OBVIOUS
<1>1. ASSUME NEW m \in Msgs, PublishSaveVideo(m) \/ StoreObject(m) \/ RetryDue(m) PROVE SaveInv'
  BY <1>1, PublishKeeps, StoreKeeps, RetryDueKeeps
<1>2. ASSUME NEW s \in Slots, Deliver(s) PROVE SaveInv'
  BY <1>2, DeliverKeeps
<1>3. ASSUME NEW s \in Slots, Handle(s) PROVE SaveInv'
  BY <1>3, StatKeeps, CopyForRetryKeeps, CreateKeeps, AckKeeps, RequeueKeeps, RejectKeeps DEF Handle
<1>4. CASE Crash
  BY <1>4, CrashKeeps
<1>5. CASE UNCHANGED vars
  <2>1. UNCHANGED <<published, stored, queue, retry, slot, saved, acked, dead, failures>>
    BY <1>5 DEF vars
  <2>2. TypeOK'
    BY <2>1 DEF SaveInv, TypeOK
  <2>3. SlotInv' /\ RowsInv'
    BY <2>1, SlotsStay, RowsStay
  <2>4. \A x \in Msgs : CopyInv(x)'
    BY <2>1, CopiesStay
  <2>5. QED
    BY <2>2, <2>3, <2>4 DEF SaveInv
<1>6. QED
  BY <1>1, <1>2, <1>3, <1>4, <1>5 DEF Next

LEMMA SaveInvAlways == Spec => []SaveInv
BY InitSave, SaveNext, PTL DEF Spec

-----------------------------------------------------------------------------
(* The theorems.                                                           *)

\* A message keeps a copy until one was acked or dead-lettered, whichever retry fails and
\* whenever the worker dies (worker/save_metadata_worker.go), and only a user id that does
\* not parse makes it die, uncopied.
THEOREM MessagesKeptAlways == Spec => []MessagesKept
<1>1. ASSUME SaveInv PROVE MessagesKept
  <2>1. TypeOK /\ \A m \in Msgs : CopyInv(m)
    BY <1>1 DEF SaveInv
  <2>2. ASSUME NEW m \in Msgs PROVE Present(m) => Copies(m) > 0
    <3>1. PICK a \in Nat, h \in Nat :
             /\ a = 0 <=> ~In(queue, m)
             /\ h = 0 <=> ~Hold(m)
             /\ Copies(m) = a + retry[m] + h
             /\ retry[m] \in 0..MaxCopies
      BY <2>1, CopiesCount
    <3>2. retry[m] \in Nat
      BY <3>1, SaveAssumption
    <3>3. QED
      BY <3>1, <3>2 DEF Present
  <2>3. NothingLost
    <3>1. published \subseteq Msgs
      BY <2>1 DEF TypeOK
    <3>2. QED
      BY <2>1, <2>2, <3>1 DEF NothingLost, CopyInv
  <2>4. OnlyBadIdsDie
    <3>1. \A m \in dead : UserOf[m] = BadUser
      BY <1>1 DEF SaveInv, RowsInv
    <3>2. ASSUME NEW m \in Msgs, UserOf[m] = BadUser PROVE Copies(m) <= 1
      BY <2>1, <3>2, CopiesOne DEF CopyInv
    <3>3. QED
      BY <3>1, <3>2 DEF OnlyBadIdsDie
  <2>5. QED
    BY <2>1, <2>3, <2>4 DEF MessagesKept
<1>2. QED
  BY <1>1, SaveInvAlways, PTL

\* A message is acked only when its user's row was written from an upload of that user that
\* is stored (app/media/save_metadata.go), and no later save takes that away.
THEOREM AckedSaved == Spec => []AckedIsSaved
<1>1. SaveInv => AckedIsSaved
  BY DEF SaveInv, RowsInv, AckedIsSaved
<1>2. QED
  BY <1>1, SaveInvAlways, PTL
=============================================================================
