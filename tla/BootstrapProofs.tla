--------------------------- MODULE BootstrapProofs ---------------------------
(***************************************************************************)
(* Proofs about the bootstrap.  A run of a command is at some place of its *)
(* script, and what the statements before that place are for is there.     *)
(* A seeding is at some table, and its rows for the ones before are there. *)
(***************************************************************************)
EXTENDS Bootstrap, FiniteSetTheorems, TLAPS

-----------------------------------------------------------------------------
(* Where a script has come to.                                             *)

\* What a statement is for; of the seed's, nothing that matters here.
Done(step) ==
    /\ step \in Provides => step \in placed
    /\ step = "migrate" => version = Newest /\ ~dirty

Rest(c, k) == SubSeq(Script(c), k, Len(Script(c)))

\* The command c is at the k-th statement of its script, maybe between a migration and the
\* mark that it is applied.
ScriptAt(c, k) ==
    /\ k \in 1 .. Len(Script(c)) + 1
    /\ \/ script = Rest(c, k)
       \/ /\ script = <<"applied">> \o Rest(c, k)
          /\ k <= Len(Script(c)) /\ Script(c)[k] = "migrate"
    /\ \A i \in 1 .. k - 1 : Done(Script(c)[i])

RunInv ==
    /\ Running  => last = Nothing /\ \E k \in Nat : ScriptAt(cmd, k)
    /\ ~Running => script = <<>>

SetupInv == SetupIsSound /\ RunInv
-----------------------------------------------------------------------------
(* The scripts.                                                            *)

\* A queue is declared after the one its rejected messages go to.
DeadFirst(s) == \A k \in 1 .. Len(s) : s[k] \in Queues => \E i \in 1 .. k - 1 : s[i] = DeadLetterTo(s[k])
Elements(s)  == {s[i] : i \in 1 .. Len(s)}
SeedSteps  == {"users", "gifs", "quota", "friendships", "shares", "share_tokens"}
SetupSteps == Provides \cup {"owner", "migrate"}
Steps      == SetupSteps \cup {"seed.gif"} \cup SeedSteps

LEMMA SetupStepsApart ==
    \A step \in SetupSteps : step # "applied" /\ step # "seed.gif" /\ step \notin SeedSteps
  BY DEF SetupSteps, SeedSteps, Provides, Queues, Dead

LEMMA Concat ==
    ASSUME NEW S, NEW s \in Seq(S), NEW t \in Seq(S)
    PROVE  /\ s \o t \in Seq(S)
           /\ Elements(s \o t) = Elements(s) \cup Elements(t)
           /\ DeadFirst(s) /\ DeadFirst(t) => DeadFirst(s \o t)
<1>1. /\ s \o t \in Seq(S) /\ Len(s \o t) = Len(s) + Len(t) /\ Len(s) \in Nat /\ Len(t) \in Nat
      /\ \A i \in 1 .. Len(s) : (s \o t)[i] = s[i]
      /\ \A i \in 1 .. Len(t) : (s \o t)[Len(s) + i] = t[i]
  OBVIOUS
<1>2. ASSUME NEW i \in 1 .. Len(s \o t)
      PROVE  i \in 1 .. Len(s) \/ \E k \in 1 .. Len(t) : i = Len(s) + k
  <2> DEFINE k == i - Len(s)
  <2>1. i \in 1 .. Len(s) \/ (k \in 1 .. Len(t) /\ i = Len(s) + k)
    BY <1>1
  <2> HIDE DEF k
  <2>2. QED
    BY <2>1
<1>3. Elements(s \o t) \subseteq Elements(s) \cup Elements(t)
  BY <1>1, <1>2 DEF Elements
<1>4. Elements(s) \cup Elements(t) \subseteq Elements(s \o t)
  BY <1>1 DEF Elements
<1>5. ASSUME DeadFirst(s), DeadFirst(t), NEW k \in 1 .. Len(s \o t), (s \o t)[k] \in Queues
      PROVE  \E i \in 1 .. k - 1 : (s \o t)[i] = DeadLetterTo((s \o t)[k])
  <2>1. CASE k \in 1 .. Len(s)
    <3>1. PICK i \in 1 .. k - 1 : s[i] = DeadLetterTo(s[k])
      BY <1>1, <1>5, <2>1 DEF DeadFirst
    <3>2. (s \o t)[i] = s[i] /\ (s \o t)[k] = s[k]
      BY <1>1, <2>1
    <3>3. QED
      BY <3>1, <3>2
  <2>2. ASSUME NEW m \in 1 .. Len(t), k = Len(s) + m PROVE \E i \in 1 .. k - 1 : (s \o t)[i] = DeadLetterTo((s \o t)[k])
    <3>1. (s \o t)[k] = t[m]
      BY <1>1, <2>2
    <3>2. PICK i \in 1 .. m - 1 : t[i] = DeadLetterTo(t[m])
      BY <1>5, <3>1 DEF DeadFirst
    <3>3. i \in 1 .. Len(t) /\ Len(s) + i \in 1 .. k - 1
      BY <1>1, <2>2
    <3>4. (s \o t)[Len(s) + i] = t[i]
      BY <1>1, <3>3
    <3>5. QED
      BY <3>1, <3>2, <3>3, <3>4
  <2>3. QED
    BY <1>2, <2>1, <2>2
<1>6. QED
  BY <1>1, <1>3, <1>4, <1>5 DEF DeadFirst

LEMMA QueueScript ==
    /\ QueueSetup \in Seq(SetupSteps) /\ DeadFirst(QueueSetup)
    /\ Queues \cup {Dead(q) : q \in Queues} \cup {"exchange", "binding"} \subseteq Elements(QueueSetup)
<1>1. /\ Dead("email.queue") = "email.queue.dead" /\ Dead("process.queue") = "process.queue.dead"
      /\ Dead("video.save.queue") = "video.save.queue.dead" /\ Dead("save.retry.queue") = "save.retry.queue.dead"
      /\ Dead("process.upload.queue") = "process.upload.queue.dead"
  BY DEF Dead
<1>2. /\ Len(QueueSetup) = 12
      /\ QueueSetup[1] = "email.queue.dead" /\ QueueSetup[2] = "email.queue"
      /\ QueueSetup[3] = "process.queue.dead" /\ QueueSetup[4] = "process.queue"
      /\ QueueSetup[5] = "video.save.queue.dead" /\ QueueSetup[6] = "video.save.queue"
      /\ QueueSetup[7] = "save.retry.queue.dead" /\ QueueSetup[8] = "save.retry.queue"
      /\ QueueSetup[9] = "process.upload.queue.dead" /\ QueueSetup[10] = "exchange"
      /\ QueueSetup[11] = "process.upload.queue" /\ QueueSetup[12] = "binding"
  BY <1>1 DEF QueueSetup
<1>3. DeadFirst(QueueSetup)
  <2>1. ASSUME NEW k \in 1 .. 12, QueueSetup[k] \in Queues
        PROVE  \E i \in 1 .. k - 1 : QueueSetup[i] = DeadLetterTo(QueueSetup[k])
    <3>1. k \in {2, 4, 6, 8, 11}
      BY <1>2, <2>1 DEF Queues
    <3>2. QED
      BY <1>1, <1>2, <3>1 DEF DeadLetterTo
  <2>2. QED
    BY <1>2, <2>1 DEF DeadFirst
<1>4. \A i \in 1 .. 12 : QueueSetup[i] \in Elements(QueueSetup)
  BY <1>2 DEF Elements
<1>5. Queues \cup {Dead(q) : q \in Queues} \cup {"exchange", "binding"} \subseteq Elements(QueueSetup)
  BY <1>1, <1>2, <1>4 DEF Queues
<1>6. QueueSetup \in Seq(SetupSteps)
  <2>1. \A q \in Queues : q \in SetupSteps /\ Dead(q) \in SetupSteps
    BY DEF SetupSteps, Provides
  <2>2. "exchange" \in SetupSteps /\ "binding" \in SetupSteps
    BY DEF SetupSteps, Provides
  <2> HIDE DEF SetupSteps
  <2>3. QED
    BY <2>1, <2>2 DEF QueueSetup, Queues
<1>7. QED
  BY <1>3, <1>5, <1>6

LEMMA OtherScripts ==
    /\ SetupDatabase \in Seq(SetupSteps) /\ DeadFirst(SetupDatabase)
    /\ {"role", "database", "grant"} \subseteq Elements(SetupDatabase)
    /\ <<"migrate">> \in Seq(SetupSteps) /\ DeadFirst(<<"migrate">>) /\ "migrate" \in Elements(<<"migrate">>)
    /\ MinioSetup \in Seq(SetupSteps) /\ DeadFirst(MinioSetup)
    /\ {"temp bucket", "storage bucket", "notification", "lifecycle"} \subseteq Elements(MinioSetup)
    /\ SeedSetup \in Seq(Steps) /\ DeadFirst(SeedSetup)
<1>1. /\ SetupDatabase \in Seq(SetupSteps) /\ Len(SetupDatabase) = 4
      /\ SetupDatabase[1] = "role" /\ SetupDatabase[2] = "database"
      /\ SetupDatabase[3] = "grant" /\ SetupDatabase[4] = "owner"
  BY DEF SetupDatabase, SetupSteps, Provides
<1>2. DeadFirst(SetupDatabase) /\ {"role", "database", "grant"} \subseteq Elements(SetupDatabase)
  BY <1>1 DEF DeadFirst, Elements, Queues
<1>3. <<"migrate">> \in Seq(SetupSteps) /\ Len(<<"migrate">>) = 1 /\ <<"migrate">>[1] = "migrate"
  BY DEF SetupSteps
<1>4. DeadFirst(<<"migrate">>) /\ "migrate" \in Elements(<<"migrate">>)
  BY <1>3 DEF DeadFirst, Elements, Queues
<1>5. /\ MinioSetup \in Seq(SetupSteps) /\ Len(MinioSetup) = 4
      /\ MinioSetup[1] = "temp bucket" /\ MinioSetup[2] = "storage bucket"
      /\ MinioSetup[3] = "notification" /\ MinioSetup[4] = "lifecycle"
  BY DEF MinioSetup, SetupSteps, Provides
<1>6. /\ DeadFirst(MinioSetup)
      /\ {"temp bucket", "storage bucket", "notification", "lifecycle"} \subseteq Elements(MinioSetup)
  <2>1. \A k \in 1 .. 4 : k = 1 \/ k = 2 \/ k = 3 \/ k = 4
    OBVIOUS
  <2>2. \A k \in 1 .. 4 : MinioSetup[k] \notin Queues /\ MinioSetup[k] \in Elements(MinioSetup)
    BY <1>5, <2>1 DEF Queues, Elements
  <2>3. DeadFirst(MinioSetup)
    BY <1>5, <2>2 DEF DeadFirst
  <2>4. /\ MinioSetup[1] \in Elements(MinioSetup) /\ MinioSetup[2] \in Elements(MinioSetup)
        /\ MinioSetup[3] \in Elements(MinioSetup) /\ MinioSetup[4] \in Elements(MinioSetup)
    BY <2>2
  <2>5. QED
    BY <1>5, <2>3, <2>4
<1>7. /\ SeedSetup \in Seq(Steps) /\ Len(SeedSetup) = 7
      /\ SeedSetup[1] = "seed.gif" /\ SeedSetup[2] = "users" /\ SeedSetup[3] = "gifs" /\ SeedSetup[4] = "quota"
      /\ SeedSetup[5] = "friendships" /\ SeedSetup[6] = "shares" /\ SeedSetup[7] = "share_tokens"
  BY DEF SeedSetup, Steps, SeedSteps
<1>8. DeadFirst(SeedSetup)
  BY <1>7 DEF DeadFirst, Queues
<1>9. QED
  BY <1>1, <1>2, <1>3, <1>4, <1>5, <1>6, <1>7, <1>8

LEMMA Scripts ==
    /\ \A c \in Commands : Script(c) \in Seq(Steps) /\ Len(Script(c)) \in Nat /\ DeadFirst(Script(c))
    /\ \A c \in Commands \ {"seed", "all --seed"} : Script(c) \in Seq(SetupSteps)
    /\ AllSetup \in Seq(SetupSteps)
    /\ \A c \in {"all", "all --seed"} : Provides \cup {"migrate"} \subseteq Elements(Script(c))
<1> DEFINE d == SetupDatabase \o <<"migrate">>
           m == d \o MinioSetup
<1>1. AllSetup = m \o QueueSetup
  BY OtherScripts, QueueScript DEF AllSetup
<1>2. d \in Seq(SetupSteps) /\ DeadFirst(d) /\ Elements(d) = Elements(SetupDatabase) \cup Elements(<<"migrate">>)
  <2>1. /\ SetupDatabase \in Seq(SetupSteps) /\ DeadFirst(SetupDatabase)
        /\ <<"migrate">> \in Seq(SetupSteps) /\ DeadFirst(<<"migrate">>)
    BY OtherScripts
  <2>2. QED
    BY <2>1, Concat
<1>3. m \in Seq(SetupSteps) /\ DeadFirst(m) /\ Elements(m) = Elements(d) \cup Elements(MinioSetup)
  <2> HIDE DEF d
  <2>1. MinioSetup \in Seq(SetupSteps) /\ DeadFirst(MinioSetup)
    BY OtherScripts
  <2>2. QED
    BY <1>2, <2>1, Concat
<1> HIDE DEF d, m
<1>4. /\ AllSetup \in Seq(SetupSteps) /\ DeadFirst(AllSetup)
      /\ Elements(AllSetup) = Elements(m) \cup Elements(QueueSetup)
  BY <1>1, <1>3, QueueScript, Concat
<1>5. \A s \in Seq(SetupSteps) : s \in Seq(Steps)
  BY DEF Steps
<1>6. /\ AllSetup \o SeedSetup \in Seq(Steps) /\ DeadFirst(AllSetup \o SeedSetup)
      /\ Elements(AllSetup) \subseteq Elements(AllSetup \o SeedSetup)
  <2>1. AllSetup \in Seq(Steps) /\ SeedSetup \in Seq(Steps) /\ DeadFirst(SeedSetup)
    BY <1>4, <1>5, OtherScripts
  <2>2. /\ AllSetup \o SeedSetup \in Seq(Steps)
        /\ Elements(AllSetup \o SeedSetup) = Elements(AllSetup) \cup Elements(SeedSetup)
        /\ DeadFirst(AllSetup) /\ DeadFirst(SeedSetup) => DeadFirst(AllSetup \o SeedSetup)
    BY <2>1, Concat
  <2>3. QED
    BY <1>4, <2>1, <2>2
<1>7. Provides \cup {"migrate"} \subseteq Elements(AllSetup)
  BY <1>2, <1>3, <1>4, OtherScripts, QueueScript DEF Provides
<1>8. \A c \in Commands : Script(c) \in Seq(Steps) /\ DeadFirst(Script(c))
  BY <1>4, <1>5, <1>6, OtherScripts, QueueScript DEF Script, Commands
<1>9. \A s \in Seq(Steps) : Len(s) \in Nat
  OBVIOUS
<1>10. \A c \in {"all", "all --seed"} : Provides \cup {"migrate"} \subseteq Elements(Script(c))
  BY <1>6, <1>7 DEF Script
<1>11. \A c \in Commands \ {"seed", "all --seed"} : Script(c) \in Seq(SetupSteps)
  BY <1>4, OtherScripts, QueueScript DEF Script, Commands
<1>12. QED
  BY <1>4, <1>8, <1>9, <1>10, <1>11

LEMMA Rests ==
    ASSUME NEW c \in Commands, NEW k \in 1 .. Len(Script(c)) + 1
    PROVE  /\ Rest(c, k) \in Seq(Steps)
           /\ Rest(c, k) = <<>> <=> k = Len(Script(c)) + 1
           /\ k <= Len(Script(c)) => /\ Head(Rest(c, k)) = Script(c)[k] /\ Script(c)[k] \in Steps
                                     /\ Tail(Rest(c, k)) = Rest(c, k + 1)
           /\ Rest(c, 1) = Script(c)
<1> DEFINE s == Script(c)
           n == Len(s)
<1>1. s \in Seq(Steps) /\ n \in Nat /\ k \in 1 .. n + 1
  BY Scripts, Zenon
<1>2. \A m \in 1 .. n + 1 : /\ SubSeq(s, m, n) \in Seq(Steps) /\ Len(SubSeq(s, m, n)) = n - m + 1
                            /\ \A i \in 1 .. n - m + 1 : SubSeq(s, m, n)[i] = s[m + i - 1]
  BY <1>1
<1>3. SubSeq(s, k, n) = <<>> <=> k = n + 1
  <2> DEFINE r == SubSeq(s, k, n)
  <2>1. r \in Seq(Steps) /\ Len(r) = n - k + 1
    BY <1>1, <1>2
  <2>2. Len(r) = 0 <=> k = n + 1
    BY <1>1, <2>1
  <2> HIDE DEF r
  <2>3. r = <<>> <=> Len(r) = 0
    BY <2>1
  <2>4. QED
    BY <2>2, <2>3 DEF r
<1>4. ASSUME k <= n
      PROVE  /\ Head(SubSeq(s, k, n)) = s[k] /\ s[k] \in Steps
             /\ Tail(SubSeq(s, k, n)) = SubSeq(s, k + 1, n)
  BY <1>1, <1>2, <1>4
<1>5. SubSeq(s, 1, n) = s
  BY <1>1
<1>6. QED
  BY <1>1, <1>2, <1>3, <1>4, <1>5 DEF Rest

LEMMA AppliedFirst ==
    ASSUME NEW r \in Seq(Steps), NEW a
    PROVE  <<a>> \o r # <<>> /\ Head(<<a>> \o r) = a /\ Tail(<<a>> \o r) = r
  OBVIOUS

LEMMA AppliedNotProvided == "applied" \notin Provides /\ "migrate" \notin Provides
  BY DEF Provides, Queues, Dead

-----------------------------------------------------------------------------
(* What a run does next.                                                   *)

\* At a statement, everything before it is done.
LEMMA Here ==
    ASSUME RunInv, cmd \in Commands \cup {Nothing}, script # <<>>, Head(script) # "applied"
    PROVE  /\ cmd \in Commands /\ Running /\ last = Nothing
           /\ \E k \in 1 .. Len(Script(cmd)) :
                 /\ script = Rest(cmd, k) /\ Head(script) = Script(cmd)[k]
                 /\ \A i \in 1 .. k - 1 : Done(Script(cmd)[i])
<1>1. cmd \in Commands /\ Running /\ last = Nothing
  BY DEF RunInv, Running
<1>2. PICK k \in Nat : ScriptAt(cmd, k)
  BY <1>1 DEF RunInv
<1>3. k \in 1 .. Len(Script(cmd)) + 1 /\ Rest(cmd, k) \in Seq(Steps)
  BY <1>1, <1>2, Rests DEF ScriptAt
<1>4. script = Rest(cmd, k)
  BY <1>2, <1>3, AppliedFirst DEF ScriptAt
<1>5. k \in 1 .. Len(Script(cmd)) /\ Head(script) = Script(cmd)[k]
  <2>1. Len(Script(cmd)) \in Nat
    BY <1>1, Scripts, Zenon
  <2>2. k # Len(Script(cmd)) + 1
    BY <1>1, <1>3, <1>4, Rests
  <2>3. k \in 1 .. Len(Script(cmd))
    BY <1>3, <2>1, <2>2
  <2>4. QED
    BY <1>1, <1>3, <1>4, <2>1, <2>3, Rests
<1>6. QED
  BY <1>1, <1>2, <1>4, <1>5 DEF ScriptAt

LEMMA DoneStays ==
    ASSUME placed \subseteq placed', version = Newest /\ ~dirty => version' = Newest /\ ~dirty', NEW step, Done(step)
    PROVE  Done(step)'
  BY DEF Done

\* The run goes on.
LEMMA GoesOn ==
    ASSUME RunInv, cmd \in Commands, UNCHANGED <<cmd, last>>,
           placed \subseteq placed', version = Newest /\ ~dirty => version' = Newest /\ ~dirty',
           \/ UNCHANGED script
           \/ Advance /\ script # <<>> /\ \E step : step = Head(script) /\ (step # "applied" => Done(step)')
           \/ At("migrate") /\ script' = <<"applied">> \o script
    PROVE  RunInv'
<1>1. Running /\ last = Nothing
  BY ProvisionAssumption DEF RunInv, Running
<1>2. PICK k \in Nat : ScriptAt(cmd, k)
  BY <1>1 DEF RunInv
<1>3. k \in 1 .. Len(Script(cmd)) + 1 /\ Rest(cmd, k) \in Seq(Steps)
  BY <1>2, Rests DEF ScriptAt
<1>4. \A i \in 1 .. k - 1 : Done(Script(cmd)[i])'
  BY <1>2, DoneStays DEF ScriptAt
<1>5. CASE UNCHANGED script
  BY <1>1, <1>2, <1>4, <1>5 DEF RunInv, Running, ScriptAt
<1>6. CASE At("migrate") /\ script' = <<"applied">> \o script
  <2>1. script = Rest(cmd, k)
    BY <1>2, <1>3, <1>6, AppliedFirst DEF ScriptAt, At
  <2>2. k <= Len(Script(cmd)) /\ Script(cmd)[k] = "migrate"
    <3>1. Len(Script(cmd)) \in Nat
      BY Scripts, Zenon
    <3>2. QED
      BY <1>3, <1>6, <2>1, <3>1, Rests DEF At
  <2>3. QED
    BY <1>1, <1>3, <1>4, <1>6, <2>1, <2>2 DEF RunInv, Running, ScriptAt
<1>7. CASE script = <<"applied">> \o Rest(cmd, k) /\ Advance
  <2>1. script' = Rest(cmd, k)
    BY <1>3, <1>7, AppliedFirst DEF Advance
  <2>2. QED
    BY <1>1, <1>3, <1>4, <2>1 DEF RunInv, Running, ScriptAt
<1>8. CASE /\ script = Rest(cmd, k) /\ Advance /\ script # <<>>
         /\ \E step : step = Head(script) /\ (step # "applied" => Done(step)')
  <2>1. Len(Script(cmd)) \in Nat
    BY Scripts, Zenon
  <2>2. k <= Len(Script(cmd)) /\ k + 1 \in 1 .. Len(Script(cmd)) + 1
    BY <1>3, <1>8, <2>1, Rests
  <2>3. script' = Rest(cmd, k + 1) /\ Head(script) = Script(cmd)[k] /\ Head(script) \in Steps
    BY <1>3, <1>8, <2>2, Rests DEF Advance
  <2>4. "applied" \notin Steps
    BY SetupStepsApart DEF Steps, SeedSteps
  <2>5. Done(Script(cmd)[k])'
    <3>1. PICK step : step = Head(script) /\ (step # "applied" => Done(step)')
      BY <1>8
    <3>2. step = Script(cmd)[k] /\ step # "applied"
      BY <2>3, <2>4, <3>1
    <3>3. QED
      BY <3>1, <3>2 DEF Done
  <2>6. \A i \in 1 .. (k + 1) - 1 : Done(Script(cmd)[i])'
    BY <1>4, <2>1, <2>2, <2>5
  <2>7. QED
    BY <1>1, <2>2, <2>3, <2>6 DEF RunInv, Running, ScriptAt
<1>9. QED
  BY <1>2, <1>5, <1>6, <1>7, <1>8 DEF ScriptAt

LEMMA NothingApart ==
    /\ Nothing \notin Commands
    /\ Nothing \notin {<<"all", "ok">>, <<"all --seed", "ok">>, <<"seed", "ok">>}
<1>1. {"all", "all --seed", "seed"} \subseteq Commands /\ "ok" \in {"ok", "failed"}
  BY DEF Commands
<1>2. \A c \in {"all", "all --seed", "seed"} : <<c, "ok">> \in Commands \X {"ok", "failed"}
  BY <1>1
<1>3. QED
  BY <1>2, ProvisionAssumption

\* The run ends: with "ok" at the end of its script, when everything before the end is done.
LEMMA Ends ==
    ASSUME SetupInv, NEW how \in {"ok", "failed"}, Exit(how), cmd \in Commands,
           UNCHANGED <<placed, version, dirty>>, outages' \in 0 .. MaxOutages,
           how = "ok" => script = <<>>
    PROVE  SetupInv'
<1>1. ~Running' /\ script' = <<>> /\ last' = <<cmd, how>>
  BY DEF Exit, Running
<1>2. RunInv'
  BY <1>1 DEF RunInv, Running
<1>3. ProvisionTypeOK' /\ DeadQueuesExist'
  BY DEF SetupInv, SetupIsSound, ProvisionTypeOK, DeadQueuesExist, Exit
<1>4. ASSUME last' \in {<<"all", "ok">>, <<"all --seed", "ok">>} PROVE Complete
  <2>1. cmd \in {"all", "all --seed"} /\ how = "ok"
    BY <1>1, <1>4
  <2>2. PICK k \in Nat : ScriptAt(cmd, k)
    BY ProvisionAssumption DEF SetupInv, RunInv, Running
  <2>3. k \in 1 .. Len(Script(cmd)) + 1 /\ Rest(cmd, k) \in Seq(Steps)
    BY <2>2, Rests DEF ScriptAt
  <2>4. Rest(cmd, k) = <<>>
    BY <2>1, <2>2, <2>3, AppliedFirst DEF ScriptAt
  <2>5. k - 1 = Len(Script(cmd)) /\ Len(Script(cmd)) \in Nat
    <3>1. Len(Script(cmd)) \in Nat
      BY Scripts, Zenon
    <3>2. k = Len(Script(cmd)) + 1
      BY <2>3, <2>4, Rests
    <3>3. QED
      BY <3>1, <3>2
  <2>6. \A i \in 1 .. Len(Script(cmd)) : Done(Script(cmd)[i])
    BY <2>2, <2>5 DEF ScriptAt
  <2>7. \A step \in Provides \cup {"migrate"} : Done(step)
    <3>1. Provides \cup {"migrate"} \subseteq Elements(Script(cmd))
      BY <2>1, Scripts
    <3>2. QED
      BY <2>6, <3>1 DEF Elements
  <2>8. QED
    BY <2>7 DEF Done, Complete
<1>5. ReadyIsComplete'
  BY <1>4 DEF ReadyIsComplete, Complete
<1>6. QED
  BY <1>2, <1>3, <1>5 DEF SetupInv, SetupIsSound

\* The run goes on, and what is in place stays so.
LEMMA Continues ==
    ASSUME SetupInv, cmd \in Commands, UNCHANGED <<cmd, last, outages>>, RunInv',
           placed' \subseteq Provides, version' \in 0 .. Newest, dirty' \in BOOLEAN, DeadQueuesExist'
    PROVE  SetupInv'
<1>1. last = Nothing
  BY ProvisionAssumption DEF SetupInv, RunInv, Running
<1>2. last' \notin {<<"all", "ok">>, <<"all --seed", "ok">>}
  BY <1>1, NothingApart
<1>3. QED
  BY <1>2 DEF SetupInv, SetupIsSound, ProvisionTypeOK, ReadyIsComplete

LEMMA LaunchSetup == ASSUME SetupInv, NEW c \in Commands, Launch(c) PROVE SetupInv'
<1>1. Running' /\ cmd' = c /\ script' = Script(c) /\ last' = Nothing /\ UNCHANGED <<placed, version, dirty, outages>>
  BY ProvisionAssumption DEF Launch, Running
<1>2. ScriptAt(c, 1)'
  <2>0. Len(Script(c)) \in Nat
    BY Scripts, Zenon
  <2>1. 1 \in 1 .. Len(Script(c)) + 1
    BY <2>0
  <2>2. Rest(c, 1) = Script(c)
    BY <2>1, Rests
  <2>3. QED
    BY <1>1, <2>1, <2>2 DEF ScriptAt
<1>3. RunInv'
  BY <1>1, <1>2 DEF RunInv, ScriptAt
<1>4. last' \notin {<<"all", "ok">>, <<"all --seed", "ok">>}
  BY <1>1, NothingApart
<1>5. QED
  BY <1>1, <1>3, <1>4 DEF SetupInv, SetupIsSound, ProvisionTypeOK, DeadQueuesExist, ReadyIsComplete

LEMMA PlaceSetup == ASSUME SetupInv, Place PROVE SetupInv'
<1>0. PICK step : step = Head(script)
  OBVIOUS
<1>1. /\ script # <<>> /\ step \in Provides /\ placed' = placed \cup {step}
      /\ Advance /\ UNCHANGED <<version, dirty, outages>>
  BY <1>0 DEF Place, At
<1>2. step # "applied" /\ step # "migrate"
  BY <1>1, AppliedNotProvided
<1>3. cmd \in Commands \cup {Nothing} /\ RunInv
  BY DEF SetupInv, SetupIsSound, ProvisionTypeOK
<1>4. cmd \in Commands /\ \E k \in 1 .. Len(Script(cmd)) :
         step = Script(cmd)[k] /\ \A i \in 1 .. k - 1 : Done(Script(cmd)[i])
  BY <1>0, <1>1, <1>2, <1>3, Here
<1>5. Done(step)'
  BY <1>1, <1>2 DEF Done
<1>6. RunInv'
  BY <1>0, <1>1, <1>3, <1>4, <1>5, GoesOn DEF Advance
<1>7. ASSUME step \in Queues PROVE DeadLetterTo(step) \in placed
  <2>1. PICK k \in 1 .. Len(Script(cmd)) : step = Script(cmd)[k] /\ \A i \in 1 .. k - 1 : Done(Script(cmd)[i])
    BY <1>4
  <2>2. PICK i \in 1 .. k - 1 : Script(cmd)[i] = DeadLetterTo(step)
    BY <1>4, <1>7, <2>1, Scripts DEF DeadFirst
  <2>3. DeadLetterTo(step) \in Provides
    BY <1>7 DEF DeadLetterTo, Provides, Queues
  <2>4. QED
    BY <2>1, <2>2, <2>3 DEF Done
<1>8. DeadQueuesExist'
  BY <1>1, <1>7 DEF DeadQueuesExist, SetupInv, SetupIsSound
<1>9. QED
  BY <1>1, <1>4, <1>6, <1>8, Continues DEF Advance, SetupInv, SetupIsSound, ProvisionTypeOK

LEMMA RunSetup == ASSUME SetupInv, Run PROVE SetupInv'
<1>1. At("migrate") /\ UNCHANGED <<placed, outages>> /\ dirty' = (dirty \/ version' # version)
  BY DEF Run
<1>2. /\ cmd \in Commands \cup {Nothing} /\ RunInv /\ placed \subseteq Provides
      /\ version \in 0 .. Newest /\ dirty \in BOOLEAN /\ outages \in 0 .. MaxOutages /\ DeadQueuesExist
  BY DEF SetupInv, SetupIsSound, ProvisionTypeOK
<1>3. script # <<>> /\ Head(script) = "migrate" /\ cmd \in Commands
  BY <1>1, <1>2, Here DEF At
<1>4. dirty' \in BOOLEAN /\ DeadQueuesExist'
  BY <1>1, <1>2 DEF DeadQueuesExist
<1>5. CASE Exit("failed") /\ UNCHANGED version
  <2>1. dirty' = dirty
    BY <1>1, <1>2, <1>5
  <2>2. QED
    BY <1>1, <1>2, <1>3, <1>5, <2>1, Ends
<1>6. CASE ~dirty /\ version = Newest /\ Advance /\ UNCHANGED version
  <2>1. ~dirty' /\ version' = Newest
    BY <1>1, <1>6
  <2>2. Done("migrate")'
    BY <2>1, AppliedNotProvided DEF Done
  <2>3. RunInv'
    BY <1>1, <1>2, <1>3, <1>6, <2>1, <2>2, GoesOn DEF Advance
  <2>4. QED
    BY <1>1, <1>2, <1>3, <1>4, <1>6, <2>3, Continues DEF Advance
<1>7. CASE version # Newest /\ version' = version + 1 /\ script' = <<"applied">> \o script /\ UNCHANGED <<cmd, last>>
  <2>1. RunInv'
    BY <1>1, <1>2, <1>3, <1>7, GoesOn
  <2>2. version' \in 0 .. Newest
    BY <1>2, <1>7, ProvisionAssumption
  <2>3. QED
    BY <1>1, <1>2, <1>3, <1>4, <1>7, <2>1, <2>2, Continues
<1>8. QED
  BY <1>5, <1>6, <1>7 DEF Run

LEMMA AppliedSetup == ASSUME SetupInv, Applied PROVE SetupInv'
<1>1. /\ script # <<>> /\ Head(script) = "applied" /\ dirty' = FALSE
      /\ Advance /\ UNCHANGED <<placed, version, outages>>
  BY DEF Applied, At
<1>2. /\ cmd \in Commands \cup {Nothing} /\ RunInv /\ placed \subseteq Provides
      /\ version \in 0 .. Newest /\ DeadQueuesExist
  BY DEF SetupInv, SetupIsSound, ProvisionTypeOK
<1>3. cmd \in Commands
  BY <1>1, <1>2 DEF RunInv, Running
<1>4. RunInv'
  BY <1>1, <1>2, <1>3, GoesOn DEF Advance
<1>5. DeadQueuesExist'
  BY <1>1, <1>2 DEF DeadQueuesExist
<1>6. QED
  BY <1>1, <1>2, <1>3, <1>4, <1>5, Continues DEF Advance

\* A statement of the seed, or of the setup, that leaves everything in place.
LEMMA QuietStep ==
    ASSUME SetupInv, cmd \in Commands,
           placed \subseteq placed', placed' \subseteq Provides, DeadQueuesExist',
           UNCHANGED <<version, dirty, outages>>,
           \/ UNCHANGED <<cmd, script, last>>
           \/ Advance /\ \E step : At(step) /\ step \notin Provides \cup {"migrate"}
           \/ Exit("failed") /\ UNCHANGED placed
    PROVE  SetupInv'
<1>1. RunInv /\ version \in 0 .. Newest /\ dirty \in BOOLEAN /\ outages \in 0 .. MaxOutages
  BY DEF SetupInv, SetupIsSound, ProvisionTypeOK
<1>2. CASE Exit("failed") /\ UNCHANGED placed
  BY <1>1, <1>2, Ends
<1>3. CASE UNCHANGED <<cmd, script, last>>
  <2>1. RunInv'
    BY <1>1, <1>3, GoesOn
  <2>2. QED
    BY <1>1, <1>3, <2>1, Continues
<1>4. CASE Advance /\ \E step : At(step) /\ step \notin Provides \cup {"migrate"}
  <2>1. PICK step : script # <<>> /\ Head(script) = step /\ step \notin Provides \cup {"migrate"}
    BY <1>4 DEF At
  <2>2. Done(step)'
    BY <2>1 DEF Done
  <2>3. RunInv'
    BY <1>1, <1>4, <2>1, <2>2, GoesOn DEF Advance
  <2>4. QED
    BY <1>1, <1>4, <2>3, Continues DEF Advance
<1>5. QED
  BY <1>2, <1>3, <1>4

LEMMA SeedNotProvided ==
    ("owner" \notin Provides \cup {"migrate"}) /\ "seed.gif" \notin Provides \cup {"migrate"}
    /\ \A step \in SeedSteps : step \notin Provides \cup {"migrate"}
  BY DEF SeedSteps, Provides, Queues, Dead

\* The seed's tables are filled on the side.
LEMMA SeedGoesOn ==
    ASSUME SeedUsersAndProfiles \/ SeedGifs \/ SeedQuotas \/ SeedFriendships \/ SeedShares \/ SeedShareTokens
    PROVE  /\ script # <<>> /\ UNCHANGED <<placed, version, dirty, outages>>
           /\ \/ UNCHANGED <<cmd, script, last>>
              \/ Advance /\ \E step \in SeedSteps : At(step)
              \/ Exit("failed")
<1>1. ASSUME NEW step \in SeedSteps, At(step),
             \/ \E rows : Draw(rows)
             \/ \E table, size : Insert(table, size)
      PROVE  /\ script # <<>> /\ UNCHANGED <<placed, version, dirty, outages>>
             /\ \/ UNCHANGED <<cmd, script, last>>
                \/ Advance /\ \E s \in SeedSteps : At(s)
                \/ Exit("failed")
  BY <1>1 DEF Draw, Insert, At
<1>2. CASE SeedUsersAndProfiles
  <2>1. CASE DrawUsers
    BY <1>1, <2>1 DEF DrawUsers, SeedSteps
  <2>2. CASE InsertUsers \/ InsertProfiles
    BY <2>2 DEF InsertUsers, InsertProfiles, At, SeedSteps
  <2>3. QED
    BY <1>2, <2>1, <2>2 DEF SeedUsersAndProfiles
<1>3. CASE SeedGifs
  BY <1>1, <1>3 DEF SeedGifs, SeedSteps
<1>4. CASE SeedQuotas
  BY <1>1, <1>4 DEF SeedQuotas, SeedSteps
<1>5. CASE SeedFriendships
  BY <1>1, <1>5 DEF SeedFriendships, SeedSteps
<1>6. CASE SeedShares
  BY <1>1, <1>6 DEF SeedShares, SeedSteps
<1>7. CASE SeedShareTokens
  BY <1>1, <1>7 DEF SeedShareTokens, SeedSteps
<1>8. QED
  BY <1>2, <1>3, <1>4, <1>5, <1>6, <1>7

LEMMA NextSetup == ASSUME SetupInv, [Next]_vars PROVE SetupInv'
<1>1. /\ cmd \in Commands \cup {Nothing} /\ RunInv /\ placed \subseteq Provides
      /\ outages \in 0 .. MaxOutages /\ DeadQueuesExist
  BY DEF SetupInv, SetupIsSound, ProvisionTypeOK
<1>2. Running => cmd \in Commands
  BY <1>1 DEF Running
<1>3. script # <<>> => Running
  BY <1>1 DEF RunInv
<1>4. UNCHANGED placed => DeadQueuesExist'
  BY <1>1 DEF DeadQueuesExist
<1>5. CASE ProvisionNext
  <2>1. ASSUME NEW c \in Commands, Launch(c) PROVE SetupInv'
    BY <2>1, LaunchSetup
  <2>2. CASE Finish
    BY <1>1, <1>2, <2>2, Ends DEF Finish
  <2>3. CASE SetOwner
    <3>1. At("owner") /\ Advance /\ UNCHANGED <<placed, version, dirty, outages>>
      BY <2>3 DEF SetOwner
    <3>2. cmd \in Commands
      BY <1>2, <1>3, <3>1 DEF At
    <3>3. QED
      BY <1>1, <1>4, <3>1, <3>2, SeedNotProvided, QuietStep
  <2>4. QED
    BY <1>5, <2>1, <2>2, <2>3, PlaceSetup, RunSetup, AppliedSetup DEF ProvisionNext, Commands
<1>6. CASE Fail
  <2>1. /\ cmd \in Commands /\ Exit("failed") /\ UNCHANGED <<placed, version, dirty>>
        /\ outages' = outages + 1 /\ outages < MaxOutages
    BY <1>2, <1>6 DEF Fail
  <2>2. outages' \in 0 .. MaxOutages
    BY <1>1, <2>1, ProvisionAssumption
  <2>3. QED
    BY <2>1, <2>2, Ends
<1>7. CASE LaunchSeed("seed") \/ LaunchSeed("all --seed")
  BY <1>7, LaunchSetup DEF LaunchSeed, Commands
<1>8. CASE SeedMinioStorage
  <2>1. /\ At("seed.gif") /\ UNCHANGED <<version, dirty, outages>>
        /\ \/ Advance /\ placed' \in {placed, placed \cup {"storage bucket"}}
           \/ Exit("failed") /\ UNCHANGED placed
    BY <1>8 DEF SeedMinioStorage
  <2>2. cmd \in Commands
    BY <1>2, <1>3, <2>1 DEF At
  <2>3. "storage bucket" \in Provides /\ "storage bucket" \notin Queues
    BY DEF Provides, Queues
  <2>4. placed \subseteq placed' /\ placed' \subseteq Provides /\ DeadQueuesExist'
    BY <1>1, <2>1, <2>3 DEF DeadQueuesExist
  <2>5. QED
    BY <2>1, <2>2, <2>4, SeedNotProvided, QuietStep
<1>9. CASE SeedUsersAndProfiles \/ SeedGifs \/ SeedQuotas \/ SeedFriendships \/ SeedShares \/ SeedShareTokens
  <2>1. /\ script # <<>> /\ UNCHANGED <<placed, version, dirty, outages>>
        /\ \/ UNCHANGED <<cmd, script, last>>
           \/ Advance /\ \E step \in SeedSteps : At(step)
           \/ Exit("failed")
    BY <1>9, SeedGoesOn
  <2>2. QED
    BY <1>1, <1>2, <1>3, <1>4, <2>1, SeedNotProvided, QuietStep
<1>10. CASE UNCHANGED vars
  BY <1>10 DEF vars, provisionVars, SetupInv, SetupIsSound, ProvisionTypeOK, DeadQueuesExist, ReadyIsComplete,
               Complete, RunInv, Running, ScriptAt, Done
<1>11. QED
  BY <1>5, <1>6, <1>7, <1>8, <1>9, <1>10 DEF Next

LEMMA InitSetup == Init => SetupInv
<1> SUFFICES ASSUME Init PROVE SetupInv
  OBVIOUS
<1>1. /\ placed = {} /\ version = 0 /\ dirty = FALSE /\ cmd = Nothing /\ script = <<>> /\ last = Nothing
      /\ outages = 0
  BY DEF Init, ProvisionInit
<1>2. ProvisionTypeOK
  <2>1. 0 \in 0 .. Newest /\ 0 \in 0 .. MaxOutages
    BY ProvisionAssumption
  <2>2. QED
    BY <1>1, <2>1 DEF ProvisionTypeOK
<1>3. DeadQueuesExist /\ ReadyIsComplete
  BY <1>1, NothingApart DEF DeadQueuesExist, ReadyIsComplete
<1>4. QED
  BY <1>1, <1>2, <1>3 DEF SetupInv, SetupIsSound, RunInv, Running

\* However often the bootstrap (cmd/bootstrap/cmd) fails, dies and is run again, each queue that
\* is there has the queue its rejected messages go to, and a run of "all" that ended well has
\* left everything in place.
THEOREM SetupSound == Spec => []SetupIsSound
<1>1. SetupInv => SetupIsSound
  BY DEF SetupInv
<1>2. QED
  BY <1>1, InitSetup, NextSetup, PTL DEF Spec

-----------------------------------------------------------------------------
(* The seed.  Its inductive invariant says, for every place a seeding may  *)
(* stop at, which of its rows are in the tables, and which it has drawn    *)
(* and still is to insert.                                                 *)

SeedCommands == {"seed", "all --seed"}
Seeding      == cmd \in SeedCommands

\* The table a seeding is at: none yet, one of six, or past the last.
Rank(step) ==
    CASE step = "users"  -> 1 [] step = "gifs"   -> 2 [] step = "quota"        -> 3
      [] step = "friendships" -> 4 [] step = "shares" -> 5 [] step = "share_tokens" -> 6
      [] OTHER -> 0
Stage == IF script = <<>> THEN 7 ELSE Rank(Head(script))

Me        == {<<seeds, i>> : i \in 1 .. Count}
MyUsers   == [i \in 1 .. Count |-> <<seeds, i>>]
MyGifs    == {g \in tables.gifs : g.owner \in Me}
MyQuota(i)   == [user |-> <<seeds, i>>, count |-> drawn.stats[i]]
MyQuotas     == {MyQuota(i) : i \in 1 .. Count}
Accepted(p)  == [pair |-> p, accepted |-> TRUE]
ShareWith(p) == [owner |-> p[1], nr |-> 1, with |-> p[2]]
OneRowEach(rows) == \A f, g \in rows : f.pair \in {g.pair, <<g.pair[2], g.pair[1]>>} => f = g
Nums == [1 .. Count -> 1 .. MaxGifs]

\* Rows are of users of seedings so far.
Known == (1 .. seeds) \X (1 .. Count)
RowTypes ==
    /\ seeds \in 0 .. MaxSeeds /\ DOMAIN tables = Tables /\ DOMAIN drawn = DOMAIN NoRows
    /\ tables.users \subseteq [id : Known, email : Known]
    /\ tables.profiles \subseteq Ids
    /\ tables.gifs \subseteq [owner : Ids, nr : Nat]
    /\ tables.quota \subseteq [user : Known, count : Nat]
    /\ tables.friendships \subseteq [pair : Known \X Known, accepted : BOOLEAN]
    /\ \A s \in tables.shares : [owner |-> s.owner, nr |-> s.nr] \in tables.gifs

\* The rows of the n-th table are drawn, and those of them it still is to insert.
Past(n) == Stage > n \/ (Stage = n /\ todo # <<>>)
Left(n) == IF Stage = n THEN ToSet(todo) ELSE {}

\* A seeding has no rows in a table it has not come to.
Untouched ==
    /\ ~Past(2) => MyGifs = {}
    /\ ~Past(3) => \A q \in tables.quota : q.user \notin Me
    /\ ~Past(4) => \A f \in tables.friendships : f.pair[1] \notin Me

UsersInv ==
    /\ due # <<>> => Stage = 1 /\ todo # <<>> /\ due = NextBatch(Batch)
    /\ Past(1) => /\ drawn.users = MyUsers /\ Left(1) \subseteq [id : Me, email : Known]
                  /\ Me \subseteq (Ids \cap tables.profiles) \cup {r.id : r \in Left(1)}

GifsInv ==
    Past(2) => /\ drawn.stats \in Nums /\ MyGifs \cup Left(2) = Gifs(drawn.stats)
               /\ drawn.gifs \in Seq(Gifs(drawn.stats))

QuotasInv == Past(3) => Left(3) \subseteq MyQuotas /\ MyQuotas \subseteq tables.quota \cup Left(3)

FriendsInv ==
    Past(4) => /\ Left(4) \subseteq [pair : Me \X Me, accepted : BOOLEAN]
               /\ OneRowEach(tables.friendships \cup Left(4))
               /\ drawn.friends \subseteq Me \X Me
               /\ \A p \in drawn.friends : Accepted(p) \in tables.friendships \cup Left(4)

SharesInv == Left(5) \subseteq {ShareWith(p) : p \in drawn.friends}

SeedingInv ==
    /\ seeds \in Nat \ {0} /\ todo \in Seq(ToSet(todo))
    /\ Untouched /\ UsersInv /\ GifsInv /\ QuotasInv /\ FriendsInv /\ SharesInv

\* What holds of the tables whoever runs.
TablesInv == RowTypes /\ QuotaCountsGifs /\ SharesAmongFriends

SeedInv ==
    /\ TablesInv /\ SeedIsWhole
    /\ Seeding => SeedingInv
    /\ ~Seeding \/ Stage = 0 => todo = <<>> /\ due = <<>> /\ drawn = NoRows

-----------------------------------------------------------------------------
(* Where a seeding is.                                                     *)

LEMMA Ranks ==
    /\ \A step : Rank(step) \in 0 .. 6
    /\ \A step : Rank(step) # 0 <=> step \in SeedSteps
    /\ Rank("users") = 1 /\ Rank("gifs") = 2 /\ Rank("quota") = 3
    /\ Rank("friendships") = 4 /\ Rank("shares") = 5 /\ Rank("share_tokens") = 6
<1>1. /\ Rank("users") = 1 /\ Rank("gifs") = 2 /\ Rank("quota") = 3
      /\ Rank("friendships") = 4 /\ Rank("shares") = 5 /\ Rank("share_tokens") = 6
  BY DEF Rank
<1>2. \A step : step \notin SeedSteps => Rank(step) = 0
  BY DEF Rank, SeedSteps
<1>3. \A step \in SeedSteps : Rank(step) \in 1 .. 6
  BY <1>1 DEF SeedSteps
<1>4. QED
  BY <1>1, <1>2, <1>3

LEMMA SetupRanks == \A step \in SetupSteps \cup {"seed.gif", "applied", "migrate", "owner"} : Rank(step) = 0
  BY SetupStepsApart, Ranks DEF SetupSteps, SeedSteps

\* A seed's script comes to the tables in their order, and ends with the last.
InOrder(s) ==
    /\ Len(s) \in Nat \ {0} /\ Rank(s[1]) = 0
    /\ \A k \in 1 .. Len(s) :
          /\ Rank(s[k]) = 0 => k < Len(s) /\ Rank(s[k + 1]) \in {0, 1}
          /\ Rank(s[k]) \in 1 .. 5 => k < Len(s) /\ Rank(s[k + 1]) = Rank(s[k]) + 1
          /\ Rank(s[k]) = 6 => k = Len(s)

LEMMA SeedPlaces == InOrder(Script("seed")) /\ InOrder(Script("all --seed"))
<1>1. /\ Len(SeedSetup) = 7 /\ Rank(SeedSetup[1]) = 0
      /\ \A k \in 2 .. 7 : Rank(SeedSetup[k]) = k - 1
  <2>1. /\ Len(SeedSetup) = 7
        /\ SeedSetup[1] = "seed.gif" /\ SeedSetup[2] = "users" /\ SeedSetup[3] = "gifs" /\ SeedSetup[4] = "quota"
        /\ SeedSetup[5] = "friendships" /\ SeedSetup[6] = "shares" /\ SeedSetup[7] = "share_tokens"
    BY DEF SeedSetup
  <2>2. \A k \in 2 .. 7 : k = 2 \/ k = 3 \/ k = 4 \/ k = 5 \/ k = 6 \/ k = 7
    OBVIOUS
  <2>3. \A k \in 2 .. 7 : Rank(SeedSetup[k]) = k - 1
    BY <2>1, <2>2, Ranks
  <2>4. QED
    BY <2>1, <2>3, SetupRanks
<1>2. InOrder(SeedSetup)
  BY <1>1 DEF InOrder
<1> DEFINE n == Len(AllSetup)
           s == AllSetup \o SeedSetup
<1>3. n \in Nat /\ \A k \in 1 .. n : Rank(AllSetup[k]) = 0
  <2>1. AllSetup \in Seq(SetupSteps)
    BY Scripts
  <2>2. n \in Nat /\ \A k \in 1 .. n : AllSetup[k] \in SetupSteps
    BY <2>1
  <2>3. QED
    BY <2>2, SetupRanks
<1>4. /\ Len(s) = n + 7
      /\ \A k \in 1 .. n : s[k] = AllSetup[k]
      /\ \A k \in 1 .. 7 : s[n + k] = SeedSetup[k]
  <2>1. \A t \in Seq(SetupSteps) : t \in Seq(Steps)
    BY DEF Steps
  <2>2. AllSetup \in Seq(Steps) /\ SeedSetup \in Seq(Steps)
    BY <2>1, Scripts, OtherScripts
  <2>3. ASSUME NEW t \in Seq(Steps), NEW u \in Seq(Steps)
        PROVE  /\ Len(t \o u) = Len(t) + Len(u)
               /\ \A k \in 1 .. Len(t) : (t \o u)[k] = t[k]
               /\ \A k \in 1 .. Len(u) : (t \o u)[Len(t) + k] = u[k]
    OBVIOUS
  <2>4. /\ Len(AllSetup \o SeedSetup) = Len(AllSetup) + Len(SeedSetup)
        /\ \A k \in 1 .. Len(AllSetup) : (AllSetup \o SeedSetup)[k] = AllSetup[k]
        /\ \A k \in 1 .. Len(SeedSetup) : (AllSetup \o SeedSetup)[Len(AllSetup) + k] = SeedSetup[k]
    BY <2>2, <2>3, Zenon
  <2>5. QED
    BY <1>1, <2>4, Zenon
<1> HIDE DEF n, s
<1>5. \A k \in 1 .. n + 7 : k \in 1 .. n + 1 \/ (k - n \in 2 .. 7 /\ k = n + (k - n))
  BY <1>3
<1>6. ASSUME NEW k \in 1 .. n + 7
      PROVE  (k <= n + 1 => Rank(s[k]) = 0) /\ (k > n + 1 => Rank(s[k]) = k - n - 1)
  <2>1. CASE k \in 1 .. n
    BY <1>3, <1>4, <2>1
  <2>2. CASE k = n + 1
    BY <1>1, <1>3, <1>4, <2>2
  <2>3. ASSUME NEW m \in 2 .. 7, k = n + m PROVE k > n + 1 /\ Rank(s[k]) = k - n - 1
    <3>1. n \in Nat /\ k > n + 1 /\ m - 1 = k - n - 1
      BY <1>3, <2>3
    <3>2. s[k] = SeedSetup[m]
      BY <1>4, <2>3
    <3>3. Rank(SeedSetup[m]) = m - 1
      BY <1>1, <2>3
    <3>4. QED
      BY <3>1, <3>2, <3>3
  <2>4. QED
    BY <1>3, <1>5, <2>1, <2>2, <2>3
<1>7. Rank(s[1]) = 0 /\ 1 \in 1 .. n + 7
  BY <1>3, <1>6
<1>8. ASSUME NEW k \in 1 .. n + 7
      PROVE  /\ Rank(s[k]) = 0 => k < n + 7 /\ Rank(s[k + 1]) \in {0, 1}
             /\ Rank(s[k]) \in 1 .. 5 => k < n + 7 /\ Rank(s[k + 1]) = Rank(s[k]) + 1
             /\ Rank(s[k]) = 6 => k = n + 7
  <2> DEFINE m == k + 1
  <2>1. m = k + 1 /\ (k < n + 7 => m \in 1 .. n + 7)
    BY <1>3
  <2> HIDE DEF m
  <2>2. k < n + 7 => (m <= n + 1 => Rank(s[m]) = 0) /\ (m > n + 1 => Rank(s[m]) = m - n - 1)
    BY <1>6, <2>1
  <2>3. (k <= n + 1 => Rank(s[k]) = 0) /\ (k > n + 1 => Rank(s[k]) = k - n - 1)
    BY <1>6
  <2>4. /\ Rank(s[k]) = 0 => k < n + 7 /\ Rank(s[m]) \in {0, 1}
        /\ Rank(s[k]) \in 1 .. 5 => k < n + 7 /\ Rank(s[m]) = Rank(s[k]) + 1
        /\ Rank(s[k]) = 6 => k = n + 7
    BY <1>3, <2>1, <2>2, <2>3
  <2>5. QED
    BY <2>1, <2>4
<1>9. InOrder(s)
  BY <1>3, <1>4, <1>7, <1>8 DEF InOrder
<1>10. QED
  BY <1>2, <1>9 DEF Script, s

LEMMA Stages ==
    /\ Stage \in 0 .. 7 /\ (Stage = 7 <=> script = <<>>)
    /\ \A step : At(step) => Stage = Rank(step)
    /\ script # <<>> => Stage = Rank(Head(script))
  BY Ranks DEF Stage, At

\* Only a seeding comes to the tables.
LEMMA AtSeed ==
    ASSUME RunInv, cmd \in Commands \cup {Nothing}, Stage \in 1 .. 6
    PROVE  Seeding /\ cmd \in Commands /\ last = Nothing /\ \E step \in SeedSteps : At(step)
<1>1. script # <<>> /\ Head(script) \in SeedSteps
  BY Stages, Ranks
<1>2. Head(script) # "applied"
  BY <1>1 DEF SeedSteps
<1>3. cmd \in Commands /\ last = Nothing /\ \E k \in 1 .. Len(Script(cmd)) : Head(script) = Script(cmd)[k]
  BY <1>1, <1>2, Here
<1>4. ASSUME cmd \in Commands \ {"seed", "all --seed"} PROVE FALSE
  <2>1. \A s \in Seq(SetupSteps) : \A k \in 1 .. Len(s) : s[k] \in SetupSteps
    OBVIOUS
  <2>2. Script(cmd) \in Seq(SetupSteps)
    BY <1>4, Scripts
  <2>3. Head(script) \in SetupSteps
    BY <1>3, <2>1, <2>2
  <2>4. QED
    BY <1>1, <2>3, SetupStepsApart
<1>5. QED
  BY <1>1, <1>3, <1>4 DEF Seeding, SeedCommands, At

\* A seeding comes from one table to the next.
LEMMA StageMoves ==
    ASSUME RunInv, Seeding, script # <<>>, Advance
    PROVE  /\ Stage = 0 => Stage' \in {0, 1}
           /\ Stage \in 1 .. 6 => Stage' = Stage + 1
           /\ Seeding'
<1>1. cmd \in Commands /\ Running /\ Seeding'
  BY ProvisionAssumption DEF Seeding, SeedCommands, Commands, Running, Advance
<1>2. PICK k \in Nat : ScriptAt(cmd, k)
  BY <1>1 DEF RunInv
<1>3. InOrder(Script(cmd))
  BY SeedPlaces DEF Seeding, SeedCommands
<1>4. Len(Script(cmd)) \in Nat /\ k \in 1 .. Len(Script(cmd)) + 1 /\ Rest(cmd, k) \in Seq(Steps)
  <2>1. Len(Script(cmd)) \in Nat
    BY <1>1, Scripts, Zenon
  <2>2. k \in 1 .. Len(Script(cmd)) + 1
    BY <1>2 DEF ScriptAt
  <2>3. QED
    BY <1>1, <2>1, <2>2, Rests
<1>5. CASE script = <<"applied">> \o Rest(cmd, k) /\ k <= Len(Script(cmd)) /\ Script(cmd)[k] = "migrate"
  <2>1. Head(script) = "applied" /\ script' = Rest(cmd, k)
    BY <1>4, <1>5, AppliedFirst DEF Advance
  <2>2. script' # <<>> /\ Head(Rest(cmd, k)) = "migrate"
    BY <1>1, <1>4, <1>5, <2>1, Rests
  <2>3. Stage = 0 /\ Stage' = 0
    BY <2>1, <2>2, SetupRanks DEF Stage
  <2>4. QED
    BY <1>1, <2>3
<1>6. CASE script = Rest(cmd, k)
  <2>1. k \in 1 .. Len(Script(cmd)) /\ Stage = Rank(Script(cmd)[k]) /\ script' = Rest(cmd, k + 1)
    <3>1. k # Len(Script(cmd)) + 1
      BY <1>1, <1>4, <1>6, Rests
    <3>2. k \in 1 .. Len(Script(cmd))
      BY <1>4, <3>1
    <3>3. Head(script) = Script(cmd)[k] /\ Tail(script) = Rest(cmd, k + 1)
      BY <1>1, <1>4, <1>6, <3>2, Rests
    <3>4. QED
      BY <3>2, <3>3 DEF Stage, Advance
  <2> DEFINE m == k + 1
             n == Len(Script(cmd))
  <2>2. m = k + 1 /\ m \in 1 .. n + 1
    BY <1>4, <2>1
  <2>3. CASE k = n
    <3>1. Rank(Script(cmd)[k]) = 6
      BY <1>3, <2>1, <2>3, Ranks DEF InOrder
    <3>2. script' = <<>>
      BY <1>1, <2>1, <2>2, <2>3, Rests
    <3>3. Stage' = 7 /\ Stage = 6
      BY <2>1, <3>1, <3>2 DEF Stage
    <3>4. QED
      BY <1>1, <3>3
  <2>4. CASE k < n
    <3>0. m \in 1 .. n
      BY <1>4, <2>1, <2>4
    <3> HIDE DEF m
    <3>1. Rest(cmd, m) # <<>> /\ Head(Rest(cmd, m)) = Script(cmd)[m]
      <4>1. m <= n /\ m # n + 1
        BY <1>4, <3>0
      <4>2. QED
        BY <1>1, <2>2, <4>1, Rests
    <3>2. Stage' = Rank(Script(cmd)[m])
      BY <2>1, <2>2, <3>1 DEF Stage
    <3>3. /\ Rank(Script(cmd)[k]) = 0 => Rank(Script(cmd)[m]) \in {0, 1}
          /\ Rank(Script(cmd)[k]) \in 1 .. 5 => Rank(Script(cmd)[m]) = Rank(Script(cmd)[k]) + 1
          /\ Rank(Script(cmd)[k]) # 6
      BY <1>3, <2>1, <2>2, <2>4 DEF InOrder
    <3>4. QED
      BY <1>1, <2>1, <3>2, <3>3
  <2>5. QED
    BY <1>4, <2>1, <2>3, <2>4
<1>7. QED
  BY <1>2, <1>5, <1>6 DEF ScriptAt

-----------------------------------------------------------------------------
(* Rows in sequences.                                                      *)

\* A batch and what is left of the rows make up the rows.
LEMMA Batches ==
    ASSUME NEW S, todo \in Seq(S), NEW size \in Nat \ {0}
    PROVE  /\ NextBatch(size) \in Seq(S) /\ AfterBatch(size) \in Seq(S)
           /\ ToSet(todo) = ToSet(NextBatch(size)) \cup ToSet(AfterBatch(size))
           /\ todo # <<>> => NextBatch(size) # <<>>
<1> DEFINE n == Len(todo)
           m == IF size < n THEN size ELSE n
           b == SubSeq(todo, 1, m)
           a == SubSeq(todo, size + 1, n)
<1>1. n \in Nat /\ m \in 0 .. n /\ (m < n => m = size) /\ DOMAIN todo = 1 .. n /\ (n # 0 => m # 0)
  OBVIOUS
<1>2. b \in Seq(S) /\ DOMAIN b = 1 .. m /\ \A i \in 1 .. m : b[i] = todo[i]
  <2> HIDE DEF m, n
  <2>1. ASSUME NEW j \in 0 .. n
        PROVE  /\ SubSeq(todo, 1, j) \in Seq(S) /\ DOMAIN SubSeq(todo, 1, j) = 1 .. j
               /\ \A i \in 1 .. j : SubSeq(todo, 1, j)[i] = todo[i]
    BY <1>1 DEF n
  <2>2. QED
    BY <1>1, <2>1
<1>3. CASE size < n
  <2>1. m = size /\ m < n
    BY <1>3
  <2>2. a \in Seq(S) /\ Len(a) = n - m /\ DOMAIN a = 1 .. n - m /\ \A i \in 1 .. n - m : a[i] = todo[m + i]
    BY <1>1, <2>1
  <2> HIDE DEF a, b, m, n
  <2>3. ASSUME NEW i \in 1 .. n PROVE todo[i] \in ToSet(b) \cup ToSet(a)
    <3>1. CASE i \in 1 .. m
      BY <1>2, <3>1 DEF ToSet
    <3>2. CASE i > m
      <4> DEFINE j == i - m
      <4>1. j \in 1 .. n - m /\ m + j = i
        BY <1>1, <3>2
      <4> HIDE DEF j
      <4>2. a[j] = todo[i]
        BY <2>2, <4>1
      <4>3. QED
        BY <2>2, <4>1, <4>2 DEF ToSet
    <3>3. QED
      BY <1>1, <3>1, <3>2
  <2>4. ToSet(b) \subseteq ToSet(todo)
    BY <1>1, <1>2 DEF ToSet
  <2>5. ToSet(a) \subseteq ToSet(todo)
    <3>1. \A i \in 1 .. n - m : m + i \in 1 .. n
      BY <1>1
    <3>2. QED
      BY <1>1, <2>2, <3>1 DEF ToSet
  <2>6. ToSet(todo) \subseteq ToSet(b) \cup ToSet(a)
    BY <1>1, <2>3 DEF ToSet
  <2>7. todo # <<>> => b # <<>>
    <3>1. 1 \in DOMAIN b
      BY <1>1, <1>2, <2>1
    <3>2. QED
      BY <3>1
  <2>8. QED
    BY <1>2, <2>2, <2>4, <2>5, <2>6, <2>7 DEF NextBatch, AfterBatch, a, b, m, n
<1>4. CASE ~(size < n)
  <2>0. m = n /\ SubSeq(todo, 1, n) = todo
    <3>1. SubSeq(todo, 1, n) = todo
      OBVIOUS
    <3>2. m = n
      BY <1>4
    <3>3. QED
      BY <3>1, <3>2
  <2>1. m = n /\ b = todo /\ a = <<>>
    <3>1. \A j \in Nat : j > Len(todo) => SubSeq(todo, j, Len(todo)) = <<>>
      OBVIOUS
    <3>2. size + 1 \in Nat /\ size + 1 > Len(todo)
      <4>1. n \in Nat /\ n = Len(todo)
        OBVIOUS
      <4> HIDE DEF n, m, a, b
      <4>2. QED
        BY <1>4, <4>1
    <3>3. QED
      BY <2>0, <3>1, <3>2
  <2>2. ToSet(a) = {}
    BY <2>1 DEF ToSet
  <2>3. a \in Seq(S)
    BY <2>1
  <2>4. QED
    BY <1>2, <2>1, <2>2, <2>3 DEF NextBatch, AfterBatch
<1>5. QED
  BY <1>3, <1>4

LEMMA SetToSeqIsTheSet ==
    ASSUME NEW S, IsFiniteSet(S)
    PROVE  SetToSeq(S) \in Seq(S) /\ ToSet(SetToSeq(S)) = S
<1> DEFINE n == Cardinality(S)
           f == SetToSeq(S)
<1>1. n \in Nat /\ ExistsBijection(1 .. n, S) /\ IsFiniteSet(1 .. n) /\ Cardinality(1 .. n) = n
  BY FS_CardinalityType, FS_Interval
<1>2. PICK g : g \in [1 .. n -> S] /\ IsInjective(g)
  BY <1>1 DEF ExistsBijection, Bijection, Injection
<1>3. f \in [1 .. n -> S] /\ IsInjective(f)
  BY <1>2 DEF SetToSeq
<1> HIDE DEF f, n
<1>4. f \in Surjection(1 .. n, S)
  <2>1. f \in Injection(1 .. n, S)
    BY <1>3 DEF Injection
  <2>2. QED
    BY <1>1, <2>1, FS_Injection DEF n
<1>5. f \in Seq(S)
  BY <1>1, <1>3
<1>6. ToSet(f) = S
  BY <1>3, <1>4 DEF ToSet, Surjection
<1>7. QED
  BY <1>5, <1>6 DEF f

LEMMA Image ==
    ASSUME NEW S, IsFiniteSet(S), NEW f, DOMAIN f = S
    PROVE  IsFiniteSet({f[x] : x \in S})
<1> DEFINE T == {f[x] : x \in S}
           g == [x \in S |-> f[x]]
<1>1. g \in Surjection(S, T)
  BY DEF Surjection
<1> HIDE DEF g, T
<1>2. IsFiniteSet(T)
  BY <1>1, FS_Surjection
<1>3. QED
  BY <1>2 DEF T

LEMMA SeqOfItsSet ==
    /\ \A S : \A t \in Seq(S) : t \in Seq(ToSet(t))
    /\ ToSet(<<>>) = {} /\ <<>> \in Seq(ToSet(<<>>))
  BY DEF ToSet

-----------------------------------------------------------------------------
(* One statement of the seeding.                                           *)

\* The seeding is at its n-th table before the step, and has these rows to insert after it.
Onward(n, rows) ==
    /\ Seeding /\ Seeding' /\ last' = Nothing /\ Stage' # 0 /\ UNCHANGED seeds
    /\ todo' = rows
    /\ \A m \in 1 .. 6 : /\ Past(m)' <=> m <= n
                         /\ Left(m)' = IF m = n THEN ToSet(rows) ELSE {}

LEMMA StepMoves ==
    ASSUME SetupInv, NEW n \in 1 .. 6, Stage = n, NEW rows, todo' = rows, UNCHANGED seeds,
           IF rows = <<>> THEN Advance ELSE UNCHANGED <<cmd, script, last>>
    PROVE  Onward(n, rows)
<1>1. RunInv /\ cmd \in Commands \cup {Nothing}
  BY DEF SetupInv, SetupIsSound, ProvisionTypeOK
<1>2. Seeding /\ last = Nothing /\ script # <<>>
  BY <1>1, AtSeed DEF At
<1>3. CASE rows = <<>>
  <2>1. Advance
    BY <1>3
  <2>2. Stage' = n + 1 /\ Seeding' /\ last' = Nothing
    BY <1>1, <1>2, <2>1, StageMoves DEF Advance
  <2>3. \A m \in 1 .. 6 : (Past(m)' <=> m <= n) /\ Left(m)' = {}
    BY <1>3, <2>2, SeqOfItsSet DEF Past, Left
  <2>4. ToSet(rows) = {}
    BY <1>3, SeqOfItsSet
  <2>5. QED
    BY <1>2, <2>2, <2>3, <2>4 DEF Onward
<1>4. CASE rows # <<>>
  <2>1. UNCHANGED <<cmd, script, last>>
    BY <1>4
  <2>2. Stage' = n /\ Seeding' /\ last' = Nothing
    BY <1>2, <2>1 DEF Stage, Seeding, SeedCommands
  <2>3. \A m \in 1 .. 6 : (Past(m)' <=> m <= n) /\ Left(m)' = IF m = n THEN ToSet(rows) ELSE {}
    BY <1>4, <2>2 DEF Past, Left
  <2>4. QED
    BY <1>2, <2>2, <2>3 DEF Onward
<1>5. QED
  BY <1>3, <1>4

LEMMA DrawMoves ==
    ASSUME SetupInv, SeedInv, NEW n \in 1 .. 6, Stage = n, NEW rows, Draw(rows)
    PROVE  /\ Onward(n, rows) /\ SeedingInv /\ UNCHANGED <<tables, due>> /\ due = <<>>
           /\ \A m \in 1 .. 6 : (Past(m) <=> m < n) /\ Left(m) = {}
<1>1. todo = <<>> /\ todo' = rows /\ UNCHANGED <<seeds, tables, due>>
      /\ IF rows = <<>> THEN Advance ELSE UNCHANGED <<cmd, script, last>>
  BY DEF Draw
<1>2. Onward(n, rows)
  BY <1>1, StepMoves
<1>3. SeedingInv /\ due = <<>>
  BY <1>1, <1>2 DEF Onward, SeedInv, SeedingInv, UsersInv
<1>4. \A m \in 1 .. 6 : (Past(m) <=> m < n) /\ Left(m) = {}
  BY <1>1, SeqOfItsSet DEF Past, Left
<1>5. QED
  BY <1>1, <1>2, <1>3, <1>4

\* Before a batch is inserted.
LEMMA InsertFrom ==
    ASSUME SetupInv, SeedInv, NEW n \in 1 .. 6, Stage = n, todo # <<>>
    PROVE  /\ SeedingInv
           /\ \A m \in 1 .. 6 : (Past(m) <=> m <= n) /\ Left(m) = IF m = n THEN ToSet(todo) ELSE {}
           /\ \A size \in Nat \ {0} :
                 /\ ToSet(todo) = ToSet(NextBatch(size)) \cup ToSet(AfterBatch(size))
                 /\ AfterBatch(size) \in Seq(ToSet(AfterBatch(size)))
                 /\ NextBatch(size) # <<>>
<1>1. RunInv /\ cmd \in Commands \cup {Nothing}
  BY DEF SetupInv, SetupIsSound, ProvisionTypeOK
<1>2. Seeding
  BY <1>1, AtSeed
<1>3. SeedingInv /\ todo \in Seq(ToSet(todo))
  BY <1>2 DEF SeedInv, SeedingInv
<1>4. \A m \in 1 .. 6 : (Past(m) <=> m <= n) /\ Left(m) = IF m = n THEN ToSet(todo) ELSE {}
  BY DEF Past, Left
<1>5. \A size \in Nat \ {0} :
         /\ ToSet(todo) = ToSet(NextBatch(size)) \cup ToSet(AfterBatch(size))
         /\ AfterBatch(size) \in Seq(ToSet(AfterBatch(size)))
         /\ NextBatch(size) # <<>>
  BY <1>3, Batches, SeqOfItsSet
<1>6. QED
  BY <1>3, <1>4, <1>5

LEMMA InsertMoves ==
    ASSUME SetupInv, SeedInv, NEW n \in 2 .. 6, Stage = n, NEW table, NEW size \in Nat \ {0},
           Insert(table, size), Exists(table)
    PROVE  /\ Onward(n, AfterBatch(size)) /\ SeedingInv /\ UNCHANGED drawn /\ due = <<>> /\ due' = <<>>
           /\ tables' = [tables EXCEPT ![table] = @ \cup ToSet(NextBatch(size))]
           /\ \A m \in 1 .. 6 : (Past(m) <=> m <= n) /\ Left(m) = IF m = n THEN ToSet(todo) ELSE {}
           /\ ToSet(todo) = ToSet(NextBatch(size)) \cup ToSet(AfterBatch(size))
           /\ AfterBatch(size) \in Seq(ToSet(AfterBatch(size)))
<1>1. /\ todo # <<>> /\ todo' = AfterBatch(size) /\ UNCHANGED <<seeds, due, drawn>>
      /\ tables' = [tables EXCEPT ![table] = @ \cup ToSet(NextBatch(size))]
      /\ IF AfterBatch(size) = <<>> THEN Advance ELSE UNCHANGED <<cmd, script, last>>
  BY DEF Insert
<1>2. Onward(n, AfterBatch(size))
  BY <1>1, StepMoves
<1>3. /\ SeedingInv
      /\ \A m \in 1 .. 6 : (Past(m) <=> m <= n) /\ Left(m) = IF m = n THEN ToSet(todo) ELSE {}
      /\ ToSet(todo) = ToSet(NextBatch(size)) \cup ToSet(AfterBatch(size))
      /\ AfterBatch(size) \in Seq(ToSet(AfterBatch(size)))
  BY <1>1, InsertFrom
<1>4. due = <<>>
  BY <1>3 DEF SeedingInv, UsersInv
<1>5. QED
  BY <1>1, <1>2, <1>3, <1>4

\* The seeding is at a table, and all that is left to show is about the tables.
LEMMA AtTable ==
    ASSUME NEW n \in 1 .. 6, NEW rows, Onward(n, rows), TablesInv', SeedingInv'
    PROVE  SeedInv'
<1>1. last' \notin {<<"seed", "ok">>, <<"all --seed", "ok">>}
  BY NothingApart DEF Onward
<1>2. SeedIsWhole'
  BY <1>1 DEF SeedIsWhole
<1>3. QED
  BY <1>2 DEF SeedInv, Onward

\* The seeding is over, or not yet at its tables: they are as before.
LEMMA Quiet ==
    ASSUME SeedInv, UNCHANGED <<seeds, tables>>, Forget,
           Seeding' => Seeding /\ Stage = 0 /\ Stage' \in {0, 1},
           SeedIsWhole'
    PROVE  SeedInv'
<1>1. todo' = <<>> /\ due' = <<>> /\ drawn' = NoRows
  BY DEF Forget
<1>2. TablesInv'
  BY <1>1 DEF SeedInv, TablesInv, RowTypes, Known, Ids, QuotaCountsGifs, SharesAmongFriends
<1>3. ASSUME Seeding' PROVE SeedingInv'
  <2>1. SeedingInv /\ \A m \in 1 .. 6 : ~Past(m)
    BY <1>3 DEF SeedInv, Past
  <2>2. \A m \in 1 .. 6 : ~Past(m)' /\ Left(m)' = {}
    BY <1>1, <1>3, SeqOfItsSet DEF Past, Left
  <2>3. Untouched'
    BY <2>1 DEF SeedingInv, Untouched, MyGifs, Me
  <2>4. UsersInv' /\ GifsInv' /\ QuotasInv' /\ FriendsInv' /\ SharesInv'
    BY <1>1, <2>2 DEF UsersInv, GifsInv, QuotasInv, FriendsInv, SharesInv
  <2>5. seeds' \in Nat \ {0} /\ todo' \in Seq(ToSet(todo'))
    BY <1>1, <2>1, SeqOfItsSet DEF SeedingInv
  <2>6. QED
    BY <2>3, <2>4, <2>5 DEF SeedingInv
<1>4. QED
  BY <1>1, <1>2, <1>3 DEF SeedInv

LEMMA Constants ==
    /\ Count \in Nat \ {0} /\ Batch \in Nat \ {0} /\ GifBatch \in Nat \ {0}
    /\ MaxGifs \in Nat \ {0} /\ MaxLinks \in Nat \ {0} /\ MaxSeeds \in Nat
  BY SeedAssumption

LEMMA MeFinite == IsFiniteSet(Me)
<1> DEFINE h == [i \in 1 .. Count |-> <<seeds, i>>]
<1>1. 1 \in Int /\ Count \in Int
  BY Constants
<1>2. IsFiniteSet(1 .. Count) /\ DOMAIN h = 1 .. Count /\ Me = {h[i] : i \in 1 .. Count}
  BY <1>1, FS_Interval DEF Me
<1> HIDE DEF h
<1>3. QED
  BY <1>2, Image

LEMMA MeKnown == ASSUME seeds \in Nat \ {0} PROVE Me \subseteq Known
  BY Constants DEF Me, Known

-----------------------------------------------------------------------------
(* Users and profiles.                                                     *)

LEMMA DrawUsersSeed == ASSUME SetupInv, SeedInv, DrawUsers PROVE SeedInv'
<1>1. Stage = 1
  BY Stages, Ranks DEF DrawUsers
<1>2. PICK again \in [1 .. Count -> 1 .. seeds] :
         LET rows == [i \in 1 .. Count |-> [id |-> <<seeds, i>>, email |-> <<again[i], i>>]]
         IN  Draw(rows) /\ drawn' = [drawn EXCEPT !.users = [i \in 1 .. Count |-> rows[i].id]]
  BY DEF DrawUsers
<1> DEFINE rows == [i \in 1 .. Count |-> [id |-> <<seeds, i>>, email |-> <<again[i], i>>]]
<1>3. Draw(rows) /\ drawn' = [drawn EXCEPT !.users = MyUsers]
  BY <1>2 DEF MyUsers
<1> HIDE DEF rows
<1>4. /\ Onward(1, rows) /\ SeedingInv /\ UNCHANGED <<tables, due>> /\ due = <<>>
      /\ \A m \in 1 .. 6 : (Past(m) <=> m < 1) /\ Left(m) = {}
  BY <1>1, <1>3, DrawMoves
<1>5. /\ ~Past(2) /\ ~Past(3) /\ ~Past(4)
      /\ Past(1)' /\ ~Past(2)' /\ ~Past(3)' /\ ~Past(4)' /\ ~Past(5)'
      /\ Left(1)' = ToSet(rows) /\ Left(5)' = {}
  BY <1>4 DEF Onward
<1>6. seeds \in Nat \ {0} /\ Untouched /\ RowTypes
  BY <1>4 DEF SeedingInv, SeedInv, TablesInv
<1>7. drawn'.users = MyUsers /\ DOMAIN drawn' = DOMAIN NoRows /\ UNCHANGED <<seeds, tables>>
  BY <1>3, <1>4, <1>6 DEF Onward, RowTypes, NoRows
<1>8. /\ rows \in Seq([id : Me, email : Known])
      /\ Me \subseteq {r.id : r \in ToSet(rows)}
  <2>1. \A i \in 1 .. Count : <<seeds, i>> \in Me /\ <<again[i], i>> \in Known
    BY <1>6, Constants DEF Me, Known
  <2>2. rows \in Seq([id : Me, email : Known])
    BY <2>1, Constants DEF rows
  <2>3. DOMAIN rows = 1 .. Count /\ \A i \in 1 .. Count : rows[i].id = <<seeds, i>>
    BY DEF rows
  <2>4. QED
    BY <2>2, <2>3 DEF Me, ToSet
<1>9. ToSet(rows) \subseteq [id : Me, email : Known] /\ rows \in Seq(ToSet(rows))
  <2>1. \A S : \A t \in Seq(S) : ToSet(t) \subseteq S
    BY DEF ToSet
  <2>2. QED
    BY <1>8, <2>1, SeqOfItsSet
<1>10. TablesInv'
  BY <1>7 DEF SeedInv, TablesInv, RowTypes, Known, Ids, QuotaCountsGifs, SharesAmongFriends
<1>11. UsersInv'
  <2>1. Me' = Me /\ Known' = Known /\ MyUsers' = MyUsers
    BY <1>7 DEF Me, Known, MyUsers
  <2>2. due' = <<>>
    BY <1>4
  <2>3. QED
    BY <1>5, <1>7, <1>8, <1>9, <2>1, <2>2 DEF UsersInv
<1>12. Untouched' /\ GifsInv' /\ QuotasInv' /\ FriendsInv' /\ SharesInv'
  <2>1. Untouched'
    BY <1>5, <1>6, <1>7 DEF Untouched, MyGifs, Me
  <2>2. QED
    BY <1>5, <2>1 DEF GifsInv, QuotasInv, FriendsInv, SharesInv
<1>13. todo' = rows
  BY <1>4 DEF Onward
<1>14. SeedingInv'
  BY <1>6, <1>7, <1>9, <1>11, <1>12, <1>13 DEF SeedingInv
<1>15. QED
  BY <1>4, <1>10, <1>14, AtTable

\* Between the users of a batch and their profiles.
LEMMA InsertUsersSeed == ASSUME SetupInv, SeedInv, InsertUsers, Exists("users") PROVE SeedInv'
<1>1. /\ At("users") /\ todo # <<>> /\ due = <<>>
      /\ tables' = [tables EXCEPT !.users = @ \cup
            {r \in ToSet(NextBatch(Batch)) : \A s \in tables.users : s.email # r.email}]
      /\ due' = NextBatch(Batch) /\ UNCHANGED <<cmd, script, last, todo, drawn, seeds>>
  BY DEF InsertUsers
<1>2. Stage = 1
  BY <1>1, Stages, Ranks
<1>3. /\ SeedingInv
      /\ \A m \in 1 .. 6 : (Past(m) <=> m <= 1) /\ Left(m) = IF m = 1 THEN ToSet(todo) ELSE {}
      /\ ToSet(NextBatch(Batch)) \subseteq ToSet(todo) /\ NextBatch(Batch) # <<>>
  BY <1>1, <1>2, InsertFrom, Constants
<1>4. RowTypes /\ UsersInv /\ Untouched /\ seeds \in Nat \ {0} /\ Past(1) /\ Left(1) = ToSet(todo) /\ Left(5) = {}
  BY <1>3 DEF SeedingInv, SeedInv, TablesInv
<1>5. ToSet(NextBatch(Batch)) \subseteq [id : Known, email : Known]
  BY <1>3, <1>4, MeKnown DEF UsersInv
<1>6. /\ tables.users \subseteq tables'.users /\ tables'.users \subseteq [id : Known, email : Known]
      /\ tables'.profiles = tables.profiles /\ tables'.gifs = tables.gifs /\ tables'.quota = tables.quota
      /\ tables'.friendships = tables.friendships /\ tables'.shares = tables.shares /\ DOMAIN tables' = Tables
  BY <1>1, <1>4, <1>5 DEF RowTypes, Tables
<1>7. Ids \subseteq Ids' /\ Known' = Known /\ Me' = Me /\ MyUsers' = MyUsers
  BY <1>1, <1>6 DEF Ids, Known, Me, MyUsers
<1>8. TablesInv'
  <2>1. RowTypes'
    <3>1. /\ tables'.profiles \subseteq Ids' /\ tables'.gifs \subseteq [owner : Ids', nr : Nat]
          /\ \A s \in tables'.shares : [owner |-> s.owner, nr |-> s.nr] \in tables'.gifs
      BY <1>4, <1>6, <1>7 DEF RowTypes
    <3>2. QED
      BY <1>1, <1>4, <1>6, <1>7, <3>1 DEF RowTypes
  <2>2. QuotaCountsGifs' /\ SharesAmongFriends'
    BY <1>6 DEF QuotaCountsGifs, SharesAmongFriends, SeedInv, TablesInv
  <2>3. QED
    BY <2>1, <2>2 DEF TablesInv
<1>9. Stage' = Stage /\ \A m \in 1 .. 6 : (Past(m)' <=> Past(m)) /\ Left(m)' = Left(m)
  BY <1>1 DEF Past, Left, Stage
<1>10. UsersInv'
  <2>1. NextBatch(Batch)' = NextBatch(Batch)
    BY <1>1 DEF NextBatch
  <2>2. due' # <<>> => Stage' = 1 /\ todo' # <<>> /\ due' = NextBatch(Batch)'
    BY <1>1, <1>2, <1>9, <2>1
  <2>3. Left(1)' = Left(1)
    BY <1>9
  <2>4. QED
    BY <1>1, <1>4, <1>6, <1>7, <2>2, <2>3 DEF UsersInv
<1>11. Untouched'
  BY <1>1, <1>3, <1>4, <1>6, <1>9 DEF Untouched, MyGifs, Me
<1>12. GifsInv' /\ QuotasInv' /\ FriendsInv' /\ SharesInv'
  <2>1. ~Past(2)' /\ ~Past(3)' /\ ~Past(4)' /\ Left(5)' = {}
    BY <1>3, <1>9
  <2>2. QED
    BY <2>1 DEF GifsInv, QuotasInv, FriendsInv, SharesInv
<1>13. SeedingInv'
  BY <1>1, <1>3, <1>4, <1>10, <1>11, <1>12 DEF SeedingInv
<1>14. Seeding /\ Seeding' /\ Stage' # 0 /\ last' = last /\ last = Nothing
  <2>1. RunInv /\ cmd \in Commands \cup {Nothing}
    BY DEF SetupInv, SetupIsSound, ProvisionTypeOK
  <2>2. Seeding /\ last = Nothing
    BY <1>2, <2>1, AtSeed
  <2>3. Stage' # 0
    BY <1>2, <1>9
  <2>4. Seeding' /\ last' = last
    BY <1>1, <2>2 DEF Seeding, SeedCommands
  <2>5. QED
    BY <2>2, <2>3, <2>4
<1>15. Onward(1, todo)
  BY <1>1, <1>3, <1>9, <1>14 DEF Onward
<1>16. QED
  BY <1>8, <1>13, <1>15, AtTable

LEMMA InsertProfilesSeed ==
    ASSUME SetupInv, SeedInv, InsertProfiles, Exists("profiles") /\ {r.id : r \in ToSet(due)} \subseteq Ids
    PROVE  SeedInv'
<1> DEFINE profiles == {r.id : r \in ToSet(due)}
<1>1. /\ At("users") /\ due # <<>> /\ profiles \subseteq Ids
      /\ tables' = [tables EXCEPT !.profiles = @ \cup profiles]
      /\ todo' = AfterBatch(Batch) /\ due' = <<>> /\ UNCHANGED <<drawn, seeds>>
      /\ IF AfterBatch(Batch) = <<>> THEN Advance ELSE UNCHANGED <<cmd, script, last>>
  BY DEF InsertProfiles
<1>2. Stage = 1 /\ RunInv /\ cmd \in Commands \cup {Nothing}
  BY <1>1, Stages, Ranks DEF SetupInv, SetupIsSound, ProvisionTypeOK
<1>3. todo # <<>> /\ due = NextBatch(Batch)
  BY <1>1, <1>2, AtSeed DEF SeedInv, SeedingInv, UsersInv
<1>4. /\ SeedingInv
      /\ \A m \in 1 .. 6 : (Past(m) <=> m <= 1) /\ Left(m) = IF m = 1 THEN ToSet(todo) ELSE {}
      /\ ToSet(todo) = ToSet(due) \cup ToSet(AfterBatch(Batch))
      /\ AfterBatch(Batch) \in Seq(ToSet(AfterBatch(Batch)))
  BY <1>2, <1>3, InsertFrom, Constants
<1>5. Onward(1, AfterBatch(Batch))
  BY <1>1, <1>2, StepMoves
<1>6. /\ RowTypes /\ UsersInv /\ Untouched /\ seeds \in Nat \ {0} /\ Past(1) /\ Left(1) = ToSet(todo)
      /\ ~Past(2) /\ ~Past(3) /\ ~Past(4)
      /\ Left(1)' = ToSet(AfterBatch(Batch)) /\ Left(5)' = {}
      /\ ~Past(2)' /\ ~Past(3)' /\ ~Past(4)'
  BY <1>4, <1>5 DEF SeedingInv, SeedInv, TablesInv, Onward
<1>7. /\ tables'.users = tables.users /\ tables'.profiles = tables.profiles \cup profiles
      /\ tables'.gifs = tables.gifs /\ tables'.quota = tables.quota
      /\ tables'.friendships = tables.friendships /\ tables'.shares = tables.shares /\ DOMAIN tables' = Tables
  BY <1>1, <1>6 DEF RowTypes, Tables
<1>8. Ids' = Ids /\ Known' = Known /\ Me' = Me /\ MyUsers' = MyUsers
  BY <1>1, <1>7 DEF Ids, Known, Me, MyUsers
<1>9. TablesInv'
  <2>1. tables'.profiles \subseteq Ids'
    BY <1>1, <1>6, <1>7, <1>8 DEF RowTypes
  <2>2. RowTypes'
    BY <1>1, <1>6, <1>7, <1>8, <2>1 DEF RowTypes
  <2>3. QuotaCountsGifs' /\ SharesAmongFriends'
    BY <1>7 DEF QuotaCountsGifs, SharesAmongFriends, SeedInv, TablesInv
  <2>4. QED
    BY <2>2, <2>3 DEF TablesInv
<1>10. UsersInv'
  <2>1. /\ drawn.users = MyUsers /\ ToSet(todo) \subseteq [id : Me, email : Known]
        /\ Me \subseteq (Ids \cap tables.profiles) \cup {r.id : r \in ToSet(todo)}
    BY <1>6 DEF UsersInv
  <2>2. Left(1)' \subseteq [id : Me', email : Known']
    BY <1>4, <1>6, <1>8, <2>1
  <2>3. Me \subseteq (Ids \cap tables'.profiles) \cup {r.id : r \in ToSet(AfterBatch(Batch))}
    BY <1>1, <1>4, <1>7, <2>1
  <2>4. due' = <<>> /\ drawn'.users = MyUsers'
    BY <1>1, <1>8, <2>1
  <2>5. QED
    BY <1>6, <1>8, <2>2, <2>3, <2>4 DEF UsersInv
<1>11. Untouched'
  BY <1>6, <1>7, <1>8 DEF Untouched, MyGifs
<1>12. GifsInv' /\ QuotasInv' /\ FriendsInv' /\ SharesInv'
  BY <1>6 DEF GifsInv, QuotasInv, FriendsInv, SharesInv
<1>13. SeedingInv'
  BY <1>1, <1>4, <1>6, <1>10, <1>11, <1>12 DEF SeedingInv
<1>14. QED
  BY <1>5, <1>9, <1>13, AtTable

-----------------------------------------------------------------------------
(* Gifs, and the quotas that count them.                                   *)

LEMMA GifsAre ==
    ASSUME drawn.users = MyUsers, NEW num \in Nums
    PROVE  /\ IsFiniteSet(Gifs(num)) /\ Gifs(num) \subseteq [owner : Me, nr : Nat]
           /\ \A i \in 1 .. Count : /\ Cardinality({g \in Gifs(num) : g.owner = <<seeds, i>>}) = num[i]
                                    /\ [owner |-> <<seeds, i>>, nr |-> 1] \in Gifs(num)
<1> DEFINE Gif(i, n) == [owner |-> <<seeds, i>>, nr |-> n]
<1>1. \A g : g \in Gifs(num) <=> \E i \in 1 .. Count : \E n \in 1 .. num[i] : g = Gif(i, n)
  BY DEF Gifs, MyUsers
<1>2. \A i \in 1 .. Count : num[i] \in 1 .. MaxGifs
  BY DEF Nums
<1>3. IsFiniteSet(Gifs(num))
  <2> DEFINE P == (1 .. Count) \X (1 .. MaxGifs)
             f == [x \in P |-> Gif(x[1], x[2])]
  <2>1. IsFiniteSet(P)
    <3>1. 1 \in Int /\ Count \in Int /\ MaxGifs \in Int
      BY Constants
    <3>2. IsFiniteSet(1 .. Count) /\ IsFiniteSet(1 .. MaxGifs)
      BY <3>1, FS_Interval
    <3>3. QED
      BY <3>2, FS_Product
  <2>2. ASSUME NEW g \in Gifs(num) PROVE \E x \in P : f[x] = g
    <3>0. PICK i \in 1 .. Count : \E n \in 1 .. num[i] : g = Gif(i, n)
      BY <1>1, <2>2
    <3>1. PICK n \in 1 .. num[i] : g = Gif(i, n)
      BY <3>0
    <3>2. <<i, n>> \in P
      BY <1>2, <3>1, Constants
    <3>3. f[<<i, n>>] = g
      BY <3>1, <3>2
    <3>4. QED
      BY <3>2, <3>3
  <2>3. DOMAIN f = P
    OBVIOUS
  <2> HIDE DEF f, P
  <2>4. IsFiniteSet({f[x] : x \in P})
    BY <2>1, <2>3, Image
  <2>5. Gifs(num) \subseteq {f[x] : x \in P}
    BY <2>2
  <2>6. QED
    BY <2>4, <2>5, FS_Subset
<1>4. Gifs(num) \subseteq [owner : Me, nr : Nat]
  <2>1. \A i \in 1 .. Count : \A n \in 1 .. num[i] : Gif(i, n) \in [owner : Me, nr : Nat]
    BY <1>2, Constants DEF Me
  <2>2. QED
    BY <1>1, <2>1
<1>5. ASSUME NEW i \in 1 .. Count
      PROVE  /\ Cardinality({g \in Gifs(num) : g.owner = <<seeds, i>>}) = num[i]
             /\ [owner |-> <<seeds, i>>, nr |-> 1] \in Gifs(num)
  <2> DEFINE T == {g \in Gifs(num) : g.owner = <<seeds, i>>}
             b == [n \in 1 .. num[i] |-> Gif(i, n)]
  <2>1. \A n \in 1 .. num[i] : Gif(i, n) \in T
    BY <1>1
  <2>2. \A g \in T : \E n \in 1 .. num[i] : g = Gif(i, n)
    <3>1. SUFFICES ASSUME NEW g \in T PROVE \E n \in 1 .. num[i] : g = Gif(i, n)
      OBVIOUS
    <3>2. PICK j \in 1 .. Count : \E n \in 1 .. num[j] : g = Gif(j, n)
      BY <1>1, <3>1
    <3>3. <<seeds, j>> = <<seeds, i>>
      BY <3>1, <3>2
    <3>4. j = i
      BY <3>3
    <3>5. QED
      BY <3>2, <3>4
  <2>3. b \in [1 .. num[i] -> T] /\ \A n \in 1 .. num[i] : b[n] = Gif(i, n)
    BY <2>1
  <2>4. \A m, n \in 1 .. num[i] : Gif(i, m) = Gif(i, n) => m = n
    <3>1. \A n : Gif(i, n).nr = n
      OBVIOUS
    <3>2. QED
      BY <3>1
  <2> HIDE DEF T, b, Gif
  <2>5. b \in Bijection(1 .. num[i], T)
    BY <2>2, <2>3, <2>4 DEF Bijection, Injection, Surjection, IsInjective
  <2>6. num[i] \in Nat /\ num[i] >= 1
    BY <1>2, Constants
  <2>7. IsFiniteSet(1 .. num[i]) /\ Cardinality(1 .. num[i]) = num[i]
    <3>1. ASSUME NEW k \in Nat, k >= 1 PROVE IsFiniteSet(1 .. k) /\ Cardinality(1 .. k) = k
      <4>1. IsFiniteSet(1 .. k) /\ Cardinality(1 .. k) = IF 1 > k THEN 0 ELSE k - 1 + 1
        BY FS_Interval
      <4>2. QED
        BY <3>1, <4>1
    <3>2. QED
      BY <2>6, <3>1
  <2>8. Cardinality(T) = num[i]
    BY <2>5, <2>7, FS_Bijection DEF ExistsBijection
  <2>9. Gif(i, 1) \in Gifs(num)
    BY <1>1, <2>6
  <2>10. QED
    BY <2>8, <2>9 DEF T, Gif
<1>6. QED
  BY <1>3, <1>4, <1>5

\* A seeding that is past the users.
LEMMA UsersStay ==
    ASSUME UsersInv, Past(1), Left(1) = {}, due = <<>>,
           due' = <<>>, Left(1)' = {}, drawn'.users = drawn.users, UNCHANGED seeds,
           tables'.users = tables.users, tables'.profiles = tables.profiles
    PROVE  UsersInv'
<1>1. Me' = Me /\ MyUsers' = MyUsers /\ Ids' = Ids
  BY DEF Me, MyUsers, Ids
<1>2. drawn'.users = MyUsers' /\ Me' \subseteq Ids' \cap tables'.profiles
  BY <1>1 DEF UsersInv
<1>3. QED
  BY <1>2 DEF UsersInv

LEMMA GifsStay ==
    ASSUME GifsInv, Past(2), Left(2) = {}, Left(2)' = {},
           drawn'.users = drawn.users, drawn'.stats = drawn.stats, drawn'.gifs = drawn.gifs,
           UNCHANGED seeds, tables'.gifs = tables.gifs
    PROVE  GifsInv'
  BY DEF GifsInv, Gifs, Nums, MyGifs, Me

LEMMA DrawGifsSeed ==
    ASSUME SetupInv, SeedInv, At("gifs"), NEW num \in Nums, Draw(SetToSeq(Gifs(num))),
           drawn' = [drawn EXCEPT !.gifs = SetToSeq(Gifs(num)), !.stats = num]
    PROVE  SeedInv'
<1> DEFINE rows == SetToSeq(Gifs(num))
<1>1. Stage = 2
  BY Stages, Ranks
<1>2. /\ Onward(2, rows) /\ SeedingInv /\ UNCHANGED <<tables, due>> /\ due = <<>>
      /\ \A m \in 1 .. 6 : (Past(m) <=> m < 2) /\ Left(m) = {}
  BY <1>1, DrawMoves
<1>3. /\ Past(1) /\ ~Past(2) /\ ~Past(3) /\ ~Past(4) /\ Left(1) = {}
      /\ ~Past(3)' /\ ~Past(4)' /\ Left(1)' = {} /\ Left(2)' = ToSet(rows) /\ Left(5)' = {}
      /\ todo' = rows /\ UNCHANGED <<seeds, tables>>
  BY <1>2 DEF Onward
<1>4. seeds \in Nat \ {0} /\ Untouched /\ UsersInv /\ RowTypes
  BY <1>2 DEF SeedingInv, SeedInv, TablesInv
<1>5. /\ drawn'.stats = num /\ drawn'.users = drawn.users /\ drawn'.gifs = rows /\ DOMAIN drawn' = DOMAIN NoRows
  BY <1>4 DEF RowTypes, NoRows
<1>6. drawn.users = MyUsers /\ MyGifs = {}
  BY <1>3, <1>4 DEF UsersInv, Untouched
<1>7. rows \in Seq(ToSet(rows)) /\ ToSet(rows) = Gifs(num)
  BY <1>6, GifsAre, SetToSeqIsTheSet, SeqOfItsSet
<1> HIDE DEF rows
<1>8. TablesInv'
  BY <1>3, <1>5 DEF SeedInv, TablesInv, RowTypes, Known, Ids, QuotaCountsGifs, SharesAmongFriends
<1>9. UsersInv'
  BY <1>2, <1>3, <1>4, <1>5, UsersStay
<1>10. Untouched'
  BY <1>2, <1>3, <1>4 DEF Untouched, MyGifs, Me, Onward
<1>11. GifsInv'
  <2>1. Gifs(num)' = Gifs(num) /\ MyGifs' = {}
    BY <1>3, <1>5, <1>6 DEF Gifs, MyGifs, Me
  <2>2. Gifs(drawn.stats)' = Gifs(num)
    BY <1>3, <1>5 DEF Gifs
  <2>3. drawn'.stats \in Nums' /\ Left(2)' = Gifs(num) /\ drawn'.gifs \in Seq(Gifs(num))
    BY <1>3, <1>5, <1>7 DEF Nums
  <2>4. QED
    BY <2>1, <2>2, <2>3 DEF GifsInv
<1>12. QuotasInv' /\ FriendsInv' /\ SharesInv'
  BY <1>3 DEF QuotasInv, FriendsInv, SharesInv
<1>13. SeedingInv'
  BY <1>3, <1>4, <1>7, <1>9, <1>10, <1>11, <1>12 DEF SeedingInv
<1>14. QED
  BY <1>2, <1>8, <1>13, AtTable

LEMMA InsertGifsSeed ==
    ASSUME SetupInv, SeedInv, At("gifs"), Insert("gifs", GifBatch), Exists("gifs") PROVE SeedInv'
<1> DEFINE next == ToSet(NextBatch(GifBatch))
           rest == ToSet(AfterBatch(GifBatch))
<1>1. Stage = 2
  BY Stages, Ranks
<1>2. /\ Onward(2, AfterBatch(GifBatch)) /\ SeedingInv /\ UNCHANGED drawn /\ due = <<>> /\ due' = <<>>
      /\ tables' = [tables EXCEPT !.gifs = @ \cup next]
      /\ \A m \in 1 .. 6 : (Past(m) <=> m <= 2) /\ Left(m) = IF m = 2 THEN ToSet(todo) ELSE {}
      /\ ToSet(todo) = next \cup rest
      /\ AfterBatch(GifBatch) \in Seq(rest)
  BY <1>1, InsertMoves, Constants
<1> HIDE DEF next, rest
<1>3. /\ Past(1) /\ Past(2) /\ ~Past(3) /\ ~Past(4) /\ Left(1) = {} /\ Left(2) = next \cup rest
      /\ ~Past(3)' /\ ~Past(4)' /\ Left(1)' = {} /\ Left(2)' = rest /\ Left(5)' = {}
      /\ todo' = AfterBatch(GifBatch) /\ UNCHANGED seeds
  BY <1>2 DEF Onward, rest
<1>4. /\ seeds \in Nat \ {0} /\ Untouched /\ UsersInv /\ GifsInv
      /\ RowTypes /\ QuotaCountsGifs /\ SharesAmongFriends
  BY <1>2 DEF SeedingInv, SeedInv, TablesInv
<1>5. /\ tables'.gifs = tables.gifs \cup next
      /\ tables'.users = tables.users /\ tables'.profiles = tables.profiles /\ tables'.quota = tables.quota
      /\ tables'.friendships = tables.friendships /\ tables'.shares = tables.shares /\ DOMAIN tables' = Tables
  BY <1>2, <1>4 DEF RowTypes, Tables
<1>6. /\ drawn.users = MyUsers /\ Me \subseteq Ids /\ drawn.gifs \in Seq(Gifs(drawn.stats))
      /\ drawn.stats \in Nums /\ MyGifs \cup next \cup rest = Gifs(drawn.stats)
  BY <1>3, <1>4 DEF UsersInv, GifsInv
<1>7. next \subseteq [owner : Me, nr : Nat]
  BY <1>6, GifsAre
<1>8. Ids' = Ids /\ Known' = Known /\ Me' = Me
  BY <1>3, <1>5 DEF Ids, Known, Me
<1>9. TablesInv'
  <2>1. tables'.gifs \subseteq [owner : Ids', nr : Nat]
    BY <1>4, <1>5, <1>6, <1>7, <1>8 DEF RowTypes
  <2>2. RowTypes'
    BY <1>2, <1>3, <1>4, <1>5, <1>8, <2>1 DEF RowTypes
  <2>3. ASSUME NEW q \in tables'.quota PROVE q.count = Cardinality({g \in tables'.gifs : g.owner = q.user})
    <3>1. q \in tables.quota /\ q.user \notin Me
      BY <1>3, <1>4, <1>5, <2>3 DEF Untouched
    <3>2. {g \in tables'.gifs : g.owner = q.user} = {g \in tables.gifs : g.owner = q.user}
      BY <1>5, <1>7, <3>1
    <3>3. QED
      BY <1>4, <3>1, <3>2 DEF QuotaCountsGifs
  <2>4. QuotaCountsGifs' /\ SharesAmongFriends'
    BY <1>4, <1>5, <2>3 DEF QuotaCountsGifs, SharesAmongFriends
  <2>5. QED
    BY <2>2, <2>4 DEF TablesInv
<1>10. UsersInv'
  BY <1>2, <1>3, <1>4, <1>5, UsersStay
<1>11. Untouched'
  <2>1. Past(2)'
    BY <1>2 DEF Onward
  <2>2. QED
    BY <1>3, <1>4, <1>5, <1>8, <2>1 DEF Untouched
<1>12. GifsInv'
  <2>1. MyGifs' = MyGifs \cup next
    BY <1>5, <1>7, <1>8 DEF MyGifs
  <2>2. Gifs(drawn.stats)' = Gifs(drawn.stats) /\ drawn'.stats \in Nums'
    BY <1>2, <1>6 DEF Gifs, Nums
  <2>3. QED
    BY <1>2, <1>3, <1>6, <2>1, <2>2 DEF GifsInv
<1>13. QuotasInv' /\ FriendsInv' /\ SharesInv'
  BY <1>3 DEF QuotasInv, FriendsInv, SharesInv
<1>14. SeedingInv'
  BY <1>2, <1>3, <1>4, <1>10, <1>11, <1>12, <1>13 DEF SeedingInv, rest
<1>15. QED
  BY <1>2, <1>9, <1>14, AtTable

LEMMA DrawQuotasSeed ==
    ASSUME SetupInv, SeedInv, At("quota"), UNCHANGED drawn,
           Draw([i \in 1 .. Count |-> [user |-> drawn.users[i], count |-> drawn.stats[i]]])
    PROVE  SeedInv'
<1> DEFINE rows == [i \in 1 .. Count |-> [user |-> drawn.users[i], count |-> drawn.stats[i]]]
<1>1. Stage = 3
  BY Stages, Ranks
<1>2. /\ Onward(3, rows) /\ SeedingInv /\ UNCHANGED <<tables, due>> /\ due = <<>>
      /\ \A m \in 1 .. 6 : (Past(m) <=> m < 3) /\ Left(m) = {}
  BY <1>1, DrawMoves
<1>3. /\ Past(1) /\ Past(2) /\ ~Past(3) /\ ~Past(4) /\ Left(1) = {} /\ Left(2) = {}
      /\ Past(2)' /\ ~Past(4)' /\ Left(1)' = {} /\ Left(2)' = {} /\ Left(3)' = ToSet(rows) /\ Left(5)' = {}
      /\ Past(3)' /\ todo' = rows /\ UNCHANGED <<seeds, tables>>
  BY <1>2 DEF Onward
<1>4. seeds \in Nat \ {0} /\ Untouched /\ UsersInv /\ GifsInv
  BY <1>2 DEF SeedingInv
<1>5. drawn.users = MyUsers
  BY <1>3, <1>4 DEF UsersInv
<1>6. ToSet(rows) = MyQuotas /\ rows \in Seq(ToSet(rows))
  <2>1. \A i \in 1 .. Count : rows[i] = MyQuota(i)
    BY <1>5 DEF MyUsers, MyQuota
  <2>2. DOMAIN rows = 1 .. Count
    OBVIOUS
  <2>3. rows \in Seq(MyQuotas)
    <3>1. rows = [i \in 1 .. Count |-> MyQuota(i)]
      BY <2>1, <2>2
    <3>2. [i \in 1 .. Count |-> MyQuota(i)] \in Seq(MyQuotas)
      <4>1. \A S : \A t \in [1 .. Count -> S] : t \in Seq(S)
        BY Constants
      <4>2. [i \in 1 .. Count |-> MyQuota(i)] \in [1 .. Count -> MyQuotas]
        BY DEF MyQuotas
      <4>3. QED
        BY <4>1, <4>2
    <3>3. QED
      BY <3>1, <3>2
  <2> HIDE DEF rows
  <2>4. ToSet(rows) = MyQuotas
    BY <2>1, <2>2 DEF ToSet, MyQuotas
  <2>5. QED
    BY <2>3, <2>4, SeqOfItsSet
<1> HIDE DEF rows
<1>7. TablesInv'
  BY <1>3 DEF SeedInv, TablesInv, RowTypes, Known, Ids, QuotaCountsGifs, SharesAmongFriends
<1>8. UsersInv'
  BY <1>2, <1>3, <1>4, UsersStay
<1>9. Untouched'
  BY <1>3, <1>4 DEF Untouched, MyGifs, Me
<1>10. GifsInv'
  BY <1>3, <1>4, GifsStay
<1>11. QuotasInv'
  <2>1. MyQuotas' = MyQuotas
    BY <1>3 DEF MyQuotas, MyQuota
  <2>2. QED
    BY <1>3, <1>6, <2>1 DEF QuotasInv
<1>12. FriendsInv' /\ SharesInv'
  BY <1>3 DEF FriendsInv, SharesInv
<1>13. SeedingInv'
  BY <1>3, <1>4, <1>6, <1>8, <1>9, <1>10, <1>11, <1>12 DEF SeedingInv
<1>14. QED
  BY <1>2, <1>7, <1>13, AtTable

LEMMA InsertQuotasSeed ==
    ASSUME SetupInv, SeedInv, At("quota"), Insert("quota", Batch), Exists("quota") PROVE SeedInv'
<1> DEFINE next == ToSet(NextBatch(Batch))
           rest == ToSet(AfterBatch(Batch))
<1>1. Stage = 3
  BY Stages, Ranks
<1>2. /\ Onward(3, AfterBatch(Batch)) /\ SeedingInv /\ UNCHANGED drawn /\ due = <<>> /\ due' = <<>>
      /\ tables' = [tables EXCEPT !.quota = @ \cup next]
      /\ \A m \in 1 .. 6 : (Past(m) <=> m <= 3) /\ Left(m) = IF m = 3 THEN ToSet(todo) ELSE {}
      /\ ToSet(todo) = next \cup rest
      /\ AfterBatch(Batch) \in Seq(rest)
  BY <1>1, InsertMoves, Constants
<1> HIDE DEF next, rest
<1>3. /\ Past(1) /\ Past(2) /\ Past(3) /\ ~Past(4) /\ Left(1) = {} /\ Left(2) = {} /\ Left(3) = next \cup rest
      /\ Past(2)' /\ Past(3)' /\ ~Past(4)' /\ Left(1)' = {} /\ Left(2)' = {} /\ Left(3)' = rest /\ Left(5)' = {}
      /\ todo' = AfterBatch(Batch) /\ UNCHANGED seeds
  BY <1>2 DEF Onward, rest
<1>4. /\ seeds \in Nat \ {0} /\ Untouched /\ UsersInv /\ GifsInv /\ QuotasInv
      /\ RowTypes /\ QuotaCountsGifs /\ SharesAmongFriends
  BY <1>2 DEF SeedingInv, SeedInv, TablesInv
<1>5. /\ tables'.quota = tables.quota \cup next
      /\ tables'.users = tables.users /\ tables'.profiles = tables.profiles /\ tables'.gifs = tables.gifs
      /\ tables'.friendships = tables.friendships /\ tables'.shares = tables.shares /\ DOMAIN tables' = Tables
  BY <1>2, <1>4 DEF RowTypes, Tables
<1>6. /\ drawn.users = MyUsers /\ drawn.stats \in Nums /\ MyGifs = Gifs(drawn.stats)
      /\ next \cup rest \subseteq MyQuotas /\ MyQuotas \subseteq tables.quota \cup next \cup rest
  BY <1>3, <1>4 DEF UsersInv, GifsInv, QuotasInv
<1>7. \A i \in 1 .. Count : /\ MyQuota(i) \in [user : Known, count : Nat] /\ MyQuota(i).user \in Me
                            /\ MyQuota(i).count = Cardinality({g \in tables.gifs : g.owner = MyQuota(i).user})
  <2>1. SUFFICES ASSUME NEW i \in 1 .. Count
                 PROVE  /\ MyQuota(i) \in [user : Known, count : Nat] /\ MyQuota(i).user \in Me
                        /\ MyQuota(i).count = Cardinality({g \in tables.gifs : g.owner = MyQuota(i).user})
    OBVIOUS
  <2>2. /\ MyQuota(i).user = <<seeds, i>> /\ <<seeds, i>> \in Me /\ <<seeds, i>> \in Known
        /\ MyQuota(i).count = drawn.stats[i] /\ drawn.stats[i] \in Nat
    <3>1. <<seeds, i>> \in Me
      BY DEF Me
    <3>2. drawn.stats[i] \in Nat
      BY <1>6, Constants DEF Nums
    <3>3. QED
      BY <1>4, <3>1, <3>2, MeKnown DEF MyQuota
  <2>3. {g \in tables.gifs : g.owner = <<seeds, i>>} = {g \in Gifs(drawn.stats) : g.owner = <<seeds, i>>}
    BY <1>6, <2>2 DEF MyGifs
  <2>4. Cardinality({g \in Gifs(drawn.stats) : g.owner = <<seeds, i>>}) = drawn.stats[i]
    BY <1>6, GifsAre
  <2>5. MyQuota(i) \in [user : Known, count : Nat]
    BY <2>2 DEF MyQuota
  <2>6. QED
    BY <2>2, <2>3, <2>4, <2>5
<1>8. /\ next \subseteq [user : Known, count : Nat] /\ \A q \in next : q.user \in Me
      /\ \A q \in next : q.count = Cardinality({g \in tables.gifs : g.owner = q.user})
  BY <1>6, <1>7 DEF MyQuotas
<1>9. Ids' = Ids /\ Known' = Known /\ Me' = Me
  BY <1>3, <1>5 DEF Ids, Known, Me
<1>10. TablesInv'
  <2>1. tables'.quota \subseteq [user : Known', count : Nat]
    BY <1>4, <1>5, <1>8, <1>9 DEF RowTypes
  <2>2. RowTypes'
    BY <1>2, <1>3, <1>4, <1>5, <1>9, <2>1 DEF RowTypes
  <2>3. QuotaCountsGifs'
    BY <1>4, <1>5, <1>8 DEF QuotaCountsGifs
  <2>4. SharesAmongFriends'
    BY <1>4, <1>5 DEF SharesAmongFriends
  <2>5. QED
    BY <2>2, <2>3, <2>4 DEF TablesInv
<1>11. UsersInv' /\ GifsInv'
  BY <1>2, <1>3, <1>4, <1>5, UsersStay, GifsStay
<1>12. Untouched'
  BY <1>3, <1>4, <1>5, <1>9 DEF Untouched
<1>13. QuotasInv'
  <2>1. MyQuotas' = MyQuotas
    BY <1>2, <1>3 DEF MyQuotas, MyQuota
  <2>2. QED
    BY <1>3, <1>5, <1>6, <2>1 DEF QuotasInv
<1>14. FriendsInv' /\ SharesInv'
  BY <1>3 DEF FriendsInv, SharesInv
<1>15. SeedingInv'
  BY <1>2, <1>3, <1>4, <1>11, <1>12, <1>13, <1>14 DEF SeedingInv, rest
<1>16. QED
  BY <1>2, <1>10, <1>15, AtTable

-----------------------------------------------------------------------------
(* Friendships, and the shares among friends.                              *)

LEMMA QuotasStay ==
    ASSUME QuotasInv, Past(3), Left(3) = {}, Left(3)' = {},
           drawn'.stats = drawn.stats, UNCHANGED seeds, tables'.quota = tables.quota
    PROVE  QuotasInv'
  BY DEF QuotasInv, MyQuotas, MyQuota

FriendRow(p, accepted) == [pair |-> p, accepted |-> p \in accepted]

LEMMA DrawFriendsSeed ==
    ASSUME SetupInv, SeedInv, At("friendships"), NEW pairs \in PairSets, NEW accepted \in SUBSET pairs,
           Draw(SetToSeq({FriendRow(p, accepted) : p \in pairs})), drawn' = [drawn EXCEPT !.friends = accepted]
    PROVE  SeedInv'
<1> DEFINE R    == {FriendRow(p, accepted) : p \in pairs}
           rows == SetToSeq(R)
<1>1. Stage = 4
  BY Stages, Ranks
<1>2. /\ Onward(4, rows) /\ SeedingInv /\ UNCHANGED <<tables, due>> /\ due = <<>>
      /\ \A m \in 1 .. 6 : (Past(m) <=> m < 4) /\ Left(m) = {}
  BY <1>1, DrawMoves
<1>3. /\ Past(1) /\ Past(2) /\ Past(3) /\ ~Past(4) /\ Left(1) = {} /\ Left(2) = {} /\ Left(3) = {}
      /\ Past(2)' /\ Past(3)' /\ Past(4)'
      /\ Left(1)' = {} /\ Left(2)' = {} /\ Left(3)' = {} /\ Left(4)' = ToSet(rows) /\ Left(5)' = {}
      /\ todo' = rows /\ UNCHANGED <<seeds, tables>>
  BY <1>2 DEF Onward
<1>4. /\ seeds \in Nat \ {0} /\ Untouched /\ UsersInv /\ GifsInv /\ QuotasInv /\ RowTypes /\ SharesAmongFriends
  BY <1>2 DEF SeedingInv, SeedInv, TablesInv
<1>5. /\ drawn'.friends = accepted /\ drawn'.users = drawn.users /\ drawn'.stats = drawn.stats
      /\ drawn'.gifs = drawn.gifs /\ DOMAIN drawn' = DOMAIN NoRows
  BY <1>4 DEF RowTypes, NoRows
<1>6. ToSet(drawn.users) = Me
  <2>1. drawn.users = MyUsers
    BY <1>3, <1>4 DEF UsersInv
  <2>2. QED
    BY <2>1 DEF MyUsers, Me, ToSet
<1>7. /\ pairs \subseteq Me \X Me
      /\ \A p \in pairs : p[1] # p[2] /\ <<p[2], p[1]>> \notin pairs
  BY <1>6 DEF PairSets
<1>8. IsFiniteSet(R)
  <2> DEFINE f == [p \in pairs |-> FriendRow(p, accepted)]
  <2>2. IsFiniteSet(pairs)
    <3>1. IsFiniteSet(Me \X Me)
      BY MeFinite, FS_Product
    <3>2. QED
      BY <1>7, <3>1, FS_Subset
  <2>3. DOMAIN f = pairs /\ R = {f[p] : p \in pairs}
    OBVIOUS
  <2> HIDE DEF f, R
  <2>4. QED
    BY <2>2, <2>3, Image
<1>9. rows \in Seq(ToSet(rows)) /\ ToSet(rows) = R
  BY <1>8, SetToSeqIsTheSet, SeqOfItsSet
<1> HIDE DEF rows
<1>10. \A p \in pairs : /\ FriendRow(p, accepted).pair = p
                        /\ FriendRow(p, accepted) \in [pair : Me \X Me, accepted : BOOLEAN]
  BY <1>7 DEF FriendRow
<1>11. \A f \in R : f.pair \in pairs /\ f = FriendRow(f.pair, accepted)
  BY <1>10
<1>12. R \subseteq [pair : Me \X Me, accepted : BOOLEAN] /\ accepted \subseteq Me \X Me
  BY <1>7, <1>10
<1>13. \A p \in accepted : Accepted(p) \in R
  BY DEF Accepted, FriendRow
<1> HIDE DEF R
<1>14. OneRowEach(tables.friendships \cup R)
  <2>1. SUFFICES ASSUME NEW f \in tables.friendships \cup R, NEW g \in tables.friendships \cup R,
                        f.pair \in {g.pair, <<g.pair[2], g.pair[1]>>}
                 PROVE  f = g
    BY DEF OneRowEach
  <2>2. \A h \in tables.friendships : h.pair[1] \notin Me
    BY <1>3, <1>4 DEF Untouched
  <2>3. \A h \in R : h.pair[1] \in Me /\ h.pair[2] \in Me
    BY <1>7, <1>11
  <2>4. CASE f \in tables.friendships /\ g \in tables.friendships
    BY <1>4, <2>1, <2>4 DEF SharesAmongFriends
  <2>5. CASE f \in tables.friendships /\ g \in R
    BY <2>1, <2>2, <2>3, <2>5
  <2>6. CASE f \in R /\ g \in tables.friendships
    BY <2>1, <2>2, <2>3, <2>6
  <2>7. CASE f \in R /\ g \in R
    <3>1. f.pair \in pairs /\ g.pair \in pairs /\ f = FriendRow(f.pair, accepted) /\ g = FriendRow(g.pair, accepted)
      BY <1>11, <2>7
    <3>2. f.pair = g.pair
      BY <1>7, <2>1, <3>1
    <3>3. QED
      BY <3>1, <3>2
  <2>8. QED
    BY <2>4, <2>5, <2>6, <2>7
<1>15. TablesInv'
  BY <1>3, <1>5 DEF SeedInv, TablesInv, RowTypes, Known, Ids, QuotaCountsGifs, SharesAmongFriends
<1>16. UsersInv' /\ GifsInv' /\ QuotasInv'
  BY <1>2, <1>3, <1>4, <1>5, UsersStay, GifsStay, QuotasStay
<1>17. Untouched' /\ SharesInv'
  BY <1>3, <1>4 DEF Untouched, SharesInv, MyGifs, Me
<1>18. FriendsInv'
  <2>1. Me' = Me
    BY <1>3 DEF Me
  <2>2. QED
    BY <1>3, <1>5, <1>9, <1>12, <1>13, <1>14, <2>1 DEF FriendsInv, OneRowEach, Accepted
<1>19. SeedingInv'
  BY <1>3, <1>4, <1>9, <1>16, <1>17, <1>18 DEF SeedingInv
<1>20. QED
  BY <1>2, <1>15, <1>19, AtTable

LEMMA InsertFriendsSeed ==
    ASSUME SetupInv, SeedInv, At("friendships"), Insert("friendships", Batch), Exists("friendships") PROVE SeedInv'
<1> DEFINE next == ToSet(NextBatch(Batch))
           rest == ToSet(AfterBatch(Batch))
<1>1. Stage = 4
  BY Stages, Ranks
<1>2. /\ Onward(4, AfterBatch(Batch)) /\ SeedingInv /\ UNCHANGED drawn /\ due = <<>> /\ due' = <<>>
      /\ tables' = [tables EXCEPT !.friendships = @ \cup next]
      /\ \A m \in 1 .. 6 : (Past(m) <=> m <= 4) /\ Left(m) = IF m = 4 THEN ToSet(todo) ELSE {}
      /\ ToSet(todo) = next \cup rest
      /\ AfterBatch(Batch) \in Seq(rest)
  BY <1>1, InsertMoves, Constants
<1> HIDE DEF next, rest
<1>3. /\ Past(1) /\ Past(2) /\ Past(3) /\ Past(4) /\ Left(1) = {} /\ Left(2) = {} /\ Left(3) = {}
      /\ Left(4) = next \cup rest
      /\ Past(2)' /\ Past(3)' /\ Past(4)'
      /\ Left(1)' = {} /\ Left(2)' = {} /\ Left(3)' = {} /\ Left(4)' = rest /\ Left(5)' = {}
      /\ todo' = AfterBatch(Batch) /\ UNCHANGED seeds
  BY <1>2 DEF Onward, rest
<1>4. /\ seeds \in Nat \ {0} /\ Untouched /\ UsersInv /\ GifsInv /\ QuotasInv /\ FriendsInv
      /\ RowTypes /\ QuotaCountsGifs /\ SharesAmongFriends
  BY <1>2 DEF SeedingInv, SeedInv, TablesInv
<1>5. /\ tables'.friendships = tables.friendships \cup next
      /\ tables'.users = tables.users /\ tables'.profiles = tables.profiles /\ tables'.gifs = tables.gifs
      /\ tables'.quota = tables.quota /\ tables'.shares = tables.shares /\ DOMAIN tables' = Tables
  BY <1>2, <1>4 DEF RowTypes, Tables
<1>6. /\ next \cup rest \subseteq [pair : Me \X Me, accepted : BOOLEAN]
      /\ OneRowEach(tables'.friendships \cup rest)
      /\ drawn.friends \subseteq Me \X Me
      /\ \A p \in drawn.friends : Accepted(p) \in tables'.friendships \cup rest
  <2>1. tables.friendships \cup Left(4) = tables'.friendships \cup rest
    BY <1>3, <1>5
  <2>2. QED
    BY <1>3, <1>4, <2>1 DEF FriendsInv
<1>7. Ids' = Ids /\ Known' = Known /\ Me' = Me
  BY <1>3, <1>5 DEF Ids, Known, Me
<1>8. TablesInv'
  <2>1. tables'.friendships \subseteq [pair : Known' \X Known', accepted : BOOLEAN]
    <3>1. next \subseteq [pair : Known \X Known, accepted : BOOLEAN]
      BY <1>4, <1>6, MeKnown
    <3>2. QED
      BY <1>4, <1>5, <1>7, <3>1 DEF RowTypes
  <2>2. RowTypes'
    BY <1>2, <1>3, <1>4, <1>5, <1>7, <2>1 DEF RowTypes
  <2>3. QuotaCountsGifs'
    BY <1>4, <1>5 DEF QuotaCountsGifs
  <2>4. SharesAmongFriends'
    BY <1>4, <1>5, <1>6 DEF SharesAmongFriends, OneRowEach
  <2>5. QED
    BY <2>2, <2>3, <2>4 DEF TablesInv
<1>9. UsersInv' /\ GifsInv' /\ QuotasInv'
  BY <1>2, <1>3, <1>4, <1>5, UsersStay, GifsStay, QuotasStay
<1>10. Untouched' /\ SharesInv'
  BY <1>3 DEF Untouched, SharesInv
<1>11. FriendsInv'
  BY <1>2, <1>3, <1>6, <1>7 DEF FriendsInv, OneRowEach, Accepted
<1>12. SeedingInv'
  BY <1>2, <1>3, <1>4, <1>9, <1>10, <1>11 DEF SeedingInv, rest
<1>13. QED
  BY <1>2, <1>8, <1>12, AtTable

LEMMA FriendsStay ==
    ASSUME FriendsInv, Past(4), Left(4) = {}, Left(4)' = {},
           drawn'.friends = drawn.friends, UNCHANGED seeds, tables'.friendships = tables.friendships
    PROVE  FriendsInv'
  BY DEF FriendsInv, OneRowEach, Accepted, Me

LEMMA DrawSharesSeed ==
    ASSUME SetupInv, SeedInv, At("shares"), UNCHANGED drawn,
           Draw(SetToSeq({ShareWith(p) : p \in drawn.friends}))
    PROVE  SeedInv'
<1> DEFINE R    == {ShareWith(p) : p \in drawn.friends}
           rows == SetToSeq(R)
<1>1. Stage = 5
  BY Stages, Ranks
<1>2. /\ Onward(5, rows) /\ SeedingInv /\ UNCHANGED <<tables, due>> /\ due = <<>>
      /\ \A m \in 1 .. 6 : (Past(m) <=> m < 5) /\ Left(m) = {}
  BY <1>1, DrawMoves
<1>3. /\ Past(1) /\ Past(2) /\ Past(3) /\ Past(4)
      /\ Left(1) = {} /\ Left(2) = {} /\ Left(3) = {} /\ Left(4) = {}
      /\ Past(2)' /\ Past(3)' /\ Past(4)'
      /\ Left(1)' = {} /\ Left(2)' = {} /\ Left(3)' = {} /\ Left(4)' = {} /\ Left(5)' = ToSet(rows)
      /\ todo' = rows /\ UNCHANGED <<seeds, tables>>
  BY <1>2 DEF Onward
<1>4. seeds \in Nat \ {0} /\ UsersInv /\ GifsInv /\ QuotasInv /\ FriendsInv
  BY <1>2 DEF SeedingInv
<1>5. IsFiniteSet(R)
  <2> DEFINE f == [p \in drawn.friends |-> ShareWith(p)]
  <2>2. IsFiniteSet(drawn.friends)
    <3>1. IsFiniteSet(Me \X Me) /\ drawn.friends \subseteq Me \X Me
      BY <1>3, <1>4, MeFinite, FS_Product DEF FriendsInv
    <3>2. QED
      BY <3>1, FS_Subset
  <2>3. DOMAIN f = drawn.friends /\ R = {f[p] : p \in drawn.friends}
    OBVIOUS
  <2> HIDE DEF f, R
  <2>4. QED
    BY <2>2, <2>3, Image
<1>6. rows \in Seq(ToSet(rows)) /\ ToSet(rows) = R
  BY <1>5, SetToSeqIsTheSet, SeqOfItsSet
<1>7. TablesInv'
  BY <1>3 DEF SeedInv, TablesInv, RowTypes, Known, Ids, QuotaCountsGifs, SharesAmongFriends
<1>8. UsersInv' /\ GifsInv' /\ QuotasInv' /\ FriendsInv'
  BY <1>2, <1>3, <1>4, UsersStay, GifsStay, QuotasStay, FriendsStay
<1>9. Untouched' /\ SharesInv'
  BY <1>3, <1>6 DEF Untouched, SharesInv, ShareWith
<1> HIDE DEF rows
<1>10. SeedingInv'
  BY <1>3, <1>4, <1>6, <1>8, <1>9 DEF SeedingInv
<1>11. QED
  BY <1>2, <1>7, <1>10, AtTable

LEMMA InsertSharesSeed ==
    ASSUME SetupInv, SeedInv, At("shares"), Insert("shares", Batch), Exists("shares") PROVE SeedInv'
<1> DEFINE next == ToSet(NextBatch(Batch))
           rest == ToSet(AfterBatch(Batch))
<1>1. Stage = 5
  BY Stages, Ranks
<1>2. /\ Onward(5, AfterBatch(Batch)) /\ SeedingInv /\ UNCHANGED drawn /\ due = <<>> /\ due' = <<>>
      /\ tables' = [tables EXCEPT !.shares = @ \cup next]
      /\ \A m \in 1 .. 6 : (Past(m) <=> m <= 5) /\ Left(m) = IF m = 5 THEN ToSet(todo) ELSE {}
      /\ ToSet(todo) = next \cup rest
      /\ AfterBatch(Batch) \in Seq(rest)
  BY <1>1, InsertMoves, Constants
<1> HIDE DEF next, rest
<1>3. /\ Past(1) /\ Past(2) /\ Past(3) /\ Past(4)
      /\ Left(1) = {} /\ Left(2) = {} /\ Left(3) = {} /\ Left(4) = {} /\ Left(5) = next \cup rest
      /\ Past(2)' /\ Past(3)' /\ Past(4)'
      /\ Left(1)' = {} /\ Left(2)' = {} /\ Left(3)' = {} /\ Left(4)' = {} /\ Left(5)' = rest
      /\ todo' = AfterBatch(Batch) /\ UNCHANGED seeds
  BY <1>2 DEF Onward, rest
<1>4. /\ seeds \in Nat \ {0} /\ UsersInv /\ GifsInv /\ QuotasInv /\ FriendsInv /\ SharesInv
      /\ RowTypes /\ QuotaCountsGifs /\ SharesAmongFriends
  BY <1>2 DEF SeedingInv, SeedInv, TablesInv
<1>5. /\ tables'.shares = tables.shares \cup next
      /\ tables'.users = tables.users /\ tables'.profiles = tables.profiles /\ tables'.gifs = tables.gifs
      /\ tables'.quota = tables.quota /\ tables'.friendships = tables.friendships /\ DOMAIN tables' = Tables
  BY <1>2, <1>4 DEF RowTypes, Tables
<1>6. \A s \in next : /\ [owner |-> s.owner, nr |-> s.nr] \in tables.gifs
                      /\ [pair |-> <<s.owner, s.with>>, accepted |-> TRUE] \in tables.friendships
  <2>1. SUFFICES ASSUME NEW s \in next
                 PROVE  /\ [owner |-> s.owner, nr |-> s.nr] \in tables.gifs
                        /\ [pair |-> <<s.owner, s.with>>, accepted |-> TRUE] \in tables.friendships
    OBVIOUS
  <2>2. PICK p \in drawn.friends : s = ShareWith(p)
    BY <1>3, <1>4 DEF SharesInv
  <2>3. p \in Me \X Me /\ Accepted(p) \in tables.friendships
    BY <1>3, <1>4 DEF FriendsInv
  <2>4. s.owner = p[1] /\ s.nr = 1 /\ s.with = p[2] /\ <<p[1], p[2]>> = p /\ p[1] \in Me
    BY <2>2, <2>3 DEF ShareWith
  <2>5. /\ drawn.users = MyUsers /\ drawn.stats \in Nums /\ MyGifs = Gifs(drawn.stats)
    BY <1>3, <1>4 DEF UsersInv, GifsInv
  <2>6. \A i \in 1 .. Count : [owner |-> <<seeds, i>>, nr |-> 1] \in tables.gifs
    BY <2>5, GifsAre DEF MyGifs
  <2>7. [owner |-> s.owner, nr |-> s.nr] \in tables.gifs
    BY <2>4, <2>6 DEF Me
  <2>8. [pair |-> <<s.owner, s.with>>, accepted |-> TRUE] = Accepted(p)
    BY <2>4 DEF Accepted
  <2>9. QED
    BY <2>3, <2>7, <2>8
<1>7. Ids' = Ids /\ Known' = Known /\ Me' = Me
  BY <1>3, <1>5 DEF Ids, Known, Me
<1>8. TablesInv'
  <2>1. \A s \in tables'.shares : [owner |-> s.owner, nr |-> s.nr] \in tables'.gifs
    BY <1>4, <1>5, <1>6 DEF RowTypes
  <2>2. RowTypes'
    BY <1>2, <1>3, <1>4, <1>5, <1>7, <2>1 DEF RowTypes
  <2>3. QuotaCountsGifs'
    BY <1>4, <1>5 DEF QuotaCountsGifs
  <2>4. SharesAmongFriends'
    BY <1>4, <1>5, <1>6 DEF SharesAmongFriends
  <2>5. QED
    BY <2>2, <2>3, <2>4 DEF TablesInv
<1>9. UsersInv' /\ GifsInv' /\ QuotasInv' /\ FriendsInv'
  BY <1>2, <1>3, <1>4, <1>5, UsersStay, GifsStay, QuotasStay, FriendsStay
<1>10. Untouched' /\ SharesInv'
  BY <1>2, <1>3, <1>4 DEF Untouched, SharesInv, ShareWith
<1>11. SeedingInv'
  BY <1>2, <1>3, <1>4, <1>9, <1>10 DEF SeedingInv, rest
<1>12. QED
  BY <1>2, <1>8, <1>11, AtTable

\* Links are not looked at again.
LEMMA DrawTokensSeed ==
    ASSUME SetupInv, SeedInv, At("share_tokens"), UNCHANGED drawn,
           NEW n \in 0 .. MaxLinks, n <= Len(drawn.gifs), Draw(SubSeq(drawn.gifs, 1, n))
    PROVE  SeedInv'
<1> DEFINE rows == SubSeq(drawn.gifs, 1, n)
<1>1. Stage = 6
  BY Stages, Ranks
<1>2. /\ Onward(6, rows) /\ SeedingInv /\ UNCHANGED <<tables, due>> /\ due = <<>>
      /\ \A m \in 1 .. 6 : (Past(m) <=> m < 6) /\ Left(m) = {}
  BY <1>1, DrawMoves
<1>3. /\ Past(1) /\ Past(2) /\ Past(3) /\ Past(4)
      /\ Left(1) = {} /\ Left(2) = {} /\ Left(3) = {} /\ Left(4) = {}
      /\ Past(2)' /\ Past(3)' /\ Past(4)'
      /\ Left(1)' = {} /\ Left(2)' = {} /\ Left(3)' = {} /\ Left(4)' = {} /\ Left(5)' = {}
      /\ todo' = rows /\ UNCHANGED <<seeds, tables>>
  BY <1>2 DEF Onward
<1>4. seeds \in Nat \ {0} /\ UsersInv /\ GifsInv /\ QuotasInv /\ FriendsInv
  BY <1>2 DEF SeedingInv
<1>5. rows \in Seq(ToSet(rows))
  <2>1. drawn.gifs \in Seq(Gifs(drawn.stats)) /\ n \in Nat
    BY <1>3, <1>4, Constants DEF GifsInv
  <2>2. \A S : \A t \in Seq(S) : \A m \in Nat : m <= Len(t) => SubSeq(t, 1, m) \in Seq(S)
    OBVIOUS
  <2>3. rows \in Seq(Gifs(drawn.stats))
    BY <2>1, <2>2
  <2>4. QED
    BY <2>3, SeqOfItsSet
<1> HIDE DEF rows
<1>6. TablesInv'
  BY <1>3 DEF SeedInv, TablesInv, RowTypes, Known, Ids, QuotaCountsGifs, SharesAmongFriends
<1>7. UsersInv' /\ GifsInv' /\ QuotasInv' /\ FriendsInv'
  BY <1>2, <1>3, <1>4, UsersStay, GifsStay, QuotasStay, FriendsStay
<1>8. Untouched' /\ SharesInv'
  BY <1>3 DEF Untouched, SharesInv
<1>9. SeedingInv'
  BY <1>3, <1>4, <1>5, <1>7, <1>8 DEF SeedingInv
<1>10. QED
  BY <1>2, <1>6, <1>9, AtTable

LEMMA InsertTokensSeed ==
    ASSUME SetupInv, SeedInv, At("share_tokens"), Insert("share_tokens", Batch), Exists("share_tokens")
    PROVE  SeedInv'
<1> DEFINE next == ToSet(NextBatch(Batch))
           rest == ToSet(AfterBatch(Batch))
<1>1. Stage = 6
  BY Stages, Ranks
<1>2. /\ Onward(6, AfterBatch(Batch)) /\ SeedingInv /\ UNCHANGED drawn /\ due = <<>> /\ due' = <<>>
      /\ tables' = [tables EXCEPT !.share_tokens = @ \cup next]
      /\ \A m \in 1 .. 6 : (Past(m) <=> m <= 6) /\ Left(m) = IF m = 6 THEN ToSet(todo) ELSE {}
      /\ AfterBatch(Batch) \in Seq(rest)
  BY <1>1, InsertMoves, Constants
<1> HIDE DEF next, rest
<1>3. /\ Past(1) /\ Past(2) /\ Past(3) /\ Past(4)
      /\ Left(1) = {} /\ Left(2) = {} /\ Left(3) = {} /\ Left(4) = {}
      /\ Past(2)' /\ Past(3)' /\ Past(4)'
      /\ Left(1)' = {} /\ Left(2)' = {} /\ Left(3)' = {} /\ Left(4)' = {} /\ Left(5)' = {}
      /\ todo' = AfterBatch(Batch) /\ UNCHANGED seeds
  BY <1>2 DEF Onward
<1>4. /\ seeds \in Nat \ {0} /\ UsersInv /\ GifsInv /\ QuotasInv /\ FriendsInv
      /\ RowTypes /\ QuotaCountsGifs /\ SharesAmongFriends
  BY <1>2 DEF SeedingInv, SeedInv, TablesInv
<1>5. /\ tables'.users = tables.users /\ tables'.profiles = tables.profiles /\ tables'.gifs = tables.gifs
      /\ tables'.quota = tables.quota /\ tables'.friendships = tables.friendships
      /\ tables'.shares = tables.shares /\ DOMAIN tables' = Tables
  BY <1>2, <1>4 DEF RowTypes, Tables
<1>6. Ids' = Ids /\ Known' = Known
  BY <1>3, <1>5 DEF Ids, Known
<1>7. TablesInv'
  <2>1. RowTypes'
    BY <1>2, <1>3, <1>4, <1>5, <1>6 DEF RowTypes
  <2>2. QuotaCountsGifs' /\ SharesAmongFriends'
    BY <1>4, <1>5 DEF QuotaCountsGifs, SharesAmongFriends
  <2>3. QED
    BY <2>1, <2>2 DEF TablesInv
<1>8. UsersInv' /\ GifsInv' /\ QuotasInv' /\ FriendsInv'
  BY <1>2, <1>3, <1>4, <1>5, UsersStay, GifsStay, QuotasStay, FriendsStay
<1>9. Untouched' /\ SharesInv'
  BY <1>3 DEF Untouched, SharesInv
<1>10. SeedingInv'
  BY <1>2, <1>3, <1>4, <1>8, <1>9 DEF SeedingInv, rest
<1>11. QED
  BY <1>2, <1>7, <1>10, AtTable

-----------------------------------------------------------------------------
(* All steps.                                                              *)

Ended == {<<"seed", "ok">>, <<"all --seed", "ok">>}

LEMMA FailedSeed ==
    ASSUME SeedInv, Exit("failed"), UNCHANGED <<seeds, tables>>, Forget PROVE SeedInv'
<1>1. ~Seeding'
  BY NothingApart DEF Exit, Seeding, SeedCommands, Commands
<1>2. SeedIsWhole'
  BY DEF Exit, SeedIsWhole
<1>3. QED
  BY <1>1, <1>2, Quiet

\* At the end of its script a seeding has all its rows.
LEMMA FinishSeed ==
    ASSUME SetupInv, SeedInv, Finish, UNCHANGED <<seeds, tables>>, Forget PROVE SeedInv'
<1>1. script = <<>> /\ cmd' = Nothing /\ last' = <<cmd, "ok">>
  BY DEF Finish, Exit
<1>2. ~Seeding'
  BY <1>1, NothingApart DEF Seeding, SeedCommands, Commands
<1>3. ASSUME last' \in Ended PROVE \A i \in 1 .. Count : /\ <<seeds, i>> \in Ids \cap tables.profiles
                                                         /\ \E q \in tables.quota : q.user = <<seeds, i>>
  <2>1. Seeding
    BY <1>1, <1>3 DEF Seeding, SeedCommands, Ended
  <2>2. SeedingInv /\ Past(1) /\ Past(3) /\ Left(1) = {} /\ Left(3) = {}
    BY <1>1, <2>1, Stages DEF SeedInv, Past, Left
  <2>3. Me \subseteq Ids \cap tables.profiles /\ MyQuotas \subseteq tables.quota
    BY <2>2 DEF SeedingInv, UsersInv, QuotasInv
  <2>4. \A i \in 1 .. Count : <<seeds, i>> \in Me /\ MyQuota(i) \in MyQuotas /\ MyQuota(i).user = <<seeds, i>>
    BY DEF Me, MyQuotas, MyQuota
  <2>5. QED
    BY <2>3, <2>4
<1>4. SeedIsWhole'
  BY <1>3 DEF SeedIsWhole, Ended, Ids
<1>5. QED
  BY <1>2, <1>4, Quiet

\* A statement of the setup, in front of the seed's tables.
LEMMA SetupStep ==
    ASSUME SetupInv, SeedInv, UNCHANGED <<seeds, tables>>, Forget, Stage = 0, script # <<>>, cmd \in Commands,
           \/ Advance
           \/ Exit("failed")
           \/ At("migrate") /\ script' = <<"applied">> \o script /\ UNCHANGED <<cmd, last>>
    PROVE  SeedInv'
<1>1. RunInv /\ last = Nothing
  BY ProvisionAssumption DEF SetupInv, RunInv, Running
<1>2. CASE Exit("failed")
  BY <1>2, FailedSeed
<1>3. CASE Advance
  <2>1. ASSUME Seeding' PROVE Seeding /\ Stage' \in {0, 1}
    <3>1. Seeding
      BY <1>3, <2>1 DEF Advance, Seeding, SeedCommands
    <3>2. QED
      BY <1>1, <1>3, <3>1, StageMoves
  <2>2. last' = Nothing
    BY <1>1, <1>3 DEF Advance
  <2>3. SeedIsWhole'
    BY <2>2, NothingApart DEF SeedIsWhole
  <2>4. QED
    BY <2>1, <2>3, Quiet
<1>4. CASE At("migrate") /\ script' = <<"applied">> \o script /\ UNCHANGED <<cmd, last>>
  <2>1. script \in Seq(Steps)
    <3>1. PICK k \in Nat : ScriptAt(cmd, k)
      BY ProvisionAssumption DEF SetupInv, RunInv, Running
    <3>2. Rest(cmd, k) \in Seq(Steps)
      BY <3>1, Rests DEF ScriptAt
    <3>3. script # <<"applied">> \o Rest(cmd, k)
      BY <1>4, <3>2, AppliedFirst DEF At
    <3>4. QED
      BY <3>1, <3>2, <3>3 DEF ScriptAt
  <2>2. script' # <<>> /\ Head(script') = "applied"
    BY <1>4, <2>1, AppliedFirst
  <2>3. Stage' = 0
    BY <2>2, SetupRanks DEF Stage
  <2>4. Seeding' => Seeding
    BY <1>4 DEF Seeding, SeedCommands
  <2>5. SeedIsWhole'
    BY <1>1, <1>4, NothingApart DEF SeedIsWhole
  <2>6. QED
    BY <2>3, <2>4, <2>5, Quiet
<1>5. QED
  BY <1>2, <1>3, <1>4

\* The rows of earlier seedings are not of this one.
LEMMA LaunchSeedSeed ==
    ASSUME SetupInv, SeedInv, NEW c \in SeedCommands, LaunchSeed(c) PROVE SeedInv'
<1>1. /\ ~Running /\ cmd' = c /\ script' = Script(c) /\ last' = Nothing
      /\ seeds < MaxSeeds /\ seeds' = seeds + 1 /\ UNCHANGED <<tables, todo, due, drawn>>
  BY DEF LaunchSeed, Launch
<1>2. todo = <<>> /\ due = <<>> /\ drawn = NoRows
  <2>1. ~Seeding
    BY <1>1, NothingApart DEF Running, Seeding, SeedCommands, Commands
  <2>2. QED
    BY <2>1 DEF SeedInv
<1>3. TablesInv /\ RowTypes /\ seeds \in Nat
  BY Constants DEF SeedInv, TablesInv, RowTypes
<1>4. seeds' \in Nat \ {0} /\ seeds' \in 0 .. MaxSeeds /\ Known \subseteq Known'
  BY <1>1, <1>3, Constants DEF Known, RowTypes
<1>5. \A u \in Known : u \notin Me'
  <2>1. \A i, j \in 1 .. Count : \A n \in 1 .. seeds : <<n, i>> # <<seeds', j>>
    BY <1>1, <1>3
  <2>2. QED
    BY <2>1 DEF Known, Me
<1>6. Ids \subseteq Known /\ Ids' = Ids
  BY <1>1, <1>3 DEF RowTypes, Ids
<1>7. Stage' = 0
  <2>1. InOrder(Script(c)) /\ Len(Script(c)) \in Nat \ {0}
    BY SeedPlaces DEF InOrder, SeedCommands
  <2>2. c \in Commands /\ Script(c) \in Seq(Steps)
    <3>1. c \in Commands
      BY DEF Commands, SeedCommands
    <3>2. QED
      BY <3>1, Scripts
  <2>3. Script(c) # <<>> /\ Head(Script(c)) = Script(c)[1]
    BY <2>1, <2>2
  <2>4. QED
    BY <1>1, <2>1, <2>3 DEF Stage, InOrder
<1>8. TablesInv'
  <2>1. /\ tables'.users \subseteq [id : Known', email : Known'] /\ tables'.quota \subseteq [user : Known', count : Nat]
        /\ tables'.friendships \subseteq [pair : Known' \X Known', accepted : BOOLEAN]
    <3>1. /\ tables.users \subseteq [id : Known, email : Known] /\ tables.quota \subseteq [user : Known, count : Nat]
          /\ tables.friendships \subseteq [pair : Known \X Known, accepted : BOOLEAN]
      BY <1>3 DEF RowTypes
    <3>2. QED
      BY <1>1, <1>4, <3>1
  <2>2. RowTypes'
    BY <1>1, <1>3, <1>4, <1>6, <2>1 DEF RowTypes
  <2>3. QuotaCountsGifs' /\ SharesAmongFriends'
    BY <1>1, <1>3 DEF TablesInv, QuotaCountsGifs, SharesAmongFriends
  <2>4. QED
    BY <2>2, <2>3 DEF TablesInv
<1>9. Untouched'
  <2>1. MyGifs' = {}
    BY <1>1, <1>3, <1>5, <1>6 DEF MyGifs, RowTypes
  <2>2. \A q \in tables'.quota : q.user \notin Me'
    BY <1>1, <1>3, <1>5 DEF RowTypes
  <2>3. \A f \in tables'.friendships : f.pair[1] \notin Me'
    BY <1>1, <1>3, <1>5 DEF RowTypes
  <2>4. QED
    BY <2>1, <2>2, <2>3 DEF Untouched
<1>10. SeedingInv'
  <2>1. \A m \in 1 .. 6 : ~Past(m)' /\ Left(m)' = {}
    BY <1>7 DEF Past, Left
  <2>2. UsersInv' /\ GifsInv' /\ QuotasInv' /\ FriendsInv' /\ SharesInv'
    BY <1>1, <1>2, <2>1 DEF UsersInv, GifsInv, QuotasInv, FriendsInv, SharesInv
  <2>3. QED
    BY <1>1, <1>2, <1>4, <1>9, <2>2, SeqOfItsSet DEF SeedingInv
<1>11. SeedIsWhole'
  BY <1>1, NothingApart DEF SeedIsWhole
<1>12. QED
  BY <1>1, <1>2, <1>8, <1>10, <1>11 DEF SeedInv

LEMMA ProvisionSeed ==
    ASSUME SetupInv, SeedInv, ProvisionNext, Forget, UNCHANGED <<seeds, tables>> PROVE SeedInv'
<1>1. cmd \in Commands \cup {Nothing} /\ RunInv /\ (script # <<>> => cmd \in Commands)
  BY DEF SetupInv, SetupIsSound, ProvisionTypeOK, RunInv, Running
<1>2. ASSUME NEW step \in SetupSteps \cup {"applied"}, At(step) PROVE Stage = 0 /\ script # <<>> /\ cmd \in Commands
  BY <1>1, <1>2, Stages, SetupRanks DEF At
<1>3. \A step \in Provides \cup {"owner", "migrate"} : step \in SetupSteps
  BY DEF SetupSteps
<1>4. ASSUME NEW c \in Commands \ SeedCommands, Launch(c) PROVE SeedInv'
  <2>1. cmd' = c /\ last' = Nothing
    BY <1>4 DEF Launch
  <2>2. ~Seeding' /\ SeedIsWhole'
    BY <1>4, <2>1, NothingApart DEF Seeding, SeedIsWhole
  <2>3. QED
    BY <2>2, Quiet
<1>5. {"all", "migration", "minio", "rabbitmq"} \subseteq Commands \ SeedCommands
  BY DEF Commands, SeedCommands
<1>6. CASE Place
  BY <1>2, <1>3, <1>6, SetupStep DEF Place
<1>7. CASE SetOwner
  BY <1>2, <1>3, <1>7, SetupStep DEF SetOwner
<1>8. CASE Run
  <2>1. At("migrate") /\ (\/ Advance
                          \/ Exit("failed")
                          \/ script' = <<"applied">> \o script /\ UNCHANGED <<cmd, last>>)
    BY <1>8 DEF Run
  <2>2. QED
    BY <1>2, <1>3, <2>1, SetupStep
<1>9. CASE Applied
  BY <1>2, <1>9, SetupStep DEF Applied
<1>10. CASE Finish
  BY <1>10, FinishSeed
<1>11. QED
  BY <1>4, <1>5, <1>6, <1>7, <1>8, <1>9, <1>10 DEF ProvisionNext

LEMMA MinioSeed == ASSUME SetupInv, SeedInv, SeedMinioStorage PROVE SeedInv'
<1>1. At("seed.gif") /\ UNCHANGED seedVars /\ (Advance \/ Exit("failed"))
  BY DEF SeedMinioStorage
<1>2. Stage = 0 /\ script # <<>>
  BY <1>1, Stages, SetupRanks DEF At
<1>3. cmd \in Commands
  BY <1>2 DEF SetupInv, SetupIsSound, ProvisionTypeOK, RunInv, Running
<1>4. Forget /\ UNCHANGED <<seeds, tables>>
  BY <1>1, <1>2 DEF SeedInv, Forget, seedVars
<1>5. QED
  BY <1>1, <1>2, <1>3, <1>4, SetupStep

LEMMA TablesSeed ==
    ASSUME SetupInv, SeedInv,
           SeedUsersAndProfiles \/ SeedGifs \/ SeedQuotas \/ SeedFriendships \/ SeedShares \/ SeedShareTokens
    PROVE  SeedInv'
<1>1. ASSUME NEW table, NEW size, Insert(table, size), ~Exists(table) PROVE SeedInv'
  BY <1>1, FailedSeed DEF Insert
<1>2. CASE SeedUsersAndProfiles
  <2>1. ASSUME InsertUsers, ~Exists("users") PROVE SeedInv'
    BY <2>1, FailedSeed DEF InsertUsers
  <2>2. ASSUME InsertProfiles, ~(Exists("profiles") /\ {r.id : r \in ToSet(due)} \subseteq Ids) PROVE SeedInv'
    BY <2>2, FailedSeed DEF InsertProfiles
  <2>3. QED
    BY <1>2, <2>1, <2>2, DrawUsersSeed, InsertUsersSeed, InsertProfilesSeed DEF SeedUsersAndProfiles
<1>3. CASE SeedGifs
  <2>1. ASSUME NEW num \in [1 .. Count -> 1 .. MaxGifs], At("gifs"),
               LET gifs == SetToSeq(Gifs(num))
               IN  Draw(gifs) /\ drawn' = [drawn EXCEPT !.gifs = gifs, !.stats = num]
        PROVE  SeedInv'
    <3>1. num \in Nums
      BY DEF Nums
    <3>2. QED
      BY <2>1, <3>1, DrawGifsSeed
  <2>2. QED
    BY <1>1, <1>3, <2>1, InsertGifsSeed DEF SeedGifs
<1>4. CASE SeedQuotas
  BY <1>1, <1>4, DrawQuotasSeed, InsertQuotasSeed DEF SeedQuotas
<1>5. CASE SeedFriendships
  <2>1. ASSUME NEW pairs \in PairSets, NEW accepted \in SUBSET pairs, At("friendships"),
               Draw(SetToSeq({[pair |-> p, accepted |-> p \in accepted] : p \in pairs})),
               drawn' = [drawn EXCEPT !.friends = accepted]
        PROVE  SeedInv'
    <3>1. {FriendRow(p, accepted) : p \in pairs} = {[pair |-> p, accepted |-> p \in accepted] : p \in pairs}
      BY DEF FriendRow
    <3>2. QED
      BY <2>1, <3>1, DrawFriendsSeed
  <2>2. QED
    BY <1>1, <1>5, <2>1, InsertFriendsSeed DEF SeedFriendships
<1>6. CASE SeedShares
  <2>1. {ShareWith(p) : p \in drawn.friends} = {[owner |-> p[1], nr |-> 1, with |-> p[2]] : p \in drawn.friends}
    BY DEF ShareWith
  <2>2. QED
    BY <1>1, <1>6, <2>1, DrawSharesSeed, InsertSharesSeed DEF SeedShares
<1>7. CASE SeedShareTokens
  BY <1>1, <1>7, DrawTokensSeed, InsertTokensSeed DEF SeedShareTokens
<1>8. QED
  BY <1>2, <1>3, <1>4, <1>5, <1>6, <1>7

LEMMA NextSeed == ASSUME SetupInv, SeedInv, [Next]_vars PROVE SeedInv'
<1>1. CASE UNCHANGED vars
  <2>1. UNCHANGED <<seeds, tables, todo, due, drawn, cmd, script, last>>
    BY <1>1 DEF vars, provisionVars, seedVars
  <2>2. TablesInv' /\ SeedIsWhole'
    BY <2>1 DEF SeedInv, TablesInv, SeedIsWhole, RowTypes, Known, Ids, QuotaCountsGifs, SharesAmongFriends
  <2>3. /\ Stage' = Stage /\ Seeding' = Seeding /\ Me' = Me /\ Known' = Known /\ Ids' = Ids
        /\ \A m \in 1 .. 6 : (Past(m)' <=> Past(m)) /\ Left(m)' = Left(m)
    BY <2>1 DEF Stage, Seeding, Me, Known, Ids, Past, Left
  <2>4. ASSUME SeedingInv PROVE SeedingInv'
    <3>1. Untouched'
      BY <2>1, <2>3, <2>4 DEF SeedingInv, Untouched, MyGifs
    <3>2. UsersInv'
      BY <2>1, <2>3, <2>4 DEF SeedingInv, UsersInv, MyUsers, NextBatch
    <3>3. GifsInv' /\ QuotasInv' /\ SharesInv'
      BY <2>1, <2>3, <2>4 DEF SeedingInv, GifsInv, Gifs, Nums, MyGifs,
                            QuotasInv, MyQuotas, MyQuota, SharesInv, ShareWith
    <3>4. FriendsInv'
      BY <2>1, <2>3, <2>4 DEF SeedingInv, FriendsInv, OneRowEach, Accepted
    <3>5. QED
      BY <2>1, <2>4, <3>1, <3>2, <3>3, <3>4 DEF SeedingInv
  <2>5. QED
    BY <2>1, <2>2, <2>3, <2>4 DEF SeedInv
<1>2. CASE Fail /\ Forget /\ UNCHANGED <<seeds, tables>>
  BY <1>2, FailedSeed DEF Fail
<1>3. CASE LaunchSeed("seed") \/ LaunchSeed("all --seed")
  BY <1>3, LaunchSeedSeed DEF SeedCommands
<1>4. QED
  BY <1>1, <1>2, <1>3, ProvisionSeed, MinioSeed, TablesSeed DEF Next

LEMMA InitSeed == Init => SeedInv
<1> SUFFICES ASSUME Init PROVE SeedInv
  OBVIOUS
<1>1. /\ seeds = 0 /\ tables = [table \in Tables |-> {}] /\ todo = <<>> /\ due = <<>> /\ drawn = NoRows
      /\ cmd = Nothing /\ last = Nothing
  BY DEF Init, ProvisionInit
<1>2. ~Seeding /\ SeedIsWhole
  BY <1>1, NothingApart DEF Seeding, SeedCommands, SeedIsWhole, Commands
<1>3. \A table \in Tables : tables[table] = {}
  BY <1>1
<1>4. /\ tables.users = {} /\ tables.profiles = {} /\ tables.gifs = {} /\ tables.quota = {}
      /\ tables.friendships = {} /\ tables.shares = {} /\ DOMAIN tables = Tables
  BY <1>1, <1>3 DEF Tables
<1>5. TablesInv
  <2>1. 0 \in 0 .. MaxSeeds
    BY Constants
  <2>2. RowTypes
    BY <1>1, <1>4, <2>1 DEF RowTypes
  <2>3. QuotaCountsGifs /\ SharesAmongFriends
    BY <1>4 DEF QuotaCountsGifs, SharesAmongFriends
  <2>4. QED
    BY <2>2, <2>3 DEF TablesInv
<1>6. QED
  BY <1>1, <1>2, <1>5 DEF SeedInv

\* Whichever batch a seeding (cmd/bootstrap/cmd/seed.go) fails or dies at, and however often it is run again: its
\* rows name users that are there, a quota counts the gifs of its user, two users are friends through one row,
\* gifs are shared among friends only, and the users of a seeding that ended well have all their rows.
THEOREM SeedAgreesAlways == Spec => []SeedAgrees
<1>1. SetupInv /\ SeedInv => SeedAgrees
  <2> SUFFICES ASSUME SetupInv, SeedInv PROVE SeedAgrees
    OBVIOUS
  <2>1. ProvisionTypeOK /\ TablesInv /\ RowTypes
    BY DEF SetupInv, SetupIsSound, SeedInv, TablesInv
  <2>2. {g.owner : g \in tables.gifs} \subseteq Ids
    BY <2>1 DEF RowTypes
  <2>3. TypeOK
    BY <2>1, <2>2 DEF TypeOK, RowTypes
  <2>4. QED
    BY <2>1, <2>3 DEF SeedAgrees, SeedInv, TablesInv
<1>2. Init => SetupInv /\ SeedInv
  BY InitSetup, InitSeed
<1>3. SetupInv /\ SeedInv /\ [Next]_vars => (SetupInv /\ SeedInv)'
  BY NextSetup, NextSeed
<1>4. QED
  BY <1>1, <1>2, <1>3, PTL DEF Spec
=============================================================================
