------------------------------ MODULE Provision ------------------------------
(***************************************************************************)
(* One run of cmd/bootstrap: a command is the list of its statements       *)
(* against Postgres, MinIO and RabbitMQ, done in order.  The first that    *)
(* fails ends the run, as does the death of the process; what is done      *)
(* stays, and the next run starts from the beginning.                      *)
(***************************************************************************)
EXTENDS Integers, Sequences

CONSTANTS
    Newest,      \* the number of migrations
    MaxOutages,  \* bound on failures and deaths
    Nothing

VARIABLES
    placed,   \* what is in place: role, database, buckets, queues, ...
    version,  \* migrations applied, and whether the last was cut short
    dirty,
    cmd,      \* the command that runs, or Nothing
    script,   \* its statements not done yet
    last,     \* the command that ended last, and how
    outages

provisionVars == <<placed, version, dirty, cmd, script, last, outages>>

Queues == {"email.queue", "process.queue", "video.save.queue", "save.retry.queue",
           "process.upload.queue"}
Dead(q) ==
    CASE q = "email.queue"          -> "email.queue.dead"
      [] q = "process.queue"        -> "process.queue.dead"
      [] q = "video.save.queue"     -> "video.save.queue.dead"
      [] q = "save.retry.queue"     -> "save.retry.queue.dead"
      [] q = "process.upload.queue" -> "process.upload.queue.dead"
\* Where a rejected or expired message of q goes.
DeadLetterTo(q) == IF q = "save.retry.queue" THEN "video.save.queue" ELSE Dead(q)

SetupDatabase == <<"role", "database", "grant", "owner">>
\* Mutant: what comes with a bucket is made only together with it.
MinioSetup_OnlyNew ==
    IF "temp bucket" \in placed THEN <<"storage bucket">>
    ELSE <<"temp bucket", "storage bucket", "notification", "lifecycle">>
MinioSetup    == <<"temp bucket", "storage bucket", "notification", "lifecycle">>
QueueSetup ==
    <<Dead("email.queue"), "email.queue", Dead("process.queue"), "process.queue",
      Dead("video.save.queue"), "video.save.queue",
      Dead("save.retry.queue"), "save.retry.queue",
      Dead("process.upload.queue"), "exchange", "process.upload.queue", "binding">>
SeedSetup  == <<"seed.gif", "users", "gifs", "quota", "friendships", "shares", "share_tokens">>

AllSetup == SetupDatabase \o <<"migrate">> \o MinioSetup \o QueueSetup
Script(c) ==
    CASE c = "all"        -> AllSetup
      [] c = "all --seed" -> AllSetup \o SeedSetup
      [] c = "migration"  -> <<"migrate">>
      [] c = "minio"      -> MinioSetup
      [] c = "rabbitmq"   -> QueueSetup
      [] c = "seed"       -> SeedSetup
Commands == {"all", "all --seed", "migration", "minio", "rabbitmq", "seed"}

ASSUME ProvisionAssumption ==
    /\ Newest \in Nat \ {0} /\ MaxOutages \in Nat
    /\ Nothing \notin Commands \cup (Commands \X {"ok", "failed"})

ProvisionInit ==
    /\ placed = {} /\ version = 0 /\ dirty = FALSE
    /\ cmd = Nothing /\ script = <<>> /\ last = Nothing
    /\ outages = 0

Running   == cmd # Nothing
At(step)  == script # <<>> /\ Head(script) = step
Advance   == script' = Tail(script) /\ UNCHANGED <<cmd, last>>
Exit(how) == script' = <<>> /\ cmd' = Nothing /\ last' = <<cmd, how>>

Launch(c) ==
    /\ ~Running
    /\ cmd' = c /\ script' = Script(c) /\ last' = Nothing
    /\ UNCHANGED <<placed, version, dirty, outages>>

Finish ==
    /\ Running /\ script = <<>>
    /\ Exit("ok")
    /\ UNCHANGED <<placed, version, dirty, outages>>

\* A statement fails, or the process dies before it.
Fail ==
    /\ Running /\ outages < MaxOutages
    /\ outages' = outages + 1
    /\ Exit("failed")
    /\ UNCHANGED <<placed, version, dirty>>

\* Each makes what is missing and leaves what is there.
Provides == {"role", "database", "grant", "temp bucket", "storage bucket", "notification",
             "lifecycle", "exchange", "binding"} \cup Queues \cup {Dead(q) : q \in Queues}
\* Mutant: a statement fails on what is there already.
Place_New ==
    /\ \E step \in Provides : At(step)
    /\ IF Head(script) \in placed
       THEN Exit("failed") /\ UNCHANGED placed
       ELSE Advance /\ placed' = placed \cup {Head(script)}
    /\ UNCHANGED <<version, dirty, outages>>
Place ==
    /\ \E step \in Provides : At(step)
    /\ placed' = placed \cup {Head(script)}
    /\ Advance
    /\ UNCHANGED <<version, dirty, outages>>

\* The ownership statements: their failure is dropped, and nothing here depends on them.
SetOwner ==
    /\ At("owner")
    /\ Advance
    /\ UNCHANGED <<placed, version, dirty, outages>>

\* The migrations in order: each is marked dirty, applied, and marked clean.  A
\* database marked dirty, or not there, is refused.
Run ==
    /\ At("migrate")
    /\ CASE ~({"role", "database"} \subseteq placed) \/ dirty ->
              Exit("failed") /\ UNCHANGED version
         [] OTHER ->
              IF version = Newest THEN Advance /\ UNCHANGED version
              ELSE /\ version' = version + 1
                   /\ script' = <<"applied">> \o script
                   /\ UNCHANGED <<cmd, last>>
    /\ dirty' = (dirty \/ version' # version)
    /\ UNCHANGED <<placed, outages>>

Applied ==
    /\ At("applied")
    /\ dirty' = FALSE
    /\ Advance
    /\ UNCHANGED <<placed, version, outages>>

ProvisionNext ==
    \/ Launch("all") \/ (\E c \in {"migration", "minio", "rabbitmq"} : Launch(c))
    \/ Finish \/ Place \/ SetOwner \/ Run \/ Applied

-----------------------------------------------------------------------------
ProvisionTypeOK ==
    /\ placed \subseteq Provides
    /\ version \in 0..Newest /\ dirty \in BOOLEAN
    /\ cmd \in Commands \cup {Nothing}
    /\ outages \in 0..MaxOutages

\* However often setup dies and starts again, a queue that exists has the queue its
\* rejected messages go to: nothing dead-lettered is dropped.
DeadQueuesExist == \A q \in Queues : q \in placed => DeadLetterTo(q) \in placed

\* When the bootstrap container has completed, the API and the worker start: all they
\* use is there then, from whatever state earlier runs left behind.
Complete        == Provides \subseteq placed /\ version = Newest /\ ~dirty
ReadyIsComplete == last \in {<<"all", "ok">>, <<"all --seed", "ok">>} => Complete

\* What setup leaves behind, at any moment and when it has ended.
SetupIsSound == ProvisionTypeOK /\ DeadQueuesExist /\ ReadyIsComplete
=============================================================================
