----------------------------- MODULE Conversion -----------------------------
(***************************************************************************)
(* The GIF conversion pipeline.                                            *)
(*                                                                         *)
(* A request calls Convert in the API process (internal/app/media/         *)
(* convert.go): under a per-user mutex it reads the quota, writes three    *)
(* cache entries and a job row, and publishes one message.  A slot of a    *)
(* worker process (internal/worker/converter_worker.go) takes the message  *)
(* and calls Process (internal/app/media/run_conversion.go), which writes  *)
(* cache, job row, gif row and quota one call at a time and then acks or   *)
(* nacks.  The calls of different requests and slots interleave freely.    *)
(*                                                                         *)
(* One job per request: Jobs are the job ids the requests will draw.       *)
(***************************************************************************)
EXTENDS Integers, FiniteSets

CONSTANTS
    Users,       \* accounts
    Jobs,        \* job ids, one per request to Convert
    Workers,     \* worker processes
    Slots,       \* goroutines the workers may run (the semaphore's places)
    NoJob,       \* "no delivery" and "mutex free"
    Owner,       \* Jobs -> Users, the caller of each request
    Foreign,     \* the requests that name another user's video
    WorkerOf,    \* Slots -> Workers
    Limit,       \* quota.gif_limit, the same for every user
    Faults,      \* which kinds of failure the environment may inject
    MaxOutages   \* bound on crashes, SIGTERMs and lost connections together

\* Errors of Redis, Postgres, ffmpeg or MinIO, and the broker; a published
\* message lost; an entry's TTL; a worker crash, SIGTERM or lost broker
\* connection; an API crash.
FaultKinds == {"cache", "db", "ffmpeg", "publish", "lost", "expire",
               "crash", "sigterm", "cut", "api"}

ASSUME ConversionAssumption ==
    /\ Owner \in [Jobs -> Users]
    /\ Foreign \subseteq Jobs
    /\ WorkerOf \in [Slots -> Workers]
    /\ NoJob \notin Jobs
    /\ Limit \in Nat
    /\ Faults \subseteq FaultKinds
    /\ MaxOutages \in Nat
    /\ IsFiniteSet(Slots)

VARIABLES
    pc,       \* where each request is inside Convert
    userMu,   \* service.userConvertMu: the request that holds each user's mutex
    used,     \* quota.gif_count
    row,      \* the jobs table: status and result_key
    gifs,     \* the gifs table: keys inserted so far, each <<job, attempt>>
    minted,   \* gif objects the processor has uploaded for each job
    cache,    \* Redis: the owner, status and gif entries of each job
    ready,    \* process.queue: messages waiting
    unacked,  \* process.queue: the delivery each slot has not settled
    acked,    \* messages settled by Ack
    dead,     \* process.queue.dead
    slot,     \* the handler goroutine in each slot
    worker,   \* state of each worker process
    outages   \* how many crashes, SIGTERMs and lost connections so far

apiVars   == <<pc, userMu>>
dbVars    == <<used, row, gifs>>
queueVars == <<ready, unacked, acked, dead>>
vars == <<pc, userMu, used, row, gifs, minted, cache, ready, unacked, acked,
          dead, slot, worker, outages>>

Finished   == {"accepted", "refused", "failed", "aborted"}
InConvert  == {"quota", "caches", "row", "publish", "undo", "return"}
RequestPcs == {"new"} \cup InConvert \cup Finished

RowStates   == {"absent", "queued", "processing", "done", "failed"}
CacheStates == {"none", "queued", "processing", "completed", "failed"}
GifEntries  == {"none", "queued", "failed", "result"}

\* The places in Process, each named for the call the slot makes next.
KeyedPcs == {"setGif", "setCompleted", "rowDone", "gifRow", "usage"}
SlotPcs  == {"idle", "setProcessing", "rowProcessing", "convert", "rowFailed",
             "setFailed", "ack", "nack"} \cup KeyedPcs

GifKeys   == Jobs \X (Nat \ {0})
RowRecs   == [status : RowStates, key : Nat]
CacheRecs == [owner : BOOLEAN, status : CacheStates, gif : GifEntries, key : Nat]
SlotRecs  == [pc : SlotPcs, job : Jobs \cup {NoJob}, key : Nat]

-----------------------------------------------------------------------------
(* States the program starts in.                                           *)

At(place, j, k) == [pc |-> place, job |-> j, key |-> k]
IdleSlot == At("idle", NoJob, 0)

\* The cache entries of a job; key is the result the gif entry names, if any.
Entries(o, st, g, k) == [owner |-> o, status |-> st, gif |-> g, key |-> k]
NoEntries == Entries(FALSE, "none", "none", 0)
WithStatus(e, st) == Entries(e.owner, st, e.gif, e.key)
WithGif(e, g, k)  == Entries(e.owner, e.status, g, k)

\* The row UpdateStatus or Create leaves: status and result_key (0 is '').
Row(st, k) == [status |-> st, key |-> k]

Init ==
    /\ pc = [j \in Jobs |-> "new"]
    /\ userMu = [u \in Users |-> NoJob]
    /\ used = [u \in Users |-> 0]
    /\ row = [j \in Jobs |-> Row("absent", 0)]
    /\ gifs = {}
    /\ minted = [j \in Jobs |-> 0]
    /\ cache = [j \in Jobs |-> NoEntries]
    /\ ready = {}
    /\ unacked = [s \in Slots |-> NoJob]
    /\ acked = {}
    /\ dead = {}
    /\ slot = [s \in Slots |-> IdleSlot]
    /\ worker = [w \in Workers |-> "up"]
    /\ outages = 0

-----------------------------------------------------------------------------
(* Convert: one request in the API process.                                *)

\* Mutant: only the last return unlocks.
Return_UnlockAtEnd(j, outcome) ==
    /\ pc' = [pc EXCEPT ![j] = outcome]
    /\ userMu' = IF outcome = "accepted" THEN [userMu EXCEPT ![Owner[j]] = NoJob] ELSE userMu

\* The request returns: the deferred Unlock runs on every path.
Return(j, outcome) ==
    /\ pc' = [pc EXCEPT ![j] = outcome]
    /\ userMu' = [userMu EXCEPT ![Owner[j]] = NoJob]

\* The request goes on to its next call, still holding the mutex.
Proceed(j, next) ==
    /\ pc' = [pc EXCEPT ![j] = next]
    /\ UNCHANGED userMu

\* The key of another user's video is refused before the mutex is taken.
RefuseKey(j) ==
    /\ pc[j] = "new" /\ j \in Foreign
    /\ pc' = [pc EXCEPT ![j] = "refused"]
    /\ UNCHANGED <<userMu, dbVars, minted, cache, queueVars, slot, worker, outages>>

Lock(j) ==
    /\ pc[j] = "new" /\ j \notin Foreign
    /\ userMu[Owner[j]] = NoJob
    /\ userMu' = [userMu EXCEPT ![Owner[j]] = j]
    /\ pc' = [pc EXCEPT ![j] = "quota"]
    /\ UNCHANGED <<dbVars, minted, cache, queueVars, slot, worker, outages>>

QuotaExceeded(u) == used[u] > 0 /\ used[u] >= Limit

\* An error of GetById skips the check; the increment is made on the local copy.
ReadQuota(j) ==
    /\ pc[j] = "quota"
    /\ IF QuotaExceeded(Owner[j])
       THEN \/ Return(j, "refused")
            \/ "db" \in Faults /\ Proceed(j, "caches")
       ELSE Proceed(j, "caches")
    /\ UNCHANGED <<dbVars, minted, cache, queueVars, slot, worker, outages>>

\* Owner, status and gif entries, in that order; the first failure returns,
\* and the call that failed may have reached Redis all the same.
SetCaches(j) ==
    /\ pc[j] = "caches"
    /\ \/ /\ cache' = [cache EXCEPT ![j] = Entries(TRUE, "queued", "queued", 0)]
          /\ Proceed(j, "row")
       \/ /\ "cache" \in Faults
          /\ \E e \in {NoEntries, Entries(TRUE, "none", "none", 0),
                       Entries(TRUE, "queued", "none", 0), Entries(TRUE, "queued", "queued", 0)} :
                cache' = [cache EXCEPT ![j] = e]
          /\ Return(j, "failed")
    /\ UNCHANGED <<dbVars, minted, queueVars, slot, worker, outages>>

CreateRow(j) ==
    /\ pc[j] = "row"
    /\ \/ /\ row' = [row EXCEPT ![j] = Row("queued", 0)]
          /\ Proceed(j, "publish")
       \/ /\ "db" \in Faults
          /\ row' \in {row, [row EXCEPT ![j] = Row("queued", 0)]}
          /\ Return(j, "failed")
    /\ UNCHANGED <<used, gifs, minted, cache, queueVars, slot, worker, outages>>

\* No publisher confirms: the call may return nil for a message that is lost.
PublishVideo(j) ==
    /\ pc[j] = "publish"
    /\ \/ ready' = ready \cup {j} /\ Proceed(j, "return")
       \/ "lost" \in Faults /\ UNCHANGED ready /\ Proceed(j, "return")
       \/ "publish" \in Faults /\ UNCHANGED ready /\ Proceed(j, "undo")
    /\ UNCHANGED <<dbVars, minted, cache, unacked, acked, dead, slot, worker, outages>>

\* The answer to a failed publish; the errors of its three calls are dropped.
UndoPublish(j) ==
    /\ pc[j] = "undo"
    /\ \/ cache' = [cache EXCEPT ![j] = WithStatus(WithGif(@, "failed", 0), "failed")]
       \/ /\ "cache" \in Faults
          /\ \/ UNCHANGED cache
             \/ cache' = [cache EXCEPT ![j] = WithStatus(@, "failed")]
             \/ cache' = [cache EXCEPT ![j] = WithGif(@, "failed", 0)]
    /\ \/ row' = [row EXCEPT ![j] = Row("failed", 0)]
       \/ "db" \in Faults /\ UNCHANGED row
    /\ Return(j, "failed")
    /\ UNCHANGED <<used, gifs, minted, queueVars, slot, worker, outages>>

\* The caller is given the job id; a worker may already be at the message.
Respond(j) ==
    /\ pc[j] = "return"
    /\ Return(j, "accepted")
    /\ UNCHANGED <<dbVars, minted, cache, queueVars, slot, worker, outages>>

Convert(j) ==
    \/ RefuseKey(j) \/ Lock(j) \/ ReadQuota(j) \/ SetCaches(j) \/ CreateRow(j)
    \/ PublishVideo(j) \/ UndoPublish(j) \/ Respond(j)

\* The API process dies: its requests and its mutexes are gone.
ApiCrash ==
    /\ "api" \in Faults /\ outages < MaxOutages
    /\ \E j \in Jobs : pc[j] \in InConvert
    /\ pc' = [j \in Jobs |-> IF pc[j] \in InConvert THEN "aborted" ELSE pc[j]]
    /\ userMu' = [u \in Users |-> NoJob]
    /\ outages' = outages + 1
    /\ UNCHANGED <<dbVars, minted, cache, queueVars, slot, worker>>

-----------------------------------------------------------------------------
(* handle and Process: one delivery in one slot of a worker.               *)

Proc(s) == worker[WorkerOf[s]]

\* SIGTERM cancels the context every call of the handler is made with.
Cancelled(s) == Proc(s) = "draining"

Goto(s, next) == slot' = [slot EXCEPT ![s] = At(next, slot[s].job, slot[s].key)]

\* cache.Set leaving the entries e for the slot's job.  A call that reports an
\* error may have been applied, unless it was made under a cancelled context.
CacheSet(s, e, ok, failed) ==
    LET written == [cache EXCEPT ![slot[s].job] = e] IN
    \/ ~Cancelled(s) /\ cache' = written /\ Goto(s, ok)
    \/ ~Cancelled(s) /\ "cache" \in Faults /\ cache' \in {cache, written} /\ Goto(s, failed)
    \/ Cancelled(s) /\ UNCHANGED cache /\ Goto(s, failed)

\* jobRepo.UpdateStatus, whose error every caller in Process drops.
UpdateStatus(s, r, next) ==
    /\ \/ ~Cancelled(s) /\ row' = [row EXCEPT ![slot[s].job] = r]
       \/ (Cancelled(s) \/ "db" \in Faults) /\ UNCHANGED row
    /\ Goto(s, next)

\* Mutant: consuming with autoAck.
Deliver_AutoAck(s) ==
    /\ Proc(s) = "up"
    /\ slot[s].pc = "idle"
    /\ \E j \in ready :
          /\ ready' = ready \ {j}
          /\ acked' = acked \cup {j}
          /\ slot' = [slot EXCEPT ![s] = At("setProcessing", j, 0)]
    /\ UNCHANGED <<apiVars, dbVars, minted, cache, unacked, dead, worker, outages>>

\* The prefetch is one delivery per slot; a draining worker's loop may still
\* choose a delivery over its cancelled context.
Deliver(s) ==
    /\ Proc(s) \in {"up", "draining"}
    /\ slot[s].pc = "idle"
    /\ \E j \in ready :
          /\ ready' = ready \ {j}
          /\ unacked' = [unacked EXCEPT ![s] = j]
          /\ slot' = [slot EXCEPT ![s] = At("setProcessing", j, 0)]
    /\ UNCHANGED <<apiVars, dbVars, minted, cache, acked, dead, worker, outages>>

SetProcessing(s) ==
    /\ slot[s].pc = "setProcessing"
    /\ CacheSet(s, WithStatus(cache[slot[s].job], "processing"),
                "rowProcessing", "nack")
    /\ UNCHANGED <<apiVars, dbVars, minted, queueVars, worker, outages>>

RowProcessing(s) ==
    /\ slot[s].pc = "rowProcessing"
    /\ UpdateStatus(s, Row("processing", 0), "convert")
    /\ UNCHANGED <<apiVars, used, gifs, minted, cache, queueVars, worker, outages>>

\* processor.Process: the gif is uploaded under a fresh random key before the
\* thumbnail, so an error may leave an uploaded gif nobody knows of.
RunProcessor(s) ==
    LET j == slot[s].job
        uploaded == [minted EXCEPT ![j] = minted[j] + 1] IN
    /\ slot[s].pc = "convert"
    /\ \/ /\ ~Cancelled(s)
          /\ minted' = uploaded
          /\ slot' = [slot EXCEPT ![s] = At("setGif", j, uploaded[j])]
       \/ /\ ~Cancelled(s) /\ "ffmpeg" \in Faults
          /\ minted' \in {minted, uploaded}
          /\ Goto(s, "rowFailed")
       \/ Cancelled(s) /\ UNCHANGED minted /\ Goto(s, "rowFailed")
    /\ UNCHANGED <<apiVars, dbVars, cache, queueVars, worker, outages>>

RowFailed(s) ==
    /\ slot[s].pc = "rowFailed"
    /\ UpdateStatus(s, Row("failed", 0), "setFailed")
    /\ UNCHANGED <<apiVars, used, gifs, minted, cache, queueVars, worker, outages>>

\* Mutant: the error of the failing call is returned alone.
SetFailed_Silent(s) ==
    /\ slot[s].pc = "setFailed"
    /\ Goto(s, "nack")
    /\ UNCHANGED <<apiVars, dbVars, minted, cache, queueVars, worker, outages>>

\* Set(key, "failed") joined into the error of every failing branch.
SetFailed(s) ==
    /\ slot[s].pc = "setFailed"
    /\ CacheSet(s, WithStatus(cache[slot[s].job], "failed"), "nack", "nack")
    /\ UNCHANGED <<apiVars, dbVars, minted, queueVars, worker, outages>>

\* Mutant: a failed write of the gif entry is not noticed.
SetGif_IgnoresError(s) ==
    /\ slot[s].pc = "setGif"
    /\ CacheSet(s, WithGif(cache[slot[s].job], "result", slot[s].key),
                "setCompleted", "setCompleted")
    /\ UNCHANGED <<apiVars, dbVars, minted, queueVars, worker, outages>>

SetGif(s) ==
    /\ slot[s].pc = "setGif"
    /\ CacheSet(s, WithGif(cache[slot[s].job], "result", slot[s].key),
                "setCompleted", "nack")
    /\ UNCHANGED <<apiVars, dbVars, minted, queueVars, worker, outages>>

SetCompleted(s) ==
    /\ slot[s].pc = "setCompleted"
    /\ CacheSet(s, WithStatus(cache[slot[s].job], "completed"), "rowDone", "nack")
    /\ UNCHANGED <<apiVars, dbVars, minted, queueVars, worker, outages>>

\* Mutant: the status word of the cache written to the row.
RowDone_Completed(s) ==
    /\ slot[s].pc = "rowDone"
    /\ UpdateStatus(s, Row("completed", slot[s].key), "gifRow")
    /\ UNCHANGED <<apiVars, used, gifs, minted, cache, queueVars, worker, outages>>

\* Mutant: result_key and error_message swapped.
RowDone_NoKey(s) ==
    /\ slot[s].pc = "rowDone"
    /\ UpdateStatus(s, Row("done", 0), "gifRow")
    /\ UNCHANGED <<apiVars, used, gifs, minted, cache, queueVars, worker, outages>>

RowDone(s) ==
    /\ slot[s].pc = "rowDone"
    /\ UpdateStatus(s, Row("done", slot[s].key), "gifRow")
    /\ UNCHANGED <<apiVars, used, gifs, minted, cache, queueVars, worker, outages>>

\* Mutant: the quota is billed although the insert failed.
CreateGif_IgnoresError(s) ==
    /\ slot[s].pc = "gifRow"
    /\ \/ gifs' = gifs \cup {<<slot[s].job, slot[s].key>>}
       \/ "db" \in Faults /\ UNCHANGED gifs
    /\ Goto(s, "usage")
    /\ UNCHANGED <<apiVars, used, row, minted, cache, queueVars, worker, outages>>

CreateGif(s) ==
    LET inserted == gifs \cup {<<slot[s].job, slot[s].key>>} IN
    /\ slot[s].pc = "gifRow"
    /\ \/ ~Cancelled(s) /\ gifs' = inserted /\ Goto(s, "usage")
       \/ ~Cancelled(s) /\ "db" \in Faults /\ gifs' \in {gifs, inserted} /\ Goto(s, "setFailed")
       \/ Cancelled(s) /\ UNCHANGED gifs /\ Goto(s, "setFailed")
    /\ UNCHANGED <<apiVars, used, row, minted, cache, queueVars, worker, outages>>

\* WHERE gif_count + 1 <= gif_limit: no row is updated, and no error returned,
\* when the user is at the limit.
Bill(u) == IF used[u] + 1 <= Limit THEN [used EXCEPT ![u] = @ + 1] ELSE used

IncrementUsage(s) ==
    LET u == Owner[slot[s].job] IN
    /\ slot[s].pc = "usage"
    /\ \/ ~Cancelled(s) /\ used' = Bill(u) /\ Goto(s, "ack")
       \/ ~Cancelled(s) /\ "db" \in Faults /\ used' \in {used, Bill(u)} /\ Goto(s, "setFailed")
       \/ Cancelled(s) /\ UNCHANGED used /\ Goto(s, "setFailed")
    /\ UNCHANGED <<apiVars, row, gifs, minted, cache, queueVars, worker, outages>>

\* Ack and Nack reach the broker only while the delivery is still the slot's.
Settle(s) ==
    /\ unacked' = [unacked EXCEPT ![s] = NoJob]
    /\ slot' = [slot EXCEPT ![s] = IdleSlot]
    /\ UNCHANGED <<apiVars, dbVars, minted, cache, ready, worker, outages>>

Ack(s) ==
    /\ slot[s].pc = "ack"
    /\ acked' = acked \cup ({unacked[s]} \ {NoJob})
    /\ UNCHANGED dead
    /\ Settle(s)

\* Mutant: a failed delivery is acked.
Nack_Acks(s) ==
    /\ slot[s].pc = "nack"
    /\ acked' = acked \cup ({unacked[s]} \ {NoJob})
    /\ UNCHANGED dead
    /\ Settle(s)

\* Mutant: a copy is published for a retry and the original dead-lettered.
Nack_Republish(s) ==
    /\ slot[s].pc = "nack"
    /\ dead' = dead \cup ({unacked[s]} \ {NoJob})
    /\ ready' = ready \cup ({unacked[s]} \ {NoJob})
    /\ unacked' = [unacked EXCEPT ![s] = NoJob]
    /\ slot' = [slot EXCEPT ![s] = IdleSlot]
    /\ UNCHANGED <<apiVars, dbVars, minted, cache, acked, worker, outages>>

\* Mutant: Nack(false, true), the retry the code has commented out.
Nack_Requeue(s) ==
    /\ slot[s].pc = "nack"
    /\ ready' = ready \cup ({unacked[s]} \ {NoJob})
    /\ unacked' = [unacked EXCEPT ![s] = NoJob]
    /\ slot' = [slot EXCEPT ![s] = IdleSlot]
    /\ UNCHANGED <<apiVars, dbVars, minted, cache, acked, dead, worker, outages>>

\* Nack(false, false): no requeue, so the broker dead-letters the message.
Nack(s) ==
    /\ slot[s].pc = "nack"
    /\ dead' = dead \cup ({unacked[s]} \ {NoJob})
    /\ UNCHANGED acked
    /\ Settle(s)

Process(s) ==
    \/ SetProcessing(s) \/ RowProcessing(s) \/ RunProcessor(s) \/ RowFailed(s)
    \/ SetFailed(s) \/ SetGif(s) \/ SetCompleted(s) \/ RowDone(s)
    \/ CreateGif(s) \/ IncrementUsage(s)

Handle(s) == Process(s) \/ Ack(s) \/ Nack(s)

-----------------------------------------------------------------------------
(* The worker process: main, and the broker's side of its connection.      *)

SlotsOf(w) == {s \in Slots : WorkerOf[s] = w}

\* Mutant: what was not settled is lost with the channel.
Requeue_Drops(w) ==
    /\ unacked' = [s \in Slots |-> IF WorkerOf[s] = w THEN NoJob ELSE unacked[s]]
    /\ UNCHANGED <<ready, acked, dead>>

\* The channel is gone: the broker takes back what was not settled.
Requeue(w) ==
    /\ ready' = ready \cup ({unacked[s] : s \in SlotsOf(w)} \ {NoJob})
    /\ unacked' = [s \in Slots |-> IF WorkerOf[s] = w THEN NoJob ELSE unacked[s]]
    /\ UNCHANGED <<acked, dead>>

\* The process is gone, with every handler it ran.
Stop(w) ==
    /\ worker' = [worker EXCEPT ![w] = "down"]
    /\ Requeue(w)
    /\ slot' = [s \in Slots |-> IF WorkerOf[s] = w THEN IdleSlot ELSE slot[s]]
    /\ UNCHANGED <<apiVars, dbVars, minted, cache>>

Outage(kind) ==
    /\ kind \in Faults /\ outages < MaxOutages
    /\ outages' = outages + 1

Crash(w) ==
    /\ worker[w] # "down"
    /\ Outage("crash")
    /\ Stop(w)

\* A worker that has lost its connection has no consumer left to wait for.
Sigterm(w) ==
    /\ Outage("sigterm")
    /\ \/ /\ worker[w] = "up"
          /\ worker' = [worker EXCEPT ![w] = "draining"]
          /\ UNCHANGED <<apiVars, dbVars, minted, cache, queueVars, slot>>
       \/ /\ worker[w] = "cut"
          /\ Stop(w)

\* Run returns and closes its channel; main does not wait for the handlers.
Exit(w) ==
    /\ worker[w] = "draining"
    /\ Stop(w)
    /\ UNCHANGED outages

\* restart: unless-stopped
Start(w) ==
    /\ worker[w] = "down"
    /\ worker' = [worker EXCEPT ![w] = "up"]
    /\ UNCHANGED <<apiVars, dbVars, minted, cache, queueVars, slot, outages>>

\* The broker connection is lost: Run returns its error, main drops it and
\* stays, and the handlers go on with calls that still work.
Cut(w) ==
    /\ worker[w] = "up"
    /\ Outage("cut")
    /\ worker' = [worker EXCEPT ![w] = "cut"]
    /\ Requeue(w)
    /\ UNCHANGED <<apiVars, dbVars, minted, cache, slot>>

-----------------------------------------------------------------------------
Next ==
    \/ \E j \in Jobs : Convert(j)
    \/ ApiCrash
    \/ \E s \in Slots : Deliver(s) \/ Handle(s)
    \/ \E w \in Workers : Crash(w) \/ Sigterm(w) \/ Exit(w) \/ Start(w) \/ Cut(w)

Spec == Init /\ [][Next]_vars

\* The Go scheduler runs every goroutine, the broker delivers to a consumer
\* with room, a draining process exits and a stopped one is restarted.
Fairness ==
    /\ \A j \in Jobs : WF_vars(Convert(j))
    /\ \A s \in Slots : WF_vars(Deliver(s)) /\ WF_vars(Handle(s))
    /\ \A w \in Workers : WF_vars(Exit(w)) /\ WF_vars(Start(w))

FairSpec == Spec /\ Fairness

-----------------------------------------------------------------------------
(* What must hold.                                                         *)

TypeOK ==
    /\ pc \in [Jobs -> RequestPcs]
    /\ userMu \in [Users -> Jobs \cup {NoJob}]
    /\ used \in [Users -> Nat]
    /\ row \in [Jobs -> RowRecs]
    /\ gifs \subseteq GifKeys
    /\ minted \in [Jobs -> Nat]
    /\ cache \in [Jobs -> CacheRecs]
    /\ ready \subseteq Jobs
    /\ unacked \in [Slots -> Jobs \cup {NoJob}]
    /\ acked \subseteq Jobs
    /\ dead \subseteq Jobs
    /\ slot \in [Slots -> SlotRecs]
    /\ worker \in [Workers -> {"up", "draining", "cut", "down"}]
    /\ outages \in Nat

HeldBySlots == {unacked[s] : s \in Slots} \ {NoJob}

\* A message is in one place: waiting, held by one slot, acked or dead.  Crashes,
\* SIGTERMs and lost connections that return deliveries while their handlers may
\* still run neither lose nor copy one.
MessageInOnePlace ==
    /\ ready \cap acked = {} /\ ready \cap dead = {} /\ acked \cap dead = {}
    /\ HeldBySlots \cap (ready \cup acked \cup dead) = {}
    /\ \A s, t \in Slots : s # t /\ unacked[s] = unacked[t] => unacked[s] = NoJob

Published == ready \cup acked \cup dead \cup HeldBySlots

\* Every job Convert accepts has its message with the broker (when the broker
\* loses no unconfirmed publish), and one whose caller was told it was refused or
\* had failed has none; only the API's death may leave one nobody was told of.
AcceptedIsPublished ==
    /\ {j \in Jobs : pc[j] \in {"return", "accepted"}} \subseteq Published
    /\ Published \subseteq {j \in Jobs : pc[j] \in {"return", "accepted", "aborted"}}

\* The quota never bills more gifs than were recorded, whatever call fails and
\* however often a message is redelivered.
GifsOf(u) == {g \in gifs : Owner[g[1]] = u}
UsageCoveredByGifs == \A u \in Users : used[u] <= Cardinality(GifsOf(u))

\* gif_count stays within gif_limit although Convert checks it long before
\* IncrementUsage bills it, and several slots bill the same user.
UsageWithinLimit == \A u \in Users : used[u] <= Limit

\* A message is acked only after a gif row of its job was inserted.
AckedJobHasGif == \A j \in acked : \E g \in gifs : g[1] = j

\* A client that reads "completed" finds the key of an uploaded gif in the gif
\* entry (while the entries live), also when a stale handler runs beside the
\* one the message was redelivered to.
CompletedNamesResult ==
    \A j \in Jobs : cache[j].status = "completed" =>
        cache[j].gif = "result" /\ cache[j].key \in 1..minted[j]

\* What is billed and what is reported agree with the limit and with the gifs.
ResultsAgree == UsageWithinLimit /\ CompletedNamesResult

\* An acked job's row is "done" and names a recorded gif, even if earlier
\* deliveries of the message failed or died half way (Postgres answering, and no
\* handler outliving its connection).
AckedJobIsDone ==
    \A j \in acked : row[j].status = "done" /\ <<j, row[j].key>> \in gifs

\* Rows and messages agree: an accepted job has its message, an acked one its gif.
RowsAgree == AcceptedIsPublished /\ AckedJobIsDone

\* Once the message is settled no handler touches the job's row again.
SettledRowIsFinal ==
    [][\A j \in acked \cup dead : row'[j] = row[j]]_vars

\* Every request returns: no path of Convert keeps the user's mutex.
RequestsReturn == \A j \in Jobs : <>(pc[j] \in Finished)

\* Every accepted job is acked or dead-lettered, through crashes, restarts and
\* redeliveries.
AcceptedJobsSettle ==
    \A j \in Jobs : pc[j] = "accepted" ~> j \in acked \cup dead

\* The pipeline implements the job board: a job's state there is where its
\* message is, and its results are the rows of the gifs table.
BoardState == [j \in Jobs |->
    IF j \in acked THEN "succeeded"
    ELSE IF j \in dead THEN "failed"
    ELSE IF j \in HeldBySlots THEN "running"
    ELSE IF j \in ready THEN "pending" ELSE "absent"]

Board == INSTANCE JobBoard WITH state <- BoardState, results <- gifs

\* Every step of the pipeline is a step of the board or leaves it alone: no job
\* ends twice, none succeeds without a gif, none comes back after its end.
ImplementsBoard == Board!BoardSpec

-----------------------------------------------------------------------------
(* What the repository says and the code does not do.                      *)

\* internal/app/media/service_test.go:527-528: the conversions enqueued for a user
\* fit what is left of the quota.  A pending one has no gif yet, so it is not billed.
PendingOf(u) == {j \in Jobs : /\ Owner[j] = u /\ pc[j] = "accepted"
                             /\ j \notin acked \cup dead
                             /\ \A g \in gifs : g[1] # j}
NoDoubleSpend == \A u \in Users : used[u] + Cardinality(PendingOf(u)) <= Limit

=============================================================================
