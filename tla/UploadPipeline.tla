--------------------------- MODULE UploadPipeline ---------------------------
(***************************************************************************)
(* From a presigned URL to the user's last video.                          *)
(*                                                                         *)
(* Upload (internal/app/media/upload.go) hands out a presigned PUT URL for *)
(* a fresh key.  Each PUT to it makes MinIO publish an event on            *)
(* process.upload.queue; a slot of the worker (internal/worker/            *)
(* processing_worker.go) downloads, converts and stores the video through  *)
(* scratch files named after the key alone (internal/infra/ffmpeg/         *)
(* processor_repo.go), writes the user's one last_upload row, settles the  *)
(* event and reports the outcome in Redis.  Status (internal/app/media/    *)
(* status.go) reads Redis, then the row.                                   *)
(***************************************************************************)
EXTENDS Integers, FiniteSets

CONSTANTS
    Users,
    Keys,        \* object keys Upload will draw, one per request
    KeyOwner,    \* Keys -> Users: the prefix of the key
    Slots,       \* goroutines of the worker (the semaphore's places)
    Nothing,     \* no event, no video, no answer
    Faults,      \* which kinds of failure the environment may inject
    MaxPuts,     \* bound on the PUTs to all keys together
    MaxOutages   \* bound on crashes and SIGTERMs together

ASSUME UploadAssumption ==
    /\ KeyOwner \in [Keys -> Users]
    /\ Faults \subseteq {"cache", "db", "ffmpeg", "expire", "crash", "sigterm"}
    /\ MaxPuts \in Nat /\ MaxOutages \in Nat

VARIABLES
    request,   \* the Upload request of each key
    object,    \* the raw bucket: which PUT's content each key holds, 0 for none
    status,    \* Redis: uploading:<key>
    last,      \* last_upload: the video each user's row names
    stored,    \* videos uploaded to the storage bucket
    scratch,   \* the files under the temporary directory, by key
    ready,     \* process.upload.queue: events waiting
    unacked,   \* process.upload.queue: the event each slot has not settled
    acked, dead,
    slot,      \* the handler goroutine in each slot
    worker,
    asking,    \* the Status request of each key: idle, or about to read the row
    told,      \* the last answer of Status for each key
    outages

uploadVars == <<request, object>>
fileVars   == <<stored, scratch>>
queueVars  == <<ready, unacked, acked, dead>>
askVars    == <<asking, told>>
vars == <<request, object, status, last, stored, scratch, ready, unacked, acked,
          dead, slot, worker, asking, told, outages>>

\* A PUT, and the event it makes, is <<key, n>>; so is the video made of it.
Puts     == Keys \X (1..MaxPuts)
Statuses == {"none", "uploading", "processing", "ok", "failed"}
PreProcessPcs == {"download", "convert", "thumb", "store", "finish"}
SlotPcs  == {"idle", "setProcessing", "saveRow", "setFailed", "nack", "ack", "setOk"}
            \cup PreProcessPcs

\* The key each scratch file's content came from, per kind of file.
NoFiles == [raw |-> Nothing, mp4 |-> Nothing, thumb |-> Nothing]
Idle    == [pc |-> "idle", event |-> Nothing, video |-> Nothing]

Init ==
    /\ request = [k \in Keys |-> "new"]
    /\ object = [k \in Keys |-> 0]
    /\ status = [k \in Keys |-> "none"]
    /\ last = [u \in Users |-> Nothing]
    /\ stored = {}
    /\ scratch = [k \in Keys |-> NoFiles]
    /\ ready = {} /\ acked = {} /\ dead = {}
    /\ unacked = [s \in Slots |-> Nothing]
    /\ slot = [s \in Slots |-> Idle]
    /\ worker = "up"
    /\ asking = [k \in Keys |-> FALSE]
    /\ told = [k \in Keys |-> Nothing]
    /\ outages = 0

-----------------------------------------------------------------------------
(* The API and the client.                                                 *)

\* The URL is signed locally; only the status write can fail.  No video counts
\* against the byte quota, so its check lets every request pass.
Upload(k) ==
    /\ request[k] = "new"
    /\ \/ /\ request' = [request EXCEPT ![k] = "granted"]
          /\ status' = [status EXCEPT ![k] = "uploading"]
       \/ /\ "cache" \in Faults
          /\ request' = [request EXCEPT ![k] = "failed"]
          /\ status' \in {status, [status EXCEPT ![k] = "uploading"]}
    /\ UNCHANGED <<object, last, fileVars, queueVars, slot, worker, askVars, outages>>

\* The client PUTs, perhaps again while the URL lives; MinIO publishes an event.
Put(k) ==
    /\ request[k] = "granted"
    /\ Cardinality({p \in Puts : p[2] <= object[p[1]]}) < MaxPuts
    /\ object' = [object EXCEPT ![k] = @ + 1]
    /\ ready' = ready \cup {<<k, object[k] + 1>>}
    /\ UNCHANGED <<request, status, last, fileVars, unacked, acked, dead, slot, worker,
                   askVars, outages>>

Answer(k, a) == told' = [told EXCEPT ![k] = a]

\* Asked by the key's owner: another's request is refused before the entry is read.
\* Only "ok" goes on to the row; any other word of the entry, an error, or "failed"
\* for a missing entry, is the answer as it is, and told leaves it out.
Status(k) ==
    /\ request[k] = "granted" /\ status[k] = "ok"
    /\ ~asking[k]
    /\ asking' = [asking EXCEPT ![k] = TRUE]
    /\ UNCHANGED <<uploadVars, status, last, fileVars, queueVars, slot, worker, told, outages>>

\* GetLastVideo of the caller; ErrNoRows is an answer of its own.
LastVideo(k) ==
    LET v == last[KeyOwner[k]] IN
    /\ asking[k]
    /\ asking' = [asking EXCEPT ![k] = FALSE]
    /\ \/ Answer(k, IF v = Nothing THEN <<"notFound", Nothing>> ELSE <<"ok", v>>)
       \/ "db" \in Faults /\ Answer(k, <<"error", Nothing>>)
    /\ UNCHANGED <<uploadVars, status, last, fileVars, queueVars, slot, worker, outages>>

-----------------------------------------------------------------------------
(* handle: one event in one slot.                                          *)

Cancelled == worker = "draining"
KeyOf(s)  == slot[s].event[1]
Goto(s, next) == slot' = [slot EXCEPT ![s].pc = next]

Deliver(s) ==
    /\ worker \in {"up", "draining"}
    /\ slot[s].pc = "idle"
    /\ \E e \in ready :
          /\ ready' = ready \ {e}
          /\ unacked' = [unacked EXCEPT ![s] = e]
          /\ slot' = [slot EXCEPT ![s] = [pc |-> "setProcessing", event |-> e, video |-> Nothing]]
    /\ UNCHANGED <<uploadVars, status, last, fileVars, acked, dead, worker, askVars, outages>>

\* UpdateUploadingStatus of the slot's key.
SetStatus(s, st, ok, failed) ==
    LET written == [status EXCEPT ![KeyOf(s)] = st] IN
    /\ \/ ~Cancelled /\ status' = written /\ Goto(s, ok)
       \/ ~Cancelled /\ "cache" \in Faults /\ status' \in {status, written} /\ Goto(s, failed)
       \/ Cancelled /\ UNCHANGED status /\ Goto(s, failed)
    /\ UNCHANGED <<uploadVars, last, fileVars, queueVars, worker, askVars, outages>>

SetProcessing(s) ==
    /\ slot[s].pc = "setProcessing"
    /\ SetStatus(s, "processing", "download", "nack")

\* Mutant: the scratch files of all keys share one name.
Path_Fixed(k) == CHOOSE any \in Keys : TRUE

\* The scratch files' names differ by key only, not by delivery.
Path(k) == k

Files(s) == scratch[Path(KeyOf(s))]
Write(s, kind, content) == scratch' = [scratch EXCEPT ![Path(KeyOf(s))][kind] = content]

\* The three deferred os.Remove calls of PreProcess.
Cleanup(s) == scratch' = [scratch EXCEPT ![Path(KeyOf(s))] = NoFiles]

\* PreProcess returns an error; ProcessAndSave returns it.
Fail(s) == Cleanup(s) /\ Goto(s, "setFailed") /\ UNCHANGED stored

\* A failing MinIO, ffprobe or ffmpeg, an invalid video, a cancelled context.
MayFail(s) == (Cancelled \/ "ffmpeg" \in Faults) /\ Fail(s)

Download(s) ==
    /\ slot[s].pc = "download"
    /\ \/ ~Cancelled /\ Write(s, "raw", <<KeyOf(s), object[KeyOf(s)]>>) /\ Goto(s, "convert")
          /\ UNCHANGED stored
       \/ MayFail(s)

\* ffprobe and the conversion read the raw file; -y overwrites the output.
ConvertToMp4(s) ==
    /\ slot[s].pc = "convert"
    /\ \/ /\ ~Cancelled /\ Files(s).raw # Nothing
          /\ Write(s, "mp4", Files(s).raw) /\ Goto(s, "thumb") /\ UNCHANGED stored
       \/ Files(s).raw = Nothing /\ Fail(s)
       \/ MayFail(s)

\* No -y here: ffmpeg refuses to overwrite a thumbnail that is there.
GenerateThumb(s) ==
    /\ slot[s].pc = "thumb"
    /\ \/ /\ ~Cancelled /\ Files(s).mp4 # Nothing /\ Files(s).thumb = Nothing
          /\ Write(s, "thumb", Files(s).mp4) /\ Goto(s, "store") /\ UNCHANGED stored
       \/ (Files(s).mp4 = Nothing \/ Files(s).thumb # Nothing) /\ Fail(s)
       \/ MayFail(s)

\* The video is uploaded under a fresh random key.
StoreVideo(s) ==
    /\ slot[s].pc = "store"
    /\ \/ /\ ~Cancelled /\ Files(s).mp4 # Nothing
          /\ stored' = stored \cup {Files(s).mp4}
          /\ slot' = [slot EXCEPT ![s].pc = "finish", ![s].video = Files(s).mp4]
          /\ UNCHANGED scratch
       \/ Files(s).mp4 = Nothing /\ Fail(s)
       \/ MayFail(s)

\* The thumbnail is uploaded, the video probed again, and PreProcess returns.
FinishPreProcess(s) ==
    /\ slot[s].pc = "finish"
    /\ \/ /\ ~Cancelled /\ Files(s).mp4 # Nothing /\ Files(s).thumb # Nothing
          /\ Cleanup(s) /\ Goto(s, "saveRow") /\ UNCHANGED stored
       \/ (Files(s).mp4 = Nothing \/ Files(s).thumb = Nothing) /\ Fail(s)
       \/ MayFail(s)

PreProcess(s) ==
    /\ Download(s) \/ ConvertToMp4(s) \/ GenerateThumb(s) \/ StoreVideo(s)
       \/ FinishPreProcess(s)
    /\ UNCHANGED <<uploadVars, status, last, queueVars, worker, askVars, outages>>

\* Mutant: the error of the row is logged only.
SaveRow_IgnoresError(s) ==
    /\ slot[s].pc = "saveRow"
    /\ \/ last' = [last EXCEPT ![KeyOwner[KeyOf(s)]] = slot[s].video]
       \/ "db" \in Faults /\ UNCHANGED last
    /\ Goto(s, "ack")
    /\ UNCHANGED <<uploadVars, status, fileVars, queueVars, worker, askVars, outages>>

\* The upsert: one row per user, the last writer wins.
SaveRow(s) ==
    LET written == [last EXCEPT ![KeyOwner[KeyOf(s)]] = slot[s].video] IN
    /\ slot[s].pc = "saveRow"
    /\ \/ ~Cancelled /\ last' = written /\ Goto(s, "ack")
       \/ ~Cancelled /\ "db" \in Faults /\ last' \in {last, written} /\ Goto(s, "setFailed")
       \/ Cancelled /\ UNCHANGED last /\ Goto(s, "setFailed")
    /\ UNCHANGED <<uploadVars, status, fileVars, queueVars, worker, askVars, outages>>

SetFailed(s) ==
    /\ slot[s].pc = "setFailed"
    /\ SetStatus(s, "failed", "nack", "nack")

\* Mutant: the event of a failed handler is acked.
Nack_Acks(s) ==
    /\ slot[s].pc = "nack"
    /\ acked' = acked \cup ({unacked[s]} \ {Nothing})
    /\ unacked' = [unacked EXCEPT ![s] = Nothing]
    /\ slot' = [slot EXCEPT ![s] = Idle]
    /\ UNCHANGED <<uploadVars, status, last, fileVars, ready, dead, worker, askVars, outages>>

\* Nack(false, false): the broker dead-letters the event.
Nack(s) ==
    /\ slot[s].pc = "nack"
    /\ dead' = dead \cup ({unacked[s]} \ {Nothing})
    /\ unacked' = [unacked EXCEPT ![s] = Nothing]
    /\ slot' = [slot EXCEPT ![s] = Idle]
    /\ UNCHANGED <<uploadVars, status, last, fileVars, ready, acked, worker, askVars, outages>>

Ack(s) ==
    /\ slot[s].pc = "ack"
    /\ acked' = acked \cup ({unacked[s]} \ {Nothing})
    /\ unacked' = [unacked EXCEPT ![s] = Nothing]
    /\ Goto(s, "setOk")
    /\ UNCHANGED <<uploadVars, status, last, fileVars, ready, dead, worker, askVars, outages>>

Ended(s) == [slot EXCEPT ![s] = Idle]

\* Reported only after the event is gone; an error is logged.
SetOk(s) ==
    /\ slot[s].pc = "setOk"
    /\ slot' = Ended(s)
    /\ \/ ~Cancelled /\ status' = [status EXCEPT ![KeyOf(s)] = "ok"]
       \/ (Cancelled \/ "cache" \in Faults) /\ UNCHANGED status
    /\ UNCHANGED <<uploadVars, last, fileVars, queueVars, worker, askVars, outages>>

Handle(s) ==
    \/ SetProcessing(s) \/ PreProcess(s) \/ SaveRow(s) \/ SetFailed(s)
    \/ Nack(s) \/ Ack(s) \/ SetOk(s)

-----------------------------------------------------------------------------
(* The worker process and the clock.                                       *)

\* Mutant: the events were consumed with autoAck.
Stop_Drops ==
    /\ worker' = "down"
    /\ unacked' = [s \in Slots |-> Nothing]
    /\ slot' = [s \in Slots |-> Idle]
    /\ UNCHANGED <<uploadVars, status, last, fileVars, ready, acked, dead, askVars>>

\* The container keeps its temporary directory; nothing removes the files.
Stop ==
    /\ worker' = "down"
    /\ ready' = ready \cup ({unacked[s] : s \in Slots} \ {Nothing})
    /\ unacked' = [s \in Slots |-> Nothing]
    /\ slot' = [s \in Slots |-> Idle]
    /\ UNCHANGED <<uploadVars, status, last, fileVars, acked, dead, askVars>>

Crash ==
    /\ "crash" \in Faults /\ outages < MaxOutages
    /\ worker # "down"
    /\ outages' = outages + 1
    /\ Stop

Sigterm ==
    /\ "sigterm" \in Faults /\ outages < MaxOutages
    /\ worker = "up"
    /\ worker' = "draining"
    /\ outages' = outages + 1
    /\ UNCHANGED <<uploadVars, status, last, fileVars, queueVars, slot, askVars>>

\* main does not wait for the handlers.
Exit ==
    /\ worker = "draining"
    /\ Stop
    /\ UNCHANGED outages

Start ==
    /\ worker = "down"
    /\ worker' = "up"
    /\ UNCHANGED <<uploadVars, status, last, fileVars, queueVars, slot, askVars, outages>>

\* The TTL of a status entry runs out.
Expire(k) ==
    /\ "expire" \in Faults
    /\ status[k] # "none"
    /\ status' = [status EXCEPT ![k] = "none"]
    /\ UNCHANGED <<uploadVars, last, fileVars, queueVars, slot, worker, askVars, outages>>

Next ==
    \/ \E k \in Keys : Upload(k) \/ Put(k) \/ Status(k) \/ LastVideo(k) \/ Expire(k)
    \/ \E s \in Slots : Deliver(s) \/ Handle(s)
    \/ Crash \/ Sigterm \/ Exit \/ Start

Spec == Init /\ [][Next]_vars

\* Goroutines run, the broker delivers, a stopped worker comes back; whether a
\* client uploads, and what fails, is not the program's to promise.
Fairness ==
    /\ \A s \in Slots : WF_vars(Deliver(s)) /\ WF_vars(Handle(s))
    /\ WF_vars(Exit) /\ WF_vars(Start)

FairSpec == Spec /\ Fairness

-----------------------------------------------------------------------------
(* What must hold.                                                         *)

TypeOK ==
    /\ request \in [Keys -> {"new", "granted", "failed"}]
    /\ object \in [Keys -> 0..MaxPuts]
    /\ status \in [Keys -> Statuses]
    /\ last \in [Users -> Puts \cup {Nothing}]
    /\ stored \subseteq Puts
    /\ scratch \in [Keys -> [raw : Puts \cup {Nothing}, mp4 : Puts \cup {Nothing},
                            thumb : Puts \cup {Nothing}]]
    /\ ready \subseteq Puts /\ acked \subseteq Puts /\ dead \subseteq Puts
    /\ unacked \in [Slots -> Puts \cup {Nothing}]
    /\ slot \in [Slots -> [pc : SlotPcs, event : Puts \cup {Nothing},
                           video : Puts \cup {Nothing}]]
    /\ worker \in {"up", "draining", "down"}
    /\ asking \in [Keys -> BOOLEAN]
    /\ told \in [Keys -> {Nothing} \cup ({"error", "notFound", "ok"} \X (Puts \cup {Nothing}))]
    /\ outages \in 0..MaxOutages

\* A client told that its upload is ready is always given a video to stream,
\* although Redis and the row are written and read apart.
ReadyHasVideo == \A k \in Keys : told[k] # Nothing => told[k][1] # "notFound"

\* The video a client is given was made of an upload of its own, however many
\* handlers share the scratch directory.
VideoIsOwn ==
    \A k \in Keys :
        told[k] # Nothing /\ told[k][2] # Nothing =>
            told[k][2] \in stored /\ KeyOwner[told[k][2][1]] = KeyOwner[k]

\* An event is acked only after the user's row names a stored video.
AckedIsRecorded ==
    \A e \in acked : last[KeyOwner[e[1]]] \in stored

Using(k) == {s \in Slots : slot[s].pc \in PreProcessPcs /\ KeyOf(s) = k}

\* When no handler of a key is in PreProcess, no scratch file of it is left, unless
\* a worker was stopped: handlers of one key remove each other's files.
NoFileLeft ==
    \A k \in Keys : outages = 0 /\ Using(k) = {} => scratch[k] = NoFiles

\* Every event is eventually acked or dead-lettered, through a restart too.
EventsSettle ==
    \A e \in Puts : object[e[1]] = e[2] ~> e \in acked \cup dead

\* The records agree with one another: acks with rows, scratch files with handlers.
RecordsAgree == TypeOK /\ AckedIsRecorded /\ NoFileLeft
=============================================================================
