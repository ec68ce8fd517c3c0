# FFgif in TLA+

Specifications of FFgif (Go): an HTTP API that takes video uploads, converts clips
to GIFs in background workers, and keeps a library of them for its users. They
live beside the code they model. Paths are relative to the repository; `convert.go`,
`run_conversion.go` and the like are in `internal/app/media`.

## The system

Three programs run: the API (`cmd/ffgif`), the worker (`cmd/worker`) and, once per
deployment, `cmd/bootstrap`. They share PostgreSQL, Redis (short-lived status entries,
blocklist, rate limits), RabbitMQ (durable work queues, each dead-lettering to a `.dead`
queue) and MinIO (a temporary bucket for raw uploads, a storage bucket for results). No
two of these are ever changed in one transaction, which is where most of the hard
behaviour is.

| Component | State | Operations | Module |
|---|---|---|---|
| Convert request (`convert.go`) | per-user mutex, quota row, job row, three Redis entries | `Convert`; publishes on `process.queue` | `Conversion` |
| Conversion worker (`converter_worker.go`, `run_conversion.go`) | deliveries, job row, gif rows, quota, Redis | `handle`, `Process` | `Conversion` |
| Conversion status (`conversion_status.go`) | none of its own | `ConversionStatus` reads Redis, then Postgres | `ConversionPoll` |
| GIF processor (`internal/infra/ffmpeg`) | scratch files, objects in MinIO | `Process` | `GifProcessor` |
| Upload and preprocessing (`upload.go`, `processing_worker.go`, `process_and_save.go`, `status.go`) | raw objects, status entry, `last_upload` row | `Upload`, `handle`, `PreProcess`, `Status`; MinIO events | `UploadPipeline` |
| Save worker (`save_metadata.go`, `save_metadata_worker.go`) | `last_upload` row, `save.retry.queue` | `SaveMetadata` | `SaveRetry` |
| Accounts (`internal/app/auth`) | users, profiles, quota, verifier and reseter rows | sign up, verify, resend, forgot, reset, login | `Accounts` |
| Profiles (`internal/app/user`) | users, profiles | patch with an ETag, password, deletion | `Accounts`; its cascades in `Community` |
| Email worker (`email_worker.go`) | deliveries of `email.queue` | `handle`, over SMTP | `Accounts` |
| Sessions (`login.go`, `logout.go`, `middleware/auth.go`) | JWTs, blocklist in Redis | login, logout, the `Auth` middleware | `Gateway` |
| Rate limiter (`internal/infra/redis/rate_limiter`) | a token bucket per address | one Lua script, `Limit` middleware | `TokenBucket`, `Gateway` |
| GIF library (`update.go`, `delete.go`, `save.go`, `download.go`) | gif rows, objects | edits with an ETag, deletes, saves, downloads | `GifLibrary` |
| Sharing (`internal/app/share`) | `shares`, `share_tokens` | share, link, revoke, lists | `GifLibrary` |
| Friendships (`internal/app/friend`) | `friendships` | ask, accept, reject, remove, list | `Friendships` |
| Bootstrap (`cmd/bootstrap`) | database, migrations, buckets, queues, demo data | `all`, `migration`, `minio`, `rabbitmq`, `seed` | `Provision`, `Bootstrap` |

Which behaviours are hard:

* every handler is a sequence of independent writes to three or four stores; a crash,
  an error or another handler may come between any two;
* most requests read in one statement and write in another, with no transaction around them; the transactions of
  `With` (sign up, verify, reset) are repeatable read, those of `WithRC` (the two patches) read committed
  (`transaction_manager.go:23`);
* RabbitMQ delivers again whatever was not settled, and a handler may outlive the
  connection its delivery came over;
* SIGTERM cancels the context of the handlers in flight, so that their error paths fail
  as well, and `main` does not wait for them;
* clients read two stores, one after the other, while both are written;
* scratch files are shared between handlers and survive a crash;
* Redis entries and rows expire at different times, by different clocks.

What makes the components correct is stated at the end of each module, and under Runs.

## Modules

| Module | Models |
|---|---|
| `JobBoard` | the abstract promise of the conversion pipeline |
| `Conversion` | `Convert`, the conversion worker, the broker, crashes; implements `JobBoard` |
| `ConversionPoll` | clients polling `ConversionStatus`, composed with `Conversion` |
| `GifProcessor` | the scratch files inside `processor.Process`, one step of `Conversion` |
| `UploadPipeline` | presigned URL, upload events, preprocessing, `Status` |
| `SaveRetry` | the save worker and its two retries |
| `Accounts` | accounts, their mailed links, profiles; the email worker |
| `Requests` | requests of several statements over one users table |
| `Friendships`, `GifLibrary` | the operations of the two, each over `Requests` |
| `Community` | the composition of both, with the deletion of users |
| `AccessBoard` | the abstract promise of a download; implemented by `GifLibrary` |
| `TokenBucket`, `Gateway` | the arithmetic of the limiter; limiter, JWT and blocklist in front of every handler |
| `Provision`, `Bootstrap` | the statements of `cmd/bootstrap`; its demo data on top |
| `...Proofs` | theorems, a module of them per component: `ConversionProofs` has those of `ConversionPoll` too, `BootstrapProofs` those of `Provision` |
| `MC...` | small instances for TLC |

### Conversion

| State | In the code |
|---|---|
| `pc`, `userMu` | where each request is in `Convert`; the user's entry in `userConvertMu` |
| `used`, `row`, `gifs` | `quota.gif_count`, the `jobs` and `gifs` tables |
| `minted` | how many gifs the processor has uploaded for a job: each has a fresh random key, modelled as `<<job, n>>` |
| `cache` | the `messaage_queue_owner:`, `messaage_queue:` and `messaage_queue_gif:` entries of a job |
| `ready`, `unacked`, `acked`, `dead` | `process.queue` and what became of its messages |
| `slot` | a goroutine of the worker: the call of `Process` it makes next, and the gif key it holds |
| `worker` | up, draining (SIGTERM received), cut (connection lost, handlers still running), down |

There is one action per call that reads or writes a store: six in `Convert`, then its return (`Respond`: the API may die
between the publish and the answer), ten in `Process`, then `Ack` or `Nack`. An error of such a call is a disjunct of its action,
enabled when its kind is in `Faults`; a write that reports an error may or may not have
been made. A request for a video whose key is another user's (`Foreign`) is refused before the mutex (`RefuseKey`). A call under a cancelled context fails without effect; the call that is in
flight when the signal arrives is covered, with its effect, by the faults `cache`,
`db` and `ffmpeg`. Since the mutex serialises the requests of a user and `gif_count`
is the only thing they share, an API process is not modelled beyond its crash.
Progress numbers, messages and logging are left out. So is the byte quota:
`IncrementUsage` is always called with 0 bytes (`run_conversion.go:58`).

The queue is a set: nothing modelled here depends on the order of delivery, and any order
can occur with several slots.

`ConversionPoll` adds one step for each of the up to four reads of `ConversionStatus`. A
client polls a job whose id some `Convert` has returned.
The expiry of an entry is an action of this module: the pipeline only writes Redis, so nothing
but a poll can tell.

### GifProcessor

`Conversion` takes `processor.Process` for one step with a fresh key. `GifProcessor` opens
that step: download, palette pass, gif pass, thumbnail, two uploads, deferred removals. The
content of a gif is the pair (job whose clip it shows, job whose palette it uses). A call
whose input file is missing fails; a failing call may always fail by itself under `ffmpeg`.
Files half written by a killed ffmpeg, and the read of a file while another handler writes
it, are not modelled: a write is atomic.

### UploadPipeline

State: the `Upload` request of each key, the raw object, the `uploading:` entry, the
`last_upload` row, the scratch files, the event queue, the slots, the `Status` request of
each key between its two reads, and what it last answered. `Status` is a step only when it
finds the word "ok", and `told` keeps what the row read next gave: an answer after the first
read is the entry's word as it is. The second PUT to one URL is a
second event of the same key. The byte quota check of `Upload` passes always, for the
reason above. A lost broker connection is not modelled here (it is in `Conversion`).

### SaveRetry

`video.save.queue` is a sequence because a requeued delivery returns to its place near the
head while a copy from `save.retry.queue` comes in at the tail. A crash, an error of the
storage and an error of the database count against one bound, `MaxFailures`; publishing the
copy may fail at any time. Nothing in the repository
calls `PublishSaveVideo`, so publishing and storing the object are the environment's. A user id that does not parse
(`BadUser`) is rejected; one that parses and has no row of `users` (`NoUser`) fails the foreign key of `last_upload` on
every attempt, and is requeued for ever. The deletion of a user, which takes the row of `last_upload` with it, is not
modelled here or in `UploadPipeline`: it would make `AckedIsSaved` and `ReadyHasVideo` false for that user.

### Accounts

| State | In the code |
|---|---|
| `users`, `profiles`, `quotas`, `verifier`, `reseter` | the tables; a row of `users` has its email, password, whether it is verified, and its `updated_at` as a number |
| `spent` | ids that had a row once: the database draws a new id for every account |
| `issued`, `mail`, `inbox` | what each token was drawn for, where its mail is (`email.queue`, dead-lettered, lost), and the mailbox |
| `sessions` | ids some JWT names; the account may be gone |
| `flight` | the request of each client between two statements: what it has read |
| `answer` | what the API claimed in the last step |

A statement is an action, and a transaction is the action that commits it (`With` also lets
it fail and roll back, which is what repeatable read does to a write that finds its row changed since the snapshot); `UpdateProfile` is two, because it holds the row lock from its
select to its update, and whoever writes or references that row waits (`Locked`). What is
mailed is the token and what is stored is `Hash(t)`: the look-ups of `Verify` and of
`ResetPasswordGet/Post` say which of the two they compare. An `If-Match` is the version a
`GET` handed out, with the quotes of the `ETag` header taken off as the web client does; one echoed with its quotes is
refused. The operators `SignupCode` and
so on are the handlers' mapping of errors to statuses. A refused request that wrote nothing
leaves no `answer`. Names, avatars and the text of mails are left out. SIGTERM at the email worker, and a mail
sent again after a lost ack, end like a crash: the mailbox is a set.

### Requests, Friendships, GifLibrary, Community

`Requests` has the users table and the request of each client: where it is, for whom, and
what its first statement read. A client asks the library and the friendships in any order.
`Abandon` ends a request anywhere: a failing statement, or the API's death.

`Friendships`: `SendRequest` is two statements, every other operation one. `agreed` is
bookkeeping that no guard reads: who asked and who accepted.

`GifLibrary`: every operation starts with the read of the gif's owner (`Owns`), and writes in
a later statement. `version` stands for `updated_at`, from which the ETag is computed, quotes as in `Accounts`; an edit
holds its row from `UpdateSelect` to `UpdateCommit`. A gif appears as the conversion leaves it: the object
first, then the row. Expiry is an action; deletions cascade. `SharedWith` is
the query behind the list of shares: those with the user that are live, and those by the user, expired or not. A gif has one address to
make links for. `DownloadByToken` compares the token as mailed with the stored
hash, as `share_repo.go:69` does.

`Community` conjoins both and adds `DeleteUser` (`delete_user.go`) with its cascades over
gifs, shares, links and friendships.

### TokenBucket and Gateway

`TokenBucket` is the Lua script as operators over integers: time in ticks, a token as `Second`
parts. The script computes with fractions; in these units its results are exact. `Gateway` gives every
request the steps of the middleware chain: read the clock, run the script (up to `MaxLag`
ticks later and in any order, which is what several API processes or a slow one amount to), check the JWT, check the
blocklist, then the handler of login, logout or any other. Signing a JWT, checking it and computing what is left of it
at logout each take any clock up to `MaxLag` behind the fastest (`Clocks`); Redis' keys end by the fastest. When Redis is
not reached the request ends in a 500, and the script may have run or not (`Limit`, `LimitFails`). `MaxTime` and `MaxAsked`
bound the run. `passed` and `before` are bookkeeping that no guard reads: how many requests the
bucket let through, and how many of them before each tick.

### Provision and Bootstrap

A command is the list of its statements, done in order; `placed` is what exists. A statement makes what is missing and leaves what
is there. `Fail` ends the command before any statement; what is done stays and `Launch` starts
from the beginning. A migration is marked dirty, applied, marked clean, as golang-migrate does;
the fifteen migrations are `Newest` ones here. `Bootstrap` adds the seed: rows drawn in memory and
inserted batch by batch, each statement of its own, where an email may repeat one of an
earlier seeding. Gif keys are taken to be distinct: two equal draws of 8 hexadecimal digits (`seed.go:330`), where the insert
skips a gif that the quota counts, are left out. `seed.go`'s names, sizes and dates are left out.

## Runs

Most properties that a run names are conjunctions of named parts, which are given here too.
Runs that turn the deadlock check off say so because requests, jobs
and polls are finitely many there and the system may stop when they are done; that nothing stops
halfway is what the liveness properties say.

| Run | Bounds | Shows |
|---|---|---|
| `conversion_safety` | 2 jobs of one user and a request for another's video, limit 1, 2 workers with a slot each, 1 crash or lost connection, failing cache, database, ffmpeg and publishes, lost publishes | `TypeOK`, `MessageInOnePlace`, `UsageCoveredByGifs`, `AckedJobHasGif`, `ResultsAgree` (`UsageWithinLimit`, `CompletedNamesResult`) |
| `conversion_rows` | 2 jobs of one user, a worker with 2 slots, 2 outages among crash, SIGTERM and API crash, failing cache and publishes; no errors of Postgres or ffmpeg | `RowsAgree` (`AcceptedIsPublished`, `AckedJobIsDone`), `SettledRowIsFinal`, `ImplementsBoard`, `RequestsReturn`, `AcceptedJobsSettle` |
| `poll_answers` | owner and stranger, 1 job, 2 workers with a slot each, expiry, failing cache and ffmpeg, SIGTERM or lost connection (1 outage) | `AnswersAgree` (types, `SuccessNamesGif`), `StrangerLearnsNothing` |
| `poll_live` | owner, 1 job, 2 slots, database and ffmpeg errors, 2 crashes | `PollsNeverGoBack`, `OwnerIsTold` |
| `upload` | 2 users with a key each, 2 PUTs in all (`MaxPuts`), 2 slots, 1 crash or SIGTERM, expiry, every error | `RecordsAgree` (types, `AckedIsRecorded`, `NoFileLeft`), `ReadyHasVideo`, `VideoIsOwn`, `EventsSettle` |
| `save` | 4 messages: two of one user, one with a bad user id, one of a user without a row; 2 slots, 2 copies each, 1 crash or failure | `MessagesKept` (types, `NothingLost`, `OnlyBadIdsDie`), `AckedIsSaved`, `CopiesDrain` |
| `processor` | 2 jobs of one video, 1 of another, 2 slots, 2 crashes, ffmpeg errors | `GifsAgree` (types, `LoneGifIsItsOwn`, `GifIsOfItsVideo`, `DoneHasGif`, `NoFileLeft`), `JobsEnd` |
| `accounts` | 1 email, 2 ids, 2 passwords, 2 tokens, 2 clients, 1 update, 1 outage: failing statement, publish or mail, crash, or expiry | `TablesAgree` (types, `AccountsAreWhole`, `OneAccountPerEmail`, `PatchSeesItsVersion`), `VerifiedByOwnLink`, `StoredLinkIsMailed`, `AnswersAreTrue`, `MailedLinkWorks` |
| `community` | 2 users, 1 gif, 2 clients, 2 updates; any statement may fail | `SharesAgree` (types, `GrantsAreOwners`, `ListedIsOpen`), `RowHasObject`, `EditSeesItsVersion`, `FriendsAgree` (`FriendsAgreed`, `FriendListsAgree`), `ImplementsAccess` |
| `gateway` | 2 clients, 4 requests, 8 ticks, clocks 1 tick old, a bucket of 2, JWTs of 2 s with 3 ticks to a second | `BucketIsSound` (types, `ExpiryGivesNothing`), `WindowBound`, `WaitSuffices`, `LoggedOutIsRefused` |
| `bootstrap` | 2 migrations, 2 seedings of 2 users with up to 2 gifs, batches of 1, 1 link, 1 outage | `SetupIsSound` (types, `DeadQueuesExist`, `ReadyIsComplete`), `SeedAgrees` (types, `SeedIsWhole`, `QuotaCountsGifs`, `SharesAmongFriends`), `SetupCompletes` |
| `conversion_double_spend` | 2 jobs of one user, limit 1, no faults | ends in a violation, see Disagreements |

Why these bounds are enough for the case to happen:

* Two jobs in two slots are what every interleaving property of the pipelines needs (two requests against one
  quota place, a stale handler beside the redelivery's, two handlers of one file); a second
  outage adds a redelivery of a redelivery.
* Two ids on one email give an account that was deleted and its successor, with links of both about;
  two tokens let a resend replace a link; two clients race any two requests. One update is enough for an ETag to go stale.
* Two copies of one message fill both slots of `save`, or leave one in the retry queue behind a settled one.
* Two users and one gif give owner, addressee and stranger (the addressee of a share that went);
  what one gif's rows do is independent of other gifs. Two updates let an edit and a
  download race and leave one ETag behind.
* In `gateway` the bucket empties, fills and overflows, the key expires, and a JWT and its entry
  end within 8 ticks. The rate does not divide a second, so every rounding is exercised.
* A second seeding meets rows of a first that stopped at any batch; batches of one row put a
  stop between any two rows.
* `conversion_safety` reduces by symmetry: its two jobs are of one user, its two workers have a slot each, and no
  definition tells either two apart; its properties are invariants.

The theorems below remove the bounds for the properties they cover.

Why a run leaves a fault out, or a property an outage:

* `AckedJobIsDone` needs Postgres to answer: the errors of `UpdateStatus` are dropped, so a
  job may be acked with its row behind. It and `SettledRowIsFinal` need the handlers to end
  with their connection: a stale handler can set a finished row back to "processing".
* `AcceptedIsPublished` needs publishes not to be lost: there are no publisher confirms.
* `PollsNeverGoBack` fails, as one expects, when entries expire (the row lags behind the
  cache) or Redis errs, and says nothing of the answers after an outage, when the job is
  converted again.
* `NoFileLeft`, in `UploadPipeline` and `GifProcessor`, speaks of states before any outage:
  nothing cleans the scratch directory at start.
* `AcceptedJobsSettle` is checked without the fault `cut`:
  a worker that has lost its connection stays alive without consumers, and nothing restarts it.
* `CopiesDrain` is claimed while no message of a user without a row is published: such a message returns to the queue's
  head for ever, and its copies can hold every slot (`save_metadata_worker.go:76`).
* `SetupCompletes`: again and again a run of `all` ends well and has everything in place. It excepts a migration cut
  short and never cleaned, whose dirty mark stays for good (`<>[]dirty`): golang-migrate refuses such a database until
  somebody forces its version. The mark that every migration sets while it runs is not excepted.
* `conversion_rows` has no errors of ffmpeg: a handler whose context is cancelled fails at the same call and takes
  the same way out. `poll_live` has them.
* `ExpiryGivesNothing` needs `MinTtl` to exceed the time to fill the bucket by the lag
  (`GatewayAssumption`): the script's 6 s (`rate_limiter.go:30`) do for the limits the routes set, for lags up to about 4 s.
* `LoggedOutIsRefused` speaks of JWTs that live by the fastest clock: a process whose clock is behind goes on taking one
  for up to `MaxLag` after its blocklist entry has ended.

What a property leaves open, because the code does:

* `GifsAgree` allows two conversions of one video to swap their gifs, and `FriendsAgree` two rows for one pair (both
  under Disagreements); they rule out everything beyond that: another video's gif, a foreign clip where nothing is
  shared, a friendship one end never agreed to.
* `AnswersAreTrue` says of a "verified" answer that the account is verified if it is still there.
* `AcceptedIsPublished` is about the publish and the answer: a request between them, or one whose API died there, has its
  message in the pipeline as an accepted one has.
* `PollsNeverGoBack` is about the entries: under its premise no poll falls back to the row.

### Fairness

Weak fairness on each request, delivery and handler: goroutines are scheduled, every call
has an end (the model's calls either work or fail), the broker delivers to a consumer with
room. Weak fairness on `Exit` and `Start`: a draining worker ends when its loops have
returned, and `docker-compose.yml:269` restarts it. None on `Crash`, `Sigterm`,
`Cut`, `Expire`, nor on any fault; none on a client except where the property is about one:
in `poll_live` the owner keeps polling (strongly: its one request at a time is enabled again
and again), in `accounts` whoever finds a link in the mailbox clicks it until it has been served (strongly,
for the same reason). `SaveRetry` adds the TTL of the retry queue. In `bootstrap` a command that runs goes on, and `all` is
launched again whenever it has ended: the container is not restarted (`docker-compose.yml:151` has `restart: "no"`), so this is an
operator who runs it again until it has ended well, and on later deployments.

### Disagreements

`conversion_double_spend` finds a state that a test of the repository rules out: two requests
pass the quota check before either is billed (`convert.go:34`), which
`TestConvert_ConcurrentJobsCannotDoubleSpendTheLastQuotaSlot` (`service_test.go:495`, its message at 527) claims cannot happen. The
test passes: its mock hands every request the same `*Quota`, so the increment of `convert.go:37` is seen by the next one, which no
row read from Postgres does. The others were met while modelling and have no run; the models contain the behaviour, and the
properties above are stated so that they hold in spite of it.

| Where | What happens | What says otherwise |
|---|---|---|
| `run_conversion.go:29` | a shutdown dead-letters the job, but the write of "failed" has a cancelled context: the entry stays "processing" | `README.md:223` |
| `ffmpeg.go:202` | no `-y` for the thumbnail: one left by a crash makes a valid video fail | `README.md:175` |
| `processor_repo.go:26` | scratch files are named after the video: two conversions of one swap their gifs | `README.md:53` |
| `converter_worker.go:73` | a conversion's first failure is dead-lettered, not requeued | `worker_test.go:166` |
| `run_conversion.go:39` | writes the status "completed", which the documented list of words lacks | `docs/openapi.yaml:678` |
| `processing_worker.go:102-108` | acks before it writes "ok": a worker that dies in between leaves a valid video "processing" until the entry expires | `README.md:171-174` |
| `forgot_password.go:33`, `reset_password.go:13` | the hash of the reset token is stored and the token itself looked up: no reset link works | `README.md:35`, `README.md:481-482` |
| `create_by_token.go:34`, `share_repo.go:69` | the same for share links: no link opens | `service_test.go:316` of `internal/app/share` |
| `share_repo.go:39` | a second link for an address keeps the first one's hash and mails a new token | the same |
| `share/delete.go:13` | an expired share is not found and cannot be revoked, and a new share revives it | |
| `friend/service.go:33` | two users who ask each other at once make two rows: after both are accepted, removing one leaves them friends | `README.md:494` |
| `friend_repo.go` | reject and remove are one statement that looks at no status: a late reject ends a friendship | `README.md:493` |
| `delete_user.go` | the rows go, the objects in the bucket stay; so do thumbnails of a deleted gif | `README.md:488` |
| `media/download.go:28` | the counter of a deleted gif matches no row, and a URL is signed all the same | |
| `auth_repo.go:237` | the upsert of a reset row keeps the old row's expiry: the new link may be dead on arrival | |
| `resend_verify.go` | a verified user who asks for the mail gets a 500 | `docs/openapi.yaml:111` |
| `get_by_key.go:44`, `get_profile.go:35` (handlers) | `GET` sends the ETag in quotes, `media/update.go:35` and `user/update_profile.go:19` compare the `If-Match` as it comes with the bare time: a client that echoes the header gets a 412 (the web client takes the quotes off, the integration tests take the time from the body) | `docs/openapi.yaml:245-265` |
| `save_metadata.go:35`, `save_metadata_worker.go:76` | a message of a user without a row fails its insert on every attempt and is requeued at once, for ever | |
| `logout.go` | blocklists the token: tokens have no JTI | `docs/openapi.yaml:155` |
| `seed.go:276-293` | a user skipped for a repeated email fails the foreign key of the batch's profiles: seeding again may fail | |

## Theorems

Each theorem holds for every value of its component's constants that the component's `ASSUME`
allows: any users, jobs, keys, messages, workers and slots (`Conversion` and `SaveRetry`: finitely many slots), any faults
and any bounds on versions, outages and copies. The other assumptions only say that
`Nothing`, `NoJob` and `None` are none of the values beside them; that of `Gateway` also asks that the
key's least life exceeds the time to fill the bucket by the lag, as the code's 6 s do for the limits of its routes and lags up to about 4 s.
`Bootstrap`'s bounds on users, gifs, links and batches are positive.
`SettledRowFinal`, `RowsCorrect` and `NeverGoBack` assume faults away, in their statement: see "Why a run leaves a
fault out". Some theorems reach further than the run of their property: `BoardRefined` has stale handlers (the run of
`ImplementsBoard` has no `cut`), `VideoIsOwnAlways` several keys of a user.

| Theorem | Says |
|---|---|
| `ConversionProofs!TypeCorrect` | `[]TypeOK` |
| `ConversionProofs!OnePlace` | `[]MessageInOnePlace` |
| `ConversionProofs!UsageCovered` | `[]UsageCoveredByGifs` |
| `ConversionProofs!AckedHasGif` | `[]AckedJobHasGif` |
| `ConversionProofs!ResultsCorrect` | `[]ResultsAgree` |
| `ConversionProofs!BoardRefined` | `Spec => Board!BoardSpec` |
| `ConversionProofs!SettledRowFinal` | `SettledRowIsFinal`, an action property, without the fault `cut` |
| `ConversionProofs!RowsCorrect` | `[]RowsAgree`, without the faults `lost`, `db` and `cut` |
| `ConversionProofs!AnswersAgreeAlways`, `StrangersLearnNothing` | `[]AnswersAgree`, `[]StrangerLearnsNothing` |
| `ConversionProofs!NeverGoBack` | `PollsNeverGoBack`, an action property, without the faults `cache` and `expire` |
| `ProcessorProofs!GifsAgreeAlways` | `[]GifsAgree` |
| `UploadProofs!RecordsAgreeAlways`, `ReadyHasVideoAlways`, `VideoIsOwnAlways` | `[]RecordsAgree`, `[]ReadyHasVideo`, `[]VideoIsOwn` |
| `SaveProofs!MessagesKeptAlways`, `AckedSaved` | `[]MessagesKept`, `[]AckedIsSaved` |
| `AccountsProofs!TablesAgreeAlways`, `VerifiedByOwnLinkAlways`, `StoredLinkIsMailedAlways`, `AnswersTrueAlways` | `[]TablesAgree`, `[]VerifiedByOwnLink`, `[]StoredLinkIsMailed`, `[]AnswersAreTrue` |
| `CommunityProofs!FriendsAgreeAlways`, `RowHasObjectAlways`, `EditSeesItsVersionAlways`, `SharesAgreeAlways` | `[]FriendsAgree`, `[]RowHasObject`, `[]EditSeesItsVersion`, `[]SharesAgree` |
| `CommunityProofs!AccessRefined` | `Spec => Access!Spec` |
| `GatewayProofs!BucketSound`, `WindowBounded`, `WaitIsEnough`, `LoggedOutRefused` | `[]BucketIsSound`, `[]WindowBound`, `[]WaitSuffices`, `[]LoggedOutIsRefused` |
| `BootstrapProofs!SetupSound`, `SeedAgreesAlways` | `[]SetupIsSound`, `[]SeedAgrees` |

### Conversion

None of these invariants is inductive. What is added, in the order of the module:

* `SlotCarries`: a slot at work has a job, and past the processor the key of an uploaded gif.
  Types alone do not survive `RunProcessor` and `CreateGif`.
* `PlaceInv` adds to `MessageInOnePlace` that only a request that got past the publish has a message (`Sent`; so a
  publish meets no older one) and that an unsettled delivery is the job its slot works on.
* `BillInv` adds that gif keys are fresh: no two slots carry the same key, and a slot's key is
  in `gifs` exactly when the slot is about to bill it. Counting the slots about to bill a
  user with what is billed gives a sum that the insert raises on both sides and the bill
  moves from one term to the other.
* `AckInv` adds that a slot about to ack has a gif row of its job behind it, and that a job in
  a slot was published even when the broker has taken the delivery back.

`IInv` is their conjunction. `BoardRefined` uses it for the two steps where a stale handler
could take a board step it must not: inserting a gif after the job has ended (allowed: `Record`)
and settling a delivery it no longer holds (a stutter). `ResultInv` adds to it what an entry
may say before it says "completed": a slot about to write that word finds the gif entry
written, whichever handlers of the job wrote and forgot it before, and the entry never names
a gif the processor has not uploaded.

The rows: without `cut`, `HeldInv` says that a handler at work holds the delivery it works on. With
`MessageInOnePlace` no other handler then works on its job and the job is not settled, and the
only writer of an accepted job's row is such a handler: `SettledRowFinal`. `RowInv` adds for `RowsCorrect` that every
job whose publish returned is in the queue, in a slot or settled (`AllPublished`), and what the handler has behind it
at each statement: past the write of "done" its own key is in the row, past the insert that gif is recorded (`RowBehind`). A
handler that starts over writes the row again, before it can ack.

### ConversionPoll

`IInv` is carried along, since a poll's steps leave the pipeline alone. Entries expire here, so what
`ResultInv` says of the gif entry is too strong; what is left is that the entry of a job that says "completed", or
of a slot about to write that word, is "result" or gone, never "queued" (`EntriesInv`). `RequestsInv` says the same of a poll that has read
"completed" and is about to read the gif, although the entry may expire or be written again in between; and that a poll past
the owner check is the owner's, whichever store the check read.

`OrderInv` is for `NeverGoBack`, where Redis keeps what it is given (`RedisKeeps`), and speaks of the states before any outage. Handlers then hold
their deliveries, so a job has one handler and is delivered once; a job that was not delivered is "queued"
(`EntriesThere`, `NewDeliveries`), which is why the handler's first write takes nothing back. What a client was told is behind what its request
has read, and that is behind the entry (`AnswersBehind`).

### GifProcessor and UploadPipeline

Both share scratch files among handlers, and in both the argument is whose files they can be. In `ProcessorInv`
a file of a video was written by a job that converts it (`FilesOfVideo`), so what a handler finds, its own or
another's, is of its video; where one job alone converts a video, `LoneGifIsItsOwn` follows from that. `SlotsHold` (no job in two slots) and
`UploadedIsStored` give `DoneHasGif`. `NoFileLeft` is inductive with them: the deferred removals of the last handler
of a video take whatever is there.

`UploadInv`: a file of a key was made from an upload of the key (`FilesOfKey`); a handler past the upload of its video,
and a row, have a stored video (`VideosKept`); whoever is to ack or to report, and whoever has read "ok", has the
user's row behind it (`SuccessIsRecorded`). Rows are replaced and entries expire, but never back to no row, which
is why the answer holds although it is read after the word. `EventsReal` says that PUTs in queues and slots were made; `DrainingIsOutage` that a
handler cannot be cancelled before the first outage, without which it would skip its removals.

### SaveRetry

The properties count the copies of a message in a queue, a retry queue and the slots; the invariant says
where they are. `CopyInv`: a message that was published and not settled is in one of the three; one whose user id does not
parse is in one place at a time, once, and never in the retry queue, since it is rejected before anything is retried. A message of
a user without a row never comes to its ack, since the insert is refused.
`SlotInv` says what a slot knows at each statement (its object is stored, its row is written), and `RowsInv` that a row is made of a
stored upload of its user, and is never taken away. The count follows from `CopyInv` by
the lemmas on sequences and finite sets.

### Gateway

* The bucket: it is never above `Full`, and its debt is at most the refill of a lag, because a request's clock is at
  most `MaxLag` behind the last (`BucketInv`). What it `Holds` at the clock is not negative; what it will hold a lag before its key expires
  is `Full`, which is where the assumption on the key's life is used.
* `WindowBound` is the claim with nothing left in the bucket. `WindowInv` adds what the bucket may still let
  through (`Level`, what it holds at the clock or, when there is no key, as if full): taking a token moves `Second` parts from one term to
  the other, a tick adds `Rate` to both sides, and a key that expires was full by `BucketInv`.
* `WaitSuffices`: `ToldInv` keeps that the bucket was last used by the refused request. The rest is
  the arithmetic of the two roundings (`Division`): both are up.
* `LoggedOutIsRefused`: every JWT whose logout was answered has, while the fastest clock is before its end, an entry (`SessionInv`): the
  entry was given what was left by a clock that is not ahead, so it ends no sooner (`Covers`). The request that came later had a
  JWT that was out then (`FlightInv`).

### Community

* `TypeInv` adds to the types what a request carries at each statement: `Touch` and the inserts are
  typed only if the key and the users in the request's record are there.
* `FriendInv`: a row that exists is pending and agreed to by its requester, or accepted and
  agreed to by both. `FriendsAgree` follows, whatever the crossed requests left.
* `Born`: a key is listed at most once, and only after its object is stored. With it `Knows`: what a
  request's first statement read is still true where it matters (a gif never changes hands, so
  the owner read may at most be gone; a delete that comes to the object has the row gone for good).
* `HoldsOne` and `EditSeesItsVersion` need each other: an edit holds its row because no other
  passes `UpdateSelect` while it is held.

`LibraryInv` is the conjunction. `AccessRefined` uses it in two places: a step of anybody else's changes
owners and grants only as `Change` allows (`AnyChange`), and the second read of a download decides by
the owner read in the first, which is the owner now unless the gif is gone, when its shares are
gone as well.

### Accounts

`AccountInv` is inductive, and has each property only together with what a request in flight
remembers between two statements:

* `Knows`: what the record of a request carries at each statement. A `Verify` past its first
  statement has a link of its own account that was delivered; without this `VerifiedByOwnLink` is lost in the
  step that sets the column.
* `EmailsDiffer`: `OneAccountPerEmail` for pairs. The unique index keeps it when two signups passed
  their check of the same email; no other statement changes an email.
* `LinksOwn`: the token of a stored verification was drawn for that account, and a token nobody has drawn is in
  no row and no mailbox. A row whose token was drawn before keeps it, whatever resends and deletions come between.
* `OnePatch`: no two edits hold one row. With it `PatchSeesItsVersion`: the version an `If-Match` was compared
  with is the row's until the update.

`LinkInv` adds for `StoredLinkIsMailed` that a drawn token is still held by the request that is to publish
it (`DrawnIsHeld`: every way out of that request settles the token as queued or lost), and the
counterpart of `LinksOwn` for resets (`ResetsOwn`).

`HonestInv` adds for `AnswersAreTrue` what each answer needs of the request before it: a request that has written
is about to publish or to insert its link (so no other statement can end in a refusal after a write), and one that
publishes carries 201 or 202. `ResendCreate` is the one statement that may fail after a write of its own request; it answers 500.

### Provision and Bootstrap

`RunInv`: a run is at some place of its command's script, and what the statements before it are for is there (`Done`), since nothing
undoes it. For `SetupIsSound` the rest is in the scripts: each declares a queue after its dead-letter queue (`DeadFirst`), so that wherever a
run stops none is without it, and `all` has everything that `Complete` asks for.

`SeedInv` says for every place a seeding may stop at, by the table it is at (`Stage`) and the rows it drew for it
and still is to insert (`Left`):

* its rows are in the tables before, are partly in this one, what is there with what is `Left` being what was
  drawn, and in none after it (`Untouched`): so no quota counts gifs that come later;
* its ids are its own, and those of earlier seedings stay as they are, which keeps their quotas true;
* users are the exception: one with a repeated email is skipped, and what carries `SeedIsWhole` is that the
  profiles of that batch then fail and end the run.

A quota is counted while the gifs are drawn (`drawn.stats`, the code's `statsMap`), and a bijection from `1..n` to a user's gifs gives the
`Cardinality` in `QuotaCountsGifs` (`GifsAre`).

### Only model-checked

The liveness properties, since the prover has no reasoning over `ENABLED`: `RequestsReturn`, `AcceptedJobsSettle`, `OwnerIsTold`,
`EventsSettle`, `CopiesDrain`, `JobsEnd`, `MailedLinkWorks` and `SetupCompletes`. Every other property of a passing run is a
theorem, three of them without some faults (see above).

## Not modelled

* Undecodable messages (dead-lettered at once) and `retryCount`, which nothing calls; the options handed to
  ffmpeg; half-written scratch files; the three upload attempts of `storage_repo.go`; a failure of the broker itself.
* HTTP decoding, validation, headers and logging; `BlockIP` and `OneTimePerEmail`, which let everything pass;
  configuration and the clients' connections: values read once at start.
* Reads that no other operation depends on: a single gif, recent gifs, thumbnails, public profiles, the quota.
* Anonymous accounts: tables and `Upgrade` exist, no route reaches them.
* Rolling migrations back, and the demo user migration 11 inserts.
* Bcrypt, signatures and randomness: a password is a value, a token a fresh one, its hash one-to-one.

## Plan

Done, in this order: `JobBoard`, `Conversion` with its proofs, `ConversionPoll`,
`UploadPipeline`, `SaveRetry`, `GifProcessor`; then `Accounts`, `Friendships`, `GifLibrary`, `Community`, `AccessBoard`,
`TokenBucket`, `Gateway`, `Provision`, `Bootstrap`; proofs of `Community` and `Accounts`, then of every other component. Next:

1. The deletion of a user while a conversion of theirs runs: `Community` with `Conversion`, whose insert then fails its
   foreign key. Today each has its own half.
2. `UploadPipeline` and `SaveRetry` with the deletion of users, whose cascade takes their `last_upload` row; `UploadPipeline`
   with a lost broker connection.
