--------------------------- MODULE ConversionPoll ---------------------------
(***************************************************************************)
(* Clients polling the status of a conversion while it runs.               *)
(*                                                                         *)
(* ConversionStatus (internal/app/media/conversion_status.go) makes up to  *)
(* four separate reads: the owner entry, the status entry and the gif      *)
(* entry in Redis, and the job row in Postgres when one of the first two   *)
(* is not there.  The pipeline of Conversion writes between any two.       *)
(* A client polls the jobs whose id some Convert has returned.             *)
(***************************************************************************)
EXTENDS Conversion

VARIABLES
    poll,     \* each client's request inside ConversionStatus
    answer    \* what each client was last told of each job

pollVars == <<poll, answer>>
allVars  == <<vars, pollVars>>

PollPcs  == {"idle", "status", "gif", "row"}
NotAsked == [kind |-> "none", status |-> "none", gif |-> "none", key |-> 0]
Mismatch == [kind |-> "mismatch", status |-> "none", gif |-> "none", key |-> 0]
Error    == [kind |-> "error", status |-> "none", gif |-> "none", key |-> 0]

\* A StatusResult; from a row the gif is its result_key.
Result(st, g, k) == [kind |-> "result", status |-> st, gif |-> g, key |-> k]
Asleep == [pc |-> "idle", job |-> NoJob, status |-> "none"]

PollInit ==
    /\ Init
    /\ poll = [u \in Users |-> Asleep]
    /\ answer = [u \in Users |-> [j \in Jobs |-> NotAsked]]

\* The request returns a to client c.
Tell(c, a) ==
    /\ poll' = [poll EXCEPT ![c] = Asleep]
    /\ answer' = [answer EXCEPT ![c][poll[c].job] = a]

Read(c, next, st) ==
    /\ poll' = [poll EXCEPT ![c].pc = next, ![c].status = st]
    /\ UNCHANGED answer

\* A read of an entry that is there may still fail.
Hit(present)  == present
Miss(present) == ~present \/ "cache" \in Faults

PollOwner(c, j) ==
    /\ pc[j] = "accepted"
    /\ poll[c].pc = "idle"
    /\ \/ /\ Hit(cache[j].owner)
          /\ IF Owner[j] = c
             THEN poll' = [poll EXCEPT ![c] = [pc |-> "status", job |-> j, status |-> "none"]]
                  /\ UNCHANGED answer
             ELSE answer' = [answer EXCEPT ![c][j] = Mismatch] /\ UNCHANGED poll
       \/ /\ Miss(cache[j].owner)
          /\ poll' = [poll EXCEPT ![c] = [pc |-> "row", job |-> j, status |-> "none"]]
          /\ UNCHANGED answer
    /\ UNCHANGED vars

PollStatus(c) ==
    LET st == cache[poll[c].job].status IN
    /\ poll[c].pc = "status"
    /\ \/ Hit(st # "none") /\ Read(c, "gif", st)
       \/ Miss(st # "none") /\ Read(c, "row", "none")
    /\ UNCHANGED vars

\* The error of this read is dropped and the gif left empty.
PollGif(c) ==
    LET e == cache[poll[c].job] IN
    /\ poll[c].pc = "gif"
    /\ \/ Hit(e.gif # "none") /\ Tell(c, Result(poll[c].status, e.gif, e.key))
       \/ Miss(e.gif # "none") /\ Tell(c, Result(poll[c].status, "none", 0))
    /\ UNCHANGED vars

RowAnswer(r) == Result(r.status, IF r.key = 0 THEN "none" ELSE "result", r.key)

\* Mutant: the fallback trusts the caller.
PollRow_AnyCaller(c) ==
    LET j == poll[c].job IN
    /\ poll[c].pc = "row"
    /\ \/ row[j].status # "absent" /\ Tell(c, RowAnswer(row[j]))
       \/ (row[j].status = "absent" \/ "db" \in Faults) /\ Tell(c, Error)
    /\ UNCHANGED vars

PollRow(c) ==
    LET j == poll[c].job IN
    /\ poll[c].pc = "row"
    /\ \/ /\ row[j].status # "absent"
          /\ Tell(c, IF Owner[j] = c THEN RowAnswer(row[j]) ELSE Mismatch)
       \/ (row[j].status = "absent" \/ "db" \in Faults) /\ Tell(c, Error)
    /\ UNCHANGED vars

ConversionStatus(c) == PollStatus(c) \/ PollGif(c) \/ PollRow(c)

\* The TTL of one of a job's entries runs out. Nothing but ConversionStatus
\* reads them.
Expire(j) ==
    /\ "expire" \in Faults
    /\ \/ cache' = [cache EXCEPT ![j] = Entries(FALSE, @.status, @.gif, @.key)]
       \/ cache' = [cache EXCEPT ![j] = WithStatus(@, "none")]
       \/ cache' = [cache EXCEPT ![j] = WithGif(@, "none", 0)]
    /\ cache' # cache
    /\ UNCHANGED <<apiVars, dbVars, minted, queueVars, slot, worker, outages, pollVars>>

PollNext ==
    \/ Next /\ UNCHANGED pollVars
    \/ \E j \in Jobs : Expire(j)
    \/ \E c \in Users : (\E j \in Jobs : PollOwner(c, j)) \/ ConversionStatus(c)

PollSpec == PollInit /\ [][PollNext]_allVars

\* The owner keeps polling each of its jobs, and its requests are served.
PollFairness ==
    /\ \A j \in Jobs : SF_allVars(PollOwner(Owner[j], j))
    /\ \A c \in Users : WF_allVars(ConversionStatus(c))
    /\ \A j \in Jobs : WF_allVars(Convert(j) /\ UNCHANGED pollVars)
    /\ \A s \in Slots : WF_allVars(Deliver(s) /\ UNCHANGED pollVars)
                     /\ WF_allVars(Handle(s) /\ UNCHANGED pollVars)
    /\ \A w \in Workers : WF_allVars(Exit(w) /\ UNCHANGED pollVars)
                       /\ WF_allVars(Start(w) /\ UNCHANGED pollVars)

FairPollSpec == PollSpec /\ PollFairness

-----------------------------------------------------------------------------
(* What must hold.                                                         *)

PollTypeOK ==
    /\ poll \in [Users -> [pc : PollPcs, job : Jobs \cup {NoJob}, status : CacheStates]]
    /\ answer \in [Users -> [Jobs -> [kind : {"none", "mismatch", "error", "result"},
                                      status : RowStates \cup CacheStates,
                                      gif : GifEntries, key : Nat]]]

\* A client told that its conversion succeeded is told the key of an uploaded
\* gif, or no key; never the "queued" the gif entry started with, although
\* status and gif are read apart and writes of the gif entry may fail.
SuccessNamesGif ==
    \A c \in Users, j \in Jobs :
        answer[c][j].status \in {"completed", "done"} =>
            \/ answer[c][j].gif = "result" /\ answer[c][j].key \in 1..minted[j]
            \/ answer[c][j].gif = "none"

\* A user learns nothing of another's job, whichever of the two stores answers
\* and whatever has expired or failed.
StrangerLearnsNothing ==
    \A c \in Users, j \in Jobs :
        Owner[j] # c => answer[c][j].kind # "result"

Progress(a) ==
    CASE a.status = "queued" -> 1
      [] a.status = "processing" -> 2
      [] a.status \in {"completed", "done", "failed"} -> 3
      [] OTHER -> 0

\* While Redis answers, nothing expires and no worker has stopped, successive answers
\* never go back from finished to running or from running to queued.
PollsNeverGoBack ==
    [][\A c \in Users, j \in Jobs :
        outages' = 0 /\ answer'[c][j].kind = "result"
            => Progress(answer[c][j]) <= Progress(answer'[c][j])]_allVars

\* The owner of an accepted job that keeps polling is told its outcome, through
\* crashes and redeliveries.
OwnerIsTold ==
    \A j \in Jobs :
        pc[j] = "accepted" ~> answer[Owner[j]][j].status \in {"completed", "done", "failed"}

\* Status and key of an answer agree, though they are read apart.
AnswersAgree == PollTypeOK /\ SuccessNamesGif
=============================================================================
