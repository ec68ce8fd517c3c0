------------------------------ MODULE SaveRetry ------------------------------
(***************************************************************************)
(* Saving an upload's metadata, with its two retries.                      *)
(*                                                                         *)
(* The save worker (internal/worker/save_metadata_worker.go) calls         *)
(* SaveMetadata (internal/app/media/save_metadata.go), which needs the     *)
(* object in the storage bucket.  While it is not there SaveMetadata       *)
(* publishes a copy on save.retry.queue, whose TTL dead-letters it back    *)
(* to video.save.queue, AND returns an error, for which the worker         *)
(* requeues the original: one message becomes many.                        *)
(*                                                                         *)
(* Nothing in the repository calls PublishSaveVideo: publishing a message  *)
(* and storing its object are the environment's.                           *)
(***************************************************************************)
EXTENDS Integers, FiniteSets, Sequences, SequencesExt

CONSTANTS
    Users,
    Msgs,        \* the messages published; each names an object of its own
    UserOf,      \* Msgs -> Users \cup {BadUser, NoUser}
    BadUser,     \* a user id that does not parse
    NoUser,      \* one that parses, and names no row of users
    Slots,       \* goroutines of the worker, and its prefetch
    None,
    MaxCopies,   \* bound on the copies of one message in the system
    MaxFailures  \* bound on crashes and on failures of MinIO and Postgres together

ASSUME SaveAssumption ==
    /\ UserOf \in [Msgs -> Users \cup {BadUser, NoUser}]
    /\ None \notin Msgs /\ BadUser \notin Users /\ NoUser \notin Users \cup {BadUser}
    /\ IsFiniteSet(Slots) /\ MaxCopies \in Nat /\ MaxFailures \in Nat

VARIABLES
    published,   \* messages published so far
    stored,      \* messages whose object is in the storage bucket
    queue,       \* video.save.queue, head first
    retry,       \* save.retry.queue: copies of each message waiting out the TTL
    slot,        \* the delivery each slot handles, and the call it makes next
    saved,       \* last_upload: the message each user's row was written from
    acked, dead, \* messages of which some copy was acked, or dead-lettered
    failures     \* how many of them so far

vars == <<published, stored, queue, retry, slot, saved, acked, dead, failures>>

SlotPcs == {"idle", "stat", "copy", "create", "ack", "requeue", "reject"}
Idle == [pc |-> "idle", msg |-> None]

Init ==
    /\ published = {} /\ stored = {}
    /\ queue = <<>>
    /\ retry = [m \in Msgs |-> 0]
    /\ slot = [s \in Slots |-> Idle]
    /\ saved = [u \in Users |-> None]
    /\ acked = {} /\ dead = {}
    /\ failures = 0

Held(m)   == {s \in Slots : slot[s].msg = m}
Copies(m) == Cardinality({i \in DOMAIN queue : queue[i] = m}) + retry[m] + Cardinality(Held(m))

-----------------------------------------------------------------------------
(* The environment.                                                        *)

PublishSaveVideo(m) ==
    /\ m \notin published
    /\ published' = published \cup {m}
    /\ queue' = Append(queue, m)
    /\ UNCHANGED <<stored, retry, slot, saved, acked, dead, failures>>

StoreObject(m) ==
    /\ m \notin stored
    /\ stored' = stored \cup {m}
    /\ UNCHANGED <<published, queue, retry, slot, saved, acked, dead, failures>>

\* x-message-ttl 1000 on save.retry.queue: the copy goes to the save queue's tail.
RetryDue(m) ==
    /\ retry[m] > 0
    /\ retry' = [retry EXCEPT ![m] = @ - 1]
    /\ queue' = Append(queue, m)
    /\ UNCHANGED <<published, stored, slot, saved, acked, dead, failures>>

-----------------------------------------------------------------------------
(* handle and SaveMetadata in one slot.                                    *)

Goto(s, next) == slot' = [slot EXCEPT ![s].pc = next]

\* A call fails, or the worker dies.
Failure ==
    /\ failures < MaxFailures
    /\ failures' = failures + 1

\* uuid.Parse comes first; ErrInvalidUserID is answered Nack(false, false).
Deliver(s) ==
    /\ slot[s].pc = "idle" /\ queue # <<>>
    /\ LET m == Head(queue) IN
       slot' = [slot EXCEPT ![s] = [pc |-> IF UserOf[m] = BadUser THEN "reject" ELSE "stat",
                                    msg |-> m]]
    /\ queue' = Tail(queue)
    /\ UNCHANGED <<published, stored, retry, saved, acked, dead, failures>>

Stat(s) ==
    /\ slot[s].pc = "stat"
    /\ \/ slot[s].msg \in stored /\ Goto(s, "create") /\ UNCHANGED failures
       \/ slot[s].msg \notin stored /\ Goto(s, "copy") /\ UNCHANGED failures
       \/ Failure /\ Goto(s, "copy")
    /\ UNCHANGED <<published, stored, queue, retry, saved, acked, dead>>

\* Whether the copy is published or not, the error of Stat is returned.
CopyForRetry(s) ==
    LET m == slot[s].msg IN
    /\ slot[s].pc = "copy"
    /\ \/ Copies(m) < MaxCopies /\ retry' = [retry EXCEPT ![m] = @ + 1]
       \/ UNCHANGED retry
    /\ Goto(s, "requeue")
    /\ UNCHANGED <<published, stored, queue, saved, acked, dead, failures>>

\* Mutant: a failed insert is acked.
Create_IgnoresError(s) ==
    /\ slot[s].pc = "create"
    /\ \/ saved' = [saved EXCEPT ![UserOf[slot[s].msg]] = slot[s].msg] /\ UNCHANGED failures
       \/ Failure /\ UNCHANGED saved
    /\ Goto(s, "ack")
    /\ UNCHANGED <<published, stored, queue, retry, acked, dead>>

\* The foreign key of last_upload refuses a user without a row, for which the worker
\* requeues as it does for an outage: for ever.
Create(s) ==
    LET u       == UserOf[slot[s].msg]
        written == [saved EXCEPT ![u] = slot[s].msg] IN
    /\ slot[s].pc = "create"
    /\ \/ u \in Users /\ saved' = written /\ Goto(s, "ack") /\ UNCHANGED failures
       \/ u \in Users /\ Failure /\ saved' \in {saved, written} /\ Goto(s, "requeue")
       \/ u \notin Users /\ Goto(s, "requeue") /\ UNCHANGED <<saved, failures>>
    /\ UNCHANGED <<published, stored, queue, retry, acked, dead>>

Ack(s) ==
    /\ slot[s].pc = "ack"
    /\ acked' = acked \cup {slot[s].msg}
    /\ slot' = [slot EXCEPT ![s] = Idle]
    /\ UNCHANGED <<published, stored, queue, retry, saved, dead, failures>>

\* Nack(false, true): the broker puts the delivery back where it was.
Requeue(s) ==
    /\ slot[s].pc = "requeue"
    /\ queue' = <<slot[s].msg>> \o queue
    /\ slot' = [slot EXCEPT ![s] = Idle]
    /\ UNCHANGED <<published, stored, retry, saved, acked, dead, failures>>

Reject(s) ==
    /\ slot[s].pc = "reject"
    /\ dead' = dead \cup {slot[s].msg}
    /\ slot' = [slot EXCEPT ![s] = Idle]
    /\ UNCHANGED <<published, stored, queue, retry, saved, acked, failures>>

Handle(s) ==
    \/ Stat(s) \/ CopyForRetry(s) \/ Create(s)
    \/ Ack(s) \/ Requeue(s) \/ Reject(s)

\* Mutant: deliveries in hand are not given back.
Crash_Drops ==
    /\ Failure
    /\ slot' = [s \in Slots |-> Idle]
    /\ UNCHANGED <<published, stored, queue, retry, saved, acked, dead>>

\* The worker dies and comes back; its deliveries return to the queue's head.
Crash ==
    LET held == {s \in Slots : slot[s].msg # None} IN
    /\ Failure
    /\ held # {}
    /\ queue' = [i \in 1..Cardinality(held) |-> slot[SetToSeq(held)[i]].msg] \o queue
    /\ slot' = [s \in Slots |-> Idle]
    /\ UNCHANGED <<published, stored, retry, saved, acked, dead>>

Next ==
    \/ \E m \in Msgs : PublishSaveVideo(m) \/ StoreObject(m) \/ RetryDue(m)
    \/ \E s \in Slots : Deliver(s) \/ Handle(s)
    \/ Crash

Spec == Init /\ [][Next]_vars

\* Goroutines run, the broker delivers, and the TTL runs out.
Fairness ==
    /\ \A s \in Slots : WF_vars(Deliver(s)) /\ WF_vars(Handle(s))
    /\ \A m \in Msgs : WF_vars(RetryDue(m))

FairSpec == Spec /\ Fairness

-----------------------------------------------------------------------------
(* What must hold.                                                         *)

TypeOK ==
    /\ published \subseteq Msgs /\ stored \subseteq Msgs
    /\ queue \in Seq(Msgs)
    /\ retry \in [Msgs -> 0..MaxCopies]
    /\ slot \in [Slots -> [pc : SlotPcs, msg : Msgs \cup {None}]]
    /\ saved \in [Users -> Msgs \cup {None}]
    /\ acked \subseteq Msgs /\ dead \subseteq Msgs
    /\ failures \in 0..MaxFailures

\* Until a copy of it was acked or dead-lettered, a message has a copy in the
\* system, whichever of the two retries fails and whenever the worker dies.
NothingLost ==
    \A m \in published : m \in acked \cup dead \/ Copies(m) > 0

\* A message is acked only when its user's row was written from an upload of
\* that user whose object is stored.
AckedIsSaved ==
    \A m \in acked :
        /\ UserOf[m] \in Users
        /\ LET row == saved[UserOf[m]] IN row \in stored /\ UserOf[row] = UserOf[m]

\* Only a message whose user id does not parse is dead-lettered, and it is never
\* copied: a storage or database failure is always retried.
OnlyBadIdsDie ==
    /\ \A m \in dead : UserOf[m] = BadUser
    /\ \A m \in Msgs : UserOf[m] = BadUser => Copies(m) <= 1

Orphans == {m \in Msgs : UserOf[m] = NoUser}

\* While no message of a user without a row comes (one is requeued to the head for ever,
\* and its copies can hold every slot): once every object is stored every message is
\* settled, and the copies the retries made are all consumed.
CopiesDrain ==
    [](published \cap Orphans = {}) =>
        ((published = Msgs \ Orphans /\ published \subseteq stored) ~>
            (\A m \in published : m \in acked \cup dead /\ Copies(m) = 0))

\* A message keeps a copy until it is settled, and is given up only for its user id.
MessagesKept == TypeOK /\ NothingLost /\ OnlyBadIdsDie
=============================================================================
