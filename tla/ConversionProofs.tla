--------------------------- MODULE ConversionProofs ---------------------------
(***************************************************************************)
(* Theorems about Conversion, for every number of users, jobs, workers and *)
(* slots, every limit and every set of faults: types; where a message is;  *)
(* what is billed; what an ack and an entry promise; and that the pipeline *)
(* implements JobBoard.  Then about ConversionPoll: whom an answer is      *)
(* given to, that its status and its key agree though they are read apart, *)
(* and that answers do not go back.                                        *)
(***************************************************************************)
EXTENDS ConversionPoll, FiniteSetTheorems, TLAPS

-----------------------------------------------------------------------------
(* The records the steps write.                                            *)

\* What UpdateStatus and Create write is a row.
LEMMA RowType == ASSUME NEW st \in RowStates, NEW k \in Nat PROVE Row(st, k) \in RowRecs
  BY DEF Row, RowRecs

\* What the three entries of a job may hold is kept by every write of one.
LEMMA EntryType ==
    /\ \A o \in BOOLEAN, st \in CacheStates, g \in GifEntries, k \in Nat :
          Entries(o, st, g, k) \in CacheRecs
    /\ \A e \in CacheRecs, st \in CacheStates : WithStatus(e, st) \in CacheRecs
    /\ \A e \in CacheRecs, g \in GifEntries, k \in Nat : WithGif(e, g, k) \in CacheRecs
    /\ \A e \in CacheRecs : Entries(FALSE, e.status, e.gif, e.key) \in CacheRecs
  BY DEF Entries, WithStatus, WithGif, CacheRecs

\* A slot's record holds what At was given.
LEMMA AtType ==
    ASSUME NEW p, NEW j, NEW k
    PROVE  /\ At(p, j, k).pc = p /\ At(p, j, k).job = j /\ At(p, j, k).key = k
           /\ p \in SlotPcs /\ j \in Jobs \cup {NoJob} /\ k \in Nat
                 => At(p, j, k) \in SlotRecs
  BY DEF At, SlotRecs

-----------------------------------------------------------------------------
(* Types.  What a slot carries depends on where it is: TypeOK alone is not *)
(* inductive, since RunProcessor counts the uploads of the slot's job and  *)
(* CreateGif inserts the slot's key.                                       *)

\* Slot s at work carries a job and, past the processor, an uploaded gif's key.
Carries(s) ==
    /\ slot[s].pc # "idle" => slot[s].job \in Jobs
    /\ slot[s].pc \in KeyedPcs => slot[s].key \in 1..minted[slot[s].job]

SlotCarries == \A s \in Slots : Carries(s)

TypeInv == TypeOK /\ SlotCarries

\* The pipeline starts with every variable of its type.
LEMMA InitTypeInv == Init => TypeInv
<1> SUFFICES ASSUME Init PROVE TypeInv
  OBVIOUS
<1>1. row \in [Jobs -> RowRecs]
  BY RowType DEF Init, RowStates
<1>2. cache \in [Jobs -> CacheRecs]
  BY EntryType DEF Init, NoEntries, CacheStates, GifEntries
<1>3. slot \in [Slots -> SlotRecs] /\ \A s \in Slots : slot[s].pc = "idle"
  BY AtType DEF Init, IdleSlot, SlotPcs
<1>4. SlotCarries
  BY <1>3 DEF SlotCarries, Carries, KeyedPcs
<1>5. QED
  BY <1>1, <1>2, <1>3, <1>4, ConversionAssumption DEF Init, TypeInv, TypeOK, RequestPcs

\* A slot that moves on keeps what it carries, if it carries enough for the
\* place it moves to.
LEMMA GotoCarries ==
    ASSUME TypeInv, NEW s \in Slots, slot[s].pc # "idle",
           NEW next \in SlotPcs, Goto(s, next),
           next \in KeyedPcs => slot[s].pc \in KeyedPcs,
           UNCHANGED minted
    PROVE  slot' \in [Slots -> SlotRecs] /\ SlotCarries'
<1>1. slot[s].job \in Jobs /\ slot[s].key \in Nat
  BY DEF TypeInv, TypeOK, SlotCarries, Carries, SlotRecs
<1>2. slot' = [slot EXCEPT ![s] = At(next, slot[s].job, slot[s].key)]
  BY DEF Goto
<1>3. slot' \in [Slots -> SlotRecs]
  BY <1>1, <1>2, AtType DEF TypeInv, TypeOK
<1>4. Carries(s)'
  BY <1>1, <1>2, AtType DEF TypeInv, TypeOK, SlotCarries, Carries
<1>5. ASSUME NEW t \in Slots, t # s PROVE Carries(t)'
  BY <1>2, <1>5 DEF TypeInv, TypeOK, SlotCarries, Carries
<1>6. QED
  BY <1>3, <1>4, <1>5 DEF SlotCarries

\* A call of a handler writes one of its job's records and moves on.
LEMMA CacheSetType ==
    ASSUME TypeInv, NEW s \in Slots, slot[s].pc # "idle", NEW e \in CacheRecs,
           NEW ok, NEW failed, CacheSet(s, e, ok, failed)
    PROVE  cache' \in [Jobs -> CacheRecs] /\ (Goto(s, ok) \/ Goto(s, failed))
  BY DEF CacheSet, TypeInv, TypeOK

\* A row written by a handler is a row, whether the call works or not.
LEMMA UpdateStatusType ==
    ASSUME TypeInv, NEW s \in Slots, NEW r \in RowRecs, NEW next, UpdateStatus(s, r, next)
    PROVE  row' \in [Jobs -> RowRecs] /\ Goto(s, next)
  BY DEF UpdateStatus, TypeInv, TypeOK

\* The steps of a request write values of the right kind.
LEMMA ConvertTypeInv ==
    ASSUME TypeInv, NEW j \in Jobs, Convert(j) PROVE TypeInv'
<1> USE ConversionAssumption DEF apiVars, dbVars, queueVars
<1>1. ASSUME NEW o \in RequestPcs, Return(j, o) \/ Proceed(j, o)
      PROVE  pc' \in [Jobs -> RequestPcs] /\ userMu' \in [Users -> Jobs \cup {NoJob}]
  BY <1>1 DEF Return, Proceed, TypeInv, TypeOK
<1>2. ASSUME UNCHANGED <<minted, slot>> PROVE SlotCarries'
  BY <1>2 DEF TypeInv, SlotCarries, Carries
<1>3. CASE Lock(j)
  BY <1>2, <1>3 DEF Lock, TypeInv, TypeOK, RequestPcs, InConvert
<1>4. CASE ReadQuota(j)
  BY <1>1, <1>2, <1>4 DEF ReadQuota, TypeInv, TypeOK, RequestPcs, InConvert, Finished
<1>5. CASE SetCaches(j)
  <2>1. \A o \in BOOLEAN, st, g \in {"none", "queued"} : Entries(o, st, g, 0) \in CacheRecs
    BY EntryType DEF CacheStates, GifEntries
  <2>2. \E e \in CacheRecs : cache' = [cache EXCEPT ![j] = e]
    BY <1>5, <2>1 DEF SetCaches, NoEntries
  <2>3. cache' \in [Jobs -> CacheRecs]
    BY <2>2 DEF TypeInv, TypeOK
  <2>4. QED
    BY <1>1, <1>2, <1>5, <2>3 DEF SetCaches, TypeInv, TypeOK, RequestPcs, InConvert, Finished
<1>6. CASE CreateRow(j)
  <2>1. row' \in [Jobs -> RowRecs]
    BY <1>6, RowType DEF CreateRow, TypeInv, TypeOK, RowStates
  <2>2. QED
    BY <1>1, <1>2, <1>6, <2>1 DEF CreateRow, TypeInv, TypeOK, RequestPcs, InConvert, Finished
<1>7. CASE PublishVideo(j)
  BY <1>1, <1>2, <1>7 DEF PublishVideo, TypeInv, TypeOK, RequestPcs, InConvert, Finished
<1>8. CASE UndoPublish(j)
  <2>1. row' \in [Jobs -> RowRecs]
    BY <1>8, RowType DEF UndoPublish, TypeInv, TypeOK, RowStates
  <2>2. WithGif(cache[j], "failed", 0) \in CacheRecs /\ WithStatus(cache[j], "failed") \in CacheRecs
    BY EntryType DEF TypeInv, TypeOK, CacheStates, GifEntries
  <2>3. WithStatus(WithGif(cache[j], "failed", 0), "failed") \in CacheRecs
    BY <2>2, EntryType DEF CacheStates
  <2>4. cache' \in [Jobs -> CacheRecs]
    BY <1>8, <2>2, <2>3 DEF UndoPublish, TypeInv, TypeOK
  <2>5. QED
    BY <1>1, <1>2, <1>8, <2>1, <2>4 DEF UndoPublish, TypeInv, TypeOK, RequestPcs, Finished
<1>9. CASE RefuseKey(j)
  BY <1>2, <1>9 DEF RefuseKey, TypeInv, TypeOK, RequestPcs, Finished
<1>10. CASE Respond(j)
  BY <1>1, <1>2, <1>10 DEF Respond, TypeInv, TypeOK, RequestPcs, Finished
<1>11. QED
  BY <1>3, <1>4, <1>5, <1>6, <1>7, <1>8, <1>9, <1>10 DEF Convert

\* So do the steps of a handler.
LEMMA HandleTypeInv ==
    ASSUME TypeInv, NEW s \in Slots, Deliver(s) \/ Handle(s) PROVE TypeInv'
<1> USE ConversionAssumption DEF apiVars, dbVars, queueVars
<1> DEFINE j == slot[s].job
           k == slot[s].key
<1>1. ASSUME slot[s].pc # "idle"
      PROVE  j \in Jobs /\ k \in Nat /\ cache[j] \in CacheRecs /\ minted[j] \in Nat
  BY <1>1 DEF TypeInv, TypeOK, SlotCarries, Carries, SlotRecs
<1>2. CASE Deliver(s)
  <2>1. PICK i \in ready : slot' = [slot EXCEPT ![s] = At("setProcessing", i, 0)]
                          /\ unacked' = [unacked EXCEPT ![s] = i]
    BY <1>2 DEF Deliver
  <2>2. At("setProcessing", i, 0) \in SlotRecs
    BY AtType DEF TypeInv, TypeOK, SlotPcs
  <2>3. slot' \in [Slots -> SlotRecs]
    BY <2>1, <2>2 DEF TypeInv, TypeOK
  <2>4. SlotCarries'
    BY <1>2, <2>1, AtType DEF Deliver, TypeInv, TypeOK, SlotCarries, Carries, KeyedPcs
  <2>5. QED
    BY <1>2, <2>1, <2>3, <2>4 DEF Deliver, TypeInv, TypeOK
<1>3. CASE SetProcessing(s)
  <2>1. WithStatus(cache[j], "processing") \in CacheRecs
    BY <1>1, <1>3, EntryType DEF SetProcessing, CacheStates
  <2>2. cache' \in [Jobs -> CacheRecs] /\ (Goto(s, "rowProcessing") \/ Goto(s, "nack"))
    BY <1>3, <2>1, CacheSetType DEF SetProcessing
  <2>3. QED
    BY <1>3, <2>2, GotoCarries DEF SetProcessing, TypeInv, TypeOK, SlotPcs, KeyedPcs
<1>4. CASE RowProcessing(s)
  <2>1. row' \in [Jobs -> RowRecs] /\ Goto(s, "convert")
    BY <1>4, RowType, UpdateStatusType DEF RowProcessing, RowStates
  <2>2. QED
    BY <1>4, <2>1, GotoCarries DEF RowProcessing, TypeInv, TypeOK, SlotPcs, KeyedPcs
<1>5. CASE RunProcessor(s)
  <2>1. minted' \in [Jobs -> Nat] /\ \A i \in Jobs : minted[i] <= minted'[i]
    BY <1>1, <1>5 DEF RunProcessor, TypeInv, TypeOK
  <2>2. \A t \in Slots : t # s /\ slot'[t] = slot[t] => Carries(t)'
    BY <2>1 DEF TypeInv, TypeOK, SlotCarries, Carries, KeyedPcs
  <2>3. CASE slot' = [slot EXCEPT ![s] = At("setGif", j, minted[j] + 1)]
             /\ minted' = [minted EXCEPT ![j] = minted[j] + 1]
    <3>1. At("setGif", j, minted[j] + 1) \in SlotRecs
      BY <1>1, <1>5, AtType DEF RunProcessor, SlotPcs, KeyedPcs
    <3>2. slot' \in [Slots -> SlotRecs]
      BY <2>3, <3>1 DEF TypeInv, TypeOK
    <3>3. Carries(s)'
      BY <1>1, <1>5, <2>3, AtType DEF RunProcessor, TypeInv, TypeOK, Carries
    <3>4. \A t \in Slots : t # s => slot'[t] = slot[t]
      BY <2>3 DEF TypeInv, TypeOK
    <3>5. QED
      BY <1>5, <2>1, <2>2, <3>2, <3>3, <3>4 DEF RunProcessor, TypeInv, TypeOK, SlotCarries
  <2>4. CASE Goto(s, "rowFailed")
    <3>1. At("rowFailed", j, k) \in SlotRecs
      BY <1>1, <1>5, AtType DEF RunProcessor, SlotPcs
    <3>2. slot' \in [Slots -> SlotRecs]
      BY <2>4, <3>1 DEF Goto, TypeInv, TypeOK
    <3>3. Carries(s)'
      BY <1>1, <1>5, <2>4, AtType DEF RunProcessor, Goto, TypeInv, TypeOK, Carries, KeyedPcs
    <3>4. \A t \in Slots : t # s => slot'[t] = slot[t]
      BY <2>4 DEF Goto, TypeInv, TypeOK
    <3>5. QED
      BY <1>5, <2>1, <2>2, <3>2, <3>3, <3>4 DEF RunProcessor, TypeInv, TypeOK, SlotCarries
  <2>5. QED
    BY <1>1, <1>5, <2>3, <2>4 DEF RunProcessor, TypeInv, TypeOK
<1>6. CASE RowFailed(s)
  <2>1. row' \in [Jobs -> RowRecs] /\ Goto(s, "setFailed")
    BY <1>6, RowType, UpdateStatusType DEF RowFailed, RowStates
  <2>2. QED
    BY <1>6, <2>1, GotoCarries DEF RowFailed, TypeInv, TypeOK, SlotPcs, KeyedPcs
<1>7. CASE SetFailed(s)
  <2>1. WithStatus(cache[j], "failed") \in CacheRecs
    BY <1>1, <1>7, EntryType DEF SetFailed, CacheStates
  <2>2. cache' \in [Jobs -> CacheRecs] /\ Goto(s, "nack")
    BY <1>7, <2>1, CacheSetType DEF SetFailed
  <2>3. QED
    BY <1>7, <2>2, GotoCarries DEF SetFailed, TypeInv, TypeOK, SlotPcs, KeyedPcs
<1>8. CASE SetGif(s)
  <2>1. WithGif(cache[j], "result", k) \in CacheRecs
    BY <1>1, <1>8, EntryType DEF SetGif, GifEntries
  <2>2. cache' \in [Jobs -> CacheRecs] /\ (Goto(s, "setCompleted") \/ Goto(s, "nack"))
    BY <1>8, <2>1, CacheSetType DEF SetGif
  <2>3. QED
    BY <1>8, <2>2, GotoCarries DEF SetGif, TypeInv, TypeOK, SlotPcs, KeyedPcs
<1>9. CASE SetCompleted(s)
  <2>1. WithStatus(cache[j], "completed") \in CacheRecs
    BY <1>1, <1>9, EntryType DEF SetCompleted, CacheStates
  <2>2. cache' \in [Jobs -> CacheRecs] /\ (Goto(s, "rowDone") \/ Goto(s, "nack"))
    BY <1>9, <2>1, CacheSetType DEF SetCompleted
  <2>3. QED
    BY <1>9, <2>2, GotoCarries DEF SetCompleted, TypeInv, TypeOK, SlotPcs, KeyedPcs
<1>10. CASE RowDone(s)
  <2>1. row' \in [Jobs -> RowRecs] /\ Goto(s, "gifRow")
    BY <1>1, <1>10, RowType, UpdateStatusType DEF RowDone, RowStates
  <2>2. QED
    BY <1>10, <2>1, GotoCarries DEF RowDone, TypeInv, TypeOK, SlotPcs, KeyedPcs
<1>11. CASE CreateGif(s)
  <2>1. j \in Jobs /\ k \in Nat \ {0}
    BY <1>1, <1>11 DEF CreateGif, TypeInv, TypeOK, SlotCarries, Carries, KeyedPcs
  <2>2. gifs' \subseteq GifKeys
    BY <1>11, <2>1 DEF CreateGif, GifKeys, TypeInv, TypeOK
  <2>3. Goto(s, "usage") \/ Goto(s, "setFailed")
    BY <1>11 DEF CreateGif
  <2>4. QED
    BY <1>11, <2>2, <2>3, GotoCarries DEF CreateGif, TypeInv, TypeOK, SlotPcs, KeyedPcs
<1>12. CASE IncrementUsage(s)
  <2>1. used' \in [Users -> Nat]
    BY <1>1, <1>12 DEF IncrementUsage, Bill, TypeInv, TypeOK
  <2>2. Goto(s, "ack") \/ Goto(s, "setFailed")
    BY <1>12 DEF IncrementUsage
  <2>3. QED
    BY <1>12, <2>1, <2>2, GotoCarries DEF IncrementUsage, TypeInv, TypeOK, SlotPcs, KeyedPcs
<1>13. CASE Ack(s) \/ Nack(s)
  <2>1. IdleSlot \in SlotRecs /\ IdleSlot.pc = "idle"
    BY AtType DEF IdleSlot, SlotPcs
  <2>2. slot' \in [Slots -> SlotRecs]
    BY <1>13, <2>1 DEF Ack, Nack, Settle, TypeInv, TypeOK
  <2>3. SlotCarries'
    BY <1>13, <2>1 DEF Ack, Nack, Settle, TypeInv, TypeOK, SlotCarries, Carries, KeyedPcs
  <2>4. QED
    BY <1>13, <2>2, <2>3 DEF Ack, Nack, Settle, TypeInv, TypeOK
<1>14. QED
  BY <1>2, <1>3, <1>4, <1>5, <1>6, <1>7, <1>8, <1>9, <1>10, <1>11, <1>12, <1>13
     DEF Handle, Process

\* So do the steps of the processes.
LEMMA ProcessTypeInv ==
    ASSUME TypeInv,
           \/ ApiCrash
           \/ \E w \in Workers : Crash(w) \/ Sigterm(w) \/ Exit(w) \/ Start(w) \/ Cut(w)
    PROVE  TypeInv'
<1> USE ConversionAssumption DEF apiVars, dbVars, queueVars, Outage
<1>1. ASSUME UNCHANGED <<minted, slot>> PROVE SlotCarries'
  BY <1>1 DEF TypeInv, SlotCarries, Carries
<1>2. CASE ApiCrash
  BY <1>1, <1>2 DEF ApiCrash, TypeInv, TypeOK, RequestPcs, Finished
<1>3. ASSUME NEW w \in Workers, Requeue(w)
      PROVE  /\ ready' \subseteq Jobs /\ unacked' \in [Slots -> Jobs \cup {NoJob}]
             /\ acked' = acked /\ dead' = dead
  BY <1>3 DEF Requeue, SlotsOf, TypeInv, TypeOK
<1>4. ASSUME NEW w \in Workers, Stop(w), outages' \in Nat PROVE TypeInv'
  <2>1. IdleSlot \in SlotRecs /\ IdleSlot.pc = "idle"
    BY AtType DEF IdleSlot, SlotPcs
  <2>2. slot' \in [Slots -> SlotRecs]
    BY <1>4, <2>1 DEF Stop, TypeInv, TypeOK
  <2>3. SlotCarries'
    BY <1>4, <2>1 DEF Stop, TypeInv, TypeOK, SlotCarries, Carries, KeyedPcs
  <2>4. QED
    BY <1>3, <1>4, <2>2, <2>3 DEF Stop, TypeInv, TypeOK
<1>5. ASSUME NEW w \in Workers, Crash(w) \/ Exit(w) PROVE TypeInv'
  BY <1>4, <1>5 DEF Crash, Exit, TypeInv, TypeOK
<1>6. ASSUME NEW w \in Workers, Sigterm(w) PROVE TypeInv'
  BY <1>1, <1>4, <1>6 DEF Sigterm, TypeInv, TypeOK
<1>7. ASSUME NEW w \in Workers, Start(w) PROVE TypeInv'
  BY <1>1, <1>7 DEF Start, TypeInv, TypeOK
<1>8. ASSUME NEW w \in Workers, Cut(w) PROVE TypeInv'
  BY <1>1, <1>3, <1>8 DEF Cut, TypeInv, TypeOK
<1>9. QED
  BY <1>2, <1>5, <1>6, <1>7, <1>8

\* Every step of the pipeline keeps the types and what the slots carry.
LEMMA NextTypeInv == TypeInv /\ [Next]_vars => TypeInv'
<1> SUFFICES ASSUME TypeInv, [Next]_vars PROVE TypeInv'
  OBVIOUS
<1>1. CASE Next
  BY <1>1, ConvertTypeInv, HandleTypeInv, ProcessTypeInv DEF Next
<1>2. CASE UNCHANGED vars
  BY <1>2 DEF vars, TypeInv, TypeOK, SlotCarries, Carries
<1>3. QED
  BY <1>1, <1>2

\* Every variable keeps to its type, and a slot at work carries a job and, past
\* the processor, the key of an uploaded gif.
THEOREM TypeCorrect == Spec => [](TypeOK /\ SlotCarries)
<1>1. Init => TypeInv
  BY InitTypeInv
<1>2. TypeInv /\ [Next]_vars => TypeInv'
  BY NextTypeInv
<1>3. QED
  BY <1>1, <1>2, PTL DEF Spec, TypeInv

-----------------------------------------------------------------------------
(***************************************************************************)
(* Safety: a message is in one place, and the quota bills no gif that is   *)
(* not recorded.                                                           *)
(***************************************************************************)

-----------------------------------------------------------------------------
(* What each group of steps leaves alone.                                  *)

\* A handler inside Process stays at work on its job and leaves the broker, the
\* requests and the other slots alone.
LEMMA ProcessFrame ==
    ASSUME TypeInv, NEW s \in Slots, Process(s)
    PROVE  /\ UNCHANGED <<pc, userMu, ready, unacked, acked, dead, worker, outages>>
           /\ slot[s].pc # "idle" /\ slot'[s].pc # "idle"
           /\ slot'[s].job = slot[s].job
           /\ \A t \in Slots : t # s => slot'[t] = slot[t]
<1> USE DEF apiVars, queueVars
<1>1. /\ UNCHANGED <<pc, userMu, ready, unacked, acked, dead, worker, outages>>
      /\ slot[s].pc # "idle"
  BY DEF Process, SetProcessing, RowProcessing, RunProcessor, RowFailed, SetFailed,
         SetGif, SetCompleted, RowDone, CreateGif, IncrementUsage
<1>2. PICK p, k : slot' = [slot EXCEPT ![s] = At(p, slot[s].job, k)] /\ p # "idle"
  BY DEF Process, SetProcessing, RowProcessing, RunProcessor, RowFailed, SetFailed,
         SetGif, SetCompleted, RowDone, CreateGif, IncrementUsage, CacheSet,
         UpdateStatus, Goto
<1>3. QED
  BY <1>1, <1>2, AtType DEF TypeInv, TypeOK

-----------------------------------------------------------------------------
(* Messages.  A message in a second place would get there by being         *)
(* published while it is somewhere already, or taken from a slot that does *)
(* not hold it: hence the two parts added to MessageInOnePlace.            *)

\* A request that may have published: it returns the job id, unless the API dies first.
Sent(j) == pc[j] \in {"return", "accepted", "aborted"}
USE DEF Sent

\* Only such a request has a message with the broker.
OnlySent == Published \subseteq {j \in Jobs : Sent(j)}

\* A slot that has not settled a delivery is at work on its job.
AtWork ==
    \A s \in Slots : unacked[s] # NoJob => slot[s].pc # "idle" /\ slot[s].job = unacked[s]

PlaceInv == MessageInOnePlace /\ OnlySent /\ AtWork

\* A step that moves no message keeps the invariant.
LEMMA PlaceFrame ==
    ASSUME PlaceInv, UNCHANGED <<ready, unacked, acked, dead>>,
           \A j \in Jobs : Sent(j) => Sent(j)',
           \A s \in Slots : slot[s].pc # "idle"
                => slot'[s].pc # "idle" /\ slot'[s].job = slot[s].job
    PROVE  PlaceInv'
  BY DEF PlaceInv, MessageInOnePlace, OnlySent, AtWork, Published, HeldBySlots

\* No step of a request takes back that its message was published.
LEMMA SentStays ==
    ASSUME TypeInv, NEW j \in Jobs, Convert(j)
    PROVE  /\ \A i \in Jobs : Sent(i) => Sent(i)'
           /\ \E p : pc' = [pc EXCEPT ![j] = p]
<1>1. CASE ~Sent(j)
  BY <1>1 DEF Convert, RefuseKey, Lock, ReadQuota, SetCaches, CreateRow, PublishVideo,
              UndoPublish, Respond, Return, Proceed, TypeInv, TypeOK
<1>2. CASE Sent(j)
  <2>1. Respond(j)
    BY <1>2 DEF Convert, RefuseKey, Lock, ReadQuota, SetCaches, CreateRow, PublishVideo,
                UndoPublish, Respond
  <2>2. QED
    BY <2>1 DEF Respond, Return, TypeInv, TypeOK
<1>3. QED
  BY <1>1, <1>2

\* A request publishes one message, of a job that had none.
LEMMA ConvertPlace ==
    ASSUME TypeInv, PlaceInv, NEW j \in Jobs, Convert(j) PROVE PlaceInv'
<1> USE DEF apiVars, queueVars
<1>1. UNCHANGED <<ready, unacked, acked, dead>> \/ ~Sent(j)
  BY DEF Convert, RefuseKey, Lock, ReadQuota, SetCaches, CreateRow, PublishVideo, UndoPublish,
         Respond
<1>3. \A i \in Jobs : Sent(i) => Sent(i)'
  BY SentStays
<1>4. UNCHANGED slot
  BY DEF Convert, RefuseKey, Lock, ReadQuota, SetCaches, CreateRow, PublishVideo, UndoPublish,
         Respond
<1>5. CASE UNCHANGED <<ready, unacked, acked, dead>>
  BY <1>3, <1>4, <1>5, PlaceFrame
<1>6. CASE PublishVideo(j) /\ ready' = ready \cup {j} /\ Proceed(j, "return")
  <2>1. j \notin Published
    BY <1>6 DEF PublishVideo, PlaceInv, OnlySent
  <2>2. Sent(j)' /\ UNCHANGED <<unacked, acked, dead>>
    BY <1>6 DEF PublishVideo, Proceed, TypeInv, TypeOK
  <2>3. MessageInOnePlace'
    BY <1>6, <2>1, <2>2 DEF PlaceInv, MessageInOnePlace, Published, HeldBySlots
  <2>4. OnlySent'
    <3>1. Published' = Published \cup {j}
      BY <1>6, <2>2 DEF Published, HeldBySlots
    <3>2. QED
      BY <1>3, <2>2, <3>1 DEF PlaceInv, OnlySent
  <2>5. AtWork'
    BY <1>4, <2>2 DEF PlaceInv, AtWork
  <2>6. QED
    BY <2>3, <2>4, <2>5 DEF PlaceInv
<1>7. QED
  BY <1>5, <1>6 DEF Convert, RefuseKey, Lock, ReadQuota, SetCaches, CreateRow, PublishVideo,
                    UndoPublish, Respond

\* A slot that settles moves its own delivery, or none when it lost it.
LEMMA HandlePlace ==
    ASSUME TypeInv, PlaceInv, NEW s \in Slots, Deliver(s) \/ Handle(s) PROVE PlaceInv'
<1> USE DEF apiVars, queueVars
<1>1. CASE Deliver(s)
  <2>1. PICK j \in ready : /\ ready' = ready \ {j}
                           /\ unacked' = [unacked EXCEPT ![s] = j]
                           /\ slot' = [slot EXCEPT ![s] = At("setProcessing", j, 0)]
    BY <1>1 DEF Deliver
  <2>2. unacked[s] = NoJob /\ UNCHANGED <<pc, acked, dead>>
    BY <1>1 DEF Deliver, PlaceInv, AtWork
  <2>3. unacked'[s] = j /\ \A t \in Slots : t # s => unacked'[t] = unacked[t]
    BY <2>1 DEF TypeInv, TypeOK
  <2>4. MessageInOnePlace'
    BY <2>1, <2>2, <2>3 DEF PlaceInv, MessageInOnePlace, HeldBySlots
  <2>5. OnlySent'
    BY <2>1, <2>2, <2>3 DEF PlaceInv, OnlySent, Published, HeldBySlots
  <2>6. AtWork'
    BY <2>1, <2>3, AtType DEF TypeInv, TypeOK, PlaceInv, AtWork
  <2>7. QED
    BY <2>4, <2>5, <2>6 DEF PlaceInv
<1>2. CASE Process(s)
  BY <1>2, ProcessFrame, PlaceFrame
<1>3. CASE Ack(s) \/ Nack(s)
  <2>1. /\ unacked' = [unacked EXCEPT ![s] = NoJob]
        /\ slot' = [slot EXCEPT ![s] = IdleSlot]
        /\ UNCHANGED <<pc, ready>>
    BY <1>3 DEF Ack, Nack, Settle
  <2>2. \/ acked' = acked \cup ({unacked[s]} \ {NoJob}) /\ dead' = dead
        \/ dead' = dead \cup ({unacked[s]} \ {NoJob}) /\ acked' = acked
    BY <1>3 DEF Ack, Nack
  <2>3. unacked'[s] = NoJob /\ \A t \in Slots : t # s => unacked'[t] = unacked[t]
    BY <2>1 DEF TypeInv, TypeOK
  <2>4. MessageInOnePlace'
    BY <2>1, <2>2, <2>3 DEF PlaceInv, MessageInOnePlace, HeldBySlots
  <2>5. OnlySent'
    BY <2>1, <2>2, <2>3 DEF PlaceInv, OnlySent, Published, HeldBySlots
  <2>6. AtWork'
    BY <2>1, <2>3 DEF TypeInv, TypeOK, PlaceInv, AtWork
  <2>7. QED
    BY <2>4, <2>5, <2>6 DEF PlaceInv
<1>4. QED
  BY <1>1, <1>2, <1>3 DEF Handle

\* A closed channel's deliveries go back to the queue, and nowhere else.
LEMMA RequeuePlace ==
    ASSUME TypeInv, PlaceInv, NEW w \in Workers, Requeue(w), UNCHANGED pc
    PROVE  MessageInOnePlace' /\ OnlySent'
<1>1. \A s \in Slots : unacked'[s] = IF WorkerOf[s] = w THEN NoJob ELSE unacked[s]
  BY DEF Requeue
<1>2. \A j : j \in ready' <=> j \in ready \/ (j # NoJob /\ \E s \in Slots : WorkerOf[s] = w /\ unacked[s] = j)
  BY DEF Requeue, SlotsOf
<1>3. UNCHANGED <<acked, dead>>
  BY DEF Requeue
<1>4. MessageInOnePlace'
  BY <1>1, <1>2, <1>3 DEF PlaceInv, MessageInOnePlace, HeldBySlots
<1>5. OnlySent'
  BY <1>1, <1>2, <1>3 DEF PlaceInv, OnlySent, Published, HeldBySlots
<1>6. QED
  BY <1>4, <1>5

\* Crashes, SIGTERMs, lost connections and restarts move deliveries back only.
LEMMA ProcessesPlace ==
    ASSUME TypeInv, PlaceInv,
           \/ ApiCrash
           \/ \E w \in Workers : Crash(w) \/ Sigterm(w) \/ Exit(w) \/ Start(w) \/ Cut(w)
    PROVE  PlaceInv'
<1> USE DEF apiVars, queueVars
<1>1. CASE ApiCrash
  BY <1>1, PlaceFrame DEF ApiCrash, InConvert
<1>2. ASSUME NEW w \in Workers, Stop(w) PROVE PlaceInv'
  <2>1. AtWork'
    BY <1>2 DEF Stop, Requeue, PlaceInv, AtWork
  <2>2. QED
    BY <1>2, <2>1, RequeuePlace DEF Stop, PlaceInv
<1>3. ASSUME NEW w \in Workers, Cut(w) PROVE PlaceInv'
  <2>1. AtWork'
    BY <1>3 DEF Cut, Requeue, PlaceInv, AtWork
  <2>2. QED
    BY <1>3, <2>1, RequeuePlace DEF Cut, PlaceInv
<1>4. ASSUME NEW w \in Workers, Crash(w) \/ Exit(w) PROVE PlaceInv'
  BY <1>2, <1>4 DEF Crash, Exit
<1>5. ASSUME NEW w \in Workers, Sigterm(w) PROVE PlaceInv'
  BY <1>2, <1>5, PlaceFrame DEF Sigterm
<1>6. ASSUME NEW w \in Workers, Start(w) PROVE PlaceInv'
  BY <1>6, PlaceFrame DEF Start
<1>7. QED
  BY <1>1, <1>3, <1>4, <1>5, <1>6

\* Every step keeps each message in one place.
LEMMA NextPlace == TypeInv /\ PlaceInv /\ [Next]_vars => PlaceInv'
<1> SUFFICES ASSUME TypeInv, PlaceInv, [Next]_vars PROVE PlaceInv'
  OBVIOUS
<1>1. CASE Next
  BY <1>1, ConvertPlace, HandlePlace, ProcessesPlace DEF Next
<1>2. CASE UNCHANGED vars
  BY <1>2, PlaceFrame DEF vars
<1>3. QED
  BY <1>1, <1>2

\* Nothing is published when the system starts.
LEMMA InitPlace == Init => PlaceInv
  BY DEF Init, PlaceInv, MessageInOnePlace, OnlySent, AtWork, Published, HeldBySlots

\* A message is in one place: no crash, SIGTERM, lost connection or redelivery
\* loses the broker's only copy to two slots or settles it twice.
THEOREM OnePlace == Spec => []MessageInOnePlace
<1>1. Init => TypeInv /\ PlaceInv
  BY InitTypeInv, InitPlace
<1>2. TypeInv /\ PlaceInv /\ [Next]_vars => (TypeInv /\ PlaceInv)'
  BY NextTypeInv, NextPlace
<1>3. PlaceInv => MessageInOnePlace
  BY DEF PlaceInv
<1>4. QED
  BY <1>1, <1>2, <1>3, PTL DEF Spec

-----------------------------------------------------------------------------
(* Gifs and the quota.  A slot that inserted a gif row and has not billed  *)
(* it yet is a gif the quota may still be charged for; that no two slots   *)
(* share such a gif rests on the keys being fresh.                         *)

Keyed(s) == slot[s].pc \in KeyedPcs
GifOf(s) == <<slot[s].job, slot[s].key>>

\* Slots about to bill user u.
Billing(u) == {s \in Slots : slot[s].pc = "usage" /\ Owner[slot[s].job] = u}

FreshKeys ==
    /\ \A g \in gifs : g[2] <= minted[g[1]]
    /\ \A s \in Slots : Keyed(s) => (slot[s].pc = "usage" <=> GifOf(s) \in gifs)
    /\ \A s, t \in Slots : s # t /\ Keyed(s) /\ Keyed(t) => GifOf(s) # GifOf(t)

Covered ==
    \A u \in Users : used[u] + Cardinality(Billing(u)) <= Cardinality(GifsOf(u))

BillInv == IsFiniteSet(gifs) /\ FreshKeys /\ Covered

\* The gif rows of a user and the slots about to bill it are finite in number.
LEMMA FiniteParts ==
    ASSUME IsFiniteSet(gifs), NEW u
    PROVE  /\ IsFiniteSet(GifsOf(u)) /\ Cardinality(GifsOf(u)) \in Nat
           /\ IsFiniteSet(Billing(u)) /\ Cardinality(Billing(u)) \in Nat
<1>1. GifsOf(u) \subseteq gifs /\ Billing(u) \subseteq Slots
  BY DEF GifsOf, Billing
<1>2. IsFiniteSet(GifsOf(u)) /\ IsFiniteSet(Billing(u))
  BY <1>1, FS_Subset, ConversionAssumption
<1>3. QED
  BY <1>2, FS_CardinalityType

\* A step that inserts no gif, bills nobody and mints nothing, and after which no
\* slot carries a key it did not carry at the same place, keeps the invariant.
LEMMA BillFrame ==
    ASSUME BillInv, TypeInv, UNCHANGED <<used, gifs, minted>>,
           \A s \in Slots : Keyed(s)' => /\ Keyed(s) /\ GifOf(s)' = GifOf(s)
                                        /\ (slot'[s].pc = "usage" <=> slot[s].pc = "usage")
    PROVE  BillInv'
<1>1. FreshKeys'
  BY DEF BillInv, FreshKeys, Keyed, GifOf, KeyedPcs
<1>2. ASSUME NEW u \in Users
      PROVE  (used[u] + Cardinality(Billing(u)) <= Cardinality(GifsOf(u)))'
  <2>1. Billing(u)' \subseteq Billing(u)
    BY DEF Billing, Keyed, KeyedPcs, GifOf
  <2>2. Cardinality(Billing(u)') <= Cardinality(Billing(u)) /\ Cardinality(Billing(u)') \in Nat
    BY <2>1, FiniteParts, FS_Subset, FS_CardinalityType DEF BillInv
  <2>3. used[u] \in Nat /\ used[u] + Cardinality(Billing(u)) <= Cardinality(GifsOf(u))
    BY DEF BillInv, Covered, TypeInv, TypeOK
  <2>4. GifsOf(u)' = GifsOf(u)
    BY DEF GifsOf
  <2>5. QED
    BY <2>2, <2>3, <2>4, FiniteParts DEF BillInv
<1>3. QED
  BY <1>1, <1>2 DEF BillInv, Covered

\* Nothing is billed and nothing recorded when the system starts.
LEMMA InitBill == Init => BillInv
<1> SUFFICES ASSUME Init PROVE BillInv
  OBVIOUS
<1>1. \A s \in Slots : slot[s].pc = "idle"
  BY AtType DEF Init, IdleSlot
<1>2. FreshKeys
  BY <1>1 DEF Init, FreshKeys, Keyed, KeyedPcs
<1>3. \A u \in Users : used[u] = 0 /\ Billing(u) = {} /\ GifsOf(u) = {}
  BY <1>1 DEF Init, Billing, GifsOf
<1>4. QED
  BY <1>2, <1>3, FS_EmptySet DEF Init, BillInv, Covered

\* The steps of Process that are not about the quota.
LEMMA PlainProcessBill ==
    ASSUME TypeInv, BillInv, NEW s \in Slots,
           \/ SetProcessing(s) \/ RowProcessing(s) \/ RowFailed(s) \/ SetFailed(s)
           \/ SetGif(s) \/ SetCompleted(s) \/ RowDone(s)
    PROVE  BillInv'
<1> USE DEF dbVars
<1>1. UNCHANGED <<used, gifs, minted>>
  BY DEF SetProcessing, RowProcessing, RowFailed, SetFailed, SetGif, SetCompleted,
         RowDone, UpdateStatus, CacheSet
<1>2. PICK p \in SlotPcs : Goto(s, p) /\ p # "usage" /\ slot[s].pc # "usage"
                          /\ (p \in KeyedPcs => slot[s].pc \in KeyedPcs)
  BY DEF SetProcessing, RowProcessing, RowFailed, SetFailed, SetGif, SetCompleted,
         RowDone, UpdateStatus, CacheSet, SlotPcs, KeyedPcs
<1>3. /\ slot'[s].pc = p /\ slot'[s].job = slot[s].job /\ slot'[s].key = slot[s].key
      /\ \A t \in Slots : t # s => slot'[t] = slot[t]
  BY <1>2, AtType DEF Goto, TypeInv, TypeOK
<1>4. QED
  BY <1>1, <1>2, <1>3, BillFrame DEF Keyed, GifOf

\* The processor draws a key no slot and no row has.
LEMMA RunProcessorBill ==
    ASSUME TypeInv, BillInv, NEW s \in Slots, RunProcessor(s) PROVE BillInv'
<1> DEFINE j == slot[s].job
<1> USE DEF dbVars
<1>1. j \in Jobs /\ minted[j] \in Nat /\ slot[s].pc = "convert"
  BY DEF RunProcessor, TypeInv, TypeOK, SlotCarries, Carries
<1>2. UNCHANGED <<used, gifs>> /\ minted' \in [Jobs -> Nat]
  BY <1>1 DEF RunProcessor, TypeInv, TypeOK
<1>3. \A i \in Jobs : minted[i] <= minted'[i]
  BY <1>1 DEF RunProcessor, TypeInv, TypeOK
<1>4. PICK p \in SlotPcs, k \in Nat :
         /\ slot' = [slot EXCEPT ![s] = At(p, j, k)]
         /\ \/ p = "setGif" /\ k = minted[j] + 1
            \/ p = "rowFailed"
  <2>1. slot[s].key \in Nat
    BY DEF TypeInv, TypeOK, SlotRecs
  <2>2. CASE slot' = [slot EXCEPT ![s] = At("setGif", j, minted[j] + 1)]
    <3>1. "setGif" \in SlotPcs /\ minted[j] + 1 \in Nat
      BY <1>1 DEF SlotPcs, KeyedPcs
    <3>2. QED
      BY <2>2, <3>1
  <2>3. CASE Goto(s, "rowFailed")
    BY <2>1, <2>3 DEF Goto, SlotPcs
  <2>4. QED
    BY <1>1, <2>2, <2>3 DEF RunProcessor, TypeInv, TypeOK
<1>5. /\ slot'[s].pc = p /\ slot'[s].job = j /\ slot'[s].key = k
      /\ \A t \in Slots : t # s => slot'[t] = slot[t]
  BY <1>4, AtType DEF TypeInv, TypeOK
<1>6. \A g \in gifs : g[2] <= minted[g[1]] /\ g[1] \in Jobs /\ g[2] \in Nat
  BY DEF TypeInv, TypeOK, GifKeys, BillInv, FreshKeys
<1>7. \A t \in Slots : t # s /\ Keyed(t) => slot[t].job \in Jobs /\ slot[t].key \in Nat
                                        /\ slot[t].key <= minted[slot[t].job]
  BY DEF TypeInv, TypeOK, SlotCarries, Carries, Keyed, KeyedPcs
<1>8. FreshKeys'
  <2>1. ASSUME NEW g \in gifs' PROVE g[2] <= minted'[g[1]]
    <3>1. /\ g[2] <= minted[g[1]] /\ g[1] \in Jobs /\ g[2] \in Nat
          /\ minted[g[1]] \in Nat /\ minted'[g[1]] \in Nat /\ minted[g[1]] <= minted'[g[1]]
      BY <1>2, <1>3, <1>6, <2>1 DEF TypeInv, TypeOK
    <3>2. QED
      BY <3>1
  <2>2. Keyed(s)' => p = "setGif" /\ k = minted[j] + 1
    BY <1>4, <1>5 DEF Keyed, KeyedPcs
  <2>3. Keyed(s)' => GifOf(s)' \notin gifs'
    BY <1>1, <1>2, <1>5, <1>6, <2>2 DEF GifOf
  <2>4. \A t \in Slots : t # s /\ Keyed(t)' => Keyed(t) /\ GifOf(t)' = GifOf(t)
    BY <1>5 DEF Keyed, GifOf
  <2>5. \A t \in Slots : t # s /\ Keyed(t)' /\ Keyed(s)' => GifOf(t)' # GifOf(s)'
    BY <1>1, <1>5, <1>7, <2>2, <2>4 DEF GifOf
  <2>6. \A t \in Slots : Keyed(t)' => (slot'[t].pc = "usage" <=> GifOf(t)' \in gifs')
    BY <1>2, <1>4, <1>5, <2>2, <2>3, <2>4 DEF BillInv, FreshKeys
  <2>7. \A t, r \in Slots : t # r /\ Keyed(t)' /\ Keyed(r)' => GifOf(t)' # GifOf(r)'
    BY <2>4, <2>5 DEF BillInv, FreshKeys
  <2>8. QED
    BY <2>1, <2>6, <2>7 DEF FreshKeys
<1>9. \A u \in Users : Billing(u)' = Billing(u) /\ GifsOf(u)' = GifsOf(u)
  BY <1>1, <1>2, <1>4, <1>5 DEF Billing, GifsOf
<1>10. QED
  BY <1>2, <1>8, <1>9 DEF BillInv, Covered

\* A gif row is inserted before its slot can bill it.
LEMMA CreateGifBill ==
    ASSUME TypeInv, BillInv, NEW s \in Slots, CreateGif(s) PROVE BillInv'
<1> DEFINE j == slot[s].job
           g == GifOf(s)
<1> USE DEF dbVars
<1>1. /\ j \in Jobs /\ Owner[j] \in Users /\ slot[s].pc = "gifRow" /\ Keyed(s)
      /\ slot[s].key \in 1..minted[j]
  BY ConversionAssumption DEF CreateGif, TypeInv, TypeOK, SlotCarries, Carries, Keyed, KeyedPcs
<1>2. g \notin gifs
  BY <1>1 DEF BillInv, FreshKeys
<1>3. UNCHANGED <<used, minted>>
  BY DEF CreateGif
<1>4. PICK p \in {"usage", "setFailed"} :
         /\ Goto(s, p)
         /\ gifs' \in {gifs, gifs \cup {g}}
         /\ p = "usage" => gifs' = gifs \cup {g}
  BY DEF CreateGif, GifOf
<1>5. /\ slot'[s].pc = p /\ slot'[s].job = j /\ slot'[s].key = slot[s].key
      /\ \A t \in Slots : t # s => slot'[t] = slot[t]
  BY <1>4, AtType DEF Goto, TypeInv, TypeOK
<1>6. \A t \in Slots : Keyed(t)' => Keyed(t) /\ GifOf(t)' = GifOf(t)
  BY <1>1, <1>5 DEF Keyed, GifOf
<1>7. FreshKeys'
  <2>1. \A h \in gifs' : h[2] <= minted'[h[1]]
    BY <1>1, <1>3, <1>4 DEF BillInv, FreshKeys, GifOf
  <2>2. Keyed(s)' => slot'[s].pc = "usage" /\ GifOf(s)' \in gifs'
    BY <1>4, <1>5, <1>6 DEF Keyed, KeyedPcs
  <2>3. ASSUME NEW t \in Slots, t # s, Keyed(t)'
        PROVE  slot'[t].pc = "usage" <=> GifOf(t)' \in gifs'
    <3>1. Keyed(t) /\ GifOf(t)' = GifOf(t) /\ GifOf(t) # g
      BY <1>1, <1>6, <2>3 DEF BillInv, FreshKeys
    <3>2. QED
      BY <1>4, <1>5, <2>3, <3>1 DEF BillInv, FreshKeys
  <2>4. \A t, r \in Slots : t # r /\ Keyed(t)' /\ Keyed(r)' => GifOf(t)' # GifOf(r)'
    BY <1>6 DEF BillInv, FreshKeys
  <2>5. QED
    BY <2>1, <2>2, <2>3, <2>4 DEF FreshKeys
<1>8. IsFiniteSet(gifs')
  BY <1>4, FS_AddElement DEF BillInv
<1>9. ASSUME NEW u \in Users
      PROVE  (used[u] + Cardinality(Billing(u)) <= Cardinality(GifsOf(u)))'
  <2>1. /\ IsFiniteSet(GifsOf(u)) /\ Cardinality(GifsOf(u)) \in Nat
        /\ IsFiniteSet(Billing(u)) /\ Cardinality(Billing(u)) \in Nat
        /\ used[u] \in Nat /\ used[u] + Cardinality(Billing(u)) <= Cardinality(GifsOf(u))
    BY FiniteParts DEF BillInv, Covered, TypeInv, TypeOK
  <2>2. CASE u # Owner[j]
    <3>1. Billing(u)' = Billing(u)
      BY <1>1, <1>5, <2>2 DEF Billing
    <3>2. GifsOf(u)' = GifsOf(u)
      BY <1>4, <2>2 DEF GifsOf, GifOf
    <3>3. QED
      BY <1>3, <2>1, <3>1, <3>2
  <2>3. CASE u = Owner[j]
    <3>1. CASE gifs' = gifs
      <4>1. Billing(u)' = Billing(u) /\ GifsOf(u)' = GifsOf(u)
        BY <1>1, <1>2, <1>4, <1>5, <3>1 DEF Billing, GifsOf
      <4>2. QED
        BY <1>3, <2>1, <4>1
    <3>2. CASE gifs' = gifs \cup {g}
      <4>1. GifsOf(u)' = GifsOf(u) \cup {g} /\ g \notin GifsOf(u)
        BY <1>2, <2>3, <3>2 DEF GifsOf, GifOf
      <4>2. Cardinality(GifsOf(u)') = Cardinality(GifsOf(u)) + 1
        BY <2>1, <4>1, FS_AddElement
      <4>3. Billing(u)' \subseteq Billing(u) \cup {s}
        BY <1>5 DEF Billing
      <4>4. /\ IsFiniteSet(Billing(u) \cup {s})
            /\ Cardinality(Billing(u) \cup {s}) <= Cardinality(Billing(u)) + 1
            /\ Cardinality(Billing(u) \cup {s}) \in Nat
        <5>1. /\ IsFiniteSet(Billing(u) \cup {s})
              /\ Cardinality(Billing(u) \cup {s}) =
                    IF s \in Billing(u) THEN Cardinality(Billing(u)) ELSE Cardinality(Billing(u)) + 1
          BY <2>1, FS_AddElement
        <5>2. QED
          BY <2>1, <5>1
      <4>5. Cardinality(Billing(u)') <= Cardinality(Billing(u)) + 1
            /\ Cardinality(Billing(u)') \in Nat
        <5>1. IsFiniteSet(Billing(u)') /\ Cardinality(Billing(u)') <= Cardinality(Billing(u) \cup {s})
          BY <4>3, <4>4, FS_Subset
        <5>2. Cardinality(Billing(u)') \in Nat
          BY <5>1, FS_CardinalityType
        <5>3. QED
          BY <2>1, <4>4, <5>1, <5>2
      <4>6. QED
        BY <1>3, <2>1, <4>2, <4>5
    <3>3. QED
      BY <1>4, <3>1, <3>2
  <2>4. QED
    BY <2>2, <2>3
<1>10. QED
  BY <1>7, <1>8, <1>9 DEF BillInv, Covered

\* A slot bills the gif it inserted once, and is then done with it.
LEMMA IncrementUsageBill ==
    ASSUME TypeInv, BillInv, NEW s \in Slots, IncrementUsage(s) PROVE BillInv'
<1> DEFINE o == Owner[slot[s].job]
<1> USE DEF dbVars
<1>1. slot[s].job \in Jobs /\ o \in Users /\ slot[s].pc = "usage"
  BY ConversionAssumption DEF IncrementUsage, TypeInv, TypeOK, SlotCarries, Carries
<1>2. PICK p \in {"ack", "setFailed"} : Goto(s, p)
  BY DEF IncrementUsage
<1>3. /\ slot'[s].pc = p
      /\ \A t \in Slots : t # s => slot'[t] = slot[t]
  BY <1>2, AtType DEF Goto, TypeInv, TypeOK
<1>4. UNCHANGED <<gifs, minted>>
  BY DEF IncrementUsage
<1>5. used' \in {used, [used EXCEPT ![o] = used[o] + 1]}
  BY DEF IncrementUsage, Bill
<1>6. FreshKeys'
  BY <1>2, <1>3, <1>4 DEF BillInv, FreshKeys, Keyed, KeyedPcs, GifOf
<1>7. ASSUME NEW u \in Users
      PROVE  (used[u] + Cardinality(Billing(u)) <= Cardinality(GifsOf(u)))'
  <2>1. /\ Cardinality(GifsOf(u)) \in Nat
        /\ IsFiniteSet(Billing(u)) /\ Cardinality(Billing(u)) \in Nat
        /\ used[u] \in Nat /\ used[u] + Cardinality(Billing(u)) <= Cardinality(GifsOf(u))
    BY FiniteParts DEF BillInv, Covered, TypeInv, TypeOK
  <2>2. GifsOf(u)' = GifsOf(u)
    BY <1>4 DEF GifsOf
  <2>3. Billing(u)' = Billing(u) \ {s}
    BY <1>2, <1>3 DEF Billing
  <2>4. CASE u # o
    <3>1. s \notin Billing(u) /\ used'[u] = used[u]
      BY <1>5, <2>4 DEF Billing, TypeInv, TypeOK
    <3>2. Billing(u)' = Billing(u)
      BY <2>3, <3>1
    <3>3. QED
      BY <2>1, <2>2, <3>1, <3>2
  <2>5. CASE u = o
    <3>1. s \in Billing(u)
      BY <1>1, <2>5 DEF Billing
    <3>2. Cardinality(Billing(u)') = Cardinality(Billing(u)) - 1
      BY <2>1, <2>3, <3>1, FS_RemoveElement
    <3>3. used'[u] \in {used[u], used[u] + 1}
      BY <1>5, <2>5 DEF TypeInv, TypeOK
    <3>4. QED
      BY <2>1, <2>2, <3>2, <3>3
  <2>6. QED
    BY <2>4, <2>5
<1>8. QED
  BY <1>4, <1>6, <1>7 DEF BillInv, Covered

\* Every step keeps the bills covered by gif rows.
LEMMA NextBill == TypeInv /\ BillInv /\ [Next]_vars => BillInv'
<1> SUFFICES ASSUME TypeInv, BillInv, [Next]_vars PROVE BillInv'
  OBVIOUS
<1> USE DEF dbVars, queueVars, apiVars
<1>1. CASE UNCHANGED <<used, gifs, minted, slot>>
  BY <1>1, BillFrame DEF Keyed, GifOf
<1>2. ASSUME NEW s \in Slots, UNCHANGED <<used, gifs, minted>>, NEW p \in SlotRecs,
             slot' = [slot EXCEPT ![s] = p], p.pc \notin KeyedPcs
      PROVE  BillInv'
  <2>1. \A t \in Slots : Keyed(t)' => slot'[t] = slot[t]
    BY <1>2 DEF Keyed, TypeInv, TypeOK
  <2>2. QED
    BY <1>2, <2>1, BillFrame DEF Keyed, GifOf
<1>3. ASSUME NEW s \in Slots, Deliver(s) PROVE BillInv'
  <2>1. PICK i \in ready : slot' = [slot EXCEPT ![s] = At("setProcessing", i, 0)]
    BY <1>3 DEF Deliver
  <2>2. At("setProcessing", i, 0) \in SlotRecs /\ At("setProcessing", i, 0).pc \notin KeyedPcs
    BY AtType DEF TypeInv, TypeOK, SlotPcs, KeyedPcs
  <2>3. QED
    BY <1>2, <1>3, <2>1, <2>2 DEF Deliver
<1>4. ASSUME NEW s \in Slots, Ack(s) \/ Nack(s) PROVE BillInv'
  <2>1. IdleSlot \in SlotRecs /\ IdleSlot.pc \notin KeyedPcs
    BY AtType DEF IdleSlot, SlotPcs, KeyedPcs
  <2>2. QED
    BY <1>2, <1>4, <2>1 DEF Ack, Nack, Settle
<1>5. ASSUME NEW s \in Slots, Process(s) PROVE BillInv'
  BY <1>5, PlainProcessBill, RunProcessorBill, CreateGifBill, IncrementUsageBill DEF Process
<1>6. ASSUME NEW w \in Workers, Stop(w) PROVE BillInv'
  <2>1. \A t \in Slots : Keyed(t)' => slot'[t] = slot[t]
    BY <1>6, AtType DEF Stop, IdleSlot, Keyed, KeyedPcs
  <2>2. QED
    BY <1>6, <2>1, BillFrame DEF Stop, Keyed, GifOf
<1>7. ASSUME NEW j \in Jobs, Convert(j) PROVE BillInv'
  BY <1>1, <1>7 DEF Convert, RefuseKey, Lock, ReadQuota, SetCaches, CreateRow, PublishVideo,
                    UndoPublish, Respond
<1>8. ASSUME NEW w \in Workers, Crash(w) \/ Sigterm(w) \/ Exit(w) \/ Start(w) \/ Cut(w)
      PROVE  BillInv'
  BY <1>1, <1>6, <1>8 DEF Crash, Sigterm, Exit, Start, Cut
<1>9. QED
  BY <1>1, <1>3, <1>4, <1>5, <1>7, <1>8 DEF Next, Handle, ApiCrash, vars

\* gif_count never exceeds the gif rows the pipeline inserted for the user: with
\* any fault, redelivery or stale handler, every unit billed is a row of its own.
THEOREM UsageCovered == Spec => []UsageCoveredByGifs
<1>1. Init => TypeInv /\ BillInv
  BY InitTypeInv, InitBill
<1>2. TypeInv /\ BillInv /\ [Next]_vars => (TypeInv /\ BillInv)'
  BY NextTypeInv, NextBill
<1>3. TypeInv /\ BillInv => UsageCoveredByGifs
  <2> SUFFICES ASSUME TypeInv, BillInv, NEW u \in Users
               PROVE  used[u] <= Cardinality(GifsOf(u))
    BY DEF UsageCoveredByGifs
  <2>1. /\ used[u] \in Nat /\ Cardinality(Billing(u)) \in Nat /\ Cardinality(GifsOf(u)) \in Nat
        /\ used[u] + Cardinality(Billing(u)) <= Cardinality(GifsOf(u))
    BY FiniteParts DEF BillInv, Covered, TypeInv, TypeOK
  <2>2. QED
    BY <2>1
<1>4. QED
  BY <1>1, <1>2, <1>3, PTL DEF Spec

-----------------------------------------------------------------------------
(***************************************************************************)
(* Refinement: an acked job has a gif, "completed" names a result, and each *)
(* step of Conversion is a step of the board or leaves it unchanged.       *)
(***************************************************************************)

-----------------------------------------------------------------------------
(* An acked job has a gif.                                                 *)

\* A slot that is to ack has a gif row of its job behind it, and a job some
\* slot works on was published, even if the broker took the delivery back.
AckInv ==
    /\ \A s \in Slots : slot[s].pc = "ack" => \E g \in gifs : g[1] = slot[s].job
    /\ \A s \in Slots : slot[s].pc # "idle" => slot[s].job \in Published
    /\ AckedJobHasGif

IInv == TypeInv /\ PlaceInv /\ BillInv /\ AckInv

\* The invariant holds when the system starts.
LEMMA InitIInv == Init => IInv
<1>1. Init => AckInv
  BY AtType DEF Init, AckInv, AckedJobHasGif, IdleSlot
<1>2. QED
  BY <1>1, InitTypeInv, InitPlace, InitBill DEF IInv

\* No step takes a gif row away, nor a message from the broker.
LEMMA Growing ==
    ASSUME TypeInv, PlaceInv, [Next]_vars
    PROVE  gifs \subseteq gifs' /\ Published \subseteq Published'
<1> USE DEF dbVars, queueVars, apiVars, Published, HeldBySlots
<1>1. CASE UNCHANGED <<gifs, ready, unacked, acked, dead>>
  BY <1>1
<1>2. ASSUME NEW j \in Jobs, Convert(j) PROVE gifs \subseteq gifs' /\ Published \subseteq Published'
  BY <1>2 DEF Convert, RefuseKey, Lock, ReadQuota, SetCaches, CreateRow, PublishVideo,
              UndoPublish, Respond
<1>3. ASSUME NEW s \in Slots, Deliver(s) PROVE gifs \subseteq gifs' /\ Published \subseteq Published'
  <2>1. PICK j \in ready : ready' = ready \ {j} /\ unacked' = [unacked EXCEPT ![s] = j]
    BY <1>3 DEF Deliver
  <2>2. unacked[s] = NoJob /\ j # NoJob
    BY <1>3, ConversionAssumption DEF Deliver, PlaceInv, AtWork, TypeInv, TypeOK
  <2>3. unacked'[s] = j /\ \A t \in Slots : t # s => unacked'[t] = unacked[t]
    BY <2>1 DEF TypeInv, TypeOK
  <2>4. QED
    BY <1>3, <2>1, <2>2, <2>3 DEF Deliver
<1>4. ASSUME NEW s \in Slots, Process(s) PROVE gifs \subseteq gifs' /\ Published \subseteq Published'
  <2>1. gifs \subseteq gifs'
    BY <1>4 DEF Process, SetProcessing, RowProcessing, RunProcessor, RowFailed, SetFailed,
                SetGif, SetCompleted, RowDone, CreateGif, IncrementUsage
  <2>2. QED
    BY <1>4, <2>1, ProcessFrame
<1>5. ASSUME NEW s \in Slots, Ack(s) \/ Nack(s) PROVE gifs \subseteq gifs' /\ Published \subseteq Published'
  <2>1. \A t \in Slots : t # s => unacked'[t] = unacked[t]
    BY <1>5 DEF Ack, Nack, Settle, TypeInv, TypeOK
  <2>2. QED
    BY <1>5, <2>1 DEF Ack, Nack, Settle
<1>6. ASSUME NEW w \in Workers, Requeue(w) PROVE Published \subseteq Published'
  BY <1>6 DEF Requeue, SlotsOf
<1>7. ASSUME NEW w \in Workers, Crash(w) \/ Sigterm(w) \/ Exit(w) \/ Start(w) \/ Cut(w)
      PROVE  gifs \subseteq gifs' /\ Published \subseteq Published'
  BY <1>1, <1>6, <1>7 DEF Crash, Sigterm, Exit, Start, Cut, Stop
<1>8. QED
  BY <1>1, <1>2, <1>3, <1>4, <1>5, <1>7 DEF Next, Handle, ApiCrash, vars

\* A slot reaches its ack only after inserting a gif row of its job.
LEMMA NextAckInv == IInv /\ [Next]_vars => AckInv'
<1> SUFFICES ASSUME IInv, [Next]_vars PROVE AckInv'
  OBVIOUS
<1> USE DEF dbVars, queueVars, apiVars
<1>1. gifs \subseteq gifs' /\ Published \subseteq Published'
  BY Growing DEF IInv
\* A step after which no slot is newly at "ack" or at work, and nothing is acked.
<1>2. ASSUME acked' = acked,
             \A s \in Slots : slot'[s].pc = "idle" \/ slot'[s] = slot[s]
      PROVE  AckInv'
  BY <1>1, <1>2 DEF IInv, AckInv, AckedJobHasGif
<1>3. ASSUME NEW j \in Jobs, Convert(j) PROVE AckInv'
  BY <1>2, <1>3 DEF Convert, RefuseKey, Lock, ReadQuota, SetCaches, CreateRow, PublishVideo,
                    UndoPublish, Respond
<1>4. ASSUME NEW s \in Slots, Deliver(s) PROVE AckInv'
  <2>1. PICK j \in ready : slot' = [slot EXCEPT ![s] = At("setProcessing", j, 0)]
    BY <1>4 DEF Deliver
  <2>2. /\ slot'[s].pc = "setProcessing" /\ slot'[s].job = j
        /\ \A t \in Slots : t # s => slot'[t] = slot[t]
    BY <2>1, AtType DEF IInv, TypeInv, TypeOK
  <2>3. j \in Published /\ acked' = acked
    BY <1>4 DEF Published, Deliver
  <2>4. QED
    BY <1>1, <2>2, <2>3 DEF IInv, AckInv, AckedJobHasGif
<1>5. ASSUME NEW s \in Slots, Process(s) PROVE AckInv'
  <2>1. slot'[s].pc = "ack" => IncrementUsage(s)
    <3>1. CASE RunProcessor(s)
      BY <3>1, AtType DEF RunProcessor, Goto, IInv, TypeInv, TypeOK
    <3>2. ASSUME NEW p, Goto(s, p) PROVE slot'[s].pc = p
      BY <3>2, AtType DEF Goto, IInv, TypeInv, TypeOK
    <3>3. QED
      BY <1>5, <3>1, <3>2 DEF Process, SetProcessing, RowProcessing, RowFailed, SetFailed,
            SetGif, SetCompleted, RowDone, CreateGif, CacheSet, UpdateStatus
  <2>2. IncrementUsage(s) => \E g \in gifs : g[1] = slot[s].job
    BY DEF IncrementUsage, IInv, BillInv, FreshKeys, Keyed, KeyedPcs, GifOf
  <2>3. /\ slot[s].pc # "idle" /\ slot'[s].job = slot[s].job /\ acked' = acked
        /\ \A t \in Slots : t # s => slot'[t] = slot[t]
    BY <1>5, ProcessFrame DEF IInv
  <2>4. QED
    BY <1>1, <2>1, <2>2, <2>3 DEF IInv, AckInv, AckedJobHasGif
<1>6. ASSUME NEW s \in Slots, Ack(s) \/ Nack(s) PROVE AckInv'
  <2>1. slot'[s].pc = "idle" /\ \A t \in Slots : t # s => slot'[t] = slot[t]
    BY <1>6, AtType DEF Ack, Nack, Settle, IdleSlot, IInv, TypeInv, TypeOK
  <2>2. AckedJobHasGif'
    BY <1>1, <1>6 DEF Ack, Nack, IInv, AckInv, AckedJobHasGif, PlaceInv, AtWork
  <2>3. QED
    BY <1>1, <2>1, <2>2 DEF IInv, AckInv
<1>7. ASSUME NEW w \in Workers, Stop(w) PROVE AckInv'
  BY <1>2, <1>7, AtType DEF Stop, Requeue, IdleSlot
<1>8. ASSUME NEW w \in Workers, Crash(w) \/ Sigterm(w) \/ Exit(w) \/ Start(w) \/ Cut(w)
      PROVE  AckInv'
  BY <1>2, <1>7, <1>8 DEF Crash, Sigterm, Exit, Start, Cut, Requeue
<1>9. CASE ApiCrash \/ UNCHANGED vars
  BY <1>2, <1>9 DEF ApiCrash, vars
<1>10. QED
  BY <1>3, <1>4, <1>5, <1>6, <1>8, <1>9 DEF Next, Handle

\* The invariant is inductive.
LEMMA NextIInv == IInv /\ [Next]_vars => IInv'
  BY NextTypeInv, NextPlace, NextBill, NextAckInv DEF IInv

\* A message is acked only for a job with a gif row, whatever failed on the way.
THEOREM AckedHasGif == Spec => []AckedJobHasGif
<1>1. IInv => AckedJobHasGif
  BY DEF IInv, AckInv
<1>2. QED
  BY <1>1, InitIInv, NextIInv, PTL DEF Spec

-----------------------------------------------------------------------------
(* What a step does to the records of one job.                             *)

\* A handler works for a job whose message was published.
LEMMA WorksForSent ==
    ASSUME IInv, NEW s \in Slots, slot[s].pc # "idle"
    PROVE  slot[s].job \in Jobs /\ Sent(slot[s].job)
BY DEF IInv, AckInv, PlaceInv, OnlySent, TypeInv, SlotCarries, Carries

KeepsGif(j) == cache'[j].gif = cache[j].gif /\ cache'[j].key = cache[j].key

\* An entry is written by the request before it publishes, or by a handler at the call
\* named for it.
EntryMove(j) ==
    \/ cache'[j] = cache[j]
    \/ /\ ~Sent(j) /\ cache'[j].status # "completed"
       /\ cache'[j].gif = "result" => KeepsGif(j)
    \/ \E s \in Slots :
          /\ slot[s].pc # "idle" /\ slot[s].job = j
          /\ \/ KeepsGif(j) /\ (cache'[j].status = "completed" => slot[s].pc = "setCompleted")
             \/ /\ slot[s].pc = "setGif" /\ cache'[j].status = cache[j].status
                /\ cache'[j].gif = "result" /\ cache'[j].key = slot[s].key

\* So is a row.
RowMove(j) ==
    \/ row'[j] = row[j]
    \/ ~Sent(j) /\ row'[j].status # "done"
    \/ \E s \in Slots :
          /\ slot[s].pc # "idle" /\ slot[s].job = j
          /\ row'[j].status = "done" => slot[s].pc = "rowDone" /\ row'[j].key = slot[s].key

\* A slot comes to write "completed" from its write of the gif entry.
CompletedMove(s) ==
    slot'[s].pc = "setCompleted" =>
        /\ slot[s].pc \in {"setGif", "setCompleted"} /\ slot'[s].job = slot[s].job
        /\ slot[s].pc = "setGif" => cache'[slot[s].job].gif = "result"

JobMoves ==
    /\ \A j \in Jobs : EntryMove(j) /\ RowMove(j)
    /\ \A j \in Jobs : minted[j] <= minted'[j] /\ (Sent(j) => Sent(j)')
    /\ \A s \in Slots : CompletedMove(s)

\* A step that writes no record of a job.
LEMMA NoJobMoves ==
    ASSUME TypeInv, UNCHANGED <<cache, row, minted>>,
           \A j \in Jobs : Sent(j) => Sent(j)',
           \A s \in Slots : slot'[s] = slot[s] \/ slot'[s].pc # "setCompleted"
    PROVE  JobMoves
<1>1. \A j \in Jobs : minted[j] <= minted'[j]
  BY DEF TypeInv, TypeOK
<1>2. QED
  BY <1>1 DEF JobMoves, EntryMove, RowMove, CompletedMove

LEMMA ConvertMoves ==
    ASSUME TypeInv, NEW j \in Jobs, ~Sent(j), cache[j].status # "completed", Convert(j)
    PROVE  JobMoves
<1> USE DEF dbVars, queueVars
<1>1. /\ pc \in [Jobs -> RequestPcs] /\ cache \in [Jobs -> CacheRecs]
      /\ minted \in [Jobs -> Nat] /\ row \in [Jobs -> RowRecs]
  BY DEF TypeInv, TypeOK
<1>2. /\ \E p : pc' = [pc EXCEPT ![j] = p]
      /\ UNCHANGED <<slot, minted>>
  BY DEF Convert, RefuseKey, Lock, ReadQuota, SetCaches, CreateRow, PublishVideo, UndoPublish,
         Respond, Return, Proceed
<1>3. \A i \in Jobs : minted[i] <= minted'[i] /\ (Sent(i) => Sent(i)')
  BY <1>1, <1>2
<1>4. \A i \in Jobs : RowMove(i)
  <2>1. row' = row \/ \E st \in {"queued", "failed"} : row' = [row EXCEPT ![j] = Row(st, 0)]
    BY DEF Convert, RefuseKey, Lock, ReadQuota, SetCaches, CreateRow, PublishVideo,
           UndoPublish, Respond
  <2>2. QED
    BY <1>1, <2>1 DEF RowMove, Row
<1>5. \A i \in Jobs : EntryMove(i)
  <2>1. CASE cache' = cache
    BY <2>1 DEF EntryMove
  <2>2. ASSUME NEW e, cache' = [cache EXCEPT ![j] = e], e.status # "completed",
               e.gif = "result" => e.gif = cache[j].gif /\ e.key = cache[j].key
        PROVE  \A i \in Jobs : EntryMove(i)
    BY <1>1, <2>2 DEF EntryMove, KeepsGif
  <2>3. CASE SetCaches(j)
    <3>1. PICK e \in {NoEntries, Entries(TRUE, "none", "none", 0), Entries(TRUE, "queued", "none", 0),
                      Entries(TRUE, "queued", "queued", 0)} : cache' = [cache EXCEPT ![j] = e]
      BY <2>3 DEF SetCaches
    <3>2. e.status # "completed" /\ e.gif # "result"
      BY DEF NoEntries, Entries
    <3>3. QED
      BY <2>2, <3>1, <3>2
  <2>4. CASE UndoPublish(j)
    <3>1. CASE ~(cache' = cache)
      <4>1. PICK e \in {WithStatus(WithGif(cache[j], "failed", 0), "failed"), WithStatus(cache[j], "failed"),
                        WithGif(cache[j], "failed", 0)} : cache' = [cache EXCEPT ![j] = e]
        BY <2>4, <3>1 DEF UndoPublish
      <4>2. e.status # "completed" \/ e = WithGif(cache[j], "failed", 0)
        BY <4>1 DEF WithStatus, WithGif, Entries
      <4>3. WithGif(cache[j], "failed", 0).status = cache[j].status
        BY DEF WithGif, Entries
      <4>4. e.gif = "result" => e.gif = cache[j].gif /\ e.key = cache[j].key
        BY <4>1 DEF WithStatus, WithGif, Entries
      <4>5. QED
        BY <2>2, <4>1, <4>2, <4>3, <4>4
    <3>2. QED
      BY <2>1, <3>1
  <2>5. QED
    BY <2>1, <2>3, <2>4 DEF Convert, RefuseKey, Lock, ReadQuota, CreateRow, PublishVideo, Respond
<1>6. \A s \in Slots : CompletedMove(s)
  BY <1>2 DEF CompletedMove
<1>7. QED
  BY <1>3, <1>4, <1>5, <1>6 DEF JobMoves
LEMMA ProcessMoves ==
    ASSUME IInv, NEW s \in Slots, Process(s) PROVE JobMoves
<1> USE DEF dbVars, queueVars, apiVars
<1> DEFINE j == slot[s].job
<1>1. /\ j \in Jobs /\ slot[s].pc # "idle" /\ slot'[s].job = j
      /\ \A t \in Slots : t # s => slot'[t] = slot[t]
      /\ UNCHANGED pc
  BY ProcessFrame, WorksForSent DEF IInv
<1>2. /\ minted \in [Jobs -> Nat] /\ cache \in [Jobs -> CacheRecs] /\ row \in [Jobs -> RowRecs]
      /\ slot \in [Slots -> SlotRecs]
  BY DEF IInv, TypeInv, TypeOK
<1>3. ASSUME NEW p, Goto(s, p) PROVE slot'[s].pc = p
  BY <1>2, <1>3, AtType DEF Goto
<1>4. \A i \in Jobs : minted[i] <= minted'[i]
  BY <1>1, <1>2 DEF Process, SetProcessing, RowProcessing, RunProcessor, RowFailed, SetFailed,
                    SetGif,
                    SetCompleted, RowDone, CreateGif, IncrementUsage
\* The rows.
<1>5. \A i \in Jobs : RowMove(i)
  <2>1. \/ row' = row
        \/ \E r \in {Row("processing", 0), Row("failed", 0)} : row' = [row EXCEPT ![j] = r]
        \/ slot[s].pc = "rowDone" /\ row' = [row EXCEPT ![j] = Row("done", slot[s].key)]
    BY DEF Process, SetProcessing, RowProcessing, RunProcessor, RowFailed, SetFailed, SetGif,
           SetCompleted, RowDone, CreateGif, IncrementUsage, UpdateStatus
  <2>2. QED
    BY <1>1, <1>2, <2>1 DEF RowMove, Row
\* The entries.
<1>6. ASSUME NEW e, NEW ok, NEW failed, CacheSet(s, e, ok, failed),
             \/ /\ e.gif = cache[j].gif /\ e.key = cache[j].key
                /\ e.status = "completed" => slot[s].pc = "setCompleted"
             \/ /\ slot[s].pc = "setGif" /\ e.status = cache[j].status
                /\ e.gif = "result" /\ e.key = slot[s].key
      PROVE  \A i \in Jobs : EntryMove(i)
  <2>1. cache' = cache \/ cache' = [cache EXCEPT ![j] = e]
    BY <1>6 DEF CacheSet
  <2>2. ASSUME NEW i \in Jobs, i # j \/ cache' = cache PROVE EntryMove(i)
    BY <1>2, <2>1, <2>2 DEF EntryMove
  <2>3. CASE cache' = [cache EXCEPT ![j] = e]
    <3>1. cache'[j] = e
      BY <1>1, <1>2, <2>3
    <3>2. EntryMove(j)
      BY <1>1, <1>6, <3>1 DEF EntryMove, KeepsGif
    <3>3. QED
      BY <2>2, <3>2
  <2>4. QED
    BY <2>1, <2>2, <2>3
<1>7. \A i \in Jobs : EntryMove(i)
  <2>1. ASSUME NEW st
        PROVE  LET e == WithStatus(cache[j],
        st) IN e.gif = cache[j].gif /\ e.key = cache[j].key /\ e.status = st
    BY DEF WithStatus, Entries
  <2>2. CASE SetProcessing(s) \/ SetFailed(s) \/ SetCompleted(s)
    <3>1. PICK st, ok, failed : /\ CacheSet(s, WithStatus(cache[j], st), ok, failed)
                                /\ st = "completed" => slot[s].pc = "setCompleted"
      BY <2>2 DEF SetProcessing, SetFailed, SetCompleted
    <3>2. QED
      BY <1>6, <2>1, <3>1
  <2>3. CASE SetGif(s)
    <3>1. LET e == WithGif(cache[j], "result", slot[s].key)
          IN  e.gif = "result" /\ e.key = slot[s].key /\ e.status = cache[j].status
      BY DEF WithGif, Entries
    <3>2. QED
      BY <1>6, <2>3, <3>1 DEF SetGif
  <2>4. CASE UNCHANGED cache
    BY <2>4 DEF EntryMove
  <2>5. QED
    BY <2>2, <2>3, <2>4 DEF Process, RowProcessing, RunProcessor, RowFailed, RowDone,
                            CreateGif, IncrementUsage
\* The slots.
<1>8. \A t \in Slots : CompletedMove(t)
  <2>1. slot'[s].pc = "setCompleted" => SetGif(s) /\ Goto(s, "setCompleted") /\ cache'[j].gif = "result"
    <3>1. CASE RunProcessor(s)
      BY <1>2, <3>1, AtType DEF RunProcessor, Goto
    <3>2. CASE SetGif(s)
      <4>1. CacheSet(s, WithGif(cache[j], "result", slot[s].key), "setCompleted", "nack")
        BY <3>2 DEF SetGif
      <4>2. Goto(s, "setCompleted") => cache' = [cache EXCEPT ![j] = WithGif(cache[j], "result", slot[s].key)]
        BY <1>3, <4>1 DEF CacheSet
      <4>3. slot'[s].pc = "setCompleted" => Goto(s, "setCompleted")
        BY <1>3, <4>1 DEF CacheSet
      <4>4. WithGif(cache[j], "result", slot[s].key).gif = "result"
        BY DEF WithGif, Entries
      <4>5. QED
        BY <1>1, <1>2, <3>2, <4>2, <4>3, <4>4
    <3>3. CASE SetProcessing(s) \/ RowProcessing(s) \/ RowFailed(s) \/ SetFailed(s) \/ SetCompleted(s)
               \/ RowDone(s) \/ CreateGif(s) \/ IncrementUsage(s)
      BY <1>3, <3>3 DEF SetProcessing, RowProcessing, RowFailed, SetFailed, SetCompleted, RowDone,
                        CreateGif, IncrementUsage, CacheSet, UpdateStatus
    <3>4. QED
      BY <3>1, <3>2, <3>3 DEF Process
  <2>2. QED
    BY <1>1, <2>1 DEF CompletedMove, SetGif
<1>9. QED
  BY <1>1, <1>4, <1>5, <1>7, <1>8 DEF JobMoves

\* Every step moves a job's records in one of these ways.
LEMMA NextMoves ==
    ASSUME IInv, \A j \in Jobs : cache[j].status = "completed" => Sent(j), [Next]_vars
    PROVE  JobMoves
<1> USE DEF dbVars, queueVars, apiVars
<1>1. slot \in [Slots -> SlotRecs] /\ TypeInv
  BY DEF IInv, TypeInv, TypeOK
<1>2. ASSUME NEW j \in Jobs, Convert(j) PROVE JobMoves
  <2>1. CASE ~Sent(j)
    BY <1>1, <1>2, <2>1, ConvertMoves
  <2>2. CASE Sent(j)
    <3>1. UNCHANGED <<cache, row, minted, slot>>
      BY <1>2, <2>2 DEF Convert, RefuseKey, Lock, ReadQuota, SetCaches, CreateRow,
                        PublishVideo, UndoPublish, Respond
    <3>2. \A i \in Jobs : Sent(i) => Sent(i)'
      BY <1>1, <1>2, SentStays
    <3>3. QED
      BY <1>1, <3>1, <3>2, NoJobMoves
  <2>3. QED
    BY <2>1, <2>2
<1>3. ASSUME NEW s \in Slots, Deliver(s) PROVE JobMoves
  <2>1. PICK j \in ready : slot' = [slot EXCEPT ![s] = At("setProcessing", j, 0)]
    BY <1>3 DEF Deliver
  <2>2. \A t \in Slots : slot'[t] = slot[t] \/ slot'[t].pc # "setCompleted"
    BY <1>1, <2>1, AtType
  <2>3. QED
    BY <1>1, <1>3, <2>2, NoJobMoves DEF Deliver
<1>4. ASSUME NEW s \in Slots, Ack(s) \/ Nack(s) PROVE JobMoves
  <2>1. \A t \in Slots : slot'[t] = slot[t] \/ slot'[t].pc # "setCompleted"
    BY <1>1, <1>4, AtType DEF Ack, Nack, Settle, IdleSlot
  <2>2. QED
    BY <1>1, <1>4, <2>1, NoJobMoves DEF Ack, Nack, Settle
<1>5. ASSUME NEW w \in Workers, Stop(w) PROVE JobMoves
  <2>1. \A t \in Slots : slot'[t] = slot[t] \/ slot'[t].pc # "setCompleted"
    BY <1>5, AtType DEF Stop, IdleSlot
  <2>2. QED
    BY <1>1, <1>5, <2>1, NoJobMoves DEF Stop
<1>6. ASSUME NEW w \in Workers, Crash(w) \/ Sigterm(w) \/ Exit(w) \/ Start(w) \/ Cut(w) PROVE JobMoves
  BY <1>1, <1>5, <1>6, NoJobMoves DEF Crash, Sigterm, Exit, Start, Cut
<1>7. CASE ApiCrash
  <2>1. \A j \in Jobs : Sent(j) => Sent(j)'
    BY <1>7 DEF ApiCrash, InConvert
  <2>2. QED
    BY <1>1, <1>7, <2>1, NoJobMoves DEF ApiCrash
<1>8. CASE UNCHANGED vars
  BY <1>1, <1>8, NoJobMoves DEF vars
<1>9. QED
  BY <1>2, <1>3, <1>4, <1>6, <1>7, <1>8, ProcessMoves DEF Next, Handle

-----------------------------------------------------------------------------
(* The cache and the limit.  Only a published job has handlers, and they   *)
(* write "completed" after the result; no request writes the entries of a  *)
(* job that was published.                                                 *)

EntryOf(j) ==
    /\ ~Sent(j) => cache[j].status # "completed"
    /\ cache[j].gif = "result" => cache[j].key \in 1..minted[j]
    /\ cache[j].status = "completed" => cache[j].gif = "result"

ResultInv ==
    /\ UsageWithinLimit
    /\ \A j \in Jobs : EntryOf(j)
    /\ \A s \in Slots : slot[s].pc = "setCompleted" => cache[slot[s].job].gif = "result"

\* "completed" names a result and the limit holds through every step.
LEMMA NextResult == IInv /\ ResultInv /\ [Next]_vars => ResultInv'
<1> SUFFICES ASSUME IInv, ResultInv, [Next]_vars PROVE ResultInv'
  OBVIOUS
<1>1. JobMoves
  BY NextMoves DEF ResultInv, EntryOf
<1>2. /\ minted \in [Jobs -> Nat] /\ IInv' /\ minted' \in [Jobs -> Nat]
  BY NextIInv DEF IInv, TypeInv, TypeOK
<1>3. ASSUME NEW j \in Jobs PROVE EntryOf(j)'
  <2>1. \A k : k \in 1..minted[j] => k \in 1..minted'[j]
    BY <1>1, <1>2 DEF JobMoves
  <2>2. \A s \in Slots : slot[s].pc = "setGif" /\ slot[s].job = j => slot[s].key \in 1..minted[j]
    BY DEF IInv, TypeInv, SlotCarries, Carries, KeyedPcs
  <2>3. \A s \in Slots : slot[s].pc # "idle" /\ slot[s].job = j => Sent(j)
    BY WorksForSent
  <2>4. QED
    BY <1>1, <2>1, <2>2, <2>3 DEF JobMoves, EntryMove, KeepsGif, ResultInv, EntryOf
<1>4. ASSUME NEW s \in Slots, slot'[s].pc = "setCompleted" PROVE cache'[slot'[s].job].gif = "result"
  BY <1>1, <1>4, WorksForSent DEF JobMoves, EntryMove, KeepsGif, CompletedMove, ResultInv
<1>5. UsageWithinLimit'
  <2>1. \A u \in Users : used[u] <= Limit /\ used[u] \in Nat
    BY DEF IInv, TypeInv, TypeOK, ResultInv, UsageWithinLimit
  <2>2. used' = used \/ \E u : used' = Bill(u)
    BY DEF Next, Convert, RefuseKey, Lock, ReadQuota, SetCaches, CreateRow, PublishVideo,
           UndoPublish, Respond, ApiCrash,
           Deliver, Handle, Process, SetProcessing, RowProcessing, RunProcessor, RowFailed,
           SetFailed,
           SetGif, SetCompleted, RowDone, CreateGif, IncrementUsage, Ack, Nack, Settle,
           Crash, Sigterm, Exit, Start, Cut, Stop, dbVars, vars
  <2>3. QED
    BY <2>1, <2>2, ConversionAssumption DEF UsageWithinLimit, Bill, IInv, TypeInv, TypeOK
<1>6. QED
  BY <1>3, <1>4, <1>5 DEF ResultInv

\* Nothing is used, and nothing completed, when the system starts.
LEMMA InitResult == Init => ResultInv
<1> SUFFICES ASSUME Init PROVE ResultInv
  OBVIOUS
<1>1. \A s \in Slots : slot[s].pc = "idle"
  BY AtType DEF Init, IdleSlot
<1>2. \A j \in Jobs : cache[j].status = "none" /\ cache[j].gif = "none"
  BY DEF Init, NoEntries, Entries
<1>3. QED
  BY <1>1, <1>2, ConversionAssumption DEF Init, ResultInv, EntryOf, UsageWithinLimit

\* gif_count stays within gif_limit although the check comes long before the bill, and whoever
\* reads "completed" finds the key of an uploaded gif, stale handlers and lost connections or not.
THEOREM ResultsCorrect == Spec => []ResultsAgree
<1>1. ResultInv => ResultsAgree
  BY DEF ResultInv, EntryOf, ResultsAgree, CompletedNamesResult
<1>2. IInv /\ ResultInv /\ [Next]_vars => (IInv /\ ResultInv)'
  BY NextIInv, NextResult
<1>3. Init => IInv /\ ResultInv
  BY InitIInv, InitResult
<1>4. QED
  BY <1>1, <1>2, <1>3, PTL DEF Spec

-----------------------------------------------------------------------------
(* The job board.                                                          *)

\* The pipeline starts as an empty board.
LEMMA InitBoard == Init => Board!BoardInit
  BY DEF Init, Board!BoardInit, BoardState, HeldBySlots

\* Where no message moves, the board sees at most new results of one job.
LEMMA NoMove ==
    ASSUME UNCHANGED <<ready, unacked, acked, dead>>
    PROVE  BoardState' = BoardState
  BY DEF BoardState, HeldBySlots

\* One message that moves is one job that changes state.
LEMMA OneMove ==
    ASSUME NEW j \in Jobs, NEW to, BoardState'[j] = to,
           \A i \in Jobs : i # j => BoardState'[i] = BoardState[i]
    PROVE  BoardState' = [BoardState EXCEPT ![j] = to]
  BY DEF BoardState

\* A request submits its job or leaves the board alone.
LEMMA RequestStep ==
    ASSUME IInv, NEW j \in Jobs, Convert(j) PROVE [Board!BoardNext]_(Board!boardVars)
<1> USE DEF dbVars, queueVars, apiVars
<1>1. gifs' = gifs
  BY DEF Convert, RefuseKey, Lock, ReadQuota, SetCaches, CreateRow, PublishVideo, UndoPublish,
         Respond
<1>2. CASE UNCHANGED <<ready, unacked, acked, dead>>
  BY <1>1, <1>2, NoMove DEF Board!boardVars
<1>3. CASE PublishVideo(j) /\ ready' = ready \cup {j}
  <2>1. j \notin Published
    BY <1>3 DEF PublishVideo, IInv, PlaceInv, OnlySent
  <2>2. UNCHANGED <<unacked, acked, dead>>
    BY <1>3 DEF PublishVideo
  <2>3. BoardState[j] = "absent" /\ BoardState'[j] = "pending"
    BY <1>3, <2>1, <2>2 DEF BoardState, Published, HeldBySlots
  <2>4. \A i \in Jobs : i # j => BoardState'[i] = BoardState[i]
    BY <1>3, <2>2 DEF BoardState, HeldBySlots
  <2>5. Board!Submit(j)
    BY <1>1, <2>3, <2>4, OneMove DEF Board!Submit, Board!Move
  <2>6. QED
    BY <2>5 DEF Board!BoardNext
<1>4. QED
  BY <1>2, <1>3 DEF Convert, RefuseKey, Lock, ReadQuota, SetCaches, CreateRow, PublishVideo,
                    UndoPublish, Respond

\* A delivery begins a pending job.
LEMMA DeliverStep ==
    ASSUME IInv, NEW s \in Slots, Deliver(s) PROVE [Board!BoardNext]_(Board!boardVars)
<1> USE DEF dbVars, queueVars, apiVars
<1>1. PICK j \in ready : ready' = ready \ {j} /\ unacked' = [unacked EXCEPT ![s] = j]
  BY DEF Deliver
<1>2. unacked[s] = NoJob /\ j \in Jobs /\ j # NoJob /\ UNCHANGED <<acked, dead, gifs>>
  BY ConversionAssumption DEF Deliver, IInv, PlaceInv, AtWork, TypeInv, TypeOK
<1>3. unacked'[s] = j /\ \A t \in Slots : t # s => unacked'[t] = unacked[t]
  BY <1>1 DEF IInv, TypeInv, TypeOK
<1>4. HeldBySlots' = HeldBySlots \cup {j}
  BY <1>2, <1>3 DEF HeldBySlots
<1>5. j \notin acked /\ j \notin dead /\ j \notin HeldBySlots
  BY DEF IInv, PlaceInv, MessageInOnePlace
<1>6. BoardState[j] = "pending" /\ BoardState'[j] = "running"
  BY <1>2, <1>4, <1>5 DEF BoardState
<1>7. \A i \in Jobs : i # j => BoardState'[i] = BoardState[i]
  BY <1>1, <1>2, <1>4 DEF BoardState
<1>8. Board!Begin(j)
  BY <1>2, <1>6, <1>7, OneMove DEF Board!Begin, Board!Move
<1>9. QED
  BY <1>2, <1>8 DEF Board!BoardNext

\* The writes of Process record a result of the job or leave the board alone.
LEMMA ProcessStep ==
    ASSUME IInv, NEW s \in Slots, Process(s) PROVE [Board!BoardNext]_(Board!boardVars)
<1> DEFINE j == slot[s].job
<1>1. BoardState' = BoardState
  BY ProcessFrame, NoMove DEF IInv
<1>2. CASE gifs' = gifs
  BY <1>1, <1>2 DEF Board!boardVars
<1>3. CASE gifs' # gifs
  <2>1. CreateGif(s)
    BY <1>3 DEF Process, SetProcessing, RowProcessing, RunProcessor, RowFailed, SetFailed,
                SetGif, SetCompleted, RowDone, IncrementUsage, dbVars
  <2>2. gifs' = gifs \cup {<<j, slot[s].key>>}
    BY <1>3, <2>1 DEF CreateGif
  <2>3. j \in Jobs /\ j \in Published
    BY <2>1 DEF CreateGif, IInv, TypeInv, SlotCarries, Carries, AckInv
  <2>4. BoardState[j] # "absent"
    BY <2>3 DEF BoardState, Published
  <2>5. Board!Record(j)
    BY <1>1, <1>3, <2>2, <2>4 DEF Board!Record
  <2>6. QED
    BY <2>3, <2>5 DEF Board!BoardNext
<1>4. QED
  BY <1>2, <1>3

\* Ack and nack end the job the slot holds, or nothing.
LEMMA SettleStep ==
    ASSUME IInv, NEW s \in Slots, Ack(s) \/ Nack(s) PROVE [Board!BoardNext]_(Board!boardVars)
<1> DEFINE j == unacked[s]
<1> USE DEF dbVars
<1>1. /\ unacked' = [unacked EXCEPT ![s] = NoJob]
      /\ UNCHANGED <<ready, gifs>>
      /\ slot[s].pc \in {"ack", "nack"}
  BY DEF Ack, Nack, Settle
<1>2. unacked'[s] = NoJob /\ \A t \in Slots : t # s => unacked'[t] = unacked[t]
  BY <1>1 DEF IInv, TypeInv, TypeOK
<1>3. CASE j = NoJob
  <2>1. unacked' = unacked
    BY <1>1, <1>3 DEF IInv, TypeInv, TypeOK
  <2>2. UNCHANGED <<acked, dead>>
    BY <1>3 DEF Ack, Nack
  <2>3. QED
    BY <1>1, <2>1, <2>2, NoMove DEF Board!boardVars
<1>4. CASE j # NoJob
  <2>1. /\ j \in Jobs /\ j \in HeldBySlots /\ j \notin ready /\ j \notin acked /\ j \notin dead
        /\ \A t \in Slots : t # s => unacked[t] # j
    BY <1>4 DEF IInv, TypeInv, TypeOK, PlaceInv, MessageInOnePlace, HeldBySlots
  <2>2. HeldBySlots' = HeldBySlots \ {j}
    BY <1>2, <1>4, <2>1 DEF HeldBySlots
  <2>3. BoardState[j] = "running"
    BY <2>1 DEF BoardState
  <2>4. CASE Ack(s)
    <3>1. acked' = acked \cup {j} /\ dead' = dead
      BY <1>4, <2>4 DEF Ack
    <3>2. BoardState'[j] = "succeeded" /\ \A i \in Jobs : i # j => BoardState'[i] = BoardState[i]
      BY <1>1, <2>1, <2>2, <3>1 DEF BoardState
    <3>3. \E r \in gifs : r[1] = j
      BY <1>4, <2>4 DEF Ack, IInv, AckInv, PlaceInv, AtWork
    <3>4. Board!Succeed(j)
      BY <1>1, <2>1, <2>3, <3>2, <3>3, OneMove DEF Board!Succeed, Board!Move
    <3>5. QED
      BY <2>1, <3>4 DEF Board!BoardNext
  <2>5. CASE Nack(s)
    <3>1. dead' = dead \cup {j} /\ acked' = acked
      BY <1>4, <2>5 DEF Nack
    <3>2. BoardState'[j] = "failed" /\ \A i \in Jobs : i # j => BoardState'[i] = BoardState[i]
      BY <1>1, <2>1, <2>2, <3>1 DEF BoardState
    <3>3. Board!Fail(j)
      BY <1>1, <2>1, <2>3, <3>2, OneMove DEF Board!Fail, Board!Move
    <3>4. QED
      BY <2>1, <3>3 DEF Board!BoardNext
  <2>6. QED
    BY <2>4, <2>5
<1>5. QED
  BY <1>3, <1>4

\* A channel that goes away interrupts the jobs its worker holds.
LEMMA RequeueStep ==
    ASSUME IInv, NEW w \in Workers, Requeue(w), gifs' = gifs
    PROVE  [Board!BoardNext]_(Board!boardVars)
<1> DEFINE J == {j \in Jobs : \E s \in Slots : WorkerOf[s] = w /\ unacked[s] = j}
<1>1. \A s \in Slots : unacked'[s] = IF WorkerOf[s] = w THEN NoJob ELSE unacked[s]
  BY DEF Requeue
<1>2. \A j : j \in ready' <=> j \in ready \/ j \in J
  BY ConversionAssumption DEF Requeue, SlotsOf, IInv, TypeInv, TypeOK
<1>3. UNCHANGED <<acked, dead>>
  BY DEF Requeue
<1>4. \A j \in Jobs : j \in HeldBySlots' <=> j \in HeldBySlots /\ j \notin J
  BY <1>1, ConversionAssumption DEF HeldBySlots, IInv, PlaceInv, MessageInOnePlace
<1>5. \A j \in J : j \in HeldBySlots /\ j \notin acked /\ j \notin dead
  BY ConversionAssumption DEF HeldBySlots, IInv, PlaceInv, MessageInOnePlace
<1>6. \A j \in Jobs : BoardState'[j] = IF j \in J THEN "pending" ELSE BoardState[j]
  BY <1>2, <1>3, <1>4, <1>5 DEF BoardState
<1>7. J \in SUBSET {j \in Jobs : BoardState[j] = "running"}
  BY <1>5 DEF BoardState
<1>8. BoardState' = [j \in Jobs |-> IF j \in J THEN "pending" ELSE BoardState[j]]
  BY <1>6 DEF BoardState
<1>9. Board!Interrupt
  BY <1>7, <1>8 DEF Board!Interrupt
<1>10. QED
  BY <1>9 DEF Board!BoardNext

\* Every step of the pipeline is a step of the board or a stutter.
LEMMA BoardStep == IInv /\ [Next]_vars => [Board!BoardNext]_(Board!boardVars)
<1> SUFFICES ASSUME IInv, [Next]_vars PROVE [Board!BoardNext]_(Board!boardVars)
  OBVIOUS
<1> USE DEF dbVars, queueVars, apiVars
<1>1. CASE UNCHANGED <<gifs, ready, unacked, acked, dead>>
  BY <1>1, NoMove DEF Board!boardVars
<1>2. ASSUME NEW w \in Workers, Crash(w) \/ Sigterm(w) \/ Exit(w) \/ Start(w) \/ Cut(w)
      PROVE  [Board!BoardNext]_(Board!boardVars)
  BY <1>1, <1>2, RequeueStep DEF Crash, Sigterm, Exit, Start, Cut, Stop
<1>3. CASE ApiCrash \/ UNCHANGED vars
  BY <1>1, <1>3 DEF ApiCrash, vars
<1>4. QED
  BY <1>2, <1>3, RequestStep, DeliverStep, ProcessStep, SettleStep DEF Next, Handle

\* The pipeline with its queue, cache, handlers and outages does only what the
\* job board allows: a job ends once, and as a success only with a gif.
THEOREM BoardRefined == Spec => ImplementsBoard
<1>1. Init => Board!BoardInit
  BY InitBoard
<1>2. IInv /\ [Next]_vars => [Board!BoardNext]_(Board!boardVars)
  BY BoardStep
<1>3. QED
  BY <1>1, <1>2, InitIInv, NextIInv, PTL DEF Spec, ImplementsBoard, Board!BoardSpec
-----------------------------------------------------------------------------
(* Rows and messages.  While no connection is lost, a handler holds the    *)
(* delivery it works on, so no other handler writes its row; while         *)
(* Postgres answers, what it wrote is there when it acks.                  *)

HeldInv == \A s \in Slots : slot[s].pc # "idle" => unacked[s] = slot[s].job

\* The only writer of a published job's row is the handler that works on it.
LEMMA RowsOfOthers ==
    ASSUME IInv, NEW i \in Jobs, Sent(i),
           Next, \A s \in Slots : slot[s].pc # "idle" /\ slot[s].job = i => ~Process(s)
    PROVE  row'[i] = row[i]
<1> USE DEF dbVars
<1>1. row \in [Jobs -> RowRecs]
  BY DEF IInv, TypeInv, TypeOK
<1>2. ASSUME NEW j \in Jobs, Convert(j) PROVE row'[i] = row[i]
  <2>1. row' = row \/ ~Sent(j)
    BY <1>2 DEF Convert, RefuseKey, Lock, ReadQuota, SetCaches, CreateRow, PublishVideo,
                UndoPublish, Respond
  <2>2. row' = row \/ \E r : row' = [row EXCEPT ![j] = r]
    BY <1>2 DEF Convert, RefuseKey, Lock, ReadQuota, SetCaches, CreateRow, PublishVideo,
                UndoPublish, Respond
  <2>3. QED
    BY <1>1, <2>1, <2>2
<1>3. ASSUME NEW s \in Slots, Process(s) PROVE row'[i] = row[i]
  <2>1. slot[s].job # i
    BY <1>3, ProcessFrame DEF IInv
  <2>2. row' = row \/ \E r : row' = [row EXCEPT ![slot[s].job] = r]
    BY <1>3 DEF Process, SetProcessing, RowProcessing, RunProcessor, RowFailed, SetFailed, SetGif,
                SetCompleted, RowDone, CreateGif, IncrementUsage, UpdateStatus
  <2>3. QED
    BY <1>1, <2>1, <2>2
<1>4. ASSUME NEW s \in Slots, Deliver(s) \/ Ack(s) \/ Nack(s) PROVE row' = row
  BY <1>4 DEF Deliver, Ack, Nack, Settle
<1>5. ASSUME NEW w \in Workers, Crash(w) \/ Sigterm(w) \/ Exit(w) \/ Start(w) \/ Cut(w) PROVE row' = row
  BY <1>5 DEF Crash, Sigterm, Exit, Start, Cut, Stop
<1>6. QED
  BY <1>2, <1>3, <1>4, <1>5 DEF Next, Handle, ApiCrash

\* What a handler works on is neither settled nor another handler's.
LEMMA HeldApart ==
    ASSUME IInv, HeldInv, NEW s \in Slots, slot[s].pc # "idle"
    PROVE  /\ slot[s].job \notin acked \cup dead
           /\ \A t \in Slots : t # s /\ slot[t].pc # "idle" => slot[t].job # slot[s].job
<1>1. slot[s].job \in Jobs /\ slot[s].job # NoJob /\ unacked[s] = slot[s].job
  BY WorksForSent, ConversionAssumption DEF HeldInv
<1>2. slot[s].job \notin acked \cup dead
  BY <1>1 DEF IInv, PlaceInv, MessageInOnePlace, HeldBySlots
<1>3. \A t \in Slots : t # s /\ slot[t].pc # "idle" => slot[t].job # slot[s].job
  BY <1>1 DEF HeldInv, IInv, PlaceInv, MessageInOnePlace
<1>4. QED
  BY <1>2, <1>3

\* Only a lost connection parts a handler from its delivery.
LEMMA NextHeldUncut ==
    ASSUME IInv, HeldInv, [Next]_vars, \A w \in Workers : ~Cut(w)
    PROVE  HeldInv'
<1> USE DEF queueVars
<1>1. /\ unacked \in [Slots -> Jobs \cup {NoJob}] /\ slot \in [Slots -> SlotRecs]
  BY DEF IInv, TypeInv, TypeOK
<1>2. CASE UNCHANGED <<slot, unacked>>
  BY <1>2 DEF HeldInv
<1>3. ASSUME NEW s \in Slots, Deliver(s) PROVE HeldInv'
  <2>1. PICK j : unacked' = [unacked EXCEPT ![s] = j] /\ slot' = [slot EXCEPT ![s] = At("setProcessing", j, 0)]
    BY <1>3 DEF Deliver
  <2>2. /\ unacked'[s] = j /\ slot'[s].job = j
        /\ \A t \in Slots : t # s => unacked'[t] = unacked[t] /\ slot'[t] = slot[t]
    BY <1>1, <2>1, AtType
  <2>3. QED
    BY <2>2 DEF HeldInv
<1>4. ASSUME NEW s \in Slots, Process(s) PROVE HeldInv'
  BY <1>4, ProcessFrame DEF IInv, HeldInv
<1>5. ASSUME NEW s \in Slots, Ack(s) \/ Nack(s) PROVE HeldInv'
  <2>1. /\ slot'[s].pc = "idle"
        /\ \A t \in Slots : t # s => unacked'[t] = unacked[t] /\ slot'[t] = slot[t]
    BY <1>1, <1>5, AtType DEF Ack, Nack, Settle, IdleSlot
  <2>2. QED
    BY <2>1 DEF HeldInv
<1>6. ASSUME NEW w \in Workers, Stop(w) PROVE HeldInv'
  <2>1. \A t \in Slots : slot'[t].pc = "idle" \/ (slot'[t] = slot[t] /\ unacked'[t] = unacked[t])
    BY <1>6, AtType DEF Stop, Requeue, IdleSlot
  <2>2. QED
    BY <2>1 DEF HeldInv
<1>7. ASSUME NEW w \in Workers, Crash(w) \/ Sigterm(w) \/ Exit(w) \/ Start(w) PROVE HeldInv'
  BY <1>2, <1>6, <1>7 DEF Crash, Sigterm, Exit, Start
<1>8. ASSUME NEW j \in Jobs, Convert(j) PROVE UNCHANGED <<slot, unacked>>
  BY <1>8 DEF Convert, RefuseKey, Lock, ReadQuota, SetCaches, CreateRow, PublishVideo,
              UndoPublish, Respond
<1>9. CASE ApiCrash \/ UNCHANGED vars
  BY <1>2, <1>9 DEF ApiCrash, vars
<1>10. QED
  BY <1>2, <1>3, <1>4, <1>5, <1>7, <1>8, <1>9 DEF Next, Handle

LEMMA NextHeld ==
    ASSUME "cut" \notin Faults, IInv, HeldInv, [Next]_vars
    PROVE  HeldInv'
<1>1. \A w \in Workers : ~Cut(w)
  BY DEF Cut, Outage
<1>2. QED
  BY <1>1, NextHeldUncut

LEMMA InitHeld == Init => HeldInv
  BY AtType DEF Init, HeldInv, IdleSlot

\* Once a job's message is acked or dead-lettered its row is final, whatever fails and however
\* often workers stop, as long as no handler outlives its connection to the broker.
THEOREM SettledRowFinal == ASSUME "cut" \notin Faults PROVE Spec => SettledRowIsFinal
<1>1. IInv /\ HeldInv /\ [Next]_vars => [\A j \in acked \cup dead : row'[j] = row[j]]_vars
  <2>1. SUFFICES ASSUME IInv, HeldInv, Next, NEW j \in acked \cup dead PROVE row'[j] = row[j]
    OBVIOUS
  <2>2. j \in Jobs /\ Sent(j)
    BY <2>1 DEF IInv, PlaceInv, OnlySent, Published
  <2>3. QED
    BY <2>1, <2>2, HeldApart, RowsOfOthers
<1>2. IInv /\ HeldInv /\ [Next]_vars => (IInv /\ HeldInv)'
  BY NextIInv, NextHeld
<1>3. Init => IInv /\ HeldInv
  BY InitIInv, InitHeld
<1>4. QED
  BY <1>1, <1>2, <1>3, PTL DEF Spec, SettledRowIsFinal

\* A handler past RowDone has written its key to the row; past CreateGif that gif is recorded.
RowBehind(s) ==
    LET j == slot[s].job IN
    /\ slot[s].pc = "gifRow" /\ ~Cancelled(s) => row[j] = Row("done", slot[s].key)
    /\ slot[s].pc \in {"usage", "ack"} => row[j].status = "done" /\ <<j, row[j].key>> \in gifs

AllPublished == \A j \in Jobs : pc[j] \in {"return", "accepted"} => j \in Published

RowInv == HeldInv /\ AllPublished /\ (\A s \in Slots : RowBehind(s)) /\ AckedJobIsDone

NoRowLost == Faults \cap {"lost", "db", "cut"} = {}

\* A job that Convert accepts has its message with the broker.
LEMMA NextPublished ==
    ASSUME NoRowLost, IInv, AllPublished, [Next]_vars
    PROVE  AllPublished'
<1>1. Published \subseteq Published'
  BY Growing DEF IInv
<1>2. pc \in [Jobs -> RequestPcs]
  BY DEF IInv, TypeInv, TypeOK
<1>3. ASSUME NEW j \in Jobs, pc'[j] \in {"return", "accepted"}, pc[j] \notin {"return", "accepted"}
      PROVE  j \in Published'
  <2>1. CASE \E i \in Jobs : Convert(i)
    <3>0. PICK i \in Jobs : Convert(i)
      BY <2>1
    <3>1. PICK p : pc' = [pc EXCEPT ![i] = p]
      BY <3>0, SentStays DEF IInv
    <3>2. i = j /\ p \in {"return", "accepted"}
      BY <1>2, <1>3, <3>1
    <3>3. PublishVideo(j)
      BY <1>2, <1>3, <3>0, <3>1, <3>2 DEF Convert, RefuseKey, Lock, ReadQuota, SetCaches,
            CreateRow, UndoPublish, Respond, Return, Proceed
    <3>4. j \in ready'
      BY <1>2, <1>3, <3>3 DEF PublishVideo, Return, Proceed, NoRowLost
    <3>5. QED
      BY <3>4 DEF Published
  <2>2. CASE ApiCrash
    BY <1>2, <1>3, <2>2 DEF ApiCrash
  <2>3. CASE UNCHANGED pc
    BY <1>3, <2>3
  <2>4. ASSUME NEW s \in Slots, Deliver(s) \/ Handle(s) PROVE UNCHANGED pc
    BY <2>4, ProcessFrame DEF IInv, Deliver, Handle, Ack, Nack, Settle, apiVars
  <2>5. ASSUME NEW w \in Workers, Crash(w) \/ Sigterm(w) \/ Exit(w) \/ Start(w) \/ Cut(w) PROVE UNCHANGED pc
    BY <2>5 DEF Crash, Sigterm, Exit, Start, Cut, Stop, apiVars
  <2>6. QED
    BY <2>1, <2>2, <2>3, <2>4, <2>5 DEF Next, vars
<1>4. QED
  BY <1>1, <1>3 DEF AllPublished
\* The handler that steps writes its row before it inserts the gif, and both before its ack.
LEMMA ProcessRowBehind ==
    ASSUME NoRowLost, IInv, NEW s \in Slots, RowBehind(s), Process(s)
    PROVE  RowBehind(s)'
<1> USE DEF dbVars, queueVars, apiVars
<1> DEFINE j == slot[s].job
<1>1. /\ j \in Jobs /\ slot'[s].job = j /\ UNCHANGED worker
  BY ProcessFrame, WorksForSent DEF IInv
<1>2. /\ slot \in [Slots -> SlotRecs] /\ row \in [Jobs -> RowRecs] /\ gifs \subseteq gifs'
  BY Growing DEF IInv, TypeInv, TypeOK, Next, Handle
<1>3. ASSUME NEW p, Goto(s, p) PROVE slot'[s].pc = p /\ slot'[s].key = slot[s].key
  BY <1>2, <1>3, AtType DEF Goto
<1>4. CASE RunProcessor(s)
  BY <1>2, <1>3, <1>4, AtType DEF RunProcessor, RowBehind
<1>5. CASE RowDone(s)
  BY <1>1, <1>2, <1>3, <1>5 DEF RowDone, UpdateStatus, RowBehind, Cancelled, Proc, NoRowLost
<1>6. CASE CreateGif(s)
  <2>1. CASE ~Cancelled(s) /\ slot'[s].pc = "usage"
    <3>1. row[j] = Row("done", slot[s].key) /\ gifs' = gifs \cup {<<j, slot[s].key>>} /\ row' = row
      BY <1>3, <1>6, <2>1 DEF CreateGif, RowBehind
    <3>2. row[j].status = "done" /\ row[j].key = slot[s].key
      BY <3>1 DEF Row
    <3>3. QED
      BY <1>1, <2>1, <3>1, <3>2 DEF RowBehind
  <2>2. CASE slot'[s].pc = "setFailed"
    BY <2>2 DEF RowBehind
  <2>3. QED
    BY <1>3, <1>6, <2>1, <2>2 DEF CreateGif
<1>7. CASE IncrementUsage(s)
  <2>1. slot[s].pc = "usage" /\ UNCHANGED <<row, gifs>> /\ slot'[s].pc \in {"ack", "setFailed"}
    BY <1>3, <1>7 DEF IncrementUsage
  <2>2. QED
    BY <1>1, <2>1 DEF RowBehind
<1>8. CASE SetProcessing(s) \/ RowProcessing(s) \/ RowFailed(s) \/ SetFailed(s) \/ SetGif(s) \/ SetCompleted(s)
  <2>1. slot'[s].pc \notin {"gifRow", "usage", "ack"}
    BY <1>3, <1>8 DEF SetProcessing, RowProcessing, RowFailed, SetFailed, SetGif, SetCompleted,
                      CacheSet, UpdateStatus
  <2>2. QED
    BY <2>1 DEF RowBehind
<1>9. QED
  BY <1>4, <1>5, <1>6, <1>7, <1>8 DEF Process

\* A step of another leaves a handler's row and gif where they are.
LEMMA RowBehindStays ==
    ASSUME IInv, HeldInv, [Next]_vars, NEW t \in Slots, RowBehind(t), slot'[t] = slot[t],
           slot[t].pc # "idle" => ~Process(t), Cancelled(t) => Cancelled(t)'
    PROVE  RowBehind(t)'
<1>1. gifs \subseteq gifs'
  BY Growing DEF IInv
<1>2. CASE slot[t].pc # "idle"
  <2>1. slot[t].job \in Jobs /\ Sent(slot[t].job)
    BY <1>2, WorksForSent
  <2>2. row'[slot[t].job] = row[slot[t].job]
    <3>1. CASE Next
      BY <1>2, <2>1, <3>1, HeldApart, RowsOfOthers
    <3>2. CASE UNCHANGED vars
      BY <3>2 DEF vars
    <3>3. QED
      BY <3>1, <3>2
  <2>3. QED
    BY <1>1, <2>1, <2>2 DEF RowBehind
<1>3. CASE slot[t].pc = "idle"
  BY <1>3 DEF RowBehind
<1>4. QED
  BY <1>2, <1>3

LEMMA NextRowInv ==
    ASSUME NoRowLost, IInv, RowInv, [Next]_vars
    PROVE  RowInv'
<1>1. HeldInv /\ HeldInv' /\ AllPublished'
  BY NextHeld, NextPublished DEF RowInv, NoRowLost
<1>2. slot \in [Slots -> SlotRecs]
  BY DEF IInv, TypeInv, TypeOK
<1>3. ASSUME NEW t \in Slots PROVE RowBehind(t)'
  <2>1. RowBehind(t)
    BY DEF RowInv
  <2>2. CASE Process(t)
    BY <2>1, <2>2, ProcessRowBehind
  <2>3. CASE slot'[t].pc \in {"idle", "setProcessing"}
    BY <2>3 DEF RowBehind
  <2>4. CASE slot'[t] = slot[t] /\ (Cancelled(t) => Cancelled(t)') /\ ~Process(t)
    BY <1>1, <2>1, <2>4, RowBehindStays
  <2>5. ASSUME UNCHANGED <<slot, worker>> PROVE slot'[t] = slot[t] /\ (Cancelled(t) => Cancelled(t)')
    BY <2>5 DEF Cancelled, Proc
  <2>6. ASSUME NEW s \in Slots, Deliver(s) \/ Ack(s) \/ Nack(s)
        PROVE  /\ slot'[t] = slot[t] \/ slot'[t].pc \in {"idle", "setProcessing"}
               /\ UNCHANGED worker
    BY <1>2, <2>6, AtType DEF Deliver, Ack, Nack, Settle, IdleSlot
  <2>7. ASSUME NEW s \in Slots, s # t, Process(s) PROVE slot'[t] = slot[t] /\ UNCHANGED worker
    BY <2>7, ProcessFrame DEF IInv
  <2>8. ASSUME NEW w \in Workers, Stop(w)
        PROVE  slot'[t].pc = "idle" \/ (slot'[t] = slot[t] /\ (Cancelled(t) => Cancelled(t)'))
    <3>1. WorkerOf[t] = w => slot'[t].pc = "idle"
      BY <2>8, AtType DEF Stop, IdleSlot
    <3>2. WorkerOf[t] # w => slot'[t] = slot[t] /\ worker'[WorkerOf[t]] = worker[WorkerOf[t]]
      BY <2>8, ConversionAssumption DEF Stop, IInv, TypeInv, TypeOK
    <3>3. QED
      BY <3>1, <3>2 DEF Cancelled, Proc
  <2>9. ASSUME NEW w \in Workers, Crash(w) \/ Sigterm(w) \/ Exit(w) \/ Start(w) \/ Cut(w)
        PROVE  slot'[t].pc = "idle" \/ (slot'[t] = slot[t] /\ (Cancelled(t) => Cancelled(t)'))
    <3>1. CASE Stop(w)
      BY <2>8, <3>1
    <3>2. CASE ~Stop(w)
      <4>1. slot'[t] = slot[t] /\ \E st : worker' = [worker EXCEPT ![w] = st] /\ (worker[w] = "draining" => FALSE)
        BY <2>9, <3>2 DEF Crash, Sigterm, Exit, Start, Cut
      <4>2. QED
        BY <4>1, ConversionAssumption DEF Cancelled, Proc, IInv, TypeInv, TypeOK
    <3>3. QED
      BY <3>1, <3>2
  <2>10. ASSUME NEW j \in Jobs, Convert(j) PROVE UNCHANGED <<slot, worker>>
    BY <2>10 DEF Convert, RefuseKey, Lock, ReadQuota, SetCaches, CreateRow, PublishVideo,
                 UndoPublish, Respond
  <2>11. CASE ApiCrash \/ UNCHANGED vars
    BY <2>2, <2>4, <2>5, <2>11 DEF ApiCrash, vars
  <2>12. QED
    BY <2>2, <2>3, <2>4, <2>5, <2>6, <2>7, <2>9, <2>10, <2>11 DEF Next, Handle, Cancelled, Proc
<1>4. AckedJobIsDone'
  <2>1. gifs \subseteq gifs'
    BY Growing DEF IInv
  <2>2. ASSUME NEW j \in acked PROVE row'[j].status = "done" /\ <<j, row'[j].key>> \in gifs'
    <3>1. j \in Jobs /\ Sent(j)
      BY DEF IInv, PlaceInv, OnlySent, Published
    <3>2. row'[j] = row[j]
      BY <1>1, <3>1, HeldApart, RowsOfOthers DEF vars
    <3>3. QED
      BY <2>1, <3>2 DEF RowInv, AckedJobIsDone
  <2>3. ASSUME NEW j \in acked', j \notin acked PROVE row'[j].status = "done" /\ <<j, row'[j].key>> \in gifs'
    <3>1. PICK s \in Slots : Ack(s) /\ j = unacked[s] /\ j # NoJob
      <4>1. \E s \in Slots : Ack(s)
        BY <2>3, ProcessFrame DEF IInv, Next, Convert, RefuseKey, Lock, ReadQuota, SetCaches,
                                  CreateRow, PublishVideo,
              UndoPublish, Respond, ApiCrash, Deliver, Handle, Nack, Settle, Crash, Sigterm,
              Exit, Start, Cut, Stop,
              Requeue, queueVars, vars
      <4>2. QED
        BY <2>3, <4>1 DEF Ack
    <3>2. slot[s].pc = "ack" /\ UNCHANGED <<row, gifs>> /\ slot[s].job = j
      BY <1>1, <3>1 DEF Ack, Settle, dbVars, HeldInv
    <3>3. QED
      BY <3>2 DEF RowInv, RowBehind
  <2>4. QED
    BY <2>2, <2>3 DEF AckedJobIsDone
<1>5. QED
  BY <1>1, <1>3, <1>4 DEF RowInv

LEMMA InitRowInv == Init => RowInv
  BY InitHeld, AtType DEF Init, RowInv, AllPublished, RowBehind, AckedJobIsDone, IdleSlot

\* An accepted job's message is with the broker, and an acked job's row is "done" and names a
\* recorded gif through crashes, SIGTERMs and redeliveries: if the broker loses no unconfirmed
\* publish, Postgres answers, and no handler outlives its connection.
THEOREM RowsCorrect == ASSUME NoRowLost PROVE Spec => []RowsAgree
<1>1. IInv /\ RowInv => RowsAgree
  BY DEF IInv, PlaceInv, OnlySent, Published, RowInv, AllPublished, RowsAgree, AcceptedIsPublished
<1>2. IInv /\ RowInv /\ [Next]_vars => (IInv /\ RowInv)'
  BY NextIInv, NextRowInv
<1>3. Init => IInv /\ RowInv
  BY InitIInv, InitRowInv
<1>4. QED
  BY <1>1, <1>2, <1>3, PTL DEF Spec

-----------------------------------------------------------------------------
(* The requests of ConversionPoll.                                         *)


-----------------------------------------------------------------------------
(* The inductive invariant.  Entries expire here, so a gif entry may be    *)
(* gone; but once the entry of a published job is gone or names a result,  *)
(* it never holds the word it started with again.                          *)

Named == {"none", "result"}

EntryInv(j) ==
    /\ cache[j].status = "completed" => Sent(j) /\ cache[j].gif \in Named
    /\ cache[j].gif = "result" => cache[j].key \in 1..minted[j]
    /\ row[j].status = "done" => row[j].key \in 1..minted[j]

EntriesInv ==
    /\ \A j \in Jobs : EntryInv(j)
    /\ \A s \in Slots : slot[s].pc = "setCompleted" => cache[slot[s].job].gif \in Named

\* A request inside ConversionStatus is for a published job, and past the owner check it
\* is the owner's; one that has read "completed" will find a result or nothing.
RequestInv(c) ==
    /\ poll[c].pc # "idle" => poll[c].job \in Jobs /\ Sent(poll[c].job)
    /\ poll[c].pc \in {"status", "gif"} => Owner[poll[c].job] = c
    /\ poll[c].pc = "gif" /\ poll[c].status = "completed" => cache[poll[c].job].gif \in Named

RequestsInv == \A c \in Users : RequestInv(c)

PollInv ==
    /\ IInv /\ EntriesInv /\ RequestsInv
    /\ PollTypeOK /\ SuccessNamesGif /\ StrangerLearnsNothing

-----------------------------------------------------------------------------
(* The pipeline and the clock.                                             *)

\* What the requests inside ConversionStatus rely on survives a step that keeps them.
LEMMA PollsStay ==
    ASSUME PollInv, UNCHANGED pollVars,
           \A j \in Jobs : minted'[j] \in Nat /\ minted[j] <= minted'[j],
           \A j \in Jobs : Sent(j) =>
                Sent(j)' /\ (cache[j].gif \in Named => cache'[j].gif \in Named)
    PROVE  RequestsInv' /\ PollTypeOK' /\ SuccessNamesGif' /\ StrangerLearnsNothing'
<1> USE DEF pollVars
<1>1. RequestsInv'
  BY DEF PollInv, RequestsInv, RequestInv
<1>2. PollTypeOK' /\ StrangerLearnsNothing'
  BY DEF PollInv, PollTypeOK, StrangerLearnsNothing
<1>3. SuccessNamesGif'
  <2>1. \A j \in Jobs : minted[j] \in Nat /\ \A k : k \in 1..minted[j] => k \in 1..minted'[j]
    BY DEF PollInv, IInv, TypeInv, TypeOK
  <2>2. QED
    BY <2>1 DEF PollInv, SuccessNamesGif
<1>4. QED
  BY <1>1, <1>2, <1>3

LEMMA PipelineStep ==
    ASSUME PollInv, Next, UNCHANGED pollVars
    PROVE  PollInv'
<1>1. JobMoves /\ IInv /\ IInv'
  BY NextMoves, NextIInv DEF PollInv, EntriesInv, EntryInv
<1>2. /\ minted \in [Jobs -> Nat] /\ minted' \in [Jobs -> Nat]
      /\ \A j \in Jobs : \A k : k \in 1..minted[j] => k \in 1..minted'[j]
  BY <1>1 DEF IInv, TypeInv, TypeOK, JobMoves
<1>3. \A s \in Slots : slot[s].pc # "idle" => slot[s].job \in Jobs /\ Sent(slot[s].job)
  BY <1>1, WorksForSent
<1>4. \A s \in Slots : slot[s].pc \in KeyedPcs => slot[s].key \in 1..minted[slot[s].job]
  BY <1>1 DEF IInv, TypeInv, SlotCarries, Carries
<1>5. ASSUME NEW j \in Jobs
      PROVE  EntryInv(j)' /\ (Sent(j) /\ cache[j].gif \in Named => cache'[j].gif \in Named)
  <2>1. EntryInv(j) /\ EntryMove(j) /\ RowMove(j) /\ (Sent(j) => Sent(j)')
    BY <1>1 DEF PollInv, EntriesInv, JobMoves
  <2>2. Sent(j) /\ cache[j].gif \in Named => cache'[j].gif \in Named
    BY <2>1 DEF EntryMove, KeepsGif, Named
  <2>3. cache'[j].status = "completed" => Sent(j)' /\ cache'[j].gif \in Named
    BY <1>3, <2>1 DEF EntryMove, KeepsGif, EntryInv, EntriesInv, PollInv, Named
  <2>4. cache'[j].gif = "result" => cache'[j].key \in 1..minted'[j]
    BY <1>2, <1>4, <2>1 DEF EntryMove, KeepsGif, EntryInv, KeyedPcs
  <2>5. row'[j].status = "done" => row'[j].key \in 1..minted'[j]
    BY <1>2, <1>4, <2>1 DEF RowMove, EntryInv, KeyedPcs
  <2>6. QED
    BY <2>2, <2>3, <2>4, <2>5 DEF EntryInv
<1>6. EntriesInv'
  <2>1. ASSUME NEW s \in Slots, slot'[s].pc = "setCompleted" PROVE cache'[slot'[s].job].gif \in Named
    BY <1>1, <1>3, <1>5, <2>1 DEF JobMoves, CompletedMove, PollInv, EntriesInv, Named
  <2>2. QED
    BY <1>5, <2>1 DEF EntriesInv
<1>7. RequestsInv' /\ PollTypeOK' /\ SuccessNamesGif' /\ StrangerLearnsNothing'
  BY <1>1, <1>2, <1>5, PollsStay DEF JobMoves
<1>8. QED
  BY <1>1, <1>6, <1>7 DEF PollInv

\* An entry that expires takes no other with it, and nothing of the pipeline reads one.
LEMMA ExpireStep ==
    ASSUME PollInv, NEW j \in Jobs, Expire(j)
    PROVE  PollInv'
<1>1. /\ UNCHANGED <<apiVars, dbVars, minted, queueVars, slot, worker, outages, pollVars>>
      /\ minted \in [Jobs -> Nat] /\ cache \in [Jobs -> CacheRecs]
  BY DEF Expire, PollInv, IInv, TypeInv, TypeOK
<1>2. PICK e \in CacheRecs : /\ cache' = [cache EXCEPT ![j] = e]
                             /\ e.status \in {cache[j].status, "none"}
                             /\ e.gif = "none" \/ (e.gif = cache[j].gif /\ e.key = cache[j].key)
  <2> DEFINE a == Entries(FALSE, cache[j].status, cache[j].gif, cache[j].key)
             b == WithStatus(cache[j], "none")
             g == WithGif(cache[j], "none", 0)
  <2>1. \E e \in {a, b, g} : cache' = [cache EXCEPT ![j] = e]
    BY DEF Expire
  <2>2. a \in CacheRecs /\ b \in CacheRecs /\ g \in CacheRecs
    BY <1>1, EntryType DEF CacheStates, GifEntries
  <2>3. \A e \in {a, b, g} : /\ e.status \in {cache[j].status, "none"}
                             /\ e.gif = "none" \/ (e.gif = cache[j].gif /\ e.key = cache[j].key)
    BY DEF Entries, WithStatus, WithGif
  <2> HIDE DEF a, b, g
  <2>4. QED
    BY <2>1, <2>2, <2>3
<1>3. cache' \in [Jobs -> CacheRecs] /\ cache'[j] = e /\ \A i \in Jobs : i # j => cache'[i] = cache[i]
  BY <1>1, <1>2
<1>4. IInv'
  <2>1. TypeInv'
    BY <1>1, <1>3 DEF PollInv, IInv, TypeInv, TypeOK, SlotCarries, Carries, apiVars, dbVars,
                      queueVars
  <2>2. PlaceInv'
    BY <1>1, PlaceFrame DEF PollInv, IInv, apiVars, queueVars
  <2>3. BillInv'
    BY <1>1 DEF PollInv, IInv, BillInv, FreshKeys, Keyed, GifOf, Covered, Billing, GifsOf, dbVars
  <2>4. AckInv'
    BY <1>1 DEF PollInv, IInv, AckInv, AckedJobHasGif, Published, HeldBySlots, dbVars, queueVars
  <2>5. QED
    BY <2>1, <2>2, <2>3, <2>4 DEF IInv
<1>5. \A i \in Jobs : cache[i].gif \in Named => cache'[i].gif \in Named
  BY <1>2, <1>3 DEF Named
<1>6. EntriesInv'
  <2>1. ASSUME NEW i \in Jobs PROVE EntryInv(i)'
    BY <1>1, <1>2, <1>3, <1>5 DEF PollInv, EntriesInv, EntryInv, apiVars, dbVars
  <2>2. ASSUME NEW s \in Slots, slot'[s].pc = "setCompleted" PROVE cache'[slot'[s].job].gif \in Named
    BY <1>1, <1>5, <2>2, WorksForSent DEF PollInv, EntriesInv
  <2>3. QED
    BY <2>1, <2>2 DEF EntriesInv
<1>7. RequestsInv' /\ PollTypeOK' /\ SuccessNamesGif' /\ StrangerLearnsNothing'
  BY <1>1, <1>5, PollsStay DEF apiVars
<1>8. QED
  BY <1>4, <1>6, <1>7 DEF PollInv
-----------------------------------------------------------------------------
(* The clients.                                                            *)

PollRecs   == [pc : PollPcs, job : Jobs \cup {NoJob}, status : CacheStates]
AnswerRecs == [kind : {"none", "mismatch", "error", "result"}, status : RowStates \cup CacheStates,
               gif : GifEntries, key : Nat]

\* What a client may be told of a job.
MayTell(c, j, a) ==
    /\ Owner[j] # c => a.kind # "result"
    /\ a.status \in {"completed", "done"} =>
          (a.gif = "result" /\ a.key \in 1..minted[j]) \/ a.gif = "none"

LEMMA PollTypes ==
    ASSUME PollInv
    PROVE  /\ poll \in [Users -> PollRecs] /\ answer \in [Users -> [Jobs -> AnswerRecs]]
           /\ minted \in [Jobs -> Nat] /\ cache \in [Jobs -> CacheRecs] /\ row \in [Jobs -> RowRecs]
           /\ Asleep \in PollRecs /\ Asleep.pc = "idle"
BY DEF PollInv, PollTypeOK, PollRecs, AnswerRecs, IInv, TypeInv, TypeOK, Asleep, PollPcs,
       CacheStates

\* A request goes on, and may be answered.
LEMMA ClientStep ==
    ASSUME PollInv, UNCHANGED vars, NEW c \in Users, NEW p \in PollRecs,
           poll' = [poll EXCEPT ![c] = p],
           p.pc # "idle" => p.job \in Jobs /\ Sent(p.job),
           p.pc \in {"status", "gif"} => Owner[p.job] = c,
           p.pc = "gif" /\ p.status = "completed" => cache[p.job].gif \in Named,
           \/ UNCHANGED answer
           \/ \E j \in Jobs, a \in AnswerRecs : MayTell(c, j, a) /\ answer' = [answer EXCEPT ![c][j] = a]
    PROVE  PollInv'
<1>1. IInv' /\ EntriesInv'
  <2>1. IInv'
    BY NextIInv DEF PollInv
  <2>2. EntriesInv'
    BY DEF PollInv, EntriesInv, EntryInv, vars, apiVars, dbVars
  <2>3. QED
    BY <2>1, <2>2
<1>2. /\ UNCHANGED <<pc, cache, minted>> /\ poll' \in [Users -> PollRecs]
      /\ poll'[c] = p /\ \A d \in Users : d # c => poll'[d] = poll[d]
  BY PollTypes DEF vars
<1>3. RequestsInv'
  BY <1>2 DEF PollInv, RequestsInv, RequestInv
<1>4. CASE UNCHANGED answer
  BY <1>1, <1>2, <1>3, <1>4 DEF PollInv, PollTypeOK, PollRecs, SuccessNamesGif,
                                StrangerLearnsNothing
<1>5. ASSUME NEW j \in Jobs, NEW a \in AnswerRecs, MayTell(c, j, a), answer' = [answer EXCEPT ![c][j] = a]
      PROVE  PollInv'
  <2>1. /\ answer' \in [Users -> [Jobs -> AnswerRecs]] /\ answer'[c][j] = a
        /\ \A d \in Users, i \in Jobs : d # c \/ i # j => answer'[d][i] = answer[d][i]
    BY <1>5, PollTypes
  <2>2. PollTypeOK'
    BY <1>2, <2>1 DEF PollTypeOK, PollRecs, AnswerRecs
  <2>3. SuccessNamesGif' /\ StrangerLearnsNothing'
    BY <1>2, <1>5, <2>1 DEF PollInv, SuccessNamesGif, StrangerLearnsNothing, MayTell
  <2>4. QED
    BY <1>1, <1>3, <2>2, <2>3 DEF PollInv
<1>6. QED
  BY <1>4, <1>5

\* The owner entry decides, or the row is read instead.
LEMMA PollOwnerStep ==
    ASSUME PollInv, NEW c \in Users, NEW j \in Jobs, PollOwner(c, j)
    PROVE  PollInv'
<1>1. Sent(j) /\ poll[c].pc = "idle" /\ UNCHANGED vars
  BY DEF PollOwner
<1>2. ASSUME NEW at \in {"status", "row"}, at = "status" => Owner[j] = c, UNCHANGED answer,
             poll' = [poll EXCEPT ![c] = [pc |-> at, job |-> j, status |-> "none"]]
      PROVE  PollInv'
  <2> DEFINE p == [pc |-> at, job |-> j, status |-> "none"]
  <2>1. p \in PollRecs /\ p.pc = at /\ p.job = j
    BY DEF PollRecs, PollPcs, CacheStates
  <2>2. poll' = [poll EXCEPT ![c] = p]
    BY <1>2
  <2> HIDE DEF p
  <2>3. QED
    BY <1>1, <1>2, <2>1, <2>2, ClientStep
<1>3. CASE UNCHANGED poll /\ answer' = [answer EXCEPT ![c][j] = Mismatch]
  <2>1. poll' = [poll EXCEPT ![c] = poll[c]] /\ poll[c] \in PollRecs
    BY <1>3, PollTypes
  <2>2. Mismatch \in AnswerRecs /\ MayTell(c, j, Mismatch)
    BY DEF Mismatch, AnswerRecs, MayTell, RowStates, CacheStates, GifEntries
  <2>3. QED
    BY <1>1, <1>3, <2>1, <2>2, ClientStep
<1>4. QED
  BY <1>2, <1>3 DEF PollOwner

\* "completed" is read only where the gif entry has its result, or has expired.
LEMMA PollStatusStep ==
    ASSUME PollInv, NEW c \in Users, PollStatus(c)
    PROVE  PollInv'
<1> DEFINE j == poll[c].job
<1>1. /\ poll[c].pc = "status" /\ UNCHANGED vars
      /\ j \in Jobs /\ Sent(j) /\ Owner[j] = c
  BY DEF PollStatus, PollInv, RequestsInv, RequestInv
<1>2. PICK at, st : /\ poll' = [poll EXCEPT ![c].pc = at, ![c].status = st] /\ UNCHANGED answer
                    /\ \/ at = "gif" /\ st = cache[j].status
                       \/ at = "row" /\ st = "none"
  BY DEF PollStatus, Read
<1>3. at \in {"gif", "row"} /\ st \in CacheStates
  BY <1>1, <1>2, PollTypes DEF CacheRecs, CacheStates
<1> DEFINE p == [pc |-> at, job |-> j, status |-> st]
<1>4. poll' = [poll EXCEPT ![c] = p]
  <2>1. poll[c] \in PollRecs /\ poll \in [Users -> PollRecs]
    BY PollTypes
  <2> DEFINE q == [pc |-> at, job |-> j, status |-> poll[c].status]
  <2>2. [poll[c] EXCEPT !.pc = at] = q /\ [q EXCEPT !.status = st] = p
    BY <2>1 DEF PollRecs
  <2>3. poll' = [[poll EXCEPT ![c] = [poll[c] EXCEPT !.pc = at]] EXCEPT ![c].status = st]
    BY <1>2
  <2> HIDE DEF p, q
  <2>4. QED
    BY <2>1, <2>2, <2>3
<1>5. p \in PollRecs /\ p.pc = at /\ p.job = j /\ p.status = st
  BY <1>1, <1>3 DEF PollRecs, PollPcs
<1> HIDE DEF p
<1>6. at = "gif" /\ st = "completed" => cache[j].gif \in Named
  BY <1>1, <1>2 DEF PollInv, EntriesInv, EntryInv
<1>7. UNCHANGED answer
  BY <1>2
<1>8. QED
  BY <1>1, <1>3, <1>4, <1>5, <1>6, <1>7, ClientStep

\* A request ends with an answer.
LEMMA TellStep ==
    ASSUME PollInv, UNCHANGED vars, NEW c \in Users, poll[c].pc # "idle",
           NEW a \in AnswerRecs, MayTell(c, poll[c].job, a), Tell(c, a)
    PROVE  PollInv'
<1>1. poll[c].job \in Jobs
  BY DEF PollInv, RequestsInv, RequestInv
<1>2. Asleep \in PollRecs /\ Asleep.pc = "idle"
  BY PollTypes
<1>3. QED
  BY <1>1, <1>2, ClientStep DEF Tell

LEMMA PollGifStep ==
    ASSUME PollInv, NEW c \in Users, PollGif(c)
    PROVE  PollInv'
<1> DEFINE j == poll[c].job
           e == cache[j]
<1>1. /\ poll[c].pc = "gif" /\ UNCHANGED vars /\ j \in Jobs /\ Owner[j] = c
      /\ poll[c].status = "completed" => e.gif \in Named
      /\ e.gif = "result" => e.key \in 1..minted[j]
  BY DEF PollGif, PollInv, RequestsInv, RequestInv, EntriesInv, EntryInv
<1>2. e \in CacheRecs /\ poll[c].status \in CacheStates
  BY <1>1, PollTypes DEF PollRecs
<1>3. PICK g, k : /\ Tell(c, Result(poll[c].status, g, k))
                  /\ (g = e.gif /\ k = e.key) \/ (g = "none" /\ k = 0)
  BY DEF PollGif
<1> DEFINE a == Result(poll[c].status, g, k)
<1>4. a \in AnswerRecs /\ a.status = poll[c].status /\ a.gif = g /\ a.key = k
  BY <1>2, <1>3 DEF Result, AnswerRecs, CacheRecs, GifEntries
<1>5. MayTell(c, j, a)
  BY <1>1, <1>2, <1>3, <1>4 DEF MayTell, Named, CacheStates
<1>6. QED
  BY <1>1, <1>3, <1>4, <1>5, TellStep

\* The row names its owner; a "done" row names the key of an upload.
LEMMA PollRowStep ==
    ASSUME PollInv, NEW c \in Users, PollRow(c)
    PROVE  PollInv'
<1> DEFINE j == poll[c].job
<1>1. /\ poll[c].pc = "row" /\ UNCHANGED vars /\ j \in Jobs
      /\ row[j].status = "done" => row[j].key \in 1..minted[j]
  BY DEF PollRow, PollInv, RequestsInv, RequestInv, EntriesInv, EntryInv
<1>2. row[j] \in RowRecs
  BY <1>1, PollTypes
<1>3. CASE Tell(c, RowAnswer(row[j])) /\ Owner[j] = c
  <2>1. RowAnswer(row[j]) \in AnswerRecs
    BY <1>2 DEF RowAnswer, Result, AnswerRecs, RowRecs, GifEntries
  <2>2. MayTell(c, j, RowAnswer(row[j]))
    BY <1>1, <1>2, <1>3 DEF MayTell, RowAnswer, Result, RowRecs, RowStates
  <2>3. QED
    BY <1>1, <1>3, <2>1, <2>2, TellStep
<1>4. ASSUME NEW a \in {Mismatch, Error}, Tell(c, a) PROVE PollInv'
  <2>1. a \in AnswerRecs /\ MayTell(c, j, a)
    BY DEF Mismatch, Error, AnswerRecs, MayTell, RowStates, CacheStates, GifEntries
  <2>2. QED
    BY <1>1, <1>4, <2>1, TellStep
<1>5. QED
  BY <1>3, <1>4 DEF PollRow

-----------------------------------------------------------------------------
(* The theorems.                                                           *)

LEMMA PollInitial == PollInit => PollInv
<1> SUFFICES ASSUME PollInit PROVE PollInv
  OBVIOUS
<1>1. IInv
  BY InitIInv DEF PollInit
<1>2. EntriesInv
  <2>1. \A s \in Slots : slot[s].pc = "idle"
    BY AtType DEF PollInit, Init, IdleSlot
  <2>2. \A j \in Jobs : cache[j].status = "none" /\ cache[j].gif = "none" /\ row[j].status = "absent"
    BY DEF PollInit, Init, NoEntries, Entries, Row
  <2>3. QED
    BY <2>1, <2>2 DEF EntriesInv, EntryInv
<1>3. RequestsInv /\ poll \in [Users -> PollRecs]
  BY DEF PollInit, RequestsInv, RequestInv, Asleep, PollRecs, PollPcs, CacheStates
<1>4. NotAsked \in AnswerRecs /\ NotAsked.kind = "none" /\ NotAsked.status = "none"
  BY DEF NotAsked, AnswerRecs, CacheStates, GifEntries
<1>5. PollTypeOK /\ SuccessNamesGif /\ StrangerLearnsNothing
  BY <1>3, <1>4 DEF PollInit, PollTypeOK, PollRecs, AnswerRecs, SuccessNamesGif,
                    StrangerLearnsNothing
<1>6. QED
  BY <1>1, <1>2, <1>3, <1>5 DEF PollInv

LEMMA PollInductive == PollInv /\ [PollNext]_allVars => PollInv'
<1> SUFFICES ASSUME PollInv, [PollNext]_allVars PROVE PollInv'
  OBVIOUS
<1>1. CASE Next /\ UNCHANGED pollVars
  BY <1>1, PipelineStep
<1>2. ASSUME NEW j \in Jobs, Expire(j) PROVE PollInv'
  BY <1>2, ExpireStep
<1>3. ASSUME NEW c \in Users, (\E j \in Jobs : PollOwner(c, j)) \/ ConversionStatus(c) PROVE PollInv'
  BY <1>3, PollOwnerStep, PollStatusStep, PollGifStep, PollRowStep DEF ConversionStatus
<1>4. CASE UNCHANGED allVars
  <2>1. IInv'
    BY <1>4, NextIInv DEF PollInv, allVars
  <2>2. EntriesInv'
    BY <1>4 DEF PollInv, EntriesInv, EntryInv, allVars, vars, apiVars, dbVars
  <2>3. RequestsInv' /\ PollTypeOK' /\ SuccessNamesGif' /\ StrangerLearnsNothing'
    BY <1>4, PollTypes, PollsStay DEF allVars, vars
  <2>4. QED
    BY <2>1, <2>2, <2>3 DEF PollInv
<1>5. QED
  BY <1>1, <1>2, <1>3, <1>4 DEF PollNext

LEMMA PollInvariant == PollSpec => []PollInv
<1>1. PollInit => PollInv
  BY PollInitial
<1>2. PollInv /\ [PollNext]_allVars => PollInv'
  BY PollInductive
<1>3. QED
  BY <1>1, <1>2, PTL DEF PollSpec

\* A client told that its conversion is complete is told the key of an uploaded gif or none, never
\* the word the gif entry started with (conversion_status.go reads status and gif apart), whatever
\* expires or fails between the reads.
THEOREM AnswersAgreeAlways == PollSpec => []AnswersAgree
<1>1. PollInv => AnswersAgree
  BY DEF PollInv, AnswersAgree
<1>2. QED
  BY <1>1, PollInvariant, PTL

\* No client is given a result of another's job, whether Redis or Postgres answers.
THEOREM StrangersLearnNothing == PollSpec => []StrangerLearnsNothing
<1>1. PollInv => StrangerLearnsNothing
  BY DEF PollInv
<1>2. QED
  BY <1>1, PollInvariant, PTL
-----------------------------------------------------------------------------
(* Successive answers.  Until an outage, and while Redis answers and keeps *)
(* what it is given, a job is delivered once and its entry only goes on;   *)
(* a request tells what the entry said when it read it.                    *)

RedisKeeps == Faults \cap {"cache", "expire"} = {}

HandlersInv == (\A w \in Workers : worker[w] = "up") /\ HeldInv

\* A job that was not delivered is "queued" yet.
Queued(j) == cache[j].status = "queued"
EntriesThere ==
    \A j \in Jobs :
        /\ pc[j] \in {"row", "publish"} \/ Sent(j) => cache[j].owner /\ cache[j].status # "none"
        /\ pc[j] \in {"row", "publish"} \/ j \in ready => Queued(j)
NewDeliveries == \A s \in Slots : slot[s].pc = "setProcessing" => Queued(slot[s].job)

\* What was told is behind what a request has read, which is behind the entry.
AnswersBehind ==
    /\ \A c \in Users, j \in Jobs :
          Progress(answer[c][j]) <= IF Sent(j) THEN Progress(cache[j]) ELSE 0
    /\ \A c \in Users :
          /\ poll[c].pc # "row"
          /\ poll[c].pc = "gif" =>
                /\ Progress(answer[c][poll[c].job]) <= Progress(poll[c])
                /\ Progress(poll[c]) <= Progress(cache[poll[c].job])

OrderInv == outages = 0 => HandlersInv /\ EntriesThere /\ NewDeliveries /\ AnswersBehind

\* A step of the pipeline keeps the entries of published jobs and takes none back.
EntriesGoOn ==
    \A j \in Jobs : Sent(j) => Sent(j)' /\ Progress(cache[j]) <= Progress(cache'[j])
PipelineGoesOn == EntriesThere' /\ NewDeliveries' /\ EntriesGoOn

LEMMA ProgressRange == \A a : Progress(a) \in 0..3
  BY DEF Progress

LEMMA ProgressOf == \A a, b : a.status = b.status => Progress(a) = Progress(b)
  BY DEF Progress

LEMMA NoOutage ==
    ASSUME HandlersInv, outages = 0, outages' = 0, NEW w \in Workers
    PROVE  ~Crash(w) /\ ~Sigterm(w) /\ ~Exit(w) /\ ~Start(w) /\ ~Cut(w) /\ ~ApiCrash
  BY DEF HandlersInv, Crash, Sigterm, Exit, Start, Cut, Outage, ApiCrash

LEMMA HandlersStay ==
    ASSUME IInv, HandlersInv, [Next]_vars, outages = 0, outages' = 0
    PROVE  HandlersInv'
<1> USE DEF queueVars, apiVars, dbVars
<1>1. \A w \in Workers : ~Cut(w) /\ ~Crash(w) /\ ~Sigterm(w) /\ ~Exit(w) /\ ~Start(w)
  BY NoOutage
<1>2. HeldInv'
  BY <1>1, NextHeldUncut DEF HandlersInv
<1>3. worker' = worker
  <2>1. ASSUME NEW j \in Jobs, Convert(j) PROVE worker' = worker
    BY <2>1 DEF Convert, RefuseKey, Lock, ReadQuota, SetCaches, CreateRow, PublishVideo,
                UndoPublish, Respond
  <2>2. ASSUME NEW s \in Slots, Deliver(s) \/ Handle(s) PROVE worker' = worker
    BY <2>2, ProcessFrame DEF IInv, Deliver, Handle, Ack, Nack, Settle
  <2>3. CASE ApiCrash \/ UNCHANGED vars
    BY <2>3 DEF ApiCrash, vars
  <2>4. QED
    BY <1>1, <2>1, <2>2, <2>3 DEF Next
<1>4. QED
  BY <1>2, <1>3 DEF HandlersInv

LEMMA ConvertGoesOn ==
    ASSUME RedisKeeps, IInv, EntriesThere, NewDeliveries, NEW j \in Jobs, ~Sent(j), Convert(j)
    PROVE  PipelineGoesOn
<1> USE DEF queueVars, apiVars, dbVars
<1>1. /\ pc \in [Jobs -> RequestPcs] /\ cache \in [Jobs -> CacheRecs]
      /\ UNCHANGED slot
  BY DEF Convert, RefuseKey, Lock, ReadQuota, SetCaches, CreateRow, PublishVideo, UndoPublish,
         Respond, IInv, TypeInv, TypeOK
<1>2. j \notin ready /\ ready' \subseteq ready \cup {j}
  <2>1. j \notin ready
    BY <1>1 DEF IInv, PlaceInv, OnlySent, Published
  <2>2. ready' \subseteq ready \cup {j}
    BY DEF Convert, RefuseKey, Lock, ReadQuota, SetCaches, CreateRow, PublishVideo,
           UndoPublish, Respond
  <2>3. QED
    BY <2>1, <2>2
<1>3. \A i \in Jobs : i # j => pc'[i] = pc[i] /\ cache'[i] = cache[i]
  <2>1. /\ cache' = cache \/ \E e : cache' = [cache EXCEPT ![j] = e]
        /\ \E p : pc' = [pc EXCEPT ![j] = p]
    BY DEF Convert, RefuseKey, Lock, ReadQuota, SetCaches, CreateRow, PublishVideo,
           UndoPublish, Respond, Return, Proceed
  <2>2. QED
    BY <1>1, <2>1
<1>4. /\ pc'[j] \in {"row", "publish"} \/ Sent(j)' => cache'[j].owner /\ cache'[j].status # "none"
      /\ pc'[j] \in {"row", "publish"} \/ j \in ready' => cache'[j].status = "queued"
  <2>1. CASE RefuseKey(j) \/ Lock(j) \/ ReadQuota(j) \/ UndoPublish(j)
    <3>1. pc'[j] \notin {"row", "publish"} /\ ~Sent(j)' /\ ready' = ready
      BY <1>1, <2>1 DEF RefuseKey, Lock, ReadQuota, UndoPublish, Return, Proceed
    <3>2. QED
      BY <1>2, <3>1
  <2>2. CASE SetCaches(j)
    <3>1. cache' = [cache EXCEPT ![j] = Entries(TRUE, "queued", "queued", 0)] /\ ready' = ready
      BY <2>2 DEF SetCaches, RedisKeeps
    <3>2. cache'[j].owner /\ cache'[j].status = "queued"
      BY <1>1, <3>1 DEF Entries
    <3>3. QED
      BY <1>2, <3>1, <3>2
  <2>3. CASE CreateRow(j) \/ PublishVideo(j)
    <3>1. pc[j] \in {"row", "publish"} /\ cache' = cache
      BY <2>3 DEF CreateRow, PublishVideo
    <3>2. QED
      BY <3>1 DEF EntriesThere, Queued
  <2>4. QED
    BY <2>1, <2>2, <2>3 DEF Convert, Respond
<1>5. EntriesThere'
  BY <1>2, <1>3, <1>4 DEF EntriesThere, Queued
<1>6. NewDeliveries'
  <2>1. \A s \in Slots : slot[s].pc # "idle" => slot[s].job \in Jobs /\ slot[s].job # j
    BY <1>1, WorksForSent
  <2>2. QED
    BY <1>1, <1>3, <2>1 DEF NewDeliveries, Queued
<1>7. EntriesGoOn
  BY <1>1, <1>3, ProgressRange DEF EntriesGoOn
<1>8. QED
  BY <1>5, <1>6, <1>7 DEF PipelineGoesOn

LEMMA ProcessGoesOn ==
    ASSUME RedisKeeps, IInv, HandlersInv, EntriesThere, NewDeliveries, NEW s \in Slots, Process(s)
    PROVE  PipelineGoesOn
<1> DEFINE j == slot[s].job
<1>1. /\ j \in Jobs /\ Sent(j) /\ UNCHANGED <<pc, ready>>
      /\ cache \in [Jobs -> CacheRecs] /\ slot \in [Slots -> SlotRecs]
      /\ slot[s].pc # "idle" /\ \A t \in Slots : t # s => slot'[t] = slot[t]
  BY ProcessFrame, WorksForSent DEF IInv, TypeInv, TypeOK
<1>2. cache[j].owner /\ cache[j].status # "none" /\ (slot[s].pc = "setProcessing" => cache[j].status = "queued")
  BY <1>1 DEF EntriesThere, NewDeliveries, Queued
<1>3. ~Cancelled(s)
  BY ConversionAssumption DEF HandlersInv, Cancelled, Proc
<1>4. ASSUME NEW e, NEW ok, NEW failed, CacheSet(s, e, ok, failed)
      PROVE  cache' = [cache EXCEPT ![j] = e] /\ Goto(s, ok)
  BY <1>3, <1>4 DEF CacheSet, RedisKeeps
<1>5. ASSUME NEW st, NEW ok, NEW failed, CacheSet(s, WithStatus(cache[j], st), ok, failed)
      PROVE  /\ cache'[j].owner = cache[j].owner /\ cache'[j].status = st
             /\ \A i \in Jobs : i # j => cache'[i] = cache[i]
  <2>1. cache' = [cache EXCEPT ![j] = WithStatus(cache[j], st)]
    BY <1>4, <1>5
  <2>2. QED
    BY <1>1, <2>1 DEF WithStatus, Entries
<1>6. /\ \A i \in Jobs : i # j => cache'[i] = cache[i]
      /\ cache'[j].owner = cache[j].owner
      /\ \/ cache'[j].status = cache[j].status
         \/ cache'[j].status \in {"completed", "failed"}
         \/ cache'[j].status = "processing" /\ cache[j].status = "queued"
  <2>1. CASE SetProcessing(s)
    BY <1>2, <1>5, <2>1 DEF SetProcessing
  <2>2. CASE SetFailed(s)
    BY <1>5, <2>2 DEF SetFailed
  <2>3. CASE SetCompleted(s)
    BY <1>5, <2>3 DEF SetCompleted
  <2>4. CASE SetGif(s)
    <3>1. cache' = [cache EXCEPT ![j] = WithGif(cache[j], "result", slot[s].key)]
      BY <1>4, <2>4 DEF SetGif
    <3>2. QED
      BY <1>1, <3>1 DEF WithGif, Entries
  <2>5. CASE UNCHANGED cache
    BY <2>5
  <2>6. QED
    BY <2>1, <2>2, <2>3, <2>4, <2>5
       DEF Process, RowProcessing, RunProcessor, RowFailed, RowDone, CreateGif, IncrementUsage
<1>7. slot'[s].pc # "setProcessing"
  <2>1. \A p : Goto(s, p) => slot'[s].pc = p
    BY <1>1, AtType DEF Goto
  <2>2. CASE RunProcessor(s)
    BY <1>1, <2>1, <2>2, AtType DEF RunProcessor
  <2>3. CASE SetProcessing(s) \/ SetFailed(s) \/ SetGif(s) \/ SetCompleted(s)
    BY <2>1, <2>3 DEF SetProcessing, SetFailed, SetGif, SetCompleted, CacheSet
  <2>4. CASE RowProcessing(s) \/ RowFailed(s) \/ RowDone(s) \/ CreateGif(s) \/ IncrementUsage(s)
    BY <2>1, <2>4 DEF RowProcessing, RowFailed, RowDone, CreateGif, IncrementUsage, UpdateStatus
  <2>5. QED
    BY <2>2, <2>3, <2>4 DEF Process
<1>8. j \notin ready /\ \A t \in Slots : t # s /\ slot[t].pc # "idle" => slot[t].job \in Jobs /\ slot[t].job # j
  <2>1. unacked[s] = j /\ j # NoJob
    BY <1>1, ConversionAssumption DEF HandlersInv, HeldInv
  <2>2. j \notin ready
    BY <2>1 DEF IInv, PlaceInv, MessageInOnePlace, HeldBySlots
  <2>3. QED
    BY <1>1, <2>2, HeldApart, WorksForSent DEF HandlersInv
<1> HIDE DEF j
<1>9. EntriesThere'
  BY <1>1, <1>2, <1>6, <1>8 DEF EntriesThere, Queued
<1>10. NewDeliveries'
  BY <1>1, <1>6, <1>7, <1>8 DEF NewDeliveries, Queued
<1>11. EntriesGoOn
  <2>1. Progress(cache[j]) <= Progress(cache'[j])
    BY <1>6, ProgressRange, ProgressOf DEF Progress
  <2>2. \A i \in Jobs : i # j => Progress(cache[i]) <= Progress(cache'[i])
    BY <1>6, ProgressRange
  <2>3. QED
    BY <1>1, <2>1, <2>2 DEF EntriesGoOn
<1>12. QED
  BY <1>9, <1>10, <1>11 DEF PipelineGoesOn

LEMMA NextGoesOn ==
    ASSUME RedisKeeps, IInv, HandlersInv, EntriesThere, NewDeliveries, [Next]_vars,
           outages = 0, outages' = 0
    PROVE  PipelineGoesOn
<1> USE DEF queueVars, apiVars, dbVars
<1>1. slot \in [Slots -> SlotRecs]
  BY DEF IInv, TypeInv, TypeOK
<1>2. ASSUME UNCHANGED cache, ready' \subseteq ready,
             \A j \in Jobs : pc'[j] = pc[j] \/ (Sent(j) /\ pc'[j] = "accepted"),
             \A s \in Slots : slot'[s].pc = "setProcessing" => slot'[s] = slot[s] \/ slot'[s].job \in ready
      PROVE  PipelineGoesOn
  <2>1. EntriesThere' /\ EntriesGoOn
    BY <1>2, ProgressRange DEF EntriesThere, EntriesGoOn, Queued
  <2>2. NewDeliveries'
    <3>1. ASSUME NEW s \in Slots, slot'[s].pc = "setProcessing" PROVE Queued(slot'[s].job)
      BY <1>2, <3>1 DEF NewDeliveries, EntriesThere, IInv, TypeInv, TypeOK
    <3>2. QED
      BY <1>2, <3>1 DEF NewDeliveries, Queued
  <2>3. QED
    BY <2>1, <2>2 DEF PipelineGoesOn
<1>3. ASSUME NEW s \in Slots, Deliver(s) PROVE PipelineGoesOn
  <2>1. PICK i \in ready : slot' = [slot EXCEPT ![s] = At("setProcessing", i, 0)]
    BY <1>3 DEF Deliver
  <2>2. slot'[s].job = i /\ \A t \in Slots : t # s => slot'[t] = slot[t]
    BY <1>1, <2>1, AtType
  <2>3. UNCHANGED <<pc, cache>> /\ ready' \subseteq ready
    BY <1>3 DEF Deliver
  <2>4. QED
    BY <1>2, <2>2, <2>3
<1>4. ASSUME NEW s \in Slots, Ack(s) \/ Nack(s) PROVE PipelineGoesOn
  <2>1. slot'[s].pc = "idle" /\ \A t \in Slots : t # s => slot'[t] = slot[t]
    BY <1>1, <1>4, AtType DEF Ack, Nack, Settle, IdleSlot
  <2>2. UNCHANGED <<pc, cache, ready>>
    BY <1>4 DEF Ack, Nack, Settle
  <2>3. QED
    BY <1>2, <2>1, <2>2
<1>5. CASE UNCHANGED vars
  BY <1>2, <1>5 DEF vars
<1>6. ~ApiCrash
  BY DEF ApiCrash
<1>7. ASSUME NEW j \in Jobs, Convert(j) PROVE PipelineGoesOn
  <2>1. CASE Sent(j)
    <3>1. Respond(j)
      BY <1>7, <2>1 DEF Convert, RefuseKey, Lock, ReadQuota, SetCaches, CreateRow,
                        PublishVideo, UndoPublish
    <3>2. \A i \in Jobs : pc'[i] = pc[i] \/ (Sent(i) /\ pc'[i] = "accepted")
      BY <2>1, <3>1 DEF Respond, Return, IInv, TypeInv, TypeOK
    <3>3. UNCHANGED <<cache, ready, slot>>
      BY <3>1 DEF Respond
    <3>4. QED
      BY <1>2, <3>2, <3>3
  <2>2. QED
    BY <1>7, <2>1, ConvertGoesOn
<1>8. QED
  BY <1>3, <1>4, <1>5, <1>6, <1>7, NoOutage, ProcessGoesOn DEF Next, Handle

\* The pipeline steps under the requests, or a request under the pipeline.
LEMMA PipelineAnswers ==
    ASSUME RedisKeeps, PollInv, OrderInv, Next, UNCHANGED pollVars
    PROVE  OrderInv'
<1> SUFFICES ASSUME outages' = 0 PROVE (HandlersInv /\ EntriesThere /\ NewDeliveries /\ AnswersBehind)'
  BY DEF OrderInv
<1>1. IInv /\ outages = 0
  <2>1. outages \in Nat /\ outages' \in Nat
    BY NextIInv DEF PollInv, IInv, TypeInv, TypeOK
  <2>2. outages' = outages \/ outages' = outages + 1
    <3>1. ASSUME NEW j \in Jobs, Convert(j) PROVE outages' = outages
      BY <3>1 DEF Convert, RefuseKey, Lock, ReadQuota, SetCaches, CreateRow, PublishVideo,
                  UndoPublish, Respond
    <3>2. ASSUME NEW s \in Slots, Deliver(s) \/ Handle(s) PROVE outages' = outages
      BY <3>2, ProcessFrame DEF PollInv, IInv, Deliver, Handle, Ack, Nack, Settle
    <3>3. ASSUME NEW w \in Workers, Crash(w) \/ Sigterm(w) \/ Exit(w) \/ Start(w) \/ Cut(w)
          PROVE  outages' = outages \/ outages' = outages + 1
      BY <3>3 DEF Crash, Sigterm, Exit, Start, Cut, Outage
    <3>4. QED
      BY <3>1, <3>2, <3>3 DEF Next, ApiCrash
  <2>3. QED
    BY <2>1, <2>2 DEF PollInv
<1>2. HandlersInv /\ EntriesThere /\ NewDeliveries /\ AnswersBehind
  BY <1>1 DEF OrderInv
<1>3. HandlersInv' /\ PipelineGoesOn
  BY <1>1, <1>2, HandlersStay, NextGoesOn
<1>4. AnswersBehind'
  <2>1. UNCHANGED <<poll, answer>>
    BY DEF pollVars
  <2>2. ASSUME NEW c \in Users, NEW j \in Jobs
        PROVE  Progress(answer[c][j]) <= IF Sent(j)' THEN Progress(cache'[j]) ELSE 0
    <3>1. Progress(answer[c][j]) <= IF Sent(j) THEN Progress(cache[j]) ELSE 0
      BY <1>2 DEF AnswersBehind
    <3>2. QED
      BY <1>3, <3>1, ProgressRange DEF PipelineGoesOn, EntriesGoOn
  <2>3. ASSUME NEW c \in Users, poll[c].pc = "gif"
        PROVE  Progress(poll[c]) <= Progress(cache'[poll[c].job])
    <3>1. poll[c].job \in Jobs /\ Sent(poll[c].job)
      BY <2>3 DEF PollInv, RequestsInv, RequestInv
    <3>2. Progress(poll[c]) <= Progress(cache[poll[c].job])
      BY <1>2, <2>3 DEF AnswersBehind
    <3>3. QED
      BY <1>3, <3>1, <3>2, ProgressRange DEF PipelineGoesOn, EntriesGoOn
  <2>4. QED
    BY <1>2, <2>1, <2>2, <2>3 DEF AnswersBehind
<1>5. QED
  BY <1>3, <1>4 DEF PipelineGoesOn

\* A request's step: it has read an entry that is not behind what it was told, or answers
\* what it has read.
LEMMA RequestAnswers ==
    ASSUME RedisKeeps, PollInv, OrderInv, outages = 0, NEW c \in Users,
           (\E j \in Jobs : PollOwner(c, j)) \/ ConversionStatus(c)
    PROVE  /\ OrderInv'
           /\ \A d \in Users, j \in Jobs : answer'[d][j].kind = "result" =>
                 Progress(answer[d][j]) <= Progress(answer'[d][j])
<1>1. /\ UNCHANGED vars /\ poll \in [Users -> PollRecs] /\ answer \in [Users -> [Jobs -> AnswerRecs]]
      /\ HandlersInv /\ EntriesThere /\ NewDeliveries /\ AnswersBehind
  BY PollTypes DEF PollOwner, ConversionStatus, PollStatus, PollGif, PollRow, OrderInv
<1>2. UNCHANGED <<pc, cache>> /\ HandlersInv' /\ EntriesThere' /\ NewDeliveries'
  BY <1>1 DEF vars, apiVars, dbVars, HandlersInv, HeldInv, EntriesThere, NewDeliveries, Queued
<1>3. ASSUME NEW i \in Jobs, Sent(i) PROVE cache[i].owner /\ cache[i].status # "none"
  BY <1>1, <1>3 DEF EntriesThere
\* What is left to show of each step.
<1>4. ASSUME UNCHANGED answer, NEW p \in PollRecs, poll' = [poll EXCEPT ![c] = p], p.pc # "row",
             p.pc = "gif" => p.job \in Jobs /\ Progress(answer[c][p.job]) <= Progress(p)
                             /\ Progress(p) <= Progress(cache[p.job])
      PROVE  AnswersBehind' /\ \A d \in Users,
      j \in Jobs : Progress(answer[d][j]) <= Progress(answer'[d][j])
  <2>1. poll'[c] = p /\ \A d \in Users : d # c => poll'[d] = poll[d]
    BY <1>1, <1>4
  <2>2. QED
    BY <1>1, <1>2, <1>4, <2>1, ProgressRange DEF AnswersBehind
<1>5. ASSUME NEW j \in Jobs, NEW a, answer' = [answer EXCEPT ![c][j] = a], Sent(j),
             Progress(a) <= Progress(cache[j]),
             a.kind = "result" => Progress(answer[c][j]) <= Progress(a),
             \/ UNCHANGED poll /\ poll[c].pc = "idle"
             \/ poll' = [poll EXCEPT ![c] = Asleep]
      PROVE  /\ AnswersBehind'
             /\ \A d \in Users, i \in Jobs : answer'[d][i].kind = "result" =>
                   Progress(answer[d][i]) <= Progress(answer'[d][i])
  <2>1. answer'[c][j] = a /\ \A d \in Users, i \in Jobs : d # c \/ i # j => answer'[d][i] = answer[d][i]
    BY <1>1, <1>5
  <2>2. poll'[c].pc = "idle" /\ \A d \in Users : d # c => poll'[d] = poll[d]
    BY <1>1, <1>5, PollTypes
  <2>3. ASSUME NEW d \in Users, NEW i \in Jobs
        PROVE  /\ Progress(answer'[d][i]) <= IF Sent(i) THEN Progress(cache[i]) ELSE 0
               /\ answer'[d][i].kind = "result" => Progress(answer[d][i]) <= Progress(answer'[d][i])
    BY <1>1, <1>5, <2>1, ProgressRange DEF AnswersBehind
  <2>4. ASSUME NEW d \in Users
        PROVE  /\ poll'[d].pc # "row"
               /\ poll'[d].pc = "gif" =>
                     /\ Progress(answer'[d][poll'[d].job]) <= Progress(poll'[d])
                     /\ Progress(poll'[d]) <= Progress(cache[poll'[d].job])
    <3>1. CASE d = c
      BY <2>2, <3>1
    <3>2. CASE d # c
      <4>1. poll'[d] = poll[d] /\ (poll[d].pc = "gif" => poll[d].job \in Jobs)
        BY <2>2, <3>2 DEF PollInv, RequestsInv, RequestInv
      <4>2. poll[d].pc = "gif" => answer'[d][poll[d].job] = answer[d][poll[d].job]
        BY <2>1, <3>2, <4>1
      <4>3. QED
        BY <1>1, <4>1, <4>2 DEF AnswersBehind
    <3>3. QED
      BY <3>1, <3>2
  <2>5. QED
    BY <1>2, <2>3, <2>4 DEF AnswersBehind
<1>6. ASSUME NEW j \in Jobs, PollOwner(c, j)
      PROVE  AnswersBehind' /\ \A d \in Users, i \in Jobs : answer'[d][i].kind = "result" =>
                   Progress(answer[d][i]) <= Progress(answer'[d][i])
  <2>1. Sent(j) /\ poll[c].pc = "idle" /\ ~Miss(cache[j].owner)
    BY <1>3, <1>6 DEF PollOwner, Miss, RedisKeeps
  <2>2. CASE UNCHANGED answer /\ poll' = [poll EXCEPT ![c] = [pc |-> "status", job |-> j, status |-> "none"]]
    <3> DEFINE p == [pc |-> "status", job |-> j, status |-> "none"]
    <3>1. p \in PollRecs /\ p.pc = "status"
      BY DEF PollRecs, PollPcs, CacheStates
    <3>2. poll' = [poll EXCEPT ![c] = p]
      BY <2>2
    <3> HIDE DEF p
    <3>3. QED
      BY <1>4, <2>2, <3>1, <3>2
  <2>3. CASE UNCHANGED poll /\ answer' = [answer EXCEPT ![c][j] = Mismatch]
    <3>1. Progress(Mismatch) = 0 /\ Mismatch.kind # "result"
      BY DEF Progress, Mismatch
    <3>2. Progress(Mismatch) <= Progress(cache[j])
      BY <3>1, ProgressRange
    <3>3. QED
      BY <1>5, <2>1, <2>3, <3>1, <3>2, Zenon
  <2>4. QED
    BY <1>6, <2>1, <2>2, <2>3 DEF PollOwner
<1>7. ASSUME PollStatus(c)
      PROVE  AnswersBehind' /\ \A d \in Users,
      i \in Jobs : Progress(answer[d][i]) <= Progress(answer'[d][i])
  <2> DEFINE j == poll[c].job
             p == [pc |-> "gif", job |-> j, status |-> cache[j].status]
  <2>1. j \in Jobs /\ Sent(j) /\ poll[c].pc = "status"
    BY <1>7 DEF PollStatus, PollInv, RequestsInv, RequestInv
  <2>2. poll' = [poll EXCEPT ![c].pc = "gif", ![c].status = cache[j].status] /\ UNCHANGED answer
    BY <1>3, <1>7, <2>1 DEF PollStatus, Read, Miss, RedisKeeps
  <2>3. poll' = [poll EXCEPT ![c] = p]
    <3>1. poll[c] \in PollRecs /\ poll \in [Users -> PollRecs]
      BY <1>1
    <3> DEFINE q == [pc |-> "gif", job |-> j, status |-> poll[c].status]
    <3>2. [poll[c] EXCEPT !.pc = "gif"] = q /\ [q EXCEPT !.status = cache[j].status] = p
      BY <3>1 DEF PollRecs
    <3>3. poll' = [[poll EXCEPT ![c] = [poll[c] EXCEPT !.pc = "gif"]] EXCEPT ![c].status = cache[j].status]
      BY <2>2
    <3> HIDE DEF p, q
    <3>4. QED
      BY <3>1, <3>2, <3>3
  <2>4. p \in PollRecs /\ p.pc = "gif" /\ p.job = j /\ p.status = cache[j].status
    BY <2>1, PollTypes DEF PollRecs, PollPcs, CacheRecs
  <2>5. Progress(p) = Progress(cache[j]) /\ Progress(answer[c][j]) <= Progress(cache[j])
    BY <1>1, <2>1, <2>4, ProgressOf DEF AnswersBehind
  <2>6. p.pc # "row" /\ Progress(answer[c][p.job]) <= Progress(p) /\ Progress(p) <= Progress(cache[p.job])
    BY <2>4, <2>5, ProgressRange
  <2> HIDE DEF j, p
  <2>7. QED
    BY <1>4, <2>1, <2>2, <2>3, <2>4, <2>6, Zenon
<1>8. ASSUME PollGif(c)
      PROVE  AnswersBehind' /\ \A d \in Users, i \in Jobs : answer'[d][i].kind = "result" =>
                   Progress(answer[d][i]) <= Progress(answer'[d][i])
  <2>1. PICK g, k : Tell(c, Result(poll[c].status, g, k))
    BY <1>8 DEF PollGif
  <2> DEFINE j == poll[c].job
             a == Result(poll[c].status, g, k)
  <2>2. j \in Jobs /\ Sent(j) /\ poll[c].pc = "gif"
    BY <1>8 DEF PollGif, PollInv, RequestsInv, RequestInv
  <2>3. Progress(a) = Progress(poll[c])
    BY ProgressOf DEF Result
  <2>4. poll' = [poll EXCEPT ![c] = Asleep] /\ answer' = [answer EXCEPT ![c][j] = a]
    BY <2>1 DEF Tell
  <2>5. Progress(answer[c][j]) <= Progress(a) /\ Progress(a) <= Progress(cache[j])
    BY <1>1, <2>2, <2>3 DEF AnswersBehind
  <2> HIDE DEF j, a
  <2>6. QED
    BY <1>5, <2>2, <2>4, <2>5
<1>9. ~PollRow(c)
  BY <1>1 DEF PollRow, AnswersBehind
<1>10. AnswersBehind' /\ \A d \in Users, i \in Jobs : answer'[d][i].kind = "result" =>
                   Progress(answer[d][i]) <= Progress(answer'[d][i])
  BY <1>6, <1>7, <1>8, <1>9 DEF ConversionStatus
<1>11. QED
  BY <1>2, <1>10 DEF OrderInv

LEMMA InitOrder == PollInit => OrderInv
<1> SUFFICES ASSUME PollInit PROVE OrderInv
  OBVIOUS
<1>1. HandlersInv /\ \A s \in Slots : slot[s].pc = "idle"
  BY InitHeld, AtType DEF PollInit, Init, HandlersInv, IdleSlot
<1>2. EntriesThere /\ NewDeliveries
  BY <1>1 DEF PollInit, Init, EntriesThere, NewDeliveries
<1>3. AnswersBehind
  <2>1. Progress(NotAsked) = 0 /\ Asleep.pc = "idle"
    BY DEF Progress, NotAsked, Asleep
  <2>2. QED
    BY <2>1 DEF PollInit, Init, AnswersBehind
<1>4. QED
  BY <1>1, <1>2, <1>3 DEF OrderInv

\* Until an outage, and if Redis answers and nothing expires, a client that polls on (reads of
\* conversion_status.go between the writes of run_conversion.go) is never told that a job that
\* was running is queued again, or that one that had ended runs.
THEOREM NeverGoBack == ASSUME RedisKeeps PROVE PollSpec => PollsNeverGoBack
<1>1. ASSUME PollInv, OrderInv, [PollNext]_allVars
      PROVE  /\ OrderInv'
             /\ \A c \in Users, j \in Jobs : outages' = 0 /\ answer'[c][j].kind = "result" =>
                   Progress(answer[c][j]) <= Progress(answer'[c][j])
  <2>1. CASE Next /\ UNCHANGED pollVars
    <3>1. OrderInv'
      BY <1>1, <2>1, PipelineAnswers
    <3>2. QED
      BY <2>1, <3>1, ProgressRange DEF pollVars
  <2>2. ASSUME NEW c \in Users, (\E j \in Jobs : PollOwner(c, j)) \/ ConversionStatus(c)
        PROVE  /\ OrderInv'
               /\ \A d \in Users, j \in Jobs : outages' = 0 /\ answer'[d][j].kind = "result" =>
                     Progress(answer[d][j]) <= Progress(answer'[d][j])
    <3>1. UNCHANGED outages
      BY <2>2 DEF PollOwner, ConversionStatus, PollStatus, PollGif, PollRow, vars
    <3>2. CASE outages = 0
      BY <1>1, <2>2, <3>2, RequestAnswers
    <3>3. CASE outages # 0
      BY <3>1, <3>3 DEF OrderInv
    <3>4. QED
      BY <3>2, <3>3
  <2>3. \A j \in Jobs : ~Expire(j)
    BY DEF Expire, RedisKeeps
  <2>4. CASE UNCHANGED allVars
    <3>1. UNCHANGED <<vars, poll, answer>>
      BY <2>4 DEF allVars, pollVars
    <3>2. OrderInv'
      BY <1>1, <3>1 DEF vars, apiVars, queueVars, dbVars, OrderInv, HandlersInv, HeldInv,
                        EntriesThere, NewDeliveries, Queued, AnswersBehind
    <3>3. QED
      BY <3>1, <3>2, ProgressRange
  <2>5. QED
    BY <1>1, <2>1, <2>2, <2>3, <2>4 DEF PollNext
<1>2. PollInv /\ OrderInv /\ [PollNext]_allVars => OrderInv'
  BY <1>1
<1>3. PollInv /\ OrderInv /\ [PollNext]_allVars =>
         [\A c \in Users, j \in Jobs : outages' = 0 /\ answer'[c][j].kind = "result"
               => Progress(answer[c][j]) <= Progress(answer'[c][j])]_allVars
  BY <1>1
<1>4. QED
  BY <1>2, <1>3, InitOrder, PollInvariant, PTL DEF PollSpec, PollsNeverGoBack
=============================================================================
