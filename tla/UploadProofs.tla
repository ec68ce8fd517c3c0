---------------------------- MODULE UploadProofs -----------------------------
(***************************************************************************)
(* Theorems about UploadPipeline, for any users, keys, slots, faults and   *)
(* bounds: what an ack, an "ok" and an answer of Status promise of the     *)
(* row, of the bucket and of whose video it is, and that handlers leave no *)
(* file behind.                                                            *)
(***************************************************************************)
EXTENDS UploadPipeline, FiniteSetTheorems, TLAPS

-----------------------------------------------------------------------------
(* The inductive invariant.                                                *)

PutsMade == {p \in Puts : p[2] <= object[p[1]]}

\* Every event in a queue or in a slot is of a PUT that was made.
EventsReal ==
    /\ IsFiniteSet(PutsMade)
    /\ ready \subseteq PutsMade
    /\ \A s \in Slots : slot[s].pc # "idle" => slot[s].event \in PutsMade
    /\ \A s \in Slots : unacked[s] # Nothing =>
          slot[s].pc \notin {"idle", "setOk"} /\ unacked[s] = slot[s].event

\* A scratch file was made from an upload of its key.
OfKey(files, k) ==
    /\ files.raw # Nothing => files.raw[1] = k
    /\ files.mp4 # Nothing => files.mp4[1] = k
    /\ files.thumb # Nothing => files.thumb[1] = k
FilesOfKey == \A k \in Keys : OfKey(scratch[k], k)

\* A handler past the upload of its video, and a row, have a stored video of their own.
VideosKept ==
    /\ Nothing \notin stored
    /\ \A s \in Slots : slot[s].pc \in {"finish", "saveRow"} =>
          slot[s].video \in stored /\ slot[s].video[1] = KeyOf(s)
    /\ \A u \in Users : last[u] # Nothing => last[u] \in stored /\ KeyOwner[last[u][1]] = u

\* Whoever is to ack or to report success, and whoever has read "ok", has the user's row
\* behind it.
Recorded(k) == last[KeyOwner[k]] \in stored
SuccessIsRecorded ==
    /\ \A s \in Slots : slot[s].pc \in {"ack", "setOk"} => Recorded(KeyOf(s))
    /\ \A k \in Keys : status[k] = "ok" \/ asking[k] => Recorded(k)

DrainingIsOutage == worker = "draining" => outages > 0

UploadInv ==
    /\ TypeOK /\ EventsReal /\ FilesOfKey /\ VideosKept /\ SuccessIsRecorded /\ DrainingIsOutage
    /\ AckedIsRecorded /\ NoFileLeft /\ ReadyHasVideo /\ VideoIsOwn
-----------------------------------------------------------------------------
(* What the steps of a handler have in common.                             *)

SlotRecs == [pc : SlotPcs, event : Puts \cup {Nothing}, video : Puts \cup {Nothing}]
FileRecs == [raw : Puts \cup {Nothing}, mp4 : Puts \cup {Nothing}, thumb : Puts \cup {Nothing}]
Answers  == {Nothing} \cup ({"error", "notFound", "ok"} \X (Puts \cup {Nothing}))

LEMMA Types ==
    UploadInv => /\ slot \in [Slots -> SlotRecs] /\ scratch \in [Keys -> FileRecs]
                 /\ last \in [Users -> Puts \cup {Nothing}] /\ status \in [Keys -> Statuses]
                 /\ KeyOwner \in [Keys -> Users]
BY UploadAssumption DEF UploadInv, TypeOK, SlotRecs, FileRecs

\* The event a slot works on, its key and that key's files.
LEMMA Working ==
    ASSUME UploadInv, NEW s \in Slots, slot[s].pc # "idle"
    PROVE  /\ slot[s].event \in PutsMade /\ slot[s].event \in Puts
           /\ KeyOf(s) \in Keys /\ KeyOwner[KeyOf(s)] \in Users
           /\ Files(s) \in FileRecs /\ OfKey(Files(s), KeyOf(s))
<1>1. slot[s].event \in PutsMade /\ slot[s].event \in Puts
  BY DEF UploadInv, EventsReal, PutsMade
<1>2. KeyOf(s) \in Keys
  BY <1>1 DEF Puts, KeyOf
<1>3. QED
  BY <1>1, <1>2, Types DEF UploadInv, FilesOfKey, Files, Path

\* The files of a key are gone when its last handler leaves PreProcess.
LEMMA FilesGo ==
    ASSUME NoFileLeft, UNCHANGED outages,
           \A k \in Keys : scratch'[k] = scratch[k] \/ scratch'[k] = NoFiles
                \/ \E t \in Slots : slot'[t].pc \in PreProcessPcs /\ slot'[t].event[1] = k,
           \A t \in Slots : slot[t].pc \in PreProcessPcs =>
                \/ slot'[t].pc \in PreProcessPcs /\ slot'[t].event = slot[t].event
                \/ scratch'[KeyOf(t)] = NoFiles
    PROVE  NoFileLeft'
<1>1. SUFFICES ASSUME NEW k \in Keys, outages = 0, Using(k)' = {} PROVE scratch'[k] = NoFiles
  BY DEF NoFileLeft
<1>2. \A t \in Slots : ~(slot'[t].pc \in PreProcessPcs /\ slot'[t].event[1] = k)
  BY <1>1 DEF Using, KeyOf
<1>3. CASE Using(k) = {}
  BY <1>1, <1>2, <1>3 DEF NoFileLeft
<1>4. CASE Using(k) # {}
  BY <1>2, <1>4 DEF Using, KeyOf
<1>5. QED
  BY <1>3, <1>4

\* A handler goes on to its next call and leaves queues and requests alone.
LEMMA HandlerGoesOn ==
    ASSUME UploadInv, NEW s \in Slots, slot[s].pc # "idle",
           NEW next \in SlotPcs \ {"idle", "setOk"}, NEW v \in Puts \cup {Nothing},
           slot' = [slot EXCEPT ![s] = [pc |-> next, event |-> slot[s].event, video |-> v]],
           UNCHANGED <<uploadVars, queueVars, worker, askVars, outages>>,
           status' \in [Keys -> Statuses], \A k \in Keys : status'[k] = "ok" => status[k] = "ok",
           stored \subseteq stored', stored' \subseteq Puts, Nothing \notin stored',
           last' \in [Users -> Puts \cup {Nothing}],
           \A u \in Users : last'[u] = last[u] \/ (last'[u] \in stored' /\ KeyOwner[last'[u][1]] = u),
           scratch' \in [Keys -> FileRecs], FilesOfKey', NoFileLeft',
           next \in {"finish", "saveRow"} => v \in stored' /\ v[1] = KeyOf(s),
           next = "ack" => last'[KeyOwner[KeyOf(s)]] \in stored'
    PROVE  UploadInv'
<1>1. /\ slot' \in [Slots -> SlotRecs]
      /\ slot'[s].pc = next /\ slot'[s].event = slot[s].event /\ slot'[s].video = v
      /\ \A t \in Slots \ {s} : slot'[t] = slot[t]
  <2>1. [pc |-> next, event |-> slot[s].event, video |-> v] \in SlotRecs
    BY Working DEF SlotRecs
  <2>2. QED
    BY <2>1, Types
<1>2. \A t \in Slots : slot'[t].event = slot[t].event /\ (slot'[t].pc # "idle" <=> slot[t].pc # "idle")
  BY <1>1
<1>3. TypeOK'
  BY <1>1 DEF UploadInv, TypeOK, SlotRecs, FileRecs, uploadVars, queueVars, askVars
<1>4. EventsReal' /\ DrainingIsOutage'
  BY <1>2 DEF UploadInv, EventsReal, PutsMade, DrainingIsOutage, uploadVars, queueVars
<1>5. VideosKept'
  <2>1. \A t \in Slots \ {s} : slot'[t].pc \in {"finish", "saveRow"} =>
            slot'[t].video \in stored' /\ slot'[t].video[1] = slot'[t].event[1]
    BY <1>1 DEF UploadInv, VideosKept, KeyOf
  <2>2. slot'[s].pc \in {"finish", "saveRow"} =>
            slot'[s].video \in stored' /\ slot'[s].video[1] = slot'[s].event[1]
    BY <1>1 DEF KeyOf
  <2>3. \A u \in Users : last'[u] # Nothing => last'[u] \in stored' /\ KeyOwner[last'[u][1]] = u
    BY DEF UploadInv, VideosKept
  <2>4. QED
    BY <2>1, <2>2, <2>3 DEF VideosKept, KeyOf
<1>6. \A u \in Users : last[u] \in stored => last'[u] \in stored'
  OBVIOUS
<1>7. SuccessIsRecorded'
  <2>1. \A k \in Keys : Recorded(k) => Recorded(k)'
    BY <1>6, Types DEF Recorded
  <2>2. \A k \in Keys : status'[k] = "ok" \/ asking'[k] => Recorded(k)'
    BY <2>1 DEF UploadInv, SuccessIsRecorded, askVars
  <2>3. \A t \in Slots \ {s} : slot'[t].pc \in {"ack", "setOk"} => Recorded(KeyOf(t))'
    BY <1>1, <2>1, Working DEF UploadInv, SuccessIsRecorded, KeyOf
  <2>4. slot'[s].pc \in {"ack", "setOk"} => Recorded(KeyOf(s))'
    BY <1>1 DEF Recorded, KeyOf
  <2>5. QED
    BY <2>2, <2>3, <2>4 DEF SuccessIsRecorded
<1>8. AckedIsRecorded'
  <2>1. \A e \in acked : KeyOwner[e[1]] \in Users
    BY UploadAssumption DEF UploadInv, TypeOK, Puts
  <2>2. QED
    BY <1>6, <2>1 DEF UploadInv, AckedIsRecorded, queueVars
<1>9. ReadyHasVideo' /\ VideoIsOwn'
  BY DEF UploadInv, ReadyHasVideo, VideoIsOwn, askVars
<1>10. QED
  BY <1>3, <1>4, <1>5, <1>7, <1>8, <1>9 DEF UploadInv
LEMMA GotoIs ==
    ASSUME UploadInv, NEW s \in Slots, NEW next, Goto(s, next)
    PROVE  /\ slot' = [slot EXCEPT ![s] = [pc |-> next, event |-> slot[s].event, video |-> slot[s].video]]
           /\ slot[s].video \in Puts \cup {Nothing}
           /\ slot'[s].pc = next /\ slot'[s].event = slot[s].event
           /\ \A t \in Slots \ {s} : slot'[t] = slot[t]
<1>1. slot[s] \in SlotRecs /\ slot \in [Slots -> SlotRecs]
  BY Types
<1>2. [slot[s] EXCEPT !.pc = next] = [pc |-> next, event |-> slot[s].event, video |-> slot[s].video]
  BY <1>1 DEF SlotRecs
<1>3. slot' = [slot EXCEPT ![s] = [slot[s] EXCEPT !.pc = next]]
  BY DEF Goto
<1>4. QED
  BY <1>1, <1>2, <1>3 DEF SlotRecs

-----------------------------------------------------------------------------
(* The steps of a handler.                                                 *)

\* Nothing but the status of the slot's key and the slot change.
LEMMA SetStatusStep ==
    ASSUME UploadInv, NEW s \in Slots, SetProcessing(s) \/ SetFailed(s)
    PROVE  UploadInv'
<1>1. PICK st \in {"processing", "failed"}, next \in {"download", "nack"} :
          Goto(s, next) /\ status' \in {status, [status EXCEPT ![KeyOf(s)] = st]}
  BY DEF SetProcessing, SetFailed, SetStatus
<1>2. /\ slot[s].pc \in {"setProcessing", "setFailed"}
      /\ UNCHANGED <<uploadVars, last, fileVars, queueVars, worker, askVars, outages>>
  BY DEF SetProcessing, SetFailed, SetStatus
<1>3. /\ status' \in [Keys -> Statuses] /\ \A k \in Keys : status'[k] = "ok" => status[k] = "ok"
      /\ scratch \in [Keys -> FileRecs] /\ last \in [Users -> Puts \cup {Nothing}]
  BY <1>1, Types DEF Statuses
<1>4. NoFileLeft'
  <2>1. \A t \in Slots : slot[t].pc \in PreProcessPcs =>
            slot'[t].pc \in PreProcessPcs /\ slot'[t].event = slot[t].event
    BY <1>1, <1>2, GotoIs DEF PreProcessPcs
  <2>2. QED
    BY <1>2, <2>1, FilesGo DEF UploadInv, fileVars
<1>5. FilesOfKey' /\ stored \subseteq Puts /\ Nothing \notin stored
  BY <1>2 DEF UploadInv, FilesOfKey, VideosKept, TypeOK, fileVars, OfKey
<1>6. QED
  BY <1>1, <1>2, <1>3, <1>4, <1>5, GotoIs, HandlerGoesOn DEF fileVars, SlotPcs, PreProcessPcs

\* PreProcess fails, its deferred removals done.
LEMMA FailStep ==
    ASSUME UploadInv, NEW s \in Slots, slot[s].pc \in PreProcessPcs, Fail(s),
           UNCHANGED <<uploadVars, status, last, queueVars, worker, askVars, outages>>
    PROVE  UploadInv'
<1>1. slot[s].pc # "idle" /\ scratch \in [Keys -> FileRecs] /\ KeyOf(s) \in Keys
      /\ last \in [Users -> Puts \cup {Nothing}] /\ status \in [Keys -> Statuses]
  BY Working, Types DEF PreProcessPcs
<1>2. /\ scratch' = [scratch EXCEPT ![KeyOf(s)] = NoFiles] /\ Goto(s, "setFailed") /\ stored' = stored
  BY DEF Fail, Cleanup, Path
<1>3. /\ scratch'[KeyOf(s)] = NoFiles /\ \A k \in Keys \ {KeyOf(s)} : scratch'[k] = scratch[k]
      /\ scratch' \in [Keys -> FileRecs]
  BY <1>1, <1>2 DEF NoFiles, FileRecs
<1>4. FilesOfKey'
  BY <1>3 DEF UploadInv, FilesOfKey, OfKey, NoFiles
<1>5. NoFileLeft'
  BY <1>2, <1>3, GotoIs, FilesGo DEF UploadInv
<1>6. stored \subseteq Puts /\ Nothing \notin stored
  BY DEF UploadInv, VideosKept, TypeOK
<1>7. QED
  BY <1>1, <1>2, <1>3, <1>4, <1>5, <1>6, GotoIs, HandlerGoesOn DEF SlotPcs

\* A file of the slot's key is written from an upload of that key.
LEMMA WriteStep ==
    ASSUME UploadInv, NEW s \in Slots, slot[s].pc \in PreProcessPcs,
           NEW kind \in {"raw", "mp4", "thumb"}, NEW content \in Puts, content[1] = KeyOf(s),
           NEW next \in {"convert", "thumb", "store"},
           Write(s, kind, content), Goto(s, next), UNCHANGED stored,
           UNCHANGED <<uploadVars, status, last, queueVars, worker, askVars, outages>>
    PROVE  UploadInv'
<1> DEFINE files == [Files(s) EXCEPT ![kind] = content]
<1>1. slot[s].pc # "idle" /\ scratch \in [Keys -> FileRecs] /\ KeyOf(s) \in Keys
      /\ last \in [Users -> Puts \cup {Nothing}] /\ status \in [Keys -> Statuses]
      /\ Files(s) \in FileRecs /\ OfKey(Files(s), KeyOf(s))
  BY Working, Types DEF PreProcessPcs
<1>2. scratch' = [scratch EXCEPT ![KeyOf(s)] = files]
  BY DEF Write, Files, Path
<1>3. files \in FileRecs /\ OfKey(files, KeyOf(s))
  BY <1>1 DEF FileRecs, OfKey
<1> HIDE DEF files
<1>4. /\ scratch'[KeyOf(s)] = files /\ \A k \in Keys \ {KeyOf(s)} : scratch'[k] = scratch[k]
      /\ scratch' \in [Keys -> FileRecs]
  BY <1>1, <1>2, <1>3
<1>5. FilesOfKey'
  BY <1>3, <1>4 DEF UploadInv, FilesOfKey, OfKey
<1>6. slot'[s].pc \in PreProcessPcs /\ slot'[s].event = slot[s].event
      /\ \A t \in Slots \ {s} : slot'[t] = slot[t]
  BY GotoIs DEF PreProcessPcs
<1>7. NoFileLeft'
  BY <1>4, <1>6, FilesGo DEF UploadInv, KeyOf
<1>8. stored \subseteq Puts /\ Nothing \notin stored
  BY DEF UploadInv, VideosKept, TypeOK
<1>9. QED
  BY <1>1, <1>4, <1>5, <1>7, <1>8, GotoIs, HandlerGoesOn DEF SlotPcs, PreProcessPcs

LEMMA PreProcessStep ==
    ASSUME UploadInv, NEW s \in Slots, PreProcess(s)
    PROVE  UploadInv'
<1>1. UNCHANGED <<uploadVars, status, last, queueVars, worker, askVars, outages>> /\ slot[s].pc \in PreProcessPcs
  BY DEF PreProcess, Download, ConvertToMp4, GenerateThumb, StoreVideo, FinishPreProcess, PreProcessPcs
<1>2. /\ slot[s].pc # "idle" /\ KeyOf(s) \in Keys /\ slot[s].event \in PutsMade
      /\ Files(s) \in FileRecs /\ OfKey(Files(s), KeyOf(s))
      /\ scratch \in [Keys -> FileRecs] /\ last \in [Users -> Puts \cup {Nothing}]
      /\ status \in [Keys -> Statuses] /\ stored \subseteq Puts /\ Nothing \notin stored
  BY <1>1, Working, Types DEF PreProcessPcs, UploadInv, VideosKept, TypeOK
<1>3. CASE Fail(s)
  BY <1>1, <1>3, FailStep
<1>4. CASE Download(s) /\ ~Fail(s)
  <2> DEFINE raw == <<KeyOf(s), object[KeyOf(s)]>>
  <2>1. object[KeyOf(s)] \in 1..MaxPuts
    <3>1. slot[s].event[2] \in 1..MaxPuts /\ slot[s].event[2] <= object[KeyOf(s)]
      BY <1>2 DEF PutsMade, Puts, KeyOf
    <3>2. object[KeyOf(s)] \in 0..MaxPuts /\ MaxPuts \in Nat
      BY <1>2, UploadAssumption DEF UploadInv, TypeOK
    <3>3. QED
      BY <3>1, <3>2
  <2>2. raw \in Puts /\ raw[1] = KeyOf(s)
    BY <1>2, <2>1 DEF Puts
  <2>3. Write(s, "raw", raw) /\ Goto(s, "convert") /\ UNCHANGED stored
    BY <1>4 DEF Download, MayFail
  <2>4. QED
    BY <1>1, <2>2, <2>3, WriteStep
<1>5. CASE ConvertToMp4(s) /\ ~Fail(s)
  <2>1. Files(s).raw # Nothing /\ Write(s, "mp4", Files(s).raw) /\ Goto(s, "thumb") /\ UNCHANGED stored
    BY <1>5 DEF ConvertToMp4, MayFail
  <2>2. Files(s).raw \in Puts /\ Files(s).raw[1] = KeyOf(s)
    BY <1>2, <2>1 DEF FileRecs, OfKey
  <2>3. QED
    BY <1>1, <2>1, <2>2, WriteStep
<1>6. CASE GenerateThumb(s) /\ ~Fail(s)
  <2>1. Files(s).mp4 # Nothing /\ Write(s, "thumb", Files(s).mp4) /\ Goto(s, "store") /\ UNCHANGED stored
    BY <1>6 DEF GenerateThumb, MayFail
  <2>2. Files(s).mp4 \in Puts /\ Files(s).mp4[1] = KeyOf(s)
    BY <1>2, <2>1 DEF FileRecs, OfKey
  <2>3. QED
    BY <1>1, <2>1, <2>2, WriteStep
<1>7. CASE StoreVideo(s) /\ ~Fail(s)
  <2>1. PICK v \in Puts : /\ v # Nothing /\ v[1] = KeyOf(s) /\ stored' = stored \cup {v} /\ scratch' = scratch
                          /\ slot' = [slot EXCEPT ![s].pc = "finish", ![s].video = v]
    <3>1. /\ Files(s).mp4 # Nothing /\ stored' = stored \cup {Files(s).mp4} /\ scratch' = scratch
          /\ slot' = [slot EXCEPT ![s].pc = "finish", ![s].video = Files(s).mp4]
      BY <1>7 DEF StoreVideo, MayFail
    <3>2. Files(s).mp4 \in Puts /\ Files(s).mp4[1] = KeyOf(s)
      BY <1>2, <3>1 DEF FileRecs, OfKey
    <3>3. QED
      BY <3>1, <3>2
  <2>3. slot' = [slot EXCEPT ![s] = [pc |-> "finish", event |-> slot[s].event, video |-> v]]
    <3>1. slot[s] \in SlotRecs /\ slot \in [Slots -> SlotRecs]
      BY Types
    <3> DEFINE at == [pc |-> "finish", event |-> slot[s].event, video |-> slot[s].video]
    <3>2. [slot[s] EXCEPT !.pc = "finish"] = at
      BY <3>1 DEF SlotRecs
    <3>3. [at EXCEPT !.video = v] = [pc |-> "finish", event |-> slot[s].event, video |-> v]
      OBVIOUS
    <3>4. slot' = [[slot EXCEPT ![s] = [slot[s] EXCEPT !.pc = "finish"]] EXCEPT ![s].video = v]
      BY <2>1
    <3>5. [slot EXCEPT ![s] = at][s] = at /\ [slot EXCEPT ![s] = at] \in [Slots -> SlotRecs]
      <4>1. at \in SlotRecs
        BY <3>1 DEF SlotRecs, SlotPcs, PreProcessPcs
      <4>2. QED
        BY <3>1, <4>1
    <3> HIDE DEF at
    <3>6. slot' = [slot EXCEPT ![s] = [at EXCEPT !.video = v]]
      BY <3>1, <3>2, <3>4, <3>5
    <3>7. QED
      BY <3>3, <3>6
  <2>4. NoFileLeft'
    <3>1. slot'[s].pc \in PreProcessPcs /\ slot'[s].event = slot[s].event
          /\ \A t \in Slots \ {s} : slot'[t] = slot[t]
      BY <2>3, Types DEF PreProcessPcs
    <3>2. QED
      BY <1>1, <2>1, <3>1, FilesGo DEF UploadInv
  <2>5. FilesOfKey'
    BY <2>1 DEF UploadInv, FilesOfKey, OfKey
  <2>6. /\ stored \subseteq stored' /\ stored' \subseteq Puts /\ Nothing \notin stored'
        /\ v \in stored' /\ v[1] = KeyOf(s) /\ scratch' \in [Keys -> FileRecs]
    BY <1>2, <2>1
  <2>7. /\ status' \in [Keys -> Statuses] /\ \A k \in Keys : status'[k] = "ok" => status[k] = "ok"
        /\ last' \in [Users -> Puts \cup {Nothing}] /\ \A u \in Users : last'[u] = last[u]
    BY <1>1, <1>2, <2>1
  <2>8. "finish" \in PreProcessPcs /\ v \in Puts \cup {Nothing}
    BY DEF PreProcessPcs
  <2>9. "finish" \in SlotPcs \ {"idle", "setOk"} /\ "finish" # "ack"
    BY <2>8 DEF SlotPcs
  <2>10. QED
    BY <1>1, <1>2, <2>3, <2>4, <2>5, <2>6, <2>7, <2>8, <2>9, HandlerGoesOn, Zenon
<1>8. CASE FinishPreProcess(s) /\ ~Fail(s)
  <2>1. /\ Goto(s, "saveRow") /\ UNCHANGED stored /\ slot[s].pc = "finish"
        /\ scratch' = [scratch EXCEPT ![KeyOf(s)] = NoFiles]
    BY <1>8 DEF FinishPreProcess, MayFail, Cleanup, Path
  <2>2. /\ scratch'[KeyOf(s)] = NoFiles /\ \A k \in Keys \ {KeyOf(s)} : scratch'[k] = scratch[k]
        /\ scratch' \in [Keys -> FileRecs]
    BY <1>2, <2>1 DEF NoFiles, FileRecs
  <2>3. FilesOfKey'
    BY <2>2 DEF UploadInv, FilesOfKey, OfKey, NoFiles
  <2>4. NoFileLeft'
    BY <1>1, <2>1, <2>2, GotoIs, FilesGo DEF UploadInv
  <2>5. slot[s].video \in stored /\ slot[s].video[1] = KeyOf(s)
    BY <2>1 DEF UploadInv, VideosKept
  <2>6. QED
    BY <1>1, <1>2, <2>1, <2>2, <2>3, <2>4, <2>5, GotoIs, HandlerGoesOn DEF SlotPcs
<1>9. QED
  BY <1>3, <1>4, <1>5, <1>6, <1>7, <1>8 DEF PreProcess
LEMMA SaveRowStep ==
    ASSUME UploadInv, NEW s \in Slots, SaveRow(s)
    PROVE  UploadInv'
<1> DEFINE written == [last EXCEPT ![KeyOwner[KeyOf(s)]] = slot[s].video]
<1>1. PICK next \in {"ack", "setFailed"} :
          Goto(s, next) /\ last' \in {last, written} /\ (next = "ack" => last' = written)
  BY DEF SaveRow
<1>2. slot[s].pc = "saveRow" /\ UNCHANGED <<uploadVars, status, fileVars, queueVars, worker, askVars, outages>>
  BY DEF SaveRow
<1>3. /\ KeyOf(s) \in Keys /\ KeyOwner[KeyOf(s)] \in Users /\ slot[s].pc # "idle"
      /\ last \in [Users -> Puts \cup {Nothing}] /\ status \in [Keys -> Statuses]
      /\ scratch \in [Keys -> FileRecs] /\ stored \subseteq Puts /\ Nothing \notin stored
  BY <1>2, Working, Types DEF UploadInv, VideosKept, TypeOK
<1>4. slot[s].video \in stored /\ slot[s].video[1] = KeyOf(s)
  BY <1>2 DEF UploadInv, VideosKept
<1>5. /\ written \in [Users -> Puts \cup {Nothing}] /\ written[KeyOwner[KeyOf(s)]] = slot[s].video
      /\ \A u \in Users : written[u] = last[u] \/ (written[u] \in stored /\ KeyOwner[written[u][1]] = u)
  BY <1>3, <1>4
<1> HIDE DEF written
<1>6. /\ last' \in [Users -> Puts \cup {Nothing}]
      /\ \A u \in Users : last'[u] = last[u] \/ (last'[u] \in stored' /\ KeyOwner[last'[u][1]] = u)
      /\ next = "ack" => last'[KeyOwner[KeyOf(s)]] \in stored'
  BY <1>1, <1>2, <1>3, <1>4, <1>5 DEF fileVars
<1>7. NoFileLeft'
  <2>1. \A t \in Slots : slot[t].pc \in PreProcessPcs =>
            slot'[t].pc \in PreProcessPcs /\ slot'[t].event = slot[t].event
    BY <1>1, <1>2, GotoIs DEF PreProcessPcs
  <2>2. QED
    BY <1>2, <2>1, FilesGo DEF UploadInv, fileVars
<1>8. FilesOfKey'
  BY <1>2 DEF UploadInv, FilesOfKey, fileVars, OfKey
<1>9. next \in SlotPcs \ {"idle", "setOk"} /\ next \notin {"finish", "saveRow"}
  BY <1>1 DEF SlotPcs
<1>10. QED
  BY <1>1, <1>2, <1>3, <1>6, <1>7, <1>8, <1>9, GotoIs, HandlerGoesOn DEF fileVars

\* A slot takes an event, settles it or ends, outside of PreProcess.
LEMMA SlotSettles ==
    ASSUME UploadInv, NEW s \in Slots, slot[s].pc \notin PreProcessPcs,
           NEW r \in SlotRecs, r.pc \in {"idle", "setProcessing", "setOk"},
           slot' = [slot EXCEPT ![s] = r],
           UNCHANGED <<uploadVars, last, fileVars, worker, askVars, outages>>,
           r.pc # "idle" => r.event \in PutsMade,
           r.pc = "setOk" => Recorded(r.event[1]),
           ready' \subseteq PutsMade, dead' \subseteq Puts, acked' \subseteq Puts,
           \A e \in acked' : e \in acked \/ Recorded(e[1]),
           unacked' \in [Slots -> Puts \cup {Nothing}],
           \A t \in Slots \ {s} : unacked'[t] = unacked[t],
           unacked'[s] # Nothing => r.pc = "setProcessing" /\ unacked'[s] = r.event,
           status' \in [Keys -> Statuses],
           \A k \in Keys : status'[k] = "ok" => status[k] = "ok" \/ Recorded(k)
    PROVE  UploadInv'
<1>1. /\ slot' \in [Slots -> SlotRecs] /\ slot'[s] = r /\ \A t \in Slots \ {s} : slot'[t] = slot[t]
  BY Types
<1>2. TypeOK'
  BY <1>1 DEF UploadInv, TypeOK, PutsMade, SlotRecs, uploadVars, fileVars, askVars
<1>3. EventsReal'
  <2>1. PutsMade' = PutsMade /\ IsFiniteSet(PutsMade)
    BY DEF UploadInv, EventsReal, PutsMade, uploadVars
  <2>2. \A t \in Slots : slot'[t].pc # "idle" => slot'[t].event \in PutsMade
    BY <1>1 DEF UploadInv, EventsReal
  <2>3. \A t \in Slots : unacked'[t] # Nothing =>
            slot'[t].pc \notin {"idle", "setOk"} /\ unacked'[t] = slot'[t].event
    BY <1>1 DEF UploadInv, EventsReal
  <2>4. QED
    BY <2>1, <2>2, <2>3 DEF EventsReal
<1>4. FilesOfKey' /\ DrainingIsOutage' /\ ReadyHasVideo' /\ VideoIsOwn'
  BY DEF UploadInv, FilesOfKey, OfKey, DrainingIsOutage, ReadyHasVideo, VideoIsOwn, fileVars, askVars
<1>5. VideosKept'
  BY <1>1 DEF UploadInv, VideosKept, KeyOf, fileVars
<1>6. SuccessIsRecorded'
  <2>1. \A t \in Slots \ {s} : slot'[t].pc \in {"ack", "setOk"} => Recorded(slot'[t].event[1])
    BY <1>1 DEF UploadInv, SuccessIsRecorded, KeyOf
  <2>2. \A k \in Keys : status'[k] = "ok" \/ asking'[k] => Recorded(k)
    BY DEF UploadInv, SuccessIsRecorded, askVars
  <2>3. QED
    BY <1>1, <2>1, <2>2 DEF SuccessIsRecorded, KeyOf, Recorded, fileVars
<1>7. AckedIsRecorded'
  BY DEF UploadInv, AckedIsRecorded, Recorded, fileVars
<1>8. NoFileLeft'
  <2>1. \A t \in Slots : slot[t].pc \in PreProcessPcs =>
            slot'[t].pc \in PreProcessPcs /\ slot'[t].event = slot[t].event
    BY <1>1
  <2>2. QED
    BY <2>1, FilesGo DEF UploadInv, fileVars
<1>9. QED
  BY <1>2, <1>3, <1>4, <1>5, <1>6, <1>7, <1>8 DEF UploadInv

LEMMA IdleRec == Idle \in SlotRecs
BY DEF Idle, SlotRecs, SlotPcs

LEMMA DeliverStep ==
    ASSUME UploadInv, NEW s \in Slots, Deliver(s)
    PROVE  UploadInv'
<1>1. PICK e \in ready :
          /\ ready' = ready \ {e} /\ unacked' = [unacked EXCEPT ![s] = e]
          /\ slot' = [slot EXCEPT ![s] = [pc |-> "setProcessing", event |-> e, video |-> Nothing]]
  BY DEF Deliver
<1>2. slot[s].pc = "idle"
      /\ UNCHANGED <<uploadVars, status, last, fileVars, acked, dead, worker, askVars, outages>>
  BY DEF Deliver
<1> DEFINE r == [pc |-> "setProcessing", event |-> e, video |-> Nothing]
<1>3. e \in PutsMade /\ e \in Puts /\ ready \subseteq PutsMade /\ acked \subseteq Puts /\ dead \subseteq Puts
      /\ unacked \in [Slots -> Puts \cup {Nothing}] /\ status \in [Keys -> Statuses]
  BY DEF UploadInv, EventsReal, PutsMade, TypeOK
<1>4. r \in SlotRecs /\ r.pc = "setProcessing" /\ r.event = e
  BY <1>3 DEF SlotRecs, SlotPcs
<1>5. slot' = [slot EXCEPT ![s] = r]
  BY <1>1
<1> HIDE DEF r
<1>6. /\ unacked' \in [Slots -> Puts \cup {Nothing}] /\ unacked'[s] = e
      /\ \A t \in Slots \ {s} : unacked'[t] = unacked[t]
  BY <1>1, <1>3
<1>7. slot[s].pc \notin PreProcessPcs /\ ready' \subseteq PutsMade
  BY <1>1, <1>2, <1>3 DEF PreProcessPcs
<1>8. QED
  BY <1>2, <1>3, <1>4, <1>5, <1>6, <1>7, SlotSettles

LEMMA NackStep ==
    ASSUME UploadInv, NEW s \in Slots, Nack(s)
    PROVE  UploadInv'
<1>1. /\ slot[s].pc = "nack" /\ slot' = [slot EXCEPT ![s] = Idle]
      /\ dead' = dead \cup ({unacked[s]} \ {Nothing}) /\ unacked' = [unacked EXCEPT ![s] = Nothing]
      /\ UNCHANGED <<uploadVars, status, last, fileVars, ready, acked, worker, askVars, outages>>
  BY DEF Nack
<1>2. ready \subseteq PutsMade /\ acked \subseteq Puts /\ dead \subseteq Puts
      /\ unacked \in [Slots -> Puts \cup {Nothing}] /\ status \in [Keys -> Statuses]
  BY DEF UploadInv, EventsReal, TypeOK
<1>3. /\ unacked' \in [Slots -> Puts \cup {Nothing}] /\ unacked'[s] = Nothing
      /\ \A t \in Slots \ {s} : unacked'[t] = unacked[t] /\ dead' \subseteq Puts
  BY <1>1, <1>2
<1>4. dead' \subseteq Puts /\ slot[s].pc \notin PreProcessPcs /\ Idle.pc = "idle"
  BY <1>1, <1>2 DEF PreProcessPcs, Idle
<1>5. QED
  BY <1>1, <1>2, <1>3, <1>4, IdleRec, SlotSettles

LEMMA AckStep ==
    ASSUME UploadInv, NEW s \in Slots, Ack(s)
    PROVE  UploadInv'
<1>1. /\ slot[s].pc = "ack" /\ Goto(s, "setOk")
      /\ acked' = acked \cup ({unacked[s]} \ {Nothing}) /\ unacked' = [unacked EXCEPT ![s] = Nothing]
      /\ UNCHANGED <<uploadVars, status, last, fileVars, ready, dead, worker, askVars, outages>>
  BY DEF Ack
<1> DEFINE r == [pc |-> "setOk", event |-> slot[s].event, video |-> slot[s].video]
<1>2. ready \subseteq PutsMade /\ acked \subseteq Puts /\ dead \subseteq Puts
      /\ unacked \in [Slots -> Puts \cup {Nothing}] /\ status \in [Keys -> Statuses]
      /\ slot[s].event \in PutsMade /\ slot[s].event \in Puts
  BY <1>1, Working DEF UploadInv, EventsReal, TypeOK
<1>3. /\ r \in SlotRecs /\ r.pc = "setOk" /\ r.event = slot[s].event /\ slot' = [slot EXCEPT ![s] = r]
  BY <1>1, <1>2, GotoIs DEF SlotRecs, SlotPcs
<1> HIDE DEF r
<1>4. Recorded(r.event[1])
  BY <1>1, <1>3 DEF UploadInv, SuccessIsRecorded, KeyOf
<1>5. unacked[s] # Nothing => unacked[s] = r.event
  BY <1>3 DEF UploadInv, EventsReal
<1>6. acked' \subseteq Puts /\ \A e \in acked' : e \in acked \/ Recorded(e[1])
  BY <1>1, <1>2, <1>4, <1>5
<1>7. /\ unacked' \in [Slots -> Puts \cup {Nothing}] /\ unacked'[s] = Nothing
      /\ \A t \in Slots \ {s} : unacked'[t] = unacked[t]
  BY <1>1, <1>2
<1>8. slot[s].pc \notin PreProcessPcs
  BY <1>1 DEF PreProcessPcs
<1>9. QED
  BY <1>1, <1>2, <1>3, <1>4, <1>6, <1>7, <1>8, SlotSettles

LEMMA SetOkStep ==
    ASSUME UploadInv, NEW s \in Slots, SetOk(s)
    PROVE  UploadInv'
<1>1. /\ slot[s].pc = "setOk" /\ slot' = [slot EXCEPT ![s] = Idle]
      /\ status' \in {status, [status EXCEPT ![KeyOf(s)] = "ok"]}
      /\ UNCHANGED <<uploadVars, last, fileVars, queueVars, worker, askVars, outages>>
  BY DEF SetOk, Ended
<1>2. ready \subseteq PutsMade /\ acked \subseteq Puts /\ dead \subseteq Puts
      /\ unacked \in [Slots -> Puts \cup {Nothing}] /\ status \in [Keys -> Statuses]
      /\ unacked[s] = Nothing
  BY <1>1 DEF UploadInv, EventsReal, TypeOK
<1>3. Recorded(KeyOf(s)) /\ slot[s].pc \notin PreProcessPcs /\ Idle.pc = "idle"
  BY <1>1 DEF UploadInv, SuccessIsRecorded, PreProcessPcs, Idle
<1>4. /\ status' \in [Keys -> Statuses]
      /\ \A k \in Keys : status'[k] = "ok" => status[k] = "ok" \/ Recorded(k)
  BY <1>1, <1>2, <1>3 DEF Statuses
<1>5. QED
  BY <1>1, <1>2, <1>3, <1>4, IdleRec, SlotSettles DEF queueVars
-----------------------------------------------------------------------------
(* The steps of the API, the client and the clock.                         *)

\* Only requests, statuses and answers change.
LEMMA RequestsStep ==
    ASSUME UploadInv,
           UNCHANGED <<object, last, fileVars, queueVars, slot, worker, outages>>,
           request' \in [Keys -> {"new", "granted", "failed"}],
           status' \in [Keys -> Statuses], asking' \in [Keys -> BOOLEAN], told' \in [Keys -> Answers],
           \A k \in Keys : status'[k] = "ok" \/ asking'[k] => status[k] = "ok" \/ asking[k],
           ReadyHasVideo', VideoIsOwn'
    PROVE  UploadInv'
<1>1. TypeOK'
  BY DEF UploadInv, TypeOK, Answers, fileVars, queueVars
<1>2. EventsReal' /\ FilesOfKey' /\ VideosKept' /\ DrainingIsOutage'
  BY DEF UploadInv, EventsReal, PutsMade, FilesOfKey, OfKey, VideosKept, KeyOf, DrainingIsOutage,
         fileVars, queueVars
<1>3. SuccessIsRecorded' /\ AckedIsRecorded'
  BY DEF UploadInv, SuccessIsRecorded, Recorded, KeyOf, AckedIsRecorded, fileVars, queueVars
<1>4. NoFileLeft'
  BY DEF UploadInv, NoFileLeft, Using, KeyOf, fileVars
<1>5. QED
  BY <1>1, <1>2, <1>3, <1>4 DEF UploadInv

\* Upload and Expire write another word than "ok".
LEMMA UploadStep ==
    ASSUME UploadInv, NEW k \in Keys, Upload(k) \/ Expire(k)
    PROVE  UploadInv'
<1>1. /\ UNCHANGED <<object, last, fileVars, queueVars, slot, worker, askVars, outages>>
      /\ \/ request' = request
         \/ \E st \in {"granted", "failed"} : request' = [request EXCEPT ![k] = st]
      /\ \/ status' = status
         \/ \E st \in {"uploading", "none"} : status' = [status EXCEPT ![k] = st]
  BY DEF Upload, Expire, uploadVars
<1>2. /\ status \in [Keys -> Statuses] /\ request \in [Keys -> {"new", "granted", "failed"}]
      /\ asking \in [Keys -> BOOLEAN] /\ told \in [Keys -> Answers]
  BY DEF UploadInv, TypeOK, Answers
<1>3. /\ status' \in [Keys -> Statuses] /\ request' \in [Keys -> {"new", "granted", "failed"}]
      /\ \A j \in Keys : status'[j] = "ok" => status[j] = "ok"
  BY <1>1, <1>2 DEF Statuses
<1>4. ReadyHasVideo' /\ VideoIsOwn'
  BY <1>1 DEF UploadInv, ReadyHasVideo, VideoIsOwn, askVars, fileVars
<1>5. QED
  BY <1>1, <1>2, <1>3, <1>4, RequestsStep DEF askVars

LEMMA StatusStep ==
    ASSUME UploadInv, NEW k \in Keys, Status(k)
    PROVE  UploadInv'
<1>1. /\ UNCHANGED <<uploadVars, status, last, fileVars, queueVars, slot, worker, told, outages>>
      /\ asking' = [asking EXCEPT ![k] = TRUE] /\ status[k] = "ok"
  BY DEF Status
<1>2. /\ status \in [Keys -> Statuses] /\ request \in [Keys -> {"new", "granted", "failed"}]
      /\ asking \in [Keys -> BOOLEAN] /\ told \in [Keys -> Answers]
  BY DEF UploadInv, TypeOK, Answers
<1>3. asking' \in [Keys -> BOOLEAN] /\ \A j \in Keys \ {k} : asking'[j] = asking[j]
  BY <1>1, <1>2
<1>4. \A j \in Keys : status'[j] = "ok" \/ asking'[j] => status[j] = "ok" \/ asking[j]
  BY <1>1, <1>3
<1>5. ReadyHasVideo' /\ VideoIsOwn'
  BY <1>1 DEF UploadInv, ReadyHasVideo, VideoIsOwn, fileVars
<1>6. QED
  BY <1>1, <1>2, <1>3, <1>4, <1>5, RequestsStep DEF uploadVars

\* Whoever read "ok" finds the row, and the row is of the key's owner.
LEMMA LastVideoStep ==
    ASSUME UploadInv, NEW k \in Keys, LastVideo(k)
    PROVE  UploadInv'
<1> DEFINE v == last[KeyOwner[k]]
<1>1. /\ UNCHANGED <<uploadVars, status, last, fileVars, queueVars, slot, worker, outages>>
      /\ asking[k] /\ asking' = [asking EXCEPT ![k] = FALSE]
      /\ \/ Answer(k, IF v = Nothing THEN <<"notFound", Nothing>> ELSE <<"ok", v>>)
         \/ Answer(k, <<"error", Nothing>>)
  BY DEF LastVideo
<1>2. /\ status \in [Keys -> Statuses] /\ request \in [Keys -> {"new", "granted", "failed"}]
      /\ asking \in [Keys -> BOOLEAN] /\ told \in [Keys -> Answers] /\ stored \subseteq Puts
  BY DEF UploadInv, TypeOK, Answers
<1>3. asking' \in [Keys -> BOOLEAN] /\ \A j \in Keys \ {k} : asking'[j] = asking[j]
      /\ ~asking'[k]
  BY <1>1, <1>2
<1>4. v \in stored /\ v # Nothing /\ KeyOwner[v[1]] = KeyOwner[k]
  <2>1. KeyOwner[k] \in Users
    BY UploadAssumption
  <2>2. v \in stored
    BY <1>1 DEF UploadInv, SuccessIsRecorded, Recorded
  <2>3. QED
    BY <2>1, <2>2 DEF UploadInv, VideosKept
<1>5. v \in Puts
  BY <1>2, <1>4
<1> HIDE DEF v
<1>6. PICK a \in {<<"ok", v>>, <<"error", Nothing>>} : told' = [told EXCEPT ![k] = a]
  BY <1>1, <1>4 DEF Answer
<1>7. a \in Answers /\ a[1] # "notFound"
      /\ (a[2] # Nothing => a[2] \in stored /\ KeyOwner[a[2][1]] = KeyOwner[k])
  BY <1>4, <1>5, <1>6 DEF Answers
<1>8. told' \in [Keys -> Answers] /\ told'[k] = a /\ \A j \in Keys \ {k} : told'[j] = told[j]
  BY <1>2, <1>6, <1>7
<1>9. ReadyHasVideo' /\ VideoIsOwn'
  BY <1>1, <1>7, <1>8 DEF UploadInv, ReadyHasVideo, VideoIsOwn, fileVars
<1>10. \A j \in Keys : status'[j] = "ok" \/ asking'[j] => status[j] = "ok" \/ asking[j]
  BY <1>1, <1>3
<1>11. QED
  BY <1>1, <1>2, <1>3, <1>8, <1>9, <1>10, RequestsStep DEF uploadVars

\* The PUTs of one key are among those counted, so none passes the bound.
LEMMA PutsBounded ==
    ASSUME UploadInv, NEW k \in Keys, Cardinality(PutsMade) < MaxPuts
    PROVE  object[k] < MaxPuts
<1>1. object[k] \in 0..MaxPuts /\ MaxPuts \in Nat
  BY UploadAssumption DEF UploadInv, TypeOK
<1>2. SUFFICES ASSUME object[k] = MaxPuts PROVE FALSE
  BY <1>1
<1> DEFINE own == {k} \X (1..MaxPuts)
           put == [i \in 1..MaxPuts |-> <<k, i>>]
<1>3. own \subseteq PutsMade
  BY <1>1, <1>2 DEF PutsMade, Puts
<1>4. put \in Bijection(1..MaxPuts, own)
  <2>1. put \in [1..MaxPuts -> own]
    OBVIOUS
  <2>2. \A i, j \in 1..MaxPuts : i # j => put[i] # put[j]
    OBVIOUS
  <2>3. \A p \in own : \E i \in 1..MaxPuts : put[i] = p
    OBVIOUS
  <2> HIDE DEF own, put
  <2>4. QED
    BY <2>1, <2>2, <2>3 DEF Bijection, Injection, IsInjective, Surjection
<1> HIDE DEF own, put
<1>5. IsFiniteSet(1..MaxPuts) /\ Cardinality(1..MaxPuts) = MaxPuts
  BY <1>1, FS_Interval
<1>6. Cardinality(own) = MaxPuts
  BY <1>4, <1>5, FS_Bijection DEF ExistsBijection
<1>7. Cardinality(own) <= Cardinality(PutsMade)
  BY <1>3, FS_Subset DEF UploadInv, EventsReal
<1>8. Cardinality(PutsMade) \in Nat
  BY FS_CardinalityType DEF UploadInv, EventsReal
<1>9. QED
  BY <1>1, <1>6, <1>7, <1>8
\* A PUT adds its event, and no handler notices.
LEMMA PutStep ==
    ASSUME UploadInv, NEW k \in Keys, Put(k)
    PROVE  UploadInv'
<1> DEFINE p == <<k, object[k] + 1>>
<1>1. /\ object' = [object EXCEPT ![k] = @ + 1] /\ ready' = ready \cup {p}
      /\ UNCHANGED <<request, status, last, fileVars, unacked, acked, dead, slot, worker, askVars, outages>>
      /\ Cardinality(PutsMade) < MaxPuts
  BY DEF Put, PutsMade
<1>2. object \in [Keys -> 0..MaxPuts] /\ MaxPuts \in Nat /\ object[k] \in 0..MaxPuts
  BY UploadAssumption DEF UploadInv, TypeOK
<1>3. object[k] + 1 \in 1..MaxPuts
  BY <1>1, <1>2, PutsBounded
<1>4. p \in Puts
  BY <1>3 DEF Puts
<1>5. object' \in [Keys -> 0..MaxPuts] /\ object'[k] = object[k] + 1
      /\ \A j \in Keys \ {k} : object'[j] = object[j]
  BY <1>1, <1>2, <1>3
<1>6. PutsMade' = PutsMade \cup {p}
  <2>1. \A q \in Puts : q[1] # k => (q \in PutsMade' <=> q \in PutsMade)
    BY <1>5 DEF PutsMade, Puts
  <2>2. \A q \in Puts : q[1] = k => (q \in PutsMade' <=> q \in PutsMade \/ q[2] = object[k] + 1)
    <3>1. SUFFICES ASSUME NEW q \in Puts, q[1] = k
                   PROVE  q[2] <= object'[k] <=> q[2] <= object[k] \/ q[2] = object[k] + 1
      BY DEF PutsMade
    <3>2. q[2] \in 1..MaxPuts
      BY DEF Puts
    <3>3. QED
      BY <1>2, <1>5, <3>2
  <2>3. \A q \in Puts : q = p <=> q[1] = k /\ q[2] = object[k] + 1
    BY DEF Puts
  <2>4. PutsMade \subseteq Puts /\ PutsMade' \subseteq Puts
    BY DEF PutsMade, Puts
  <2> HIDE DEF p
  <2>5. QED
    BY <1>4, <2>1, <2>2, <2>3, <2>4
<1> HIDE DEF p
<1>7. TypeOK'
  BY <1>1, <1>4, <1>5 DEF UploadInv, TypeOK, Puts, fileVars, askVars
<1>8. EventsReal'
  <2>1. IsFiniteSet(PutsMade')
    BY <1>6, FS_AddElement DEF UploadInv, EventsReal
  <2>2. QED
    BY <1>1, <1>6, <2>1 DEF UploadInv, EventsReal
<1>9. FilesOfKey' /\ VideosKept' /\ SuccessIsRecorded' /\ DrainingIsOutage'
  BY <1>1 DEF UploadInv, FilesOfKey, OfKey, VideosKept, SuccessIsRecorded, Recorded, KeyOf,
              DrainingIsOutage, fileVars, askVars
<1>10. AckedIsRecorded' /\ NoFileLeft' /\ ReadyHasVideo' /\ VideoIsOwn'
  BY <1>1 DEF UploadInv, AckedIsRecorded, NoFileLeft, Using, KeyOf, ReadyHasVideo, VideoIsOwn,
              fileVars, askVars
<1>11. QED
  BY <1>7, <1>8, <1>9, <1>10 DEF UploadInv

-----------------------------------------------------------------------------
(* The worker process.                                                     *)

\* A stopped worker's events go back to the queue; its files stay where they are.
LEMMA StopStep ==
    ASSUME UploadInv, Crash \/ Exit
    PROVE  UploadInv'
<1>1. /\ worker' = "down" /\ ready' = ready \cup ({unacked[s] : s \in Slots} \ {Nothing})
      /\ unacked' = [s \in Slots |-> Nothing] /\ slot' = [s \in Slots |-> Idle]
      /\ UNCHANGED <<uploadVars, status, last, fileVars, acked, dead, askVars>>
  BY DEF Crash, Exit, Stop
<1>2. outages' \in 0..MaxOutages /\ outages' > 0
  <2>1. outages \in 0..MaxOutages /\ MaxOutages \in Nat
    BY UploadAssumption DEF UploadInv, TypeOK
  <2>2. CASE Crash
    BY <2>1, <2>2 DEF Crash
  <2>3. CASE Exit
    BY <2>1, <2>3 DEF Exit, UploadInv, DrainingIsOutage
  <2>4. QED
    BY <2>2, <2>3
<1>3. PutsMade' = PutsMade /\ PutsMade \subseteq Puts
  BY <1>1 DEF PutsMade, uploadVars
<1>4. ready' \subseteq PutsMade
  <2>1. \A s \in Slots : unacked[s] # Nothing => unacked[s] \in PutsMade
    BY DEF UploadInv, EventsReal
  <2>2. QED
    BY <1>1, <2>1 DEF UploadInv, EventsReal
<1>5. \A s \in Slots : slot'[s] = Idle /\ slot'[s].pc = "idle" /\ unacked'[s] = Nothing
  BY <1>1 DEF Idle
<1>6. TypeOK'
  <2>1. slot' \in [Slots -> SlotRecs] /\ unacked' \in [Slots -> Puts \cup {Nothing}]
    BY <1>1, IdleRec
  <2>2. QED
    BY <1>1, <1>2, <1>3, <1>4, <2>1 DEF UploadInv, TypeOK, SlotRecs, uploadVars, fileVars, askVars
<1>7. EventsReal'
  BY <1>3, <1>4, <1>5 DEF UploadInv, EventsReal
<1>8. FilesOfKey' /\ VideosKept'
  BY <1>1, <1>5 DEF UploadInv, FilesOfKey, OfKey, VideosKept, fileVars
<1>9. SuccessIsRecorded' /\ AckedIsRecorded'
  BY <1>1, <1>5 DEF UploadInv, SuccessIsRecorded, AckedIsRecorded, Recorded, fileVars, askVars
<1>10. DrainingIsOutage' /\ NoFileLeft' /\ ReadyHasVideo' /\ VideoIsOwn'
  BY <1>1, <1>2 DEF UploadInv, DrainingIsOutage, NoFileLeft, ReadyHasVideo, VideoIsOwn,
                    fileVars, askVars
<1>11. QED
  BY <1>6, <1>7, <1>8, <1>9, <1>10 DEF UploadInv

\* SIGTERM and Start change the worker's state only.
LEMMA WorkerStep ==
    ASSUME UploadInv, Sigterm \/ Start
    PROVE  UploadInv'
<1>1. UNCHANGED <<uploadVars, status, last, fileVars, queueVars, slot, askVars>>
  BY DEF Sigterm, Start
<1>2. /\ worker' \in {"up", "draining"} /\ outages' \in {outages, outages + 1}
      /\ outages' \in 0..MaxOutages /\ (worker' = "draining" => outages' > 0)
  BY UploadAssumption DEF Sigterm, Start, UploadInv, TypeOK
<1>3. TypeOK'
  BY <1>1, <1>2 DEF UploadInv, TypeOK, uploadVars, fileVars, queueVars, askVars
<1>4. EventsReal' /\ FilesOfKey' /\ VideosKept' /\ DrainingIsOutage'
  BY <1>1, <1>2 DEF UploadInv, EventsReal, PutsMade, FilesOfKey, OfKey, VideosKept, KeyOf,
                    DrainingIsOutage, uploadVars, fileVars, queueVars
<1>5. SuccessIsRecorded' /\ AckedIsRecorded' /\ ReadyHasVideo' /\ VideoIsOwn'
  BY <1>1 DEF UploadInv, SuccessIsRecorded, Recorded, KeyOf, AckedIsRecorded, ReadyHasVideo,
              VideoIsOwn, fileVars, queueVars, askVars
<1>6. NoFileLeft'
  <2>1. outages' = 0 => outages = 0
    BY <1>2, UploadAssumption DEF UploadInv, TypeOK
  <2>2. QED
    BY <1>1, <2>1 DEF UploadInv, NoFileLeft, Using, KeyOf, fileVars
<1>7. QED
  BY <1>3, <1>4, <1>5, <1>6 DEF UploadInv

-----------------------------------------------------------------------------
(* The theorems.                                                           *)

LEMMA Initial == Init => UploadInv
<1> SUFFICES ASSUME Init PROVE UploadInv
  OBVIOUS
<1>1. TypeOK
  BY UploadAssumption, IdleRec DEF Init, TypeOK, SlotRecs, Statuses, NoFiles
<1>2. EventsReal
  <2>1. PutsMade = {}
    BY DEF Init, PutsMade, Puts
  <2>2. QED
    BY <2>1, FS_EmptySet DEF Init, EventsReal, Idle
<1>3. FilesOfKey /\ VideosKept /\ SuccessIsRecorded /\ DrainingIsOutage
  BY DEF Init, FilesOfKey, OfKey, NoFiles, VideosKept, SuccessIsRecorded, Idle, DrainingIsOutage
<1>4. AckedIsRecorded /\ NoFileLeft /\ ReadyHasVideo /\ VideoIsOwn
  BY DEF Init, AckedIsRecorded, NoFileLeft, ReadyHasVideo, VideoIsOwn
<1>5. QED
  BY <1>1, <1>2, <1>3, <1>4 DEF UploadInv

LEMMA Inductive == UploadInv /\ [Next]_vars => UploadInv'
<1> SUFFICES ASSUME UploadInv, [Next]_vars PROVE UploadInv'
  OBVIOUS
<1>1. ASSUME NEW k \in Keys, Upload(k) \/ Put(k) \/ Status(k) \/ LastVideo(k) \/ Expire(k)
      PROVE  UploadInv'
  BY <1>1, UploadStep, PutStep, StatusStep, LastVideoStep
<1>2. ASSUME NEW s \in Slots, Deliver(s) \/ Handle(s)
      PROVE  UploadInv'
  BY <1>2, DeliverStep, SetStatusStep, PreProcessStep, SaveRowStep, NackStep, AckStep, SetOkStep
     DEF Handle
<1>3. CASE Crash \/ Sigterm \/ Exit \/ Start
  BY <1>3, StopStep, WorkerStep
<1>4. CASE UNCHANGED vars
  <2> USE <1>4 DEF vars
  <2>1. TypeOK' /\ EventsReal' /\ FilesOfKey' /\ VideosKept'
    BY DEF UploadInv, TypeOK, EventsReal, PutsMade, FilesOfKey, OfKey, VideosKept, KeyOf
  <2>2. SuccessIsRecorded' /\ DrainingIsOutage' /\ AckedIsRecorded'
    BY DEF UploadInv, SuccessIsRecorded, Recorded, KeyOf, DrainingIsOutage, AckedIsRecorded
  <2>3. NoFileLeft' /\ ReadyHasVideo' /\ VideoIsOwn'
    BY DEF UploadInv, NoFileLeft, Using, KeyOf, ReadyHasVideo, VideoIsOwn
  <2>4. QED
    BY <2>1, <2>2, <2>3 DEF UploadInv
<1>5. QED
  BY <1>1, <1>2, <1>3, <1>4 DEF Next

LEMMA UploadInvariant == Spec => []UploadInv
<1>1. Init => UploadInv
  BY Initial
<1>2. UploadInv /\ [Next]_vars => UploadInv'
  BY Inductive
<1>3. QED
  BY <1>1, <1>2, PTL DEF Spec

\* An event is acked (processing_worker.go) only once its user's row names a stored video, and
\* no scratch file outlives the handlers of its key (processor_repo.go), whatever the number of
\* keys, slots, PUTs and failures, as long as no worker was stopped.
THEOREM RecordsAgreeAlways == Spec => []RecordsAgree
<1>1. UploadInv => RecordsAgree
  BY DEF UploadInv, RecordsAgree
<1>2. QED
  BY <1>1, UploadInvariant, PTL

\* A client that Status (internal/app/media/status.go) found "ok" for is never told that it has
\* no video, although Redis and last_upload are written and read in separate calls.
THEOREM ReadyHasVideoAlways == Spec => []ReadyHasVideo
<1>1. UploadInv => ReadyHasVideo
  BY DEF UploadInv
<1>2. QED
  BY <1>1, UploadInvariant, PTL

\* The video a client is given was made of an upload of its own, although handlers of one key
\* overwrite and remove each other's scratch files (processor_repo.go).
THEOREM VideoIsOwnAlways == Spec => []VideoIsOwn
<1>1. UploadInv => VideoIsOwn
  BY DEF UploadInv
<1>2. QED
  BY <1>1, UploadInvariant, PTL
=============================================================================
