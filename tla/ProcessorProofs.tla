--------------------------- MODULE ProcessorProofs ---------------------------
(***************************************************************************)
(* Theorems about GifProcessor, for any jobs, videos, slots and faults:    *)
(* handlers that share or inherit scratch files store gifs of their video, *)
(* a job is done only with its gif stored, and handlers leave no file.     *)
(***************************************************************************)
EXTENDS GifProcessor, TLAPS

-----------------------------------------------------------------------------
(* The inductive invariant.                                                *)

At(s, j) == slot[s].pc # "idle" /\ slot[s].job = j

\* A slot at work has a job whose message it holds; no job is in two slots.
SlotsHold ==
    /\ \A s \in Slots : slot[s].pc # "idle" => slot[s].job \in Jobs /\ job[slot[s].job] = "held"
    /\ \A s, t \in Slots, j \in Jobs : At(s, j) /\ At(t, j) => s = t

\* Whoever wrote a file of a video converts that video.
FilesOfVideo ==
    \A v \in Videos :
        /\ file[v].palette # Nothing => VideoOf[file[v].palette] = v
        /\ file[v].gif # Nothing => VideoOf[file[v].gif.clip] = v /\ VideoOf[file[v].gif.palette] = v

\* Past the upload of its gif, a handler has it in the bucket.
UploadedIsStored ==
    \A s \in Slots : slot[s].pc = "uploadThumb" => \E g \in stored : g.of = slot[s].job

ProcessorInv ==
    /\ TypeOK /\ SlotsHold /\ FilesOfVideo /\ UploadedIsStored
    /\ GifIsOfItsVideo /\ DoneHasGif /\ NoFileLeft
-----------------------------------------------------------------------------
(* What the calls of a handler have in common.                             *)

FileRecs == [input : BOOLEAN, palette : Jobs \cup {Nothing}, gif : Gifs \cup {Nothing},
             thumb : Jobs \cup {Nothing}]
SlotRecs == [pc : Pcs, job : Jobs \cup {Nothing}]
JobStates == {"new", "waiting", "held", "done", "failed"}

\* A slot at work, its job and its video.
LEMMA Working ==
    ASSUME ProcessorInv, NEW s \in Slots, slot[s].pc # "idle"
    PROVE  /\ slot[s] \in SlotRecs /\ slot[s].job \in Jobs /\ job[slot[s].job] = "held"
           /\ Path(slot[s].job) \in Videos /\ Files(s) \in FileRecs
BY ProcessorAssumption DEF ProcessorInv, TypeOK, SlotsHold, SlotRecs, FileRecs, Path, Files

\* The next call of the same handler.
LEMMA GoesOn ==
    ASSUME ProcessorInv, NEW s \in Slots, slot[s].pc # "idle",
           NEW next \in Pcs \ {"idle"}, Goto(s, next), UNCHANGED job
    PROVE  /\ slot' \in [Slots -> SlotRecs] /\ SlotsHold'
           /\ slot'[s].pc = next
           /\ \A t \in Slots : slot'[t].job = slot[t].job
           /\ \A t \in Slots \ {s} : slot'[t] = slot[t]
<1>1. slot \in [Slots -> SlotRecs]
  BY DEF ProcessorInv, TypeOK, SlotRecs
<1>2. slot' = [slot EXCEPT ![s] = [slot[s] EXCEPT !.pc = next]]
  BY DEF Goto
<1>3. /\ [slot[s] EXCEPT !.pc = next] \in SlotRecs
      /\ [slot[s] EXCEPT !.pc = next].pc = next /\ [slot[s] EXCEPT !.pc = next].job = slot[s].job
  BY <1>1 DEF SlotRecs
<1>4. /\ slot' \in [Slots -> SlotRecs] /\ slot'[s].pc = next /\ slot'[s].job = slot[s].job
      /\ \A t \in Slots \ {s} : slot'[t] = slot[t]
  BY <1>1, <1>2, <1>3
<1>5. \A t \in Slots : (slot'[t].pc # "idle" <=> slot[t].pc # "idle") /\ slot'[t].job = slot[t].job
  BY <1>4
<1>6. SlotsHold'
  BY <1>5 DEF ProcessorInv, SlotsHold, At
<1>7. QED
  BY <1>4, <1>5, <1>6

\* One file of the handler's video is written.
LEMMA Written ==
    ASSUME ProcessorInv, NEW s \in Slots, slot[s].pc # "idle",
           NEW kind \in {"input", "palette", "gif", "thumb"}, NEW content, Write(s, kind, content),
           [Files(s) EXCEPT ![kind] = content] \in FileRecs
    PROVE  /\ file' \in [Videos -> FileRecs]
           /\ file'[Path(slot[s].job)] = [Files(s) EXCEPT ![kind] = content]
           /\ \A v \in Videos \ {Path(slot[s].job)} : file'[v] = file[v]
<1>1. file \in [Videos -> FileRecs] /\ Path(slot[s].job) \in Videos
  BY Working DEF ProcessorInv, TypeOK, FileRecs
<1>2. file' = [file EXCEPT ![Path(slot[s].job)] = [Files(s) EXCEPT ![kind] = content]]
  BY DEF Write, Files
<1>3. QED
  BY <1>1, <1>2

\* Somebody at work on a video: its files need not be gone.
LEMMA FilesInUse ==
    ASSUME ProcessorInv, NEW s \in Slots, slot[s].pc # "idle", slot'[s].pc # "idle",
           \A t \in Slots : slot'[t].job = slot[t].job,
           \A t \in Slots \ {s} : slot'[t] = slot[t],
           \A v \in Videos \ {Path(slot[s].job)} : file'[v] = file[v],
           UNCHANGED crashes
    PROVE  NoFileLeft'
BY DEF ProcessorInv, NoFileLeft, Path
\* Process returns: the deferred removals take the files of its own video.
LEMMA Leaves ==
    ASSUME ProcessorInv, NEW s \in Slots, slot[s].pc # "idle",
           NEW outcome \in {"done", "failed"}, Leave(s, outcome),
           outcome = "done" => slot[s].pc = "uploadThumb",
           UNCHANGED <<stored, crashes>>
    PROVE  ProcessorInv'
<1> DEFINE j == slot[s].job
<1>1. /\ j \in Jobs /\ VideoOf[j] \in Videos
      /\ slot \in [Slots -> SlotRecs] /\ job \in [Jobs -> JobStates] /\ file \in [Videos -> FileRecs]
  BY Working DEF ProcessorInv, TypeOK, SlotRecs, JobStates, FileRecs, Path
<1>2. /\ slot'[s] = Idle /\ \A t \in Slots \ {s} : slot'[t] = slot[t]
      /\ job'[j] = outcome /\ \A i \in Jobs \ {j} : job'[i] = job[i]
      /\ file'[VideoOf[j]] = NoFiles /\ \A v \in Videos \ {VideoOf[j]} : file'[v] = file[v]
  BY <1>1 DEF Leave, Path
<1>3. TypeOK'
  <2>1. Idle \in SlotRecs /\ NoFiles \in FileRecs /\ outcome \in JobStates
    BY DEF Idle, SlotRecs, Pcs, NoFiles, FileRecs, JobStates
  <2>2. slot' \in [Slots -> SlotRecs] /\ job' \in [Jobs -> JobStates] /\ file' \in [Videos -> FileRecs]
    BY <1>1, <2>1 DEF Leave, Path
  <2>3. QED
    BY <2>2 DEF ProcessorInv, TypeOK, SlotRecs, JobStates, FileRecs
<1>4. SlotsHold'
  <2>1. \A t \in Slots : slot'[t].pc # "idle" => t # s /\ slot[t].pc # "idle" /\ slot'[t].job = slot[t].job
    BY <1>2 DEF Idle
  <2>2. \A t \in Slots \ {s} : slot[t].pc # "idle" => slot[t].job \in Jobs \ {j}
    BY <1>1 DEF ProcessorInv, SlotsHold, At
  <2>3. \A t \in Slots : slot'[t].pc # "idle" => slot'[t].job \in Jobs /\ job'[slot'[t].job] = "held"
    BY <1>2, <2>1, <2>2 DEF ProcessorInv, SlotsHold
  <2>4. QED
    BY <2>1, <2>3 DEF ProcessorInv, SlotsHold, At
<1>5. FilesOfVideo'
  BY <1>2 DEF ProcessorInv, FilesOfVideo, NoFiles
<1>6. UploadedIsStored'
  BY <1>2 DEF ProcessorInv, UploadedIsStored, Idle
<1>7. GifIsOfItsVideo'
  BY DEF ProcessorInv, GifIsOfItsVideo
<1>8. DoneHasGif'
  BY <1>2 DEF ProcessorInv, DoneHasGif, UploadedIsStored
<1>9. NoFileLeft'
  BY <1>2 DEF ProcessorInv, NoFileLeft
<1>10. QED
  BY <1>3, <1>4, <1>5, <1>6, <1>7, <1>8, <1>9 DEF ProcessorInv

\* A call that writes a file and goes on, when the file is of the handler's video.
LEMMA Makes ==
    ASSUME ProcessorInv, NEW s \in Slots, slot[s].pc # "idle",
           NEW kind \in {"input", "palette", "gif", "thumb"}, NEW content,
           NEW next \in Pcs \ {"idle", "uploadThumb"}, Make(s, kind, content, next), UNCHANGED crashes,
           LET f == [Files(s) EXCEPT ![kind] = content]  v == Path(slot[s].job)
           IN  /\ f \in FileRecs
               /\ f.palette # Nothing => VideoOf[f.palette] = v
               /\ f.gif # Nothing => VideoOf[f.gif.clip] = v /\ VideoOf[f.gif.palette] = v
    PROVE  ProcessorInv'
<1> DEFINE f == [Files(s) EXCEPT ![kind] = content]
           v == Path(slot[s].job)
<1>1. /\ file' \in [Videos -> FileRecs] /\ file'[v] = f
      /\ \A w \in Videos \ {v} : file'[w] = file[w]
  BY Written DEF Make
<1>2. /\ slot' \in [Slots -> SlotRecs] /\ SlotsHold' /\ slot'[s].pc = next
      /\ \A t \in Slots : slot'[t].job = slot[t].job
      /\ \A t \in Slots \ {s} : slot'[t] = slot[t]
  BY GoesOn DEF Make
<1> HIDE DEF f
<1>3. TypeOK'
  BY <1>1, <1>2 DEF ProcessorInv, TypeOK, Make, SlotRecs, FileRecs
<1>4. FilesOfVideo'
  BY <1>1 DEF ProcessorInv, FilesOfVideo, f
<1>5. UploadedIsStored'
  BY <1>2 DEF ProcessorInv, UploadedIsStored, Make
<1>6. GifIsOfItsVideo' /\ DoneHasGif'
  BY DEF ProcessorInv, GifIsOfItsVideo, DoneHasGif, Make
<1>7. NoFileLeft'
  BY <1>1, <1>2, FilesInUse
<1>8. QED
  BY <1>2, <1>3, <1>4, <1>5, <1>6, <1>7 DEF ProcessorInv
-----------------------------------------------------------------------------
(* The steps.                                                              *)

\* Any call may end its handler.
LEMMA FailStep ==
    ASSUME ProcessorInv, NEW s \in Slots, slot[s].pc # "idle", NEW missing, Fail(s, missing), UNCHANGED crashes
    PROVE  ProcessorInv'
BY Leaves DEF Fail

\* The calls that write a scratch file.
LEMMA WritingSteps ==
    ASSUME ProcessorInv, NEW s \in Slots,
           DownloadLocal(s) \/ PalettePass(s) \/ GifPass(s) \/ ThumbPass(s)
    PROVE  ProcessorInv'
<1> DEFINE j == slot[s].job
<1>1. slot[s].pc # "idle" /\ UNCHANGED crashes
  BY DEF DownloadLocal, PalettePass, GifPass, ThumbPass
<1>2. ASSUME NEW missing, Fail(s, missing) PROVE ProcessorInv'
  BY <1>1, <1>2, FailStep
<1>3. /\ j \in Jobs /\ Files(s) \in FileRecs
      /\ Files(s).palette # Nothing => VideoOf[Files(s).palette] = Path(j)
      /\ Files(s).gif # Nothing => VideoOf[Files(s).gif.clip] = Path(j) /\ VideoOf[Files(s).gif.palette] = Path(j)
  BY <1>1, Working DEF ProcessorInv, FilesOfVideo, Files
<1>4. CASE Make(s, "input", TRUE, "palette")
  BY <1>1, <1>3, <1>4, Makes DEF FileRecs, Pcs
<1>5. CASE Make(s, "palette", j, "gif")
  BY <1>1, <1>3, <1>5, Makes DEF FileRecs, Pcs, Path
<1>6. CASE Files(s).palette # Nothing /\ Make(s, "gif", Gif(j, Files(s).palette), "thumb")
  <2> DEFINE g == Gif(j, Files(s).palette)
  <2>1. g \in Gifs /\ VideoOf[g.clip] = Path(j) /\ VideoOf[g.palette] = Path(j)
    BY <1>3, <1>6 DEF Gif, Gifs, FileRecs, Path
  <2> HIDE DEF g
  <2>2. Make(s, "gif", g, "thumb")
    BY <1>6 DEF g
  <2>3. QED
    BY <1>1, <1>3, <2>1, <2>2, Makes DEF FileRecs, Pcs
<1>7. CASE Make(s, "thumb", j, "uploadGif")
  BY <1>1, <1>3, <1>7, Makes DEF FileRecs, Pcs
<1>8. QED
  BY <1>2, <1>4, <1>5, <1>6, <1>7 DEF DownloadLocal, PalettePass, GifPass, ThumbPass

\* The gif that is uploaded is the one the file holds now.
LEMMA UploadSteps ==
    ASSUME ProcessorInv, NEW s \in Slots, UploadGif(s) \/ UploadThumb(s)
    PROVE  ProcessorInv'
<1> DEFINE g == [of |-> slot[s].job, gif |-> Files(s).gif]
<1>1. slot[s].pc # "idle" /\ UNCHANGED crashes
  BY DEF UploadGif, UploadThumb
<1>2. ASSUME NEW missing, Fail(s, missing) PROVE ProcessorInv'
  BY <1>1, <1>2, FailStep
<1>3. ASSUME UploadThumb(s), Leave(s, "done"), UNCHANGED stored PROVE ProcessorInv'
  BY <1>1, <1>3, Leaves DEF UploadThumb
<1>4. ASSUME UploadGif(s), Files(s).gif # Nothing, stored' = stored \cup {g},
             Goto(s, "uploadThumb"), UNCHANGED <<job, file>>
      PROVE  ProcessorInv'
  <2>1. /\ slot' \in [Slots -> SlotRecs] /\ SlotsHold' /\ slot'[s].pc = "uploadThumb"
        /\ \A t \in Slots : slot'[t].job = slot[t].job
        /\ \A t \in Slots \ {s} : slot'[t] = slot[t]
    BY <1>1, <1>4, GoesOn DEF Pcs
  <2>2. slot[s].job \in Jobs /\ Path(slot[s].job) \in Videos /\ Files(s) \in FileRecs
    BY <1>1, Working
  <2>3. g \in [of : Jobs, gif : Gifs] /\ VideoOf[g.gif.clip] = VideoOf[g.of]
        /\ VideoOf[g.gif.palette] = VideoOf[g.of]
    BY <1>4, <2>2 DEF FileRecs, ProcessorInv, FilesOfVideo, Files, Path
  <2>4. TypeOK'
    BY <1>1, <1>4, <2>1, <2>3 DEF ProcessorInv, TypeOK, SlotRecs
  <2>5. UploadedIsStored'
    <3>1. g \in stored' /\ g.of = slot'[s].job
      BY <1>4, <2>1
    <3>2. ASSUME NEW t \in Slots \ {s}, slot'[t].pc = "uploadThumb"
          PROVE  \E h \in stored' : h.of = slot'[t].job
      BY <1>4, <2>1, <3>2 DEF ProcessorInv, UploadedIsStored
    <3>3. QED
      BY <3>1, <3>2 DEF UploadedIsStored
  <2>6. GifIsOfItsVideo'
    BY <1>4, <2>3 DEF ProcessorInv, GifIsOfItsVideo
  <2>7. FilesOfVideo' /\ DoneHasGif'
    BY <1>4 DEF ProcessorInv, FilesOfVideo, DoneHasGif
  <2>8. NoFileLeft'
    BY <1>1, <1>4, <2>1, FilesInUse
  <2>9. QED
    BY <2>1, <2>4, <2>5, <2>6, <2>7, <2>8 DEF ProcessorInv
<1>5. QED
  BY <1>2, <1>3, <1>4 DEF UploadGif, UploadThumb

\* A job comes into one slot at a time.
LEMMA DeliverStep ==
    ASSUME ProcessorInv, NEW s \in Slots, Deliver(s)
    PROVE  ProcessorInv'
<1>1. PICK j \in Jobs : /\ job[j] = "waiting"
                        /\ job' = [job EXCEPT ![j] = "held"]
                        /\ slot' = [slot EXCEPT ![s] = [pc |-> "download", job |-> j]]
  BY DEF Deliver
<1>2. /\ slot \in [Slots -> SlotRecs] /\ job \in [Jobs -> JobStates]
      /\ slot[s].pc = "idle" /\ UNCHANGED <<file, stored, crashes>>
  BY DEF Deliver, ProcessorInv, TypeOK, SlotRecs, JobStates
<1>3. /\ slot'[s].pc = "download" /\ slot'[s].job = j /\ \A t \in Slots \ {s} : slot'[t] = slot[t]
      /\ job'[j] = "held" /\ \A i \in Jobs \ {j} : job'[i] = job[i]
  BY <1>1, <1>2
<1>4. TypeOK'
  BY <1>1, <1>2 DEF ProcessorInv, TypeOK, SlotRecs, JobStates, Pcs
<1>5. SlotsHold'
  <2>1. \A t \in Slots \ {s} : slot[t].pc # "idle" => slot[t].job # j
    BY <1>1 DEF ProcessorInv, SlotsHold
  <2>2. QED
    BY <1>2, <1>3, <2>1 DEF ProcessorInv, SlotsHold, At
<1>6. UploadedIsStored'
  BY <1>2, <1>3 DEF ProcessorInv, UploadedIsStored
<1>7. DoneHasGif'
  BY <1>2, <1>3 DEF ProcessorInv, DoneHasGif
<1>8. NoFileLeft'
  BY <1>2, <1>3 DEF ProcessorInv, NoFileLeft
<1>9. QED
  BY <1>2, <1>4, <1>5, <1>6, <1>7, <1>8 DEF ProcessorInv, FilesOfVideo, GifIsOfItsVideo

LEMMA SubmitStep ==
    ASSUME ProcessorInv, NEW j \in Jobs, Submit(j)
    PROVE  ProcessorInv'
<1>1. /\ job \in [Jobs -> JobStates] /\ job[j] = "new" /\ job' = [job EXCEPT ![j] = "waiting"]
      /\ UNCHANGED <<slot, file, stored, crashes>>
  BY DEF Submit, ProcessorInv, TypeOK, JobStates
<1>2. TypeOK'
  BY <1>1 DEF ProcessorInv, TypeOK, JobStates
<1>3. SlotsHold' /\ DoneHasGif'
  BY <1>1 DEF ProcessorInv, SlotsHold, DoneHasGif, At
<1>4. QED
  BY <1>1, <1>2, <1>3 DEF ProcessorInv, FilesOfVideo, UploadedIsStored, GifIsOfItsVideo, NoFileLeft

\* The files stay behind, and so does what is stored.
LEMMA CrashStep ==
    ASSUME ProcessorInv, Crash
    PROVE  ProcessorInv'
<1>1. /\ \A s \in Slots : slot'[s] = Idle
      /\ \A j \in Jobs : job'[j] = "done" <=> job[j] = "done"
      /\ UNCHANGED <<file, stored>> /\ crashes' = crashes + 1 /\ crashes < MaxCrashes
  BY DEF Crash
<1>2. TypeOK' /\ crashes' # 0
  BY <1>1, ProcessorAssumption DEF Crash, ProcessorInv, TypeOK, Idle, Pcs
<1>3. SlotsHold' /\ UploadedIsStored'
  BY <1>1 DEF SlotsHold, UploadedIsStored, At, Idle
<1>4. QED
  BY <1>1, <1>2, <1>3 DEF ProcessorInv, FilesOfVideo, GifIsOfItsVideo, DoneHasGif, NoFileLeft

LEMMA Inductive == Spec => []ProcessorInv
<1>1. Init => ProcessorInv
  BY ProcessorAssumption DEF Init, ProcessorInv, TypeOK, SlotsHold, FilesOfVideo, UploadedIsStored,
     GifIsOfItsVideo, DoneHasGif, NoFileLeft, At, Idle, NoFiles, Pcs
<1>2. ProcessorInv /\ [Next]_vars => ProcessorInv'
  <2> SUFFICES ASSUME ProcessorInv, [Next]_vars PROVE ProcessorInv'
    OBVIOUS
  <2>1. ASSUME NEW j \in Jobs, Submit(j) PROVE ProcessorInv'
    BY <2>1, SubmitStep
  <2>2. ASSUME NEW s \in Slots, Deliver(s) PROVE ProcessorInv'
    BY <2>2, DeliverStep
  <2>3. ASSUME NEW s \in Slots, Process(s) PROVE ProcessorInv'
    BY <2>3, WritingSteps, UploadSteps DEF Process
  <2>4. CASE Crash
    BY <2>4, CrashStep
  <2>5. CASE UNCHANGED vars
    BY <2>5 DEF vars, ProcessorInv, TypeOK, SlotsHold, FilesOfVideo, UploadedIsStored, GifIsOfItsVideo,
       DoneHasGif, NoFileLeft, At
  <2>6. QED
    BY <2>1, <2>2, <2>3, <2>4, <2>5 DEF Next
<1>3. QED
  BY <1>1, <1>2, PTL DEF Spec

\* Whatever files handlers share, overwrite, remove under each other or leave behind when
\* they die: a gif is of the video its job names, of the job itself when no other job
\* converts that video; a job is done only with a stored gif; and without a crash no file
\* outlives the handlers of its video.
THEOREM GifsAgreeAlways == Spec => []GifsAgree
<1>1. ProcessorInv => LoneGifIsItsOwn
  <2> SUFFICES ASSUME ProcessorInv, NEW g \in stored, \A j \in Jobs : VideoOf[j] = VideoOf[g.of] => j = g.of
               PROVE  g.gif.clip = g.of /\ g.gif.palette = g.of
    BY DEF LoneGifIsItsOwn
  <2>1. g.gif.clip \in Jobs /\ g.gif.palette \in Jobs
    BY DEF ProcessorInv, TypeOK, Gifs
  <2>2. QED
    BY <2>1 DEF ProcessorInv, GifIsOfItsVideo
<1>2. ProcessorInv => GifsAgree
  BY <1>1 DEF ProcessorInv, GifsAgree
<1>3. QED
  BY <1>2, Inductive, PTL
=============================================================================
