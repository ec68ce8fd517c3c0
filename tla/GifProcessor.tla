---------------------------- MODULE GifProcessor ----------------------------
(***************************************************************************)
(* Inside processor.Process: the scratch files of a conversion.            *)
(*                                                                         *)
(* Conversion takes the call of processor.Process for one step.  It is     *)
(* seven (internal/infra/ffmpeg/processor_repo.go): a download, two ffmpeg *)
(* passes, a thumbnail and two uploads hand each other files in the        *)
(* temporary directory, and four deferred removals end it.  The files are  *)
(* named after the video, not the job: two slots converting one video, or  *)
(* a redelivery after a crash, meet the same files.                        *)
(***************************************************************************)
EXTENDS Integers, FiniteSets

CONSTANTS
    Jobs,
    Videos,      \* keys of stored videos
    VideoOf,     \* Jobs -> Videos: the upload_key of each request
    Slots,       \* the convert worker's goroutines
    Nothing,
    Faults,      \* "ffmpeg": MinIO or ffmpeg fails; "crash"
    MaxCrashes

ASSUME ProcessorAssumption ==
    /\ VideoOf \in [Jobs -> Videos]
    /\ Nothing \notin Jobs
    /\ Faults \subseteq {"ffmpeg", "crash"}
    /\ MaxCrashes \in Nat

VARIABLES
    job,      \* where each job's message is
    slot,     \* what each slot runs
    file,     \* the scratch files of each video
    stored,   \* gifs in the storage bucket
    crashes

vars == <<job, slot, file, stored, crashes>>

Pcs == {"idle", "download", "palette", "gif", "thumb", "uploadGif", "uploadThumb"}

\* A gif is what one job's parameters cut, in the colours of one palette.
Gif(clip, palette) == [clip |-> clip, palette |-> palette]
Gifs == [clip : Jobs, palette : Jobs]

NoFiles == [input |-> FALSE, palette |-> Nothing, gif |-> Nothing, thumb |-> Nothing]
Idle    == [pc |-> "idle", job |-> Nothing]

Init ==
    /\ job = [j \in Jobs |-> "new"]
    /\ slot = [s \in Slots |-> Idle]
    /\ file = [v \in Videos |-> NoFiles]
    /\ stored = {}
    /\ crashes = 0

\* Mutant: fixed file names.
Path_Fixed(j) == CHOOSE v \in Videos : TRUE

\* input_<key>.mp4, <key>_palette.png, <key>_output.gif, thumb_<key>.jpg
Path(j) == VideoOf[j]

Files(s) == file[Path(slot[s].job)]
Goto(s, next) == slot' = [slot EXCEPT ![s].pc = next]
Write(s, kind, content) == file' = [file EXCEPT ![Path(slot[s].job)][kind] = content]

\* A call works, writes its file and is followed by the next.
Make(s, kind, content, next) ==
    /\ Write(s, kind, content)
    /\ Goto(s, next)
    /\ UNCHANGED <<job, stored>>

\* Process returns, the deferred removals run and the delivery is settled.
Leave(s, outcome) ==
    /\ file' = [file EXCEPT ![Path(slot[s].job)] = NoFiles]
    /\ job' = [job EXCEPT ![slot[s].job] = outcome]
    /\ slot' = [slot EXCEPT ![s] = Idle]

\* A call fails: what it needs is gone, or by itself.
Fail(s, missing) ==
    /\ missing \/ "ffmpeg" \in Faults
    /\ Leave(s, "failed")
    /\ UNCHANGED stored

-----------------------------------------------------------------------------

Submit(j) ==
    /\ job[j] = "new"
    /\ job' = [job EXCEPT ![j] = "waiting"]
    /\ UNCHANGED <<slot, file, stored, crashes>>

Deliver(s) ==
    /\ slot[s].pc = "idle"
    /\ \E j \in Jobs :
          /\ job[j] = "waiting"
          /\ job' = [job EXCEPT ![j] = "held"]
          /\ slot' = [slot EXCEPT ![s] = [pc |-> "download", job |-> j]]
    /\ UNCHANGED <<file, stored, crashes>>

DownloadLocal(s) ==
    /\ slot[s].pc = "download"
    /\ \/ Make(s, "input", TRUE, "palette")
       \/ Fail(s, FALSE)
    /\ UNCHANGED crashes

\* palettegen over the job's clip; -y
PalettePass(s) ==
    /\ slot[s].pc = "palette"
    /\ \/ Files(s).input /\ Make(s, "palette", slot[s].job, "gif")
       \/ Fail(s, ~Files(s).input)
    /\ UNCHANGED crashes

\* paletteuse, with whatever palette the file holds; -y
GifPass(s) ==
    /\ slot[s].pc = "gif"
    /\ \/ /\ Files(s).input /\ Files(s).palette # Nothing
          /\ Make(s, "gif", Gif(slot[s].job, Files(s).palette), "thumb")
       \/ Fail(s, ~Files(s).input \/ Files(s).palette = Nothing)
    /\ UNCHANGED crashes

\* No -y: ffmpeg refuses to overwrite a thumbnail that is there.
ThumbPass(s) ==
    /\ slot[s].pc = "thumb"
    /\ \/ /\ Files(s).input /\ Files(s).thumb = Nothing
          /\ Make(s, "thumb", slot[s].job, "uploadGif")
       \/ Fail(s, ~Files(s).input \/ Files(s).thumb # Nothing)
    /\ UNCHANGED crashes

\* Uploaded under a fresh random key.
UploadGif(s) ==
    /\ slot[s].pc = "uploadGif"
    /\ \/ /\ Files(s).gif # Nothing
          /\ stored' = stored \cup {[of |-> slot[s].job, gif |-> Files(s).gif]}
          /\ Goto(s, "uploadThumb")
          /\ UNCHANGED <<job, file>>
       \/ Fail(s, Files(s).gif = Nothing)
    /\ UNCHANGED crashes

UploadThumb(s) ==
    /\ slot[s].pc = "uploadThumb"
    /\ \/ Files(s).thumb # Nothing /\ Leave(s, "done") /\ UNCHANGED stored
       \/ Fail(s, Files(s).thumb = Nothing)
    /\ UNCHANGED crashes

Process(s) ==
    \/ DownloadLocal(s) \/ PalettePass(s) \/ GifPass(s)
    \/ ThumbPass(s) \/ UploadGif(s) \/ UploadThumb(s)

\* Mutant: the messages were acked on delivery.
Crash_Drops ==
    /\ "crash" \in Faults /\ crashes < MaxCrashes
    /\ crashes' = crashes + 1
    /\ slot' = [s \in Slots |-> Idle]
    /\ UNCHANGED <<job, file, stored>>

\* The worker dies and is restarted: its deliveries return, its files stay.
Crash ==
    /\ "crash" \in Faults /\ crashes < MaxCrashes
    /\ \E s \in Slots : slot[s].pc # "idle"
    /\ crashes' = crashes + 1
    /\ slot' = [s \in Slots |-> Idle]
    /\ job' = [j \in Jobs |-> IF job[j] = "held" THEN "waiting" ELSE job[j]]
    /\ UNCHANGED <<file, stored>>

Next ==
    \/ \E j \in Jobs : Submit(j)
    \/ \E s \in Slots : Deliver(s) \/ Process(s)
    \/ Crash

Spec == Init /\ [][Next]_vars

Fairness == \A s \in Slots : WF_vars(Deliver(s)) /\ WF_vars(Process(s))

FairSpec == Spec /\ Fairness

-----------------------------------------------------------------------------
(* What must hold.                                                         *)

TypeOK ==
    /\ job \in [Jobs -> {"new", "waiting", "held", "done", "failed"}]
    /\ slot \in [Slots -> [pc : Pcs, job : Jobs \cup {Nothing}]]
    /\ file \in [Videos -> [input : BOOLEAN, palette : Jobs \cup {Nothing},
                            gif : Gifs \cup {Nothing}, thumb : Jobs \cup {Nothing}]]
    /\ stored \subseteq [of : Jobs, gif : Gifs]
    /\ crashes \in 0..MaxCrashes

\* A video only one job converts: its gif is cut with the job's own parameters, in
\* its own palette, whatever files a handler that died has left.
LoneGifIsItsOwn ==
    \A g \in stored :
        (\A j \in Jobs : VideoOf[j] = VideoOf[g.of] => j = g.of)
            => g.gif.clip = g.of /\ g.gif.palette = g.of

\* Jobs of one video get gifs of that video, also when they share its files.
GifIsOfItsVideo ==
    \A g \in stored : VideoOf[g.gif.clip] = VideoOf[g.of] /\ VideoOf[g.gif.palette] = VideoOf[g.of]

\* A job that is done has a stored gif, whoever removed whose files.
DoneHasGif == \A j \in Jobs : job[j] = "done" => \E g \in stored : g.of = j

\* With no crash, no scratch file outlives the handlers of its video.
NoFileLeft ==
    \A v \in Videos :
        crashes = 0 /\ (\A s \in Slots : slot[s].pc # "idle" => VideoOf[slot[s].job] # v) => file[v] = NoFiles

\* Every submitted job ends, through crashes.
JobsEnd == \A j \in Jobs : job[j] = "waiting" ~> job[j] \in {"done", "failed"}

\* What is stored agrees with the jobs, and the scratch files with the handlers.
GifsAgree == TypeOK /\ LoneGifIsItsOwn /\ GifIsOfItsVideo /\ DoneHasGif /\ NoFileLeft
=============================================================================
