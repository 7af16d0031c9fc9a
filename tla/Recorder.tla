------------------------------ MODULE Recorder ------------------------------
(***************************************************************************)
(* The record daemon, src/src/record: one main loop that obeys the         *)
(* start/stop commands and does its housekeeping every 500 ms, the video   *)
(* and audio encoder threads that push frames into the open clip, and the  *)
(* thread that polls the SD card into a cache the main loop reads.         *)
(*                                                                         *)
(* The main loop's `pc` names the call it is about to make, and while a    *)
(* recording is being stopped `after` is where it goes on afterwards.      *)
(* Clips are identified by their number (hdz_NNNN); a clip's content is    *)
(* abstracted to whether any footage was written to it, and the free space *)
(* to the three levels the code distinguishes.                             *)
(***************************************************************************)
EXTENDS Integers, FiniteSets

CONSTANTS
  MaxIndex,       \* largest clip number the bounded card directory holds
  MaxTime,        \* modification times are 0..MaxTime; the RTC is not trusted
  MaxDelete,      \* REC_rollMAXdelete, deletion attempts per housekeeping tick
  RootFull,       \* statfs finds less than minDiskSize when no card is mounted
  NoFile,         \* recCtx->ff == NULL
  Cards,          \* what an inserted card may hold: [clips, path, space]
  Params,         \* what record.conf may say when it is loaded: [audio, rolling]
  SlowLog,        \* whether a housekeeping tick may overtake the poller's log write
  Restarts,       \* whether a daemon that is gone is started again
  UserMayDelete,  \* whether the user deletes clips meanwhile
  EncoderMayFail, \* whether vi2venc/ai2aenc prepare and start may fail
  CardMayFail     \* whether a card may turn read-only while mounted

Index == 0..MaxIndex
Time  == 0..MaxTime

(* Free space: below minDiskSize, below the rolling low mark, above both.   *)
Full   == 0
Low    == 1
Ample  == 2
Levels == {Full, Low, Ample}

(* "pulled": the device is gone and its mount lingers. A card that is in    *)
(* the slot and not mounted yet counts as "out": the code treats both alike.*)
Phases  == {"out", "mounted", "pulled"}
Known   == Phases \cup {"unknown"}        \* "unknown": sdContext zeroed
States  == {"Idle", "Run", "Stop"}
Status  == {"Idle", "Run", "DiskUmounted", "DiskPathFailed", "DiskFull",
            "FramesTimeout"}
LoopPc  == {"recv", "check", "clear", "reclaim", "run", "pack"}
MainPc  == LoopPc \cup {"join", "close"}  \* the process lives

ASSUME RecorderAssumption ==
  /\ MaxIndex \in Nat /\ MaxTime \in Nat /\ MaxDelete \in Nat \ {0}
  /\ RootFull \in BOOLEAN
  /\ NoFile \notin 0..MaxIndex
  /\ Cards \subseteq [clips: SUBSET (0..MaxIndex), path: BOOLEAN, space: Levels]
  /\ Params \subseteq [audio: BOOLEAN, rolling: BOOLEAN]
  /\ Params # {}
  /\ SlowLog \in BOOLEAN /\ Restarts \in BOOLEAN /\ UserMayDelete \in BOOLEAN
  /\ EncoderMayFail \in BOOLEAN /\ CardMayFail \in BOOLEAN

VARIABLES
  card,         \* the slot: phase, read-only, record folder exists, free space
  clips,        \* clip numbers in the record folder of the mounted card
  footage,      \* those that hold footage
  mtime,        \* their modification times
  known,        \* history: clips counted, or recorded, since the card went in
  sdc,          \* sdContext: the poller's cache
  polled,       \* the poller saw a change it has not published yet
  sdstat,       \* recCtx->sdstat: the main loop's copy of the cache
  pc,           \* the main loop
  upd,          \* disk_sdstat's local `updated`
  after,        \* where the main loop goes when record_stop returns
  stateGo, stateGoing, status, params, nbFileIndex,
  ff,           \* the open clip
  offCard,      \* the open clip is not in the folder of the mounted card
  hasFrames,    \* nbFramesTotal > 0
  vv, aa,       \* the video and audio encoder threads run
  rollFailed    \* history: the last rollover could not open its clip

diskVars == <<card, clips, footage, mtime, known>>
pollVars == <<sdc, polled>>
fileVars == <<ff, offCard, hasFrames, rollFailed>>
runVars  == <<stateGoing, status, nbFileIndex, vv, aa>>
vars == <<diskVars, pollVars, sdstat, pc, upd, after, stateGo, params, fileVars, runVars>>

-----------------------------------------------------------------------------
(* Helpers.                                                                 *)

Inserted(phase) == phase = "mounted"
Mounted(phase)  == phase \in {"mounted", "pulled"}

(* statfs on the card's mount point, against minDiskSize.                   *)
FullNow == IF Mounted(card.phase) THEN card.space = Full ELSE RootFull

(* Mutant: the mount is not looked at.                                      *)
record_shouldStop_FullOnly == sdstat.full

record_shouldStop == sdstat.full \/ ~Mounted(sdstat.phase)

(* Mutant: REC_statusStop is written to record.dat.                         *)
record_stopStatus_Stop ==
  IF ~Mounted(sdstat.phase) THEN "DiskUmounted"
  ELSE IF sdstat.full THEN "DiskFull" ELSE "Stop"

(* Mutant: a usable disk leaves the status alone.                           *)
record_stopStatus_Keep ==
  IF ~Mounted(sdstat.phase) THEN "DiskUmounted"
  ELSE IF sdstat.full THEN "DiskFull" ELSE status

record_stopStatus ==
  IF ~Mounted(sdstat.phase) THEN "DiskUmounted"
  ELSE IF sdstat.full THEN "DiskFull" ELSE "Idle"

(* The clips no other clip outnumbers: one, or none in an empty folder.     *)
LastClips == {i \in clips : \A j \in clips : j <= i}

(* Mutant: the clips are counted.                                           *)
disk_countMovies_Count == IF card.phase = "mounted" THEN Cardinality(clips) - 1 ELSE -1

(* disk_countMovies: the largest clip number, or -1.                        *)
disk_countMovies ==
  IF card.phase = "mounted" /\ LastClips # {}
    THEN CHOOSE i \in LastClips : TRUE
    ELSE -1

(* rolling_compare: modification time, then name.                           *)
rolling_compare(a, b) == mtime[a] < mtime[b] \/ (mtime[a] = mtime[b] /\ a < b)

(* Mutant: the open clip is not recognised, as when its name is read from   *)
(* NOW_RECORDING_FILE after a rollover.                                     *)
rolling_scan_All == IF card.phase = "mounted" THEN clips ELSE {}

(* rolling_scan: every clip of the folder but the one being written.        *)
rolling_scan == IF card.phase = "mounted" THEN clips \ {ff} ELSE {}

(* What ffpack_openFile can return for clip i: a mounted card answers, any  *)
(* other slot may or may not (a folder on the root file system, a cached    *)
(* directory of a pulled card).                                             *)
OpenResults(i) ==
  IF i \notin Index THEN {FALSE}
  ELSE IF card.phase = "mounted" THEN {card.path /\ ~card.ro}
  ELSE BOOLEAN

-----------------------------------------------------------------------------
(* The SD card, seen from the daemon.                                       *)

(* Changing cards takes a person longer than the poller's 490 ms and a      *)
(* housekeeping tick together: a card goes in only after the daemon has     *)
(* noticed that the slot was empty.                                         *)
RemovalNoticed ==
  pc \in MainPc => ~Mounted(sdc.phase) /\ ~Mounted(sdstat.phase)

Mount ==
  /\ card.phase = "out" /\ RemovalNoticed
  /\ \E c \in Cards, m \in [Index -> Time] :
       /\ \A i \in Index \ c.clips : m[i] = 0
       /\ card' = [phase |-> "mounted", ro |-> FALSE, path |-> c.path, space |-> c.space]
       /\ clips' = c.clips /\ footage' = c.clips
       /\ mtime' = m /\ known' = {}

Pull ==
  /\ card.phase = "mounted"
  /\ card' = [phase |-> "pulled", ro |-> FALSE, path |-> FALSE, space |-> card.space]
  /\ clips' = {} /\ footage' = {} /\ mtime' = [i \in Index |-> 0] /\ known' = {}

Unmount ==
  /\ card.phase = "pulled"
  /\ card' = [phase |-> "out", ro |-> FALSE, path |-> FALSE, space |-> Ample]
  /\ UNCHANGED <<clips, footage, mtime, known>>

(* An I/O error makes the kernel remount the card read-only.                *)
CardError ==
  /\ CardMayFail /\ card.phase = "mounted" /\ ~card.ro
  /\ card' = [card EXCEPT !.ro = TRUE]
  /\ UNCHANGED <<clips, footage, mtime, known>>

(* The user deletes a clip that is not being written.                       *)
UserDelete(c) ==
  /\ UserMayDelete /\ card.phase = "mounted" /\ ~card.ro
  /\ clips' = clips \ {c} /\ footage' = footage \ {c} /\ known' = known \ {c}
  /\ mtime' = [mtime EXCEPT ![c] = 0]
  /\ \E s \in Levels : s >= card.space /\ card' = [card EXCEPT !.space = s]

(* A file taken off its card stays open in the daemon.                      *)
CardStep ==
  /\ \/ Mount \/ Pull \/ Unmount \/ CardError
     \/ \E c \in clips \ {ff} : UserDelete(c)
  /\ offCard' = (offCard \/ (ff # NoFile /\ card'.phase # "mounted"))
  /\ UNCHANGED <<pollVars, sdstat, pc, upd, after, stateGo, params, ff, hasFrames,
                 rollFailed, runVars>>

-----------------------------------------------------------------------------
(* The poller: sdcard_check writes the fields first and, after the log has  *)
(* been written to disk, sets `updated`.                                    *)

PollSample ==
  /\ pc \in MainPc /\ ~polled
  /\ LET changed == sdc.phase # card.phase IN
       /\ sdc' = [phase |-> card.phase, full |-> FullNow,
                  updated |-> sdc.updated \/ (changed /\ ~SlowLog)]
       /\ polled' = (changed /\ SlowLog)
  /\ UNCHANGED <<diskVars, sdstat, pc, upd, after, stateGo, params, fileVars, runVars>>

PollPublish ==
  /\ pc \in MainPc /\ polled
  /\ sdc' = [sdc EXCEPT !.updated = TRUE]
  /\ polled' = FALSE
  /\ UNCHANGED <<diskVars, sdstat, pc, upd, after, stateGo, params, fileVars, runVars>>

-----------------------------------------------------------------------------
(* Starting and stopping.                                                   *)

(* Clip i is created, or truncated when it exists.                          *)
CreateClip(i) ==
  IF card.phase = "mounted"
    THEN /\ clips' = clips \cup {i}
         /\ footage' = footage \ {i}
         /\ \E t \in Time : mtime' = [mtime EXCEPT ![i] = t]
         /\ UNCHANGED card
    ELSE UNCHANGED <<card, clips, footage, mtime>>

(* A clip the recorder has gone past: its number is taken.                  *)
KnowClip(i) == known' = IF card.phase = "mounted" THEN known \cup {i} ELSE known

(* remove(sFile): whatever is there under the next number.                  *)
RemoveClip(i) ==
  IF card.phase = "mounted" /\ ~card.ro
    THEN /\ clips' = clips \ {i} /\ footage' = footage \ {i} /\ known' = known \ {i}
         /\ mtime' = [j \in Index |-> IF j = i THEN 0 ELSE mtime[j]]
         /\ UNCHANGED card
    ELSE UNCHANGED diskVars

(* The main loop goes on, or stops the recording and goes on after that.    *)
GoesOn(next)      == pc' = next /\ UNCHANGED after
record_stop(next) == pc' = "join" /\ after' = next

(* Mutant: the video thread is told to end and not waited for.              *)
JoinThreads_NoWait ==
  /\ pc = "join" /\ pc' = "close"
  /\ aa' = (aa /\ ~params.audio)
  /\ UNCHANGED <<diskVars, pollVars, sdstat, upd, after, stateGo, params, fileVars,
                 vv, stateGoing, status, nbFileIndex>>

(* record_stop, first part: both threads are joined. Until then they go on  *)
(* writing frames.                                                          *)
JoinThreads ==
  /\ pc = "join" /\ pc' = "close"
  /\ vv' = FALSE
  /\ aa' = (aa /\ ~params.audio)
  /\ UNCHANGED <<diskVars, pollVars, sdstat, upd, after, stateGo, params, fileVars,
                 stateGoing, status, nbFileIndex>>

(* Mutant: a file on a lost card is not closed.                             *)
CloseFile_Keeps ==
  /\ pc = "close" /\ pc' = after /\ after' = "recv"
  /\ ff' = IF Mounted(sdstat.phase) THEN NoFile ELSE ff
  /\ offCard' = (offCard /\ ff' # NoFile) /\ rollFailed' = FALSE
  /\ stateGoing' = "Stop" /\ status' = record_stopStatus
  /\ UNCHANGED <<diskVars, pollVars, sdstat, upd, stateGo, params, hasFrames,
                 nbFileIndex, vv, aa>>

(* record_stop, second part: the file is closed, the state and record.dat   *)
(* say so.                                                                  *)
CloseFile ==
  /\ pc = "close" /\ pc' = after /\ after' = "recv"
  /\ ff' = NoFile /\ offCard' = FALSE /\ rollFailed' = FALSE
  /\ stateGoing' = "Stop" /\ status' = record_stopStatus
  /\ UNCHANGED <<diskVars, pollVars, sdstat, upd, stateGo, params, hasFrames,
                 nbFileIndex, vv, aa>>

StartDeclined(next) ==
  /\ ff # NoFile \/ record_shouldStop
  /\ GoesOn(next)
  /\ UNCHANGED <<diskVars, fileVars, runVars>>

(* The encoders cannot be prepared, or the clip cannot be opened: `failed:` *)
(* runs record_stop, whose status replaces FileError.                       *)
StartFailed(next) ==
  /\ ff = NoFile /\ ~record_shouldStop
  /\ EncoderMayFail \/ FALSE \in OpenResults(nbFileIndex)
  /\ record_stop(next)
  /\ UNCHANGED <<diskVars, fileVars, runVars>>

(* The clip is open but an encoder cannot be started. When it is the audio  *)
(* encoder, the video thread delivers frames until record_stop joins it. The*)
(* clip stays on the card and its number is not taken.                      *)
StartAborted(p, next) ==
  /\ ff = NoFile /\ ~record_shouldStop
  /\ EncoderMayFail /\ TRUE \in OpenResults(nbFileIndex)
  /\ CreateClip(nbFileIndex) /\ UNCHANGED known
  /\ ff' = nbFileIndex /\ offCard' = (card.phase # "mounted")
  /\ hasFrames' = FALSE /\ rollFailed' = FALSE
  /\ vv' \in {FALSE, p.audio}
  /\ record_stop(next)
  /\ UNCHANGED <<stateGoing, status, nbFileIndex, aa>>

(* Mutant: the number is not taken.                                         *)
StartOk_SameNumber(p, next) ==
  /\ ff = NoFile /\ ~record_shouldStop
  /\ TRUE \in OpenResults(nbFileIndex)
  /\ CreateClip(nbFileIndex) /\ KnowClip(nbFileIndex)
  /\ ff' = nbFileIndex /\ offCard' = (card.phase # "mounted")
  /\ hasFrames' = FALSE /\ rollFailed' = FALSE
  /\ vv' = TRUE /\ aa' = p.audio
  /\ stateGoing' = "Run" /\ status' = "Run"
  /\ GoesOn(next)
  /\ UNCHANGED nbFileIndex

StartOk(p, next) ==
  /\ ff = NoFile /\ ~record_shouldStop
  /\ TRUE \in OpenResults(nbFileIndex)
  /\ CreateClip(nbFileIndex) /\ KnowClip(nbFileIndex)
  /\ ff' = nbFileIndex /\ offCard' = (card.phase # "mounted")
  /\ hasFrames' = FALSE /\ rollFailed' = FALSE
  /\ vv' = TRUE /\ aa' = p.audio
  /\ stateGoing' = "Run" /\ status' = "Run"
  /\ nbFileIndex' = nbFileIndex + 1
  /\ GoesOn(next)

record_start(p, next) ==
  StartDeclined(next) \/ StartFailed(next) \/ StartAborted(p, next) \/ StartOk(p, next)

(* The frame-rate check: fewer than 10 frames in a second, enough of them,  *)
(* or a second that has not passed yet.                                     *)
FpsCheck ==
  /\ \/ status' = "FramesTimeout"
     \/ UNCHANGED status
     \/ status = "FramesTimeout" /\ status' = "Run"
  /\ UNCHANGED <<diskVars, fileVars, stateGoing, nbFileIndex, vv, aa>>

(* record_run, called by a command or by the tick.                          *)
record_run(go, p, next) ==
  /\ stateGo' = go /\ params' = p
  /\ \/ go # stateGoing /\ go = "Run" /\ record_start(p, next)
     \/ /\ \/ go # stateGoing /\ go = "Stop"
           \/ go = stateGoing /\ go = "Run" /\ record_shouldStop
        /\ record_stop(next)
        /\ UNCHANGED <<diskVars, fileVars, runVars>>
     \/ go = stateGoing /\ go = "Run" /\ ~record_shouldStop /\ FpsCheck /\ GoesOn(next)
     \/ /\ go = "Idle" \/ (go = stateGoing /\ go = "Stop")
        /\ GoesOn(next)
        /\ UNCHANGED <<diskVars, fileVars, runVars>>

-----------------------------------------------------------------------------
(* The main loop: commands.                                                 *)

(* Mutant: record.conf is reloaded under the running encoders.              *)
CmdStart_Reloads ==
  /\ pc = "recv"
  /\ \E p \in Params : record_run("Run", p, "recv")
  /\ UNCHANGED <<pollVars, sdstat, upd>>

(* MSG_cmdSTART reloads record.conf only while the video thread is down.    *)
CmdStart ==
  /\ pc = "recv"
  /\ \E p \in IF vv THEN {params} ELSE Params : record_run("Run", p, "recv")
  /\ UNCHANGED <<pollVars, sdstat, upd>>

(* MSG_cmdSTOP, and LIVE_cmdSTOP, which also stops the recording.           *)
CmdStop ==
  /\ pc = "recv"
  /\ record_run("Stop", params, "recv")
  /\ UNCHANGED <<pollVars, sdstat, upd>>

CmdQuit ==
  /\ pc = "recv"
  /\ record_stop("exited")
  /\ UNCHANGED <<diskVars, pollVars, sdstat, upd, stateGo, params, fileVars, runVars>>

(* formatsd.sh and chkfixsd.sh start the daemon again.                      *)
Restart ==
  /\ Restarts /\ pc \in {"exited", "crashed"}
  /\ sdc' = [phase |-> "unknown", full |-> TRUE, updated |-> FALSE]
  /\ polled' = FALSE
  /\ sdstat' = [phase |-> "unknown", full |-> FALSE]
  /\ pc' = "recv" /\ upd' = FALSE /\ after' = "recv"
  /\ stateGo' = "Idle" /\ stateGoing' = "Idle" /\ status' = "Idle"
  /\ params' \in Params
  /\ nbFileIndex' = 0 /\ ff' = NoFile /\ offCard' = FALSE
  /\ hasFrames' = FALSE /\ rollFailed' = FALSE
  /\ vv' = FALSE /\ aa' = FALSE
  /\ known' = {}
  /\ UNCHANGED <<card, clips, footage, mtime>>

-----------------------------------------------------------------------------
(* The main loop: housekeeping, at most every 500 ms.                       *)

Tick ==
  /\ pc = "recv"
  /\ pc' = "check"
  /\ UNCHANGED <<diskVars, pollVars, sdstat, upd, after, stateGo, params, fileVars, runVars>>

(* disk_checkPath: a missing record folder is created, which a read-only    *)
(* card refuses; without a card the folder may be made on the root file     *)
(* system.                                                                  *)
PathResults == IF card.phase = "mounted" THEN {card.path \/ ~card.ro} ELSE BOOLEAN

(* The body of record_checkDisk, with sdstat already refreshed to s.        *)
DiskUpdate(s) ==
  /\ \/ /\ ~Inserted(s.phase) \/ ~Mounted(s.phase)
        /\ status' = "DiskUmounted"
        /\ UNCHANGED <<card, nbFileIndex, known>>
     \/ /\ Inserted(s.phase) /\ Mounted(s.phase)
        /\ \E ok \in PathResults :
             /\ status' = IF ~ok THEN "DiskPathFailed"
                          ELSE IF s.full THEN "DiskFull" ELSE status
             /\ IF ok /\ ~s.full
                  THEN nbFileIndex' = disk_countMovies + 1 /\ known' = clips
                  ELSE UNCHANGED <<nbFileIndex, known>>
             /\ card' = [card EXCEPT !.path = ok /\ card.phase = "mounted"]
  /\ UNCHANGED <<clips, footage, mtime, stateGoing, vv, aa>>

(* disk_sdstat, first part: the cache is copied. When `full` flips the call *)
(* reports an update and leaves sdContext.updated as it is.                 *)
CheckDisk ==
  LET s == [phase |-> sdc.phase, full |-> sdc.full] IN
  /\ pc = "check"
  /\ sdstat' = s
  /\ \/ /\ s.full # sdstat.full
        /\ DiskUpdate(s)
        /\ pc' = "reclaim" /\ UNCHANGED upd
     \/ /\ s.full = sdstat.full
        /\ upd' = sdc.updated
        /\ pc' = "clear" /\ UNCHANGED <<diskVars, runVars>>
  /\ UNCHANGED <<pollVars, after, stateGo, params, fileVars>>

(* disk_sdstat, second part: `updated` is cleared, whoever set it since.    *)
ClearUpdated ==
  /\ pc = "clear" /\ pc' = "reclaim"
  /\ sdc' = [sdc EXCEPT !.updated = FALSE]
  /\ upd' = FALSE
  /\ \/ upd /\ DiskUpdate(sdstat)
     \/ ~upd /\ UNCHANGED <<diskVars, runVars>>
  /\ UNCHANGED <<polled, sdstat, after, stateGo, params, fileVars>>

(* One pass of record_rollingReclaim that tries the clips `tried`, oldest   *)
(* first, and ends when the target is met, or the attempts or the clips run *)
(* out. A read-only card refuses every deletion.                            *)
ReclaimPass(tried) ==
  LET gone == IF card.ro THEN {} ELSE tried IN
  /\ \A a \in tried, b \in rolling_scan \ tried : rolling_compare(a, b)
  /\ \E s \in Levels :
       /\ s >= card.space
       /\ gone = {} => s = card.space
       /\ s = Ample \/ Cardinality(tried) = MaxDelete \/ tried = rolling_scan
       /\ card' = [card EXCEPT !.space = s]
       /\ sdstat' = [sdstat EXCEPT !.full = IF gone = {} THEN @ ELSE s = Full]
  /\ clips' = clips \ gone /\ footage' = footage \ gone /\ known' = known \ gone
  /\ mtime' = [i \in Index |-> IF i \in gone THEN 0 ELSE mtime[i]]

(* Mutant: clips are reclaimed whether or not a recording is wanted.        *)
record_rollingReclaim_Always ==
  LET wanted == /\ params.rolling /\ Mounted(sdstat.phase)
                /\ card.space # Ample /\ rolling_scan # {}
  IN /\ pc = "reclaim" /\ pc' = "run"
     /\ \/ ~wanted /\ UNCHANGED <<diskVars, sdstat>>
        \/ /\ wanted
           /\ \E tried \in SUBSET rolling_scan :
                /\ Cardinality(tried) \in 1..MaxDelete
                /\ ReclaimPass(tried)
     /\ UNCHANGED <<pollVars, upd, after, stateGo, params, fileVars, runVars>>

record_rollingReclaim ==
  LET wanted == /\ params.rolling /\ stateGo = "Run" /\ Mounted(sdstat.phase)
                /\ card.space # Ample /\ rolling_scan # {}
  IN /\ pc = "reclaim" /\ pc' = "run"
     /\ \/ ~wanted /\ UNCHANGED <<diskVars, sdstat>>
        \/ /\ wanted
           /\ \E tried \in SUBSET rolling_scan :
                /\ Cardinality(tried) \in 1..MaxDelete
                /\ ReclaimPass(tried)
     /\ UNCHANGED <<pollVars, upd, after, stateGo, params, fileVars, runVars>>

(* Mutant: a start that failed is not tried again.                          *)
RunTick_NoRetry ==
  /\ pc = "run"
  /\ IF stateGoing = "Stop"
       THEN GoesOn("pack") /\ UNCHANGED <<diskVars, fileVars, runVars, stateGo, params>>
       ELSE record_run(stateGo, params, "pack")
  /\ UNCHANGED <<pollVars, sdstat, upd>>

RunTick ==
  /\ pc = "run"
  /\ record_run(stateGo, params, "pack")
  /\ UNCHANGED <<pollVars, sdstat, upd>>

(* A NULL muxer is dereferenced: the SIGSEGV handler aborts the process.    *)
Crash ==
  /\ pc' = "crashed"
  /\ vv' = FALSE /\ aa' = FALSE /\ ff' = NoFile /\ offCard' = FALSE
  /\ UNCHANGED <<diskVars, pollVars, sdstat, upd, after, stateGo, params, hasFrames,
                 rollFailed, stateGoing, status, nbFileIndex>>

(* The rollover, all of it under recCtx->mutex.                             *)
RolloverOk ==
  /\ TRUE \in OpenResults(nbFileIndex)
  /\ CreateClip(nbFileIndex) /\ KnowClip(nbFileIndex)
  /\ ff' = nbFileIndex /\ offCard' = (card.phase # "mounted")
  /\ hasFrames' = FALSE
  /\ nbFileIndex' = nbFileIndex + 1
  /\ UNCHANGED <<rollFailed, stateGoing, status, vv, aa>>

(* The clip cannot be opened, or it is open and its streams or its header   *)
(* fail: either way what is there under its name is removed.                *)
RolloverFailed ==
  /\ nbFileIndex \in Index
  /\ EncoderMayFail \/ FALSE \in OpenResults(nbFileIndex)
  /\ RemoveClip(nbFileIndex)
  /\ ff' = NoFile /\ offCard' = FALSE /\ hasFrames' = FALSE /\ rollFailed' = TRUE
  /\ UNCHANGED runVars

PackIdle ==
  /\ pc = "pack" /\ pc' = "recv"
  /\ stateGo # "Run" \/ stateGoing # "Run" \/ ff # NoFile   \* not due yet
  /\ UNCHANGED <<diskVars, pollVars, sdstat, upd, after, stateGo, params, fileVars, runVars>>

PackRoll ==
  /\ pc = "pack" /\ pc' = "recv"
  /\ stateGo = "Run" /\ stateGoing = "Run" /\ ff # NoFile
  /\ RolloverOk \/ RolloverFailed
  /\ UNCHANGED <<pollVars, sdstat, upd, after, stateGo, params>>

(* recCtx->ff->nbTotalSize is read whatever ff is.                          *)
PackCrash ==
  /\ pc = "pack"
  /\ stateGo = "Run" /\ stateGoing = "Run" /\ ff = NoFile
  /\ Crash

-----------------------------------------------------------------------------
(* The encoder threads.                                                     *)

(* vv_onFrame: a clip begins with an I frame; until then frames are dropped.*)
VideoFrame(key) ==
  /\ vv /\ (hasFrames \/ key)
  /\ IF ff = NoFile THEN Crash
     ELSE /\ hasFrames' = TRUE
          /\ footage' = IF offCard THEN footage ELSE footage \cup {ff}
          /\ \E s \in Levels :
               /\ s <= card.space /\ card.space <= s + 1
               /\ offCard => s = card.space
               /\ card' = [card EXCEPT !.space = s]
          /\ UNCHANGED <<clips, mtime, known, pollVars, sdstat, pc, upd, after, stateGo, params,
                         ff, offCard, rollFailed, runVars>>

(* aa_onFrame: audio is muxed from the first packet on.                     *)
AudioFrame ==
  /\ aa /\ ff = NoFile
  /\ Crash

-----------------------------------------------------------------------------
Init ==
  /\ card = [phase |-> "out", ro |-> FALSE, path |-> FALSE, space |-> Ample]
  /\ clips = {} /\ footage = {} /\ mtime = [i \in Index |-> 0] /\ known = {}
  /\ sdc = [phase |-> "unknown", full |-> TRUE, updated |-> FALSE]
  /\ polled = FALSE
  /\ sdstat = [phase |-> "unknown", full |-> FALSE]
  /\ pc = "recv" /\ upd = FALSE /\ after = "recv"
  /\ stateGo = "Idle" /\ stateGoing = "Idle" /\ status = "Idle"
  /\ params \in Params
  /\ nbFileIndex = 0 /\ ff = NoFile /\ offCard = FALSE
  /\ hasFrames = FALSE /\ rollFailed = FALSE
  /\ vv = FALSE /\ aa = FALSE

Poller == PollSample \/ PollPublish
Loop   == CheckDisk \/ ClearUpdated \/ record_rollingReclaim \/ RunTick
            \/ PackIdle \/ PackRoll \/ PackCrash \/ JoinThreads \/ CloseFile
Frames == (\E key \in BOOLEAN : VideoFrame(key)) \/ AudioFrame
Command == CmdStart \/ CmdStop \/ CmdQuit \/ Restart

Next == CardStep \/ Poller \/ Tick \/ Loop \/ Frames \/ Command

Spec == Init /\ [][Next]_vars

(* The daemon's threads keep running; nobody is bound to send a command, to *)
(* touch the card or to restart a daemon that is gone.                      *)
FairSpec == Spec /\ WF_vars(Poller) /\ WF_vars(Tick) /\ WF_vars(Loop)

-----------------------------------------------------------------------------
(* Every variable keeps its range; in particular the clip number, which is  *)
(* counted, incremented and reset in four places, fits the directory.       *)
DiskTypeOK ==
  /\ card \in [phase: Phases, ro: BOOLEAN, path: BOOLEAN, space: Levels]
  /\ clips \subseteq Index /\ footage \subseteq Index
  /\ mtime \in [Index -> Time] /\ known \subseteq Index

CacheTypeOK ==
  /\ sdc \in [phase: Known, full: BOOLEAN, updated: BOOLEAN]
  /\ sdstat \in [phase: Known, full: BOOLEAN]
  /\ polled \in BOOLEAN /\ upd \in BOOLEAN

FileTypeOK ==
  /\ ff \in Index \cup {NoFile}
  /\ offCard \in BOOLEAN /\ hasFrames \in BOOLEAN /\ rollFailed \in BOOLEAN

RunTypeOK ==
  /\ stateGoing \in States /\ status \in Status
  /\ nbFileIndex \in 0..(MaxIndex + 1)
  /\ vv \in BOOLEAN /\ aa \in BOOLEAN

ControlTypeOK ==
  /\ pc \in MainPc \cup {"exited", "crashed"} /\ after \in {"recv", "pack", "exited"}
  /\ stateGo \in States /\ params \in Params

TypeOK == DiskTypeOK /\ CacheTypeOK /\ FileTypeOK /\ RunTypeOK /\ ControlTypeOK

(* Between two calls of the main loop the threads and the file agree with   *)
(* the state it believes in, whatever start was abandoned before: frames are*)
(* produced exactly while stateGoing is Run, and then there is a            *)
(* file to take them unless a rollover failed to open one. Reloading the    *)
(* parameters never strands a running audio encoder.                        *)
ThreadsMatchState ==
  pc \in LoopPc =>
    /\ vv <=> stateGoing = "Run"
    /\ aa <=> (vv /\ params.audio)
    /\ ff # NoFile => vv
    /\ (vv /\ ff = NoFile) <=> rollFailed

(* Once a stop was carried out nothing is recorded and record.dat says so,  *)
(* whatever start, failure or card event came before.                       *)
StopIsComplete ==
  pc \in LoopPc /\ stateGo # "Run" =>
    ff = NoFile /\ ~vv /\ ~aa /\ status \notin {"Run", "FramesTimeout"}

(* record.dat claims a recording only while the encoder runs.               *)
StatusHonest == pc \in LoopPc /\ status \in {"Run", "FramesTimeout"} => vv

(* The daemon dies of a NULL muxer only after a rollover failed: no thread  *)
(* outlives the file that a stop closes.                                    *)
CrashNeedsFailedRollover == pc = "crashed" => rollFailed

(* The clip being written is in the folder of the mounted card: no reclaim  *)
(* and no rollover clean-up unlinks it while frames go into it.             *)
OpenClipKept == ff # NoFile /\ ~offCard => card.phase = "mounted" /\ ff \in clips

(* The daemon destroys footage only by rolling: while a recording is wanted,*)
(* below the low mark, oldest clip first, never the clip it writes. Opening *)
(* a clip never truncates one that holds footage.                           *)
FootageOnlyReclaimed ==
  [][CardStep \/ \A c \in footage \ footage' :
       /\ params.rolling /\ stateGo = "Run" /\ card.space # Ample
       /\ c # ff /\ c \notin clips'
       /\ \A d \in clips' \ {ff} : ~rolling_compare(d, c)]_vars

(* A clip is opened under a number no clip on the card exceeds, so names    *)
(* are chronological and nothing recorded earlier is overwritten.           *)
NewClipIsLast ==
  [][ff' # ff /\ ff' # NoFile /\ ~offCard' => \A c \in clips : c <= ff']_vars

(* Whatever card goes in, and however often the daemon is started again: a  *)
(* clip it has counted or recorded since loses its footage to the reclaim   *)
(* only, oldest first. No start, abandoned start or failed rollover         *)
(* truncates or removes it.                                                 *)
KnownFootageKept ==
  [][CardStep \/ \A c \in known \cap (footage \ footage') :
       /\ params.rolling /\ stateGo = "Run" /\ card.space # Ample
       /\ c # ff /\ c \notin clips'
       /\ \A d \in clips' \ {ff} : ~rolling_compare(d, c)]_vars

(* Nor does a recording begin under a number that one of them bears or      *)
(* exceeds.                                                                 *)
NewClipFollowsKnown ==
  [][ff' # ff /\ ff' # NoFile /\ ~offCard' => \A c \in known : c < ff']_vars

(* While nothing commands a stop, the recording of a mounted card is given  *)
(* up only because the card is full at that moment.                         *)
StopsOnlyOnFullCard ==
  [][/\ stateGoing = "Run" /\ stateGo' = "Run"
     /\ pc # "join" /\ pc' = "join" /\ after' # "exited"
     /\ Mounted(sdstat.phase) /\ card.phase = "mounted"
     => card.space = Full]_vars

(* A card that is gone is noticed: the file open on it is closed.           *)
LostCardIsClosed == (ff # NoFile /\ card.phase = "out") ~> (ff = NoFile \/ card.phase # "out")

(* A recording that is wanted, on a usable card, is under way again and     *)
(* again: every failed or interrupted start is retried.                     *)
WantedRecordingRuns ==
  <>[](/\ pc \in MainPc /\ stateGo = "Run" /\ nbFileIndex \in Index
       /\ card.phase = "mounted" /\ card.path /\ ~card.ro /\ card.space # Full)
    => []<>(ff # NoFile)

(* A recording ends when record_stop has joined the threads and saved the   *)
(* status, and a STOP is obeyed when the recording it ends is over.         *)
Underway == vv \/ (pc = "close" /\ status = "Run")

(* The daemon keeps its promise to those who command it: it records only    *)
(* while START was its last command, record.dat claims a recording only     *)
(* while there is one, and it dies only when told to record.                *)
Promise == INSTANCE RecordDaemon WITH
  alive     <- pc \in MainPc,
  wanted    <- pc \in MainPc /\ (stateGo = "Run" \/ Underway),
  recording <- Underway,
  claims    <- status = "Run"

KeepsPromise == Promise!DaemonSpec

=============================================================================
