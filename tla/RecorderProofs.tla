--------------------------- MODULE RecorderProofs ---------------------------
(***************************************************************************)
(* Proofs about Recorder, for every number of clips, every deletion limit, *)
(* every card an operator may insert and every setting of record.conf.     *)
(***************************************************************************)
EXTENDS Recorder, TLAPS

(* A daemon that is gone runs no thread and holds no file.                  *)
GoneIsQuiet == pc \notin MainPc => ~vv /\ ~aa /\ ff = NoFile

(* Also in the middle of record_stop: a thread without a file is left by a  *)
(* failed rollover, and none is left when the file is closed.               *)
StoppingInv ==
  pc \in MainPc =>
    /\ aa => vv /\ params.audio
    /\ vv /\ ff = NoFile => rollFailed
    /\ pc = "join" /\ status \in {"Run", "FramesTimeout"} => vv
    /\ pc = "close" => ~vv

(* The inductive invariant behind the properties of the recording state.    *)
RecordingInv ==
  /\ StoppingInv
  /\ ThreadsMatchState
  /\ GoneIsQuiet
  /\ StopIsComplete
  /\ StatusHonest
  /\ CrashNeedsFailedRollover
  /\ OpenClipKept

USE RecorderAssumption DEF RecorderAssumption, Index, Time, Levels, Phases,
    Known, States, Status, LoopPc, MainPc, Full, Low, Ample

-----------------------------------------------------------------------------
(* Type correctness, one lemma per operation or group of actions.           *)

LEMMA InitType == Init => TypeOK
<1> SUFFICES ASSUME Init PROVE TypeOK  OBVIOUS
<1>1. DiskTypeOK  BY DEF Init, DiskTypeOK
<1>2. CacheTypeOK  BY DEF Init, CacheTypeOK
<1>3. FileTypeOK  BY DEF Init, FileTypeOK
<1>4. RunTypeOK
  <2>1. vv \in BOOLEAN /\ aa \in BOOLEAN  BY DEF Init
  <2>2. /\ stateGoing \in States /\ status \in Status
        /\ nbFileIndex \in 0..(MaxIndex + 1)
    BY DEF Init
  <2> QED  BY <2>1, <2>2 DEF RunTypeOK
<1>5. ControlTypeOK  BY DEF Init, ControlTypeOK
<1> QED  BY <1>1, <1>2, <1>3, <1>4, <1>5 DEF TypeOK

LEMMA CardStepType == TypeOK /\ CardStep => TypeOK'
<1> SUFFICES ASSUME TypeOK, CardStep PROVE TypeOK'  OBVIOUS
<1>1. DiskTypeOK'
  <2>1. CASE Mount  BY <2>1 DEF TypeOK, DiskTypeOK, Mount
  <2>2. CASE Pull  BY <2>2 DEF TypeOK, DiskTypeOK, Pull
  <2>3. CASE Unmount  BY <2>3 DEF TypeOK, DiskTypeOK, Unmount
  <2>4. CASE CardError  BY <2>4 DEF TypeOK, DiskTypeOK, CardError
  <2>5. CASE \E c \in clips \ {ff} : UserDelete(c)
    <3>1. PICK c \in clips \ {ff} : UserDelete(c)  BY <2>5
    <3>2. PICK s \in Levels : card' = [card EXCEPT !.space = s]
      BY <3>1 DEF UserDelete
    <3>3. mtime' \in [Index -> Time]
      BY <3>1 DEF TypeOK, DiskTypeOK, UserDelete
    <3> QED  BY <3>1, <3>2, <3>3 DEF TypeOK, DiskTypeOK, UserDelete
  <2> QED  BY <2>1, <2>2, <2>3, <2>4, <2>5 DEF CardStep
<1>2. FileTypeOK'  BY DEF CardStep, TypeOK, FileTypeOK
<1>3. UNCHANGED <<pollVars, sdstat, pc, upd, after, stateGo, params, runVars>>
  BY DEF CardStep
<1>4. CacheTypeOK' /\ RunTypeOK' /\ ControlTypeOK'
  BY <1>3 DEF TypeOK, CacheTypeOK, RunTypeOK, ControlTypeOK, pollVars, runVars
<1> QED  BY <1>1, <1>2, <1>4 DEF TypeOK

LEMMA PollerType == TypeOK /\ Poller => TypeOK'
<1> SUFFICES ASSUME TypeOK, Poller PROVE TypeOK'  OBVIOUS
<1>1. CacheTypeOK'
  <2>1. CASE PollSample
    <3>1. FullNow \in BOOLEAN  BY DEF FullNow, Mounted
    <3>2. card.phase \in Known  BY DEF TypeOK, DiskTypeOK
    <3> QED  BY <2>1, <3>1, <3>2 DEF PollSample, TypeOK, CacheTypeOK
  <2>2. CASE PollPublish  BY <2>2 DEF PollPublish, TypeOK, CacheTypeOK
  <2> QED  BY <2>1, <2>2 DEF Poller
<1>2. UNCHANGED <<diskVars, pc, after, stateGo, params, fileVars, runVars>>
  BY DEF Poller, PollSample, PollPublish
<1>3. DiskTypeOK' /\ FileTypeOK' /\ RunTypeOK' /\ ControlTypeOK'
  BY <1>2 DEF TypeOK, DiskTypeOK, FileTypeOK, RunTypeOK, ControlTypeOK,
              diskVars, fileVars, runVars
<1> QED  BY <1>1, <1>3 DEF TypeOK

-----------------------------------------------------------------------------
(* A clip that could be opened has a number the folder can hold.            *)
LEMMA OpenedInRange ==
  ASSUME NEW i, TRUE \in OpenResults(i) PROVE i \in Index
BY DEF OpenResults

LEMMA CreateClipType ==
  ASSUME DiskTypeOK, NEW i \in Index, CreateClip(i)
  PROVE  /\ card' \in [phase: Phases, ro: BOOLEAN, path: BOOLEAN, space: Levels]
         /\ clips' \subseteq Index /\ footage' \subseteq Index
         /\ mtime' \in [Index -> Time]
<1>1. CASE card.phase = "mounted"
  <2>1. PICK t \in Time : mtime' = [mtime EXCEPT ![i] = t]
    BY <1>1 DEF CreateClip
  <2>2. mtime' \in [Index -> Time]  BY <2>1 DEF DiskTypeOK
  <2> QED  BY <1>1, <2>2 DEF CreateClip, DiskTypeOK
<1>2. CASE card.phase # "mounted"  BY <1>2 DEF DiskTypeOK, CreateClip
<1> QED  BY <1>1, <1>2

LEMMA KnowClipType ==
  ASSUME DiskTypeOK, NEW i \in Index, KnowClip(i) PROVE known' \subseteq Index
BY DEF KnowClip, DiskTypeOK

LEMMA RemoveClipType ==
  ASSUME DiskTypeOK, NEW i \in Index, RemoveClip(i) PROVE DiskTypeOK'
<1>1. CASE UNCHANGED diskVars  BY <1>1 DEF DiskTypeOK, diskVars
<1>2. CASE ~UNCHANGED diskVars
  <2>1. mtime' = [j \in Index |-> IF j = i THEN 0 ELSE mtime[j]]
    BY <1>2 DEF RemoveClip
  <2>2. mtime' \in [Index -> Time]  BY <2>1 DEF DiskTypeOK
  <2> QED  BY <1>2, <2>2 DEF RemoveClip, DiskTypeOK
<1> QED  BY <1>1, <1>2

LEMMA RecordRunType ==
  ASSUME TypeOK, NEW go \in States, NEW p \in Params, NEW next \in {"recv", "pack"},
         record_run(go, p, next)
  PROVE  DiskTypeOK' /\ FileTypeOK' /\ RunTypeOK' /\ ControlTypeOK'
<1> USE DEF TypeOK
<1>1. stateGo' \in States /\ params' \in Params  BY DEF record_run
<1>0. /\ pc' \in MainPc /\ after' \in {"recv", "pack", "exited"}
  BY DEF record_run, record_start, StartDeclined, StartFailed, StartAborted, StartOk,
         GoesOn, record_stop, ControlTypeOK
<1>7. ControlTypeOK'  BY <1>0, <1>1 DEF ControlTypeOK
<1>2. CASE UNCHANGED <<diskVars, fileVars, runVars>>
  BY <1>2, <1>7 DEF DiskTypeOK, FileTypeOK, RunTypeOK, diskVars, fileVars, runVars
<1>4. CASE StartAborted(p, next)
  <2>1. nbFileIndex \in Index  BY <1>4, OpenedInRange DEF StartAborted
  <2>2. DiskTypeOK'  BY <1>4, <2>1, CreateClipType DEF StartAborted, DiskTypeOK
  <2>3. FileTypeOK'  BY <1>4, <2>1 DEF StartAborted, FileTypeOK
  <2>4. p.audio \in BOOLEAN  OBVIOUS
  <2>5. vv' \in BOOLEAN /\ UNCHANGED <<stateGoing, status, nbFileIndex, aa>>
    BY <1>4, <2>4 DEF StartAborted
  <2>6. RunTypeOK'  BY <2>5 DEF RunTypeOK
  <2> QED  BY <1>7, <2>2, <2>3, <2>6
<1>5. CASE StartOk(p, next)
  <2>1. nbFileIndex \in Index  BY <1>5, OpenedInRange DEF StartOk
  <2>2. DiskTypeOK'
    BY <1>5, <2>1, CreateClipType, KnowClipType DEF StartOk, DiskTypeOK
  <2>3. FileTypeOK'  BY <1>5, <2>1 DEF StartOk, FileTypeOK
  <2>4. RunTypeOK'  BY <1>5, <2>1 DEF StartOk, RunTypeOK
  <2> QED  BY <1>7, <2>2, <2>3, <2>4
<1>6. CASE FpsCheck
  BY <1>7, <1>6 DEF FpsCheck, DiskTypeOK, FileTypeOK, RunTypeOK, diskVars, fileVars
<1> QED
  BY <1>2, <1>4, <1>5, <1>6 DEF record_run, record_start, StartDeclined, StartFailed

LEMMA CommandType == TypeOK /\ Command => TypeOK'
<1> SUFFICES ASSUME TypeOK, Command PROVE TypeOK'  OBVIOUS
<1>1. CASE CmdStart
  <2>1. PICK p \in Params : record_run("Run", p, "recv")
    BY <1>1 DEF CmdStart, TypeOK, ControlTypeOK
  <2>2. DiskTypeOK' /\ FileTypeOK' /\ RunTypeOK' /\ ControlTypeOK'
    BY <2>1, RecordRunType
  <2> QED  BY <1>1, <2>2 DEF CmdStart, TypeOK, CacheTypeOK, pollVars
<1>2. CASE CmdStop
  <2>1. record_run("Stop", params, "recv") /\ params \in Params
    BY <1>2 DEF CmdStop, TypeOK, ControlTypeOK
  <2>2. DiskTypeOK' /\ FileTypeOK' /\ RunTypeOK' /\ ControlTypeOK'
    BY <2>1, RecordRunType
  <2> QED  BY <1>2, <2>2 DEF CmdStop, TypeOK, CacheTypeOK, pollVars
<1>3. CASE CmdQuit
  BY <1>3 DEF CmdQuit, record_stop, TypeOK, DiskTypeOK, CacheTypeOK, FileTypeOK, RunTypeOK,
              ControlTypeOK, diskVars, pollVars, fileVars, runVars
<1>4. CASE Restart
  <2>1. CacheTypeOK'  BY <1>4 DEF Restart, CacheTypeOK
  <2>2. FileTypeOK'  BY <1>4 DEF Restart, FileTypeOK
  <2>5. RunTypeOK'
    <3>1. vv' \in BOOLEAN /\ aa' \in BOOLEAN  BY <1>4 DEF Restart
    <3>2. /\ stateGoing' \in States /\ status' \in Status
          /\ nbFileIndex' \in 0..(MaxIndex + 1)
      BY <1>4 DEF Restart
    <3> QED  BY <3>1, <3>2 DEF RunTypeOK
  <2>3. ControlTypeOK'  BY <1>4 DEF Restart, ControlTypeOK
  <2>4. DiskTypeOK'  BY <1>4 DEF Restart, TypeOK, DiskTypeOK
  <2> QED  BY <2>1, <2>2, <2>3, <2>4, <2>5 DEF TypeOK
<1> QED  BY <1>1, <1>2, <1>3, <1>4 DEF Command

-----------------------------------------------------------------------------
LEMMA CountMoviesType == DiskTypeOK => disk_countMovies \in -1..MaxIndex
<1> SUFFICES ASSUME DiskTypeOK PROVE disk_countMovies \in -1..MaxIndex  OBVIOUS
<1>1. CASE card.phase = "mounted" /\ LastClips # {}
  <2>1. disk_countMovies \in LastClips  BY <1>1 DEF disk_countMovies
  <2> QED  BY <2>1 DEF LastClips, DiskTypeOK
<1>2. CASE ~(card.phase = "mounted" /\ LastClips # {})
  BY <1>2 DEF disk_countMovies
<1> QED  BY <1>1, <1>2

LEMMA DiskUpdateType ==
  ASSUME DiskTypeOK, RunTypeOK, NEW s, DiskUpdate(s)
  PROVE  DiskTypeOK' /\ RunTypeOK'
<1>1. UNCHANGED <<clips, footage, mtime, stateGoing, vv, aa>>  BY DEF DiskUpdate
<1>2. CASE status' = "DiskUmounted" /\ UNCHANGED <<card, nbFileIndex, known>>
  BY <1>1, <1>2 DEF DiskTypeOK, RunTypeOK
<1>3. ASSUME NEW ok \in PathResults,
             status' = IF ~ok THEN "DiskPathFailed"
                       ELSE IF s.full THEN "DiskFull" ELSE status,
             \/ nbFileIndex' = disk_countMovies + 1 /\ known' = clips
             \/ UNCHANGED <<nbFileIndex, known>>,
             card' = [card EXCEPT !.path = ok /\ card.phase = "mounted"]
      PROVE  DiskTypeOK' /\ RunTypeOK'
  <2>1. disk_countMovies \in -1..MaxIndex  BY CountMoviesType
  <2>2. nbFileIndex' \in 0..(MaxIndex + 1)  BY <1>3, <2>1 DEF RunTypeOK
  <2>3. status' \in Status  BY <1>3 DEF RunTypeOK
  <2>4. card' \in [phase: Phases, ro: BOOLEAN, path: BOOLEAN, space: Levels]
    BY <1>3 DEF DiskTypeOK
  <2>5. known' \subseteq Index  BY <1>3 DEF DiskTypeOK
  <2> QED  BY <1>1, <2>2, <2>3, <2>4, <2>5 DEF DiskTypeOK, RunTypeOK
<1> QED  BY <1>2, <1>3 DEF DiskUpdate

LEMMA CheckType == TypeOK /\ (CheckDisk \/ ClearUpdated) => TypeOK'
<1> SUFFICES ASSUME TypeOK, CheckDisk \/ ClearUpdated PROVE TypeOK'  OBVIOUS
<1>1. FileTypeOK'
  BY DEF CheckDisk, ClearUpdated, TypeOK, FileTypeOK, fileVars
<1>2. ControlTypeOK'
  BY DEF CheckDisk, ClearUpdated, TypeOK, ControlTypeOK
<1>3. CASE CheckDisk
  <2>1. sdstat' \in [phase: Known, full: BOOLEAN]
    BY <1>3 DEF CheckDisk, TypeOK, CacheTypeOK
  <2>2. CacheTypeOK'  BY <1>3, <2>1 DEF CheckDisk, TypeOK, CacheTypeOK, pollVars
  <2>3. DiskTypeOK' /\ RunTypeOK'
    <3>1. CASE UNCHANGED <<diskVars, runVars>>
      BY <3>1 DEF TypeOK, DiskTypeOK, RunTypeOK, diskVars, runVars
    <3>2. CASE DiskUpdate([phase |-> sdc.phase, full |-> sdc.full])
      BY <3>2, DiskUpdateType DEF TypeOK
    <3> QED  BY <1>3, <3>1, <3>2 DEF CheckDisk
  <2> QED  BY <1>1, <1>2, <2>2, <2>3 DEF TypeOK
<1>4. CASE ClearUpdated
  <2>1. CacheTypeOK'  BY <1>4 DEF ClearUpdated, TypeOK, CacheTypeOK
  <2>2. DiskTypeOK' /\ RunTypeOK'
    <3>1. CASE UNCHANGED <<diskVars, runVars>>
      BY <3>1 DEF TypeOK, DiskTypeOK, RunTypeOK, diskVars, runVars
    <3>2. CASE DiskUpdate(sdstat)  BY <3>2, DiskUpdateType DEF TypeOK
    <3> QED  BY <1>4, <3>1, <3>2 DEF ClearUpdated
  <2> QED  BY <1>1, <1>2, <2>1, <2>2 DEF TypeOK
<1> QED  BY <1>3, <1>4

-----------------------------------------------------------------------------
LEMMA ReclaimType == TypeOK /\ record_rollingReclaim => TypeOK'
<1> SUFFICES ASSUME TypeOK, record_rollingReclaim PROVE TypeOK'  OBVIOUS
<1>1. UNCHANGED <<pollVars, upd, after, stateGo, params, fileVars, runVars>> /\ pc' = "run"
  BY DEF record_rollingReclaim
<1>2. FileTypeOK' /\ RunTypeOK' /\ ControlTypeOK'
  BY <1>1 DEF TypeOK, FileTypeOK, RunTypeOK, ControlTypeOK, fileVars, runVars
<1>3. DiskTypeOK' /\ sdstat' \in [phase: Known, full: BOOLEAN]
  <2>1. CASE UNCHANGED <<diskVars, sdstat>>
    BY <2>1 DEF TypeOK, DiskTypeOK, CacheTypeOK, diskVars
  <2>2. ASSUME NEW tried \in SUBSET rolling_scan, ReclaimPass(tried)
        PROVE  DiskTypeOK' /\ sdstat' \in [phase: Known, full: BOOLEAN]
    <3> DEFINE gone == IF card.ro THEN {} ELSE tried
    <3>1. PICK s \in Levels :
            /\ card' = [card EXCEPT !.space = s]
            /\ sdstat' = [sdstat EXCEPT !.full = IF gone = {} THEN @ ELSE s = Full]
      BY <2>2 DEF ReclaimPass
    <3>2. /\ clips' = clips \ gone /\ footage' = footage \ gone /\ known' = known \ gone
          /\ mtime' = [i \in Index |-> IF i \in gone THEN 0 ELSE mtime[i]]
      BY <2>2 DEF ReclaimPass
    <3> HIDE DEF gone
    <3>3. mtime' \in [Index -> Time]  BY <3>2 DEF TypeOK, DiskTypeOK
    <3>4. DiskTypeOK'  BY <3>1, <3>2, <3>3 DEF TypeOK, DiskTypeOK
    <3>5. sdstat' \in [phase: Known, full: BOOLEAN]
      BY <3>1 DEF TypeOK, CacheTypeOK
    <3> QED  BY <3>4, <3>5
  <2> QED  BY <2>1, <2>2 DEF record_rollingReclaim
<1>4. CacheTypeOK'  BY <1>1, <1>3 DEF TypeOK, CacheTypeOK, pollVars
<1> QED  BY <1>2, <1>3, <1>4 DEF TypeOK

LEMMA RunTickType == TypeOK /\ RunTick => TypeOK'
<1> SUFFICES ASSUME TypeOK, RunTick PROVE TypeOK'  OBVIOUS
<1>1. record_run(stateGo, params, "pack") /\ stateGo \in States /\ params \in Params
  BY DEF RunTick, TypeOK, ControlTypeOK
<1>2. DiskTypeOK' /\ FileTypeOK' /\ RunTypeOK' /\ ControlTypeOK'
  BY <1>1, RecordRunType
<1> QED  BY <1>2 DEF RunTick, TypeOK, CacheTypeOK, pollVars

LEMMA StopType == TypeOK /\ (JoinThreads \/ CloseFile) => TypeOK'
<1> SUFFICES ASSUME TypeOK, JoinThreads \/ CloseFile PROVE TypeOK'  OBVIOUS
<1>1. DiskTypeOK' /\ CacheTypeOK' /\ ControlTypeOK'
  BY DEF JoinThreads, CloseFile, TypeOK, DiskTypeOK, CacheTypeOK, ControlTypeOK,
         diskVars, pollVars
<1>2. FileTypeOK'  BY DEF JoinThreads, CloseFile, TypeOK, FileTypeOK, fileVars
<1>3. RunTypeOK'
  <2>1. record_stopStatus \in Status  BY DEF record_stopStatus
  <2>2. vv' \in BOOLEAN  BY DEF JoinThreads, CloseFile, TypeOK, RunTypeOK
  <2>3. aa' \in BOOLEAN  BY DEF JoinThreads, CloseFile, TypeOK, RunTypeOK
  <2>4. /\ stateGoing' \in States /\ status' \in Status
        /\ nbFileIndex' \in 0..(MaxIndex + 1)
    BY <2>1 DEF JoinThreads, CloseFile, TypeOK, RunTypeOK
  <2> QED  BY <2>2, <2>3, <2>4 DEF RunTypeOK
<1> QED  BY <1>1, <1>2, <1>3 DEF TypeOK

LEMMA CrashType == TypeOK /\ Crash => TypeOK'
<1> SUFFICES ASSUME TypeOK, Crash PROVE TypeOK'  OBVIOUS
<1>1. DiskTypeOK' /\ CacheTypeOK'
  BY DEF Crash, TypeOK, DiskTypeOK, CacheTypeOK, diskVars, pollVars
<1>2. FileTypeOK' /\ RunTypeOK'  BY DEF Crash, TypeOK, FileTypeOK, RunTypeOK
<1>3. ControlTypeOK'  BY DEF Crash, TypeOK, ControlTypeOK
<1> QED  BY <1>1, <1>2, <1>3 DEF TypeOK

LEMMA PackType == TypeOK /\ (PackIdle \/ PackRoll \/ PackCrash) => TypeOK'
<1> SUFFICES ASSUME TypeOK, PackIdle \/ PackRoll \/ PackCrash PROVE TypeOK'  OBVIOUS
<1>1. CASE PackIdle
  BY <1>1 DEF PackIdle, TypeOK, DiskTypeOK, CacheTypeOK, FileTypeOK, RunTypeOK,
              ControlTypeOK, diskVars, pollVars, fileVars, runVars
<1>2. CASE PackRoll
  <2>1. CacheTypeOK' /\ ControlTypeOK'
    BY <1>2 DEF PackRoll, TypeOK, CacheTypeOK, ControlTypeOK, pollVars
  <2>2. DiskTypeOK' /\ FileTypeOK' /\ RunTypeOK'
    <3>1. CASE RolloverOk
      <4>1. nbFileIndex \in Index  BY <3>1, OpenedInRange DEF RolloverOk
      <4>2. DiskTypeOK'
        BY <3>1, <4>1, CreateClipType, KnowClipType DEF RolloverOk, TypeOK, DiskTypeOK
      <4>3. FileTypeOK'  BY <3>1, <4>1 DEF RolloverOk, TypeOK, FileTypeOK
      <4>4. RunTypeOK'  BY <3>1, <4>1 DEF RolloverOk, TypeOK, RunTypeOK
      <4> QED  BY <4>2, <4>3, <4>4
    <3>2. CASE RolloverFailed
      <4>1. DiskTypeOK'  BY <3>2, RemoveClipType DEF RolloverFailed, TypeOK
      <4>2. FileTypeOK'  BY <3>2 DEF RolloverFailed, TypeOK, FileTypeOK
      <4>3. RunTypeOK'  BY <3>2 DEF RolloverFailed, TypeOK, RunTypeOK, runVars
      <4> QED  BY <4>1, <4>2, <4>3
    <3> QED  BY <1>2, <3>1, <3>2 DEF PackRoll
  <2> QED  BY <2>1, <2>2 DEF TypeOK
<1>3. CASE PackCrash  BY <1>3, CrashType DEF PackCrash
<1> QED  BY <1>1, <1>2, <1>3

LEMMA FramesType == TypeOK /\ Frames => TypeOK'
<1> SUFFICES ASSUME TypeOK, Frames PROVE TypeOK'  OBVIOUS
<1>1. CASE Crash  BY <1>1, CrashType
<1>2. CASE ~Crash
  <2>1. PICK key \in BOOLEAN : VideoFrame(key)
    BY <1>2 DEF Frames, AudioFrame
  <2>2. /\ ff # NoFile
        /\ hasFrames' = TRUE
        /\ footage' = IF offCard THEN footage ELSE footage \cup {ff}
        /\ UNCHANGED <<clips, mtime, known, pollVars, sdstat, pc, upd, after, stateGo,
                       params, ff, offCard, rollFailed, runVars>>
    BY <1>2, <2>1 DEF VideoFrame
  <2>3. PICK s \in Levels : card' = [card EXCEPT !.space = s]
    BY <1>2, <2>1 DEF VideoFrame
  <2>4. card' \in [phase: Phases, ro: BOOLEAN, path: BOOLEAN, space: Levels]
    BY <2>3 DEF TypeOK, DiskTypeOK
  <2>5. footage' \subseteq Index  BY <2>2 DEF TypeOK, DiskTypeOK, FileTypeOK
  <2>6. DiskTypeOK'  BY <2>2, <2>4, <2>5 DEF TypeOK, DiskTypeOK
  <2>7. CacheTypeOK' /\ RunTypeOK' /\ ControlTypeOK'
    BY <2>2 DEF TypeOK, CacheTypeOK, RunTypeOK, ControlTypeOK, pollVars, runVars
  <2>8. FileTypeOK'  BY <2>2 DEF TypeOK, FileTypeOK
  <2> QED  BY <2>6, <2>7, <2>8 DEF TypeOK
<1> QED  BY <1>1, <1>2

-----------------------------------------------------------------------------
LEMMA NextType == TypeOK /\ [Next]_vars => TypeOK'
<1> SUFFICES ASSUME TypeOK, [Next]_vars PROVE TypeOK'  OBVIOUS
<1>1. CASE UNCHANGED vars
  BY <1>1 DEF vars, diskVars, pollVars, fileVars, runVars, TypeOK, DiskTypeOK,
              CacheTypeOK, FileTypeOK, RunTypeOK, ControlTypeOK
<1>2. CASE CardStep  BY <1>2, CardStepType
<1>3. CASE Poller  BY <1>3, PollerType
<1>4. CASE Tick
  BY <1>4 DEF Tick, diskVars, pollVars, fileVars, runVars, TypeOK, DiskTypeOK,
              CacheTypeOK, FileTypeOK, RunTypeOK, ControlTypeOK
<1>5. CASE Loop
  BY <1>5, CheckType, ReclaimType, RunTickType, StopType, PackType DEF Loop
<1>6. CASE Frames  BY <1>6, FramesType
<1>7. CASE Command  BY <1>7, CommandType
<1> QED  BY <1>1, <1>2, <1>3, <1>4, <1>5, <1>6, <1>7 DEF Next

(* Every variable of the daemon keeps its range, in particular the clip     *)
(* number that record_checkDisk, record_start and record_pack maintain.     *)
THEOREM TypeCorrect == Spec => []TypeOK
<1>1. Init => TypeOK  BY InitType
<1>2. TypeOK /\ [Next]_vars => TypeOK'  BY NextType
<1> QED  BY <1>1, <1>2, PTL DEF Spec

-----------------------------------------------------------------------------
(* The recording state: files, threads, the state and the reported status.  *)

LEMMA InitRecording == Init => RecordingInv
BY DEF Init, RecordingInv, StoppingInv, ThreadsMatchState, GoneIsQuiet, StopIsComplete,
       StatusHonest, CrashNeedsFailedRollover, OpenClipKept

(* The part of the invariant that does not look at the card.                *)
ControlInv ==
  /\ StoppingInv
  /\ ThreadsMatchState
  /\ GoneIsQuiet
  /\ StopIsComplete
  /\ StatusHonest
  /\ CrashNeedsFailedRollover

(* A step that leaves the files, the threads and the state alone keeps it,  *)
(* as long as the main loop goes on and any new status reports a problem.   *)
LEMMA QuietStep ==
  ASSUME ControlInv, pc \in LoopPc, pc' \in LoopPc,
         UNCHANGED <<stateGo, stateGoing, params, vv, aa, ff, rollFailed>>,
         status' = status \/ status' \notin {"Run", "FramesTimeout"}
  PROVE  ControlInv'
BY DEF ControlInv, StoppingInv, ThreadsMatchState, GoneIsQuiet, StopIsComplete,
       StatusHonest, CrashNeedsFailedRollover

(* Where record_stop is called the threads run as they did, and still have  *)
(* their file.                                                              *)
LEMMA StopCalled ==
  ASSUME ControlInv, pc \in LoopPc, pc' = "join", vv => params' = params,
         UNCHANGED <<ff, rollFailed, status, vv, aa>>
  PROVE  ControlInv'
BY DEF ControlInv, StoppingInv, ThreadsMatchState, GoneIsQuiet, StopIsComplete,
       StatusHonest, CrashNeedsFailedRollover

(* record_stop, whatever was going on, ends in the stopped state.           *)
LEMMA StopStep ==
  ASSUME TypeOK, RecordingInv, JoinThreads \/ CloseFile
  PROVE  RecordingInv'
<1>0. ControlInv  BY DEF RecordingInv, ControlInv
<1>1. CASE JoinThreads
  <2>1. /\ pc = "join" /\ pc' = "close" /\ vv' = FALSE /\ aa' = (aa /\ ~params.audio)
        /\ UNCHANGED <<card, clips, params, ff, offCard, rollFailed>>
    BY <1>1 DEF JoinThreads, diskVars, fileVars
  <2>2. aa' = FALSE  BY <1>0, <2>1 DEF ControlInv, StoppingInv
  <2>3. ControlInv'
    BY <2>1, <2>2 DEF ControlInv, StoppingInv, ThreadsMatchState, GoneIsQuiet,
       StopIsComplete, StatusHonest, CrashNeedsFailedRollover
  <2>4. OpenClipKept'  BY <2>1 DEF RecordingInv, OpenClipKept
  <2> QED  BY <2>3, <2>4 DEF RecordingInv, ControlInv
<1>2. CASE CloseFile
  <2>1. /\ pc = "close" /\ pc' = after /\ ff' = NoFile /\ rollFailed' = FALSE
        /\ stateGoing' = "Stop" /\ status' = record_stopStatus
        /\ UNCHANGED <<vv, aa>>
    BY <1>2 DEF CloseFile
  <2>2. ~vv /\ ~aa  BY <1>0, <2>1 DEF ControlInv, StoppingInv
  <2>3. record_stopStatus \notin {"Run", "FramesTimeout"}  BY DEF record_stopStatus
  <2>4. after \in {"recv", "pack", "exited"}  BY DEF TypeOK, ControlTypeOK
  <2>5. ControlInv'
    BY <2>1, <2>2, <2>3, <2>4 DEF ControlInv, StoppingInv, ThreadsMatchState, GoneIsQuiet,
       StopIsComplete, StatusHonest, CrashNeedsFailedRollover
  <2> QED  BY <2>1, <2>5 DEF RecordingInv, ControlInv, OpenClipKept
<1> QED  BY <1>1, <1>2

LEMMA RunStep ==
  ASSUME TypeOK, RecordingInv, NEW go \in States, NEW p \in Params,
         NEW next \in {"recv", "pack"}, pc \in LoopPc, record_run(go, p, next),
         vv => p = params, go = "Idle" => go = stateGo
  PROVE  RecordingInv'
<1>0. ControlInv /\ OpenClipKept  BY DEF RecordingInv, ControlInv
<1>1. stateGo' = go /\ params' = p  BY DEF record_run
<1>2. CASE record_stop(next) /\ UNCHANGED <<diskVars, fileVars, runVars>>
  <2>1. /\ pc' = "join"
        /\ UNCHANGED <<card, clips, ff, offCard, rollFailed, status, vv, aa>>
    BY <1>2 DEF record_stop, diskVars, fileVars, runVars
  <2>2. ControlInv'  BY <1>0, <1>1, <2>1, StopCalled
  <2>3. OpenClipKept'  BY <1>0, <2>1 DEF OpenClipKept
  <2> QED  BY <2>2, <2>3 DEF RecordingInv, ControlInv
<1>3. CASE StartOk(p, next)
  <2>1. /\ ff' = nbFileIndex /\ ff' # NoFile /\ rollFailed' = FALSE
        /\ vv' = TRUE /\ aa' = p.audio
        /\ stateGoing' = "Run" /\ status' = "Run" /\ pc' = next
    BY <1>3, OpenedInRange DEF StartOk, GoesOn
  <2>2. go = "Run"
    BY <1>3, <2>1 DEF record_run, StartOk, record_stop, fileVars
  <2>3. ControlInv'
    BY <1>1, <2>1, <2>2 DEF ControlInv, StoppingInv, ThreadsMatchState, GoneIsQuiet,
       StopIsComplete, StatusHonest, CrashNeedsFailedRollover
  <2>4. OpenClipKept'
    BY <1>3 DEF StartOk, OpenClipKept, CreateClip
  <2> QED  BY <2>3, <2>4 DEF RecordingInv, ControlInv
<1>4. CASE FpsCheck /\ go = "Run" /\ stateGoing = "Run" /\ GoesOn(next)
  <2>1. ControlInv'
    BY <1>0, <1>1, <1>4 DEF FpsCheck, fileVars, GoesOn, ControlInv, StoppingInv,
       ThreadsMatchState, GoneIsQuiet, StopIsComplete, StatusHonest,
       CrashNeedsFailedRollover
  <2>2. OpenClipKept'
    BY <1>0, <1>4 DEF FpsCheck, fileVars, diskVars, OpenClipKept
  <2> QED  BY <2>1, <2>2 DEF RecordingInv, ControlInv
<1>5. CASE /\ UNCHANGED <<diskVars, fileVars, runVars>> /\ GoesOn(next)
           /\ \/ go = "Run"
              \/ go = "Stop" /\ stateGoing = "Stop"
              \/ go = "Idle" /\ stateGo = "Idle"
  <2>1. /\ pc' = next
        /\ UNCHANGED <<card, clips, ff, offCard, rollFailed, stateGoing, status, vv, aa>>
    BY <1>5 DEF diskVars, fileVars, runVars, GoesOn
  <2>3. ControlInv'
    BY <1>0, <1>1, <1>5, <2>1 DEF ControlInv, StoppingInv, ThreadsMatchState, GoneIsQuiet,
       StopIsComplete, StatusHonest, CrashNeedsFailedRollover
  <2>4. OpenClipKept'  BY <1>0, <2>1 DEF OpenClipKept
  <2> QED  BY <2>3, <2>4 DEF RecordingInv, ControlInv
<1>6. CASE StartAborted(p, next)
  <2>1. /\ ff' = nbFileIndex /\ ff' # NoFile /\ vv' \in {FALSE, p.audio}
        /\ pc' = "join" /\ UNCHANGED <<status, aa>>
    BY <1>6, OpenedInRange DEF StartAborted, record_stop
  <2>2. go = "Run" /\ go # stateGoing
    BY <1>6, <2>1 DEF record_run, StartAborted, record_stop, fileVars, GoesOn, FpsCheck
  <2>3. ~vv /\ ~aa /\ status \notin {"Run", "FramesTimeout"}
    BY <1>0, <2>2 DEF ControlInv, ThreadsMatchState, StatusHonest
  <2>4. ControlInv'
    BY <1>1, <2>1, <2>3 DEF ControlInv, StoppingInv, ThreadsMatchState, GoneIsQuiet,
       StopIsComplete, StatusHonest, CrashNeedsFailedRollover
  <2>5. OpenClipKept'
    BY <1>6 DEF StartAborted, OpenClipKept, CreateClip
  <2> QED  BY <2>4, <2>5 DEF RecordingInv, ControlInv
<1> QED
  BY <1>2, <1>3, <1>4, <1>5, <1>6 DEF record_run, record_start, StartDeclined, StartFailed

(* What the disk part of record_checkDisk leaves alone, and the problems it *)
(* may report.                                                              *)
LEMMA DiskUpdateStep ==
  ASSUME DiskTypeOK, NEW s, DiskUpdate(s)
  PROVE  /\ UNCHANGED <<clips, stateGoing, vv, aa>> /\ card'.phase = card.phase
         /\ status' = status \/ status' \notin {"Run", "FramesTimeout"}
<1>1. PICK ok \in BOOLEAN :
        card' = card \/ card' = [card EXCEPT !.path = ok]
  BY DEF DiskUpdate, PathResults
<1>2. card'.phase = card.phase  BY <1>1 DEF DiskTypeOK
<1> QED  BY <1>2 DEF DiskUpdate

LEMMA ReclaimStep ==
  ASSUME DiskTypeOK, NEW tried \in SUBSET rolling_scan, ReclaimPass(tried)
  PROVE  card'.phase = card.phase /\ (ff \in clips => ff \in clips')
<1>1. PICK s \in Levels : card' = [card EXCEPT !.space = s]  BY DEF ReclaimPass
<1>2. card'.phase = card.phase  BY <1>1 DEF DiskTypeOK
<1>3. ff \notin tried  BY DEF rolling_scan
<1> QED  BY <1>2, <1>3 DEF ReclaimPass

(* A rollover needs an open clip, and ends with one or with rollFailed.     *)
LEMMA PackRollStep ==
  ASSUME TypeOK, RecordingInv, PackRoll PROVE RecordingInv'
<1>1. /\ pc = "pack" /\ pc' = "recv" /\ stateGo = "Run" /\ stateGoing = "Run"
      /\ ff # NoFile /\ UNCHANGED <<stateGo, params>>
  BY DEF PackRoll
<1>2. vv /\ (aa <=> params.audio) /\ rollFailed = FALSE
  BY <1>1 DEF RecordingInv, ThreadsMatchState, TypeOK, FileTypeOK
<1>3. CASE RolloverOk
  <2>1. /\ ff' # NoFile
        /\ UNCHANGED <<rollFailed, stateGoing, status, vv, aa>>
    BY <1>3, OpenedInRange DEF RolloverOk
  <2>2. OpenClipKept'
    BY <1>3 DEF RolloverOk, OpenClipKept, CreateClip
  <2> QED
    BY <1>1, <1>2, <2>1, <2>2 DEF RecordingInv, StoppingInv, ThreadsMatchState, GoneIsQuiet,
       StopIsComplete, StatusHonest, CrashNeedsFailedRollover
<1>4. CASE RolloverFailed
  <2>1. /\ ff' = NoFile /\ rollFailed' = TRUE
        /\ UNCHANGED <<stateGoing, status, vv, aa>>
    BY <1>4 DEF RolloverFailed, runVars
  <2> QED
    BY <1>1, <1>2, <2>1 DEF RecordingInv, StoppingInv, ThreadsMatchState, GoneIsQuiet,
       StopIsComplete, StatusHonest, CrashNeedsFailedRollover, OpenClipKept
<1> QED  BY <1>3, <1>4 DEF PackRoll

(* A crash is one of a recording without a file.                            *)
LEMMA CrashStep ==
  ASSUME TypeOK, RecordingInv, Crash, pc \in MainPc, vv, ff = NoFile
  PROVE  RecordingInv'
<1>1. rollFailed  BY DEF RecordingInv, StoppingInv
<1> QED
  BY <1>1 DEF Crash, RecordingInv, StoppingInv, ThreadsMatchState, GoneIsQuiet, StopIsComplete,
     StatusHonest, CrashNeedsFailedRollover, OpenClipKept

LEMMA NextRecording == TypeOK /\ RecordingInv /\ [Next]_vars => RecordingInv'
<1> SUFFICES ASSUME TypeOK, RecordingInv, [Next]_vars PROVE RecordingInv'  OBVIOUS
<1>0. ControlInv /\ OpenClipKept  BY DEF RecordingInv, ControlInv
<1>1. CASE UNCHANGED vars
  BY <1>1 DEF vars, diskVars, fileVars, runVars, RecordingInv, StoppingInv, ThreadsMatchState,
     GoneIsQuiet, StopIsComplete, StatusHonest, CrashNeedsFailedRollover, OpenClipKept
<1>2. CASE CardStep
  <2>1. UNCHANGED <<pc, stateGo, params, ff, rollFailed, stateGoing, status, vv, aa>>
    BY <1>2 DEF CardStep, runVars
  <2>2. ControlInv'
    BY <1>0, <2>1 DEF ControlInv, StoppingInv, ThreadsMatchState, GoneIsQuiet, StopIsComplete,
       StatusHonest, CrashNeedsFailedRollover
  <2>3. OpenClipKept'
    <3> SUFFICES ASSUME ff # NoFile, card'.phase = "mounted", ~offCard
                 PROVE  ff \in clips'
      BY <1>2, <2>1 DEF CardStep, OpenClipKept
    <3>1. card.phase = "mounted" /\ ff \in clips  BY <1>0 DEF OpenClipKept
    <3>2. ~Mount /\ ~Unmount  BY <3>1 DEF Mount, Unmount
    <3>3. CASE Pull  BY <3>3 DEF Pull
    <3>4. CASE CardError  BY <3>1, <3>4 DEF CardError
    <3>5. CASE \E c \in clips \ {ff} : UserDelete(c)
      BY <3>1, <3>5 DEF UserDelete
    <3> QED  BY <1>2, <3>2, <3>3, <3>4, <3>5 DEF CardStep
  <2> QED  BY <2>2, <2>3 DEF RecordingInv, ControlInv
<1>3. CASE Poller \/ Tick \/ PackIdle
  <2>1. /\ (pc \in LoopPc /\ pc' \in LoopPc) \/ pc' = pc
        /\ UNCHANGED <<diskVars, stateGo, params, fileVars, runVars>>
    BY <1>3 DEF Poller, PollSample, PollPublish, Tick, PackIdle
  <2>2. ControlInv'
    <3>1. CASE pc \in LoopPc /\ pc' \in LoopPc
      BY <1>0, <2>1, <3>1, QuietStep DEF fileVars, runVars
    <3>2. CASE pc' = pc
      BY <1>0, <2>1, <3>2 DEF ControlInv, StoppingInv, ThreadsMatchState, GoneIsQuiet,
         StopIsComplete, StatusHonest, CrashNeedsFailedRollover, fileVars, runVars
    <3> QED  BY <2>1, <3>1, <3>2
  <2>3. OpenClipKept'  BY <1>0, <2>1 DEF OpenClipKept, diskVars, fileVars
  <2> QED  BY <2>2, <2>3 DEF RecordingInv, ControlInv
<1>4. CASE CheckDisk \/ ClearUpdated
  <2>1. /\ pc \in LoopPc /\ pc' \in LoopPc /\ UNCHANGED <<stateGo, params, fileVars>>
    BY <1>4 DEF CheckDisk, ClearUpdated
  <2>2. (\E s : DiskUpdate(s)) \/ UNCHANGED <<diskVars, runVars>>
    BY <1>4 DEF CheckDisk, ClearUpdated
  <2>3. /\ UNCHANGED <<clips, stateGoing, vv, aa>> /\ card'.phase = card.phase
        /\ status' = status \/ status' \notin {"Run", "FramesTimeout"}
    BY <2>2, DiskUpdateStep DEF TypeOK, diskVars, runVars
  <2>4. ControlInv'  BY <1>0, <2>1, <2>3, QuietStep DEF fileVars
  <2>5. OpenClipKept'  BY <1>0, <2>1, <2>3 DEF OpenClipKept, fileVars
  <2> QED  BY <2>4, <2>5 DEF RecordingInv, ControlInv
<1>5. CASE record_rollingReclaim
  <2>1. /\ pc \in LoopPc /\ pc' \in LoopPc
        /\ UNCHANGED <<stateGo, params, fileVars, runVars>>
    BY <1>5 DEF record_rollingReclaim
  <2>2. \/ UNCHANGED <<diskVars, sdstat>>
        \/ \E tried \in SUBSET rolling_scan : ReclaimPass(tried)
    BY <1>5 DEF record_rollingReclaim
  <2>3. card'.phase = card.phase /\ (ff \in clips => ff \in clips')
    BY <2>2, ReclaimStep DEF TypeOK, diskVars
  <2>4. ControlInv'  BY <1>0, <2>1, QuietStep DEF fileVars, runVars
  <2>5. OpenClipKept'  BY <1>0, <2>1, <2>3 DEF OpenClipKept, fileVars
  <2> QED  BY <2>4, <2>5 DEF RecordingInv, ControlInv
<1>6. CASE RunTick
  <2>1. /\ stateGo \in States /\ params \in Params /\ pc \in LoopPc
        /\ record_run(stateGo, params, "pack")
    BY <1>6 DEF RunTick, TypeOK, ControlTypeOK
  <2> QED  BY <2>1, RunStep
<1>7. CASE PackRoll  BY <1>7, PackRollStep
<1>8. CASE PackCrash
  <2>1. pc \in MainPc /\ vv /\ ff = NoFile
    BY <1>8 DEF PackCrash, RecordingInv, ThreadsMatchState
  <2> QED  BY <1>8, <2>1, CrashStep DEF PackCrash
<1>9. CASE Frames
  <2>1. CASE Crash /\ ff = NoFile
    <3>1. vv \/ aa  BY <1>9 DEF Frames, VideoFrame, AudioFrame
    <3>2. pc \in MainPc /\ vv
      BY <3>1 DEF RecordingInv, GoneIsQuiet, StoppingInv
    <3> QED  BY <2>1, <3>2, CrashStep
  <2>2. CASE ~(Crash /\ ff = NoFile)
    <3>1. PICK key \in BOOLEAN : VideoFrame(key)
      BY <1>9, <2>2 DEF Frames, AudioFrame
    <3>2. UNCHANGED <<clips, pc, stateGo, params, ff, offCard, rollFailed, runVars>>
      BY <2>2, <3>1 DEF VideoFrame
    <3>3. PICK s \in Levels : card' = [card EXCEPT !.space = s]
      BY <2>2, <3>1 DEF VideoFrame
    <3>4. card'.phase = card.phase  BY <3>3 DEF TypeOK, DiskTypeOK
    <3> QED
      BY <1>0, <3>2, <3>4 DEF RecordingInv, ControlInv, StoppingInv, ThreadsMatchState, GoneIsQuiet,
         StopIsComplete, StatusHonest, CrashNeedsFailedRollover, OpenClipKept, runVars
  <2> QED  BY <2>1, <2>2
<1>10. CASE CmdStart
  <2>1. PICK p \in Params : record_run("Run", p, "recv") /\ (vv => p = params)
    BY <1>10 DEF CmdStart, TypeOK, ControlTypeOK
  <2> QED  BY <1>10, <2>1, RunStep DEF CmdStart
<1>11. CASE CmdStop
  <2>1. params \in Params  BY DEF TypeOK, ControlTypeOK
  <2> QED  BY <1>11, <2>1, RunStep DEF CmdStop
<1>12. CASE CmdQuit
  <2>1. /\ pc = "recv" /\ pc' = "join"
        /\ UNCHANGED <<card, clips, params, ff, offCard, rollFailed, status, vv, aa>>
    BY <1>12 DEF CmdQuit, record_stop, diskVars, fileVars, runVars
  <2>2. ControlInv'  BY <1>0, <2>1, StopCalled
  <2>3. OpenClipKept'  BY <1>0, <2>1 DEF OpenClipKept
  <2> QED  BY <2>2, <2>3 DEF RecordingInv, ControlInv
<1>14. CASE JoinThreads \/ CloseFile  BY <1>14, StopStep
<1>13. CASE Restart
  BY <1>13 DEF Restart, RecordingInv, StoppingInv, ThreadsMatchState, GoneIsQuiet, StopIsComplete,
     StatusHonest, CrashNeedsFailedRollover, OpenClipKept
<1> QED
  BY <1>1, <1>2, <1>3, <1>4, <1>5, <1>6, <1>7, <1>8, <1>9, <1>10, <1>11, <1>12, <1>13,
     <1>14 DEF Next, Loop, Command

LEMMA RecordingCorrect == Spec => []RecordingInv
<1>1. Init => TypeOK /\ RecordingInv  BY InitType, InitRecording
<1>2. TypeOK /\ RecordingInv /\ [Next]_vars => TypeOK' /\ RecordingInv'
  BY NextType, NextRecording
<1> QED  BY <1>1, <1>2, PTL DEF Spec

(* Frames are produced exactly while the main loop believes in a recording, *)
(* and they have a file to go to unless a rollover failed.                  *)
THEOREM ThreadsAlwaysMatch == Spec => []ThreadsMatchState
<1>1. RecordingInv => ThreadsMatchState  BY DEF RecordingInv
<1> QED  BY <1>1, RecordingCorrect, PTL

(* After a stop was commanded nothing is recorded and record.dat says so.   *)
THEOREM StopAlwaysComplete == Spec => []StopIsComplete
<1>1. RecordingInv => StopIsComplete  BY DEF RecordingInv
<1> QED  BY <1>1, RecordingCorrect, PTL

(* record.dat claims a recording only while the encoder runs.               *)
THEOREM StatusAlwaysHonest == Spec => []StatusHonest
<1>1. RecordingInv => StatusHonest  BY DEF RecordingInv
<1> QED  BY <1>1, RecordingCorrect, PTL

(* The only way to a NULL muxer is a rollover that could not open its clip. *)
THEOREM CrashOnlyAfterFailedRollover == Spec => []CrashNeedsFailedRollover
<1>1. RecordingInv => CrashNeedsFailedRollover  BY DEF RecordingInv
<1> QED  BY <1>1, RecordingCorrect, PTL

(* Neither the rolling reclaim nor a rollover unlinks the clip being        *)
(* written.                                                                 *)
THEOREM OpenClipAlwaysKept == Spec => []OpenClipKept
<1>1. RecordingInv => OpenClipKept  BY DEF RecordingInv
<1> QED  BY <1>1, RecordingCorrect, PTL

-----------------------------------------------------------------------------
(* The daemon implements RecordDaemon: whatever happens inside it between   *)
(* two commands is work on what is wanted, or nothing its commanders see.   *)

LEMMA HonestUnderway ==
  ASSUME TypeOK, RecordingInv
  PROVE  Underway \in BOOLEAN /\ (pc \in MainPc /\ status = "Run" => Underway)
<1>1. Underway \in BOOLEAN  BY DEF Underway, TypeOK, RunTypeOK
<1>2. pc \in MainPc /\ status = "Run" => Underway
  BY DEF Underway, RecordingInv, StatusHonest, StoppingInv
<1> QED  BY <1>1, <1>2

LEMMA HonestUnderwayNext ==
  ASSUME TypeOK', RecordingInv'
  PROVE  Underway' \in BOOLEAN /\ (pc' \in MainPc /\ status' = "Run" => Underway')
<1>1. Underway' \in BOOLEAN  BY DEF Underway, TypeOK, RunTypeOK
<1>2. pc' \in MainPc /\ status' = "Run" => Underway'
  BY DEF Underway, RecordingInv, StatusHonest, StoppingInv
<1> QED  BY <1>1, <1>2

LEMMA InsideStep ==
  ASSUME TypeOK, TypeOK', RecordingInv, RecordingInv', pc \in MainPc, pc' \in MainPc,
         stateGo' = stateGo, stateGo = "Run" \/ (Underway' => Underway)
  PROVE  Promise!DaemonNext \/ UNCHANGED Promise!daemonVars
<1>1. Underway \in BOOLEAN /\ (status = "Run" => Underway)  BY HonestUnderway
<1>2. Underway' \in BOOLEAN /\ (status' = "Run" => Underway')  BY HonestUnderwayNext
<1>3. CASE stateGo = "Run" \/ (Underway /\ Underway')
  BY <1>2, <1>3 DEF Promise!DaemonNext, Promise!Work, Promise!Outcome
<1>4. CASE stateGo # "Run" /\ Underway /\ ~Underway'
  BY <1>2, <1>4 DEF Promise!DaemonNext, Promise!ObeyStop
<1>5. CASE stateGo # "Run" /\ ~Underway
  BY <1>1, <1>2, <1>5 DEF Promise!daemonVars
<1> QED  BY <1>3, <1>4, <1>5

LEMMA CrashDies ==
  ASSUME RecordingInv, pc \in MainPc, vv, Crash
  PROVE  Promise!Die
<1>2. pc' \notin MainPc /\ pc' # "close" /\ vv' = FALSE /\ status' = status
  BY DEF Crash, runVars
<1> QED  BY <1>2 DEF Promise!Die, Underway

LEMMA NextImplements ==
  TypeOK /\ TypeOK' /\ RecordingInv /\ RecordingInv' /\ [Next]_vars
    => [Promise!DaemonNext]_Promise!daemonVars
<1> SUFFICES ASSUME TypeOK, TypeOK', RecordingInv, RecordingInv', [Next]_vars
             PROVE  Promise!DaemonNext \/ UNCHANGED Promise!daemonVars
  OBVIOUS
<1>1. CASE UNCHANGED <<pc, stateGo, vv, status>>
  BY <1>1 DEF Promise!daemonVars, Underway
<1>2. CASE CardStep \/ Poller \/ UNCHANGED vars
  <2>1. UNCHANGED <<pc, stateGo, vv, status>>
    BY <1>2 DEF CardStep, Poller, PollSample, PollPublish, vars, runVars
  <2> QED  BY <1>1, <2>1
<1>3. ASSUME pc \in MainPc, pc' \in MainPc, stateGo' = stateGo,
             stateGo = "Run" \/ (vv' = vv /\ pc' # "close")
      PROVE  Promise!DaemonNext \/ UNCHANGED Promise!daemonVars
  BY <1>3, InsideStep DEF Underway
<1>4. CASE Tick \/ CheckDisk \/ ClearUpdated \/ record_rollingReclaim
  <2>1. pc \in MainPc /\ pc' \in MainPc /\ stateGo' = stateGo /\ vv' = vv /\ pc' # "close"
    <3>1. vv' = vv
      BY <1>4 DEF Tick, CheckDisk, ClearUpdated, record_rollingReclaim, DiskUpdate, runVars
    <3> QED  BY <1>4, <3>1 DEF Tick, CheckDisk, ClearUpdated, record_rollingReclaim
  <2> QED  BY <1>3, <2>1
<1>5. CASE RunTick \/ PackIdle \/ PackRoll
  <2>1. pc \in MainPc /\ pc' \in {"join", "pack", "recv"} /\ stateGo' = stateGo
    BY <1>5 DEF RunTick, PackIdle, PackRoll, record_run, record_start, StartDeclined,
       StartFailed, StartAborted, StartOk, record_stop, GoesOn
  <2>2. stateGo = "Run" \/ vv' = vv
    BY <1>5 DEF RunTick, PackIdle, PackRoll, record_run, runVars
  <2> QED  BY <1>3, <2>1, <2>2
<1>6. CASE PackCrash
  <2>1. pc \in MainPc /\ vv /\ Crash
    BY <1>6 DEF PackCrash, RecordingInv, ThreadsMatchState
  <2> QED  BY <2>1, CrashDies DEF Promise!DaemonNext
<1>7. CASE Frames
  <2>1. pc \in MainPc /\ vv
    BY <1>7 DEF Frames, VideoFrame, AudioFrame, RecordingInv, GoneIsQuiet, StoppingInv
  <2>2. CASE Crash  BY <2>1, <2>2, CrashDies DEF Promise!DaemonNext
  <2>3. CASE ~Crash
    <3>1. PICK key \in BOOLEAN : VideoFrame(key)  BY <1>7, <2>3 DEF Frames, AudioFrame
    <3>2. UNCHANGED <<pc, stateGo, vv, status>>  BY <2>3, <3>1 DEF VideoFrame, runVars
    <3> QED  BY <1>1, <3>2
  <2> QED  BY <2>2, <2>3
<1>8. CASE CmdStart
  <2>1. pc \in MainPc /\ pc' \in MainPc /\ stateGo' = "Run"
    BY <1>8 DEF CmdStart, record_run, TypeOK, ControlTypeOK, record_start, StartDeclined,
       StartFailed, StartAborted, StartOk, record_stop, GoesOn
  <2>2. Underway' \in BOOLEAN /\ (pc' \in MainPc /\ status' = "Run" => Underway')
    BY HonestUnderwayNext
  <2> QED  BY <2>1, <2>2 DEF Promise!DaemonNext, Promise!ObeyStart, Promise!Outcome
<1>9. CASE CmdStop
  <2>1. /\ pc = "recv" /\ pc' \in {"recv", "join"} /\ stateGo' = "Stop"
        /\ UNCHANGED <<vv, status>>
    BY <1>9 DEF CmdStop, record_run, record_stop, GoesOn, runVars
  <2>2. Underway = vv /\ Underway' = vv  BY <2>1 DEF Underway, TypeOK, RunTypeOK
  <2>3. CASE vv
    <3>1. stateGo = "Run"  BY <2>1, <2>3 DEF RecordingInv, StopIsComplete
    <3> QED  BY <2>1, <2>2, <2>3, <3>1 DEF Promise!daemonVars
  <2>4. CASE ~vv
    <3>1. status # "Run"  BY <2>1, <2>4 DEF RecordingInv, StatusHonest
    <3>2. vv = FALSE  BY <2>4 DEF TypeOK, RunTypeOK
    <3> QED  BY <2>1, <2>2, <3>1, <3>2 DEF Promise!DaemonNext, Promise!ObeyStop
  <2> QED  BY <2>3, <2>4
<1>10. CASE CmdQuit
  <2>1. pc = "recv" /\ pc' = "join" /\ UNCHANGED <<stateGo, vv, status>>
    BY <1>10 DEF CmdQuit, record_stop, runVars
  <2> QED  BY <2>1, <1>3
<1>11. CASE Restart
  <2>1. /\ pc \notin MainPc /\ pc' = "recv"
        /\ stateGo' = "Idle" /\ vv' = FALSE /\ status' # "Run"
    BY <1>11 DEF Restart
  <2> QED  BY <2>1 DEF Promise!DaemonNext, Promise!Boot, Underway
<1>12. CASE JoinThreads
  <2>1. /\ pc = "join" /\ pc' = "close" /\ UNCHANGED <<stateGo, status>> /\ vv' = FALSE
    BY <1>12 DEF JoinThreads
  <2>2. status = "Run" => vv  BY <2>1 DEF RecordingInv, StoppingInv
  <2>3. Underway' => Underway  BY <2>1, <2>2 DEF Underway
  <2> QED  BY <2>1, <2>3, InsideStep
<1>13. CASE CloseFile
  <2>1. /\ pc = "close" /\ pc' = after /\ UNCHANGED <<stateGo, vv>>
        /\ status' = record_stopStatus /\ after \in {"recv", "pack", "exited"}
    BY <1>13 DEF CloseFile, TypeOK, ControlTypeOK
  <2>2. vv = FALSE
    BY <2>1 DEF RecordingInv, StoppingInv, TypeOK, RunTypeOK
  <2>3. status' # "Run"  BY <2>1 DEF record_stopStatus
  <2>4. Underway' = FALSE  BY <2>1, <2>2 DEF Underway
  <2>5. CASE after = "exited"
    BY <2>1, <2>3, <2>4, <2>5 DEF Promise!DaemonNext, Promise!ObeyQuit
  <2>6. CASE after # "exited"
    BY <2>1, <2>4, <2>6, InsideStep
  <2> QED  BY <2>5, <2>6
<1> QED
  BY <1>2, <1>4, <1>5, <1>6, <1>7, <1>8, <1>9, <1>10, <1>11, <1>12, <1>13
     DEF Next, Loop, Command

(* The application may rely on no more of the daemon than RecordDaemon:     *)
(* record.dat claims a recording only while there is one, a stop ends it,   *)
(* and only a daemon that was told to record dies.                          *)
THEOREM DaemonKeepsPromise == Spec => KeepsPromise
<1>1. Init => Promise!DaemonInit  BY DEF Init, Promise!DaemonInit, Underway
<1>2. Init => TypeOK /\ RecordingInv  BY InitType, InitRecording
<1>3. TypeOK /\ RecordingInv /\ [Next]_vars => TypeOK' /\ RecordingInv'
  BY NextType, NextRecording
<1>4. TypeOK /\ TypeOK' /\ RecordingInv /\ RecordingInv' /\ [Next]_vars
        => [Promise!DaemonNext]_Promise!daemonVars
  BY NextImplements
<1> QED  BY <1>1, <1>2, <1>3, <1>4, PTL DEF Spec, KeepsPromise, Promise!DaemonSpec

=============================================================================
