----------------------------- MODULE CardProofs -----------------------------
(***************************************************************************)
(* Proofs about what Recorder does with the card. A clip that was counted, *)
(* or recorded since, loses its footage to the rolling reclaim only, oldest*)
(* first, and every new clip is numbered after it: on every card, full or  *)
(* not, however slow the poller is and however often the daemon is started *)
(* again. A recording stops only on a full card as long as nobody frees    *)
(* space.                                                                  *)
(***************************************************************************)
EXTENDS RecorderProofs, FiniteSetTheorems, WellFoundedInduction

(* A folder is that of the mounted card; what is known of it has numbers    *)
(* the recorder has gone past.                                              *)
KnownInv ==
  /\ card.phase # "mounted" => clips = {} /\ known = {}
  /\ \A c \in known : c < nbFileIndex

(* What one step takes away of the known footage, it reclaims.              *)
OldestReclaimed ==
  \A c \in known \cap (footage \ footage') :
    /\ params.rolling /\ stateGo = "Run" /\ card.space # Ample
    /\ c # ff /\ c \notin clips'
    /\ \A d \in clips' \ {ff} : ~rolling_compare(d, c)

(* One step opens no clip on the card, or one after all that are known.     *)
OpensLast == ff' # ff /\ ff' # NoFile /\ ~offCard' => \A c \in known : c < ff'

USE RecorderAssumption DEF RecorderAssumption, Index, Time, Levels, Phases,
    Known, States, Status, LoopPc, MainPc, Full, Low, Ample

-----------------------------------------------------------------------------
(* A folder with a clip in it has a last clip.                              *)
LEMMA LastClipExists ==
  ASSUME clips \subseteq Index, clips # {} PROVE LastClips # {}
<1> DEFINE After(i) == {j \in clips : i < j}
           T == {After(i) : i \in clips}
<1>1. IsFiniteSet(clips)
  <2>1. IsFiniteSet(0..MaxIndex)  BY FS_Interval
  <2> QED  BY <2>1, FS_Subset
<1>2. T \subseteq FiniteSubsetsOf(clips) /\ T # {}
  <2>1. FiniteSubsetsOf(clips) = SUBSET clips  BY <1>1, FS_FiniteSubsetsOfFinite
  <2>2. \A i \in clips : After(i) \in FiniteSubsetsOf(clips)  BY <2>1
  <2> HIDE DEF After
  <2>3. \A t \in T : t \in FiniteSubsetsOf(clips)  BY <2>2
  <2>4. PICK i : i \in clips  OBVIOUS
  <2>5. After(i) \in T  BY <2>4
  <2> QED  BY <2>3, <2>5
<1>3. \E x \in T : \A y \in T : <<y, x>> \notin StrictSubsetOrdering(clips)
  <2> HIDE DEF T
  <2> QED  BY <1>1, <1>2, FS_StrictSubsetOrderingWellFounded, WFMin
<1>4. PICK i \in clips : \A j \in clips : <<After(j), After(i)>> \notin StrictSubsetOrdering(clips)
  <2> HIDE DEF After
  <2> QED  BY <1>3
<1>5. ASSUME NEW j \in clips PROVE j <= i
  <2> SUFFICES ASSUME i < j PROVE FALSE  OBVIOUS
  <2>0. \A k \in clips : k \in Int  OBVIOUS
  <2>1. j \in After(i) /\ j \notin After(j)  BY <2>0
  <2>2. \A k \in After(j) : k \in After(i)  BY <2>0
  <2>3. <<After(j), After(i)>> \in StrictSubsetOrdering(clips)
    <3>1. After(j) \in SUBSET clips /\ After(i) \in SUBSET clips  OBVIOUS
    <3> HIDE DEF After
    <3> QED  BY <2>1, <2>2, <3>1 DEF StrictSubsetOrdering
  <2> QED  BY <1>4, <2>3
<1> QED  BY <1>5 DEF LastClips

(* disk_countMovies is the number of the last clip.                         *)
LEMMA CountIsLast ==
  ASSUME DiskTypeOK, card.phase = "mounted"
  PROVE  disk_countMovies \in -1..MaxIndex /\ \A c \in clips : c <= disk_countMovies
<1>1. disk_countMovies \in -1..MaxIndex  BY CountMoviesType
<1>2. ASSUME NEW c \in clips PROVE c <= disk_countMovies
  <2>1. LastClips # {}  BY LastClipExists DEF DiskTypeOK
  <2>2. disk_countMovies \in LastClips  BY <2>1 DEF disk_countMovies
  <2> QED  BY <2>2 DEF LastClips
<1> QED  BY <1>1, <1>2

(* rolling_compare has no two clips each before the other.                  *)
LEMMA CompareAsymmetric ==
  ASSUME mtime \in [Index -> Time], NEW a \in Index, NEW b \in Index, rolling_compare(a, b)
  PROVE  ~rolling_compare(b, a)
BY DEF rolling_compare

-----------------------------------------------------------------------------
(* Each lemma below treats one operation: it keeps KnownInv, and what it    *)
(* takes from the folder or opens in it is as it should be.                 *)
Harmless == KnownInv' /\ (CardStep \/ OldestReclaimed) /\ OpensLast

LEMMA InitKnown == Init => KnownInv
BY DEF Init, KnownInv

(* A step that leaves the folder and the counter alone, and opens nothing.  *)
LEMMA FolderUntouched ==
  ASSUME KnownInv, UNCHANGED <<clips, footage, known, nbFileIndex>>,
         card'.phase = card.phase, ff' = ff \/ ff' = NoFile
  PROVE  Harmless
BY DEF Harmless, KnownInv, OldestReclaimed, OpensLast

(* The card. Nothing is known of a card that goes in; the user takes clips  *)
(* away.                                                                    *)
LEMMA CardStepKnown ==
  ASSUME TypeOK, KnownInv, CardStep
  PROVE  Harmless
<1>1. UNCHANGED <<nbFileIndex, ff>>  BY DEF CardStep, runVars
<1>2. OpensLast  BY <1>1 DEF OpensLast
<1>3. card'.phase # "mounted" => clips' = {} /\ known' = {}
  <2>1. CASE Mount  BY <2>1 DEF Mount
  <2>2. CASE Pull  BY <2>2 DEF Pull
  <2>3. CASE Unmount  BY <2>3 DEF Unmount, KnownInv
  <2>4. CASE CardError  BY <2>4 DEF CardError, TypeOK, DiskTypeOK
  <2>5. ASSUME NEW c, UserDelete(c) PROVE card'.phase = "mounted"
    BY <2>5 DEF UserDelete, TypeOK, DiskTypeOK
  <2> QED  BY <2>1, <2>2, <2>3, <2>4, <2>5 DEF CardStep
<1>4. known' \subseteq known
  BY DEF CardStep, Mount, Pull, Unmount, CardError, UserDelete
<1> QED  BY <1>1, <1>2, <1>3, <1>4 DEF KnownInv, Harmless

(* Opening a clip under the number of the counter, whether the number is    *)
(* taken or the start is abandoned.                                         *)
LEMMA CreateKnown ==
  ASSUME TypeOK, KnownInv, CreateClip(nbFileIndex), TRUE \in OpenResults(nbFileIndex),
         ff' = nbFileIndex,
         \/ UNCHANGED <<known, nbFileIndex>>
         \/ KnowClip(nbFileIndex) /\ nbFileIndex' = nbFileIndex + 1
  PROVE  Harmless
<1>1. nbFileIndex \in Index  BY OpenedInRange
<1>2. /\ card' = card /\ footage \ footage' \subseteq {nbFileIndex}
      /\ card.phase # "mounted" => clips' = clips
  BY DEF CreateClip
<1>3. /\ known' \subseteq known \cup {nbFileIndex}
      /\ card.phase # "mounted" => known' = known
      /\ nbFileIndex' = nbFileIndex => known' = known
  <2>1. nbFileIndex # nbFileIndex + 1  BY <1>1
  <2> QED  BY <2>1 DEF KnowClip
<1>4. \A c \in known : c < nbFileIndex /\ c # nbFileIndex /\ c \in Index
  BY <1>1 DEF KnownInv, TypeOK, DiskTypeOK
<1>5. nbFileIndex' = nbFileIndex \/ nbFileIndex' = nbFileIndex + 1  OBVIOUS
<1>6. \A c \in known' : c < nbFileIndex'
  BY <1>1, <1>3, <1>4, <1>5
<1>7. KnownInv'  BY <1>2, <1>3, <1>6 DEF KnownInv
<1>8. OldestReclaimed  BY <1>2, <1>4 DEF OldestReclaimed
<1>9. OpensLast  BY <1>4 DEF OpensLast
<1> QED  BY <1>7, <1>8, <1>9 DEF Harmless

(* record_run, called for a command or by the tick.                         *)
LEMMA RunKnown ==
  ASSUME TypeOK, KnownInv, NEW go, NEW p, NEW next, record_run(go, p, next)
  PROVE  Harmless
<1>1. CASE UNCHANGED <<diskVars, fileVars, runVars>>
  BY <1>1, FolderUntouched DEF diskVars, fileVars, runVars
<1>2. CASE StartAborted(p, next)  BY <1>2, CreateKnown DEF StartAborted
<1>3. CASE StartOk(p, next)  BY <1>3, CreateKnown DEF StartOk
<1>4. CASE FpsCheck  BY <1>4, FolderUntouched DEF FpsCheck, diskVars, fileVars
<1> QED
  BY <1>1, <1>2, <1>3, <1>4 DEF record_run, record_start, StartDeclined, StartFailed

(* The rollover. A clip that cannot be opened properly is removed, and is   *)
(* none of those known.                                                     *)
LEMMA PackRollKnown ==
  ASSUME TypeOK, KnownInv, PackRoll PROVE Harmless
<1>1. CASE RolloverOk  BY <1>1, CreateKnown DEF RolloverOk
<1>2. CASE RolloverFailed
  <2>1. /\ nbFileIndex \in Index /\ ff' = NoFile /\ nbFileIndex' = nbFileIndex
        /\ RemoveClip(nbFileIndex)
    BY <1>2 DEF RolloverFailed, runVars
  <2>2. /\ card' = card /\ clips' \subseteq clips /\ known' \subseteq known
        /\ footage \ footage' \subseteq {nbFileIndex}
    BY <2>1 DEF RemoveClip, diskVars
  <2>3. nbFileIndex \notin known
    BY <2>1 DEF KnownInv, TypeOK, DiskTypeOK
  <2>4. KnownInv'  BY <2>1, <2>2 DEF KnownInv
  <2>5. OldestReclaimed  BY <2>2, <2>3 DEF OldestReclaimed
  <2> QED  BY <2>1, <2>4, <2>5 DEF Harmless, OpensLast
<1> QED  BY <1>1, <1>2 DEF PackRoll

(* Counting the clips of the folder goes past every one of them.            *)
LEMMA CountKnown ==
  ASSUME TypeOK, KnownInv, CheckDisk \/ ClearUpdated
  PROVE  Harmless
<1>1. ff' = ff  BY DEF CheckDisk, ClearUpdated, fileVars
<1>2. CASE UNCHANGED <<diskVars, runVars>>
  BY <1>1, <1>2, FolderUntouched DEF diskVars, runVars
<1>3. ASSUME NEW d, DiskUpdate(d) PROVE Harmless
  <2>1. UNCHANGED <<clips, footage>>  BY <1>3 DEF DiskUpdate
  <2>2. card'.phase = card.phase  BY <1>3, DiskUpdateStep DEF TypeOK
  <2>3. \/ UNCHANGED <<known, nbFileIndex>>
        \/ known' = clips /\ nbFileIndex' = disk_countMovies + 1
    BY <1>3 DEF DiskUpdate
  <2>4. CASE UNCHANGED <<known, nbFileIndex>>
    BY <1>1, <2>1, <2>2, <2>4, FolderUntouched
  <2>5. CASE known' = clips /\ nbFileIndex' = disk_countMovies + 1
    <3>1. card.phase # "mounted" => clips = {}  BY DEF KnownInv
    <3>2. ASSUME NEW c \in clips PROVE c < disk_countMovies + 1
      <4>1. card.phase = "mounted"  BY <3>1, <3>2
      <4>2. disk_countMovies \in -1..MaxIndex /\ c <= disk_countMovies
        BY <3>2, <4>1, CountIsLast DEF TypeOK
      <4>3. c \in Int  BY <3>2 DEF TypeOK, DiskTypeOK
      <4> QED  BY <4>2, <4>3
    <3>3. KnownInv'  BY <2>1, <2>2, <2>5, <3>1, <3>2 DEF KnownInv
    <3> QED  BY <1>1, <2>1, <3>3 DEF Harmless, OldestReclaimed, OpensLast
  <2> QED  BY <2>3, <2>4, <2>5
<1> QED  BY <1>2, <1>3 DEF CheckDisk, ClearUpdated

(* Reclaiming: what goes is the oldest of what was scanned, and the scan    *)
(* leaves the clip being written out.                                       *)
LEMMA ReclaimKnown ==
  ASSUME TypeOK, KnownInv, record_rollingReclaim
  PROVE  Harmless
<1>1. UNCHANGED <<ff, nbFileIndex>>
  BY DEF record_rollingReclaim, fileVars, runVars
<1>2. CASE UNCHANGED <<diskVars, sdstat>>
  BY <1>1, <1>2, FolderUntouched DEF diskVars
<1>3. ASSUME params.rolling, stateGo = "Run", card.space # Ample,
             NEW tried \in SUBSET rolling_scan, ReclaimPass(tried), rolling_scan # {}
      PROVE  Harmless
  <2> DEFINE gone == IF card.ro THEN {} ELSE tried
  <2>1. /\ clips' = clips \ gone /\ footage' = footage \ gone /\ known' = known \ gone
        /\ \A a \in tried, b \in rolling_scan \ tried : rolling_compare(a, b)
    BY <1>3 DEF ReclaimPass
  <2>2. card'.phase = card.phase
    BY <1>3, ReclaimStep DEF TypeOK
  <2>3. gone \subseteq tried  OBVIOUS
  <2>4. gone = {} \/ gone = tried  OBVIOUS
  <2> HIDE DEF gone
  <2>5. card.phase = "mounted" /\ rolling_scan = clips \ {ff}
    BY <1>3 DEF rolling_scan
  <2>6. KnownInv'  BY <1>1, <2>1, <2>2, <2>5 DEF KnownInv
  <2>7. OldestReclaimed
    <3> SUFFICES ASSUME NEW c \in footage \ footage'
                 PROVE  /\ c # ff /\ c \notin clips'
                        /\ \A d \in clips' \ {ff} : ~rolling_compare(d, c)
      BY <1>3 DEF OldestReclaimed
    <3>1. c \in gone /\ c \in tried /\ c \in rolling_scan  BY <2>1, <2>3
    <3>2. c # ff /\ c \notin clips'  BY <2>1, <2>5, <3>1
    <3>3. ASSUME NEW d \in clips' \ {ff} PROVE ~rolling_compare(d, c)
      <4>1. gone = tried  BY <2>4, <3>1
      <4>2. d \in rolling_scan \ tried  BY <2>1, <2>5, <3>3, <4>1
      <4>3. rolling_compare(c, d)  BY <2>1, <3>1, <4>2
      <4>4. c \in Index /\ d \in Index /\ mtime \in [Index -> Time]
        BY <2>5, <3>1, <4>2 DEF TypeOK, DiskTypeOK
      <4> QED  BY <4>3, <4>4, CompareAsymmetric
    <3> QED  BY <3>2, <3>3
  <2> QED  BY <1>1, <2>6, <2>7 DEF Harmless, OpensLast
<1> QED  BY <1>2, <1>3 DEF record_rollingReclaim

(* A frame adds footage.                                                    *)
LEMMA FramesKnown ==
  ASSUME TypeOK, KnownInv, Frames PROVE Harmless
<1>1. CASE Crash
  BY <1>1, FolderUntouched DEF Crash, diskVars
<1>2. CASE ~Crash
  <2>1. PICK key \in BOOLEAN : VideoFrame(key)  BY <1>2 DEF Frames, AudioFrame
  <2>2. footage \subseteq footage' /\ UNCHANGED <<clips, known, nbFileIndex, ff>>
    BY <1>2, <2>1 DEF VideoFrame, runVars
  <2>3. PICK s \in Levels : card' = [card EXCEPT !.space = s]
    BY <1>2, <2>1 DEF VideoFrame
  <2>4. card'.phase = card.phase  BY <2>3 DEF TypeOK, DiskTypeOK
  <2> QED  BY <2>2, <2>4 DEF Harmless, KnownInv, OldestReclaimed, OpensLast
<1> QED  BY <1>1, <1>2

LEMMA NextKnown ==
  ASSUME TypeOK, KnownInv, [Next]_vars
  PROVE  Harmless
<1>1. CASE UNCHANGED vars
  BY <1>1, FolderUntouched DEF vars, diskVars, fileVars, runVars
<1>2. CASE CardStep  BY <1>2, CardStepKnown
<1>3. CASE Poller \/ Tick \/ PackIdle \/ PackCrash \/ CmdQuit \/ JoinThreads \/ CloseFile
  <2>1. UNCHANGED diskVars
    BY <1>3 DEF Poller, PollSample, PollPublish, Tick, PackIdle, PackCrash, Crash, CmdQuit,
       JoinThreads, CloseFile
  <2>2. nbFileIndex' = nbFileIndex /\ (ff' = ff \/ ff' = NoFile)
    BY <1>3 DEF Poller, PollSample, PollPublish, Tick, PackIdle, PackCrash, Crash, CmdQuit,
       JoinThreads, CloseFile, fileVars, runVars
  <2> QED  BY <2>1, <2>2, FolderUntouched DEF diskVars
<1>4. CASE CheckDisk \/ ClearUpdated  BY <1>4, CountKnown
<1>5. CASE record_rollingReclaim  BY <1>5, ReclaimKnown
<1>6. CASE RunTick \/ CmdStart \/ CmdStop
  BY <1>6, RunKnown DEF RunTick, CmdStart, CmdStop
<1>7. CASE PackRoll  BY <1>7, PackRollKnown
<1>8. CASE Frames  BY <1>8, FramesKnown
<1>9. CASE Restart
  BY <1>9 DEF Restart, Harmless, KnownInv, OldestReclaimed, OpensLast
<1> QED
  BY <1>1, <1>2, <1>3, <1>4, <1>5, <1>6, <1>7, <1>8, <1>9 DEF Next, Loop, Command

LEMMA KnownCorrect == Spec => [](TypeOK /\ KnownInv)
<1>1. Init => TypeOK /\ KnownInv  BY InitType, InitKnown
<1>2. TypeOK /\ KnownInv /\ [Next]_vars => TypeOK' /\ KnownInv'
  BY NextType, NextKnown DEF Harmless
<1> QED  BY <1>1, <1>2, PTL DEF Spec

(* On every card, a clip that was counted, or recorded since, loses its     *)
(* footage to the rolling only: while a recording is wanted, below the low  *)
(* mark, oldest clip first, never the clip being written. No start,         *)
(* abandoned start or failed rollover truncates or removes it.              *)
THEOREM KnownFootageIsKept == Spec => KnownFootageKept
<1>1. TypeOK /\ KnownInv /\ [Next]_vars
        => [CardStep \/ \A c \in known \cap (footage \ footage') :
              /\ params.rolling /\ stateGo = "Run" /\ card.space # Ample
              /\ c # ff /\ c \notin clips'
              /\ \A d \in clips' \ {ff} : ~rolling_compare(d, c)]_vars
  BY NextKnown DEF Harmless, OldestReclaimed
<1> QED  BY <1>1, KnownCorrect, PTL DEF Spec, KnownFootageKept

(* On every card, a clip is opened under a number after those of all clips  *)
(* that were counted or recorded since.                                     *)
THEOREM NewClipAlwaysFollows == Spec => NewClipFollowsKnown
<1>1. TypeOK /\ KnownInv /\ [Next]_vars
        => [ff' # ff /\ ff' # NoFile /\ ~offCard' => \A c \in known : c < ff']_vars
  BY NextKnown DEF Harmless, OpensLast
<1> QED  BY <1>1, KnownCorrect, PTL DEF Spec, NewClipFollowsKnown

-----------------------------------------------------------------------------
(* Stopping for lack of space. Neither the reclaim nor the user deletes.    *)
NothingDeleted ==
  /\ UserMayDelete = FALSE
  /\ \A p \in Params : p.rolling = FALSE

(* Then neither the cache nor its copy is ever behind a card that has room. *)
FullInv ==
  pc \in MainPc /\ card.phase = "mounted" =>
    /\ Mounted(sdc.phase) /\ sdc.full => card.space = Full
    /\ Mounted(sdstat.phase) /\ sdstat.full => card.space = Full

LEMMA InitFull == Init => FullInv
BY DEF Init, FullInv

(* A step that leaves the measurements alone and frees no space.            *)
LEMMA MeasuredStep ==
  ASSUME FullInv, pc' \in MainPc => pc \in MainPc, UNCHANGED <<sdc, sdstat>>,
         card'.phase = "mounted" => card.phase = "mounted",
         card.space = Full => card'.space = Full
  PROVE  FullInv'
BY DEF FullInv, Mounted

LEMMA NextFull ==
  ASSUME NothingDeleted, TypeOK, FullInv, [Next]_vars
  PROVE  FullInv'
<1>1. CASE UNCHANGED vars
  BY <1>1, MeasuredStep DEF vars, diskVars, pollVars
<1>2. CASE CardStep
  <2>1. UNCHANGED <<sdc, sdstat, pc>>  BY <1>2 DEF CardStep, pollVars
  <2>2. CASE Mount
    <3>1. RemovalNoticed  BY <2>2 DEF Mount
    <3> QED  BY <2>1, <3>1 DEF FullInv, RemovalNoticed, Mounted
  <2>3. CASE Pull \/ Unmount
    <3>1. card'.phase # "mounted"  BY <2>3 DEF Pull, Unmount
    <3> QED  BY <3>1 DEF FullInv
  <2>4. CASE CardError
    <3>1. card'.phase = card.phase /\ card'.space = card.space
      BY <2>4 DEF CardError, TypeOK, DiskTypeOK
    <3> QED  BY <2>1, <3>1, MeasuredStep
  <2> QED
    BY <1>2, <2>2, <2>3, <2>4 DEF CardStep, UserDelete, NothingDeleted
<1>3. CASE PollSample
  <2>1. /\ sdc'.phase = card.phase /\ sdc'.full = FullNow
        /\ UNCHANGED <<card, sdstat, pc>>
    BY <1>3 DEF PollSample, diskVars
  <2>2. card.phase = "mounted" => FullNow = (card.space = Full)
    BY DEF FullNow, Mounted
  <2> QED  BY <2>1, <2>2 DEF FullInv, Mounted
<1>4. CASE PollPublish \/ ClearUpdated
  <2>1. sdc'.phase = sdc.phase /\ sdc'.full = sdc.full /\ UNCHANGED sdstat
    BY <1>4 DEF PollPublish, ClearUpdated, TypeOK, CacheTypeOK
  <2>2. pc \in MainPc  BY <1>4 DEF PollPublish, ClearUpdated
  <2>3. card'.phase = card.phase /\ card'.space = card.space
    <3>1. CASE UNCHANGED card  BY <3>1
    <3>2. ASSUME NEW s, DiskUpdate(s)
          PROVE  card'.phase = card.phase /\ card'.space = card.space
      <4>1. PICK ok \in BOOLEAN : card' = card \/ card' = [card EXCEPT !.path = ok]
        BY <3>2 DEF DiskUpdate, PathResults
      <4> QED  BY <4>1 DEF TypeOK, DiskTypeOK
    <3> QED  BY <1>4, <3>1, <3>2 DEF PollPublish, ClearUpdated, diskVars
  <2> QED  BY <2>1, <2>2, <2>3 DEF FullInv, Mounted
<1>5. CASE CheckDisk
  <2>1. /\ pc = "check" /\ sdstat'.phase = sdc.phase /\ sdstat'.full = sdc.full
        /\ UNCHANGED sdc
    BY <1>5 DEF CheckDisk, pollVars
  <2>2. card'.phase = card.phase /\ card'.space = card.space
    <3>1. CASE UNCHANGED card  BY <3>1
    <3>2. ASSUME NEW s, DiskUpdate(s)
          PROVE  card'.phase = card.phase /\ card'.space = card.space
      <4>1. PICK ok \in BOOLEAN : card' = card \/ card' = [card EXCEPT !.path = ok]
        BY <3>2 DEF DiskUpdate, PathResults
      <4> QED  BY <4>1 DEF TypeOK, DiskTypeOK
    <3> QED  BY <1>5, <3>1, <3>2 DEF CheckDisk, diskVars
  <2> QED  BY <2>1, <2>2 DEF FullInv, Mounted
<1>6. CASE record_rollingReclaim
  <2>1. params.rolling = FALSE  BY DEF NothingDeleted, TypeOK, ControlTypeOK
  <2>2. UNCHANGED <<card, sdc, sdstat>> /\ pc = "reclaim"
    BY <1>6, <2>1 DEF record_rollingReclaim, diskVars, pollVars
  <2> QED  BY <2>2, MeasuredStep
<1>7. CASE Frames
  <2>1. CASE Crash
    <3>1. pc' \notin MainPc  BY <2>1 DEF Crash
    <3> QED  BY <3>1 DEF FullInv
  <2>2. CASE ~Crash
    <3>1. PICK key \in BOOLEAN : VideoFrame(key)  BY <1>7, <2>2 DEF Frames, AudioFrame
    <3>2. UNCHANGED <<sdc, sdstat, pc>>  BY <2>2, <3>1 DEF VideoFrame, pollVars
    <3>3. PICK s \in Levels : s <= card.space /\ card' = [card EXCEPT !.space = s]
      BY <2>2, <3>1 DEF VideoFrame
    <3>4. card'.phase = card.phase /\ (card.space = Full => card'.space = Full)
      BY <3>3 DEF TypeOK, DiskTypeOK
    <3> QED  BY <3>2, <3>4, MeasuredStep
  <2> QED  BY <2>1, <2>2
<1>8. CASE Tick \/ PackIdle \/ PackRoll \/ RunTick \/ CmdStart \/ CmdStop \/ CmdQuit
             \/ JoinThreads \/ CloseFile
  <2>1. pc \in MainPc /\ UNCHANGED <<sdc, sdstat>>
    BY <1>8 DEF Tick, PackIdle, PackRoll, RunTick, CmdStart, CmdStop, CmdQuit, JoinThreads,
       CloseFile, pollVars
  <2>2. UNCHANGED card
    <3>1. ASSUME NEW i, CreateClip(i) PROVE UNCHANGED card
      BY <3>1 DEF CreateClip
    <3>2. ASSUME NEW go, NEW p, NEW next, record_run(go, p, next) PROVE UNCHANGED card
      BY <3>1, <3>2 DEF record_run, record_start, StartDeclined, StartFailed, StartAborted,
         StartOk, FpsCheck, diskVars
    <3>3. ASSUME PackRoll PROVE UNCHANGED card
      BY <3>1, <3>3 DEF PackRoll, RolloverOk, RolloverFailed, RemoveClip, diskVars
    <3> QED
      BY <1>8, <3>2, <3>3 DEF Tick, PackIdle, RunTick, CmdStart, CmdStop, CmdQuit,
         JoinThreads, CloseFile, diskVars
  <2> QED  BY <2>1, <2>2, MeasuredStep
<1>9. CASE PackCrash
  <2>1. pc' \notin MainPc  BY <1>9 DEF PackCrash, Crash
  <2> QED  BY <2>1 DEF FullInv
<1>10. CASE Restart  BY <1>10 DEF Restart, FullInv, Mounted
<1> QED
  BY <1>1, <1>2, <1>3, <1>4, <1>5, <1>6, <1>7, <1>8, <1>9, <1>10
     DEF Next, Loop, Command, Poller

(* The main loop begins to stop a recording that is under way, when no     *)
(* command asks for it, only in record_run's own check.                     *)
LEMMA StopsByCheck ==
  ASSUME TypeOK, [Next]_vars, stateGoing = "Run", stateGo' = "Run",
         pc # "join", pc' = "join", after' # "exited"
  PROVE  pc \in MainPc /\ record_shouldStop
<1>1. ASSUME NEW p, NEW next, next # "join", record_run("Run", p, next)
      PROVE  record_shouldStop
  BY <1>1 DEF record_run, GoesOn
<1>2. ASSUME NEW go, NEW p, NEW next, record_run(go, p, next) PROVE go = "Run"
  BY <1>2 DEF record_run
<1>3. CASE CmdStart \/ CmdStop
  <2>1. pc = "recv"  BY <1>3 DEF CmdStart, CmdStop
  <2> QED  BY <1>1, <1>2, <1>3, <2>1 DEF CmdStart, CmdStop
<1>4. CASE RunTick
  <2>1. pc = "run"  BY <1>4 DEF RunTick
  <2> QED  BY <1>1, <1>2, <1>4, <2>1 DEF RunTick
<1>5. ~CmdQuit /\ ~Restart /\ ~PackCrash
  BY DEF CmdQuit, record_stop, Restart, PackCrash, Crash
<1>6. ~(UNCHANGED vars \/ CardStep \/ Poller \/ Tick \/ Frames)
  BY DEF vars, CardStep, Poller, PollSample, PollPublish, Tick, Frames, VideoFrame,
     AudioFrame, Crash
<1>7. ~(CheckDisk \/ ClearUpdated \/ record_rollingReclaim \/ PackIdle \/ PackRoll)
  BY DEF CheckDisk, ClearUpdated, record_rollingReclaim, PackIdle, PackRoll
<1>8. ~JoinThreads /\ ~CloseFile
  BY DEF JoinThreads, CloseFile, TypeOK, ControlTypeOK
<1> QED  BY <1>3, <1>4, <1>5, <1>6, <1>7, <1>8 DEF Next, Loop, Command

(* Where nothing deletes clips, a recording nobody stops is given up on a   *)
(* mounted card only because that card is full, however slow the poller is: *)
(* finding recorder_stale needs somebody to free space.                     *)
THEOREM StopsOnlyOnFullCardUnlessFreed ==
  ASSUME NothingDeleted
  PROVE  Spec => StopsOnlyOnFullCard
<1>1. Init => TypeOK /\ FullInv  BY InitType, InitFull
<1>2. TypeOK /\ FullInv /\ [Next]_vars => TypeOK' /\ FullInv'
  BY NextType, NextFull
<1>3. TypeOK /\ FullInv /\ [Next]_vars
        => [/\ stateGoing = "Run" /\ stateGo' = "Run"
            /\ pc # "join" /\ pc' = "join" /\ after' # "exited"
            /\ Mounted(sdstat.phase) /\ card.phase = "mounted"
            => card.space = Full]_vars
  BY StopsByCheck DEF FullInv, record_shouldStop
<1> QED  BY <1>1, <1>2, <1>3, PTL DEF Spec, StopsOnlyOnFullCard

=============================================================================
