----------------------------- MODULE RollingScan -----------------------------
(***************************************************************************)
(* One pass of rolling recording over the record folder, step by step:     *)
(* rolling_scan (src/src/record/rolling.c) reads the directory, in         *)
(* whatever order it comes, into a buffer of MaxScan places that must end  *)
(* up holding the oldest clips, and record_rollingReclaim (record/main.c)  *)
(* deletes from it. Meanwhile the playback page may delete clips or make   *)
(* favourites of them. Recorder.tla takes this pass in one step.           *)
(*                                                                         *)
(* Names are numbers in strcmp order. The buffer is the set of the names   *)
(* in it, and its index of the newest entry is that entry.                 *)
(***************************************************************************)
EXTENDS Integers, FiniteSets

CONSTANTS
  Names,        \* what the folder may hold
  MaxTime,      \* modification times are 0..MaxTime
  MaxScan,      \* REC_rollMAXscan
  MaxDelete,    \* REC_rollMAXdelete
  NoClip        \* no clip is being written; an empty buffer

ASSUME RollingScanAssumption ==
  /\ Names \subseteq Int /\ NoClip \notin Names
  /\ MaxTime \in Nat /\ MaxScan \in Nat \ {0} /\ MaxDelete \in Nat \ {0}

Time == 0..MaxTime

VARIABLES
  clips,        \* reclaimable names in the folder (rolling_is_candidate)
  keep,         \* keepName, the clip being written
  mtime,
  unread,       \* names readdir has not returned yet
  seen,         \* history: those that were clips when they were looked at
  out, newest,  \* the buffer, and its newest entry
  pc,           \* "scan", "delete" or "done"
  tried,        \* candidates the reaper has been through
  reached       \* availMB >= targetMB

scanVars == <<unread, seen, out, newest>>
vars == <<clips, keep, mtime, scanVars, pc, tried, reached>>

(* rolling_compare(a, b) < 0.                                               *)
rolling_compare(a, b) == mtime[a] < mtime[b] \/ (mtime[a] = mtime[b] /\ a < b)

(* rolling_newest_index *)
rolling_newest_index(list) == CHOOSE a \in list : \A b \in list \ {a} : rolling_compare(b, a)

-----------------------------------------------------------------------------
(* rolling_scan: one directory entry.                                       *)

(* Not a candidate any more, the clip being written, or no longer there.    *)
SkipEntry(c) ==
  /\ c \notin clips \/ c = keep
  /\ UNCHANGED <<seen, out, newest>>

AppendEntry(c) ==
  /\ c \in clips /\ c # keep /\ Cardinality(out) < MaxScan
  /\ seen' = seen \cup {c} /\ out' = out \cup {c}
  /\ newest' = IF out = {} \/ rolling_compare(newest, c) THEN c ELSE newest

(* Mutant: the newest entry is not looked for again.                        *)
ReplaceNewest_Stale(c) ==
  /\ c \in clips /\ c # keep /\ Cardinality(out) >= MaxScan
  /\ seen' = seen \cup {c}
  /\ IF rolling_compare(c, newest)
       THEN out' = (out \ {newest}) \cup {c} /\ newest' = c
       ELSE UNCHANGED <<out, newest>>

(* The buffer is full: an older clip takes the place of the newest.         *)
ReplaceNewest(c) ==
  /\ c \in clips /\ c # keep /\ Cardinality(out) >= MaxScan
  /\ seen' = seen \cup {c}
  /\ IF rolling_compare(c, newest)
       THEN out' = (out \ {newest}) \cup {c} /\ newest' = rolling_newest_index(out')
       ELSE UNCHANGED <<out, newest>>

ReadEntry(c) ==
  /\ pc = "scan"
  /\ unread' = unread \ {c}
  /\ SkipEntry(c) \/ AppendEntry(c) \/ ReplaceNewest(c)
  /\ UNCHANGED <<clips, keep, mtime, pc, tried, reached>>

CloseDir ==
  /\ pc = "scan" /\ unread = {}
  /\ pc' = IF out = {} THEN "done" ELSE "delete"
  /\ UNCHANGED <<clips, keep, mtime, scanVars, tried, reached>>

-----------------------------------------------------------------------------
(* record_rollingReclaim: the sorted buffer, from the oldest on.            *)

(* Mutant: the buffer is not sorted.                                        *)
NextCandidate_Unsorted(c) == c \in out \ tried

NextCandidate(c) == c \in out \ tried /\ \A d \in out \ tried : d = c \/ rolling_compare(c, d)

MoreToDo == out \ tried # {} /\ Cardinality(tried) < MaxDelete /\ ~reached

(* unlink fails for a name that is gone, and on a read-only card; each clip *)
(* that goes may be the one that frees enough.                              *)
rolling_delete_clip(c) ==
  /\ pc = "delete" /\ MoreToDo /\ NextCandidate(c)
  /\ tried' = tried \cup {c}
  /\ \/ UNCHANGED <<clips, reached>>
     \/ c \in clips /\ clips' = clips \ {c} /\ reached' \in BOOLEAN
  /\ UNCHANGED <<keep, mtime, scanVars, pc>>

ReclaimDone ==
  /\ pc = "delete" /\ ~MoreToDo
  /\ pc' = "done"
  /\ UNCHANGED <<clips, keep, mtime, scanVars, tried, reached>>

(* The user deletes a clip or makes a favourite of it, which moves it.      *)
UserTakes(c) ==
  /\ c # keep
  /\ clips' = clips \ {c}
  /\ UNCHANGED <<keep, mtime, scanVars, pc, tried, reached>>

-----------------------------------------------------------------------------
Init ==
  /\ clips \in SUBSET Names
  /\ keep \in clips \cup {NoClip}
  /\ mtime \in [Names -> Time]
  /\ unread = Names /\ seen = {} /\ out = {} /\ newest = NoClip
  /\ pc = "scan" /\ tried = {} /\ reached = FALSE

Next ==
  \/ \E c \in unread : ReadEntry(c)
  \/ CloseDir
  \/ \E c \in out : rolling_delete_clip(c)
  \/ ReclaimDone
  \/ \E c \in clips : UserTakes(c)

Spec == Init /\ [][Next]_vars

-----------------------------------------------------------------------------
TypeOK ==
  /\ clips \subseteq Names /\ keep \in Names \cup {NoClip}
  /\ mtime \in [Names -> Time]
  /\ unread \subseteq Names /\ seen \subseteq Names /\ out \subseteq Names
  /\ newest \in Names \cup {NoClip}
  /\ pc \in {"scan", "delete", "done"} /\ tried \subseteq out
  /\ reached \in BOOLEAN

(* Whatever order the directory comes in, the buffer holds the oldest of    *)
(* the clips looked at: no clip left out is older than one that is in, and  *)
(* none is left out while there is room.                                    *)
OldestKept ==
  /\ \A a \in out, b \in seen \ out : rolling_compare(a, b)
  /\ seen # out => Cardinality(out) = MaxScan

(* A clip the reaper deletes is the oldest of those that were there during  *)
(* the scan and still are, but for those it failed to delete.               *)
DeletesOldestFirst ==
  [][\A c \in tried' \ tried : \A d \in (seen \cap clips) \ tried' : rolling_compare(c, d)]_vars

=============================================================================
