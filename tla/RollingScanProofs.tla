-------------------------- MODULE RollingScanProofs --------------------------
(***************************************************************************)
(* For any folder and any buffer size: the pass keeps the oldest clips and *)
(* deletes them oldest first.                                              *)
(***************************************************************************)
EXTENDS RollingScan, FiniteSetTheorems, WellFoundedInduction, TLAPS

(* The order of the clips is a strict total order. *)
LEMMA CompareIsTotalOrder ==
  ASSUME mtime \in [Names -> Time]
  PROVE  /\ \A a \in Names : ~rolling_compare(a, a)
         /\ \A a, b \in Names : a = b \/ rolling_compare(a, b) \/ rolling_compare(b, a)
         /\ \A a, b, c \in Names :
              rolling_compare(a, b) /\ rolling_compare(b, c) => rolling_compare(a, c)
<1>1. \A a \in Names : a \in Int /\ mtime[a] \in Int
  BY RollingScanAssumption DEF Time
<1>2. \A a \in Names : ~rolling_compare(a, a)
  BY <1>1 DEF rolling_compare
<1>3. \A a, b \in Names : a = b \/ rolling_compare(a, b) \/ rolling_compare(b, a)
  BY <1>1 DEF rolling_compare
<1>4. ASSUME NEW a \in Names, NEW b \in Names, NEW c \in Names,
             rolling_compare(a, b), rolling_compare(b, c)
      PROVE  rolling_compare(a, c)
  <2>1. /\ a \in Int /\ b \in Int /\ c \in Int
        /\ mtime[a] \in Int /\ mtime[b] \in Int /\ mtime[c] \in Int
    BY <1>1
  <2> QED BY <1>4, <2>1 DEF rolling_compare
<1> QED BY <1>2, <1>3, <1>4

(* A buffer that is not empty has a newest entry, and rolling_newest_index  *)
(* finds it.                                                                *)
LEMMA NewestExists ==
  ASSUME mtime \in [Names -> Time],
         NEW S \in SUBSET Names, IsFiniteSet(S), S # {}
  PROVE  /\ rolling_newest_index(S) \in S
         /\ \A b \in S \ {rolling_newest_index(S)} : rolling_compare(b, rolling_newest_index(S))
<1> DEFINE Newer(a) == {b \in S : rolling_compare(a, b)}
           T == {Newer(a) : a \in S}
<1>1. T \subseteq FiniteSubsetsOf(S) /\ T # {}
  <2>1. \A a \in S : Newer(a) \in SUBSET S
    OBVIOUS
  <2>2. FiniteSubsetsOf(S) = SUBSET S
    BY FS_FiniteSubsetsOfFinite
  <2>3. \A a \in S : Newer(a) \in FiniteSubsetsOf(S)
    BY <2>1, <2>2
  <2> QED BY <2>3
<1>2. \E x \in T : \A y \in T : <<y, x>> \notin StrictSubsetOrdering(S)
  <2> HIDE DEF T
  <2> QED BY <1>1, FS_StrictSubsetOrderingWellFounded, WFMin
<1>3. PICK a \in S : \A b \in S : <<Newer(b), Newer(a)>> \notin StrictSubsetOrdering(S)
  BY <1>2
<1>4. Newer(a) = {}
  <2> SUFFICES ASSUME NEW b \in Newer(a) PROVE FALSE
    OBVIOUS
  <2>1. Newer(b) \subseteq Newer(a) /\ b \notin Newer(b)
    BY CompareIsTotalOrder
  <2>2. <<Newer(b), Newer(a)>> \in StrictSubsetOrdering(S)
    BY <2>1 DEF StrictSubsetOrdering
  <2> QED BY <1>3, <2>2
<1>5. \A b \in S \ {a} : rolling_compare(b, a)
  BY <1>4, CompareIsTotalOrder
<1> QED BY <1>5 DEF rolling_newest_index

-----------------------------------------------------------------------------
(* What holds during the scan: the buffer is within bounds and its newest   *)
(* entry is known.                                                          *)
BufferOK ==
  /\ IsFiniteSet(out) /\ Cardinality(out) <= MaxScan
  /\ out \subseteq seen /\ seen \cap unread = {}
  /\ pc = "scan" => tried = {}
  /\ seen # {} => newest \in out /\ \A b \in out \ {newest} : rolling_compare(b, newest)

ScanInv == TypeOK /\ BufferOK /\ OldestKept

LEMMA ScanInvInit == Init => ScanInv
<1> SUFFICES ASSUME Init PROVE ScanInv
  OBVIOUS
<1> USE DEF Init
<1>1. TypeOK
  BY DEF TypeOK
<1>2. BufferOK
  BY FS_EmptySet, RollingScanAssumption DEF BufferOK
<1>3. OldestKept
  BY DEF OldestKept
<1> QED BY <1>1, <1>2, <1>3 DEF ScanInv

(* An entry that is read leaves the invariant in place. *)
LEMMA ReadEntryKeeps ==
  ASSUME ScanInv, NEW c \in unread, ReadEntry(c)
  PROVE  ScanInv'
<1> USE DEF ScanInv, ReadEntry
<1> c \in Names /\ c \notin seen /\ mtime \in [Names -> Time] /\ mtime' = mtime
  BY DEF TypeOK, BufferOK
<1>0. \A a, b \in Names : rolling_compare(a, b)' <=> rolling_compare(a, b)
  BY DEF rolling_compare
<1>1. CASE SkipEntry(c)
  <2>1. TypeOK'
    BY <1>1 DEF SkipEntry, TypeOK
  <2>2. BufferOK'
    BY <1>1, <1>0 DEF SkipEntry, BufferOK, TypeOK
  <2>3. OldestKept'
    BY <1>1, <1>0 DEF SkipEntry, OldestKept, TypeOK
  <2> QED BY <2>1, <2>2, <2>3
<1>2. CASE AppendEntry(c)
  <2> USE <1>2 DEF AppendEntry
  <2>1. TypeOK'
    BY DEF TypeOK
  <2>2. IsFiniteSet(out') /\ Cardinality(out') = Cardinality(out) + 1
        /\ Cardinality(out) \in Nat
    BY FS_AddElement, FS_CardinalityType DEF BufferOK
  <2>3. newest' \in out' /\ \A b \in out' \ {newest'} : rolling_compare(b, newest')
    <3>1. CASE out = {}
      BY <3>1
    <3>2. CASE out # {}
      <4>1. newest \in out /\ \A b \in out \ {newest} : rolling_compare(b, newest)
        BY <3>2 DEF BufferOK
      <4>2. out \subseteq Names
        BY DEF TypeOK
      <4>3. newest # c /\ newest \in Names
        BY <4>1, <4>2 DEF BufferOK
      <4> QED BY <3>2, <4>1, <4>2, <4>3, CompareIsTotalOrder
    <3> QED BY <3>1, <3>2
  <2>4. out' \subseteq Names /\ newest' \in Names
    BY <2>1, <2>3 DEF TypeOK
  <2>5. BufferOK'
    BY <2>2, <2>3, <2>4, <1>0, RollingScanAssumption DEF BufferOK
  <2>6. seen = out
    BY RollingScanAssumption DEF OldestKept
  <2>7. OldestKept'
    BY <2>6 DEF OldestKept
  <2> QED BY <2>1, <2>5, <2>7
<1>3. CASE ReplaceNewest(c)
  <2> USE <1>3 DEF ReplaceNewest
  <2>1. Cardinality(out) = MaxScan /\ out # {} /\ seen # {} /\ Cardinality(out) \in Nat
    BY FS_CardinalityType, FS_EmptySet, RollingScanAssumption DEF BufferOK
  <2>2. newest \in out /\ \A b \in out \ {newest} : rolling_compare(b, newest)
    BY <2>1 DEF BufferOK
  <2>3. newest \in Names /\ out \subseteq Names /\ seen \subseteq Names /\ newest # c
    BY <2>2 DEF TypeOK, BufferOK
  <2>4. CASE rolling_compare(c, newest)
    <3> DEFINE new == (out \ {newest}) \cup {c}
    <3>1. out' = new /\ newest' = rolling_newest_index(out')
      BY <2>4
    <3>2. IsFiniteSet(new) /\ Cardinality(new) = MaxScan
      <4>1. IsFiniteSet(out \ {newest}) /\ Cardinality(out \ {newest}) = MaxScan - 1
        BY <2>1, <2>2, FS_RemoveElement DEF BufferOK
      <4>2. c \notin out \ {newest}
        BY DEF BufferOK
      <4>3. IsFiniteSet(new) /\ Cardinality(new) = Cardinality(out \ {newest}) + 1
        <5> DEFINE rest == out \ {newest}
        <5> HIDE DEF rest
        <5>1. IsFiniteSet(rest \cup {c})
              /\ Cardinality(rest \cup {c}) =
                   IF c \in rest THEN Cardinality(rest) ELSE Cardinality(rest) + 1
          BY <4>1, FS_AddElement DEF rest
        <5> QED BY <4>2, <5>1 DEF rest
      <4> QED BY <4>1, <4>3, RollingScanAssumption
    <3>3. new \in SUBSET Names /\ new # {}
      BY <2>3
    <3>4. rolling_newest_index(new) \in new
          /\ \A b \in new \ {rolling_newest_index(new)} :
               rolling_compare(b, rolling_newest_index(new))
      <4> HIDE DEF new
      <4> QED BY <3>2, <3>3, NewestExists
    <3>5. newest' = rolling_newest_index(new)
      BY <3>1 DEF rolling_newest_index, rolling_compare
    <3>6. TypeOK'
      BY <3>1, <3>3, <3>4, <3>5 DEF TypeOK, BufferOK
    <3>7. \A b \in new \ {newest'} : rolling_compare(b, newest)'
      <4>1. \A b \in new \ {newest'} : rolling_compare(b, newest')
        BY <3>4, <3>5
      <4> QED BY <4>1 DEF rolling_compare
    <3>8. BufferOK'
      BY <3>1, <3>2, <3>4, <3>5, <3>7, RollingScanAssumption DEF BufferOK
    <3>9. \A a \in new, b \in seen' \ new : rolling_compare(a, b)
      <4> SUFFICES ASSUME NEW a \in new, NEW b \in seen' \ new
                   PROVE  rolling_compare(a, b)
        OBVIOUS
      <4>1. b = newest \/ b \in seen \ out
        OBVIOUS
      <4>2. rolling_compare(a, newest)
        BY <2>2, <2>4
      <4>3. b \in seen \ out => rolling_compare(newest, b)
        BY <2>2 DEF OldestKept
      <4>4. a \in Names /\ b \in Names
        BY <2>3, <4>1
      <4> QED BY <4>1, <4>2, <4>3, <4>4, <2>3, CompareIsTotalOrder
    <3>10. OldestKept'
      BY <3>1, <3>2, <3>9, <1>0, <3>3, <2>3 DEF OldestKept
    <3> QED BY <3>6, <3>8, <3>10
  <2>5. CASE ~rolling_compare(c, newest)
    <3>1. out' = out /\ newest' = newest /\ seen' = seen \cup {c}
      BY <2>5
    <3>2. TypeOK'
      BY <3>1 DEF TypeOK
    <3>3. BufferOK'
      BY <3>1, <2>2, <2>3, <1>0 DEF BufferOK
    <3>4. \A a \in out : rolling_compare(a, c)
      <4>1. rolling_compare(newest, c)
        BY <2>5, <2>3, CompareIsTotalOrder
      <4> QED BY <4>1, <2>2, <2>3, CompareIsTotalOrder
    <3>5. OldestKept'
      BY <3>1, <3>4, <2>1, <2>3, <1>0 DEF OldestKept
    <3> QED BY <3>2, <3>3, <3>5
  <2> QED BY <2>4, <2>5
<1> QED BY <1>1, <1>2, <1>3

(* So does every step. *)
LEMMA ScanInvNext == ScanInv /\ [Next]_vars => ScanInv'
<1> SUFFICES ASSUME ScanInv, [Next]_vars PROVE ScanInv'
  OBVIOUS
<1>0. ASSUME UNCHANGED <<keep, mtime, scanVars>>, tried' \subseteq out, clips' \subseteq Names,
             pc' = pc \/ pc' \in {"delete", "done"}, pc' = "scan" => tried' = tried,
             reached' \in BOOLEAN
      PROVE  ScanInv'
  <2>1. \A a, b \in Names : rolling_compare(a, b)' <=> rolling_compare(a, b)
    BY <1>0 DEF rolling_compare
  <2>2. TypeOK'
    BY <1>0 DEF ScanInv, TypeOK, scanVars
  <2>3. BufferOK'
    BY <1>0, <2>1 DEF ScanInv, BufferOK, TypeOK, scanVars
  <2>4. OldestKept'
    BY <1>0, <2>1 DEF ScanInv, OldestKept, TypeOK, scanVars
  <2> QED BY <2>2, <2>3, <2>4 DEF ScanInv
<1> USE DEF ScanInv
<1>1. CASE \E c \in unread : ReadEntry(c)
  BY <1>1, ReadEntryKeeps
<1>2. CASE CloseDir
  BY <1>2, <1>0 DEF CloseDir, TypeOK
<1>3. ASSUME NEW c \in out, rolling_delete_clip(c) PROVE ScanInv'
  BY <1>3, <1>0 DEF rolling_delete_clip, TypeOK
<1>4. CASE ReclaimDone
  BY <1>4, <1>0 DEF ReclaimDone, TypeOK
<1>5. ASSUME NEW c \in clips, UserTakes(c) PROVE ScanInv'
  BY <1>5, <1>0 DEF UserTakes, TypeOK
<1>6. CASE UNCHANGED vars
  BY <1>6, <1>0 DEF vars, TypeOK
<1> QED BY <1>1, <1>2, <1>3, <1>4, <1>5, <1>6 DEF Next

-----------------------------------------------------------------------------
(* rolling_scan: whatever order the directory is read in and however many   *)
(* clips it holds, the buffer holds the oldest of those looked at.          *)
THEOREM ScanKeepsOldest == Spec => []OldestKept
<1>1. ScanInv => OldestKept
  BY DEF ScanInv
<1> QED BY ScanInvInit, ScanInvNext, <1>1, PTL DEF Spec

(* record_rollingReclaim: a clip goes only after every older one has gone   *)
(* or has been tried, the ones the buffer had no room for included.         *)
THEOREM ReaperDeletesOldestFirst == Spec => DeletesOldestFirst
<1> DEFINE Step == \A c \in tried' \ tried : \A d \in (seen \cap clips) \ tried' :
                     rolling_compare(c, d)
<1>1. ScanInv /\ [Next]_vars => [Step]_vars
  <2> SUFFICES ASSUME ScanInv, Next PROVE Step
    OBVIOUS
  <2>1. ASSUME NEW c \in out, rolling_delete_clip(c),
               NEW d \in (seen \cap clips) \ tried'
        PROVE  rolling_compare(c, d)
    <3>1. CASE d \in out
      BY <2>1, <3>1 DEF rolling_delete_clip, NextCandidate
    <3>2. CASE d \notin out
      BY <2>1, <3>2 DEF ScanInv, OldestKept
    <3> QED BY <3>1, <3>2
  <2>2. ASSUME NEW c \in out, rolling_delete_clip(c) PROVE tried' \ tried \subseteq {c}
    BY <2>2 DEF rolling_delete_clip
  <2>3. (~ \E c \in out : rolling_delete_clip(c)) => tried' = tried
    BY DEF Next, ReadEntry, CloseDir, ReclaimDone, UserTakes
  <2> QED BY <2>1, <2>2, <2>3
<1> QED BY ScanInvInit, ScanInvNext, <1>1, PTL DEF Spec, DeletesOldestFirst

=============================================================================
