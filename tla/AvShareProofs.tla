---------------------------- MODULE AvShareProofs ----------------------------
(***************************************************************************)
(* Proofs about AvShare, for every number of slots, of packets and of       *)
(* chunks in an I frame: what the two processes may do to each other over   *)
(* the ring's flags, and that the ring is the queue of ChunkFifo.           *)
(***************************************************************************)
EXTENDS AvShare, FiniteSetTheorems, FunctionTheorems, SequenceTheorems, TLAPS

USE AvShareAssumption DEF AvShareAssumption

(* The encoder thread is joined between two frames, and a packet that is    *)
(* being added has a chunk left.                                            *)
WriterOK ==
  /\ live \/ todo = <<>>
  /\ mpc = "reset" => ~live
  /\ todo = <<>> => wslot = -1 /\ part = 0
  /\ todo # <<>> => part < Head(todo).parts

(* Whose a slot is: the reader's are filled, the writer's is its own.       *)
SlotsOK ==
  /\ \A s \in Slot : ~wflag[s] => data[s] \in Chunk
  /\ wslot # -1 => wflag[wslot]

(* The slot that is copied stays the reader's until a reset, and after that *)
(* the writer does not come back before the call is over.                   *)
ReaderOK ==
  /\ rpc # "idle" => connected
  /\ rpc \in {"copy", "release"} => data[rslot] \in Chunk /\ (wflag[rslot] => ~live)

SharingInv == TypeOK /\ WriterOK /\ SlotsOK /\ ReaderOK

(* Without resets under a client: where a read ended inside a chunk, that   *)
(* chunk stays, whatever the writer does meanwhile.                         *)
PositionKept ==
  /\ connected => mpc = "idle"
  /\ rpc = "scan" => roff = 0
  /\ rpc \in {"copy", "release"} => ~wflag[rslot]
  /\ rpc = "copy" /\ roff = 1 => data[rslot] = rchunk
  /\ connected /\ rpc = "idle" /\ rpos = 1 => ~wflag[ridx] /\ data[ridx] = rchunk

-----------------------------------------------------------------------------
(* The ring as a queue.                                                     *)

(* The slot i places after r.                                               *)
Place(r, i) == IF r + i < Slots THEN r + i ELSE r + i - Slots

ReaderAt == IF rpc = "idle" THEN ridx ELSE rslot

(* The readable slots are the n from r on; the chunks in them were written  *)
(* in this order, all of them before the one that is next.                  *)
Segment(r, n) ==
  /\ \A i \in 0..(Slots - 1) : wflag[Place(r, i)] <=> i >= n
  /\ \A i, j \in 0..(n - 1) : i < j => Before(data[Place(r, i)], data[Place(r, j)])
  /\ \A i \in 0..(n - 1) :
       LET c == data[Place(r, i)] IN
       /\ c.pkt <= packets
       /\ todo # <<>> => \/ c.pkt < Head(todo).pkt
                         \/ c.pkt = Head(todo).pkt /\ c.part <= part

(* Both ends of it are where the two sides are.                             *)
Ends(r, n) ==
  /\ connected => r = ReaderAt /\ widx = Place(r, n)
  /\ wslot # -1 => n < Slots /\ wslot = Place(r, n)

PacketsOK ==
  /\ Len(todo) <= 2
  /\ \A i \in 1..Len(todo) : todo[i].pkt <= packets
  /\ Len(todo) = 2 => todo[1].pkt < todo[2].pkt
  /\ dropping => part = 0 /\ wslot = -1

(* d may follow c in the stream.                                            *)
Follows(c, d) == c.last \/ d.type = "I" \/ (d.pkt = c.pkt /\ d.part = c.part + 1)

(* The same of the last chunk in the ring and the one that is to come.      *)
HeadFollows(c) ==
  \/ c.last
  \/ wslot = -1 /\ dropping
  \/ todo # <<>> /\ \/ c.pkt = Head(todo).pkt /\ c.part = part
                    \/ wslot # -1 /\ Head(todo).type = "I"

Healing(r, n) ==
  /\ \A i \in 0..(n - 2) : Follows(data[Place(r, i)], data[Place(r, i + 1)])
  /\ n > 0 /\ (connected \/ wslot # -1) => HeadFollows(data[Place(r, n - 1)])

RingAt(r, n) == Segment(r, n) /\ Ends(r, n) /\ Healing(r, n)

RingInv == PacketsOK /\ rpc # "scan" /\ \E r \in Slot, n \in 0..Slots : RingAt(r, n)

-----------------------------------------------------------------------------
(* The ring's arithmetic and the writer's packets.                          *)

LEMMA SuccSlot == \A s \in Slot : Succ(s) \in Slot /\ Succ(s) = Place(s, 1)
  BY DEF Slot, Succ, Place

LEMMA TodoFacts ==
  ASSUME NEW s \in Seq(Packet), s # <<>>
  PROVE  /\ Head(s) \in Packet /\ Head(s) = s[1] /\ Len(s) >= 1
         /\ Tail(s) \in Seq(Packet) /\ Len(Tail(s)) = Len(s) - 1
         /\ \A i \in 1..Len(Tail(s)) : Tail(s)[i] = s[i + 1]
         /\ Tail(s) # <<>> => Head(Tail(s)) \in Packet /\ Head(Tail(s)) = s[2]
  OBVIOUS

(* What Frame puts in front of the writer.                                  *)
LEMMA FrameTodo ==
  ASSUME TypeOK, NEW type \in {"I", "P"}, NEW n \in 1..MaxParts, Frame(type, n)
  PROVE  /\ todo' \in Seq(Packet) /\ todo' # <<>> /\ packets' \in 0..MaxPackets
         /\ packets < packets'
         /\ Len(todo') <= 2
         /\ \A i \in 1..Len(todo') : packets < todo'[i].pkt /\ todo'[i].pkt <= packets'
         /\ Len(todo') = 2 => todo'[1].pkt < todo'[2].pkt
<1>1. packets \in Nat /\ MaxPackets \in Nat /\ MaxParts \in Nat /\ 1 \in 1..MaxParts  BY DEF TypeOK
<1>2. packets' = packets + Len(todo') /\ packets' <= MaxPackets  BY DEF Frame
<1>3. CASE type = "I"
  <2> DEFINE a == [pkt |-> packets + 1, type |-> "SPS", parts |-> 1]
             b == [pkt |-> packets + 1 + 1, type |-> "I", parts |-> n]
  <2>1. todo' = <<a, b>>  BY <1>3 DEF Frame
  <2>2. Len(todo') = 2 /\ packets' = packets + 2  BY <1>2, <2>1
  <2>3. a \in Packet /\ b \in Packet  BY <1>1, <1>2, <2>2 DEF Packet, Types
  <2> HIDE DEF a, b
  <2>4. a.pkt = packets + 1 /\ b.pkt = packets + 2  BY <1>1 DEF a, b
  <2> QED  BY <1>1, <1>2, <2>1, <2>2, <2>3, <2>4
<1>4. CASE type = "P"
  <2> DEFINE a == [pkt |-> packets + 1, type |-> "P", parts |-> n]
  <2>1. todo' = <<a>>  BY <1>4 DEF Frame
  <2>2. Len(todo') = 1 /\ packets' = packets + 1  BY <1>2, <2>1
  <2>3. a \in Packet  BY <1>1, <1>2, <2>2 DEF Packet, Types
  <2> HIDE DEF a
  <2>4. a.pkt = packets + 1  BY DEF a
  <2> QED  BY <1>1, <1>2, <2>1, <2>2, <2>3, <2>4
<1> QED  BY <1>3, <1>4

-----------------------------------------------------------------------------
(* Who may touch which slot.                                                *)

LEMMA InitSharing == Init => SharingInv
<1> SUFFICES ASSUME Init PROVE SharingInv  OBVIOUS
<1>1. 0 \in Slot  BY DEF Slot
<1>2. TypeOK  BY <1>1 DEF Init, TypeOK, NoneReadable
<1> QED  BY <1>2 DEF Init, SharingInv, WriterOK, SlotsOK, ReaderOK, NoneReadable

LEMMA FrameSharing ==
  ASSUME SharingInv, NEW type \in {"I", "P"}, NEW n \in 1..MaxParts, Frame(type, n)
  PROVE  SharingInv'
<1>1. todo' \in Seq(Packet) /\ todo' # <<>> /\ packets' \in 0..MaxPackets
  BY FrameTodo DEF SharingInv
<1>2. Head(todo') \in Packet  BY <1>1, TodoFacts
<1>3. /\ part' = 0 /\ fresh' = FALSE
      /\ UNCHANGED <<connected, wflag, data, mainVars, widx, wslot, dropping, readerVars>>
  BY DEF Frame
<1>4. TypeOK'
  <2>0. TypeOK BY DEF SharingInv
  <2>1. part' \in 0..MaxParts  BY <1>3
  <2>2. fresh' \in BOOLEAN  BY <1>3
  <2> QED  BY <1>1, <1>3, <2>0, <2>1, <2>2 DEF TypeOK, mainVars, readerVars
<1>5. WriterOK'
  <2>1. live /\ live' /\ part' = 0 /\ Head(todo').parts >= 1  BY <1>2 DEF Frame, mainVars, Packet
  <2> QED  BY <1>1, <2>1 DEF SharingInv, WriterOK, Frame, mainVars
<1>6. SlotsOK' /\ ReaderOK'
  BY <1>3 DEF SharingInv, SlotsOK, ReaderOK, mainVars, readerVars
<1> QED  BY <1>4, <1>5, <1>6 DEF SharingInv

LEMMA WriterSharing == SharingInv /\ Writer => SharingInv'
<1> SUFFICES ASSUME SharingInv, Writer PROVE SharingInv'  OBVIOUS
<1> USE DEF SharingInv, mainVars, writerVars, readerVars
<1>0. todo \in Seq(Packet) /\ part \in 0..MaxParts /\ 0 \in Slot  BY DEF TypeOK, Slot
<1>1. todo # <<>> /\ live
  BY DEF Writer, DropPacket, AddUnconnected, AddOverflow, AddBegin, AddEnd, WriterOK
<1>2. /\ Head(todo) \in Packet /\ Tail(todo) \in Seq(Packet)
      /\ Tail(todo) # <<>> => Head(Tail(todo)) \in Packet
  BY <1>0, <1>1, TodoFacts
<1>3. \A p \in Packet : p.parts > 0  BY DEF Packet
<1>4. CASE DropPacket \/ AddUnconnected \/ AddOverflow
  <2>1. /\ todo' = Tail(todo) /\ part' = 0 /\ wslot = -1 /\ widx' \in Slot
        /\ dropping' \in BOOLEAN
        /\ UNCHANGED <<connected, wflag, data, mainVars, wslot, packets, fresh, readerVars>>
    BY <1>0, <1>4 DEF DropPacket, AddUnconnected, AddOverflow, TypeOK
  <2>2. TypeOK'  BY <1>2, <2>1 DEF TypeOK
  <2>3. WriterOK'  BY <1>1, <1>2, <1>3, <2>1 DEF WriterOK
  <2> QED  BY <2>1, <2>2, <2>3 DEF SlotsOK, ReaderOK
<1>5. CASE AddBegin
  <2>1. widx \in Slot /\ wflag[widx] /\ wslot' = widx /\ widx # -1
    BY <1>5 DEF AddBegin, TypeOK, Slot
  <2>2. /\ data' = [data EXCEPT ![widx] = Torn] /\ dropping' = FALSE
        /\ UNCHANGED <<connected, wflag, mainVars, widx, todo, part, packets, fresh, readerVars>>
    BY <1>5 DEF AddBegin
  <2>3. \A s \in Slot : s # widx => data'[s] = data[s]  BY <2>2 DEF TypeOK
  <2>4. TypeOK'  BY <2>1, <2>2 DEF TypeOK
  <2>5. WriterOK'  BY <1>1, <2>2 DEF WriterOK
  <2>6. SlotsOK'  BY <2>1, <2>2, <2>3 DEF SlotsOK
  <2>7. ReaderOK'
    <3>1. rpc \in {"copy", "release"} => rslot # widx  BY <1>1, <2>1 DEF ReaderOK
    <3> QED  BY <2>2, <2>3, <3>1 DEF ReaderOK, TypeOK
  <2> QED  BY <2>4, <2>5, <2>6, <2>7
<1>6. CASE AddEnd
  <2> DEFINE p == Head(todo)
             c == [pkt |-> p.pkt, type |-> p.type, part |-> part + 1, last |-> part + 1 = p.parts]
  <2>1. /\ wslot \in Slot /\ wslot' = -1 /\ data' = [data EXCEPT ![wslot] = c]
        /\ wflag' = [wflag EXCEPT ![wslot] = FALSE] /\ widx' = Succ(widx)
        /\ todo' = IF part + 1 = p.parts THEN Tail(todo) ELSE todo
        /\ part' = IF part + 1 = p.parts THEN 0 ELSE part + 1
        /\ UNCHANGED <<connected, mainVars, dropping, packets, fresh, readerVars>>
    BY <1>6 DEF AddEnd, TypeOK
  <2>2. part < p.parts  BY <1>1 DEF WriterOK
  <2>3. c \in Chunk  BY <1>0, <1>2, <2>2 DEF Chunk, Packet
  <2>4. part' \in 0..MaxParts /\ todo' \in Seq(Packet)  BY <1>0, <1>2, <2>1, <2>2 DEF Packet
  <2> HIDE DEF c
  <2>5. TypeOK'  BY <2>1, <2>3, <2>4, SuccSlot DEF TypeOK
  <2>6. WriterOK'
    <3>1. live' = live /\ mpc' = mpc  BY <2>1
    <3>2. CASE part + 1 = p.parts
      BY <1>1, <1>2, <1>3, <2>1, <3>1, <3>2 DEF WriterOK
    <3>3. CASE part + 1 # p.parts
      <4>1. todo' = todo /\ part' = part + 1 /\ part + 1 < p.parts
        BY <1>0, <1>2, <2>1, <2>2, <3>3 DEF Packet
      <4> QED  BY <1>1, <2>1, <3>1, <4>1 DEF WriterOK
    <3> QED  BY <3>2, <3>3
  <2>7. data' \in [Slot -> Chunk \cup {Torn, None}] /\ data'[wslot] = c
        /\ \A s \in Slot : s # wslot => data'[s] = data[s] /\ wflag'[s] = wflag[s]
    BY <2>1, <2>3 DEF TypeOK
  <2>8. SlotsOK'  BY <2>1, <2>3, <2>7 DEF SlotsOK, TypeOK
  <2>9. ReaderOK'  BY <1>1, <2>1, <2>3, <2>7 DEF ReaderOK, TypeOK
  <2> QED  BY <2>5, <2>6, <2>8, <2>9
<1> QED  BY <1>4, <1>5, <1>6 DEF Writer

LEMMA MainSharing == SharingInv /\ Main => SharingInv'
<1> SUFFICES ASSUME SharingInv, Main PROVE SharingInv'  OBVIOUS
<1> USE DEF SharingInv, mainVars, writerVars, readerVars
<1>0. 0 \in Slot  BY DEF Slot
<1>1. CASE LiveStart
  BY <1>1 DEF LiveStart, TypeOK, WriterOK, SlotsOK, ReaderOK
<1>2. CASE LiveRunUnconnected
  BY <1>0, <1>2 DEF LiveRunUnconnected, TypeOK, WriterOK, SlotsOK, ReaderOK
<1>3. CASE LiveStop
  BY <1>3 DEF LiveStop, TypeOK, WriterOK, SlotsOK, ReaderOK
<1>4. CASE LiveJoin
  BY <1>4 DEF LiveJoin, TypeOK, WriterOK, SlotsOK, ReaderOK
<1>5. CASE avshare_reset
  <2>1. ~live /\ todo = <<>> /\ wslot = -1  BY <1>5 DEF avshare_reset, WriterOK
  <2>2. wflag' = [s \in Slot |-> TRUE]  BY <1>5 DEF avshare_reset, NoneReadable
  <2> QED  BY <1>0, <1>5, <2>1, <2>2 DEF avshare_reset, TypeOK, WriterOK, SlotsOK, ReaderOK
<1> QED  BY <1>1, <1>2, <1>3, <1>4, <1>5 DEF Main

LEMMA ReaderSharing == SharingInv /\ Reader => SharingInv'
<1> SUFFICES ASSUME SharingInv, Reader PROVE SharingInv'  OBVIOUS
<1> USE DEF SharingInv, mainVars, writerVars, readerVars
<1>0. rslot \in Slot /\ ridx \in Slot /\ \A d \in Nat : (ridx + d) % Slots \in Slot
  BY DEF TypeOK, Slot
<1>1. CASE ReadScan
  <2>1. UNCHANGED <<connected, wflag, data, mainVars, widx, writerVars, scanned>>
    BY <1>1 DEF ReadScan
  <2>2. /\ ridx' \in Slot /\ rpos' \in {0, 1} /\ roff' \in {0, 1} /\ connected
        /\ rchunk' \in Chunk \cup {None, Torn}
        /\ \/ rpc' = "idle" /\ rslot' = rslot
           \/ rpc' = "copy" /\ rslot' \in Slot /\ ~wflag[rslot']
    BY <1>0, <1>1 DEF ReadScan, TypeOK
  <2> QED  BY <2>1, <2>2 DEF TypeOK, WriterOK, SlotsOK, ReaderOK
<1>2. CASE ReadLook
  BY <1>0, <1>2 DEF ReadLook, TypeOK, WriterOK, SlotsOK, ReaderOK
<1>3. CASE ReadNext
  BY <1>0, <1>3, SuccSlot DEF ReadNext, TypeOK, WriterOK, SlotsOK, ReaderOK
<1>4. CASE ReadCopy
  BY <1>4 DEF ReadCopy, TypeOK, WriterOK, SlotsOK, ReaderOK
<1>5. CASE ReadPartly
  BY <1>0, <1>5 DEF ReadPartly, TypeOK, WriterOK, SlotsOK, ReaderOK
<1>6. CASE ReadRelease
  <2>1. /\ wflag' = [wflag EXCEPT ![rslot] = TRUE] /\ rslot' = Succ(rslot) /\ roff' = 0
        /\ UNCHANGED <<connected, data, mainVars, widx, writerVars, scanned>>
        /\ rpos' \in {0, 1} /\ ridx' \in Slot /\ rchunk' \in Chunk \cup {Torn, None}
        /\ \/ rpc' = "idle"
           \/ rpc' = "copy" /\ ~wflag'[rslot']
    BY <1>0, <1>6, SuccSlot DEF ReadRelease, TypeOK
  <2>2. rslot' \in Slot  BY <1>0, <2>1, SuccSlot
  <2>3. \A s \in Slot : ~wflag'[s] => ~wflag[s]  BY <2>1 DEF TypeOK
  <2>4. connected  BY <1>6 DEF ReadRelease, ReaderOK
  <2>5. TypeOK'  BY <2>1, <2>2 DEF TypeOK
  <2>6. SlotsOK'  BY <2>1, <2>3 DEF SlotsOK, TypeOK
  <2> QED  BY <2>1, <2>2, <2>3, <2>4, <2>5, <2>6 DEF WriterOK, SlotsOK, ReaderOK
<1> QED  BY <1>1, <1>2, <1>3, <1>4, <1>5, <1>6 DEF Reader

LEMMA ClientSharing == SharingInv /\ Client => SharingInv'
<1> SUFFICES ASSUME SharingInv, Client PROVE SharingInv'  OBVIOUS
<1> USE DEF SharingInv, mainVars, writerVars, readerVars
<1>1. CASE avshare_start
  <2>1. /\ todo = <<>> /\ wslot = -1 /\ rpc = "idle" /\ 0 \in Slot
        /\ wflag' = [s \in Slot |-> TRUE]
    BY <1>1 DEF avshare_start, DisconnectNoticed, WriterOK, NoneReadable, Slot
  <2> QED  BY <1>1, <2>1 DEF avshare_start, TypeOK, WriterOK, SlotsOK, ReaderOK
<1>2. CASE avshare_stop
  BY <1>2 DEF avshare_stop, TypeOK, WriterOK, SlotsOK, ReaderOK
<1> QED  BY <1>1, <1>2 DEF Client

LEMMA NextSharing == SharingInv /\ [Next]_vars => SharingInv'
<1> SUFFICES ASSUME SharingInv, [Next]_vars PROVE SharingInv'  OBVIOUS
<1>1. CASE \E type \in {"I", "P"}, n \in 1..MaxParts : Frame(type, n)  BY <1>1, FrameSharing
<1>2. CASE UNCHANGED vars
  BY <1>2 DEF vars, mainVars, writerVars, readerVars, SharingInv, TypeOK, WriterOK, SlotsOK, ReaderOK
<1> QED
  BY <1>1, <1>2, WriterSharing, MainSharing, ReaderSharing, ClientSharing DEF Next

LEMMA SharingCorrect == Spec => []SharingInv
  BY InitSharing, NextSharing, PTL DEF Spec

(* Every variable keeps its type: the indices stay inside the ring however   *)
(* writer, reader and resets follow each other, and no packet is added past  *)
(* its last chunk (avshare_add, avshare_readFrame).                          *)
THEOREM RingTypeCorrect == Spec => []TypeOK
<1>1. SharingInv => TypeOK  BY DEF SharingInv
<1> QED  BY <1>1, SharingCorrect, PTL

(* The reader never copies from a slot the writer is writing to, also when   *)
(* the ring is reset and the encoder started again under a client, and       *)
(* when chunks are written while readFrame looks for one.                    *)
THEOREM ReadNeverTorn == Spec => []NoTornRead
<1>1. SharingInv => NoTornRead
  BY DEF SharingInv, NoTornRead, TypeOK, Slot, WriterOK, SlotsOK, ReaderOK
<1> QED  BY <1>1, SharingCorrect, PTL

-----------------------------------------------------------------------------
(* Reads that end inside a chunk.                                           *)

LEMMA InitPosition == Init => PositionKept
  BY DEF Init, PositionKept

(* The reader's own slots are not written to.                               *)
LEMMA WriterPosition ==
  ASSUME SharingInv, PositionKept, Writer PROVE PositionKept'
<1> USE DEF SharingInv, mainVars, writerVars, readerVars
<1>1. UNCHANGED <<connected, mainVars, readerVars>>
  BY DEF Writer, DropPacket, AddUnconnected, AddOverflow, AddBegin, AddEnd
<1>2. \A s \in Slot : ~wflag[s] => ~wflag'[s] /\ data'[s] = data[s]
  <2>1. CASE DropPacket \/ AddUnconnected \/ AddOverflow
    BY <2>1 DEF DropPacket, AddUnconnected, AddOverflow
  <2>2. CASE AddBegin  BY <2>2 DEF AddBegin, TypeOK
  <2>3. CASE AddEnd
    <3>1. wslot \in Slot /\ wflag[wslot]  BY <2>3 DEF AddEnd, TypeOK, SlotsOK
    <3>2. /\ wflag' = [wflag EXCEPT ![wslot] = FALSE]
          /\ \A s \in Slot : s # wslot => data'[s] = data[s]
      BY <2>3, <3>1 DEF AddEnd, TypeOK
    <3> QED  BY <3>1, <3>2 DEF TypeOK
  <2> QED  BY <2>1, <2>2, <2>3 DEF Writer
<1>3. ridx \in Slot /\ rslot \in Slot  BY DEF TypeOK
<1>4. rpc = "copy" => ~wflag[rslot]  BY DEF PositionKept
<1> QED  BY <1>1, <1>2, <1>3, <1>4 DEF PositionKept

(* No reset comes while a client watches.                                   *)
LEMMA MainPosition ==
  ASSUME ~Resets, SharingInv, PositionKept, Main PROVE PositionKept'
<1> USE DEF mainVars, writerVars, readerVars
<1>1. UNCHANGED <<connected, data, readerVars>> /\ (connected => UNCHANGED <<mpc, wflag>>)
  BY DEF Main, LiveStart, LiveRunUnconnected, LiveStop, LiveJoin, avshare_reset, PositionKept
<1> QED  BY <1>1 DEF PositionKept, SharingInv, ReaderOK

LEMMA ReaderPosition ==
  ASSUME SharingInv, PositionKept, Reader PROVE PositionKept'
<1> USE DEF SharingInv, mainVars, writerVars, readerVars
<1>0. connected /\ rslot \in Slot /\ ridx \in Slot /\ rpos \in {0, 1}
  BY DEF Reader, ReadScan, ReadLook, ReadNext, ReadCopy, ReadPartly, ReadRelease, ReaderOK, TypeOK
<1>1. CASE ReadScan
  <2>1. CASE ~wflag[ridx]  BY <1>0, <1>1, <2>1 DEF ReadScan, PositionKept
  <2>2. CASE wflag[ridx]   BY <1>0, <1>1, <2>2 DEF ReadScan, PositionKept
  <2> QED  BY <2>1, <2>2
<1>2. CASE ReadLook     BY <1>0, <1>2 DEF ReadLook, PositionKept
<1>3. CASE ReadNext     BY <1>0, <1>3 DEF ReadNext, PositionKept
<1>4. CASE ReadCopy     BY <1>0, <1>4 DEF ReadCopy, PositionKept
<1>5. CASE ReadPartly   BY <1>0, <1>5 DEF ReadPartly, PositionKept
<1>6. CASE ReadRelease
  <2>1. (rpc' = "idle" /\ rpos' = 0) \/ (rpc' = "copy" /\ ~wflag'[rslot'])  BY <1>6 DEF ReadRelease
  <2> QED  BY <1>6, <2>1 DEF ReadRelease, PositionKept
<1> QED  BY <1>1, <1>2, <1>3, <1>4, <1>5, <1>6 DEF Reader

LEMMA NextPosition ==
  ASSUME ~Resets, SharingInv, PositionKept, [Next]_vars PROVE PositionKept'
<1> USE DEF mainVars, writerVars, readerVars
<1>1. ASSUME NEW type \in {"I", "P"}, NEW n \in 1..MaxParts, Frame(type, n)
      PROVE  PositionKept'
  BY <1>1 DEF Frame, PositionKept
<1>2. CASE Client
  <2>1. rpc = "idle" /\ rpc' = "idle"
    BY <1>2 DEF Client, avshare_start, avshare_stop
  <2>2. connected' => mpc' = "idle" /\ rpos' = 0
    BY <1>2 DEF Client, avshare_start, avshare_stop, DisconnectNoticed
  <2> QED  BY <2>1, <2>2 DEF PositionKept
<1>3. CASE UNCHANGED vars  BY <1>3 DEF vars, PositionKept
<1> QED
  BY <1>1, <1>2, <1>3, WriterPosition, MainPosition, ReaderPosition DEF Next

LEMMA PositionCorrect == ASSUME ~Resets PROVE Spec => []PositionKept
<1>1. SharingInv /\ PositionKept /\ [Next]_vars => PositionKept'  BY NextPosition
<1> QED  BY <1>1, InitPosition, SharingCorrect, PTL DEF Spec

(* Without resets under a client, what a read takes from an offset on is    *)
(* the rest of the chunk whose beginning was read before, for any ring and  *)
(* any reader that is slow to look for its slot (avshare_readFrame).        *)
THEOREM ReadsNeverSpliced == ASSUME ~Resets PROVE Spec => []NoSplice
<1>1. TypeOK /\ PositionKept => NoSplice  BY DEF TypeOK, PositionKept, NoSplice
<1> QED  BY <1>1, RingTypeCorrect, PositionCorrect, PTL

-----------------------------------------------------------------------------
(* A segment of the ring.                                                   *)

LEMMA PlaceFacts ==
  ASSUME NEW r \in Slot
  PROVE  /\ \A i \in 0..Slots : Place(r, i) \in Slot
         /\ Place(r, 0) = r /\ Place(r, Slots) = r
         /\ \A i, j \in 0..(Slots - 1) : Place(r, i) = Place(r, j) => i = j
         /\ \A s \in Slot : \E i \in 0..(Slots - 1) : s = Place(r, i)
         /\ \A i \in 0..(Slots - 1) : /\ Place(Place(r, 1), i) = Place(r, i + 1)
                                      /\ Succ(Place(r, i)) = Place(r, i + 1)
<1>1. \A i \in 0..Slots : Place(r, i) \in Slot  BY DEF Place, Slot
<1>2. Place(r, 0) = r /\ Place(r, Slots) = r  BY DEF Place, Slot
<1>3. \A i, j \in 0..(Slots - 1) : Place(r, i) = Place(r, j) => i = j  BY DEF Place, Slot
<1>4. ASSUME NEW s \in Slot PROVE \E i \in 0..(Slots - 1) : s = Place(r, i)
  <2>1. CASE s >= r
    <3>1. s - r \in 0..(Slots - 1) /\ s = Place(r, s - r)  BY <2>1 DEF Place, Slot
    <3> QED  BY <3>1
  <2>2. CASE s < r
    <3>1. s - r + Slots \in 0..(Slots - 1) /\ s = Place(r, s - r + Slots)
      BY <2>2 DEF Place, Slot
    <3> QED  BY <3>1
  <2> QED  BY <2>1, <2>2 DEF Slot
<1>5. ASSUME NEW i \in 0..(Slots - 1)
      PROVE  Place(Place(r, 1), i) = Place(r, i + 1) /\ Succ(Place(r, i)) = Place(r, i + 1)
  <2>1. Place(Place(r, 1), i) = Place(r, i + 1)  BY DEF Place, Slot
  <2>2. Succ(Place(r, i)) = Place(Place(r, i), 1)  BY <1>1, SuccSlot
  <2>3. Place(Place(r, i), 1) = Place(r, i + 1)  BY DEF Place, Slot
  <2> QED  BY <2>1, <2>2, <2>3
<1> QED  BY <1>1, <1>2, <1>3, <1>4, <1>5

(* The order in which chunks were written is a strict one.                  *)
LEMMA BeforeStrict ==
  /\ \A a \in Chunk : ~Before(a, a)
  /\ \A a, b \in Chunk : Before(a, b) => ~Before(b, a) /\ a # b
  BY DEF Before, Chunk

(* Sorting chunks that stand in a sequence in the order in which they were  *)
(* written gives that sequence.                                             *)
LEMMA SortedStays ==
  ASSUME NEW n \in Nat, NEW f \in [1..n -> Chunk],
         \A i, j \in 1..n : i < j => Before(f[i], f[j])
  PROVE  InOrder({f[i] : i \in 1..n}) = f
<1> DEFINE ring == {f[i] : i \in 1..n}
           Earlier(c) == {d \in ring : Before(d, c)}
<1>1. \A i, j \in 1..n : Before(f[i], f[j]) <=> i < j
  <2> TAKE i, j \in 1..n
  <2>1. f[i] \in Chunk /\ f[j] \in Chunk  OBVIOUS
  <2>2. i < j \/ i = j \/ j < i  OBVIOUS
  <2> QED  BY <2>1, <2>2, BeforeStrict
<1>2. \A i, j \in 1..n : f[i] = f[j] => i = j
  <2> TAKE i, j \in 1..n
  <2>1. f[i] \in Chunk /\ f[j] \in Chunk  OBVIOUS
  <2>2. i < j \/ i = j \/ j < i  OBVIOUS
  <2> QED  BY <2>1, <2>2, BeforeStrict
<1>3. ASSUME NEW m \in 0..n
      PROVE  Cardinality({f[i] : i \in 1..m}) = m
  <2> DEFINE g == [i \in 1..m |-> f[i]]
             S == {f[i] : i \in 1..m}
  <2>1. g \in Bijection(1..m, S)
    <3>1. g \in [1..m -> S]  OBVIOUS
    <3>2. \A a, b \in 1..m : g[a] = g[b] => a = b  BY <1>2
    <3>3. \A s \in S : \E a \in 1..m : g[a] = s  OBVIOUS
    <3> HIDE DEF g, S
    <3> QED  BY <3>1, <3>2, <3>3, Fun_IsBij
  <2>2. m \in Nat  OBVIOUS
  <2> HIDE DEF g, S
  <2>3. ExistsBijection(1..m, S)  BY <2>1 DEF ExistsBijection
  <2>4. Cardinality(S) = m  BY <2>2, <2>3, FS_CountingElements
  <2> QED  BY <2>4 DEF S
<1>4. ASSUME NEW j \in 1..n PROVE Cardinality(Earlier(f[j])) = j - 1
  <2>1. Earlier(f[j]) = {f[i] : i \in 1..(j - 1)}
    <3>1. ASSUME NEW d \in Earlier(f[j]) PROVE d \in {f[i] : i \in 1..(j - 1)}
      <4>1. PICK i \in 1..n : d = f[i]  OBVIOUS
      <4>2. i \in 1..(j - 1)  BY <1>1, <4>1
      <4> QED  BY <4>1, <4>2
    <3>2. ASSUME NEW i \in 1..(j - 1) PROVE f[i] \in Earlier(f[j])
      <4>1. i \in 1..n /\ i < j  OBVIOUS
      <4> QED  BY <1>1, <4>1
    <3> QED  BY <3>1, <3>2
  <2>2. j - 1 \in 0..n  OBVIOUS
  <2> QED  BY <1>3, <2>1, <2>2
<1>5. Cardinality(ring) = n  BY <1>3
<1>6. ASSUME NEW j \in 1..n
      PROVE  (CHOOSE c \in ring : Cardinality(Earlier(c)) = j - 1) = f[j]
  <2>1. f[j] \in ring /\ Cardinality(Earlier(f[j])) = j - 1  BY <1>4
  <2>2. \A c \in ring : Cardinality(Earlier(c)) = j - 1 => c = f[j]
    <3> SUFFICES ASSUME NEW c \in ring, Cardinality(Earlier(c)) = j - 1 PROVE c = f[j]
      OBVIOUS
    <3>1. PICK i \in 1..n : c = f[i]  OBVIOUS
    <3>2. i - 1 = j - 1  BY <1>4, <3>1
    <3> QED  BY <3>1, <3>2
  <2> HIDE DEF ring, Earlier
  <2> QED  BY <2>1, <2>2
<1>7. InOrder(ring) = [i \in 1..n |-> CHOOSE c \in ring : Cardinality(Earlier(c)) = i - 1]
  BY <1>5 DEF InOrder
<1> HIDE DEF ring, Earlier
<1>8. InOrder(ring) = [i \in 1..n |-> f[i]]  BY <1>6, <1>7
<1> QED  BY <1>8 DEF ring

-----------------------------------------------------------------------------
(* The ring from step to step, without resets under a client and with a     *)
(* reader that finds its slot at once.                                      *)

LEMMA InitRing == Init => RingInv
<1> SUFFICES ASSUME Init PROVE RingInv  OBVIOUS
<1>1. 0 \in Slot /\ 0 \in 0..Slots /\ Len(<<>>) = 0  BY DEF Slot
<1>2. todo = <<>> /\ wslot = -1 /\ ~connected /\ ~dropping /\ rpc = "idle"  BY DEF Init
<1>3. \A i \in 0..(Slots - 1) : wflag[Place(0, i)]
  BY <1>1, PlaceFacts DEF Init, NoneReadable
<1>4. Segment(0, 0)  BY <1>3 DEF Segment
<1>5. Ends(0, 0) /\ Healing(0, 0)  BY <1>2 DEF Ends, Healing
<1>6. PacketsOK  BY <1>1, <1>2 DEF PacketsOK
<1> QED  BY <1>1, <1>2, <1>4, <1>5, <1>6 DEF RingInv, RingAt

LEMMA RingFacts ==
  ASSUME SharingInv, NEW r \in Slot, NEW n \in 0..Slots, Segment(r, n)
  PROVE  \A i \in 0..(n - 1) :
           /\ i \in 0..(Slots - 1) /\ Place(r, i) \in Slot
           /\ ~wflag[Place(r, i)] /\ data[Place(r, i)] \in Chunk
<1> TAKE i \in 0..(n - 1)
<1>1. i \in 0..(Slots - 1)  OBVIOUS
<1>2. Place(r, i) \in Slot  BY <1>1, PlaceFacts
<1> QED  BY <1>1, <1>2 DEF Segment, SharingInv, SlotsOK

LEMMA NextPackets ==
  ASSUME SharingInv, PacketsOK, Next PROVE PacketsOK'
<1> USE DEF SharingInv, mainVars, writerVars, readerVars
<1>0. todo \in Seq(Packet) /\ packets \in Nat /\ Len(todo) \in Nat  BY DEF TypeOK
<1>1. ASSUME NEW type \in {"I", "P"}, NEW n \in 1..MaxParts, Frame(type, n)
      PROVE  PacketsOK'
  <2>1. part' = 0 /\ wslot' = wslot /\ wslot = -1
    BY <1>1 DEF Frame, WriterOK
  <2>2. /\ Len(todo') <= 2
        /\ \A i \in 1..Len(todo') : todo'[i].pkt <= packets'
        /\ Len(todo') = 2 => todo'[1].pkt < todo'[2].pkt
    BY <1>1, FrameTodo
  <2> QED  BY <2>1, <2>2 DEF PacketsOK
<1>2. ASSUME todo # <<>>, todo' = Tail(todo), packets' = packets, part' = 0, wslot' = -1
      PROVE  PacketsOK'
  <2>1. /\ Len(Tail(todo)) = Len(todo) - 1
        /\ \A i \in 1..Len(Tail(todo)) : Tail(todo)[i] = todo[i + 1]
    BY <1>0, <1>2, TodoFacts
  <2>2. \A i \in 1..Len(todo') : todo'[i].pkt <= packets'
    <3> TAKE i \in 1..Len(todo')
    <3>1. i + 1 \in 1..Len(todo) /\ todo'[i] = todo[i + 1]  BY <1>0, <1>2, <2>1
    <3> QED  BY <1>2, <3>1 DEF PacketsOK
  <2>3. Len(todo') <= 2 /\ Len(todo') # 2  BY <1>0, <1>2, <2>1 DEF PacketsOK
  <2> QED  BY <1>2, <2>2, <2>3 DEF PacketsOK
<1>3. CASE DropPacket \/ AddUnconnected \/ AddOverflow
  <2>1. todo # <<>> /\ todo' = Tail(todo) /\ packets' = packets /\ part' = 0 /\ wslot' = -1
    BY <1>3 DEF DropPacket, AddUnconnected, AddOverflow
  <2> QED  BY <1>2, <2>1
<1>4. CASE AddBegin  BY <1>4 DEF AddBegin, PacketsOK
<1>5. CASE AddEnd
  <2>1. todo # <<>> /\ packets' = packets /\ dropping' = dropping /\ wslot' = -1
    BY <1>5 DEF AddEnd, WriterOK
  <2>2. CASE part + 1 = Head(todo).parts
    <3>1. todo' = Tail(todo) /\ part' = 0  BY <1>5, <2>2 DEF AddEnd
    <3> QED  BY <1>2, <2>1, <3>1
  <2>3. CASE part + 1 # Head(todo).parts
    <3>1. todo' = todo /\ part' = part + 1  BY <1>5, <2>3 DEF AddEnd
    <3>2. ~dropping  BY <1>5 DEF AddEnd, PacketsOK
    <3> QED  BY <2>1, <3>1, <3>2 DEF PacketsOK
  <2> QED  BY <2>2, <2>3
<1>6. CASE Main \/ Reader \/ Client
  <2>1. UNCHANGED <<todo, packets, dropping, part, wslot>>
    BY <1>6 DEF Main, LiveStart, LiveRunUnconnected, LiveStop, LiveJoin, avshare_reset,
         Reader, ReadScan, ReadLook, ReadNext, ReadCopy, ReadPartly, ReadRelease,
         Client, avshare_start, avshare_stop
  <2> QED  BY <2>1 DEF PacketsOK
<1> QED  BY <1>1, <1>3, <1>4, <1>5, <1>6 DEF Next, Writer

(* The frames that are produced, added and cut off.                         *)
LEMMA FrameRing ==
  ASSUME SharingInv, NEW r \in Slot, NEW n \in 0..Slots, RingAt(r, n),
         NEW type \in {"I", "P"}, NEW k \in 1..MaxParts, Frame(type, k)
  PROVE  RingAt(r, n)'
<1> USE DEF RingAt
<1>1. /\ todo = <<>> /\ wslot = -1
      /\ UNCHANGED <<connected, wflag, data, widx, wslot, dropping, rpc, ridx, rslot>>
  BY DEF Frame, readerVars, SharingInv, WriterOK
<1>2. todo' \in Seq(Packet) /\ todo' # <<>> /\ packets < packets' /\ packets < Head(todo').pkt
      /\ packets \in Nat /\ packets' \in Nat /\ Head(todo') \in Packet
  <2>1. todo' \in Seq(Packet) /\ todo' # <<>> /\ packets' \in Nat /\ packets < packets'
    BY FrameTodo DEF SharingInv
  <2>2. Head(todo') = todo'[1] /\ 1 \in 1..Len(todo') /\ Head(todo') \in Packet  BY <2>1, TodoFacts
  <2>3. packets < todo'[1].pkt  BY <2>2, FrameTodo DEF SharingInv
  <2> QED  BY <2>1, <2>2, <2>3 DEF SharingInv, TypeOK
<1>3. Segment(r, n)'
  <2>1. \A i \in 0..(n - 1) : data[Place(r, i)] \in Chunk  BY RingFacts
  <2>2. \A i \in 0..(n - 1) : data[Place(r, i)].pkt <= packets  BY DEF Segment
  <2>3. \A c \in Chunk : c.pkt <= packets => c.pkt <= packets' /\ c.pkt < Head(todo').pkt
    BY <1>2 DEF Chunk, Packet
  <2>4. \A i \in 0..(n - 1) : data[Place(r, i)].pkt <= packets'
                                /\ data[Place(r, i)].pkt < Head(todo').pkt
    BY <2>1, <2>2, <2>3
  <2> QED  BY <1>1, <2>4 DEF Segment
<1>4. Ends(r, n)'  BY <1>1 DEF Ends, ReaderAt
<1>5. Healing(r, n)'  BY <1>1 DEF Healing, HeadFollows
<1> QED  BY <1>3, <1>4, <1>5

LEMMA ShortenRing ==
  ASSUME SharingInv, PacketsOK, NEW r \in Slot, NEW n \in 0..Slots, RingAt(r, n),
         DropPacket \/ AddUnconnected \/ AddOverflow
  PROVE  RingAt(r, n)'
<1> USE DEF RingAt, mainVars, writerVars, readerVars
<1>1. /\ todo # <<>> /\ todo' = Tail(todo) /\ part' = 0 /\ wslot = -1 /\ packets' = packets
      /\ UNCHANGED <<connected, wflag, data, wslot, rpc, ridx, rslot>>
      /\ connected => widx' = widx /\ dropping'
  BY DEF DropPacket, AddUnconnected, AddOverflow, Dropped
<1>2. todo \in Seq(Packet) /\ part \in Nat  BY DEF SharingInv, TypeOK
<1>3. /\ Head(todo) = todo[1] /\ Head(todo) \in Packet
      /\ Tail(todo) # <<>> => Head(Tail(todo)) = todo[2] /\ Head(Tail(todo)) \in Packet /\ Len(todo) = 2
  <2>1. Len(todo) \in Nat /\ Len(Tail(todo)) = Len(todo) - 1 /\ Tail(todo) \in Seq(Packet)
    BY <1>1, <1>2, TodoFacts
  <2>2. Tail(todo) # <<>> => Len(Tail(todo)) >= 1  BY <2>1
  <2>3. Tail(todo) # <<>> => Len(todo) = 2  BY <2>1, <2>2 DEF PacketsOK
  <2> QED  BY <1>1, <1>2, <2>3, TodoFacts
<1>4. Tail(todo) # <<>> => Head(todo).pkt < Head(todo').pkt  BY <1>1, <1>3 DEF PacketsOK
<1>5. Segment(r, n)'
  <2>1. \A i \in 0..(n - 1) : data[Place(r, i)] \in Chunk  BY RingFacts
  <2>2. \A c \in Chunk :
          /\ todo' # <<>>
          /\ \/ c.pkt < Head(todo).pkt
             \/ c.pkt = Head(todo).pkt /\ c.part <= part
          => c.pkt < Head(todo').pkt
    BY <1>1, <1>3, <1>4 DEF Chunk, Packet
  <2>3. \A i \in 0..(n - 1) : todo' # <<>> => data[Place(r, i)].pkt < Head(todo').pkt
    BY <1>1, <2>1, <2>2 DEF Segment
  <2> QED  BY <1>1, <2>3 DEF Segment
<1>6. Ends(r, n)'  BY <1>1 DEF Ends, ReaderAt
<1>7. Healing(r, n)'  BY <1>1 DEF Healing, HeadFollows
<1> QED  BY <1>5, <1>6, <1>7

LEMMA BeginRing ==
  ASSUME SharingInv, PacketsOK, NEW r \in Slot, NEW n \in 0..Slots, RingAt(r, n), AddBegin
  PROVE  /\ RingAt(r, n)'
         /\ \A i \in 0..(n - 1) : data'[Place(r, i)] = data[Place(r, i)]
<1> USE DEF RingAt, mainVars, writerVars, readerVars
<1>1. /\ todo # <<>> /\ wslot = -1 /\ (part = 0 => ~Dropped) /\ connected /\ wflag[widx]
      /\ wslot' = widx /\ data' = [data EXCEPT ![widx] = Torn]
      /\ UNCHANGED <<connected, wflag, widx, todo, part, packets, rpc, ridx, rslot>>
  BY DEF AddBegin
<1>2. \A i \in 0..(n - 1) : data'[Place(r, i)] = data[Place(r, i)]
  BY <1>1, RingFacts DEF SharingInv, TypeOK
<1>3. widx = Place(r, n) /\ n < Slots
  <2>1. widx = Place(r, n)  BY <1>1 DEF Ends
  <2>2. n # Slots
    <3>1. n = Slots => widx = Place(r, 0) /\ 0 \in 0..(Slots - 1)  BY <2>1, PlaceFacts
    <3> QED  BY <1>1, <3>1 DEF Segment
  <2> QED  BY <2>1, <2>2
<1>4. Segment(r, n)'  BY <1>1, <1>2 DEF Segment
<1>5. Ends(r, n)'  BY <1>1, <1>3 DEF Ends, ReaderAt
<1>6. Healing(r, n)'
  <2>1. \A i \in 0..(n - 2) : Follows(data[Place(r, i)], data[Place(r, i + 1)])'
    <3> TAKE i \in 0..(n - 2)
    <3>1. i \in 0..(n - 1) /\ i + 1 \in 0..(n - 1)  OBVIOUS
    <3>2. Follows(data[Place(r, i)], data[Place(r, i + 1)])  BY DEF Healing
    <3> QED  BY <1>2, <3>1, <3>2 DEF Follows
  <2>2. ASSUME n > 0 PROVE HeadFollows(data[Place(r, n - 1)])'
    <3>1. n - 1 \in 0..(n - 1)  BY <2>2
    <3>2. data'[Place(r, n - 1)] = data[Place(r, n - 1)]  BY <1>2, <3>1
    <3>3. HeadFollows(data[Place(r, n - 1)])  BY <1>1, <2>2 DEF Healing
    <3>4. dropping => Head(todo).type = "I"  BY <1>1 DEF PacketsOK, Dropped
    <3>5. wslot' # -1  BY <1>1 DEF SharingInv, TypeOK, Slot
    <3> QED  BY <1>1, <3>2, <3>3, <3>4, <3>5 DEF HeadFollows
  <2> QED  BY <2>1, <2>2 DEF Healing
<1> QED  BY <1>2, <1>4, <1>5, <1>6

(* A chunk is complete and the ring one longer.                             *)
LEMMA EndRing ==
  ASSUME SharingInv, PacketsOK, NEW r \in Slot, NEW n \in 0..Slots, RingAt(r, n), AddEnd
  PROVE  /\ n < Slots /\ RingAt(r, n + 1)'
         /\ \A i \in 0..(n - 1) : data'[Place(r, i)] = data[Place(r, i)]
<1> USE DEF RingAt, mainVars, writerVars, readerVars
<1> DEFINE p == Head(todo)
           c == [pkt |-> p.pkt, type |-> p.type, part |-> part + 1, last |-> part + 1 = p.parts]
<1>1. /\ todo # <<>> /\ wslot # -1 /\ wslot' = -1
      /\ data' = [data EXCEPT ![wslot] = c] /\ wflag' = [wflag EXCEPT ![wslot] = FALSE]
      /\ widx' = Succ(widx)
      /\ IF part + 1 = p.parts THEN todo' = Tail(todo) /\ part' = 0
                               ELSE todo' = todo /\ part' = part + 1
      /\ UNCHANGED <<connected, dropping, packets, rpc, ridx, rslot>>
  BY DEF AddEnd, SharingInv, WriterOK
<1>2. n < Slots /\ wslot = Place(r, n)  BY <1>1 DEF Ends
<1>3. /\ todo \in Seq(Packet) /\ part \in Nat /\ p \in Packet /\ p = todo[1] /\ 1 \in 1..Len(todo)
      /\ p.pkt <= packets /\ packets \in Nat /\ part < p.parts
  <2>1. todo \in Seq(Packet) /\ part \in Nat /\ packets \in Nat  BY DEF SharingInv, TypeOK
  <2>2. p \in Packet /\ p = todo[1] /\ 1 \in 1..Len(todo)  BY <1>1, <2>1, TodoFacts
  <2> QED  BY <1>1, <2>1, <2>2 DEF PacketsOK, SharingInv, WriterOK
<1>4. c \in Chunk /\ c.pkt = p.pkt /\ c.part = part + 1 /\ c.type = p.type
      /\ c.last = (part + 1 = p.parts)
  BY <1>3 DEF Chunk, Packet, SharingInv, TypeOK
<1> HIDE DEF c
<1>5. \A i \in 0..(n - 1) : Place(r, i) # wslot /\ data'[Place(r, i)] = data[Place(r, i)]
  <2> TAKE i \in 0..(n - 1)
  <2>1. Place(r, i) # Place(r, n)  BY <1>2, PlaceFacts
  <2> QED  BY <1>1, <1>2, <2>1, RingFacts DEF SharingInv, TypeOK
<1>6. data'[Place(r, n)] = c  BY <1>1, <1>2, <1>4, PlaceFacts DEF SharingInv, TypeOK
<1>7. \A i \in 0..(n - 1) :
        LET d == data[Place(r, i)] IN
        d \in Chunk /\ d.pkt <= packets /\ (d.pkt < p.pkt \/ (d.pkt = p.pkt /\ d.part <= part))
  BY <1>1, RingFacts DEF Segment
<1>8. todo' # <<>> => \/ p.pkt < Head(todo').pkt /\ Head(todo') \in Packet
                      \/ p = Head(todo') /\ part' = part + 1
  <2>1. CASE part + 1 = p.parts
    <3>1. todo' = Tail(todo)  BY <1>1, <2>1
    <3>2. todo' # <<>> => Head(todo') = todo[2] /\ Head(todo') \in Packet
      BY <1>1, <1>3, <3>1, TodoFacts
    <3>3. Len(todo) \in Nat /\ todo' \in Seq(Packet) /\ Len(todo') = Len(todo) - 1
      BY <1>1, <1>3, <3>1, TodoFacts
    <3>4. todo' # <<>> => Len(todo') >= 1  BY <3>3
    <3>5. todo' # <<>> => Len(todo) = 2  BY <3>3, <3>4 DEF PacketsOK
    <3> QED  BY <1>3, <3>2, <3>5 DEF PacketsOK
  <2>2. CASE part + 1 # p.parts  BY <1>1, <2>2
  <2> QED  BY <2>1, <2>2
<1>9. Segment(r, n + 1)'
  <2>1. \A i \in 0..(Slots - 1) : wflag'[Place(r, i)] <=> i >= n + 1
    <3> TAKE i \in 0..(Slots - 1)
    <3>0. i \in 0..Slots  OBVIOUS
    <3>1. Place(r, i) \in Slot  BY <3>0, PlaceFacts
    <3>2. wflag[Place(r, i)] <=> i >= n  BY DEF Segment
    <3>3. CASE i = n  BY <1>1, <1>2, <3>1, <3>3 DEF SharingInv, TypeOK
    <3>4. CASE i # n
      <4>1. Place(r, i) # wslot  BY <1>2, <3>4, PlaceFacts
      <4> QED  BY <1>1, <3>1, <3>2, <3>4, <4>1 DEF SharingInv, TypeOK
    <3> QED  BY <3>3, <3>4
  <2>2. ASSUME NEW i \in 0..n, NEW j \in 0..n, i < j
        PROVE  Before(data'[Place(r, i)], data'[Place(r, j)])
    <3>1. i \in 0..(n - 1) /\ data'[Place(r, i)] = data[Place(r, i)]  BY <1>5, <2>2
    <3>2. CASE j = n
      <4>1. \A d \in Chunk : d.pkt < p.pkt \/ (d.pkt = p.pkt /\ d.part <= part) => Before(d, c)
        BY <1>3, <1>4 DEF Before, Chunk, Packet
      <4> QED  BY <1>6, <1>7, <3>1, <3>2, <4>1
    <3>3. CASE j # n
      <4>1. j \in 0..(n - 1) /\ data'[Place(r, j)] = data[Place(r, j)]  BY <1>5, <3>3
      <4> QED  BY <2>2, <3>1, <4>1 DEF Segment
    <3> QED  BY <3>2, <3>3
  <2>3. \A d \in Chunk :
          d.pkt < p.pkt \/ (d.pkt = p.pkt /\ d.part <= part + 1)
          => (todo' # <<>> => \/ d.pkt < Head(todo').pkt
                              \/ d.pkt = Head(todo').pkt /\ d.part <= part')
    BY <1>3, <1>8 DEF Chunk, Packet
  <2>4. ASSUME NEW i \in 0..n
        PROVE  LET d == data'[Place(r, i)] IN
               /\ d.pkt <= packets'
               /\ todo' # <<>> => \/ d.pkt < Head(todo').pkt
                                  \/ d.pkt = Head(todo').pkt /\ d.part <= part'
    <3>1. CASE i = n  BY <1>1, <1>3, <1>4, <1>6, <2>3, <3>1
    <3>2. CASE i # n
      <4>1. i \in 0..(n - 1) /\ data'[Place(r, i)] = data[Place(r, i)]  BY <1>5, <3>2
      <4>2. \A d \in Chunk : d.part <= part => d.part <= part + 1  BY <1>3 DEF Chunk
      <4> QED  BY <1>1, <1>7, <2>3, <4>1, <4>2
    <3> QED  BY <3>1, <3>2
  <2>5. 0..(n + 1 - 1) = 0..n  OBVIOUS
  <2> QED  BY <2>1, <2>2, <2>4, <2>5 DEF Segment
<1>10. Ends(r, n + 1)'
  <2>1. connected' => r = ReaderAt' /\ widx' = Place(r, n + 1)
    <3>1. connected => r = ReaderAt /\ widx = Place(r, n)  BY DEF Ends
    <3>2. Succ(Place(r, n)) = Place(r, n + 1)  BY <1>2, PlaceFacts
    <3> QED  BY <1>1, <3>1, <3>2 DEF ReaderAt
  <2> QED  BY <1>1, <2>1 DEF Ends
<1>11. Healing(r, n + 1)'
  <2>1. ASSUME NEW i \in 0..(n - 1)
        PROVE  Follows(data'[Place(r, i)], data'[Place(r, i + 1)])
    <3>1. data'[Place(r, i)] = data[Place(r, i)]  BY <1>5
    <3>2. CASE i = n - 1
      <4>1. HeadFollows(data[Place(r, n - 1)]) /\ ~dropping  BY <1>1, <3>2 DEF Healing, PacketsOK
      <4>2. data'[Place(r, i + 1)] = c  BY <1>6, <3>2
      <4> QED  BY <1>1, <1>4, <3>1, <3>2, <4>1, <4>2 DEF HeadFollows, Follows
    <3>3. CASE i # n - 1
      <4>1. i \in 0..(n - 2) /\ i + 1 \in 0..(n - 1)  BY <3>3
      <4>2. data'[Place(r, i + 1)] = data[Place(r, i + 1)]  BY <1>5, <4>1
      <4> QED  BY <3>1, <4>1, <4>2 DEF Healing
    <3> QED  BY <3>2, <3>3
  <2>2. HeadFollows(data[Place(r, n)])'
    <3>1. CASE part + 1 = p.parts  BY <1>4, <1>6, <3>1 DEF HeadFollows
    <3>2. CASE part + 1 # p.parts  BY <1>1, <1>4, <1>6, <3>2 DEF HeadFollows
    <3> QED  BY <3>1, <3>2
  <2>3. n + 1 - 2 = n - 1 /\ n + 1 - 1 = n  OBVIOUS
  <2> QED  BY <2>1, <2>2, <2>3 DEF Healing
<1> QED  BY <1>2, <1>5, <1>9, <1>10, <1>11

(* Steps that move neither chunk nor index while a client watches.          *)
LEMMA QuietRing ==
  ASSUME SharingInv, NEW r \in Slot, NEW n \in 0..Slots, RingAt(r, n),
         UNCHANGED <<connected, wflag, data, writerVars>>,
         connected => widx' = widx /\ ReaderAt' = ReaderAt
  PROVE  RingAt(r, n)'
<1> USE DEF writerVars
<1>1. Segment(r, n)'  BY DEF RingAt, Segment
<1>2. Ends(r, n)'     BY DEF RingAt, Ends
<1>3. Healing(r, n)'  BY DEF RingAt, Healing, HeadFollows
<1> QED  BY <1>1, <1>2, <1>3 DEF RingAt

(* An empty ring with both sides at its first slot.                         *)
LEMMA EmptyRing ==
  ASSUME wflag' = NoneReadable, widx' = 0, connected' => ReaderAt' = 0, wslot' = -1
  PROVE  0 \in Slot /\ RingAt(0, 0)'
<1>1. 0 \in Slot  BY DEF Slot
<1>2. \A i \in 0..(Slots - 1) : wflag'[Place(0, i)]  BY <1>1, PlaceFacts DEF NoneReadable
<1>3. Segment(0, 0)'  BY <1>2 DEF Segment
<1>4. Ends(0, 0)'  BY <1>1, PlaceFacts DEF Ends
<1>5. Healing(0, 0)'  BY DEF Healing
<1> QED  BY <1>1, <1>3, <1>4, <1>5 DEF RingAt

LEMMA MainRing ==
  ASSUME ~Resets, SharingInv, NEW r \in Slot, NEW n \in 0..Slots, RingAt(r, n), PositionKept,
         Main
  PROVE  \/ UNCHANGED <<wflag, data>> /\ RingAt(r, n)'
         \/ wflag' = NoneReadable /\ 0 \in Slot /\ RingAt(0, 0)'
<1> USE DEF mainVars, writerVars, readerVars
<1>1. CASE LiveStart
  <2>1. /\ UNCHANGED <<connected, wflag, data, widx, todo, part, wslot, dropping, packets>>
        /\ ReaderAt' = ReaderAt
    BY <1>1 DEF LiveStart, ReaderAt
  <2>2. Segment(r, n)'  BY <2>1 DEF RingAt, Segment
  <2>3. Ends(r, n)'     BY <2>1 DEF RingAt, Ends
  <2>4. Healing(r, n)'  BY <2>1 DEF RingAt, Healing, HeadFollows
  <2> QED  BY <2>1, <2>2, <2>3, <2>4 DEF RingAt
<1>2. CASE LiveRunUnconnected \/ LiveStop \/ LiveJoin
  <2>1. /\ UNCHANGED <<connected, wflag, data, writerVars>>
        /\ connected => widx' = widx /\ ReaderAt' = ReaderAt
    BY <1>2 DEF LiveRunUnconnected, LiveStop, LiveJoin, ReaderAt
  <2> QED  BY <2>1, QuietRing
<1>3. CASE avshare_reset
  <2>1. wflag' = NoneReadable /\ widx' = 0 /\ wslot' = -1
    BY <1>3 DEF avshare_reset, SharingInv, WriterOK
  <2>2. ~connected'  BY <1>3 DEF avshare_reset, PositionKept
  <2> QED  BY <2>1, <2>2, EmptyRing
<1> QED  BY <1>1, <1>2, <1>3 DEF Main

(* The reader takes its chunks from the end of the ring it is at.           *)
LEMMA ReaderRing ==
  ASSUME ~SlowScan, SharingInv, PositionKept, rpc # "scan",
         NEW r \in Slot, NEW n \in 0..Slots, RingAt(r, n),
         ReadScan \/ ReadLook \/ ReadNext \/ ReadCopy \/ ReadPartly
  PROVE  UNCHANGED <<wflag, data>> /\ rpc' # "scan" /\ RingAt(r, n)'
<1> USE DEF mainVars, writerVars, readerVars
<1>1. /\ connected /\ UNCHANGED <<connected, wflag, data, writerVars, widx>>
  BY DEF ReadScan, ReadLook, ReadNext, ReadCopy, ReadPartly, SharingInv, ReaderOK
<1>2. rpc' # "scan" /\ ReaderAt' = ReaderAt
  <2>1. CASE ReadScan
    <3>1. CASE ~wflag[ridx]  BY <2>1, <3>1 DEF ReadScan, ReaderAt
    <3>2. CASE wflag[ridx]
      <4>1. ridx = r /\ rpc = "idle"  BY <1>1, <2>1 DEF ReadScan, RingAt, Ends, ReaderAt
      <4>2. 0 \in 0..(Slots - 1) /\ Place(r, 0) = r  BY PlaceFacts
      <4>3. n = 0  BY <3>2, <4>1, <4>2 DEF RingAt, Segment
      <4>4. ASSUME NEW s \in Slot PROVE wflag[s]
        <5>1. PICK i \in 0..(Slots - 1) : s = Place(r, i)  BY PlaceFacts
        <5> QED  BY <4>3, <5>1 DEF RingAt, Segment
      <4>5. \A d \in Nat : (ridx + d) % Slots \in Slot  BY <4>1 DEF Slot
      <4>6. UNCHANGED <<ridx, rpc>>  BY <2>1, <3>2, <4>4, <4>5 DEF ReadScan
      <4> QED  BY <4>1, <4>6 DEF ReaderAt
    <3> QED  BY <3>1, <3>2
  <2>2. CASE ReadLook \/ ReadNext  BY <2>2 DEF ReadLook, ReadNext
  <2>3. CASE ReadCopy \/ ReadPartly  BY <2>3 DEF ReadCopy, ReadPartly, ReaderAt
  <2> QED  BY <2>1, <2>2, <2>3
<1> QED  BY <1>1, <1>2, QuietRing

LEMMA ReleaseRing ==
  ASSUME SharingInv, PositionKept, NEW r \in Slot, NEW n \in 0..Slots, RingAt(r, n), ReadRelease
  PROVE  /\ n > 0 /\ data' = data /\ rpc' # "scan"
         /\ Place(r, 1) \in Slot /\ RingAt(Place(r, 1), n - 1)'
<1> USE DEF RingAt, mainVars, writerVars, readerVars
<1>1. /\ connected /\ ~wflag[rslot] /\ wflag' = [wflag EXCEPT ![rslot] = TRUE]
      /\ rslot' = Succ(rslot) /\ rpc' # "scan" /\ ReaderAt' = rslot' /\ ReaderAt = rslot
      /\ UNCHANGED <<connected, data, widx, todo, part, wslot, dropping, packets>>
  BY DEF ReadRelease, SharingInv, ReaderOK, PositionKept, ReaderAt
<1>2. rslot = r /\ widx = Place(r, n)  BY <1>1 DEF Ends
<1>3. Place(r, 1) \in Slot /\ rslot' = Place(r, 1)  BY <1>1, <1>2, SuccSlot
<1>4. n > 0
  <2>1. 0 \in 0..(Slots - 1) /\ Place(r, 0) = r  BY PlaceFacts
  <2> QED  BY <1>1, <1>2, <2>1 DEF Segment
<1>5. \A i \in 0..(Slots - 1) : Place(Place(r, 1), i) = Place(r, i + 1)  BY PlaceFacts
<1>6. Segment(Place(r, 1), n - 1)'
  <2>1. ASSUME NEW i \in 0..(Slots - 1)
        PROVE  wflag'[Place(Place(r, 1), i)] <=> i >= n - 1
    <3>1. CASE i = Slots - 1
      <4>1. Place(Place(r, 1), i) = r  BY <1>5, <3>1, PlaceFacts
      <4> QED  BY <1>1, <1>2, <3>1, <4>1 DEF SharingInv, TypeOK
    <3>2. CASE i # Slots - 1
      <4>1. i + 1 \in 0..(Slots - 1) /\ 0 \in 0..(Slots - 1) /\ i + 1 # 0  BY <3>2
      <4>2. Place(r, i + 1) # r /\ Place(r, i + 1) \in Slot
        <5>1. Place(r, i + 1) # Place(r, 0)  BY <4>1, PlaceFacts
        <5>2. Place(r, 0) = r /\ i + 1 \in 0..Slots  BY PlaceFacts
        <5> QED  BY <5>1, <5>2, PlaceFacts
      <4>3. wflag[Place(r, i + 1)] <=> i + 1 >= n  BY <4>1 DEF Segment
      <4>4. wflag'[Place(r, i + 1)] <=> i + 1 >= n
        BY <1>1, <1>2, <4>2, <4>3 DEF SharingInv, TypeOK
      <4> QED  BY <1>5, <4>4
    <3> QED  BY <3>1, <3>2
  <2>2. ASSUME NEW i \in 0..(n - 1 - 1)
        PROVE  /\ i + 1 \in 0..(n - 1) /\ Place(Place(r, 1), i) = Place(r, i + 1)
    BY <1>5
  <2>3. \A i, j \in 0..(n - 1 - 1) : i < j =>
          Before(data[Place(Place(r, 1), i)], data[Place(Place(r, 1), j)])
    <3> TAKE i, j \in 0..(n - 1 - 1)
    <3>1. i + 1 \in 0..(n - 1) /\ j + 1 \in 0..(n - 1) /\ (i < j => i + 1 < j + 1)  OBVIOUS
    <3> QED  BY <2>2, <3>1 DEF Segment
  <2>4. \A i \in 0..(n - 1 - 1) :
          LET c == data[Place(Place(r, 1), i)] IN
          /\ c.pkt <= packets
          /\ todo # <<>> => \/ c.pkt < Head(todo).pkt
                            \/ c.pkt = Head(todo).pkt /\ c.part <= part
    BY <2>2 DEF Segment
  <2> QED  BY <1>1, <2>1, <2>3, <2>4 DEF Segment
<1>7. Ends(Place(r, 1), n - 1)'
  <2>1. n - 1 \in 0..(Slots - 1) /\ Place(Place(r, 1), n - 1) = Place(r, n)  BY <1>4, <1>5
  <2> QED  BY <1>1, <1>2, <1>3, <2>1 DEF Ends
<1>8. Healing(Place(r, 1), n - 1)'
  <2>1. ASSUME NEW i \in 0..(n - 1 - 2)
        PROVE  Follows(data[Place(Place(r, 1), i)], data[Place(Place(r, 1), i + 1)])
    <3>1. /\ i + 1 \in 0..(n - 2) /\ i \in 0..(Slots - 1) /\ i + 1 \in 0..(Slots - 1)
      OBVIOUS
    <3>2. Follows(data[Place(r, i + 1)], data[Place(r, i + 1 + 1)])  BY <3>1 DEF Healing
    <3> QED  BY <1>5, <3>1, <3>2
  <2>2. ASSUME n - 1 > 0
        PROVE  HeadFollows(data[Place(Place(r, 1), n - 1 - 1)])
    <3>1. n - 1 - 1 \in 0..(Slots - 1) /\ n - 1 - 1 + 1 = n - 1  BY <2>2
    <3>2. Place(Place(r, 1), n - 1 - 1) = Place(r, n - 1)  BY <1>5, <3>1
    <3> QED  BY <1>1, <2>2, <3>2 DEF Healing
  <2> QED  BY <1>1, <2>1, <2>2 DEF Healing, HeadFollows
<1> QED  BY <1>1, <1>3, <1>4, <1>6, <1>7, <1>8

LEMMA ClientRing ==
  ASSUME SharingInv, NEW r \in Slot, NEW n \in 0..Slots, RingAt(r, n), Client
  PROVE  /\ rpc' # "scan"
         /\ \/ UNCHANGED <<wflag, data>> /\ RingAt(r, n)'
            \/ wflag' = NoneReadable /\ 0 \in Slot /\ RingAt(0, 0)'
<1> USE DEF mainVars, writerVars, readerVars
<1>1. rpc' # "scan"  BY DEF Client, avshare_start, avshare_stop
<1>2. CASE avshare_start
  <2>1. wflag' = NoneReadable /\ widx' = 0 /\ ReaderAt' = 0 /\ wslot' = -1
    BY <1>2 DEF avshare_start, DisconnectNoticed, ReaderAt, SharingInv, WriterOK
  <2> QED  BY <1>1, <2>1, EmptyRing
<1>3. CASE avshare_stop
  <2>1. ~connected' /\ UNCHANGED <<wflag, data, widx, writerVars>> /\ connected
    BY <1>3 DEF avshare_stop
  <2>2. Segment(r, n)'  BY <2>1 DEF RingAt, Segment
  <2>3. Ends(r, n)'     BY <2>1 DEF RingAt, Ends
  <2>4. Healing(r, n)'  BY <2>1 DEF RingAt, Healing, HeadFollows
  <2> QED  BY <1>1, <2>1, <2>2, <2>3, <2>4 DEF RingAt
<1> QED  BY <1>2, <1>3 DEF Client

(* Each step leaves the ring as it is, or it gains its last chunk, loses    *)
(* its first, or loses them all.                                            *)
LEMMA NextRing ==
  ASSUME ~Resets, ~SlowScan, SharingInv, PositionKept, PacketsOK, rpc # "scan",
         NEW r \in Slot, NEW n \in 0..Slots, RingAt(r, n), Next
  PROVE  /\ rpc' # "scan"
         /\ \/ /\ RingAt(r, n)'
               /\ \A i \in 0..(n - 1) : data'[Place(r, i)] = data[Place(r, i)]
            \/ /\ n < Slots /\ RingAt(r, n + 1)'
               /\ \A i \in 0..(n - 1) : data'[Place(r, i)] = data[Place(r, i)]
            \/ /\ n > 0 /\ Place(r, 1) \in Slot /\ RingAt(Place(r, 1), n - 1)'
               /\ data' = data
            \/ 0 \in Slot /\ RingAt(0, 0)'
<1>1. ASSUME NEW type \in {"I", "P"}, NEW k \in 1..MaxParts, Frame(type, k)
      PROVE  rpc' = rpc /\ data' = data /\ RingAt(r, n)'
  BY <1>1, FrameRing DEF Frame, readerVars
<1>2. CASE DropPacket \/ AddUnconnected \/ AddOverflow
  <2>1. rpc' = rpc /\ data' = data
    BY <1>2 DEF DropPacket, AddUnconnected, AddOverflow, readerVars
  <2> QED  BY <1>2, <2>1, ShortenRing
<1>3. CASE AddBegin
  <2>1. rpc' = rpc  BY <1>3 DEF AddBegin, readerVars
  <2> QED  BY <1>3, <2>1, BeginRing
<1>4. CASE AddEnd
  <2>1. rpc' = rpc  BY <1>4 DEF AddEnd, readerVars
  <2> QED  BY <1>4, <2>1, EndRing
<1>5. CASE Main
  <2>1. rpc' = rpc
    BY <1>5 DEF Main, LiveStart, LiveRunUnconnected, LiveStop, LiveJoin, avshare_reset, readerVars
  <2> QED  BY <1>5, <2>1, MainRing
<1>6. CASE ReadScan \/ ReadLook \/ ReadNext \/ ReadCopy \/ ReadPartly  BY <1>6, ReaderRing
<1>7. CASE ReadRelease  BY <1>7, ReleaseRing
<1>8. CASE Client  BY <1>8, ClientRing
<1> QED  BY <1>1, <1>2, <1>3, <1>4, <1>5, <1>6, <1>7, <1>8 DEF Next, Writer, Reader

LEMMA NextRingInv ==
  ASSUME ~Resets, ~SlowScan, SharingInv, PositionKept, RingInv, [Next]_vars
  PROVE  RingInv'
<1>1. PICK r \in Slot, n \in 0..Slots : RingAt(r, n)  BY DEF RingInv
<1>2. CASE Next
  <2>1. PacketsOK'  BY <1>2, NextPackets DEF RingInv
  <2>2. n < Slots => n + 1 \in 0..Slots  OBVIOUS
  <2>3. n > 0 => n - 1 \in 0..Slots  OBVIOUS
  <2>4. 0 \in 0..Slots  OBVIOUS
  <2>5. rpc' # "scan" /\ \E q \in Slot, m \in 0..Slots : RingAt(q, m)'
    BY <1>1, <1>2, <2>2, <2>3, <2>4, NextRing DEF RingInv
  <2> QED  BY <2>1, <2>5 DEF RingInv
<1>3. CASE UNCHANGED vars
  <2>1. RingAt(r, n)'
    <3> USE <1>3 DEF vars, mainVars, writerVars, readerVars
    <3>1. Segment(r, n)'  BY <1>1 DEF RingAt, Segment
    <3>2. Ends(r, n)'     BY <1>1 DEF RingAt, Ends, ReaderAt
    <3>3. Healing(r, n)'  BY <1>1 DEF RingAt, Healing, HeadFollows
    <3> QED  BY <3>1, <3>2, <3>3 DEF RingAt
  <2>2. PacketsOK' /\ rpc' # "scan"
    BY <1>3 DEF vars, writerVars, readerVars, RingInv, PacketsOK
  <2> QED  BY <2>1, <2>2 DEF RingInv
<1> QED  BY <1>2, <1>3

LEMMA RingCorrect == ASSUME ~Resets, ~SlowScan PROVE Spec => []RingInv
<1>1. SharingInv /\ PositionKept /\ RingInv /\ [Next]_vars => RingInv'  BY NextRingInv
<1> QED  BY <1>1, InitRing, SharingCorrect, PositionCorrect, PTL DEF Spec

-----------------------------------------------------------------------------
(* What the ring promises.                                                  *)

(* The chunks of a segment, in their order, are the queue.                  *)
LEMMA SegmentQueue ==
  ASSUME NEW wf, NEW d, NEW r \in Slot, NEW n \in 0..Slots,
         \A i \in 0..(Slots - 1) : wf[Place(r, i)] <=> i >= n,
         \A i \in 0..(n - 1) : d[Place(r, i)] \in Chunk,
         \A i, j \in 0..(n - 1) : i < j => Before(d[Place(r, i)], d[Place(r, j)])
  PROVE  InOrder({d[s] : s \in {t \in Slot : ~wf[t]}}) = [i \in 1..n |-> d[Place(r, i - 1)]]
<1> DEFINE f == [i \in 1..n |-> d[Place(r, i - 1)]]
<1>1. {d[s] : s \in {t \in Slot : ~wf[t]}} = {f[i] : i \in 1..n}
  <2>1. ASSUME NEW s \in Slot, ~wf[s] PROVE \E i \in 1..n : d[s] = f[i]
    <3>1. PICK k \in 0..(Slots - 1) : s = Place(r, k)  BY PlaceFacts
    <3>2. k + 1 \in 1..n /\ k + 1 - 1 = k  BY <2>1, <3>1
    <3>3. f[k + 1] = d[Place(r, k)]  BY <3>2
    <3> HIDE DEF f
    <3> QED  BY <3>1, <3>2, <3>3
  <2>2. ASSUME NEW i \in 1..n PROVE \E s \in Slot : ~wf[s] /\ f[i] = d[s]
    <3>1. i - 1 \in 0..(Slots - 1) /\ i - 1 \in 0..Slots /\ ~(i - 1 >= n)  OBVIOUS
    <3>2. Place(r, i - 1) \in Slot /\ ~wf[Place(r, i - 1)]  BY <3>1, PlaceFacts
    <3> QED  BY <3>2
  <2> QED  BY <2>1, <2>2
<1>2. f \in [1..n -> Chunk]
  <2>1. \A i \in 1..n : i - 1 \in 0..(n - 1)  OBVIOUS
  <2> QED  BY <2>1
<1>3. \A i, j \in 1..n : i < j => Before(f[i], f[j])
  <2> TAKE i, j \in 1..n
  <2>1. i - 1 \in 0..(n - 1) /\ j - 1 \in 0..(n - 1) /\ (i < j => i - 1 < j - 1)  OBVIOUS
  <2> QED  BY <2>1
<1>4. n \in Nat  OBVIOUS
<1> HIDE DEF f
<1>5. InOrder({f[i] : i \in 1..n}) = f  BY <1>2, <1>3, <1>4, SortedStays
<1> QED  BY <1>1, <1>5 DEF f

LEMMA RingQueue ==
  ASSUME SharingInv, NEW r \in Slot, NEW n \in 0..Slots, Segment(r, n)
  PROVE  Queue = [i \in 1..n |-> data[Place(r, i - 1)]]
<1>1. \A i \in 0..(n - 1) : data[Place(r, i)] \in Chunk  BY RingFacts
<1>2. /\ \A i \in 0..(Slots - 1) : wflag[Place(r, i)] <=> i >= n
      /\ \A i, j \in 0..(n - 1) : i < j => Before(data[Place(r, i)], data[Place(r, j)])
  BY DEF Segment
<1> QED  BY <1>1, <1>2, SegmentQueue DEF Queue

LEMMA RingQueueNext ==
  ASSUME SharingInv', NEW r \in Slot, NEW n \in 0..Slots, Segment(r, n)'
  PROVE  Queue' = [i \in 1..n |-> data'[Place(r, i - 1)]]
<1>1. ASSUME NEW i \in 0..(n - 1) PROVE data'[Place(r, i)] \in Chunk
  <2>1. i \in 0..(Slots - 1) /\ i \in 0..Slots /\ ~(i >= n)  OBVIOUS
  <2>2. Place(r, i) \in Slot  BY <2>1, PlaceFacts
  <2>3. ~wflag'[Place(r, i)]  BY <2>1 DEF Segment
  <2> QED  BY <2>2, <2>3 DEF SharingInv, SlotsOK
<1>2. /\ \A i \in 0..(Slots - 1) : wflag'[Place(r, i)] <=> i >= n
      /\ \A i, j \in 0..(n - 1) : i < j => Before(data'[Place(r, i)], data'[Place(r, j)])
  BY DEF Segment
<1> QED  BY <1>1, <1>2, SegmentQueue DEF Queue

LEMMA NextFifo ==
  ASSUME ~Resets, ~SlowScan, SharingInv, PositionKept, RingInv, SharingInv', Next
  PROVE  (Fifo!Put \/ Fifo!Get \/ Fifo!Clear) \/ UNCHANGED Queue
<1>1. PICK r \in Slot, n \in 0..Slots : RingAt(r, n)  BY DEF RingInv
<1>2. Queue = [i \in 1..n |-> data[Place(r, i - 1)]]  BY <1>1, RingQueue DEF RingAt
<1>3. \A i \in 0..(n - 1) : data[Place(r, i)] \in Chunk  BY <1>1, RingFacts DEF RingAt
<1>4. Queue \in Seq(Chunk) /\ Len(Queue) = n
  <2>1. \A i \in 1..n : i - 1 \in 0..(n - 1)  OBVIOUS
  <2>2. Queue \in [1..n -> Chunk]  BY <1>2, <1>3, <2>1
  <2> QED  BY <2>2
<1>5. ASSUME \A i \in 0..(n - 1) : data'[Place(r, i)] = data[Place(r, i)]
      PROVE  \A i \in 1..n : data'[Place(r, i - 1)] = Queue[i]
  <2> TAKE i \in 1..n
  <2>1. i - 1 \in 0..(n - 1)  OBVIOUS
  <2> QED  BY <1>2, <1>5, <2>1
<1>6. ASSUME RingAt(r, n)', \A i \in 0..(n - 1) : data'[Place(r, i)] = data[Place(r, i)]
      PROVE  UNCHANGED Queue
  <2>1. Queue' = [i \in 1..n |-> data'[Place(r, i - 1)]]  BY <1>6, RingQueueNext DEF RingAt
  <2>2. Queue' = [i \in 1..n |-> Queue[i]]  BY <1>5, <1>6, <2>1
  <2> QED  BY <1>2, <2>2
<1>7. ASSUME n < Slots, RingAt(r, n + 1)',
             \A i \in 0..(n - 1) : data'[Place(r, i)] = data[Place(r, i)]
      PROVE  Fifo!Put
  <2>1. n + 1 \in 0..Slots  BY <1>7
  <2>2. Queue' = [i \in 1..(n + 1) |-> data'[Place(r, i - 1)]]
    BY <1>7, <2>1, RingQueueNext DEF RingAt
  <2>3. Len(Queue') = n + 1  BY <2>2
  <2>4. \A i \in 1..n : Queue'[i] = Queue[i] /\ Queue[i] \in Chunk  BY <1>4, <1>5, <1>7, <2>2
  <2>5. SubSeq(Queue', 1, n) = Queue
    <3>1. \A i \in 1..n : Queue'[i] \in Chunk  BY <2>4
    <3>2. /\ SubSeq(Queue', 1, n) \in Seq(Chunk) /\ Len(SubSeq(Queue', 1, n)) = n
          /\ \A i \in 1..n : SubSeq(Queue', 1, n)[i] = Queue'[i]
      BY <3>1, SubSeqProperties
    <3> QED  BY <1>4, <2>4, <3>2, SeqEqual
  <2> QED  BY <1>4, <1>7, <2>3, <2>5 DEF Fifo!Put
<1>8. ASSUME n > 0, Place(r, 1) \in Slot, RingAt(Place(r, 1), n - 1)', data' = data
      PROVE  Fifo!Get
  <2>1. n - 1 \in 0..Slots  BY <1>8
  <2>2. Queue' = [i \in 1..(n - 1) |-> data'[Place(Place(r, 1), i - 1)]]
    BY <1>8, <2>1, RingQueueNext DEF RingAt
  <2>3. ASSUME NEW i \in 1..(n - 1)
        PROVE  data'[Place(Place(r, 1), i - 1)] = Queue[i + 1]
    <3>1. i - 1 \in 0..(Slots - 1) /\ i - 1 + 1 = i /\ i + 1 \in 1..n /\ i + 1 - 1 = i  OBVIOUS
    <3>2. Place(Place(r, 1), i - 1) = Place(r, i)  BY <3>1, PlaceFacts
    <3> QED  BY <1>2, <1>8, <3>1, <3>2
  <2>4. Queue' = [i \in 1..(n - 1) |-> Queue[i + 1]]  BY <2>2, <2>3
  <2>5. Queue # <<>>  BY <1>4, <1>8
  <2>6. /\ Tail(Queue) \in Seq(Chunk) /\ Len(Tail(Queue)) = n - 1
        /\ \A i \in 1..(n - 1) : Tail(Queue)[i] = Queue[i + 1]
    BY <1>4, <2>5, HeadTailProperties
  <2>7. Tail(Queue) = Queue'
    <3>1. \A i \in 1..(n - 1) : Queue[i + 1] \in Chunk  BY <1>4
    <3>2. Queue' \in [1..(n - 1) -> Chunk] /\ n - 1 \in Nat  BY <1>8, <2>4, <3>1
    <3>3. /\ Queue' \in Seq(Chunk) /\ Len(Queue') = n - 1
          /\ \A i \in 1..(n - 1) : Queue'[i] = Queue[i + 1]
      BY <2>4, <3>2
    <3> QED  BY <2>6, <3>3, SeqEqual
  <2> QED  BY <2>5, <2>7 DEF Fifo!Get
<1>9. ASSUME 0 \in Slot, RingAt(0, 0)' PROVE Fifo!Clear
  <2>1. 0 \in 0..Slots  OBVIOUS
  <2>2. Queue' = [i \in 1..0 |-> data'[Place(0, i - 1)]]
    BY <1>9, <2>1, RingQueueNext DEF RingAt
  <2> QED  BY <2>2 DEF Fifo!Clear
<1> QED  BY <1>1, <1>6, <1>7, <1>8, <1>9, NextRing DEF RingInv

(* Without resets under a client and with a reader that finds its slot at   *)
(* once, the ring of two processes and one flag a slot is a bounded queue:  *)
(* each chunk comes out once, in the order in which they were written       *)
(* (avshare_add, avshare_readFrame).                                        *)
THEOREM RingImplementsFifo == ASSUME ~Resets, ~SlowScan PROVE Spec => RingIsFifo
<1>1. Init => Queue = <<>>
  <2> SUFFICES ASSUME Init PROVE Queue = <<>>  OBVIOUS
  <2>1. 0 \in Slot /\ 0 \in 0..Slots  BY DEF Slot
  <2>2. Segment(0, 0)
    <3>1. \A i \in 0..(Slots - 1) : wflag[Place(0, i)]
      BY <2>1, PlaceFacts DEF Init, NoneReadable
    <3> QED  BY <3>1 DEF Segment
  <2> QED  BY <2>1, <2>2, InitSharing, RingQueue
<1>2. /\ SharingInv /\ PositionKept /\ RingInv /\ SharingInv' /\ [Next]_vars
      => [Fifo!Put \/ Fifo!Get \/ Fifo!Clear]_Queue
  <2>1. ASSUME UNCHANGED vars PROVE UNCHANGED Queue  BY <2>1 DEF vars, Queue
  <2> QED  BY <2>1, NextFifo
<1> QED
  BY <1>1, <1>2, SharingCorrect, PositionCorrect, RingCorrect, PTL DEF Spec, RingIsFifo, Fifo!Spec

(* Under the same conditions, a packet that an overflow cut off is followed *)
(* in the ring by an I frame, never by a frame that needs what was lost,    *)
(* wherever in the packet the ring filled up (avshare_addvid).              *)
THEOREM CutPacketsAlwaysHeal == ASSUME ~Resets, ~SlowScan PROVE Spec => []CutPacketsHeal
<1>1. SharingInv /\ RingInv => CutPacketsHeal
  <2> SUFFICES ASSUME SharingInv, RingInv PROVE CutPacketsHeal  OBVIOUS
  <2>1. PICK r \in Slot, n \in 0..Slots : RingAt(r, n)  BY DEF RingInv
  <2>2. Queue = [i \in 1..n |-> data[Place(r, i - 1)]]  BY <2>1, RingQueue DEF RingAt
  <2>3. Len(Queue) = n  BY <2>2
  <2>4. ASSUME NEW i \in 1..(n - 1) PROVE Follows(Queue[i], Queue[i + 1])
    <3>1. i - 1 \in 0..(n - 2) /\ i \in 1..n /\ i + 1 \in 1..n /\ i + 1 - 1 = i - 1 + 1  OBVIOUS
    <3>2. Follows(data[Place(r, i - 1)], data[Place(r, i - 1 + 1)])
      BY <2>1, <3>1 DEF RingAt, Healing
    <3> QED  BY <2>2, <3>1, <3>2
  <2> QED  BY <2>3, <2>4 DEF CutPacketsHeal, Follows
<1> QED  BY <1>1, SharingCorrect, RingCorrect, PTL

=============================================================================
