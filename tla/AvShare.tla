------------------------------- MODULE AvShare -------------------------------
(***************************************************************************)
(* The shared-memory ring that carries the live video from the record      *)
(* daemon (src/src/record/avshare.c) to the RTSP server (src/src/rtspLive/ *)
(* stream/avshare.c): the live encoder thread writes packets chunk by      *)
(* chunk, the RTSP reader copies whatever is there into the buffers it is  *)
(* given, and the daemon's main loop starts, stops and resets the stream.  *)
(* Each side keeps its own index; a slot's wflag says whose the slot is.   *)
(*                                                                         *)
(* A chunk is two halves long, so that a read may end inside one, and is   *)
(* named by its packet and its place in it.                                *)
(***************************************************************************)
EXTENDS Integers, Sequences, FiniteSets

CONSTANTS
  Slots,        \* SHAREBUF_COUNT
  MaxParts,     \* an I frame takes 1..MaxParts chunks
  MaxPackets,   \* bound: packets the encoder produces
  Resets,       \* whether LIVE_cmdSTOP arrives while a client watches
  SlowScan      \* whether chunks may be written while readFrame looks for one

ASSUME AvShareAssumption ==
  /\ Slots \in Nat \ {0} /\ MaxParts \in Nat \ {0} /\ MaxPackets \in Nat
  /\ Resets \in BOOLEAN /\ SlowScan \in BOOLEAN

Slot   == 0..(Slots - 1)
Types  == {"SPS", "I", "P"}
Packet == [pkt: 1..MaxPackets, type: Types, parts: 1..MaxParts]
Chunk  == [pkt: 1..MaxPackets, type: Types, part: 1..MaxParts, last: BOOLEAN]
Torn   == [torn |-> TRUE]                 \* a chunk that is being written
None   == [none |-> TRUE]                 \* no chunk

VARIABLES
  connected,    \* the shared connect flag of the video stream
  wflag,        \* wflag[s]: TRUE when writable, FALSE when readable
  data,         \* the contents of the slots
  live,         \* the live encoder thread runs
  mpc,          \* the daemon's main loop: "idle", or in live_stop
  widx,         \* the writer's idxNext
  todo,         \* packets vvLive_onFrame still has to add
  part,         \* chunks already added of the first of them
  wslot,        \* slot being written, or -1
  dropping,     \* iDropped > 0
  packets,      \* packets produced so far
  fresh,        \* nbFramesLive = 0
  ridx, rpos,   \* the reader's idxNext and posNext
  rpc,          \* the reader: "idle", "scan", "copy" or "release"
  rslot, roff,  \* the slot it copies from, and the offset
  scanned,      \* slots looked at since readFrame began to scan
  rchunk        \* history: the chunk a read ended in

mainVars   == <<live, mpc>>
writerVars == <<todo, part, wslot, dropping, packets, fresh>>
readerVars == <<ridx, rpos, rpc, rslot, roff, scanned, rchunk>>
vars == <<connected, wflag, data, mainVars, widx, writerVars, readerVars>>

Succ(s) == (s + 1) % Slots
NoneReadable == [s \in Slot |-> TRUE]

-----------------------------------------------------------------------------
(* The writer: vvLive_onFrame and avshare_addvid.                           *)

(* A stream begins with an I frame, and SPS/PPS go before every I frame.    *)
Frame(type, n) ==
  /\ live /\ todo = <<>> /\ (fresh => type = "I")
  /\ LET first == packets + 1 IN
       todo' = IF type = "I"
                 THEN <<[pkt |-> first, type |-> "SPS", parts |-> 1],
                        [pkt |-> first + 1, type |-> "I", parts |-> n]>>
                 ELSE <<[pkt |-> first, type |-> "P", parts |-> n]>>
  /\ packets' = packets + Len(todo')
  /\ packets' <= MaxPackets
  /\ fresh' = FALSE /\ part' = 0
  /\ UNCHANGED <<connected, wflag, data, mainVars, widx, wslot, dropping, readerVars>>

(* Mutant: after an overflow any packet is added again.                     *)
Dropped_Never == FALSE

(* While packets are being dropped only an I frame ends it.                 *)
Dropped == dropping /\ Head(todo).type # "I"

(* avshare_addvid leaves out a packet.                                      *)
DropPacket ==
  /\ todo # <<>> /\ wslot = -1 /\ part = 0 /\ Dropped
  /\ todo' = Tail(todo)
  /\ UNCHANGED <<connected, wflag, data, mainVars, widx, part, wslot, dropping,
                 packets, fresh, readerVars>>

(* avshare_add without a client: the index is rewound, the packet is over.  *)
AddUnconnected ==
  /\ todo # <<>> /\ wslot = -1 /\ (part = 0 => ~Dropped)
  /\ ~connected
  /\ widx' = 0 /\ todo' = Tail(todo) /\ part' = 0
  /\ dropping' = FALSE
  /\ UNCHANGED <<connected, wflag, data, mainVars, wslot, packets, fresh, readerVars>>

(* The next slot is still unread: the packet is cut off here.               *)
AddOverflow ==
  /\ todo # <<>> /\ wslot = -1 /\ (part = 0 => ~Dropped)
  /\ connected /\ ~wflag[widx]
  /\ dropping' = TRUE /\ todo' = Tail(todo) /\ part' = 0
  /\ UNCHANGED <<connected, wflag, data, mainVars, widx, wslot, packets, fresh, readerVars>>

(* Mutant: the packet is added whether or not the slot has been read.       *)
AddBegin_AnySlot ==
  /\ todo # <<>> /\ wslot = -1 /\ (part = 0 => ~Dropped)
  /\ connected
  /\ wslot' = widx /\ dropping' = FALSE
  /\ data' = [data EXCEPT ![widx] = Torn]
  /\ UNCHANGED <<connected, wflag, mainVars, widx, todo, part, packets, fresh, readerVars>>

(* memcpy into the slot ...                                                 *)
AddBegin ==
  /\ todo # <<>> /\ wslot = -1 /\ (part = 0 => ~Dropped)
  /\ connected /\ wflag[widx]
  /\ wslot' = widx /\ dropping' = FALSE
  /\ data' = [data EXCEPT ![widx] = Torn]
  /\ UNCHANGED <<connected, wflag, mainVars, widx, todo, part, packets, fresh, readerVars>>

(* Mutant: the index runs past the last slot.                               *)
AddEnd_NoWrap ==
  LET p == Head(todo)  last == part + 1 = p.parts IN
  /\ wslot # -1
  /\ data' = [data EXCEPT ![wslot] =
                [pkt |-> p.pkt, type |-> p.type, part |-> part + 1, last |-> last]]
  /\ wflag' = [wflag EXCEPT ![wslot] = FALSE]
  /\ widx' = widx + 1 /\ wslot' = -1
  /\ todo' = IF last THEN Tail(todo) ELSE todo
  /\ part' = IF last THEN 0 ELSE part + 1
  /\ UNCHANGED <<connected, mainVars, dropping, packets, fresh, readerVars>>

(* ... and then the slot is handed to the reader and the index advanced.    *)
AddEnd ==
  LET p == Head(todo)  last == part + 1 = p.parts IN
  /\ wslot # -1
  /\ data' = [data EXCEPT ![wslot] =
                [pkt |-> p.pkt, type |-> p.type, part |-> part + 1, last |-> last]]
  /\ wflag' = [wflag EXCEPT ![wslot] = FALSE]
  /\ widx' = Succ(widx) /\ wslot' = -1
  /\ todo' = IF last THEN Tail(todo) ELSE todo
  /\ part' = IF last THEN 0 ELSE part + 1
  /\ UNCHANGED <<connected, mainVars, dropping, packets, fresh, readerVars>>

-----------------------------------------------------------------------------
(* The daemon's main loop: live_run, live_start and live_stop.              *)

(* Creating an encoder takes the daemon far longer than the reader takes    *)
(* for the memcpys of one call, so no call lasts from before a reset to     *)
(* after the encoder that follows it.                                       *)
LiveStart ==
  /\ mpc = "idle" /\ connected /\ ~live
  /\ rpc = "idle"
  /\ live' = TRUE /\ fresh' = TRUE
  /\ UNCHANGED <<connected, wflag, data, mpc, widx, todo, part, wslot, dropping,
                 packets, readerVars>>

(* avshare_connected rewinds the writer's index; live_stop follows.         *)
LiveRunUnconnected ==
  /\ mpc = "idle" /\ ~connected
  /\ widx' = 0
  /\ mpc' = IF live THEN "stop" ELSE "idle"
  /\ UNCHANGED <<connected, wflag, data, live, writerVars, readerVars>>

(* LIVE_cmdSTOP, sent when the video input is switched.                     *)
LiveStop ==
  /\ Resets /\ mpc = "idle" /\ live
  /\ mpc' = "stop"
  /\ UNCHANGED <<connected, wflag, data, live, widx, writerVars, readerVars>>

(* The encoder thread is joined between two frames.                         *)
LiveJoin ==
  /\ mpc = "stop" /\ todo = <<>>
  /\ live' = FALSE /\ mpc' = "reset"
  /\ UNCHANGED <<connected, wflag, data, widx, writerVars, readerVars>>

(* avshare_reset, which is avshare_flush.                                   *)
avshare_reset ==
  /\ mpc = "reset" /\ mpc' = "idle"
  /\ wflag' = NoneReadable /\ widx' = 0
  /\ UNCHANGED <<connected, data, live, writerVars, readerVars>>

-----------------------------------------------------------------------------
(* The RTSP server: one event loop, one source.                             *)

(* Assumed of the clients: tearing a session down and setting up the next   *)
(* takes longer than the 100 ms in which live_run notices.                  *)
DisconnectNoticed == ~live /\ mpc = "idle" /\ todo = <<>> /\ widx = 0

(* avshare_start: the ring is attached and initialised, and the stream      *)
(* marked connected.                                                        *)
avshare_start ==
  /\ ~connected /\ rpc = "idle" /\ DisconnectNoticed
  /\ connected' = TRUE
  /\ wflag' = NoneReadable
  /\ ridx' = 0 /\ rpos' = 0 /\ rchunk' = None
  /\ UNCHANGED <<data, mainVars, widx, writerVars, rpc, rslot, roff, scanned>>

(* avshare_stop: avshare_disconnect frees the slots of the other medium,    *)
(* and those of the video wait for the next avshare_start.                  *)
avshare_stop ==
  /\ connected /\ rpc = "idle"
  /\ connected' = FALSE
  /\ UNCHANGED <<wflag, data, mainVars, widx, writerVars, readerVars>>

(* Where the reader finds its next chunk, at once: at its own slot, at the  *)
(* first readable one after it, or nowhere.                                 *)
ReadScan ==
  /\ ~SlowScan /\ connected /\ rpc = "idle"
  /\ IF ~wflag[ridx]
       THEN rslot' = ridx /\ roff' = rpos /\ rpc' = "copy" /\ UNCHANGED <<ridx, rpos, rchunk>>
       ELSE \/ \E d \in 1..(Slots - 1) :
                 LET s == (ridx + d) % Slots IN
                 /\ ~wflag[s] /\ \A e \in 1..(d - 1) : wflag[(ridx + e) % Slots]
                 /\ rslot' = s /\ roff' = 0 /\ rpc' = "copy"
                 /\ UNCHANGED <<ridx, rpos, rchunk>>
            \/ /\ \A s \in Slot : wflag[s]
               /\ rpos' = 0 /\ rchunk' = None
               /\ UNCHANGED <<ridx, rpc, rslot, roff>>
  /\ UNCHANGED <<connected, wflag, data, mainVars, widx, writerVars, scanned>>

(* The same, one slot at a time.                                            *)
ReadLook ==
  /\ SlowScan /\ connected /\ rpc = "idle"
  /\ IF ~wflag[ridx]
       THEN rpc' = "copy" /\ roff' = rpos
       ELSE rpc' = "scan" /\ roff' = 0
  /\ rslot' = ridx /\ scanned' = 0
  /\ UNCHANGED <<connected, wflag, data, mainVars, widx, writerVars, ridx, rpos, rchunk>>

ReadNext ==
  /\ rpc = "scan"
  /\ IF scanned = Slots
       THEN /\ rpc' = "idle" /\ ridx' = rslot /\ rpos' = 0 /\ rchunk' = None
            /\ UNCHANGED <<rslot, scanned>>
       ELSE /\ rslot' = Succ(rslot)
            /\ IF wflag[rslot'] THEN scanned' = scanned + 1 /\ UNCHANGED rpc
                                ELSE rpc' = "copy" /\ UNCHANGED scanned
            /\ UNCHANGED <<ridx, rpos, rchunk>>
  /\ UNCHANGED <<connected, wflag, data, mainVars, widx, writerVars, roff>>

(* The chunk, or what is left of it, is copied whole ...                    *)
ReadCopy ==
  /\ rpc = "copy" /\ rpc' = "release"
  /\ UNCHANGED <<connected, wflag, data, mainVars, widx, writerVars,
                 ridx, rpos, rslot, roff, scanned, rchunk>>

(* Mutant: the position inside the chunk is forgotten.                      *)
ReadPartly_NoPosition ==
  /\ rpc = "copy" /\ roff = 0 /\ rpc' = "idle"
  /\ ridx' = rslot /\ rpos' = 0 /\ rchunk' = data[rslot]
  /\ UNCHANGED <<connected, wflag, data, mainVars, widx, writerVars,
                 rslot, roff, scanned>>

(* ... or the caller's buffer ends inside it.                               *)
ReadPartly ==
  /\ rpc = "copy" /\ roff = 0 /\ rpc' = "idle"
  /\ ridx' = rslot /\ rpos' = 1 /\ rchunk' = data[rslot]
  /\ UNCHANGED <<connected, wflag, data, mainVars, widx, writerVars,
                 rslot, roff, scanned>>

(* Mutant: the reader's index stays where the call began.                   *)
ReadRelease_KeepsIndex ==
  /\ rpc = "release"
  /\ wflag' = [wflag EXCEPT ![rslot] = TRUE]
  /\ rslot' = Succ(rslot) /\ roff' = 0
  /\ \/ rpc' = "idle" /\ rpos' = 0 /\ rchunk' = None /\ UNCHANGED ridx
     \/ ~wflag'[rslot'] /\ rpc' = "copy" /\ UNCHANGED <<ridx, rpos, rchunk>>
  /\ UNCHANGED <<connected, data, mainVars, widx, writerVars, scanned>>

(* Mutant: the position is carried over to the next chunk.                  *)
ReadRelease_KeepsPosition ==
  /\ rpc = "release"
  /\ wflag' = [wflag EXCEPT ![rslot] = TRUE]
  /\ rslot' = Succ(rslot) /\ roff' = 0
  /\ \/ rpc' = "idle" /\ ridx' = rslot' /\ rchunk' = None /\ UNCHANGED rpos
     \/ ~wflag'[rslot'] /\ rpc' = "copy" /\ UNCHANGED <<ridx, rpos, rchunk>>
  /\ UNCHANGED <<connected, data, mainVars, widx, writerVars, scanned>>

(* The slot is given back. The call ends when the next one is not readable, *)
(* or the caller's buffer is full; otherwise that one is read.              *)
ReadRelease ==
  /\ rpc = "release"
  /\ wflag' = [wflag EXCEPT ![rslot] = TRUE]
  /\ rslot' = Succ(rslot) /\ roff' = 0
  /\ \/ rpc' = "idle" /\ ridx' = rslot' /\ rpos' = 0 /\ rchunk' = None
     \/ ~wflag'[rslot'] /\ rpc' = "copy" /\ UNCHANGED <<ridx, rpos, rchunk>>
  /\ UNCHANGED <<connected, data, mainVars, widx, writerVars, scanned>>

-----------------------------------------------------------------------------
Init ==
  /\ connected = FALSE /\ wflag = NoneReadable /\ data = [s \in Slot |-> None]
  /\ live = FALSE /\ mpc = "idle" /\ widx = 0
  /\ todo = <<>> /\ part = 0 /\ wslot = -1 /\ dropping = FALSE
  /\ packets = 0 /\ fresh = TRUE
  /\ ridx = 0 /\ rpos = 0 /\ rpc = "idle" /\ rslot = 0 /\ roff = 0
  /\ scanned = 0 /\ rchunk = None

Writer == DropPacket \/ AddUnconnected \/ AddOverflow \/ AddBegin \/ AddEnd
Main   == LiveStart \/ LiveRunUnconnected \/ LiveStop \/ LiveJoin \/ avshare_reset
Reader == ReadScan \/ ReadLook \/ ReadNext \/ ReadCopy \/ ReadPartly \/ ReadRelease
Client == avshare_start \/ avshare_stop

Next == \/ \E type \in {"I", "P"}, n \in 1..MaxParts : Frame(type, n)
        \/ Writer \/ Main \/ Reader \/ Client

Spec == Init /\ [][Next]_vars

(* The encoder thread finishes the frame it has and the RTSP event loop     *)
(* polls every millisecond.                                                 *)
FairSpec == Spec /\ WF_vars(Writer) /\ WF_vars(Reader)

-----------------------------------------------------------------------------
TypeOK ==
  /\ connected \in BOOLEAN /\ live \in BOOLEAN /\ mpc \in {"idle", "stop", "reset"}
  /\ wflag \in [Slot -> BOOLEAN]
  /\ data \in [Slot -> Chunk \cup {Torn, None}]
  /\ widx \in Slot /\ wslot \in Slot \cup {-1}
  /\ todo \in Seq(Packet) /\ part \in 0..MaxParts
  /\ dropping \in BOOLEAN /\ packets \in 0..MaxPackets /\ fresh \in BOOLEAN
  /\ ridx \in Slot /\ rpos \in {0, 1} /\ rslot \in Slot /\ roff \in {0, 1}
  /\ rpc \in {"idle", "scan", "copy", "release"} /\ scanned \in 0..Slots
  /\ rchunk \in Chunk \cup {Torn, None}

(* The reader never copies from a slot the writer is writing to.            *)
NoTornRead == rpc \in {"copy", "release"} => wslot # rslot /\ data[rslot] \in Chunk

(* What is read from an offset on is the rest of the chunk whose beginning  *)
(* was read before, and not the tail of another one.                        *)
NoSplice == rpc = "copy" /\ roff > 0 => data[rslot] = rchunk

(* The chunks in the ring, in the order they were written.                  *)
Before(a, b) == a.pkt < b.pkt \/ (a.pkt = b.pkt /\ a.part < b.part)
InOrder(ring) ==
  [i \in 1..Cardinality(ring) |->
     CHOOSE c \in ring : Cardinality({d \in ring : Before(d, c)}) = i - 1]
Queue == InOrder({data[s] : s \in {t \in Slot : ~wflag[t]}})

(* A packet that was cut off is followed by an I frame, never by a frame    *)
(* that needs what was lost.                                                *)
CutPacketsHeal ==
  \A i \in 1..(Len(Queue) - 1) :
    LET c == Queue[i]  d == Queue[i + 1] IN
    c.last \/ d.type = "I" \/ (d.pkt = c.pkt /\ d.part = c.part + 1)

(* What the ring promises: a bounded queue that is emptied when a stream    *)
(* begins or ends.                                                          *)
Fifo == INSTANCE ChunkFifo WITH queue <- Queue, Capacity <- Slots

RingIsFifo == Fifo!Spec

(* While a client watches, no chunk stays in the ring for good.             *)
ChunksAreRead == \A s \in Slot : (connected /\ ~wflag[s]) ~> (~connected \/ wflag[s])

=============================================================================
