----------------------------- MODULE DvrProofs -----------------------------
(***************************************************************************)
(* Proofs about Dvr, for every setting of the thresholds and periods, every *)
(* queue and every set of sessions: the application knows of each recording *)
(* the daemon means to make.                                                *)
(***************************************************************************)
EXTENDS Dvr, TLAPS

(* What a thread does while it has dvr_mutex.                               *)
MutexOps == {"arm", "sendStart", "sendStop", "forget"}

(* The mutex is not taken in the middle of a handler: what is left of one   *)
(* holds no step under the lock, but for the end of dvr_update_status.      *)
HandlerOK(s) ==
  /\ s \in Seq(Ops)
  /\ \A i \in 2..Len(s) : s[i] # "detect" /\ (s[i] \in MutexOps => i = 2 /\ s[1] = "sendStop" /\ s[i] = "forget")
  /\ s # <<>> /\ s[1] = "detect" => Len(s) >= 2

Holder(s) == s # <<>> /\ s[1] \in MutexOps

Handlers == todo \in [Threads -> Seq(Ops)] /\ \A t \in Threads : HandlerOK(todo[t])

OneHolder == \A t, u \in Threads : Holder(todo[t]) /\ Holder(todo[u]) => t = u

(* When the application sees no recording, the last order, wherever it is   *)
(* by now, is not a START.                                                  *)
LastOrder ==
  /\ \A t \in Threads : At(t, "sendStart") => rec
  /\ \/ rec
     \/ \E t \in Threads : At(t, "sendStop")
     \/ queue # <<>> /\ queue[Len(queue)] # "start"
     \/ queue = <<>> /\ ~wanted
  /\ alive \/ ~wanted

DvrInv == Handlers /\ OneHolder /\ LastOrder

USE DvrAssumption DEF DvrAssumption

-----------------------------------------------------------------------------
(* Handlers as sequences.                                                   *)

LEMMA TailOK ==
  ASSUME NEW s, HandlerOK(s), s # <<>>
  PROVE  /\ HandlerOK(Tail(s))
         /\ Holder(Tail(s)) => s[1] = "sendStop" /\ Tail(s)[1] = "forget"
<1>1. s \in Seq(Ops) /\ Len(s) >= 1  BY DEF HandlerOK
<1>2. /\ Tail(s) \in Seq(Ops) /\ Len(Tail(s)) = Len(s) - 1
      /\ \A i \in 1..Len(Tail(s)) : Tail(s)[i] = s[i + 1]
  BY <1>1
<1>3. \A i \in 2..Len(Tail(s)) : Tail(s)[i] # "detect" /\ Tail(s)[i] \notin MutexOps
  <2> TAKE i \in 2..Len(Tail(s))
  <2>1. Tail(s)[i] = s[i + 1] /\ i + 1 \in 2..Len(s) /\ i + 1 # 2  BY <1>1, <1>2
  <2> QED  BY <2>1 DEF HandlerOK
<1>4. ASSUME Tail(s) # <<>>
      PROVE  /\ Tail(s)[1] # "detect"
             /\ Tail(s)[1] \in MutexOps => s[1] = "sendStop" /\ Tail(s)[1] = "forget"
  <2>1. Tail(s)[1] = s[2] /\ 2 \in 2..Len(s)  BY <1>1, <1>2, <1>4
  <2> QED  BY <2>1 DEF HandlerOK
<1> QED  BY <1>2, <1>3, <1>4 DEF HandlerOK, Holder

LEMMA LongTail ==
  ASSUME NEW s \in Seq(Ops), Len(s) >= 2 PROVE Tail(s) # <<>>
<1>1. Tail(s) \in Seq(Ops) /\ Len(Tail(s)) = Len(s) - 1  OBVIOUS
<1>2. \A n \in Nat : n >= 2 => n - 1 # 0  OBVIOUS
<1>3. Len(s) \in Nat  OBVIOUS
<1>4. Len(s) - 1 # 0  BY <1>2, <1>3
<1>5. Len(<<>>) = 0  OBVIOUS
<1> QED  BY <1>1, <1>4, <1>5

LEMMA ThenOK ==
  ASSUME NEW s, NEW ops, HandlerOK(s), s # <<>>, HandlerOK(ops), ops # <<>>, ops[1] # "detect",
         s[1] # "sendStop"
  PROVE  /\ HandlerOK(ops \o Tail(s))
         /\ ops \o Tail(s) # <<>> /\ (ops \o Tail(s))[1] = ops[1]
<1> DEFINE r == ops \o Tail(s)
<1>1. s \in Seq(Ops) /\ Len(s) >= 1 /\ ops \in Seq(Ops) /\ Len(ops) >= 1  BY DEF HandlerOK
<1>2. /\ Tail(s) \in Seq(Ops) /\ Len(Tail(s)) = Len(s) - 1
      /\ \A i \in 1..Len(Tail(s)) : Tail(s)[i] = s[i + 1]
  BY <1>1
<1>3. /\ r \in Seq(Ops) /\ Len(r) = Len(ops) + Len(s) - 1
      /\ \A i \in 1..Len(ops) : r[i] = ops[i]
      /\ \A i \in (Len(ops) + 1)..Len(r) : r[i] = Tail(s)[i - Len(ops)]
  BY <1>1, <1>2
<1>4. r # <<>> /\ r[1] = ops[1]  BY <1>1, <1>3
<1>5. ASSUME NEW i \in 2..Len(r)
      PROVE  r[i] # "detect" /\ (r[i] \in MutexOps => i = 2 /\ r[1] = "sendStop" /\ r[i] = "forget")
  <2>1. CASE i <= Len(ops)
    <3>1. r[i] = ops[i] /\ i \in 2..Len(ops)  BY <1>3, <2>1
    <3> QED  BY <1>4, <3>1 DEF HandlerOK
  <2>2. CASE i > Len(ops)
    <3>1. r[i] = s[i - Len(ops) + 1] /\ i - Len(ops) + 1 \in 2..Len(s)
      BY <1>1, <1>2, <1>3, <2>2
    <3> QED  BY <3>1 DEF HandlerOK
  <2> QED  BY <1>1, <2>1, <2>2
<1> QED  BY <1>3, <1>4, <1>5 DEF HandlerOK

LEMMA ShortOK ==
  /\ HandlerOK(<<>>)
  /\ \A a \in Ops \ {"detect"} : HandlerOK(<<a>>)
  /\ \A a \in Ops \ {"detect"}, b \in Ops \ (MutexOps \cup {"detect"}) : HandlerOK(<<a, b>>)
  /\ \A a \in Ops \ {"detect"}, b, c \in Ops \ (MutexOps \cup {"detect"}) : HandlerOK(<<a, b, c>>)
  /\ HandlerOK(<<"sendStop", "forget">>)
  /\ HandlerOK(<<"detect", "detected", "signal", "idle">>)
  /\ HandlerOK(<<"detect", "detected", "status", "signal", "idle">>)
  BY DEF HandlerOK, Ops, MutexOps

-----------------------------------------------------------------------------
(* Type correctness of everything but the handlers.                         *)

LEMMA SendType ==
  ASSUME ControlTypeOK, NEW cmd \in {"start", "stop", "live", "quit"}, Send(cmd)
  PROVE  queue' \in Seq({"start", "stop", "live", "quit"}) /\ Len(queue') <= MaxQueue
<1>1. /\ queue \in Seq({"start", "stop", "live", "quit"}) /\ Len(queue) <= MaxQueue
      /\ MaxQueue \in Nat \ {0}
  BY DEF ControlTypeOK
<1>2. CASE Len(queue) < MaxQueue /\ queue' = Append(queue, cmd)  BY <1>1, <1>2
<1>3. CASE Len(queue) = MaxQueue /\ queue' = Append(Tail(queue), cmd)
  <2>1. queue # <<>>  BY <1>1, <1>3
  <2>2. /\ Tail(queue) \in Seq({"start", "stop", "live", "quit"})
        /\ Len(Tail(queue)) = Len(queue) - 1
    BY <1>1, <2>1
  <2> QED  BY <1>1, <1>3, <2>2
<1>4. CASE UNCHANGED queue  BY <1>1, <1>4
<1> QED  BY <1>2, <1>3, <1>4 DEF Send

LEMMA SessionType ==
  ASSUME NEW s \in Sessions
  PROVE  /\ s.moves \in Nat /\ s.retimes \in Nat /\ s.manuals \in SUBSET BOOLEAN
         /\ s.sources \in SUBSET {"hdzero", "analog", "hdmi"}
<1>1. s \in [sources: SUBSET {"hdzero", "analog", "hdmi"},
             buttons: SUBSET {"press", "menu", "channel"}, manuals: SUBSET BOOLEAN,
             delay: BOOLEAN, lack: BOOLEAN, moves: Nat, retimes: Nat,
             backpack: SUBSET {"record", "channel"}, dual: BOOLEAN, crash: BOOLEAN]
  OBVIOUS
<1> QED  BY <1>1

LEMMA QueueType ==
  ASSUME TypeOK, Next
  PROVE  queue' \in Seq({"start", "stop", "live", "quit"}) /\ Len(queue') <= MaxQueue
<1>0. ControlTypeOK  BY DEF TypeOK
<1>1. CASE UNCHANGED queue  BY <1>0, <1>1 DEF ControlTypeOK
<1>2. ASSUME NEW t \in Threads, SendCommand(t)
      PROVE  queue' \in Seq({"start", "stop", "live", "quit"}) /\ Len(queue') <= MaxQueue
  BY <1>0, <1>2, SendType DEF SendCommand
<1>3. CASE RepairQuits  BY <1>0, <1>3, SendType DEF RepairQuits
<1>4. CASE RepairBoots \/ Receive
  <2>1. queue' = queue \/ queue' = <<>> \/ (queue # <<>> /\ queue' = Tail(queue))
    BY <1>4 DEF RepairBoots, Receive
  <2>2. /\ queue \in Seq({"start", "stop", "live", "quit"}) /\ Len(queue) <= MaxQueue
        /\ MaxQueue \in Nat \ {0}
    BY <1>0 DEF ControlTypeOK
  <2>3. CASE queue # <<>> /\ queue' = Tail(queue)
    <3>1. /\ Tail(queue) \in Seq({"start", "stop", "live", "quit"})
          /\ Len(Tail(queue)) = Len(queue) - 1
      BY <2>2, <2>3
    <3> QED  BY <2>2, <2>3, <3>1
  <2>4. CASE queue' = <<>>  BY <2>2, <2>4
  <2>5. CASE queue' = queue  BY <2>2, <2>5
  <2> QED  BY <2>1, <2>3, <2>4, <2>5
<1>5. CASE PeripheralStep /\ ~SendCommand("per")
  <2>1. UNCHANGED queue
    BY <1>5 DEF PeripheralStep, Tick, Detect, Detected, UpdateStatus, Forget, CheckSignal, CountSignal,
      CrossOver, ThreadStep, Command, BeginStart, Arm, EndRecording, Tune, Assign
  <2> QED  BY <1>1, <2>1
<1>6. ASSUME NEW t \in Threads, ThreadStep(t), ~SendCommand(t) PROVE UNCHANGED queue
  BY <1>6 DEF ThreadStep, Command, BeginStart, Arm, EndRecording, Tune, Assign
<1>7. CASE UserStep \/ BackpackStep \/ TimerFires \/ GraceElapses
  <2>1. UNCHANGED queue
    BY <1>7 DEF UserStep, Press, EnterMenu, EnterVideo, ChangeChannel, SetManual,
      BackpackStep, SetRecState, BackpackChannel, TimerFires, GraceElapses
  <2> QED  BY <1>1, <2>1
<1>8. CASE RepairBegins \/ RepairUnmounts \/ RepairMounts \/ RepairReturns \/ DaemonWorks
             \/ SignalChanges \/ CardChanges
  <2>1. UNCHANGED queue
    BY <1>8 DEF RepairBegins, RepairUnmounts, RepairMounts, RepairReturns, DaemonWorks,
      SignalChanges, CardChanges
  <2> QED  BY <1>1, <2>1
<1>9. "ui" \in Threads /\ "per" \in Threads /\ "esp" \in Threads  BY DEF Threads
<1> QED
  BY <1>1, <1>2, <1>3, <1>4, <1>5, <1>6, <1>7, <1>8, <1>9 DEF Next, RepairStep

-----------------------------------------------------------------------------
(* Steps outside the lock.                                                  *)

LEMMA PlainStep ==
  ASSUME DvrInv, NEW t \in Threads, NEW s, todo' = [todo EXCEPT ![t] = s],
         HandlerOK(s), ~Holder(s), ~Holder(todo[t]), UNCHANGED <<rec, queue, alive, wanted>>
  PROVE  DvrInv'
<1>1. /\ todo \in [Threads -> Seq(Ops)]
      /\ todo'[t] = s /\ \A u \in Threads \ {t} : todo'[u] = todo[u]
  BY DEF DvrInv, Handlers
<1>2. Handlers'  BY <1>1 DEF DvrInv, Handlers, HandlerOK
<1>3. OneHolder'  BY <1>1 DEF DvrInv, OneHolder
<1>4. \A u \in Threads, op \in MutexOps : At(u, op)' = At(u, op)
  BY <1>1 DEF At, Idle, Holder
<1>5. LastOrder'
  <2>1. \A u \in Threads : At(u, "sendStart")' = At(u, "sendStart") /\ At(u, "sendStop")' = At(u, "sendStop")
    BY <1>4 DEF MutexOps
  <2> QED  BY <2>1 DEF DvrInv, LastOrder
<1> QED  BY <1>2, <1>3, <1>5 DEF DvrInv

LEMMA PlainThen ==
  ASSUME DvrInv, NEW t \in Threads, NEW ops, todo' = [todo EXCEPT ![t] = ops \o Tail(@)],
         todo[t] # <<>>, ~Holder(todo[t]), HandlerOK(ops),
         ops # <<>> => ops[1] # "detect" /\ ops[1] \notin MutexOps,
         UNCHANGED <<rec, queue, alive, wanted>>
  PROVE  DvrInv'
<1> DEFINE s == ops \o Tail(todo[t])
<1>1. HandlerOK(todo[t]) /\ todo[t] \in Seq(Ops) /\ todo' = [todo EXCEPT ![t] = s]
  BY DEF DvrInv, Handlers
<1>2. todo[t][1] # "sendStop"  BY DEF Holder, MutexOps
<1>3. CASE ops = <<>>
  <2>1. s = Tail(todo[t])  BY <1>1, <1>3
  <2>2. HandlerOK(s) /\ ~Holder(s)  BY <1>1, <1>2, <2>1, TailOK
  <2> QED  BY <1>1, <2>2, PlainStep
<1>4. CASE ops # <<>>
  <2>1. HandlerOK(s) /\ s # <<>> /\ s[1] = ops[1]  BY <1>1, <1>2, <1>4, ThenOK
  <2>2. ~Holder(s)  BY <1>4, <2>1 DEF Holder
  <2> QED  BY <1>1, <2>1, <2>2, PlainStep
<1> QED  BY <1>3, <1>4

LEMMA PlainHandle ==
  ASSUME DvrInv, NEW t \in Threads, NEW ops, Handle(t, ops), HandlerOK(ops), ~Holder(ops),
         UNCHANGED <<rec, queue, alive, wanted>>
  PROVE  DvrInv'
<1>1. ~Holder(todo[t]) /\ todo' = [todo EXCEPT ![t] = ops]  BY DEF Handle, Idle, Holder
<1> QED  BY <1>1, PlainStep

(* A step outside the lock is found at the head of its handler.             *)
LEMMA AtPlain ==
  ASSUME DvrInv, NEW t \in Threads, NEW op, At(t, op)
  PROVE  /\ todo[t] # <<>> /\ todo[t][1] = op
         /\ op \notin MutexOps => ~Holder(todo[t])
<1>1. todo[t] \in Seq(Ops) /\ todo[t] # <<>>  BY DEF DvrInv, Handlers, At, Idle
<1> QED  BY <1>1 DEF At, Holder

-----------------------------------------------------------------------------
(* The operations of dvr.c under the lock.                                  *)

(* While the lock is free nobody is about to send an order under it.        *)
LEMMA MutexFreeMeans ==
  ASSUME DvrInv, MutexFree
  PROVE  \A t \in Threads : ~Holder(todo[t])
<1> SUFFICES ASSUME NEW t \in Threads, Holder(todo[t]) PROVE FALSE  OBVIOUS
<1>1. todo[t] \in Seq(Ops) /\ todo[t] # <<>>  BY DEF DvrInv, Handlers, Holder
<1>2. At(t, todo[t][1]) /\ todo[t][1] \in MutexOps  BY <1>1 DEF At, Idle, Holder
<1> QED  BY <1>2 DEF MutexFree, MutexOps

(* The lock is taken, kept, or given up by thread t.                        *)
LEMMA LockStep ==
  ASSUME DvrInv, NEW t \in Threads, NEW s, todo' = [todo EXCEPT ![t] = s], HandlerOK(s),
         MutexFree \/ Holder(todo[t]) \/ ~Holder(s)
  PROVE  /\ Handlers' /\ OneHolder'
         /\ \A op \in Ops : At(t, op)' <=> (s # <<>> /\ s[1] = op)
         /\ \A u \in Threads \ {t}, op \in Ops : At(u, op)' = At(u, op)
<1>1. /\ todo \in [Threads -> Seq(Ops)] /\ s \in Seq(Ops)
      /\ todo'[t] = s /\ \A u \in Threads \ {t} : todo'[u] = todo[u]
  BY DEF DvrInv, Handlers, HandlerOK
<1>2. Handlers'  BY <1>1 DEF DvrInv, Handlers, HandlerOK
<1>3. OneHolder'
  <2>1. CASE MutexFree  BY <1>1, <2>1, MutexFreeMeans DEF OneHolder
  <2>2. CASE Holder(todo[t]) \/ ~Holder(s)  BY <1>1, <2>2 DEF DvrInv, OneHolder
  <2> QED  BY <2>1, <2>2
<1>4. \A op \in Ops : At(t, op)' <=> (s # <<>> /\ s[1] = op)  BY <1>1 DEF At, Idle
<1>5. \A u \in Threads \ {t}, op \in Ops : At(u, op)' = At(u, op)  BY <1>1 DEF At, Idle
<1> QED  BY <1>2, <1>3, <1>4, <1>5

(* With the lock in thread t's hands no other thread is about to send.      *)
LEMMA OthersWait ==
  ASSUME DvrInv, NEW t \in Threads, MutexFree \/ Holder(todo[t])
  PROVE  \A u \in Threads \ {t}, op \in MutexOps : ~At(u, op)
<1> SUFFICES ASSUME NEW u \in Threads \ {t}, NEW op \in MutexOps, At(u, op) PROVE FALSE  OBVIOUS
<1>1. Holder(todo[u])  BY AtPlain DEF Holder
<1> QED  BY <1>1, MutexFreeMeans DEF DvrInv, OneHolder

LEMMA BeginStartInv ==
  ASSUME DvrInv, NEW t \in Threads, BeginStart(t) PROVE DvrInv'
<1>1. At(t, "begin") /\ MutexFree /\ UNCHANGED <<rec, queue, alive, wanted>>
  BY DEF BeginStart, belief, daemonVars
<1>2. todo[t] # <<>> /\ todo[t][1] = "begin" /\ ~Holder(todo[t]) /\ HandlerOK(todo[t])
  BY <1>1, AtPlain DEF MutexOps, DvrInv, Handlers
<1>3. PICK room \in Room : Then(t, IF ~rec /\ room THEN <<"arm">> ELSE <<>>)
  BY DEF BeginStart
<1>4. CASE ~(~rec /\ room)  BY <1>1, <1>2, <1>3, <1>4, ShortOK, PlainThen DEF Then
<1>5. CASE ~rec /\ room
  <2> DEFINE s == <<"arm">> \o Tail(todo[t])
  <2>1. HandlerOK(<<"arm">>)  BY ShortOK DEF Ops
  <2>2. HandlerOK(s) /\ s # <<>> /\ s[1] = "arm"  BY <1>2, <2>1, ThenOK
  <2>3. todo' = [todo EXCEPT ![t] = s]  BY <1>3, <1>5 DEF Then
  <2>4. /\ Handlers' /\ OneHolder'
        /\ \A op \in Ops : At(t, op)' <=> (s # <<>> /\ s[1] = op)
        /\ \A u \in Threads \ {t}, op \in Ops : At(u, op)' = At(u, op)
    BY <1>1, <2>2, <2>3, LockStep
  <2>5. /\ \A u \in Threads : At(u, "sendStart")' => At(u, "sendStart")
        /\ \A u \in Threads : At(u, "sendStop") => At(u, "sendStop")'
    BY <1>1, <1>2, <2>2, <2>4, AtPlain DEF Ops
  <2>6. LastOrder'  BY <1>1, <2>5 DEF DvrInv, LastOrder
  <2> QED  BY <2>4, <2>6 DEF DvrInv
<1> QED  BY <1>4, <1>5

LEMMA ArmInv ==
  ASSUME DvrInv, NEW t \in Threads, Arm(t) PROVE DvrInv'
<1>1. At(t, "arm") /\ UNCHANGED <<queue, alive, wanted>>  BY DEF Arm, daemonVars
<1>2. /\ todo[t] # <<>> /\ todo[t][1] = "arm" /\ HandlerOK(todo[t]) /\ Holder(todo[t])
  BY <1>1, AtPlain DEF MutexOps, DvrInv, Handlers, Holder
<1>3. PICK s : /\ todo' = [todo EXCEPT ![t] = s] /\ HandlerOK(s)
               /\ ready => rec' = TRUE
               /\ ~ready => rec' = rec /\ ~Holder(s)
  <2>1. CASE ready
    <3>1. HandlerOK(<<"sendStart">>)  BY ShortOK DEF Ops
    <3>2. HandlerOK(<<"sendStart">> \o Tail(todo[t]))  BY <1>2, <3>1, ThenOK
    <3> QED  BY <2>1, <3>2 DEF Arm, Then
  <2>2. CASE ~ready
    <3>1. HandlerOK(Tail(todo[t])) /\ ~Holder(Tail(todo[t]))  BY <1>2, TailOK
    <3>2. <<>> \o Tail(todo[t]) = Tail(todo[t])  BY <1>2 DEF HandlerOK
    <3> QED  BY <2>2, <3>1, <3>2 DEF Arm, Then
  <2> QED  BY <2>1, <2>2
<1>4. /\ Handlers' /\ OneHolder'
      /\ \A op \in Ops : At(t, op)' <=> (s # <<>> /\ s[1] = op)
      /\ \A u \in Threads \ {t}, op \in Ops : At(u, op)' = At(u, op)
  BY <1>2, <1>3, LockStep
<1>5. \A u \in Threads, op \in {"sendStart", "sendStop"} : ~At(u, op)
  BY <1>1, <1>2, OthersWait, AtPlain DEF MutexOps
<1>6. CASE ready  BY <1>1, <1>3, <1>4, <1>6 DEF DvrInv, LastOrder
<1>7. CASE ~ready
  <2>1. \A u \in Threads : ~At(u, "sendStart")'
    BY <1>3, <1>4, <1>5, <1>7 DEF Ops, Holder, MutexOps
  <2> QED  BY <1>1, <1>3, <1>4, <1>5, <1>7, <2>1 DEF DvrInv, LastOrder
<1> QED  BY <1>6, <1>7

(* The application gives a recording up: the order follows under the lock.  *)
LEMMA GiveUp ==
  ASSUME DvrInv, NEW t \in Threads, NEW ops, todo' = [todo EXCEPT ![t] = ops \o Tail(@)],
         todo[t] # <<>>, ~Holder(todo[t]), HandlerOK(ops), ops # <<>>, ops[1] = "sendStop",
         MutexFree, rec' = FALSE, UNCHANGED <<queue, alive, wanted>>
  PROVE  DvrInv'
<1> DEFINE s == ops \o Tail(todo[t])
<1>1. HandlerOK(todo[t]) /\ todo[t][1] # "sendStop"  BY DEF DvrInv, Handlers, Holder, MutexOps
<1>2. HandlerOK(s) /\ s # <<>> /\ s[1] = "sendStop"  BY <1>1, ThenOK
<1>3. /\ Handlers' /\ OneHolder'
      /\ \A op \in Ops : At(t, op)' <=> (s # <<>> /\ s[1] = op)
      /\ \A u \in Threads \ {t}, op \in Ops : At(u, op)' = At(u, op)
  BY <1>2, LockStep
<1>4. At(t, "sendStop")' /\ ~At(t, "sendStart")'  BY <1>2, <1>3 DEF Ops
<1>5. \A u \in Threads \ {t} : ~At(u, "sendStart")'
  BY <1>3, OthersWait DEF Ops, MutexOps
<1>6. LastOrder'  BY <1>4, <1>5 DEF DvrInv, LastOrder
<1> QED  BY <1>3, <1>6 DEF DvrInv

LEMMA EndRecordingInv ==
  ASSUME TypeOK, DvrInv, NEW t \in Threads, EndRecording(t) PROVE DvrInv'
<1>1. At(t, "end") /\ MutexFree /\ rec' = FALSE /\ UNCHANGED <<queue, alive, wanted>>
  BY DEF EndRecording, daemonVars
<1>2. todo[t] # <<>> /\ ~Holder(todo[t])  BY <1>1, AtPlain DEF MutexOps
<1>3. CASE rec
  <2>1. HandlerOK(<<"sendStop">>)  BY ShortOK DEF Ops
  <2>2. Then(t, <<"sendStop">>)  BY <1>3 DEF EndRecording
  <2> QED  BY <1>1, <1>2, <2>1, <2>2, GiveUp DEF Then
<1>4. CASE ~rec
  <2>1. Then(t, <<>>) /\ rec' = rec
    BY <1>1, <1>4 DEF EndRecording, TypeOK, SignalTypeOK
  <2> QED  BY <1>1, <1>2, <2>1, ShortOK, PlainThen DEF Then
<1> QED  BY <1>3, <1>4

LEMMA UpdateStatusInv ==
  ASSUME TypeOK, DvrInv, UpdateStatus PROVE DvrInv'
<1>1. /\ At("per", "status") /\ MutexFree /\ rec' = (rec /\ claims)
      /\ UNCHANGED <<queue, alive, wanted>> /\ "per" \in Threads
  BY DEF UpdateStatus, daemonVars, Threads
<1>2. todo["per"] # <<>> /\ ~Holder(todo["per"])  BY <1>1, AtPlain DEF MutexOps
<1>3. CASE rec /\ ~claims
  <2>1. Then("per", <<"sendStop", "forget">>)  BY <1>3 DEF UpdateStatus
  <2>2. HandlerOK(<<"sendStop", "forget">>) /\ rec' = FALSE  BY <1>1, <1>3, ShortOK
  <2> QED  BY <1>1, <1>2, <2>1, <2>2, GiveUp DEF Then
<1>4. CASE ~(rec /\ ~claims)
  <2>1. Then("per", <<>>) /\ rec' = rec
    BY <1>1, <1>4 DEF UpdateStatus, TypeOK, SignalTypeOK
  <2> QED  BY <1>1, <1>2, <2>1, ShortOK, PlainThen DEF Then
<1> QED  BY <1>3, <1>4

LEMMA ForgetInv ==
  ASSUME DvrInv, Forget PROVE DvrInv'
<1> DEFINE s == Tail(todo["per"])
<1>1. /\ At("per", "forget") /\ "per" \in Threads /\ UNCHANGED <<rec, queue, alive, wanted>>
  BY DEF Forget, daemonVars, Threads
<1>2. todo["per"] # <<>> /\ todo["per"][1] = "forget" /\ HandlerOK(todo["per"])
  BY <1>1, AtPlain DEF DvrInv, Handlers
<1>3. HandlerOK(s) /\ ~Holder(s) /\ <<>> \o s = s  BY <1>2, TailOK DEF HandlerOK
<1>4. todo' = [todo EXCEPT !["per"] = s]  BY <1>3 DEF Forget, Then
<1>5. /\ Handlers' /\ OneHolder'
      /\ \A op \in Ops : At("per", op)' <=> (s # <<>> /\ s[1] = op)
      /\ \A u \in Threads \ {"per"}, op \in Ops : At(u, op)' = At(u, op)
  BY <1>1, <1>3, <1>4, LockStep
<1>6. /\ \A u \in Threads : At(u, "sendStart")' => At(u, "sendStart")
      /\ \A u \in Threads : At(u, "sendStop") => At(u, "sendStop")'
  BY <1>1, <1>2, <1>3, <1>5, AtPlain DEF Ops, Holder, MutexOps
<1>7. LastOrder'  BY <1>1, <1>6 DEF DvrInv, LastOrder
<1> QED  BY <1>5, <1>7 DEF DvrInv

-----------------------------------------------------------------------------
(* The queue and the daemon.                                                *)

(* An order that was sent is the last of the queue, or was lost on its way  *)
(* to a daemon that is gone.                                                *)
LEMMA SendMeans ==
  ASSUME ControlTypeOK, NEW cmd \in {"start", "stop", "live", "quit"}, Send(cmd)
  PROVE  \/ queue' # <<>> /\ queue'[Len(queue')] = cmd
         \/ ~alive /\ queue' = <<>>
<1>1. queue \in Seq({"start", "stop", "live", "quit"}) /\ MaxQueue \in Nat \ {0}
  BY DEF ControlTypeOK
<1>2. CASE queue' = Append(queue, cmd)  BY <1>1, <1>2
<1>3. CASE Len(queue) = MaxQueue /\ queue' = Append(Tail(queue), cmd)
  <2>1. Tail(queue) \in Seq({"start", "stop", "live", "quit"})  BY <1>1, <1>3
  <2> QED  BY <1>3, <2>1
<1>4. CASE ~alive /\ queue = <<>> /\ UNCHANGED queue  BY <1>4
<1> QED  BY <1>2, <1>3, <1>4 DEF Send

LEMMA SendCommandInv ==
  ASSUME TypeOK, DvrInv, NEW t \in Threads, SendCommand(t) PROVE DvrInv'
<1> DEFINE s == Tail(todo[t])
<1>1. PICK op \in {"sendStart", "sendStop", "sendLive"} :
        /\ At(t, op)
        /\ Send(IF op = "sendStart" THEN "start" ELSE IF op = "sendStop" THEN "stop" ELSE "live")
  BY DEF SendCommand
<1>2. UNCHANGED <<rec, alive, wanted>> /\ ControlTypeOK  BY DEF SendCommand, belief, daemonVars, TypeOK
<1>3. todo[t] # <<>> /\ todo[t][1] = op /\ HandlerOK(todo[t])
  BY <1>1, AtPlain DEF DvrInv, Handlers
<1>4. HandlerOK(s) /\ (Holder(s) => op = "sendStop" /\ s[1] = "forget") /\ <<>> \o s = s
  <2>1. HandlerOK(s) /\ (Holder(s) => op = "sendStop" /\ s[1] = "forget")  BY <1>3, TailOK
  <2>2. s \in Seq(Ops)  BY <2>1 DEF HandlerOK
  <2>3. <<>> \o s = s
    <3> HIDE DEF s
    <3> QED  BY <2>2
  <2> QED  BY <2>1, <2>3
<1>5. todo' = [todo EXCEPT ![t] = s]  BY <1>4 DEF SendCommand, Then
<1>6. Holder(todo[t]) \/ ~Holder(s)  BY <1>3, <1>4 DEF Holder, MutexOps
<1>7. /\ Handlers' /\ OneHolder'
      /\ \A o \in Ops : At(t, o)' <=> (s # <<>> /\ s[1] = o)
      /\ \A u \in Threads \ {t}, o \in Ops : At(u, o)' = At(u, o)
  BY <1>4, <1>5, <1>6, LockStep
<1>8. \A u \in Threads : At(u, "sendStart")' => At(u, "sendStart")
  BY <1>4, <1>7 DEF Ops, Holder, MutexOps
<1>9. CASE rec  BY <1>2, <1>7, <1>8, <1>9 DEF DvrInv, LastOrder
<1>10. CASE ~rec
  <2>1. op # "sendStart"  BY <1>1, <1>10 DEF DvrInv, LastOrder
  <2>2. \/ queue' # <<>> /\ queue'[Len(queue')] # "start"
        \/ ~alive /\ queue' = <<>>
    BY <1>1, <1>2, <2>1, SendMeans
  <2> QED  BY <1>2, <1>7, <1>8, <1>10, <2>2 DEF DvrInv, LastOrder
<1> QED  BY <1>9, <1>10

(* Steps that leave the handlers and the belief alone.                      *)
LEMMA Elsewhere ==
  ASSUME DvrInv, UNCHANGED <<todo, rec>>, alive' \/ ~wanted',
         \/ UNCHANGED <<queue, wanted>>
         \/ UNCHANGED queue /\ ~wanted'
         \/ queue' # <<>> /\ queue'[Len(queue')] # "start"
         \/ queue' = <<>> /\ ~wanted'
         \/ queue' # <<>> /\ queue # <<>> /\ queue'[Len(queue')] = queue[Len(queue)]
         \/ queue # <<>> /\ queue[Len(queue)] = "start" /\ queue' = <<>>
  PROVE  DvrInv'
<1>1. Handlers' /\ OneHolder'  BY DEF DvrInv, Handlers, OneHolder
<1>2. \A t \in Threads, op \in Ops : At(t, op)' = At(t, op)  BY DEF At, Idle
<1>3. \A t \in Threads : At(t, "sendStart")' = At(t, "sendStart") /\ At(t, "sendStop")' = At(t, "sendStop")
  BY <1>2 DEF Ops
<1>4. LastOrder'  BY <1>3 DEF DvrInv, LastOrder
<1> QED  BY <1>1, <1>4 DEF DvrInv

LEMMA TailKeepsLast ==
  ASSUME ControlTypeOK, queue # <<>>, queue' = Tail(queue)
  PROVE  \/ queue' = <<>> /\ Head(queue) = queue[Len(queue)]
         \/ queue' # <<>> /\ queue'[Len(queue')] = queue[Len(queue)]
<1>1. queue \in Seq({"start", "stop", "live", "quit"}) /\ Len(queue) >= 1  BY DEF ControlTypeOK
<1>2. /\ Tail(queue) \in Seq({"start", "stop", "live", "quit"}) /\ Len(Tail(queue)) = Len(queue) - 1
      /\ \A i \in 1..Len(Tail(queue)) : Tail(queue)[i] = queue[i + 1]
  BY <1>1
<1>3. CASE Len(queue) = 1  BY <1>1, <1>2, <1>3
<1>4. CASE Len(queue) > 1
  <2>1. Len(queue') = Len(queue) - 1 /\ Len(queue') \in 1..Len(Tail(queue))  BY <1>1, <1>2, <1>4
  <2>2. queue'[Len(queue')] = queue[Len(queue') + 1]  BY <1>2, <2>1
  <2>3. Len(queue') + 1 = Len(queue)
    <3>1. Len(queue) \in Nat  BY <1>1
    <3> QED  BY <2>1, <3>1
  <2>4. queue' # <<>>
    <3>1. Len(<<>>) = 0  OBVIOUS
    <3>2. Len(queue') # 0  BY <2>1
    <3> QED  BY <3>1, <3>2
  <2> QED  BY <2>2, <2>3, <2>4
<1> QED  BY <1>1, <1>3, <1>4

LEMMA DaemonSideInv ==
  ASSUME TypeOK, DvrInv, Receive \/ DaemonWorks \/ RepairQuits \/ RepairBoots PROVE DvrInv'
<1>1. ControlTypeOK /\ (alive \/ ~wanted)  BY DEF TypeOK, DvrInv, LastOrder
<1>2. CASE Receive
  <2>1. UNCHANGED <<todo, rec>> /\ queue # <<>> /\ alive  BY <1>2 DEF Receive, belief
  <2>2. CASE Head(queue) = "start" /\ ObeyStart /\ queue' = Tail(queue)
    <3>1. alive'  BY <2>1, <2>2 DEF ObeyStart
    <3> QED  BY <1>1, <2>1, <2>2, <3>1, TailKeepsLast, Elsewhere
  <2>3. CASE ObeyStop /\ queue' = Tail(queue)
    <3>1. ~wanted'  BY <2>3 DEF ObeyStop
    <3> QED  BY <1>1, <2>1, <2>3, <3>1, TailKeepsLast, Elsewhere
  <2>4. CASE ObeyQuit /\ queue' = <<>>
    <3>1. ~wanted'  BY <2>4 DEF ObeyQuit
    <3> QED  BY <2>1, <2>4, <3>1, Elsewhere
  <2> QED  BY <1>2, <2>2, <2>3, <2>4 DEF Receive
<1>3. CASE DaemonWorks
  <2>1. UNCHANGED <<todo, rec, queue>>  BY <1>3 DEF DaemonWorks, belief
  <2>2. (UNCHANGED wanted /\ alive') \/ ~wanted'  BY <1>3 DEF DaemonWorks, Work, Die
  <2> QED  BY <2>1, <2>2, Elsewhere
<1>4. CASE RepairQuits
  <2>1. UNCHANGED <<todo, rec, alive, wanted>> /\ Send("quit")
    BY <1>4 DEF RepairQuits, belief, daemonVars
  <2>2. (queue' # <<>> /\ queue'[Len(queue')] = "quit") \/ (~alive /\ queue' = <<>>)
    BY <1>1, <2>1, SendMeans
  <2>3. alive' \/ ~wanted'  BY <1>1, <2>1
  <2>4. CASE queue' # <<>> /\ queue'[Len(queue')] = "quit"  BY <2>1, <2>3, <2>4, Elsewhere
  <2>5. CASE ~alive /\ queue' = <<>>
    <3>1. ~wanted'  BY <1>1, <2>1, <2>5
    <3> QED  BY <2>1, <2>5, <3>1, Elsewhere
  <2> QED  BY <2>2, <2>4, <2>5
<1>5. CASE RepairBoots
  <2>1. UNCHANGED <<todo, rec>> /\ ~wanted' /\ queue' = (IF queue = <<>> THEN queue ELSE Tail(queue))
    BY <1>5 DEF RepairBoots, Boot, belief
  <2>2. CASE queue = <<>>  BY <2>1, <2>2, Elsewhere
  <2>3. CASE queue # <<>>  BY <1>1, <2>1, <2>3, TailKeepsLast, Elsewhere
  <2> QED  BY <2>2, <2>3
<1> QED  BY <1>2, <1>3, <1>4, <1>5

-----------------------------------------------------------------------------
(* Handlers and their steps outside the lock.                               *)

LEMMA PlainThreadInv ==
  ASSUME DvrInv, NEW t \in Threads, Command(t) \/ Tune(t) \/ Assign(t) PROVE DvrInv'
<1>1. UNCHANGED <<rec, queue, alive, wanted>>
  BY DEF Command, Tune, Assign, belief, daemonVars
<1>2. PICK op \in {"toggle", "start", "stop", "detReq", "video", "tune", "hdzero", "analog"},
           ops \in {<<>>, <<"begin">>, <<"end">>, <<"stop", "sendLive", "video">>} :
        At(t, op) /\ Then(t, ops)
  BY DEF Command, Tune, Assign
<1>3. todo[t] # <<>> /\ ~Holder(todo[t])  BY <1>2, AtPlain DEF MutexOps
<1>4. HandlerOK(ops) /\ (ops # <<>> => ops[1] # "detect" /\ ops[1] \notin MutexOps)
  BY <1>2, ShortOK DEF Ops, MutexOps
<1> QED  BY <1>1, <1>2, <1>3, <1>4, PlainThen DEF Then

LEMMA CountInv ==
  ASSUME DvrInv, todo["per"] # <<>>, ~Holder(todo["per"]), Count(Tail(todo["per"])),
         UNCHANGED <<rec, queue, alive, wanted>>
  PROVE  DvrInv'
<1>1. PICK ops \in {<<>>, <<"stop">>, <<"start">>} : todo' = [todo EXCEPT !["per"] = ops \o Tail(todo["per"])]
  BY DEF Count
<1>2. HandlerOK(ops) /\ (ops # <<>> => ops[1] # "detect" /\ ops[1] \notin MutexOps)
  BY <1>1, ShortOK DEF Ops, MutexOps
<1>3. "per" \in Threads  BY DEF Threads
<1> QED  BY <1>1, <1>2, <1>3, PlainThen

LEMMA SignalInv ==
  ASSUME TypeOK, DvrInv, CheckSignal \/ CountSignal PROVE DvrInv'
<1>1. PICK op \in {"signal", "count"} : At("per", op)  BY DEF CheckSignal, CountSignal
<1>2. UNCHANGED <<rec, queue, alive, wanted>> /\ "per" \in Threads
  BY DEF CheckSignal, CountSignal, belief, daemonVars, Threads
<1>3. todo["per"] # <<>> /\ ~Holder(todo["per"])  BY <1>1, <1>2, AtPlain DEF MutexOps
<1>4. CASE Count(Tail(todo["per"]))  BY <1>2, <1>3, <1>4, CountInv
<1>5. CASE Then("per", <<>>)  BY <1>2, <1>3, <1>5, ShortOK, PlainThen DEF Then
<1>6. CASE Then("per", Retimed)
  <2>1. source \in {"hdzero", "analog", "hdmi"}
    BY DEF TypeOK, SignalTypeOK
  <2>2. Retimed \in {<<"count">>, <<"stop", "start", "count">>, <<"stop", "sendLive", "count">>,
                     <<"stop", "count">>}
    BY <2>1 DEF Retimed
  <2>3. HandlerOK(Retimed) /\ Retimed[1] # "detect" /\ Retimed[1] \notin MutexOps
    BY <2>2, ShortOK DEF Ops, MutexOps
  <2> QED  BY <1>2, <1>3, <1>6, <2>3, PlainThen DEF Then
<1> QED  BY <1>4, <1>5, <1>6 DEF CheckSignal, CountSignal

LEMMA CrossOverInv ==
  ASSUME TypeOK, DvrInv, CrossOver PROVE DvrInv'
<1>1. UNCHANGED <<rec, queue, alive, wanted>> /\ "per" \in Threads
  BY DEF CrossOver, belief, daemonVars, Threads
<1>2. todo["per"] # <<>> /\ ~Holder(todo["per"])
  BY <1>1, AtPlain DEF CrossOver, MutexOps
<1>3. CASE Then("per", <<>>)  BY <1>1, <1>2, <1>3, ShortOK, PlainThen DEF Then
<1>4. ASSUME NEW s \in {"hdzero", "analog"}, Then("per", <<"tune", s>>) PROVE DvrInv'
  <2>1. HandlerOK(<<"tune", s>>)  BY ShortOK DEF Ops, MutexOps
  <2> QED  BY <1>1, <1>2, <1>4, <2>1, PlainThen DEF Then, MutexOps
<1> QED  BY <1>3, <1>4, SessionType DEF CrossOver, TypeOK, SignalTypeOK

LEMMA CardInv ==
  ASSUME DvrInv, Tick \/ Detect \/ Detected PROVE DvrInv'
<1>1. UNCHANGED <<rec, queue, alive, wanted>> /\ "per" \in Threads
  BY DEF Tick, Detect, Detected, belief, daemonVars, Threads
<1>2. CASE Tick
  <2>1. PICK ops \in {<<"detect", "detected", "signal", "idle">>,
                     <<"detect", "detected", "status", "signal", "idle">>} :
          Handle("per", ops)
    BY <1>2 DEF Tick
  <2>2. HandlerOK(ops) /\ ~Holder(ops)  BY <2>1, ShortOK DEF Holder, MutexOps
  <2> QED  BY <1>1, <2>1, <2>2, PlainHandle
<1>3. CASE Detect
  <2> DEFINE s == todo["per"]
  <2>1. s # <<>> /\ s[1] = "detect" /\ ~Holder(s) /\ HandlerOK(s)
    BY <1>1, <1>3, AtPlain DEF Detect, MutexOps, DvrInv, Handlers
  <2>2. CASE Then("per", <<>>)  BY <1>1, <2>1, <2>2, ShortOK, PlainThen DEF Then
  <2>3. CASE todo' = [todo EXCEPT !["per"] = Tail(Tail(@))]
    <3>1. HandlerOK(Tail(s)) /\ ~Holder(Tail(s))  BY <2>1, TailOK
    <3>2. Tail(s) # <<>>
      <4>1. s \in Seq(Ops) /\ Len(s) >= 2  BY <2>1 DEF HandlerOK
      <4> QED  BY <4>1, LongTail
    <3>3. HandlerOK(Tail(Tail(s))) /\ ~Holder(Tail(Tail(s)))
      BY <3>1, <3>2, TailOK DEF Holder, MutexOps
    <3> QED  BY <1>1, <2>1, <2>3, <3>3, PlainStep
  <2> QED  BY <1>3, <2>2, <2>3 DEF Detect
<1>4. CASE Detected
  <2>1. PICK ops \in {<<>>, <<"start">>} : Then("per", ops)  BY <1>4 DEF Detected
  <2>2. todo["per"] # <<>> /\ ~Holder(todo["per"])
    BY <1>1, <1>4, AtPlain DEF Detected, MutexOps
  <2>3. HandlerOK(ops) /\ (ops # <<>> => ops[1] # "detect" /\ ops[1] \notin MutexOps)
    BY <2>1, ShortOK DEF Ops, MutexOps
  <2> QED  BY <1>1, <2>1, <2>2, <2>3, PlainThen DEF Then
<1> QED  BY <1>2, <1>3, <1>4

LEMMA HandlerBegins ==
  ASSUME TypeOK, DvrInv, UserStep \/ BackpackStep \/ TimerFires PROVE DvrInv'
<1>1. UNCHANGED <<rec, queue, alive, wanted>>
  BY DEF UserStep, Press, EnterMenu, EnterVideo, ChangeChannel, SetManual, BackpackStep, SetRecState,
    BackpackChannel, TimerFires, belief, daemonVars
<1>2. CASE SetManual  BY <1>1, <1>2, Elsewhere DEF SetManual, DvrInv, LastOrder
<1>3. CASE ~SetManual
  <2>1. PICK t \in Threads, ops \in {<<>>, <<"toggle">>, <<"start">>, <<"stop">>,
            <<"stop", "detReq", "sendLive">>, <<"sendLive", "video">>, <<"stop", "sendLive">>,
            <<"tune", "hdzero">>, <<"tune", "analog">>} : Handle(t, ops)
    BY <1>3, SessionType DEF UserStep, Press, EnterMenu, EnterVideo, ChangeChannel, BackpackStep, SetRecState,
      BackpackChannel, TimerFires, Threads, TypeOK, SignalTypeOK, CardTypeOK
  <2>2. HandlerOK(ops) /\ ~Holder(ops)  BY <2>1, ShortOK DEF Ops, MutexOps, Holder
  <2> QED  BY <1>1, <2>1, <2>2, PlainHandle
<1> QED  BY <1>2, <1>3

-----------------------------------------------------------------------------
(* The theorems.                                                            *)

LEMMA InitInv == Init => DvrInv
<1> SUFFICES ASSUME Init PROVE DvrInv  OBVIOUS
<1>1. \A t \in Threads : todo[t] = <<>>  BY DEF Init
<1>2. Handlers  BY <1>1, ShortOK DEF Init, Handlers
<1>3. OneHolder  BY <1>1 DEF OneHolder, Holder
<1>4. LastOrder  BY <1>1 DEF Init, DaemonInit, LastOrder, At, Idle
<1> QED  BY <1>2, <1>3, <1>4 DEF DvrInv

LEMMA NextInv == TypeOK /\ DvrInv /\ [Next]_vars => DvrInv'
<1> SUFFICES ASSUME TypeOK, DvrInv, [Next]_vars PROVE DvrInv'  OBVIOUS
<1>1. CASE UNCHANGED <<todo, rec, queue, alive, wanted>>
  BY <1>1, Elsewhere DEF DvrInv, LastOrder
<1>2. ASSUME NEW t \in Threads, ThreadStep(t) PROVE DvrInv'
  BY <1>2, PlainThreadInv, BeginStartInv, ArmInv, EndRecordingInv, SendCommandInv DEF ThreadStep
<1>3. CASE PeripheralStep
  <2>1. "per" \in Threads  BY DEF Threads
  <2> QED
    BY <1>2, <1>3, <2>1, CardInv, UpdateStatusInv, ForgetInv, SignalInv, CrossOverInv
       DEF PeripheralStep
<1>4. CASE UserStep \/ BackpackStep \/ TimerFires  BY <1>4, HandlerBegins
<1>5. CASE Receive \/ DaemonWorks \/ RepairQuits \/ RepairBoots  BY <1>5, DaemonSideInv
<1>6. CASE GraceElapses \/ SignalChanges \/ CardChanges
  <2>1. UNCHANGED <<todo, rec, queue, alive, wanted>>
    BY <1>6 DEF GraceElapses, SignalChanges, CardChanges, belief, daemonVars
  <2> QED  BY <1>1, <2>1
<1>7. CASE RepairBegins \/ RepairUnmounts \/ RepairMounts \/ RepairReturns
  <2>1. UNCHANGED <<todo, rec, queue, alive, wanted>>
    BY <1>7 DEF RepairBegins, RepairUnmounts, RepairMounts, RepairReturns, belief, daemonVars
  <2> QED  BY <1>1, <2>1
<1>8. CASE UNCHANGED vars
  <2>1. UNCHANGED <<todo, rec, queue, alive, wanted>>  BY <1>8 DEF vars, belief, daemonVars
  <2> QED  BY <1>1, <2>1
<1>9. "ui" \in Threads /\ "esp" \in Threads  BY DEF Threads
<1> QED  BY <1>2, <1>3, <1>4, <1>5, <1>6, <1>7, <1>8, <1>9 DEF Next, RepairStep

LEMMA InitType == Init => TypeOK
<1> SUFFICES ASSUME Init PROVE TypeOK  OBVIOUS
<1>1. session \in Sessions /\ manual \in session.manuals /\ source \in session.sources
  BY DEF Init
<1>2. session.moves \in Nat /\ session.retimes \in Nat /\ session.manuals \in SUBSET BOOLEAN
  BY <1>1, SessionType
<1>3. SignalTypeOK
  <2>1. DaemonTypeOK  BY DEF Init, DaemonInit, DaemonTypeOK
  <2>2. cnt \in Nat /\ cnt <= LossThr /\ grace \in {"none", "running", "over"}  BY DEF Init
  <2>3. rec \in BOOLEAN /\ pending \in BOOLEAN /\ app \in {"video", "menu"} /\ valid \in BOOLEAN
    BY DEF Init
  <2>4. retimes \in 0..session.retimes  BY <1>2 DEF Init
  <2>5. manual \in BOOLEAN  BY <1>1, <1>2
  <2> QED  BY <1>1, <2>1, <2>2, <2>3, <2>4, <2>5 DEF SignalTypeOK
<1>4. CardTypeOK
  <2>1. mounted \in BOOLEAN  BY DEF Init
  <2>2. enable \in BOOLEAN /\ initScan \in BOOLEAN /\ last \in BOOLEAN  BY <2>1 DEF Init
  <2>3. moves \in 0..session.moves  BY <1>2 DEF Init
  <2>4. tick \in 0..(StatusPeriod - 1)  BY DEF Init
  <2>5. /\ ready \in BOOLEAN /\ detReq \in BOOLEAN /\ active \in BOOLEAN
        /\ repair \in {"none", "asked", "quit", "umount", "mount", "boot"}
        /\ timer \in {"none", "start", "stop"}
    BY DEF Init
  <2> QED  BY <2>1, <2>2, <2>3, <2>4, <2>5 DEF CardTypeOK
<1>5. ControlTypeOK
  <2>1. todo \in [Threads -> Seq(Ops)]  BY InitInv DEF DvrInv, Handlers
  <2>2. queue \in Seq({"start", "stop", "live", "quit"}) /\ Len(queue) <= MaxQueue  BY DEF Init
  <2> QED  BY <2>1, <2>2 DEF ControlTypeOK
<1> QED  BY <1>3, <1>4, <1>5 DEF TypeOK

(* The counter of check_source_signal stays below one threshold or the      *)
(* other.                                                                   *)
LEMMA CountType ==
  ASSUME SignalTypeOK, NEW done, Count(done)
  PROVE  /\ cnt' \in Nat /\ (cnt' <= LossThr \/ cnt' < AcqThr)
         /\ grace' \in {"none", "running", "over"}
<1>1. /\ cnt \in Nat /\ (cnt <= LossThr \/ cnt < AcqThr)
      /\ grace \in {"none", "running", "over"} /\ LossThr \in Nat \ {0} /\ AcqThr \in Nat \ {0}
  BY DEF SignalTypeOK
<1>2. Counted \in Nat  BY <1>1 DEF Counted
<1>3. rec => Counted <= LossThr \/ Counted < AcqThr  BY <1>1 DEF Counted
<1>4. cnt' = 0 \/ (cnt' = Counted /\ rec) \/ (cnt' = Counted /\ Counted < AcqThr)
  <2>1. ~rec /\ ~(Counted >= AcqThr) => Counted < AcqThr  BY <1>1, <1>2
  <2> QED  BY <2>1 DEF Count
<1>5. grace' \in {"none", "running"} \/ grace' = grace  BY DEF Count
<1> QED  BY <1>1, <1>2, <1>3, <1>4, <1>5

LEMMA SignalTypeNext ==
  ASSUME TypeOK, Next PROVE SignalTypeOK'
<1>0. SignalTypeOK  BY DEF TypeOK
<1>1. CASE UNCHANGED <<belief, view, signal, counts, daemonVars>>
  BY <1>0, <1>1 DEF SignalTypeOK, DaemonTypeOK, belief, view, signal, counts, daemonVars
<1>2. CASE UNCHANGED <<view, signal, counts, daemonVars>> /\ rec' \in BOOLEAN /\ pending' \in BOOLEAN
  BY <1>0, <1>2 DEF SignalTypeOK, DaemonTypeOK, view, signal, counts, daemonVars
<1>3. CASE /\ UNCHANGED <<belief, session, signal, counts, daemonVars>>
           /\ app' \in {"video", "menu"} /\ source' \in {"hdzero", "analog", "hdmi"}
           /\ manual' \in BOOLEAN
  BY <1>0, <1>3 DEF SignalTypeOK, DaemonTypeOK, belief, signal, counts, daemonVars
<1>4. CASE UNCHANGED <<belief, view, signal, counts>> /\ DaemonTypeOK'
  BY <1>0, <1>4 DEF SignalTypeOK, belief, view, signal, counts
<1>5. ASSUME NEW t \in Threads, ThreadStep(t) PROVE SignalTypeOK'
  <2>1. CASE Command(t)
    <3>1. pending' \in BOOLEAN  BY <1>0, <2>1 DEF Command, SignalTypeOK
    <3> QED  BY <1>0, <1>2, <2>1, <3>1 DEF Command, SignalTypeOK
  <2>2. CASE BeginStart(t) \/ SendCommand(t) \/ Tune(t)
    BY <1>1, <2>2 DEF BeginStart, SendCommand, Tune
  <2>3. CASE Arm(t)  BY <1>0, <1>2, <2>3 DEF Arm, SignalTypeOK
  <2>4. CASE EndRecording(t)  BY <1>0, <1>2, <2>4 DEF EndRecording, SignalTypeOK
  <2>5. CASE Assign(t)
    <3>1. app' \in {"video", "menu"} /\ source' \in {"hdzero", "analog", "hdmi"}
      BY <1>0, <2>5 DEF Assign, SignalTypeOK
    <3> QED  BY <1>0, <1>3, <2>5, <3>1 DEF Assign, SignalTypeOK
  <2> QED  BY <1>5, <2>1, <2>2, <2>3, <2>4, <2>5 DEF ThreadStep
<1>6. CASE Tick \/ Detect \/ Detected \/ CrossOver
  BY <1>1, <1>6 DEF Tick, Detect, Detected, CrossOver
<1>7. CASE UpdateStatus \/ Forget
  <2>1. rec' \in BOOLEAN /\ pending' \in BOOLEAN
    BY <1>0, <1>7 DEF UpdateStatus, Forget, SignalTypeOK, DaemonTypeOK
  <2> QED  BY <1>2, <1>7, <2>1 DEF UpdateStatus, Forget
<1>8. CASE CountSignal
  <2>1. /\ cnt' \in Nat /\ (cnt' <= LossThr \/ cnt' < AcqThr)
        /\ grace' \in {"none", "running", "over"}
    BY <1>0, <1>8, CountType DEF CountSignal
  <2> QED
    BY <1>0, <1>8, <2>1 DEF CountSignal, SignalTypeOK, DaemonTypeOK, belief, view, signal, daemonVars
<1>9. CASE CheckSignal
  <2>1. /\ cnt' \in Nat /\ (cnt' <= LossThr \/ cnt' < AcqThr)
        /\ grace' \in {"none", "running", "over"}
    <3>1. CASE Count(Tail(todo["per"]))  BY <1>0, <3>1, CountType
    <3>2. CASE /\ cnt' = IF source = "analog" THEN cnt ELSE 0
               /\ grace' = IF Retimed = <<"count">> THEN grace ELSE "none"
      BY <1>0, <3>2 DEF SignalTypeOK
    <3>3. CASE UNCHANGED counts  BY <1>0, <3>3 DEF SignalTypeOK, counts
    <3> QED  BY <1>9, <3>1, <3>2, <3>3 DEF CheckSignal
  <2>2. retimes' \in 0..session.retimes
    <3>1. session.retimes \in Nat /\ retimes \in 0..session.retimes
      BY <1>0, SessionType DEF SignalTypeOK
    <3>2. UNCHANGED retimes \/ (retimes < session.retimes /\ retimes' = retimes + 1)
      BY <1>9 DEF CheckSignal
    <3> QED  BY <3>1, <3>2
  <2> QED
    BY <1>0, <1>9, <2>1, <2>2 DEF CheckSignal, SignalTypeOK, DaemonTypeOK, belief, view, daemonVars
<1>10. CASE GraceElapses
  BY <1>0, <1>10 DEF GraceElapses, SignalTypeOK, DaemonTypeOK, belief, view, signal, daemonVars
<1>11. CASE UserStep
  <2>1. CASE Press \/ ChangeChannel  BY <1>1, <2>1 DEF Press, ChangeChannel, view
  <2>2. CASE EnterMenu  BY <1>0, <1>3, <2>2 DEF EnterMenu, SignalTypeOK
  <2>3. CASE EnterVideo
    <3>1. app' \in {"video", "menu"} /\ source' \in {"hdzero", "analog", "hdmi"}
      BY <1>0, <2>3, SessionType DEF EnterVideo, SignalTypeOK
    <3> QED  BY <1>0, <1>3, <2>3, <3>1 DEF EnterVideo, SignalTypeOK
  <2>4. CASE SetManual
    <3>1. manual' \in BOOLEAN  BY <1>0, <2>4, SessionType DEF SetManual, SignalTypeOK
    <3> QED  BY <1>0, <1>3, <2>4, <3>1 DEF SetManual, SignalTypeOK
  <2> QED  BY <1>11, <2>1, <2>2, <2>3, <2>4 DEF UserStep
<1>12. CASE BackpackStep \/ TimerFires
  BY <1>1, <1>12 DEF BackpackStep, SetRecState, BackpackChannel, TimerFires
<1>13. CASE RepairBegins \/ RepairQuits \/ RepairUnmounts \/ RepairMounts \/ RepairReturns \/ CardChanges
  BY <1>1, <1>13 DEF RepairBegins, RepairQuits, RepairUnmounts, RepairMounts, RepairReturns, CardChanges
<1>14. CASE RepairBoots \/ Receive \/ DaemonWorks
  <2>1. DaemonTypeOK'
    BY <1>0, <1>14 DEF RepairBoots, Receive, DaemonWorks, Boot, ObeyStart, ObeyStop, ObeyQuit, Work, Die,
      Outcome, SignalTypeOK, DaemonTypeOK
  <2> QED  BY <1>4, <1>14, <2>1 DEF RepairBoots, Receive, DaemonWorks
<1>15. CASE SignalChanges
  <2>1. valid' \in BOOLEAN  BY <1>0, <1>15 DEF SignalChanges, SignalTypeOK
  <2> QED
    BY <1>0, <1>15, <2>1 DEF SignalChanges, SignalTypeOK, DaemonTypeOK, belief, view, counts, daemonVars
<1>16. "ui" \in Threads /\ "per" \in Threads /\ "esp" \in Threads  BY DEF Threads
<1> QED
  BY <1>5, <1>6, <1>7, <1>8, <1>9, <1>10, <1>11, <1>12, <1>13, <1>14, <1>15, <1>16
     DEF Next, PeripheralStep, RepairStep

LEMMA CardTypeNext ==
  ASSUME TypeOK, Next PROVE CardTypeOK'
<1>0. CardTypeOK /\ SignalTypeOK  BY DEF TypeOK
<1>1. CASE UNCHANGED <<session, card, fsck, timer, tick>>
  BY <1>0, <1>1 DEF CardTypeOK, card, fsck
<1>2. CASE UNCHANGED <<session, fsck, timer, tick>> /\ enable' \in BOOLEAN /\ ready' \in BOOLEAN
           /\ detReq' \in BOOLEAN /\ initScan' \in BOOLEAN /\ last' \in BOOLEAN
  BY <1>0, <1>2 DEF CardTypeOK, fsck
<1>3. CASE UNCHANGED <<session, card, fsck, tick>> /\ timer' \in {"none", "start", "stop"}
  BY <1>0, <1>3 DEF CardTypeOK, card, fsck
<1>4. CASE UNCHANGED <<session, card, moves, timer, tick>> /\ mounted' \in BOOLEAN /\ active' \in BOOLEAN
           /\ repair' \in {"none", "asked", "quit", "umount", "mount", "boot"}
  BY <1>0, <1>4 DEF CardTypeOK, card
<1>5. ASSUME NEW t \in Threads, ThreadStep(t) PROVE CardTypeOK'
  <2>1. CASE Command(t) \/ BeginStart(t) \/ Arm(t) \/ EndRecording(t) \/ SendCommand(t) \/ Tune(t)
    BY <1>1, <2>1 DEF Command, BeginStart, Arm, EndRecording, SendCommand, Tune, view
  <2>2. CASE Assign(t)
    BY <1>0, <1>2, <2>2 DEF Assign, CardTypeOK
  <2> QED  BY <1>5, <2>1, <2>2 DEF ThreadStep
<1>6. CASE Tick
  <2>1. tick' \in 0..(StatusPeriod - 1)
    <3>1. tick \in Nat /\ tick + 1 <= StatusPeriod /\ StatusPeriod \in Nat \ {0}
      BY <1>0 DEF CardTypeOK
    <3> QED  BY <1>6, <3>1 DEF Tick
  <2> QED  BY <1>0, <1>6, <2>1 DEF Tick, CardTypeOK, view, card, fsck
<1>7. CASE Detect
  <2>1. enable' \in BOOLEAN /\ ready' \in BOOLEAN  BY <1>0, <1>7 DEF Detect, CardTypeOK
  <2> QED  BY <1>0, <1>2, <1>7, <2>1 DEF Detect, CardTypeOK, view
<1>8. CASE Detected
  <2>1. ready' \in BOOLEAN /\ detReq' \in BOOLEAN /\ initScan' \in BOOLEAN /\ last' \in BOOLEAN
    BY <1>0, <1>8 DEF Detected, CardTypeOK
  <2>2. repair' \in {"none", "asked", "quit", "umount", "mount", "boot"}
    BY <1>0, <1>8 DEF Detected, CardTypeOK
  <2> QED  BY <1>0, <1>8, <2>1, <2>2 DEF Detected, CardTypeOK, view
<1>9. CASE UpdateStatus \/ Forget \/ CheckSignal \/ CountSignal \/ CrossOver
  BY <1>1, <1>9 DEF UpdateStatus, Forget, CheckSignal, CountSignal, CrossOver, view
<1>10. CASE UserStep
  <2>1. CASE EnterVideo
    BY <1>1, <2>1 DEF EnterVideo
  <2>2. CASE Press \/ EnterMenu \/ ChangeChannel \/ SetManual
    BY <1>1, <2>2 DEF Press, EnterMenu, ChangeChannel, SetManual, view
  <2> QED  BY <1>10, <2>1, <2>2 DEF UserStep
<1>11. CASE BackpackStep \/ TimerFires
  <2>1. CASE SetRecState
    <3>1. timer' \in {"none", "start", "stop"}  BY <2>1 DEF SetRecState
    <3> QED  BY <1>3, <2>1, <3>1 DEF SetRecState, view
  <2>2. CASE BackpackChannel  BY <1>1, <2>2 DEF BackpackChannel, view
  <2>3. CASE TimerFires  BY <1>3, <2>3 DEF TimerFires, view
  <2> QED  BY <1>11, <2>1, <2>2, <2>3 DEF BackpackStep
<1>12. CASE GraceElapses \/ Receive \/ DaemonWorks \/ SignalChanges
  BY <1>1, <1>12 DEF GraceElapses, Receive, DaemonWorks, SignalChanges, view
<1>13. CASE RepairStep
  <2>1. /\ mounted' \in BOOLEAN /\ active' \in BOOLEAN
        /\ repair' \in {"none", "asked", "quit", "umount", "mount", "boot"}
    BY <1>0, <1>13 DEF RepairStep, RepairBegins, RepairQuits, RepairUnmounts, RepairMounts, RepairReturns,
      RepairBoots, CardTypeOK
  <2> QED
    BY <1>4, <1>13, <2>1 DEF RepairStep, RepairBegins, RepairQuits, RepairUnmounts, RepairMounts,
      RepairReturns, RepairBoots, view
<1>14. CASE CardChanges
  <2>1. session.moves \in Nat  BY <1>0, SessionType DEF SignalTypeOK
  <2>2. mounted' \in BOOLEAN /\ moves' \in 0..session.moves
    BY <1>0, <1>14, <2>1 DEF CardChanges, CardTypeOK
  <2> QED  BY <1>0, <1>14, <2>2 DEF CardChanges, CardTypeOK, view, card
<1>15. "ui" \in Threads /\ "per" \in Threads /\ "esp" \in Threads  BY DEF Threads
<1> QED
  BY <1>5, <1>6, <1>7, <1>8, <1>9, <1>10, <1>11, <1>12, <1>13, <1>14, <1>15 DEF Next, PeripheralStep

LEMMA NextType == TypeOK /\ DvrInv /\ [Next]_vars => TypeOK'
<1> SUFFICES ASSUME TypeOK, DvrInv, [Next]_vars PROVE TypeOK'  OBVIOUS
<1>1. CASE UNCHANGED vars
  BY <1>1 DEF vars, belief, view, signal, counts, card, fsck, daemonVars, TypeOK, SignalTypeOK, CardTypeOK,
    ControlTypeOK, DaemonTypeOK
<1>2. CASE Next
  <2>1. todo' \in [Threads -> Seq(Ops)]  BY NextInv DEF DvrInv, Handlers
  <2> QED  BY <1>2, <2>1, SignalTypeNext, CardTypeNext, QueueType DEF TypeOK, ControlTypeOK
<1> QED  BY <1>1, <1>2

LEMMA Invariant == Spec => [](TypeOK /\ DvrInv)
<1>1. Init => TypeOK /\ DvrInv  BY InitType, InitInv
<1>2. TypeOK /\ DvrInv /\ [Next]_vars => (TypeOK /\ DvrInv)'  BY NextType, NextInv
<1> QED  BY <1>1, <1>2, PTL DEF Spec

(* The threads, the repair, the queue and the daemon keep their types; in   *)
(* particular the counter of check_source_signal is bounded by its          *)
(* thresholds, however the signal flickers and the recording changes.       *)
THEOREM DvrTypeCorrect == Spec => []TypeOK
  BY Invariant, PTL

LEMMA KnownByLastOrder == DvrInv => RecordingIsKnown
<1> SUFFICES ASSUME DvrInv, Quiet, wanted PROVE rec  BY DEF RecordingIsKnown
<1> QED  BY DEF DvrInv, LastOrder, Quiet

(* No recording the pilot does not see: whatever the three threads command, *)
(* the repair takes away and the daemon does, once the orders have arrived  *)
(* the daemon means to record only if the application says so.              *)
THEOREM RecordingAlwaysKnown == Spec => []RecordingIsKnown
<1>1. TypeOK /\ DvrInv => RecordingIsKnown  BY KnownByLastOrder
<1> QED  BY <1>1, Invariant, PTL

=============================================================================
