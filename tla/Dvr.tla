-------------------------------- MODULE Dvr --------------------------------
(***************************************************************************)
(* DVR control of the goggle application: the recording the application    *)
(* believes in (dvr_is_recording, record_pending), the three threads that  *)
(* command it (input, peripheral, ESP32 backpack), the card detection and  *)
(* the repair script that takes the card and the record daemon away, and   *)
(* the message queue to the daemon, of which no more is known than module  *)
(* RecordDaemon says.                                                      *)
(*                                                                         *)
(* The model begins after start-up: g_bootup_sdcard_state is -1 and a      *)
(* repair has been invoked once.                                           *)
(***************************************************************************)
EXTENDS Naturals, Sequences, RecordDaemon

CONSTANTS
  LossThr,       \* SIGNAL_LOSS_DURATION_THR (20 in the code)
  AcqThr,        \* SIGNAL_ACCQ_DURATION_THR (10)
  StatusPeriod,  \* ticks of the peripheral thread per dvr_update_status (5)
  MaxQueue,      \* bound on the messages in the queue; a sender waits
  Sessions       \* the pilot's settings and surroundings in the sessions of a run

ASSUME DvrAssumption ==
  /\ LossThr \in Nat \ {0} /\ AcqThr \in Nat \ {0} /\ StatusPeriod \in Nat \ {0}
  /\ MaxQueue \in Nat \ {0}
  /\ Sessions \subseteq
       [sources: SUBSET {"hdzero", "analog", "hdmi"},  \* the video sources the pilot uses
        buttons: SUBSET {"press", "menu", "channel"},  \* what the pilot does with the video
        manuals: SUBSET BOOLEAN,    \* the values record.mode_manual takes
        delay: BOOLEAN,             \* record.stop_delay_seconds is not 0
        lack: BOOLEAN,              \* dvr_space_allows_start may say no
        moves: Nat,                 \* how often the card is put in or taken out
        retimes: Nat,               \* how often the video timing changes
        backpack: SUBSET {"record", "channel"},  \* what the ESP32 backpack commands
        dual: BOOLEAN,              \* auto_protocol_detect, on a build that has it
        crash: BOOLEAN]             \* the record daemon may crash

Threads == {"ui", "per", "esp"}

VARIABLES
  session,            \* the session, chosen at the start
  rec, pending,       \* dvr_is_recording, record_pending
  app, source,        \* g_app_state (menu: any state but video), g_source_info.source
  manual,             \* g_setting.record.mode_manual
  valid, retimes,     \* the signal is valid; changes of timing so far
  moves,              \* moves of the card so far
  cnt, grace,         \* cnt and signal_loss_at of check_source_signal
  mounted,            \* a file system is mounted on /mnt/extsd
  enable, ready,      \* g_sdcard_enable, g_sdcard_ready
  detReq,             \* g_sdcard_det_req
  initScan, last,     \* sdcard_init_scan, sdcard_enable_last
  repair, active,     \* stage of the repair; is_sd_repair_active
  timer,              \* record_state while record_time runs, or "none"
  tick,               \* k of thread_peripheral
  todo,               \* what is left of each thread's current handler
  queue               \* commands sent to the daemon and not yet received

belief  == <<rec, pending>>
view    == <<session, app, source, manual>>
signal  == <<valid, retimes>>
counts  == <<cnt, grace>>
card    == <<enable, ready, detReq, initScan, last>>
fsck    == <<mounted, moves, repair, active>>
vars    == <<belief, view, signal, counts, card, fsck, timer, tick, todo, queue, daemonVars>>

Ops == {"toggle", "start", "stop", "begin", "arm", "end", "sendStart", "sendStop", "sendLive",
        "forget", "detReq", "video", "tune", "hdzero", "analog",
        "detect", "detected", "status", "signal", "count", "idle"}

SignalTypeOK ==
  /\ DaemonTypeOK
  /\ rec \in BOOLEAN /\ pending \in BOOLEAN
  /\ session \in Sessions
  /\ app \in {"video", "menu"} /\ source \in {"hdzero", "analog", "hdmi"} /\ manual \in BOOLEAN
  /\ valid \in BOOLEAN /\ retimes \in 0..session.retimes
  /\ cnt \in Nat /\ (cnt <= LossThr \/ cnt < AcqThr) /\ grace \in {"none", "running", "over"}

CardTypeOK ==
  /\ mounted \in BOOLEAN /\ enable \in BOOLEAN /\ ready \in BOOLEAN /\ detReq \in BOOLEAN
  /\ initScan \in BOOLEAN /\ last \in BOOLEAN /\ moves \in 0..session.moves
  /\ repair \in {"none", "asked", "quit", "umount", "mount", "boot"} /\ active \in BOOLEAN
  /\ timer \in {"none", "start", "stop"}
  /\ tick \in 0..(StatusPeriod - 1)

ControlTypeOK ==
  /\ todo \in [Threads -> Seq(Ops)]
  /\ queue \in Seq({"start", "stop", "live", "quit"}) /\ Len(queue) <= MaxQueue

TypeOK == SignalTypeOK /\ CardTypeOK /\ ControlTypeOK

Init ==
  /\ DaemonInit
  /\ session \in Sessions
  /\ rec = FALSE /\ pending = FALSE
  /\ app = "menu" /\ source \in session.sources /\ manual \in session.manuals
  /\ valid \in BOOLEAN /\ retimes = 0 /\ moves = 0
  /\ cnt = 0 /\ grace = "none"
  /\ mounted \in {TRUE, session.moves = 0} /\ enable = mounted /\ ready = TRUE /\ detReq = FALSE
  /\ initScan = ~mounted /\ last = mounted
  /\ repair = "none" /\ active = FALSE
  /\ timer = "none" /\ tick = 0
  /\ todo = [t \in Threads |-> <<>>]
  /\ queue = <<>>

-----------------------------------------------------------------------------
(* A thread's handler is the sequence of what it has yet to do.             *)

Idle(t) == todo[t] = <<>>

At(t, op) == ~Idle(t) /\ Head(todo[t]) = op

Then(t, ops) == todo' = [todo EXCEPT ![t] = ops \o Tail(@)]

Handle(t, ops) == Idle(t) /\ todo' = [todo EXCEPT ![t] = ops]

(* dvr_mutex is held from the test of dvr_is_recording until the command    *)
(* has been sent. (The lock is kept for two seconds more, for the daemon to *)
(* obey; the daemon here may take no time, or longer than that.)            *)
MutexFree_OrdersOutside == \A t \in Threads : ~At(t, "arm")

MutexFree == \A t \in Threads, op \in {"arm", "sendStart", "sendStop", "forget"} : ~At(t, op)

(* lvgl_mutex is held by every handler of the input thread, and by another  *)
(* thread that switches the source, from after "tune" until it has set it.  *)
Switches(t) == ~Idle(t) /\ ~At(t, "tune") /\ todo[t][Len(todo[t])] \in {"hdzero", "analog"}

LvglFree == Idle("ui") /\ \A t \in {"per", "esp"} : ~Switches(t)

Room == IF session.lack THEN BOOLEAN ELSE {TRUE}

(* gogglecmd: the queue goes with a daemon that quits, and is made again by *)
(* a sender or by the next daemon; until then an order may be lost. What is *)
(* left for a dead daemon is capped by its latest orders.                   *)
Send(cmd) ==
  \/ Len(queue) < MaxQueue /\ queue' = Append(queue, cmd)
  \/ ~alive /\ Len(queue) = MaxQueue /\ queue' = Append(Tail(queue), cmd)
  \/ ~alive /\ queue = <<>> /\ UNCHANGED queue

-----------------------------------------------------------------------------
(* dvr.c                                                                    *)

(* dvr_cmd up to the lock: the command is resolved against what the         *)
(* application believes, and without a card it only sets record_pending.    *)
Command(t) == \E cmd \in {"toggle", "start", "stop"} :
  LET start == cmd = "start" \/ (cmd = "toggle" /\ ~rec /\ ~pending) IN
  /\ At(t, cmd)
  /\ pending' = IF enable THEN pending ELSE start
  /\ Then(t, IF ~enable THEN <<>> ELSE IF start THEN <<"begin">> ELSE <<"end">>)
  /\ UNCHANGED <<rec, view, signal, counts, card, fsck, timer, tick, queue, daemonVars>>

(* dvr_cmd with the lock, a start: the daemon's configuration is written.   *)
BeginStart(t) ==
  /\ At(t, "begin") /\ MutexFree
  /\ \E room \in Room : Then(t, IF ~rec /\ room THEN <<"arm">> ELSE <<>>)
  /\ UNCHANGED <<belief, view, signal, counts, card, fsck, timer, tick, queue, daemonVars>>

Arm_KeepsPending(t) ==
  /\ At(t, "arm")
  /\ rec' = (ready \/ rec) /\ pending' = (pending \/ ~ready)
  /\ Then(t, IF ready THEN <<"sendStart">> ELSE <<>>)
  /\ UNCHANGED <<view, signal, counts, card, fsck, timer, tick, queue, daemonVars>>

Arm(t) ==
  /\ At(t, "arm")
  /\ IF ready THEN rec' = TRUE /\ pending' = FALSE /\ Then(t, <<"sendStart">>)
              ELSE rec' = rec /\ pending' = TRUE /\ Then(t, <<>>)
  /\ UNCHANGED <<view, signal, counts, card, fsck, timer, tick, queue, daemonVars>>

EndRecording(t) ==
  /\ At(t, "end") /\ MutexFree
  /\ rec' = FALSE
  /\ Then(t, IF rec THEN <<"sendStop">> ELSE <<>>)
  /\ UNCHANGED <<pending, view, signal, counts, card, fsck, timer, tick, queue, daemonVars>>

UpdateStatus_Blind ==
  /\ At("per", "status") /\ MutexFree
  /\ Then("per", <<>>)
  /\ UNCHANGED <<belief, view, signal, counts, card, fsck, timer, tick, queue, daemonVars>>

(* dvr_update_status: a recording the daemon does not confirm is given up.  *)
UpdateStatus ==
  /\ At("per", "status") /\ MutexFree
  /\ rec' = (rec /\ claims)
  /\ Then("per", IF rec /\ ~claims THEN <<"sendStop", "forget">> ELSE <<>>)
  /\ UNCHANGED <<pending, view, signal, counts, card, fsck, timer, tick, queue, daemonVars>>

Forget ==
  /\ At("per", "forget")
  /\ pending' = FALSE /\ Then("per", <<>>)
  /\ UNCHANGED <<rec, view, signal, counts, card, fsck, timer, tick, queue, daemonVars>>

(* system_script: inside the lock for start and stop, without it for stopl. *)
SendCommand(t) ==
  /\ \/ At(t, "sendStart") /\ Send("start")
     \/ At(t, "sendStop") /\ Send("stop")
     \/ At(t, "sendLive") /\ Send("live")
  /\ Then(t, <<>>)
  /\ UNCHANGED <<belief, view, signal, counts, card, fsck, timer, tick, daemonVars>>

-----------------------------------------------------------------------------
(* thread.c                                                                 *)

(* One pass of thread_peripheral, which sees the card first.                *)
Tick ==
  /\ Handle("per", IF tick = StatusPeriod - 1
                     THEN <<"detect", "detected", "status", "signal", "idle">>
                     ELSE <<"detect", "detected", "signal", "idle">>)
  /\ tick' = (tick + 1) % StatusPeriod
  /\ UNCHANGED <<belief, view, signal, counts, card, fsck, timer, queue, daemonVars>>

(* detect_sdcard reads the mount and says `ready` before it has looked ...  *)
Detect ==
  /\ At("per", "detect")
  /\ IF active THEN /\ todo' = [todo EXCEPT !["per"] = Tail(Tail(@))]
                    /\ UNCHANGED <<enable, ready>>
               ELSE /\ Then("per", <<>>)
                    /\ enable' = mounted /\ ready' = TRUE
  /\ UNCHANGED <<belief, view, signal, counts, detReq, initScan, last, fsck, timer, tick, queue, daemonVars>>

(* ... then takes it back for a card that is new or gone, has a new card    *)
(* repaired unless it is clean, and serves a start that waited for it.      *)
Detected ==
  LET fresh == (enable /\ ~last) \/ detReq
      scan  == initScan /\ enable
      gone  == ~enable /\ last
  IN
  /\ At("per", "detected")
  /\ ready' = (ready /\ ~fresh /\ ~scan /\ ~gone)
  /\ detReq' = (detReq /\ ~fresh)
  /\ initScan' = ((initScan /\ ~scan) \/ gone)
  /\ last' = enable
  /\ repair' \in IF scan /\ repair = "none" /\ ~active THEN {"none", "asked"} ELSE {repair}
  /\ \E room \in Room : Then("per", IF pending /\ ready' /\ room THEN <<"start">> ELSE <<>>)
  /\ UNCHANGED <<belief, view, signal, counts, enable, mounted, moves, active, timer, tick, queue, daemonVars>>

AutoRecording == ~manual /\ enable /\ app = "video"

LossGoesOn_OffByOne(n) == n <= LossThr

LossGoesOn(n) == n < LossThr

Counted_Endless == cnt + 1

Counted_LossOnly == IF rec /\ cnt < LossThr THEN cnt + 1 ELSE cnt

Counted == IF rec /\ cnt >= LossThr THEN cnt ELSE cnt + 1

(* check_source_signal: one counter debounces the loss of the signal while  *)
(* recording and its return while not. The thread then goes on with what is *)
(* left after `done`.                                                       *)
Count(done) ==
  LET n == Counted
      graceOver == ~session.delay \/ source = "hdmi" \/ grace = "over"
      Go(ops) == todo' = [todo EXCEPT !["per"] = ops \o done]
  IN
  \/ /\ rec /\ ~valid /\ LossGoesOn(n)
     /\ cnt' = n /\ UNCHANGED grace /\ Go(<<>>)
  \/ /\ rec /\ ~valid /\ ~LossGoesOn(n)
     /\ cnt'  = IF graceOver THEN 0 ELSE n
     /\ grace' = IF graceOver THEN "none" ELSE IF grace = "none" THEN "running" ELSE grace
     /\ Go(IF graceOver THEN <<"stop">> ELSE <<>>)
  \/ /\ ~rec /\ valid
     /\ cnt' = IF n >= AcqThr THEN 0 ELSE n
     /\ grace' = "none"
     /\ \E room \in Room : Go(IF n >= AcqThr /\ room THEN <<"start">> ELSE <<>>)
  \/ /\ rec = valid
     /\ cnt' = 0 /\ grace' = "none" /\ Go(<<>>)

(* What a new timing of each source does before the signal is counted.      *)
Retimed ==
  CASE source = "analog" -> IF rec THEN <<"stop", "start", "count">> ELSE <<"count">>
    [] source = "hdzero" -> <<"stop", "sendLive", "count">>
    [] source = "hdmi" -> <<"stop", "count">>

CheckSignal ==
  /\ At("per", "signal")
  /\ \/ /\ ~AutoRecording
        /\ Then("per", <<>>) /\ UNCHANGED <<counts, retimes>>
     \/ /\ AutoRecording
        /\ Count(Tail(todo["per"])) /\ UNCHANGED retimes
     \/ /\ AutoRecording /\ retimes < session.retimes
        /\ retimes' = retimes + 1
        /\ Then("per", Retimed)
        /\ cnt' = IF source = "analog" THEN cnt ELSE 0
        /\ grace' = IF Retimed = <<"count">> THEN grace ELSE "none"
  /\ UNCHANGED <<belief, view, valid, card, fsck, timer, tick, queue, daemonVars>>

CountSignal ==
  /\ At("per", "count") /\ Count(Tail(todo["per"]))
  /\ UNCHANGED <<belief, view, signal, card, fsck, timer, tick, queue, daemonVars>>

(* scan_core_idle_tick: with automatic detection and the source dark, the   *)
(* other protocol's receiver may have found a picture; the thread then asks *)
(* for lvgl_mutex.                                                          *)
CrossOver ==
  /\ At("per", "idle")
  /\ \/ Then("per", <<>>)
     \/ /\ session.dual /\ app = "video" /\ source # "hdmi" /\ ~valid
        /\ \E s \in session.sources \ {"hdmi", source} : Then("per", <<"tune", s>>)
  /\ UNCHANGED <<belief, view, signal, counts, card, fsck, timer, tick, queue, daemonVars>>

(* The time since signal_loss_at reaches the delay the user has set.        *)
GraceElapses ==
  /\ grace = "running" /\ grace' = "over"
  /\ UNCHANGED <<belief, view, signal, cnt, card, fsck, timer, tick, todo, queue, daemonVars>>

-----------------------------------------------------------------------------
(* The input thread and the ESP32 thread                                    *)

Press ==
  /\ "press" \in session.buttons
  /\ app = "video" /\ LvglFree /\ Handle("ui", <<"toggle">>)
  /\ UNCHANGED <<belief, view, signal, counts, card, fsck, timer, tick, queue, daemonVars>>

(* app_switch_to_menu (the variant that keeps the source is for start-up).  *)
EnterMenu ==
  /\ "menu" \in session.buttons
  /\ app = "video" /\ LvglFree
  /\ app' = "menu" /\ Handle("ui", <<"stop", "detReq", "sendLive">>)
  /\ UNCHANGED <<belief, session, source, manual, signal, counts, card, fsck, timer, tick, queue, daemonVars>>

(* app_exit_menu and the source page: app_switch_to_hdmi_in enters the      *)
(* video state first, the others last.                                      *)
EnterVideo == \E s \in session.sources :
  /\ app = "menu" /\ LvglFree
  /\ source' = s
  /\ app' = IF s = "hdmi" THEN "video" ELSE app
  /\ Handle("ui", <<"sendLive", "video">>)
  /\ UNCHANGED <<belief, session, manual, signal, counts, card, fsck, timer, tick, queue, daemonVars>>

(* tune_channel_confirm; hdzero_switch_channel stops the live stream.       *)
ChangeChannel ==
  /\ "channel" \in session.buttons /\ source # "hdmi"
  /\ app = "video" /\ LvglFree
  /\ Handle("ui", IF source = "hdzero" THEN <<"stop", "sendLive">> ELSE <<"stop">>)
  /\ UNCHANGED <<belief, view, signal, counts, card, fsck, timer, tick, queue, daemonVars>>

(* page_record.c                                                            *)
SetManual ==
  /\ app = "menu" /\ LvglFree /\ Idle("ui")
  /\ manual' \in session.manuals \ {manual}
  /\ UNCHANGED <<belief, session, app, source, signal, counts, card, fsck, timer, tick, todo, queue, daemonVars>>

(* A thread that waited for lvgl_mutex switches the source.                 *)
Tune(t) ==
  /\ At(t, "tune") /\ LvglFree
  /\ Then(t, <<"stop", "sendLive", "video">>)
  /\ UNCHANGED <<belief, view, signal, counts, card, fsck, timer, tick, queue, daemonVars>>

(* Steps of the handlers that are assignments.                              *)
Assign(t) ==
  /\ \/ At(t, "detReq") /\ detReq' = TRUE /\ UNCHANGED <<app, source>>
     \/ At(t, "video") /\ app' = "video" /\ UNCHANGED <<detReq, source>>
     \/ At(t, "hdzero") /\ source' = "hdzero" /\ UNCHANGED <<detReq, app>>
     \/ At(t, "analog") /\ source' = "analog" /\ UNCHANGED <<detReq, app>>
  /\ Then(t, <<>>)
  /\ UNCHANGED <<belief, session, manual, signal, counts, enable, ready, initScan, last, fsck, timer, tick,
                 queue, daemonVars>>

(* MSP_SET_REC_STATE, obeyed in the video state only; a delayed stop of     *)
(* nothing is discarded, and a delayed command replaces the one before it.  *)
SetRecState == \E cmd \in {"start", "stop"}, delayed \in BOOLEAN :
  /\ "record" \in session.backpack /\ app = "video"
  /\ Handle("esp", IF delayed THEN <<>> ELSE <<cmd>>)
  /\ timer' = IF delayed /\ (cmd = "start" \/ rec \/ pending) THEN cmd ELSE "none"
  /\ UNCHANGED <<belief, view, signal, counts, card, fsck, tick, queue, daemonVars>>

(* esp32_handler_timeout, in whatever state the application is by then.     *)
TimerFires ==
  /\ timer # "none" /\ timer' = "none"
  /\ Handle("esp", <<timer>>)
  /\ UNCHANGED <<belief, view, signal, counts, card, fsck, tick, queue, daemonVars>>

(* change_channel_hdzero, change_channel_analog: another channel of the     *)
(* source, or with automatic detection of either protocol, whatever the     *)
(* source is. A channel the goggle cannot tune itself is only remembered.   *)
BackpackChannel == \E s \in session.sources \ {"hdmi"} :
  /\ "channel" \in session.backpack /\ (session.dual \/ s = source)
  /\ Handle("esp", <<"tune", s>>)
  /\ UNCHANGED <<belief, view, signal, counts, card, fsck, timer, tick, queue, daemonVars>>

-----------------------------------------------------------------------------
(* The repair: page_storage.c and chkfixsd.sh                               *)

(* page_storage_repair_thread passes lvgl_mutex, then claims the card.      *)
RepairBegins ==
  /\ repair = "asked" /\ LvglFree
  /\ repair' = IF mounted THEN "quit" ELSE "none"
  /\ active' = mounted
  /\ UNCHANGED <<belief, view, signal, counts, card, moves, mounted, timer, tick, todo, queue, daemonVars>>

RepairQuits ==
  /\ repair = "quit" /\ repair' = "umount"
  /\ Send("quit")
  /\ UNCHANGED <<belief, view, signal, counts, card, moves, mounted, active, timer, tick, todo, daemonVars>>

(* Two seconds later; the daemon is taken to have quit by then.             *)
RepairUnmounts ==
  /\ repair = "umount" /\ ~alive
  /\ repair' = "mount" /\ mounted' = FALSE
  /\ UNCHANGED <<belief, view, signal, counts, card, moves, active, timer, tick, todo, queue, daemonVars>>

RepairMounts ==
  /\ repair = "mount"
  /\ repair' = "boot" /\ mounted' = TRUE
  /\ UNCHANGED <<belief, view, signal, counts, card, moves, active, timer, tick, todo, queue, daemonVars>>

(* page_storage_repair_sd sees the card mounted, maybe before the daemon.   *)
RepairReturns ==
  /\ active /\ repair \in {"boot", "none"}
  /\ active' = FALSE
  /\ UNCHANGED <<belief, view, signal, counts, card, moves, mounted, repair, timer, tick, todo, queue, daemonVars>>

(* The script starts the daemon, whose gogglemsg_flush takes one message.   *)
RepairBoots ==
  /\ repair = "boot" /\ Boot
  /\ repair' = "none"
  /\ queue' = IF queue = <<>> THEN queue ELSE Tail(queue)
  /\ UNCHANGED <<belief, view, signal, counts, card, moves, mounted, active, timer, tick, todo>>

-----------------------------------------------------------------------------
(* The record daemon                                                        *)

Receive ==
  /\ alive /\ queue # <<>>
  /\ \/ Head(queue) = "start" /\ ObeyStart /\ queue' = Tail(queue)
     \/ Head(queue) \in {"stop", "live"} /\ ObeyStop /\ queue' = Tail(queue)
     \/ Head(queue) = "quit" /\ ObeyQuit /\ queue' = <<>>
  /\ UNCHANGED <<belief, view, signal, counts, card, fsck, timer, tick, todo>>

DaemonWorks ==
  /\ \/ Work
     \/ session.crash /\ Die
  /\ UNCHANGED <<belief, view, signal, counts, card, fsck, timer, tick, todo, queue>>

-----------------------------------------------------------------------------
(* The pilot's signal and card; the card is left alone during a repair.     *)

SignalChanges ==
  /\ valid' = ~valid
  /\ UNCHANGED <<belief, view, retimes, counts, card, fsck, timer, tick, todo, queue, daemonVars>>

CardChanges ==
  /\ moves < session.moves /\ repair = "none" /\ ~active
  /\ mounted' = ~mounted /\ moves' = moves + 1
  /\ UNCHANGED <<belief, view, signal, counts, card, repair, active, timer, tick, todo, queue, daemonVars>>

-----------------------------------------------------------------------------

ThreadStep(t) ==
  \/ Command(t) \/ BeginStart(t) \/ Arm(t) \/ EndRecording(t) \/ SendCommand(t)
  \/ Tune(t) \/ Assign(t)

PeripheralStep ==
  \/ Tick \/ Detect \/ Detected \/ UpdateStatus \/ Forget \/ CheckSignal \/ CountSignal
  \/ CrossOver \/ ThreadStep("per")

UserStep == Press \/ EnterMenu \/ EnterVideo \/ ChangeChannel \/ SetManual

BackpackStep == SetRecState \/ BackpackChannel

RepairStep ==
  RepairBegins \/ RepairQuits \/ RepairUnmounts \/ RepairMounts \/ RepairReturns \/ RepairBoots

Next ==
  \/ PeripheralStep \/ ThreadStep("ui") \/ ThreadStep("esp")
  \/ UserStep \/ BackpackStep \/ TimerFires \/ GraceElapses
  \/ RepairStep \/ Receive \/ DaemonWorks
  \/ SignalChanges \/ CardChanges

Spec == Init /\ [][Next]_vars

(* The threads and the daemon keep running, and a thread that waits for     *)
(* dvr_mutex or lvgl_mutex gets it in the end: the holders give it up and   *)
(* then sleep.                                                              *)
(* Nothing obliges the user, the backpack, the signal, the card or a        *)
(* failing recording.                                                       *)
FairSpec ==
  /\ Spec
  /\ SF_vars(PeripheralStep)
  /\ SF_vars(ThreadStep("ui")) /\ SF_vars(ThreadStep("esp"))
  /\ WF_vars(Receive) /\ SF_vars(RepairStep) /\ WF_vars(GraceElapses)

-----------------------------------------------------------------------------
(* Properties                                                               *)

(* No order is on its way to the daemon.                                    *)
Quiet ==
  /\ queue = <<>>
  /\ \A t \in Threads, op \in {"sendStart", "sendStop"} : ~At(t, op)

(* No recording the pilot does not see: once the orders of the three        *)
(* threads have reached the daemon, it means to record only if the          *)
(* application says so (dvr_cmd and dvr_update_status change the flag and   *)
(* send the order under one lock).                                          *)
RecordingIsKnown == Quiet /\ wanted => rec

(* What the application shows and what the daemon does converge: a          *)
(* recording that failed, was ended by stopl or fell to a repair is noticed *)
(* (dvr_update_status), and one that was given up ends.                     *)
BeliefConverges ==
  /\ rec ~> (recording \/ ~rec \/ ~alive)
  /\ recording ~> (rec \/ ~recording)

(* Automatic recording comes back as long as there is a picture and a card  *)
(* with room, whatever stopped it: a repair, a channel change, a failure of *)
(* the daemon (the acquisition counter of check_source_signal).             *)
AutoRecordReturns ==
  <>[](AutoRecording /\ valid /\ mounted /\ ~session.lack) => []<>rec

(* Automatic recording of a source that has gone dark stops, after the      *)
(* grace period the pilot has set (the loss counter of check_source_signal).*)
DarkSourceStops == <>[](AutoRecording /\ ~valid) => []<>~rec

(* A start that waits for the card is not forgotten: with a card that stays *)
(* and has room it is served or given up (record_pending, detect_sdcard).   *)
PendingIsServed ==
  <>[](mounted /\ enable /\ repair = "none" /\ ~detReq /\ ~session.lack) => []<>~pending

(* The switch to the menu ends the recording "regardless": in the menu, when *)
(* every thread has done what it had to do, nothing is recorded.            *)
MenuStopsRecording == app = "menu" /\ (\A t \in Threads : Idle(t)) => ~rec

=============================================================================
