# HDZero goggle firmware: TLA+ models, checks and proofs

This directory is a verification project for the goggle firmware in this
repository (paths below are relative to its root). The firmware is a set of
Linux processes: the user interface application, a record daemon, an RTSP
server for the live stream, and a few converters and scripts. The project
covers two things a pilot relies on. The recording cannot be had again: the
record daemon, the rolling ("loop") recording that deletes clips, the
application's control of both, and the shared-memory ring that feeds the live
stream. The picture must be there while flying: the watchdogs, buttons, sleep
and protection modes that share the two receivers and the panel.

## 1. Inventory

### Processes and how they talk

    application (src/core, src/ui, src/driver)
       | gogglecmd -rec start|stop|stopl|quit   (System V message queue)
       v
    record daemon (src/record) ---- /tmp/record.dat, /tmp/now_recording ---> application
       |      \---- clips in the record folder of the SD card <--- playback page, portal
       | System V shared memory ring (avshare)
       v
    rtspLive (src/rtspLive) <--- RTSP clients

`record.conf` is written by the application before each start and read by the
daemon. `rc.sh` starts the daemon once; `chkfixsd.sh` and `formatsd.sh` end it
and start it again.

### Components

| Component | State | Operations | What is hard | What makes it correct |
|---|---|---|---|---|
| Record daemon, `src/record/main.c` | `stateGo`, `stateGoing`, `status`, `params`, `nbFileIndex`, `ff`, two encoder threads | START, STOP, LIVE_STOP, QUIT; every 500 ms disk check, reclaim, run, rollover; frame callbacks | two encoder threads and the main loop share `ff`; every start can fail at seven places; commands and ticks interleave with card events | threads, file and state agree; a stop is complete; `record.dat` is honest; what is wanted is retried |
| Card state, `src/record/disk.c` | `sdContext` (poller), `sdstat` (main loop) | `sdcard_check` every 490 ms, `disk_sdstat`, `disk_countMovies` | a cache without a lock, read by a thread that also corrects its own copy | decisions follow the card, new clips are numbered last |
| Rolling recording, `src/record/rolling.c`, `record_rollingReclaim` | a bounded buffer of candidates | scan, delete up to eight clips a tick | directory order, equal time stamps, clips that vanish, read-only cards, the open clip | only the oldest go, never the open one, never while no recording is wanted |
| Live ring writer, `src/record/avshare.c` | `idxNext`, `iDropped`, the slots' `wflag` | `avshare_addvid`, `avshare_add`, `avshare_reset`, `avshare_connected` | lock-free ring between two processes; overflow inside a packet; restarts of the encoder | the ring is a queue; what follows a lost chunk does not depend on it |
| Live ring reader, `src/rtspLive/stream/avshare.c`, `H264FramedLiveSource.cpp` | `idxNext`, `posNext` | `avshare_start`, `avshare_stop`, `avshare_readFrame` | a read may end inside a chunk; the ring may be reset meanwhile | no torn chunk, no splice of two chunks, everything is read |
| RTSP server process | live555 sessions | event loop | third-party loop | not modelled |
| Encoders, `vi2venc.c`, `ai2aenc.c`, `ai2ao.c` | hardware channels, threads | prepare, start, stop | VIPP and AI device shared by two users | the last user switches the device off, nobody earlier |
| Muxer | the open clip | open, write, close through ffmpeg | a failed open | in `Recorder` as the result of an open |
| JPEG, SPS patching, configuration, log | files | calls into libraries | little | not modelled |
| Message queue, `gogglemsg.c` | a kernel queue | send, receive without waiting, flush | a flush that leaves messages behind | what a dead daemon left is undone by a later order |
| DVR control, `src/core/dvr.c` | `dvr_is_recording`, `record_pending` | start, stop, toggle, `dvr_update_status` | several threads, a command resolved before the lock, a pending start, a status file read later | the application's belief follows the daemon; a stop cancels |
| Peripheral thread, `src/core/thread.c` | debounce counters, card flags | card detection, signal loss and acquisition | timers shared by modes and sources | auto recording follows picture and card |
| Source scan and crossover, `scan_core.c` | verdict history, timers | probe, sweep, watchdog | runs on a thread that takes two locks | the receiver is left in the state the source needs |
| Sleep, idle protection, screen arbiter | `isSleeping`, `previousState`, inhibition mask, saved fan settings | sleep, wake, motion and no motion, inhibit | two savers that nest, a watchdog or a backpack's command that is under way | sleep is dark, any button ends it, the panel returns with the motion |
| ESP32 backpack, `elrs.c`, `msp_displayport.c` | parser state, semaphore, delayed recording | packets, await, cancel | timeout races a late answer | an answer belongs to its request |
| App states and input, page_storage.c's repair, chkfixsd.sh | `g_app_state`, the repair's stages | menu, video, source, toggle, repair | handlers of seconds under `lvgl_mutex`, a script that ends the daemon | as of the parts they command |
| Other menus, OSD, settings, drivers, utilities, player, converters, portal, emulator | mostly drawing, registers and files | | | not modelled, reasons in PROJECT.json |

Threads of the application: peripheral, version, OSD, analog RSSI, input, ESP32
receiver, two receivers of the DM5680 chips, beeper, head tracker alarm, and
workers of some pages; its mutexes are `lvgl_mutex`, `dvr_mutex`,
`hardware_mutex`, `i2c_mutex`, `cmd_to5680_mutex`, `screen_control_mutex` and
`beep_mutex`.

The list "hazards" of PROJECT.json names, line by line, what this code is
exposed to and which property would catch it.

## 2. Modules

| Module | What it is |
|---|---|
| `RecordDaemon` | what the record daemon promises to those who command it |
| `Dvr` | the application's control of recordings: three threads, the card, the repair, the queue, and a `RecordDaemon` |
| `MCDvr`, `DvrProofs` | its sessions for TLC and its proofs |
| `Sources` | the receivers, the source watchdogs, the buttons, sleep and the panel |
| `MCSources`, `SourcesProofs` | its sessions and its proofs |
| `Recorder` | the record daemon with the card, the poller, the encoder threads and rolling recording |
| `MCRecorder` | its constants for TLC |
| `RecorderProofs` | proofs about its threads, file and status, and that it implements `RecordDaemon` |
| `CardProofs` | proofs about what it does with the card: footage, numbers, stops |
| `RollingScan` | one pass of rolling recording, entry by entry and deletion by deletion |
| `MCRollingScan`, `RollingScanProofs` | its constants and proofs |
| `AvShare` | the live stream ring with its writer, its reader and the daemon's main loop |
| `ChunkFifo` | what the ring promises: a bounded queue of chunks that may be emptied when a stream ends |
| `MCAvShare`, `AvShareProofs` | its constants and proofs |

### Recorder

The main loop's control is `pc`: "recv" when it takes a command, then, on a tick,
"check", "clear", "reclaim", "run" and "pack", in the order of `main_loop`
(main.c:1114-1122). Each of these is one action, because the other threads can
run between any two of them:

* `CheckDisk` and `ClearUpdated` are the two halves of `disk_sdstat`: the first
  copies the poller's cache into `sdstat`, the second clears `updated`, and the
  poller can set it in between. `DiskUpdate` is the body of `record_checkDisk`.
* `record_rollingReclaim` is one pass; which clips it tries is the oldest prefix
  of what `rolling_scan` returns, long enough to reach the target or the bound.
* `RunTick` is `record_run`, which is also what a START or STOP command calls:
  `record_start` with its four outcomes (`StartDeclined`, `StartFailed`,
  `StartAborted`, `StartOk`), `record_stop`, or the frame-rate check `FpsCheck`.
* `record_stop` takes two steps, `JoinThreads` (pc = "join") and `CloseFile` (pc =
  "close"); `after` says where its caller goes on. Up to the join the threads
  deliver frames, also those of an abandoned start whose video encoder was
  already running.
* `PackIdle`, `PackRoll` and `PackCrash` are `record_pack`: nothing is due, the
  rollover (`RolloverOk`, or `RolloverFailed`, which removes whatever lies under the
  new number), and the read of `recCtx->ff->nbTotalSize` when `ff` is NULL.

`VideoFrame` and `AudioFrame` are the callbacks, each under `recCtx->mutex` in
the code and so one step here. `PollSample` and `PollPublish` are
`sdcard_check`: fields first, `updated` after the log has been written to disk.
`CardStep` is the world: a card goes in or out, its mount lingers, it turns
read-only, the user deletes a clip.

Abstractions: a clip is its number, with its modification time and whether it
holds footage; free space has the three levels the code tells apart (below the
disk-full mark, below the low mark, above); a NULL dereference is the SIGSEGV
handler's abort (`Crash`). With `offCard` the open file is known to lie on a
card that is gone. `rollFailed` and `known` are history variables: `known` is the
set of clips that `disk_countMovies` has seen, or that a start or a rollover has
created and counted, since the card went in and the daemon came up. Contiguous and ELRS names
carry the number; names made of the date do not, and are left to `RollingScan`,
where a name is any element of an order. The saving of `record.dat` is taken to
succeed, so that the later retry of `REC_statusSave` changes nothing.

Named assumptions in the model:

* `RemovalNoticed`: a person changing cards takes longer than the poller's
  490 ms plus one tick, so a new card goes in after the daemon has seen the
  empty slot.
* A start happens in one step up to its success or its call of `record_stop`: the
  frame callbacks wait for `ff`, which is set before `vi2venc_start` runs the
  thread, so nothing else of a start is visible to them. An abandoned start keeps
  its number, so that the retry truncates its clip, and the frames in it.

### RecordDaemon and how the parts compose

`RecordDaemon` has four variables: the daemon lives, its last command was START,
the encoder runs, `record.dat` says 1. It may fail to record, stop by itself and
begin again; it may not record unasked, claim a recording that does not run, or
die unless it was told to record. `Recorder` implements it (`KeepsPromise`): `claims`
is `status`; `recording` is `Underway`, the video thread or, between the join and
the end of `record_stop`, a status that still says so; `wanted` is a `stateGo` of
Run, or a recording under way whose STOP is still being obeyed. And `Dvr` contains it as the daemon
it commands, so what holds of `Dvr` holds with the real daemon in that place.
`Recorder`'s promise includes that the daemon is not killed by anyone else.

### Dvr

Each of the three threads (`ui`: input, `per`: peripheral, `esp`: backpack) has a
sequence of what its current handler has still to do, `todo[t]`; an action takes
the first element and may put others in its place. So `app_switch_to_menu` is
`<<"stop", "detReq", "sendLive">>` and anything of another thread can come between
its parts.

* `Command` is `dvr_cmd` up to the lock, `BeginStart`, `Arm` and `SendCommand` the
  start under it, `EndRecording` and `SendCommand` the stop. The mutex is taken
  when one of the operations it protects is next; the code keeps it for two
  seconds after the order, in the hope that the daemon obeys in that time, of
  which the model makes no use.
* `UpdateStatus` and `Forget` are `dvr_update_status`.
* `Tick` begins a pass of `thread_peripheral`; `Detect` and `Detected` are
  `detect_sdcard`, which sets `g_sdcard_ready` before it has looked at the card
  and takes it back afterwards, so that other threads see it flicker;
  `CheckSignal` and `CountSignal` are `check_source_signal` before and after the
  commands that a change of the video timing causes (`Retimed`).
* `RepairBegins` to `RepairBoots` are the repair thread and the lines of
  `chkfixsd.sh`. A queue is removed by the daemon that quits and made again by
  whoever sends next, or by the next daemon, whose flush takes one message.
* `BackpackChannel` and `CrossOver` bring the backpack's thread and the peripheral
  thread to the point where they ask for `lvgl_mutex`, what they have seen of state
  and source being old by then; `Tune` is the moment they get it. They stop the
  recording, stop the live stream, push the video state and set the source last. With
  automatic detection (`dual`) the source may be another one, and for the backpack
  also when HDMI is shown. Where analog video comes from an expansion module the
  backpack's command changes only a remembered number, which is no step here.
* The state of the application is "video" or "menu", the latter for every other.

Named assumptions: the model begins after start-up (`app_switch_to_menu_keep_source`,
which neither stops a recording nor asks for a card check, is called by main.c only
then); the daemon has quit before the
script unmounts the card (it sleeps two seconds whatever the daemon does); the card is left alone during a
repair; signal and timing are booleans and events. `Command` reads the flag,
`record_pending` and `g_sdcard_enable` in one step.

### Sources

Three threads: `ui`, whose handlers run under `lvgl_mutex`; `per`, whose two
watchdogs run without it except where the code takes it; and `esp`, the backpack's
thread, which looks at the state without the lock and switches the receiver under
it. The main loop's motion detection, also under the mutex, is one action per
change. Again `todo` is what a handler has still to do:

* `Tick`, `CheckBandwidth`, `LockBandwidth`, `OpenOther` (hop), `HopProbe` and
  `Reopen` (home or reset) are `scan_core_hdz_bw_tick`.
* `IdlePower`, `PowerDown`, `CheckCrossover`, `ProbeAnalog`, `Sweep`, `SweepProbe`,
  `Swept`, `OtherProbe` and `CrossOver` are `scan_core_idle_tick` and
  `try_crossover_probe` with the probes they call.
* `EnterMenu`, `ExitMenu`, `SelectSource`, `SelectAuto`, `GoSleep` and `WakeUp` are
  the handlers of the buttons, made of `SetApp`, `SetReceiver`, `Choose` and
  `ChooseAgain`.
* `Backpack` is the part of `msp_process_packet` up to the lock, in any state, asleep
  included, and `ChangeChannel` the locked part of `change_channel_hdzero` and
  `change_channel_analog`, with the same switches as the crossover's. On a Goggle,
  whose analog receiver is an expansion module, an analog channel does nothing.
* `PreOff`, `PreOn`, `PanelOff` and `PanelOn` are `detect_motion`.

There is one frequency and one VTX, which sends HDZero at one of two bandwidths
or analog video. The receiver has a lock when it is open at the VTX's bandwidth; a
probe clears the flag, asks, and may read it before the answer has come, or read
an answer meant for the other bandwidth. Any
carrier raises the analog signal strength; this is what makes the code look at
the other bandwidth first. Left out are the guard for dialing (`channel_osd_mode`); the
counters of `detect_motion`, which may act at any tick; changes of `hdzero_bw` in the
menu, which is constant in a session; the power saving of flying disarmed
(`power_save_enter`, `power_save_exit`); the external module that Goggle 2 may show
instead of its own receiver (app_state.c:127-131); and the supply of the analog
module, which `go_sleep` switches on hardware revision 2
(`DM5680_ExternalAnalog_Power(1)`, sleep_mode.c:43) and `wake_up` switches on
(`Analog_Module_Power(1)`): `analog` is the tuner, which `go_sleep` does switch off, without
telling the crossover (`tunerOff`).

### RollingScan

`ReadEntry` handles one directory entry, in any order: it is skipped
(`SkipEntry`), appended (`AppendEntry`), or, the buffer being full, put in the
newest entry's place if it is older (`ReplaceNewest`). The buffer is a set: the
code's array order matters to nobody until it is sorted, and its index of the
newest entry is modelled as the entry. `rolling_delete_clip` is one iteration of
the loop in `record_rollingReclaim`; an unlink may fail and each clip that goes
may be the one that meets the target. `UserTakes` is the playback page or the
web share deleting a clip or making a favourite of it between any two steps.
`seen` is a history variable.

### AvShare

The writer, the reader and the main loop each have their own control. A chunk is
two halves long, so that a read may end inside one. `AddBegin` and `AddEnd` are
the two sides of the `memcpy` into a slot, so that a read of a slot that is
written would be seen. `ReadScan` finds the reader's next slot in one step;
with `SlowScan` the slots are looked at one at a time (`ReadLook`, `ReadNext`).
`ReadCopy` and `ReadRelease` copy a chunk and give its slot back, `ReadPartly`
is a read whose buffer ends inside a chunk, and one that ends at the boundary is a
`ReadRelease` after which nothing more is copied. `LiveStart`, `LiveRunUnconnected`,
`LiveStop`, `LiveJoin` and `avshare_reset` are the main loop's `live_run`,
`live_start` and `live_stop`, with the join of the encoder thread between two
frames. `rchunk` is a history variable: the chunk a read ended in.

Named assumptions in the model:

* `DisconnectNoticed`: a client's teardown and the next set-up take longer than
  the 100 ms in which `live_run` notices.
* After a reset the place a read ended in may lie beyond the end of the new chunk, and
  `copyLen` is negative. The model's chunks have two halves and stop short of that;
  it begins where `NoSplice` is already violated (finding 3).
* `LiveStart` does not happen inside one call of `avshare_readFrame`: creating
  an encoder takes far longer than the copies of one call.

`ChunkFifo` is the abstract specification: a queue of at most `Capacity` chunks
to which one is added, from which the first is taken, or which is emptied.
`AvShare` implements it with `queue <- Queue`, the readable chunks in the order
in which they were written; `InOrder` defines that order by rank, without
recursion and without a library's sort, so that the prover can reason about it.

## 3. Runs

| Run | Shows | States |
|---|---|---|
| `recorder` | rolling on, cards of every kind, a user who deletes: the open clip stays, footage is only reclaimed, oldest first, new clips are last, a wanted recording runs | 319 thousand |
| `recorder_failures` | failing encoders and cards, full cards, a root file system with room, a slow poller, restarts: agreement of threads and state, complete stops, honest status, crash only after a failed rollover, a lost card's file is closed, `RecordDaemon` is implemented, what was counted or recorded keeps its footage and new clips follow it | 2.3 million |
| `recorder_stale` | finding 1 | counterexample |
| `recorder_full_card` | finding 2 | counterexample |
| `avshare` | the ring is a queue, no splice, cut packets heal | 128 thousand |
| `avshare_restart` | with resets and a slow scan: no torn read, everything is read | 395 thousand |
| `avshare_epochs` | finding 3 | counterexample |
| `rolling_scan` | the buffer keeps the oldest, deletions are in order of age | 420 thousand |
| `dvr` | no unseen recording, belief and daemon converge, automatic recording returns and stops, a pending start is served | 212 thousand |
| `dvr_menu` | finding 4 | counterexample |
| `sources` | the receiver is parked at home, sleep is dark, picture and panel return | 362 thousand |
| `sources_sleep` | finding 5 | counterexample |

Bounds. `Recorder`: clip numbers 0..2 hold a clip of
an earlier session, the one being written and the one after it, which is all
that a decision ever compares; one deletion per tick makes a reclaim take
several ticks; two modification times in `recorder` let the clock jump back, and
in the other runs all clips have the same time, as on a goggle without a battery
for its clock. Cards: a fresh one without the folder, one with a clip, one that
is full with two clips. `SlowLog`, `Restarts`, `UserMayDelete`, `EncoderMayFail`
and `CardMayFail` switch parts of the environment; each is on in a run whose
properties could be disturbed by it. `AvShare`: three slots and I frames of up to
two chunks make the ring wrap, fill up in the middle of a packet, and be
restarted within five or six packets. `RollingScan`: five names, three places,
two deletions, two times: the buffer overflows by two and the bound on attempts
bites.

`Dvr`: a run is a set of sessions, each with what one kind of hazard needs, so
that state spaces add up instead of multiplying: the crossover with the menu; the
crossover with a backpack that changes channels, from analog and from HDMI; a backpack that
records and changes channels; the record button with channel changes and both record
modes; the same with analog video; a card that comes or goes once with the repair it
causes, under automatic and under manual recording; three sources with changing
timing and a grace period; a crashing daemon on a card that may lack room. `LossThr` = 3 and
`AcqThr` = 2 keep the code's order (20 and 10) and make a count long enough to be
left over from the other use; every pass checks the status (`StatusPeriod` = 1,
in the code every fifth); two messages in the queue hold an order with the one
that undoes it. `retimes` and `moves` bound the changes of timing and the moves of
the card per session. `Sources`: `DarkThresh` = 2 ticks makes a watchdog wait once
(15 and more in the code); the sessions are the Goggle, without crossover, which
sleeps, at two bandwidths, and rests as well, at one, both with a backpack; and
builds with crossover: with a VTX that changes bandwidth and protocol, with a backpack
that asks for HDZero channels while the VTX sends analog video, and with goggles that
rest.

The number of packets and of clips is capped (`MaxPackets`, `MaxIndex`), so the
ring's runs end in states without successors and say `CHECK_DEADLOCK FALSE`, as
does the run of a single reclaim pass, which ends. The daemon's runs check
deadlock.

Fairness. `Recorder!FairSpec` is weakly fair to the poller, to the tick and to the
loop's housekeeping: the poller is a thread that sleeps 100 ms at a time, and the
main loop polls its queue without waiting. Nothing is assumed of commands, cards, frames,
or of anyone restarting a daemon that is gone. `Dvr!FairSpec` lets each thread go
on, strongly where it may wait for `dvr_mutex` or `lvgl_mutex`, whose holders sleep
without it sooner or later; it lets the daemon receive, the repair
advance and time pass, and asks nothing of the pilot, the backpack, the signal,
the card or a recording that fails. `Sources!FairSpec` lets the threads go on,
strongly where they wait for `lvgl_mutex` behind a pilot who presses buttons all
the time; it lets the receiver report and motion be noticed, and of a probe it
asks that the answer not come too late for ever. `AvShare!FairSpec` is fair to the
writer finishing the packet it has and to the RTSP event loop, which asks again
every millisecond; not to clients, frames or the main loop.

What passing runs leave out because properties do not hold with it. `recorder` has
no card that is full when it is put in (finding 2), and it takes the root file
system, which `statfs` measures while no card is mounted, to be short of space
(`RootFull`): then every new card flips `full` and is counted. With `RootFull` off
and rolling on, an update that the poller publishes between the copy and the
clearing of `updated` (disk.c:414-428) is lost with nothing to flip, nobody counts
the new card's clips, and the next START truncates clip 0: `NewClipIsLast` and
`FootageOnlyReclaimed` both fail. They fail too when the first update of a daemon
that has just begun comes after its first tick (`SlowLog`), and when a daemon is
started again with a card that is full (`Restarts`). `FootageOnlyReclaimed` fails with
encoders that fail, too: the frames of an abandoned start are truncated by its
retry. `recorder_failures` has all of these, and what remains true: a clip that the daemon
has counted or recorded since the card went in keeps its footage until it is
reclaimed, and no new clip takes or precedes its number; so what is lost is what was
on an uncounted card, or in an abandoned start. `avshare` leaves resets out (finding
3). `SleepIsDark` speaks of builds without crossover, and `ButtonWakes` holds
without crossover and backpack only (finding 5). A backpack on a build with crossover
and both bandwidths is left to the proof of `ParkedAtHome`; its liveness is
not checked. `CutPacketsHeal` is about chunks that are next to
each other in the ring: a packet that was dropped as a whole shows by the I frame
that the next one begins with. `BeliefConverges` excuses a daemon that has died: nobody
in the application looks at the process.
With `SlowScan` the order of `RingIsFifo` can be broken by a writer that adds two
chunks while the reader's loop looks at the flags; with `Resets` the reader may be
behind the writer's new index and take the chunks of a packet in the wrong
order. Both are listed as hazards.

Every property of a passing run has a mutant in PROJECT.json, a plausible slip in
one definition, under which TLC finds the property violated. The mutants stand
before the definitions they change and are named after them.

## 4. Findings

1. `recorder_stale`, `StopsOnlyOnFullCard`. A reclaim publishes its measurement
   in `sdstat.full` (main.c:891), and the next tick's `disk_sdstat` takes the
   poller's older figure back (disk.c:423). If the space is above the low mark by
   then, nothing is deleted, nothing is published, and `record_run` stops the
   recording with `DiskFull`. It is started again at a later tick. The comment above the
   assignment says that this cannot happen.
2. `recorder_full_card`, `NewClipIsLast`. The clips of a card that is full when it
   is mounted are not counted (main.c:777), and after a reclaim nobody does:
   `disk_sdstat` sees no flip since the reclaim cleared the flag itself. The next
   recording opens number 0 and truncates it if it is there.
3. `avshare_epochs`, `NoSplice`. A reset of the ring leaves the reader's position
   where it was; a read that had stopped inside a chunk goes on inside a chunk of
   the new encoder.
4. `dvr_menu`, `MenuStopsRecording`. "Stop recording if switching to menu mode from
   video mode regardless", says app_state.c:43; but `DVR_STOP` cancels a pending
   start only while no card is enabled (dvr.c:600). With a card that is enabled
   and not ready the stop does nothing and `detect_sdcard` starts the recording in
   the menu. A start resolved before the stop took the mutex does the same.
5. `sources_sleep`, `ButtonWakes`. A channel command of the backpack looks at
   `g_app_state` before `lvgl_mutex`, and only to see whether it is the video already
   (elrs.c:179-196, 230-239). In the sleep state, or waiting for the mutex behind
   `go_sleep`, it opens a receiver and pushes the video state. `isSleeping` and the
   panel's inhibition stay, and the buttons, which wake in the sleep state only, no
   longer do so. This is the trace TLC finds. The other session of the run, a build
   with crossover and no backpack, has the same end: a crossover that is probing when
   the pilot puts the goggles to sleep switches to the video afterwards, since it does
   not look at the state again under `lvgl_mutex` (scan_core.c:536).

Seen while modelling, with no statement of the repository against them: a
crossover that misses closes the HDZero receiver without the lock
(scan_core.c:559), also that of a pilot who has meanwhile selected plain HDZero;
`scan_core_idle_tick` checks the source and powers the analog receiver down without
the lock, also after a switch to analog in between; the bandwidth watchdog opens
the receiver that idle protection has closed (ht.c:142), as long as both
bandwidths are allowed; `scan_probe_hdzero` reads the flag right after asking for
it (scan_core.c:236-243), before an answer can have come; a left click does not wake
goggles that were put to sleep from the video (input_device.c:695).

## 5. Proofs

All proofs hold for every value of the constants that satisfies the modules'
named assumptions; TLC evaluates these in the runs above.

`RecorderProofs` (from `RecorderAssumption`):

* `TypeCorrect`: `Spec => []TypeOK`. Not a formality here: that `nbFileIndex` stays
  within `0..MaxIndex + 1` needs that `disk_countMovies` returns a number
  of the folder, and that a clip is opened only under a number of `Index`.
* `ThreadsAlwaysMatch`, `StopAlwaysComplete`, `StatusAlwaysHonest`,
  `CrashOnlyAfterFailedRollover`: the four safety invariants of
  `recorder_failures`, proved together: none is inductive without the others. That
  `record.dat` is honest needs `stateGoing` to match the threads; that a stop is
  complete needs that a state other than Run leaves no audio thread, for which
  the parameters must be those the threads were started with. They speak of the
  moments between two calls; `StoppingInv` says what holds in the middle of
  `record_stop`: a thread without a file is left by a failed rollover, and none is
  left when the file is closed.
* `OpenClipAlwaysKept`: needs in addition that `offCard` is set in the step that takes
  a card from under an open clip, so that `~offCard` implies a mounted card.

Each proof has one step per action of `Next` and closes with PTL.

`RollingScanProofs` (from `RollingScanAssumption`, and times that are naturals):

* `ScanKeepsOldest`: `Spec => []OldestKept`. The inductive invariant `ScanInv` adds
  `BufferOK`: the buffer is finite, no larger than `MaxScan`, part of what was
  seen, and `newest` is its greatest element. The case that matters is the
  replacement: that a new newest element exists is `NewestExists`, by
  well-foundedness of strict inclusion on finite sets; that it beats what was
  thrown out follows from `rolling_compare` being a strict total order.
* `ReaperDeletesOldestFirst`: `Spec => DeletesOldestFirst`, from `ScanInv`: what is
  deleted is the least untried entry of the buffer, and every clip seen that is
  not in the buffer is newer than all of it.

`DvrProofs` (from `DvrAssumption`):

* `DvrTypeCorrect`: `Spec => []TypeOK`, in three parts (signal, card, control). That the
  counter keeps within its thresholds needs both of its uses.
* `RecordingAlwaysKnown`: `Spec => []RecordingIsKnown`. The invariant `DvrInv` says what
  the lock is for. `Handlers`: no step under the lock stands in the middle of a
  handler, but for the end of `dvr_update_status`. `OneHolder`: at most one thread
  is under the lock. `LastOrder`: while the flag is off, the last order, wherever it
  is by now (with a thread about to send it, last in the queue, or obeyed), is
  not a START. Every step outside the lock keeps `DvrInv` by one lemma
  (`PlainStep`); the four under it have a lemma each. The queue's overflow and
  its end with a daemon, which may lose any order but the last, do not disturb it.

`RecorderProofs!DaemonKeepsPromise`: `Spec => KeepsPromise`, the refinement of
`RecordDaemon`, step by step from `TypeOK` and the inductive invariant of the four
safety properties. It makes `Dvr`'s theorems theorems about the application with
the real daemon.

`CardProofs` (from `RecorderAssumption`, and for the last theorem what it states):

* `KnownFootageIsKept` and `NewClipAlwaysFollows`: `Spec => KnownFootageKept` and
  `Spec => NewClipFollowsKnown`, for every card, full or not, every root file system,
  delays, failures and restarts: nothing is assumed of the environment. The
  inductive invariant `KnownInv` says that a clip that is known has a number below
  `nbFileIndex`, which is the next start's or rollover's, and that the folder is
  that of the mounted card. It has to survive the four places that set
  `nbFileIndex`, the abandoned start that leaves its clip and not its number, the
  failed rollover that removes the clip under its number, and the card that
  changes under an open clip. That `disk_countMovies` is the greatest number
  (`LastClipExists`) is by well-foundedness on finite sets; that the reclaim takes the
  oldest follows from `rolling_compare` being asymmetric. The stronger statements
  `FootageOnlyReclaimed` and `NewClipIsLast`, about all clips of the card, are
  model-checked where they hold (section 3).
* `StopsOnlyOnFullCardUnlessFreed`: `Spec => StopsOnlyOnFullCard` where nothing deletes
  clips, neither the reclaim nor the user, for any other environment. Then `full` in
  the cache or its copy implies a full card (`FullInv`). So finding 1 needs somebody
  to free space.

`AvShareProofs` (from `AvShareAssumption` and what each theorem states):

* `RingTypeCorrect`, `ReadNeverTorn`: `Spec => []TypeOK` and `Spec => []NoTornRead`, with
  resets and slow scans. `SharingInv` says whose a slot is: the slot being written is
  flagged as the writer's until the chunk is in it, the one being copied as the
  reader's until a reset, after which no writer begins before the call has ended.
* `ReadsNeverSpliced`: `Spec => []NoSplice` where the ring is not reset under a client
  (`~Resets`; finding 3 is what happens otherwise). `PositionKept`: the slot a read
  ended in stays readable and keeps its chunk until the reader goes on.
* `RingImplementsFifo`: `Spec => RingIsFifo`, the refinement of `ChunkFifo`, and
  `CutPacketsAlwaysHeal`: `Spec => []CutPacketsHeal`, where there is neither a reset
  nor a slow scan, with which the order can be broken (section 3). `RingInv`: the
  readable slots are a segment of the ring, from the reader's place to the writer's,
  whose chunks were written in the order of the places, each a possible successor of
  the one before. The segment's chunks are the queue (sorting a sequence that is in
  order gives that sequence); a step leaves the segment alone, lengthens it at the
  writer's end, shortens it at the reader's, or empties it. A chunk that does not
  fit sets `iDropped`, which keeps everything out up to the next I frame.

`SourcesProofs` (from `SourcesAssumption`, and for the last theorem what it states):

* `SourcesTypeCorrect`, `ReceiverParked`, `SleepStaysDark`: `Spec` implies always
  `TypeOK`, `ParkedAtHome` and `SleepIsDark`, for every threshold and every set of
  builds, with and without a backpack. The inductive invariant `SourcesInv` describes a handler by what is left of
  it: `UiOK`, `PerOK` and `EspTails` say which operations can follow each other, that the lock is
  taken before the operations it protects and given back after the last. With it,
  `ParkedInv` says that a receiver that is not at its home bandwidth is about to be
  opened there or closed by the thread that has the lock, and `SleepInv` goes through
  the remainders of `go_sleep`: once the state is "sleep" the watchdogs find nothing
  to do, because they look at the state again under the lock, each
  remainder has done its part, and a backpack that takes the lock lights a receiver
  but has left the state when it gives the lock back.
* `ButtonWakesWithoutEither`: `Spec => []ButtonWakes` if no session has a crossover or
  a backpack: finding 5 names the only two ways to its violation.

Every safety invariant and every action property of the passing runs is the
statement of a theorem, but for `FootageOnlyReclaimed` and `NewClipIsLast`. Only
model-checked are these two and what needs fairness: `LostCardIsClosed`,
`WantedRecordingRuns`, `ChunksAreRead`, `BeliefConverges`, `AutoRecordReturns`,
`DarkSourceStops`, `PendingIsServed`, `PictureReturns` and `PanelReturns` (liveness
rests on ENABLED, which is beyond the prover), and the absence of deadlock.

## 6. Plan

What is left, in order of what matters to the pilot:

1. `Msp`: the packet parser and the await/cancel/timeout exchange of the backpack.
   Property: a success belongs to the request that was sent last.
2. `Encoders`: the VIPP and the AI device shared by two users each: the last user
   switches the device off, nobody earlier.
3. The fans that sleep and the power saving of a disarmed craft save and restore,
   as a part of `Sources`.
4. `TsProxy`: the converter's pipeline with its bound on lent images.

Proofs to come: for the liveness properties, the safety part of each that the
prover can do, that is, which steps can undo progress (that only a listed event
lengthens the way to a recording, to a lit panel or to an empty ring); and that the
pass `Recorder` takes in one step is what the steps of `RollingScan` add up to.

## 7. Not modelled

Drawing and menus, register sequences of the drivers, floating-point filters,
ini files and languages hold little state for a model checker. The vendor's
media libraries, ffmpeg, live555 and the kernel are outside; where the code
depends on their answers the model allows every answer. The emulator and the
platform layer are stubs for the desktop build. Firmware updates are shell
scripts run one after the other.
