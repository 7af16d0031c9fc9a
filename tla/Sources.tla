------------------------------ MODULE Sources ------------------------------
(***************************************************************************)
(* Which picture the pilot sees, and whether he sees one: the two          *)
(* receivers, the watchdogs of the peripheral thread that look for the     *)
(* signal (the bandwidth of HDZero, the other protocol), the buttons, the  *)
(* channels the ELRS backpack asks for, the sleep mode and the panel that  *)
(* is switched off while the goggles lie still. The threads share the      *)
(* tuner under lvgl_mutex, which not every step of the watchdogs takes.    *)
(*                                                                         *)
(* There is one frequency, which carries both protocols, and one VTX.      *)
(***************************************************************************)
EXTENDS Naturals, Sequences

CONSTANTS
  DarkThresh,  \* ticks without a signal before a watchdog acts
  Sessions     \* the builds and settings of a run

ASSUME SourcesAssumption ==
  /\ DarkThresh \in Nat \ {0}
  /\ Sessions \subseteq
       [both: BOOLEAN,       \* hdzero_bw is Both, otherwise it is Wide
        crossover: BOOLEAN,  \* a build that has scan_core_idle_tick (BoxPro, Goggle 2)
        backpack: BOOLEAN,   \* an ELRS backpack is connected
        sleeps: BOOLEAN,     \* the pilot uses the sleep mode
        rests: BOOLEAN,      \* the goggles may lie still
        vtxs: SUBSET {"none", "wide", "narrow", "analog"}]  \* what the VTX may send

VARIABLES
  session,
  app, source,   \* g_app_state, g_source_info.source
  auto,          \* g_setting.source.auto_protocol_detect
  mode,          \* g_hw_stat.source_mode
  open, bw,      \* hdzero_open, hdz_bw
  det,           \* g_hdz_detected_bw
  rx,            \* rx_valid as last reported by the receiver
  analog, down,  \* the analog receiver is powered; analog_powered_down
  probed,        \* last_probe_ts is set
  hit,           \* locked_bw of the sweep, or "none"
  dark, cross,   \* dark_ticks; no_signal_ticks and the period after it
  asleep, prev,  \* isSleeping, previousState
  inhibit, dim,  \* the panel's inhibit_mask; its brightness is 0
  oled,          \* state of detect_motion
  lock,          \* the holder of lvgl_mutex
  todo,          \* what is left of each thread's handler
  vtx, moving    \* the pilot's VTX and head

view     == <<session, app, source, auto, mode>>
receiver == <<open, bw, det, rx>>
analogs  == <<analog, down, probed>>
ticks    == <<hit, dark, cross>>
panel    == <<asleep, prev, inhibit, dim, oled>>
env      == <<vtx, moving>>
vars     == <<view, receiver, analogs, ticks, panel, lock, todo, env>>

(* The input thread (and the UI's own), the peripheral and the backpack's.  *)
Threads == {"ui", "per", "esp"}

Bands == {"wide", "narrow"}

Ops == {"menu", "close", "analogOff", "analogOn", "openEff", "asHdzero", "asAnalog", "video",
        "sleep", "tunerOff", "asleep", "wake", "choose", "openOther", "chooseAgain", "unlock",
        "bw", "bwLock", "hop", "hopProbe", "home", "reset", "power", "powerDown", "idle",
        "probeAnalog", "otherLock", "otherWide", "otherNarrow", "otherProbe",
        "sweepAnalog", "sweepWide", "sweepNarrow", "probeWide", "probeNarrow", "swept",
        "toAnalog", "toHdzero"}

TypeOK ==
  /\ session \in Sessions
  /\ app \in {"menu", "video", "sleep"} /\ prev \in {"menu", "video"}
  /\ source \in {"hdzero", "analog"} /\ mode \in {"ui", "hdzero", "av"}
  /\ auto \in BOOLEAN /\ open \in BOOLEAN /\ rx \in BOOLEAN
  /\ bw \in Bands /\ det \in Bands /\ hit \in Bands \cup {"none"}
  /\ analog \in BOOLEAN /\ down \in BOOLEAN /\ probed \in BOOLEAN
  /\ dark \in 0..(DarkThresh - 1) /\ cross \in 0..(DarkThresh - 1)
  /\ asleep \in BOOLEAN /\ inhibit \subseteq {"sleep", "idle"} /\ dim \in BOOLEAN
  /\ oled \in {"detecting", "pre", "off"}
  /\ lock \in Threads \cup {"none"} /\ todo \in [Threads -> Seq(Ops)]
  /\ (lock = "ui") = (todo["ui"] # <<>>)
  /\ lock \in {"per", "esp"} => todo[lock] # <<>>
  /\ vtx \in session.vtxs /\ moving \in BOOLEAN

(* After start-up, in the menu.                                             *)
Init ==
  /\ session \in Sessions
  /\ app = "menu" /\ prev = "menu" /\ mode = "ui"
  /\ source = "hdzero" /\ auto = session.crossover
  /\ open = FALSE /\ bw = "wide" /\ det = "wide" /\ rx = FALSE
  /\ analog = FALSE /\ down = TRUE /\ probed = FALSE
  /\ hit = "none" /\ dark = 0 /\ cross = 0
  /\ asleep = FALSE /\ inhibit = {} /\ dim = FALSE /\ oled = "detecting"
  /\ lock = "none" /\ todo = [t \in Threads |-> <<>>]
  /\ vtx \in session.vtxs /\ moving = TRUE

-----------------------------------------------------------------------------

At(t, op) == todo[t] # <<>> /\ Head(todo[t]) = op

Then(t, ops) == todo' = [todo EXCEPT ![t] = ops \o Tail(@)]

Free == lock = "none"

Other(b) == IF b = "wide" THEN "narrow" ELSE "wide"

(* hdzero_effective_bw                                                      *)
Effective == IF session.both THEN det ELSE "wide"

Locked == open /\ vtx = bw

(* An HDZero VTX raises the analog signal strength, too.                    *)
AnalogRssi == analog /\ vtx # "none"

(* HDZero_open, HDZero_Close: the bandwidth is kept while closed.           *)
Open(b) == open' = TRUE /\ bw' = b

Close == open' = FALSE /\ bw' = bw

(* scan_probe_hdzero: the flag is cleared and asked for again. The answer   *)
(* may come too late, and one about the other bandwidth may come instead.   *)
Probe(found) ==
  /\ found \in {FALSE, Locked, session.both /\ vtx \in Bands}
  /\ rx' = found
  /\ probed' = (probed \/ session.crossover)

ToHdzero == <<"analogOff", "openEff", "asHdzero">>

ToAnalog == <<"close", "analogOn", "asAnalog">>

ToMenu == <<"menu", "close", "analogOff">>

ToSource(s) == IF s = "hdzero" THEN ToHdzero ELSE ToAnalog

-----------------------------------------------------------------------------
(* The buttons. A handler of the input thread runs under lvgl_mutex.        *)

Button(ops) ==
  /\ Free /\ lock' = "ui"
  /\ todo' = [todo EXCEPT !["ui"] = ops]
  /\ UNCHANGED <<session, app, source, mode, receiver, analogs, ticks, panel, env>>

(* app_switch_to_menu                                                       *)
EnterMenu == app = "video" /\ Button(ToMenu \o <<"unlock">>) /\ UNCHANGED auto

(* app_exit_menu                                                            *)
ExitMenu == app = "menu" /\ Button(ToSource(source) \o <<"unlock">>) /\ UNCHANGED auto

(* page_source_select_hdzero, page_source_select_analog                     *)
SelectSource == \E s \in {"hdzero", "analog"} :
  /\ app = "menu" /\ auto' = FALSE
  /\ Button(ToSource(s) \o <<"unlock">>)

(* page_source_select_auto_detect                                           *)
SelectAuto ==
  /\ session.crossover /\ app = "menu" /\ auto' = TRUE
  /\ Button(<<"openEff", "analogOn", "choose", "unlock">>)

(* go_sleep, from its page or from a button in the video state: nobody      *)
(* notifies the crossover that the analog receiver is off.                  *)
GoSleep ==
  /\ session.sleeps /\ app # "sleep"
  /\ Button(<<"sleep", "close", "tunerOff", "asleep", "unlock">>) /\ UNCHANGED auto

(* wake_up: the way back to the video leads through the menu.               *)
WakeUp ==
  /\ app = "sleep" /\ UNCHANGED auto
  /\ Button(<<"wake">> \o (IF prev = "video" THEN ToMenu \o <<"video">> \o ToSource(source)
                                             ELSE <<>>)
                       \o <<"unlock">>)

-----------------------------------------------------------------------------
(* The backpack. Its commands are about the one frequency; where there is   *)
(* no built-in analog receiver an analog one only records the channel.      *)

(* msp_process_packet: the state is looked at before the lock, in the sleep *)
(* as well.                                                                 *)
Backpack ==
  LET wanted == IF source = "hdzero" \/ auto THEN "hdzero" ELSE "analog" IN
  /\ session.backpack /\ todo["esp"] = <<>>
  /\ source # wanted \/ app # "video"
  /\ wanted = "analog" => session.crossover
  /\ todo' = [todo EXCEPT !["esp"] = IF wanted = "hdzero" THEN <<"toHdzero">> ELSE <<"toAnalog">>]
  /\ UNCHANGED <<view, receiver, analogs, ticks, panel, lock, env>>

(* change_channel_hdzero, change_channel_analog                             *)
ChangeChannel ==
  /\ Free /\ lock' = "esp"
  /\ \/ At("esp", "toHdzero") /\ Then("esp", ToHdzero \o <<"unlock">>)
     \/ At("esp", "toAnalog") /\ Then("esp", ToAnalog \o <<"unlock">>)
  /\ UNCHANGED <<view, receiver, analogs, ticks, panel, env>>

-----------------------------------------------------------------------------
(* What the handlers are made of.                                           *)

SetApp(t) ==
  /\ \/ At(t, "menu") /\ app' = "menu" /\ mode' = "ui" /\ dim' = FALSE
        /\ UNCHANGED <<source, asleep, prev, inhibit>>
     \/ At(t, "video") /\ app' = "video" /\ UNCHANGED <<source, mode, asleep, prev, inhibit, dim>>
     \/ At(t, "asHdzero") /\ app' = "video" /\ source' = "hdzero" /\ mode' = "hdzero" /\ dim' = FALSE
        /\ UNCHANGED <<asleep, prev, inhibit>>
     \/ At(t, "asAnalog") /\ app' = "video" /\ source' = "analog" /\ mode' = "av" /\ dim' = FALSE
        /\ UNCHANGED <<asleep, prev, inhibit>>
     \/ At(t, "sleep") /\ app' = "sleep" /\ prev' = app /\ inhibit' = inhibit \cup {"sleep"}
        /\ UNCHANGED <<source, mode, asleep, dim>>
     \/ At(t, "asleep") /\ asleep' = TRUE /\ UNCHANGED <<app, source, mode, prev, inhibit, dim>>
     \/ At(t, "wake") /\ app' = prev /\ asleep' = FALSE /\ inhibit' = inhibit \ {"sleep"}
        /\ UNCHANGED <<source, mode, prev, dim>>
  /\ Then(t, <<>>)
  /\ UNCHANGED <<session, auto, receiver, analogs, ticks, oled, lock, env>>

SetReceiver(t) ==
  /\ \/ At(t, "close") /\ Close /\ UNCHANGED <<rx, analogs>>
     \/ At(t, "openEff") /\ Open(Effective) /\ rx' = FALSE /\ UNCHANGED analogs
     \/ At(t, "analogOff") /\ analog' = FALSE /\ down' = TRUE
        /\ UNCHANGED <<open, bw, rx, probed>>
     \/ At(t, "tunerOff") /\ analog' = FALSE /\ UNCHANGED <<open, bw, rx, down, probed>>
     \/ At(t, "analogOn") /\ analog' = TRUE /\ down' = FALSE
        /\ probed' = (probed \/ session.crossover)
        /\ UNCHANGED <<open, bw, rx>>
  /\ Then(t, <<>>)
  /\ UNCHANGED <<view, det, ticks, panel, lock, env>>

Unlock(t) ==
  /\ At(t, "unlock") /\ lock' = "none" /\ Then(t, <<>>)
  /\ UNCHANGED <<view, receiver, analogs, ticks, panel, env>>

(* scan_probe_both decides the source that auto detection enters with.      *)
Choose == \E found \in BOOLEAN :
  /\ At("ui", "choose") /\ Probe(found)
  /\ Then("ui", IF found \/ ~AnalogRssi THEN ToHdzero
                ELSE IF session.both THEN <<"openOther", "chooseAgain">> ELSE ToAnalog)
  /\ UNCHANGED <<view, open, bw, det, analog, down, ticks, panel, lock, env>>

OpenOther_Same(t) ==
  /\ \/ At(t, "openOther") /\ Open(Other(bw))
     \/ At(t, "otherWide") /\ Open("wide")
     \/ At(t, "otherNarrow") /\ Open("narrow")
     \/ At(t, "hop") /\ Open(det)
  /\ Then(t, <<>>)
  /\ UNCHANGED <<view, det, rx, analogs, ticks, panel, lock, env>>

OpenOther(t) ==
  /\ \/ At(t, "openOther") /\ Open(Other(bw))
     \/ At(t, "otherWide") /\ Open("wide")
     \/ At(t, "otherNarrow") /\ Open("narrow")
     \/ At(t, "hop") /\ Open(Other(det))
  /\ Then(t, <<>>)
  /\ UNCHANGED <<view, det, rx, analogs, ticks, panel, lock, env>>

ChooseAgain == \E found \in BOOLEAN :
  /\ At("ui", "chooseAgain") /\ Probe(found)
  /\ det' = IF found THEN bw ELSE det
  /\ Then("ui", IF found THEN ToHdzero ELSE ToAnalog)
  /\ UNCHANGED <<view, open, bw, analog, down, ticks, panel, lock, env>>

-----------------------------------------------------------------------------
(* scan_core_hdz_bw_tick: one pass of the peripheral thread begins.         *)

Tick ==
  /\ todo["per"] = <<>>
  /\ todo' = [todo EXCEPT !["per"] = IF session.crossover THEN <<"bw", "power", "idle">> ELSE <<"bw">>]
  /\ UNCHANGED <<view, receiver, analogs, ticks, panel, lock, env>>

Reacquires == session.both \/ (session.crossover /\ auto)

Watching == app = "video" /\ source = "hdzero"

Viewer == Watching /\ Reacquires

CheckBandwidth ==
  /\ At("per", "bw")
  /\ det' = IF Viewer /\ rx THEN bw ELSE det
  /\ dark' = IF Viewer /\ ~rx THEN (dark + 1) % DarkThresh ELSE 0
  /\ Then("per", IF Viewer /\ ~rx /\ dark + 1 = DarkThresh THEN <<"bwLock">> ELSE <<>>)
  /\ UNCHANGED <<view, open, bw, rx, analogs, hit, cross, panel, lock, env>>

LockBandwidth_Leaks ==
  /\ At("per", "bwLock") /\ Free /\ lock' = "per"
  /\ Then("per", IF ~Watching \/ rx THEN <<>>
                 ELSE IF session.both THEN <<"hop", "hopProbe">> ELSE <<"reset", "unlock">>)
  /\ UNCHANGED <<view, receiver, analogs, ticks, panel, env>>

LockBandwidth_NoRecheck ==
  /\ At("per", "bwLock") /\ Free /\ lock' = "per"
  /\ Then("per", IF session.both THEN <<"hop", "hopProbe">> ELSE <<"reset", "unlock">>)
  /\ UNCHANGED <<view, receiver, analogs, ticks, panel, env>>

(* The state is looked at again under the lock, recover_all_bw is not.      *)
LockBandwidth ==
  /\ At("per", "bwLock") /\ Free
  /\ IF ~Watching \/ rx THEN lock' = lock /\ Then("per", <<>>)
                      ELSE /\ lock' = "per"
                           /\ Then("per", IF session.both THEN <<"hop", "hopProbe">>
                                                          ELSE <<"reset", "unlock">>)
  /\ UNCHANGED <<view, receiver, analogs, ticks, panel, env>>

HopProbe_Stays == \E found \in BOOLEAN :
  /\ At("per", "hopProbe") /\ Probe(found)
  /\ det' = IF found THEN Other(det) ELSE det
  /\ Then("per", <<"unlock">>)
  /\ UNCHANGED <<view, open, bw, analog, down, ticks, panel, lock, env>>

(* The receiver stays where it has found the signal, or goes home.          *)
HopProbe == \E found \in BOOLEAN :
  /\ At("per", "hopProbe") /\ Probe(found)
  /\ det' = IF found THEN Other(det) ELSE det
  /\ Then("per", IF found THEN <<"unlock">> ELSE <<"home", "unlock">>)
  /\ UNCHANGED <<view, open, bw, analog, down, ticks, panel, lock, env>>

Reopen ==
  /\ \/ At("per", "home") /\ Open(det)
     \/ At("per", "reset") /\ Open("wide")
  /\ rx' = FALSE
  /\ Then("per", <<>>)
  /\ UNCHANGED <<view, det, analogs, ticks, panel, lock, env>>

-----------------------------------------------------------------------------
(* scan_core_idle_tick: neither the checks nor the probes take the lock.    *)

(* Five seconds after the last probe the radio not in use is powered down.  *)
IdlePower == \E expired \in BOOLEAN :
  /\ At("per", "power")
  /\ probed' = (probed /\ ~(auto /\ expired))
  /\ Then("per", IF auto /\ probed /\ expired /\ source = "hdzero" THEN <<"powerDown">> ELSE <<>>)
  /\ UNCHANGED <<view, receiver, analog, down, ticks, panel, lock, env>>

PowerDown ==
  /\ At("per", "powerDown")
  /\ analog' = FALSE /\ down' = TRUE
  /\ Then("per", <<>>)
  /\ UNCHANGED <<view, receiver, probed, ticks, panel, lock, env>>

HaveSignal == IF source = "hdzero" THEN rx ELSE analog /\ vtx = "analog"

CheckCrossover ==
  LET watching == auto /\ app = "video" /\ ~HaveSignal IN
  /\ At("per", "idle")
  /\ cross' = IF watching THEN (cross + 1) % DarkThresh ELSE 0
  /\ Then("per", IF ~(watching /\ cross + 1 = DarkThresh) THEN <<>>
                 ELSE IF source = "hdzero" THEN <<"probeAnalog">>
                 ELSE <<"sweepAnalog", "sweepWide", "probeWide">>
                      \o (IF session.both THEN <<"sweepNarrow", "probeNarrow">> ELSE <<>>)
                      \o <<"swept">>)
  /\ hit' = "none"
  /\ UNCHANGED <<view, receiver, analogs, dark, panel, lock, env>>

(* scan_probe_analog; the other bandwidth is chosen before the lock.        *)
ProbeAnalog ==
  /\ At("per", "probeAnalog") \/ At("per", "sweepAnalog")
  /\ analog' = (analog \/ down) /\ down' = FALSE /\ probed' = TRUE
  /\ Then("per", IF At("per", "sweepAnalog") \/ ~(analog' /\ vtx # "none") THEN <<>>
                 ELSE IF session.both
                 THEN <<"otherLock", IF bw = "wide" THEN "otherNarrow" ELSE "otherWide", "otherProbe">>
                 ELSE <<"toAnalog">>)
  /\ UNCHANGED <<view, receiver, ticks, panel, lock, env>>

(* The other bandwidth goes before the other protocol.                      *)
OtherProbe == \E found \in BOOLEAN :
  /\ At("per", "otherProbe") /\ Probe(found)
  /\ det' = IF found THEN bw ELSE det
  /\ Then("per", IF found THEN <<"unlock">> ELSE <<"unlock", "toAnalog">>)
  /\ UNCHANGED <<view, open, bw, analog, down, ticks, panel, lock, env>>

Sweep ==
  /\ \/ At("per", "sweepWide") /\ Open("wide")
     \/ At("per", "sweepNarrow") /\ Open("narrow")
  /\ Then("per", <<>>)
  /\ UNCHANGED <<view, det, rx, analogs, ticks, panel, lock, env>>

SweepProbe == \E found \in BOOLEAN :
  /\ At("per", "probeWide") \/ At("per", "probeNarrow")
  /\ Probe(found)
  /\ hit' = IF ~found THEN hit ELSE IF At("per", "probeWide") THEN "wide" ELSE "narrow"
  /\ Then("per", <<>>)
  /\ UNCHANGED <<view, open, bw, det, analog, down, dark, cross, panel, lock, env>>

Swept ==
  /\ At("per", "swept")
  /\ IF hit = "none" THEN Close /\ Then("per", <<>>)
                     ELSE UNCHANGED <<open, bw>> /\ Then("per", <<"toHdzero">>)
  /\ UNCHANGED <<view, det, rx, analogs, ticks, panel, lock, env>>

(* The switch itself, under the lock: whatever the pilot has done since the *)
(* check, he is taken to the video state.                                   *)
CrossOver ==
  /\ Free /\ lock' = "per"
  /\ \/ At("per", "otherLock") /\ Then("per", <<>>) /\ UNCHANGED det
     \/ At("per", "toAnalog") /\ Then("per", ToAnalog \o <<"unlock">>) /\ UNCHANGED det
     \/ At("per", "toHdzero") /\ Then("per", ToHdzero \o <<"unlock">>) /\ det' = hit
  /\ UNCHANGED <<view, open, bw, rx, analogs, ticks, panel, env>>

-----------------------------------------------------------------------------
(* ht_detect_motion, in the main loop, under the lock. Its counters are     *)
(* left out: it may act at any tick.                                        *)

DetectMotion(asIdle, inhibits, dims, opens, powers) ==
  /\ Free /\ ~asleep
  /\ oled' = asIdle /\ inhibit' = inhibits /\ dim' = dims
  /\ IF mode # "hdzero" THEN UNCHANGED <<open, bw>>
     ELSE IF opens THEN Open(Effective) ELSE Close
  /\ analog' = IF mode = "av" THEN powers ELSE analog
  /\ UNCHANGED <<view, det, rx, down, probed, ticks, asleep, prev, lock, todo, env>>

PreOff ==
  /\ oled = "detecting" /\ ~moving /\ Free /\ ~asleep
  /\ oled' = "pre" /\ dim' = TRUE
  /\ UNCHANGED <<view, receiver, analogs, ticks, asleep, prev, inhibit, lock, todo, env>>

PreOn ==
  /\ oled = "pre" /\ moving /\ Free /\ ~asleep
  /\ oled' = "detecting" /\ dim' = FALSE
  /\ UNCHANGED <<view, receiver, analogs, ticks, asleep, prev, inhibit, lock, todo, env>>

PanelOff ==
  /\ oled = "pre" /\ ~moving
  /\ DetectMotion("off", inhibit \cup {"idle"}, dim, FALSE, FALSE)

PanelOn_HdzeroOnly ==
  /\ oled = "off" /\ moving
  /\ DetectMotion("detecting", IF mode = "hdzero" THEN inhibit \ {"idle"} ELSE inhibit, FALSE, TRUE, TRUE)

PanelOn ==
  /\ oled = "off" /\ moving
  /\ DetectMotion("detecting", inhibit \ {"idle"}, FALSE, TRUE, TRUE)

-----------------------------------------------------------------------------
(* The world: the receiver reports what it is asked for at every tick.      *)

Report ==
  /\ source = "hdzero" /\ rx' = Locked
  /\ UNCHANGED <<view, open, bw, det, analogs, ticks, panel, lock, todo, env>>

VtxChanges ==
  /\ vtx' \in session.vtxs \ {vtx}
  /\ UNCHANGED <<view, receiver, analogs, ticks, panel, lock, todo, moving>>

HeadMoves ==
  /\ session.rests /\ moving' = ~moving
  /\ UNCHANGED <<view, receiver, analogs, ticks, panel, lock, todo, vtx>>

-----------------------------------------------------------------------------

Step(t) == SetApp(t) \/ SetReceiver(t) \/ OpenOther(t) \/ Unlock(t)

UserStep == EnterMenu \/ ExitMenu \/ SelectSource \/ SelectAuto \/ GoSleep \/ WakeUp

UiStep == Step("ui") \/ Choose \/ ChooseAgain

BackpackStep == Step("esp") \/ ChangeChannel

PeripheralStep ==
  \/ Step("per") \/ Tick \/ CheckBandwidth \/ LockBandwidth \/ HopProbe \/ Reopen
  \/ IdlePower \/ PowerDown \/ CheckCrossover \/ ProbeAnalog \/ OtherProbe
  \/ Sweep \/ SweepProbe \/ Swept \/ CrossOver

MotionStep == PreOff \/ PreOn \/ PanelOff \/ PanelOn

Next ==
  \/ UserStep \/ UiStep \/ Backpack \/ BackpackStep \/ PeripheralStep \/ MotionStep
  \/ Report \/ VtxChanges \/ HeadMoves

Spec == Init /\ [][Next]_vars

(* The threads keep running and get the lock in the end, the receiver       *)
(* reports, and not every answer to a probe comes too late.                 *)
FairSpec ==
  /\ Spec
  /\ WF_vars(UiStep) /\ SF_vars(BackpackStep) /\ SF_vars(PeripheralStep) /\ WF_vars(Report)
  /\ SF_vars((HopProbe \/ OtherProbe \/ SweepProbe) /\ rx' /\ Locked)
  /\ SF_vars(PreOn) /\ SF_vars(PanelOn)

-----------------------------------------------------------------------------
(* Properties                                                               *)

(* The watchdog that hops between the bandwidths leaves the receiver parked *)
(* where the signal was last seen, so that it locks when the pilot returns  *)
(* to it (scan_core_hdz_bw_tick). The sweeps of the crossover are excepted. *)
ParkedAtHome ==
  Free /\ app = "video" /\ source = "hdzero" /\ open
    /\ ~(\E op \in {"toAnalog", "toHdzero", "swept"} : \E i \in DOMAIN todo["per"] : todo["per"][i] = op)
  => bw = Effective

(* Without a crossover, the sleep state is dark: no watchdog that was under *)
(* way when the pilot went to sleep and no protection of the panel switches *)
(* a receiver on in it (go_sleep against scan_core_hdz_bw_tick, and against *)
(* ht_detect_motion). The backpack does, but it leaves the state as well.   *)
SleepIsDark ==
  Free /\ app = "sleep" /\ ~session.crossover
    => asleep /\ ~open /\ ~analog /\ "sleep" \in inhibit

(* A VTX that stays on is found and its picture is back again and again, at *)
(* either bandwidth when both may be used, by either protocol with auto     *)
(* detection, and by a pilot who moves in spite of the panel's protection.  *)
Receivable ==
  \/ vtx \in Bands /\ session.both /\ source = "hdzero"
  \/ moving /\ ~session.crossover /\ vtx = (IF source = "hdzero" THEN "wide" ELSE "analog")
  \/ moving /\ auto /\ vtx \in {"wide", "analog"} \cup (IF session.both THEN Bands ELSE {})

Picture == IF source = "hdzero" THEN Locked ELSE analog /\ vtx = "analog"

PictureReturns ==
  <>[](app = "video" /\ Receivable) /\ <>[][FALSE]_vtx => []<>Picture

(* The panel is lit again when the pilot moves, whatever he did while it    *)
(* was off: the two reasons to switch it off do not get in each other's way *)
(* (detect_motion, go_sleep, wake_up).                                      *)
PanelReturns == <>[](moving /\ ~asleep) => <>[](inhibit = {} /\ ~dim)

(* "Click any button to exit sleep mode": btn_press and btn_click wake the  *)
(* goggles in the sleep state only, so sleeping goggles have to be in it.   *)
ButtonWakes == Free /\ asleep => app = "sleep"

=============================================================================
