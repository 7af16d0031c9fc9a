------------------------------- MODULE MCDvr -------------------------------
(* Constants of the runs of Dvr: a session per hazard, so that the state    *)
(* spaces add up and do not multiply.                                       *)
EXTENDS Dvr

(* HDZero, automatic recording, a card that stays.                          *)
Base == [sources |-> {"hdzero"}, buttons |-> {}, manuals |-> {FALSE}, delay |-> FALSE,
         lack |-> FALSE, moves |-> 0, retimes |-> 0, backpack |-> {},
         dual |-> FALSE, crash |-> FALSE]

(* In the first two sessions automatic detection is on: the source is       *)
(* switched by the watchdog of the peripheral thread, in the second also by *)
(* the backpack, from analog and from HDMI.                                 *)
AllSessions ==
  {[Base EXCEPT !.sources = {"hdzero", "analog"}, !.buttons = {"menu"}, !.dual = TRUE],
   [Base EXCEPT !.sources = {"analog", "hdmi"}, !.backpack = {"channel"}, !.dual = TRUE],
   [Base EXCEPT !.backpack = {"record", "channel"}],
   [Base EXCEPT !.buttons = {"press", "channel"}, !.manuals = BOOLEAN],
   [Base EXCEPT !.sources = {"analog"}, !.buttons = {"press", "channel"}],
   [Base EXCEPT !.moves = 1],
   [Base EXCEPT !.buttons = {"press"}, !.manuals = {TRUE}, !.moves = 1],
   [Base EXCEPT !.sources = {"hdzero", "analog", "hdmi"}, !.retimes = 2, !.delay = TRUE],
   [Base EXCEPT !.crash = TRUE, !.lack = TRUE, !.moves = 1]}

(* The pilot starts a recording by hand and opens the menu.                 *)
MenuSessions == {[Base EXCEPT !.buttons = {"press", "menu"}, !.manuals = {TRUE}]}

=============================================================================
