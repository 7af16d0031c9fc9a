------------------------------ MODULE MCSources ------------------------------
(* Constants of the runs of Sources: the Goggle, which knows no crossover,  *)
(* and the builds that do, each with its own hazards, with and without an   *)
(* ELRS backpack.                                                           *)
EXTENDS Sources

Goggle == [both |-> TRUE, crossover |-> FALSE, backpack |-> FALSE, sleeps |-> TRUE, rests |-> TRUE,
           vtxs |-> {"none", "wide", "narrow", "analog"}]

BoxPro == [both |-> TRUE, crossover |-> TRUE, backpack |-> FALSE, sleeps |-> FALSE, rests |-> FALSE,
           vtxs |-> {"wide", "narrow", "analog"}]

AllSessions ==
  {[Goggle EXCEPT !.backpack = TRUE, !.rests = FALSE],
   [Goggle EXCEPT !.backpack = TRUE, !.both = FALSE],
   BoxPro,
   [BoxPro EXCEPT !.both = FALSE, !.backpack = TRUE, !.vtxs = {"analog"}],
   [BoxPro EXCEPT !.both = FALSE, !.rests = TRUE, !.vtxs = {"wide"}]}

(* The two ways out of the sleep state that are not a waking: a crossover,  *)
(* and a backpack.                                                          *)
SleepSessions == {[BoxPro EXCEPT !.sleeps = TRUE], [Goggle EXCEPT !.backpack = TRUE]}

=============================================================================
