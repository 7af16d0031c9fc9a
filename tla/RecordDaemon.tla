---------------------------- MODULE RecordDaemon ----------------------------
(***************************************************************************)
(* What the record daemon promises to those who command it: it records     *)
(* only while its last command was START or until it has obeyed the STOP,  *)
(* and /tmp/record.dat says 1 only while it records, unless it died and    *)
(* left the file behind. It may fail to record what is wanted, stop by     *)
(* itself, and begin again.                                                *)
(*                                                                         *)
(* Recorder is shown to implement this module; Dvr commands a daemon of    *)
(* which it knows no more than this.                                       *)
(***************************************************************************)
VARIABLES
  alive,      \* the process runs
  wanted,     \* its last command was START, or a STOP it is still obeying
  recording,  \* the encoder runs
  claims      \* record.dat says 1

daemonVars == <<alive, wanted, recording, claims>>

DaemonTypeOK ==
  alive \in BOOLEAN /\ wanted \in BOOLEAN /\ recording \in BOOLEAN /\ claims \in BOOLEAN

DaemonInit == alive = TRUE /\ wanted = FALSE /\ recording = FALSE /\ claims = FALSE

(* Any outcome of an attempt to record or of a check of its progress.       *)
Outcome ==
  /\ recording' \in BOOLEAN
  /\ claims' \in {FALSE, recording'}

ObeyStart == alive /\ wanted' = TRUE /\ Outcome /\ UNCHANGED alive

ObeyStop ==
  /\ alive
  /\ wanted' = FALSE /\ recording' = FALSE /\ claims' = FALSE
  /\ UNCHANGED alive

ObeyQuit ==
  /\ alive /\ alive' = FALSE
  /\ wanted' = FALSE /\ recording' = FALSE /\ claims' = FALSE

(* Housekeeping: a wanted recording fails, is retried, or is given up on.   *)
Work == alive /\ wanted /\ Outcome /\ UNCHANGED <<alive, wanted>>

(* Only a daemon that was told to record can die; record.dat stays behind.  *)
Die ==
  /\ alive /\ wanted
  /\ alive' = FALSE /\ wanted' = FALSE /\ recording' = FALSE
  /\ UNCHANGED claims

Boot ==
  /\ ~alive /\ alive' = TRUE
  /\ wanted' = FALSE /\ recording' = FALSE /\ claims' = FALSE

DaemonNext == ObeyStart \/ ObeyStop \/ ObeyQuit \/ Work \/ Die \/ Boot

DaemonSpec == DaemonInit /\ [][DaemonNext]_daemonVars

=============================================================================
