------------------------------ MODULE MCAvShare ------------------------------
(* The shared ring, with the constants of the runs in their .cfg files.     *)
EXTENDS AvShare
=============================================================================
