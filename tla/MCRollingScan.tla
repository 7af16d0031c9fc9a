---------------------------- MODULE MCRollingScan ----------------------------
(* A folder of up to five clips and a buffer of two or three places.        *)
EXTENDS RollingScan

MCNames == 1..5
=============================================================================
