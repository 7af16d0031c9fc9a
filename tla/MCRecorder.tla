----------------------------- MODULE MCRecorder -----------------------------
(* Constants of the runs of Recorder.                                       *)
EXTENDS Recorder

(* A fresh card without the record folder, and one with a clip on it.       *)
RoomyCards == {[clips |-> {}, path |-> FALSE, space |-> Ample],
               [clips |-> {0}, path |-> TRUE, space |-> Ample]}

FreshCards == {[clips |-> {}, path |-> FALSE, space |-> Ample]}

(* A card that was filled in an earlier session.                            *)
FullCards == {[clips |-> {0, 1}, path |-> TRUE, space |-> Full]}

MixedCards == RoomyCards \cup FullCards

(* Rolling with sound, or neither.                                          *)
MixedParams   == {[audio |-> TRUE, rolling |-> TRUE], [audio |-> FALSE, rolling |-> FALSE]}
RollingParams == {[audio |-> TRUE, rolling |-> TRUE]}

=============================================================================
