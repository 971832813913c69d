---------------------------- MODULE MCCheckpoint ----------------------------
(* Two voters are needed.  Values 1 and 9 are further apart than the         *)
(* tolerance and their mean is not, so round 2 can succeed where round 1     *)
(* failed.  A voter at 4 approves of 1 and of 9, so an approval can be over a *)
(* value other than the voter's own.                                         *)
EXTENDS Checkpoint

CONSTANTS v1, v2, v3
=============================================================================
