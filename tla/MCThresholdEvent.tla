-------------------------- MODULE MCThresholdEvent --------------------------
(***************************************************************************)
(* ThresholdEvent for TLC.  The readings are small numbers instead of      *)
(* thousands, for only their distances count.                              *)
(***************************************************************************)
EXTENDS ThresholdEvent

Reading(x, y, z) ==
  [a \in Axes |-> CASE a = "x" -> x [] a = "y" -> y [] a = "z" -> z]

(* At rest gravity is on z.  The first two readings are rest with noise,   *)
(* which averages to a number that has to be rounded; the others are       *)
(* motion, one between the thresholds and one beyond both.                 *)
NoiseAndMotion == {Reading(0, 0, -12), Reading(1, -1, -13),
                   Reading(2, 1, -10), Reading(5, 0, -16)}

(* A board that never moves and whose sensor has no noise.                 *)
StillBoard == {Reading(0, 0, -12)}

ASSUME GravityExceedsThresholds ==
  \A r \in Readings : Mag(r) > DefaultThreshold /\ Mag(r) > HostThreshold
=============================================================================
