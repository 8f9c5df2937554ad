-------------------------- MODULE MCAccelTelemetry --------------------------
(***************************************************************************)
(* AccelTelemetry for TLC: gravity up and down, and less than a unit.      *)
(***************************************************************************)
EXTENDS AccelTelemetry

Gravity ==
  {[val1 |-> 9, val2 |-> 806650], [val1 |-> -9, val2 |-> -806650],
   [val1 |-> 0, val2 |-> -1500]}

(* There are samples to lose, to log, and to lose again after that.        *)
ASSUME EnoughSamples == MaxSeq >= Slots + 3
=============================================================================
