--------------------------- MODULE MCCalibration ---------------------------
(* Three bits in place of seven.  A count falls by four at each of two       *)
(* delays, or by eight at one: more than the noise of two readings.          *)
EXTENDS Calibration, RangeBias

MCBit == [n \in 0 .. Loops |-> 2 ^ (Loops - n)]
MCTargets == {2, 4, 5}
Falls(d, e) == IF d < e THEN 4 ELSE 0
MCTemperatures ==
  {[d \in 2 ^ Loops + 1 .. 2 ^ (Loops + 1) - 1 |-> Falls(d, e) + Falls(d, f)] :
     e, f \in 2 ^ Loops + 1 .. 2 ^ (Loops + 1)}
=============================================================================
