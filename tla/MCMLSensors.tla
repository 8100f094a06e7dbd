---------------------------- MODULE MCMLSensors -----------------------------
(* The requests a caller can pass: accel and compass each on or off, with *)
(* or without the DMP processor, plus one partial accel mask (refused)    *)
(* and pressure with no pressure slave (refused).                         *)
EXTENDS MLSensors

MCRequests ==
  [accel : {0, 3}, compass : {0, 3}, pressure : {0}, dmp : BOOLEAN]
  \cup {[accel |-> 1, compass |-> 0, pressure |-> 0, dmp |-> FALSE],
        [accel |-> 0, compass |-> 0, pressure |-> 3, dmp |-> FALSE]}

\* Durations in ticks on both sides of the accepted range, with distinct
\* bytes; thresholds at and just past 8180000.
MCNoMotionTimes == {-1, 258, 65536}
MCNoMotionThreshs == {8180000, 8180001}
=============================================================================
