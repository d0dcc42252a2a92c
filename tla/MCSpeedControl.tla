--------------------------- MODULE MCSpeedControl ---------------------------
(* Constants of the SpeedControl runs.  Readings are half degrees. *)
EXTENDS SpeedControl, TLC

\* A line that may stop the fans and moves by at most 60%, and two steps.
Line  == [points |-> <<<<30, 40>>, <<34, 100>>>>, min |-> 0,
          step |-> FALSE, stop |-> 28, ramp |-> 60]
Steps == [points |-> <<<<30, 0>>, <<31, 70>>, <<32, 100>>>>, min |-> 40,
          step |-> TRUE, stop |-> Nil, ramp |-> Nil]

MCCurves == {Line, Steps}
MCReadings == {54, 61, 64, 65}
MCSavedCurve == [n \in Saved |-> Nil]
MCConfigSpeed == [g \in Groups |-> IF g \in Pumps THEN 40 ELSE Nil]
MCConfigCurve == [g \in Groups |-> IF g \in Fans THEN Steps ELSE Nil]
MCAlerts == <<[threshold |-> 32, speed |-> 100]>>
=============================================================================
