--------------------------- MODULE MCBoardLights ---------------------------
(* A small instance of BoardLights: a fixed zone of one report, a header the *)
(* user left at the default of two reports, and one set to no LEDs.          *)
EXTENDS BoardLights

MCUserLeds == <<1>>
=============================================================================
