--------------------------- MODULE MCHwmonTakeover ---------------------------
(* Model-checking instance of HwmonTakeover: its constants are model values
   and sets of them, all given in the configurations. *)
EXTENDS HwmonTakeover, TLC

=============================================================================
