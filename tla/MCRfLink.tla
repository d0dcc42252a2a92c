----------------------------- MODULE MCRfLink -----------------------------
(* A small instance of RfLink: a group with two receivers or a pump, a       *)
(* receiver that is free or bound to another controller, and two channels.   *)
EXTENDS RfLink

FirstReceiver(master, group, channel) ==
  [on |-> TRUE, master |-> master, group |-> group, channel |-> channel, kept |-> FALSE,
   pwm |-> 0, mb |-> FALSE, seq |-> 0, index |-> <<0, 0>>, parts |-> {}, shows |-> None]

\* two of ours in one group on the second channel, and a pump beside them that is
\* free, another controller's or ours
MCFirstFans ==
  {[f \in 1..3 |-> IF f < 3 THEN FirstReceiver(Tx, 1, 2) ELSE third] :
     third \in {FirstReceiver(None, Free, 2), FirstReceiver(Other, 1, 2), FirstReceiver(Tx, 2, 2)}}
MCChannels == <<1, 2>>
MCFans == 1..3
MCPumps == {3}
=============================================================================
