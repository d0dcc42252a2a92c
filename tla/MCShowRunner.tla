---------------------------- MODULE MCShowRunner ----------------------------
(* Model-checking instance of ShowRunner.  One time unit is one 50 ms tick. *)
EXTENDS ShowRunner, TLC

Show(dur, play, count) == [dur |-> dur, play |-> play, count |-> count]

\* Shows of every mode: steps of several lengths, a one-step show, steps
\* shorter than the longest tick in a show of one round and in one of three, and a
\* show without steps.
MCCycles ==
  { Show(<<2, 3, 2>>, "pingpong", 0),
    Show(<<2, 3>>, "count", 2),
    Show(<<1>>, "count", 3),
    Show(<<>>, "loop", 0) }

MCStories ==
  { Show(<<3, 2, 2>>, "loop", 0),
    Show(<<1, 2, 1>>, "once", 0) }

MCGroupLists == {{}, {1}}

Groups2 == {1, 2}

MCRoleOf == [g \in {1, 2} |-> "intake"]

MCProfileShows == [n \in {"rain"} |-> Show(<<3, 2, 2>>, "loop", 0)]

=============================================================================
