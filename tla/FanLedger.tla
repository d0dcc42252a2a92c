------------------------------ MODULE FanLedger ------------------------------
(***************************************************************************)
(* What custody of the motherboard headers promises, whatever the process  *)
(* that holds it does: a durable ledger is written before a header is      *)
(* borrowed, and an entry is struck out only once the header is back.      *)
(***************************************************************************)
CONSTANTS Channels, Modes, Manual, None

VARIABLES native, mode, ledger

vars == <<native, mode, ledger>>

Init ==
  /\ native \in [Channels -> Modes]
  /\ mode = native
  /\ ledger = [c \in Channels |-> None]

Borrow(c) ==
  /\ ledger[c] = native[c]
  /\ mode' = [mode EXCEPT ![c] = Manual]
  /\ UNCHANGED <<native, ledger>>

GiveBack(c) ==
  /\ ledger[c] = native[c]
  /\ mode' = [mode EXCEPT ![c] = native[c]]
  /\ UNCHANGED <<native, ledger>>

\* Entries are added and struck out, several at once, for headers at home.
Rewrite ==
  /\ ledger' \in [Channels -> Modes \cup {None}]
  /\ \A c \in Channels : ledger'[c] # ledger[c] =>
       /\ mode[c] = native[c]
       /\ ledger'[c] \in {None, native[c]}
  /\ UNCHANGED <<native, mode>>

Next == Rewrite \/ \E c \in Channels : Borrow(c) \/ GiveBack(c)

Spec == Init /\ [][Next]_vars
=============================================================================
