----------------------------- MODULE MCIpcEvents -----------------------------
(* Constants of the IpcEvents runs: the names of connections, in order of use. *)
EXTENDS IpcEvents, TLC

Conns3 == 1..3
=============================================================================
