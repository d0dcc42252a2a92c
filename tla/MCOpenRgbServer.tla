-------------------------- MODULE MCOpenRgbServer --------------------------
(* A small instance of OpenRgbServer: two groups with one and two fans.      *)
EXTENDS OpenRgbServer, TLC

\* a client that may ask twice, one that asks once
MCMaxSent == ("a" :> 8) @@ ("b" :> 4)
MCLayout == ("a" :> "backend") @@ ("b" :> "sdk")
MCFirstGroups == <<<<1, 1>>, <<2, 2>>>>
=============================================================================
