----------------------------- MODULE MC_Startup -----------------------------
(* TLC instance of Startup: two servers and one process of each other kind, *)
(* the script run on the host with a static directory of its own.           *)
EXTENDS Startup

CONSTANTS s1, s2, m1, p1, f1, host, volume
OnHost == {p1, f1}
Directories == [p \in Processes |-> IF p \in OnHost THEN host ELSE volume]
=============================================================================
