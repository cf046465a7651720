---------------------------- MODULE MC_ChatTurn ----------------------------
(* TLC instance of ChatTurn. *)
EXTENDS ChatTurn
=============================================================================
