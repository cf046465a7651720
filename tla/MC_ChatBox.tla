----------------------------- MODULE MC_ChatBox -----------------------------
(* TLC instance of ChatBox. *)
EXTENDS ChatBox
=============================================================================
