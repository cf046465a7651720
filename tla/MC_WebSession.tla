--------------------------- MODULE MC_WebSession ---------------------------
(* TLC instance of WebSession: a reader and a scanner, two requests. *)
EXTENDS WebSession
=============================================================================
