------------------------ MODULE MC_MagicLinkAuth ------------------------
(* TLC instance of MagicLinkAuth. *)
EXTENDS MagicLinkRefinement, TLC

CONSTANTS r1, r2, v1, v2, alice, bypass_mail

\* Handlers of one kind are interchangeable.
Symmetry == Permutations(Requests) \cup Permutations(Verifies)
=============================================================================
