------------------------ MODULE MagicLinkRefinement ------------------------
(* MagicLinkAuth keeps the promises of SignIn: the refinement mapping. *)
EXTENDS MagicLinkAuth

\* A row that a reset dropped, or may have dropped before its commit, is
\* told from one not yet written by the request that writes it.
Ledger == [r \in Requests |->
    IF links[r] # Absent
    THEN [state |-> IF IsUsed(links[r]) THEN "used" ELSE "live",
          deadline |-> links[r].expires]
    ELSE [state |-> IF req[r].pc \in {"respond", "mail", "done"} THEN "gone" ELSE "none",
          deadline |-> 0]]

VisitState(v) ==
    CASE ver[v].pc \in {"idle", "read"} -> "outside"
      [] ver[v].pc \in {"mark", "load", "flip", "commit"} -> "admitted"
      [] ver[v].pc = "issue" -> "redeemed"
      [] ver[v].pc = "done" /\ ver[v].status = "token" -> "signed_in"
      [] OTHER -> "away"
Visits == [v \in Verifies |->
    [state |-> VisitState(v),
     link  |-> IF VisitState(v) \in {"outside", "away"} THEN Bogus ELSE ver[v].link]]

Promise == INSTANCE SignIn WITH
    Links <- Requests, Visits <- Verifies, NoLink <- Bogus, Lifetime <- ExpireMinutes,
    clock <- now, ledger <- Ledger, visits <- Visits

\* Every behaviour of the handlers and the database, with its failures, races
\* and resets, is one of SignIn under this mapping.
KeepsSignIn == Promise!SignInSpec
=============================================================================
