---------------------------- MODULE MC_Dashboard ----------------------------
(* TLC instance of Dashboard: a dataset with a gap in its weeks, an ad without *)
(* metrics and a platform without impressions, and one whose ads are tied.     *)
EXTENDS Dashboard

Row(a, w, p, shown, clicked) ==
    [ad |-> a, date |-> w, platform |-> p, impressions |-> shown, clicks |-> clicked]
Gaps == [ads |-> 1 .. 2, comments |-> {1},
         metrics |-> {Row(1, 1, "Google", 4, 1), Row(1, 3, "Meta", 0, 0), Row(1, 3, "Google", 2, 1)}]
Ties == [ads |-> 2 .. 3, comments |-> {},
         metrics |-> {Row(2, 1, "Meta", 2, 1), Row(3, 1, "Google", 2, 1), Row(3, 2, "Google", 1, 1)}]
MCDatasets == {Gaps, Ties}
MCAds == 1 .. 3
=============================================================================
