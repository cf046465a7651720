------------------------------- MODULE Reports -------------------------------
(***************************************************************************)
(* What the statistics of the API compute from the rows their statements   *)
(* returned.  An ad is a number, its place in the order of titles; a row   *)
(* of ad_metrics is [ad, date, platform, impressions, clicks] (engagements *)
(* are treated as clicks are), one per date, ad and platform.  Rates are   *)
(* kept as fractions; rounding and formatting are left out.                *)
(***************************************************************************)
EXTENDS Naturals, Sequences, FiniteSetsExt, Functions

CONSTANTS
    Platforms,  \* AdPlatform
    TopN        \* top_n of the page's ranking

\* ad_metrics: the columns of a row, none of the counts negative.
AdMetric == [ad : Nat, date : Nat, platform : Platforms, impressions : Nat, clicks : Nat]

ASSUME ReportsAssumption == IsFiniteSet(Platforms) /\ TopN \in Nat

Total(rows, column) == SumFunction([m \in rows |-> m[column]])

\* The elements of S in the order of op.
Sorted(S, op(_, _)) ==
    CHOOSE s \in [1 .. Cardinality(S) -> S] : \A i, j \in DOMAIN s : i < j => op(s[i], s[j])

\* sorted({row.date ...})
Weeks(rows) == Sorted({m.date : m \in rows}, <)

----------------------------------------------------------------------------
(* get_coverage *)

\* Rows of ads that were not listed are placed as well.
PlacedAll(ads, rows) == rows
\* if ad_id in coverage
Placed(ads, rows) == {m \in rows : m.ad \in ads}

Coverage(ads, rows) ==
    LET weeks == Weeks(rows)
        Cell(a, w) == {m.platform : m \in {n \in Placed(ads, rows) : n.ad = a /\ n.date = w}}
    IN  [weeks |-> weeks, cells |-> [a \in ads |-> [i \in DOMAIN weeks |-> Cell(a, weeks[i])]]]

----------------------------------------------------------------------------
(* get_weekly_summary *)

WeeklySummary(rows) ==
    LET weeks == Weeks(rows)
        Sold(p, w) == Total({m \in rows : m.platform = p /\ m.date = w}, "impressions")
    IN  [weeks |-> weeks, series |-> [p \in Platforms |-> [i \in DOMAIN weeks |-> Sold(p, weeks[i])]]]

----------------------------------------------------------------------------
(* get_dataset_date_range and rank_ads *)

DateRange(rows) == LET dates == {m.date : m \in rows} IN <<Min(dates), Max(dates)>>

\* The last date is left out.
InPeriodOpen(rows, period) == {m \in rows : period[1] <= m.date /\ m.date < period[2]}
InPeriod(rows, period) == {m \in rows : period[1] <= m.date /\ m.date <= period[2]}

\* case((impressions > 0, clicks / impressions), else_=0)
Ctr(t) == IF t.impressions > 0 THEN <<t.clicks, t.impressions>> ELSE <<0, 1>>
Higher(x, y) == x[1] * y[2] > y[1] * x[2]

\* order_by without desc()
RanksBeforeAscending(t, u) ==
    Higher(Ctr(u), Ctr(t)) \/ (~Higher(Ctr(t), Ctr(u)) /\ t.ad < u.ad)
RanksBefore(t, u) ==
    Higher(Ctr(t), Ctr(u)) \/ (~Higher(Ctr(u), Ctr(t)) /\ t.ad < u.ad)

\* The totals of the period joined with the ads, best first.
RankAds(ads, rows, period) ==
    LET Of(a) == {m \in InPeriod(rows, period) : m.ad = a}
        totals == {[ad |-> a, impressions |-> Total(Of(a), "impressions"),
                    clicks |-> Total(Of(a), "clicks")] :
                   a \in {m.ad : m \in InPeriod(rows, period)} \cap ads}
        ranked == Sorted(totals, RanksBefore)
    IN  SubSeq(ranked, 1, IF Len(ranked) < TopN THEN Len(ranked) ELSE TopN)

----------------------------------------------------------------------------
(* get_ad_detail *)

\* An ad is found through its metrics.
FoundWithMetrics(a, data) == \E m \in data.metrics : m.ad = a
Found(a, data) == a \in data.ads

\* The ad's totals, which are the sums of its platforms'.
AdDetail(a, rows) ==
    LET Of(p) == {m \in rows : m.ad = a /\ m.platform = p}
        platforms == {p \in Platforms : Of(p) # {}}
        Sum(column) == SumFunction([p \in platforms |-> Total(Of(p), column)])
    IN  [platforms |-> platforms, impressions |-> Sum("impressions"), clicks |-> Sum("clicks")]
=============================================================================
