------------------------------ MODULE Dashboard ------------------------------
(***************************************************************************)
(* The readers of the ads tables during forced reseeds: the dashboard page *)
(* with its two rounds of requests.                                        *)
(*                                                                         *)
(* A request takes a connection of the pool and is one transaction.  Its   *)
(* statements read what is committed at the time, each table under a       *)
(* shared lock that lasts as long as the transaction does; TRUNCATE takes  *)
(* exclusive locks on the three tables in the order it names them.  A      *)
(* reader waits for a table that TRUNCATE has locked or waits for, up to   *)
(* the command timeout; when the two wait for each other, PostgreSQL fails *)
(* one of them.                                                            *)
(***************************************************************************)
EXTENDS Reports

CONSTANTS
    Ads,        \* every ad of any dataset
    Datasets,   \* what the source files may hold
    Connections, \* the connections of the engine's pool
    MaxReseeds  \* bound: runs of seed_from_source.py --force

Tables == {"ads", "metrics", "comments"}
Empty == [ads |-> {}, metrics |-> {}, comments |-> {}]

\* Metrics and comments refer to ads of their dataset; there are ads.
ASSUME DatasetsAssumption ==
    \A d \in Datasets :
        /\ d.ads # {} /\ d.ads \subseteq Ads
        /\ \A m \in d.metrics : m.ad \in d.ads
\* The tables hold finitely many rows.
ASSUME RowsAssumption ==
    \A d \in Datasets : IsFiniteSet(d.ads) /\ IsFiniteSet(d.metrics) /\ d.metrics \subseteq AdMetric
ASSUME BoundAssumption == MaxReseeds \in Nat /\ Connections \in Nat \ {0}

VARIABLES
    loaded,   \* the rows that are committed: a dataset or nothing
    writer,   \* where the forced reseed is
    excl,     \* how many tables its TRUNCATE has locked
    reseeds,  \* how many there were
    status,   \* of each request
    seen,     \* what each statement of a request read from
    locks,    \* the tables a request's transaction has locked
    page      \* where the page is
vars == <<loaded, writer, excl, reseeds, status, seen, locks, page>>

----------------------------------------------------------------------------
(* Requests and the tables their statements read. *)

List == <<"ads">>
Covering == <<"coverage">>
Weekly == <<"weekly">>
Overview == <<"stats">>
Ranking == <<"ranked">>
Detail(a) == <<"detail", a>>
FirstRound == {List, Covering, Weekly, Overview, Ranking}
Details == {Detail(a) : a \in Ads}
Requests == FirstRound \cup Details

ListReads == <<{"ads"}>>
CoverageReads == <<{"ads"}, {"metrics"}>>
WeeklyReads == <<{"metrics"}>>
StatsReads == <<{"ads"}, {"metrics"}, {"metrics"}, {"comments"}>>
RankedReads == <<{"metrics"}, {"metrics", "ads"}>>
DetailReads == <<{"ads"}, {"metrics"}, {"comments"}>>

Reads(r) ==
    CASE r = List -> ListReads
      [] r = Covering -> CoverageReads
      [] r = Weekly -> WeeklyReads
      [] r = Overview -> StatsReads
      [] r = Ranking -> RankedReads
      [] OTHER -> DetailReads

Statements(r) == Len(Reads(r))
Unread(r) == Len(seen[r]) < Statements(r)
\* The tables the next statement of r has yet to lock.
Wanted(r) == Reads(r)[Len(seen[r]) + 1] \ locks[r]

LockOrder == <<"comments", "metrics", "ads">>
Truncated == {LockOrder[i] : i \in 1 .. excl}
\* The table TRUNCATE waits for.
Awaited == IF writer = "truncate" /\ excl < 3 THEN {LockOrder[excl + 1]} ELSE {}

Blocked(r) == Wanted(r) \cap (Truncated \cup Awaited) # {}
\* The requests that have a connection, and none left for another.
InPool == {r \in Requests : status[r] \in {"open", "answered"}}
PoolEmpty == Cardinality(InPool) = Connections

----------------------------------------------------------------------------
(* Requests. *)

\* Every statement a transaction of its own: its locks end with it.
KeptForStatement(r) == {}
\* The session of a request is one transaction.
Kept(r) == locks[r] \cup Reads(r)[Len(seen[r]) + 1]

\* The session is left open.
ReleasedNever(r) == locks
Released(r) == [locks EXCEPT ![r] = {}]

\* What a request's n-th statement may find that ends it early.
NoSuchAd(r, n, data) == r \in Details /\ n = 1 /\ ~Found(r[2], data)
NoPeriod(r, n, data) == r = Ranking /\ n = 1 /\ data.metrics = {}
\* A row placed under an ad that has no line in the heatmap: a KeyError.
NoLine(r, n, data) ==
    /\ r = Covering /\ n = 2
    /\ \E m \in Placed(seen[r][1].ads, data.metrics) : m.ad \notin seen[r][1].ads

\* How a request stands once it has read data as its n-th statement.
After(r, n, data) ==
    CASE NoSuchAd(r, n, data) -> "missing"
      [] NoLine(r, n, data) -> "error"
      [] OTHER -> IF n = Statements(r) \/ NoPeriod(r, n, data) THEN "answered" ELSE "open"

\* get_current_user, the first to use the session.
Authenticate(r) ==
    /\ status[r] = "asked" /\ ~PoolEmpty
    /\ status' = [status EXCEPT ![r] = "open"]
    /\ UNCHANGED <<loaded, writer, excl, reseeds, seen, locks, page>>

Execute(r) ==
    /\ status[r] = "open" /\ Unread(r) /\ ~Blocked(r)
    /\ seen' = [seen EXCEPT ![r] = Append(@, loaded)]
    /\ status' = [status EXCEPT ![r] = After(r, Len(seen[r]) + 1, loaded)]
    /\ locks' = IF status'[r] \in {"open", "answered"} THEN [locks EXCEPT ![r] = Kept(r)]
                ELSE Released(r)
    /\ UNCHANGED <<loaded, writer, excl, reseeds, page>>

\* The engine's command_timeout.
GiveUp(r) ==
    /\ status[r] = "open" /\ Unread(r) /\ Blocked(r)
    /\ status' = [status EXCEPT ![r] = "failed"]
    /\ seen' = [seen EXCEPT ![r] = <<>>]
    /\ locks' = Released(r)
    /\ UNCHANGED <<loaded, writer, excl, reseeds, page>>

Close(r) ==
    /\ status[r] = "answered"
    /\ status' = [status EXCEPT ![r] = "closed"]
    /\ locks' = Released(r)
    /\ UNCHANGED <<loaded, writer, excl, reseeds, seen, page>>

----------------------------------------------------------------------------
(* The page. *)

Good == {"answered", "closed"}
Bad == {"missing", "error", "failed"}
Opened(rs) == status' = [r \in Requests |-> IF r \in rs THEN "asked" ELSE status[r]]
Cards == seen[List][1].ads

Home ==
    /\ page = "off"
    /\ Opened(FirstRound)
    /\ page' = "overview"
    /\ UNCHANGED <<loaded, writer, excl, reseeds, seen, locks>>

AskDetails ==
    /\ page = "overview"
    /\ \A r \in FirstRound : status[r] \in Good
    /\ Opened({Detail(a) : a \in Cards})
    /\ page' = "cards"
    /\ UNCHANGED <<loaded, writer, excl, reseeds, seen, locks>>

Show ==
    /\ page = "cards"
    /\ \A a \in Cards : status[Detail(a)] \in Good
    /\ page' = "shown"
    /\ UNCHANGED <<loaded, writer, excl, reseeds, status, seen, locks>>

\* getJSON throws and Promise.all rejects.
FailPage ==
    /\ page \in {"overview", "cards"}
    /\ \E r \in FirstRound \cup Details : status[r] \in Bad
    /\ page' = "failed"
    /\ UNCHANGED <<loaded, writer, excl, reseeds, status, seen, locks>>

----------------------------------------------------------------------------
(* The forced reseed; Startup has its other steps. *)

ResetTables ==
    /\ writer = "idle" /\ reseeds < MaxReseeds
    /\ writer' = "truncate"
    /\ reseeds' = reseeds + 1
    /\ UNCHANGED <<loaded, excl, status, seen, locks, page>>

LockTable ==
    /\ writer = "truncate" /\ excl < 3
    /\ \A r \in Requests : Awaited \cap locks[r] = {}
    /\ excl' = excl + 1
    /\ UNCHANGED <<loaded, writer, reseeds, status, seen, locks, page>>

CommitTruncate ==
    /\ writer = "truncate" /\ excl = 3
    /\ loaded' = Empty
    /\ writer' = "seed" /\ excl' = 0
    /\ UNCHANGED <<reseeds, status, seen, locks, page>>

CommitSeed ==
    /\ writer = "seed"
    /\ loaded' \in Datasets
    /\ writer' = "idle"
    /\ UNCHANGED <<excl, reseeds, status, seen, locks, page>>

\* The script ends early: with nothing loaded if TRUNCATE was committed.
WriterFails ==
    /\ writer \in {"truncate", "seed"}
    /\ writer' = "idle" /\ excl' = 0
    /\ UNCHANGED <<loaded, reseeds, status, seen, locks, page>>

----------------------------------------------------------------------------
\* TRUNCATE waits for a table of r's and r for one of TRUNCATE's.
Deadlocked(r) ==
    /\ status[r] = "open" /\ Unread(r)
    /\ Wanted(r) \cap Truncated # {} /\ Awaited \cap locks[r] # {}

BreakDeadlock(r) ==
    /\ Deadlocked(r)
    /\ \/ /\ status' = [status EXCEPT ![r] = "failed"]
          /\ seen' = [seen EXCEPT ![r] = <<>>]
          /\ locks' = Released(r)
          /\ UNCHANGED <<writer, excl>>
       \/ /\ writer' = "idle" /\ excl' = 0
          /\ UNCHANGED <<status, seen, locks>>
    /\ UNCHANGED <<loaded, reseeds, page>>

----------------------------------------------------------------------------
Init ==
    /\ loaded \in Datasets
    /\ writer = "idle" /\ excl = 0 /\ reseeds = 0
    /\ status = [r \in Requests |-> "off"]
    /\ seen = [r \in Requests |-> <<>>]
    /\ locks = [r \in Requests |-> {}]
    /\ page = "off"

Serve(r) ==
    \/ Authenticate(r) \/ Execute(r) \/ Close(r)
    \/ GiveUp(r) \/ BreakDeadlock(r)
Browse == AskDetails \/ Show \/ FailPage
Reseed == LockTable \/ CommitTruncate \/ CommitSeed
Next ==
    \/ \E r \in Requests : Serve(r)
    \/ Home \/ Browse \/ ResetTables \/ Reseed \/ WriterFails

Spec == Init /\ [][Next]_vars
\* The server runs what is asked of it, the script goes on, and PostgreSQL
\* looks for deadlocks.
FairSpec ==
    Spec /\ (\A r \in Requests : WF_vars(Serve(r))) /\ WF_vars(Browse) /\ WF_vars(Reseed)

----------------------------------------------------------------------------
(* Properties. *)

\* What each statement read from is a dataset or nothing; states and locks
\* keep their shape.
TypeOK ==
    /\ loaded \in Datasets \cup {Empty}
    /\ writer \in {"idle", "truncate", "seed"}
    /\ excl \in 0 .. 3 /\ reseeds \in 0 .. MaxReseeds
    /\ status \in [Requests -> {"off", "asked", "open"} \cup Good \cup Bad]
    /\ seen \in [Requests -> Seq(Datasets \cup {Empty})]
    /\ locks \in [Requests -> SUBSET Tables]
    /\ page \in {"off", "overview", "cards", "shown", "failed"}

\* No answer mixes the rows of two datasets: once a statement of a request
\* found rows, the later ones read from the same dataset, however long the
\* request takes and whatever the reseed does meanwhile.
OneDatasetPerAnswer ==
    \A r \in Requests : \A i, j \in DOMAIN seen[r] :
        i < j /\ seen[r][i] # Empty => seen[r][j] = seen[r][i]

\* What the endpoints answered.
HasAnswered(r) == status[r] \in Good /\ Len(seen[r]) = Statements(r)
CoverageAnswer == Coverage(seen[Covering][1].ads, seen[Covering][2].metrics)
WeeklyAnswer == WeeklySummary(seen[Weekly][1].metrics)
RankedAnswer ==
    RankAds(seen[Ranking][2].ads, seen[Ranking][2].metrics, DateRange(seen[Ranking][1].metrics))
DetailAnswer(a) == AdDetail(a, seen[Detail(a)][2].metrics)

\* The heatmap is built whenever the two statements behind it ran: no row is
\* of an ad that was not listed unless none was, and then the rows fall away.
CoverageWhole ==
    /\ status[Covering] # "error"
    /\ HasAnswered(Covering) =>
         LET ads == seen[Covering][1].ads
             rows == seen[Covering][2].metrics
         IN  ads = {} \/ Placed(ads, rows) = rows

\* The ranking holds the best ads of all dates: none that was left out beats
\* one that is in, and none is in twice.
RankedBest ==
    HasAnswered(Ranking) =>
        LET ranked == RankedAnswer
            data == seen[Ranking][2]
            Whole(a) == LET d == AdDetail(a, data.metrics)
                        IN  [ad |-> a, impressions |-> d.impressions, clicks |-> d.clicks]
            places == DOMAIN ranked
        IN  /\ \A i \in places : ranked[i] = Whole(ranked[i].ad)
            /\ \A i, j \in places : i < j => ranked[i].ad # ranked[j].ad
                                          /\ ~Higher(Ctr(ranked[j]), Ctr(ranked[i]))
            /\ \A a \in {m.ad : m \in data.metrics} \ {ranked[i].ad : i \in places} :
                   /\ Len(ranked) = TopN
                   /\ \A i \in places : ~Higher(Ctr(Whole(a)), Ctr(ranked[i]))

\* A page shown from one dataset agrees with itself: the tiles count the
\* cards, the chart's impressions are the cards', the ranking's numbers are
\* the cards' and the heatmap marks the cards' platforms, in the chart's weeks.
PageRequests == FirstRound \cup {Detail(a) : a \in Cards}
FromOneDataset ==
    \E d \in Datasets : \A r \in PageRequests :
        HasAnswered(r) /\ \A i \in DOMAIN seen[r] : seen[r][i] = d
PageAgrees ==
    page = "shown" /\ FromOneDataset =>
        LET coverage == CoverageAnswer
            weekly == WeeklyAnswer
        IN  /\ Cardinality(seen[Overview][1].ads) = Cardinality(Cards)
            /\ SumFunction([p \in Platforms |-> SumFunction(weekly.series[p])])
                 = SumFunction([a \in Cards |-> DetailAnswer(a).impressions])
            /\ \A i \in DOMAIN RankedAnswer :
                   LET best == RankedAnswer[i]
                       card == DetailAnswer(best.ad)
                   IN  best.impressions = card.impressions /\ best.clicks = card.clicks
            /\ coverage.weeks = weekly.weeks
            /\ \A a \in Cards : UNION {coverage.cells[a][i] : i \in DOMAIN coverage.weeks}
                                = DetailAnswer(a).platforms

\* A card's request finds its ad, unless the tables were reset since the page
\* was asked for.
MissingMeansReseeded ==
    (\E r \in Details : status[r] = "missing") => reseeds > 0

\* A reseed ends, whatever tables the requests hold when it starts: it gets
\* its locks once the transactions that hold them are closed, or it fails.
ReseedEnds == writer # "idle" ~> writer = "idle"

\* No request has more than its connection of the pool.
PoolKept == IsFiniteSet(InPool) /\ Cardinality(InPool) <= Connections

\* Nobody waits for good: a request waits for a reseed only and has a statement
\* to wait with; a request that TRUNCATE waits for is about to close, can read
\* on, or is in a deadlock of those two that PostgreSQL sees and breaks.
WaitsResolve ==
    /\ \A r \in Requests : status[r] = "open" =>
           Unread(r) /\ (Blocked(r) => writer = "truncate")
    /\ \A r \in Requests : Awaited \cap locks[r] # {} =>
           status[r] = "answered" \/ (status[r] = "open" /\ (~Blocked(r) \/ Deadlocked(r)))

\* The inductive invariant: a request that found rows keeps TRUNCATE from
\* them, without a reseed everything reads the one dataset, and each request
\* is made once, those for the cards after those of the first round.
LocksOK ==
    /\ \A r \in Requests : locks[r] # {} => status[r] \in {"open", "answered"}
    /\ \A r \in Requests : status[r] = "open" /\ seen[r] # <<>> => locks[r] # {}
    /\ \A r \in Requests : locks[r] \cap Truncated = {}
    /\ \A r \in Requests : \A i \in DOMAIN seen[r] :
         locks[r] # {} /\ seen[r][i] # Empty => loaded = seen[r][i]
WriterOK ==
    /\ writer # "truncate" => excl = 0
    /\ writer = "seed" => loaded = Empty
Undisturbed ==
    reseeds = 0 =>
        /\ writer = "idle" /\ loaded # Empty
        /\ \A r \in Requests : \A i \in DOMAIN seen[r] : seen[r][i] = loaded
        /\ \A a \in Ads : status[Detail(a)] # "off" => a \in loaded.ads
RoundsOK ==
    /\ page = "off" => \A r \in Requests : status[r] = "off"
    /\ page = "overview" => \A r \in Details : status[r] = "off"
    /\ \A r \in Requests : status[r] \in {"off", "asked"} => seen[r] = <<>>
    /\ \A r \in Requests : status[r] \in Good => seen[r] # <<>>
    /\ \A r \in Requests : status[r] # "error"
\* The ranking's second statement runs only if the first found a period.
PeriodOK ==
    (status[Ranking] = "open" /\ seen[Ranking] # <<>>) \/ Len(seen[Ranking]) > 1
        => seen[Ranking][1].metrics # {}
IInv ==
    /\ TypeOK
    /\ LocksOK /\ WriterOK /\ Undisturbed /\ RoundsOK
    /\ OneDatasetPerAnswer /\ MissingMeansReseeded
=============================================================================
