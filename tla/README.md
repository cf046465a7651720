# Verification of the ads insight service

TLA+ models of the service in this repository: a FastAPI back end on PostgreSQL
(`app/`, `alembic/`, `scripts/`) with a Next.js site in front of it (`web/`). TLC
checks the models on small instances; TLAPS proves the most important of their
properties for every value of the constants. `PROJECT.json` lists the runs, the
source lines behind each definition, the hazards and the theorems.

To check a module: `tlc -config MC_Startup.cfg MC_Startup`; to prove one:
`tlapm Startup_proofs.tla`.

## 1. The system

| Component | State | Operations | Talks to |
|---|---|---|---|
| Magic-link sign-in (`app/services/auth.py`, repositories, `models/`) | tables `users` and `magic_links`; an open transaction per handler | `request_magic_link`, `verify_magic_link`, the background e-mail | PostgreSQL, Resend |
| Session resolution (`app/api/deps.py`) | none: a signed token, `users`, `AUTH_ENABLED` | `get_current_user` | every protected route |
| Chat turn (`app/ai/chat_service.py`, `llm/client.py`, `routes/chat.py`) | the conversation of one request, its place in the tool loop, the event stream | `ask_stream`, `chat_stream`, `_event_stream` | model provider, tools, browser |
| Chat tools (`app/ai/tools.py`) | the request's database transaction, its savepoint, role and read-only mode | `execute`, `run_sql_query`, `get_ad_performance`, `get_ad_details` | PostgreSQL |
| SQL guard (`app/ai/sql_guard.py`) | none | `validate_select_only` | tools |
| Startup and seeding (`app/main.py`, `app/db/session.py`, `alembic/env.py`, `scripts/seed_from_source.py`) | schema, `ads`, `ad_comments`, `ad_metrics`, image files | lifespan, `alembic upgrade head`, `seed`, `seed --force` | PostgreSQL, a static directory |
| Metrics and ad detail (`app/services/metrics.py`, `ad.py`) | none: reads | ranking, summaries, coverage, detail | dashboard, tools |
| Chat box and proxy (`web/app/_components/ChatBox.tsx`, `web/app/api/chat/route.ts`) | turns, status, error, one abort handle | submit, stop, clear, stream events | chat route |
| Web session (`web/app/auth/`) | an http-only cookie in each browser | verify, sign out | sign-in routes |
| Dashboard (`web/app/page.tsx`) | none | two rounds of requests per page | metrics and ads routes |

Components share one database; there is no queue and no cache. The API and the
site talk over HTTP, the chat answer over server-sent events. Handlers of one
process interleave at every `await`, those of several processes at every
statement: the container runs with `restart: unless-stopped` and a deployment
starts the new server next to the old one.

What is hard here, and hardly reached by the tests (which run one handler at a
time on a database of their own):

* *Check, then act, in separate statements*: `get_by_email` then `create`;
  `is_used` then `mark_used`; `COUNT(ads)` then seed; revision then migrate.
  Only unique indexes and row locks decide the races.
* *One transaction, many tool calls*: a query rejected by PostgreSQL, the
  `SET LOCAL` guards and a savepoint that is always rolled back, on a session
  that later calls of the same turn use again.
* *Endings*: provider failure in the middle of an answer, the cap on rounds, a
  client that leaves, exceptions inside and outside the loop.
* *Crashes and lost answers*: between redemption and token, between the
  `TRUNCATE` of a forced reseed and its rows, between image files and rows.
* *Late results*: a stopped or cleared chat in the browser; a token that
  outlives its user; readers that see two datasets; a verify answer that arrives
  after a sign-out.
* *Pieces out of step*: fragments of several tool calls mixed in one stream, and
  a stream that stops in the middle of a call's arguments; a link that a mail
  scanner opens before its reader.

What makes each component correct: sign-in never gives two accounts to one
address nor a session to the wrong reader, and every session is paid for by a
redemption in time; a chat turn ends exactly once, keeps the conversation
acceptable to the provider and its guards where they belong; a tool call runs
whole or not at all, and on the ads tables only; startup loads one whole dataset,
whoever races, and servers come up; a browser is signed in for as long as its
token is good.

## 2. Modules

| Module | What it is |
|---|---|
| `MagicLinkAuth` | sign-in handlers, tables, sessions, failures |
| `SignIn` | what signing in promises, without tables and handlers |
| `MagicLinkRefinement` | the mapping of the first to the second |
| `MagicLinkAuth_proofs` | theorems about `MagicLinkAuth`, and the proof that the mapping is a refinement |
| `WebSession`, `WebSession_proofs` | browsers, the verify and sign-out routes and the cookie, on top of `SignIn`; theorems |
| `ChatTurn`, `ChatTurn_proofs` | one chat turn; theorems about it |
| `SqlGuard` | what the guard lets through, and which tables PostgreSQL reads |
| `ToolRound`, `ToolRound_proofs` | one round of a chat turn: fragments, tool calls, arguments, queries; uses `SqlGuard`; theorems |
| `Startup`, `Startup_proofs` | servers, migrations and seeds on one database; theorems |
| `ChatBox`, `ChatBox_proofs` | the chat box in the browser; theorems |
| `Reports`, `Reports_proofs` | what the statistics endpoints compute from the rows they read; lemmas about sums and sorting |
| `Dashboard`, `Dashboard_proofs` | the page's requests and a forced reseed, on one database; uses `Reports`; theorems |
| `MC_*` and `*.cfg` | the instances TLC checks |

A few definitions are kept next to the one they differ from and used by no
action (`InsertWaitsNever`, `StampedLate`, `CopiedOnce`, ...): each is that
definition with a plausible bug, and the comment before it says which.
Substituted for the real one, TLC finds the property they are listed with in
`PROJECT.json` violated.

### MagicLinkAuth

A step is one statement with the Python code up to the next `await`. Committed
rows are `users` and `links`; what a handler has written but not committed is in
its own record (`req[r].new`, `ver[v].locks`, `ver[v].stamp`) and disappears when
it ends any other way, as `get_db` closes the session.

| Action | Code |
|---|---|
| `RequestLink`, `LookupUser`, `CreateUser`, `CreateLink`, `CommitRequest`, `Respond`, `SendMagicLink` | `AuthService.request_magic_link` and its background task |
| `OpenLink`, `ReadLink`, `MarkUsed`, `LoadUser`, `MarkVerified`, `CommitVerify`, `IssueToken` | `AuthService.verify_magic_link`, `create_access_token` |
| `CurrentUser` (an operator: it changes nothing) | `get_current_user` behind `GET /users/me` |
| `FailRequest`, `FailVerify`, `CrashRequest`, `CrashVerify`, `ResetDatabase`, `Tick` | failed statements, dead processes, `docker compose down -v`, time |

The database is READ COMMITTED: a read sees committed rows (and the handler's
own); an `INSERT` waits for an uncommitted row with the same unique key, an
`UPDATE` for the row's lock, then acts on whatever was committed. Users and
links are named by the request that inserted them, since ids and tokens are
fresh. Time is in minutes; `IsExpired` compares as the code does, so a link is
good at the very moment of its expiry. `enabled` in `CurrentUser` ranges over
both settings of the kill switch at every moment, since servers deployed with
either may answer.

### SignIn and WebSession

`SignIn` has the API without handlers: a ledger of links (none, live, used, gone)
and visits (outside, admitted, redeemed, signed in, away). `MagicLinkRefinement`
maps tables and handlers to it, and `WebSession` is composed with it: a GET of
the site's verify route is the visit that its POST makes.

| Action | Code |
|---|---|
| `Open`, `Admit`, `Redeem`, `Grant`, `Refuse`, `FailApi` | `GET` of `auth/verify/route.ts`, up to the API's answer |
| `Answer`, `TellError` | its redirects: home with the cookie, or to the error page |
| `Welcome`, `Tick` | the browser keeps the cookie for its `maxAge`, and drops it |
| `SignOut`, `SignedOut` | `auth/sign-out/route.ts` |
| `Lose` | an answer that never comes |

`get[v]` is one GET with what its answer carries, `cookie[c]` what a client
stores: the token's expiry, the moment at which the browser drops it and how late
the answer was. `ExpirySeconds` is the route's reading of the token. A client is
whoever opens links, a scanner too. A verify answer that arrives after a
sign-out signs the reader in again: the routes do nothing against it and no
property denies it. Resets of the database (`Wipe` and `Withdraw` of `SignIn`)
are not among the steps taken here.

### ChatTurn

One request from its first query to the closing of its session. `messages` is
the conversation with all content dropped but who speaks and which calls are
made or answered; `db` is the session's transaction, with what is set inside its
savepoint; `events` the server-sent events. A statement is answered, rejected
by PostgreSQL (the transaction is aborted) or lost with its connection
(`Raised`). A provider call yields text deltas, then an answer, a failure or any
sequence of up to `MaxCalls` tool calls of three kinds: `run_sql_query`, tools
that read without a savepoint, and calls `execute` refuses. `found` is a history:
how the call of `run_sql_query` that is running found the transaction, so that
`SqlNeverAborts` can compare what it leaves. A `SAVEPOINT` is taken to fail in a
usable transaction only with its connection: it asks for no object, right or
lock that PostgreSQL could refuse. `Disconnect` cancels
the handler at any await.

### ToolRound and SqlGuard

One answer of the provider, which `ChatTurn` takes as a sequence of calls: here
it comes in fragments. `made[i]` is the call the model makes at index `i`,
`entries` the `tool_calls_by_index` of the client, `calls` the calls made of it,
`results` the tool messages.

| Action | Code |
|---|---|
| `SendBegin`, `SendPiece` | a chunk of the stream, merged into its entry by `chat_stream` |
| `StreamEnds`, `StreamBreaks` | the loop's end and `json.loads` of every call's arguments; the provider's error |
| `RefuseCall`, `GetAdPerformance`, `GetAdDetails` | `execute`, with what validates: `{}` for the tool whose fields all have defaults |
| `RunSqlQuery` | `run_sql_query`: guard, role, row cap, `truncated` |

Arguments are sequences of pieces: all pieces of a call parse, some of them do
not, none are the empty string, which the client takes for `{}`. The provider may
stop after any fragment, as at its limit of tokens. `SqlGuard` has
`validate_select_only` and `apply_row_cap` on what they look at in a syntax tree
(`Accepts`, `RowCap`) next to a reference: the tables PostgreSQL reads for the
statement (`TablesRead`), those of them that are no ads tables (`Strays`) and the
rows it asks for (`Asked`). The guard skips a name that is some alias of the
query, PostgreSQL takes it for one only in its scope. `GuardExact` says of every
query that `run_sql_query` was given, kept in `ran` with its outcome, how far the
two differ: what the guard lets through strays at most to tables that bear an
alias's name, and there the role's grant is what is left; what it turns down for
a table does stray. It holds of the guard alone, whatever PostgreSQL does with
the query. `SELECT *` is refused, `SELECT ads.*` is not: the code looks for a bare
star. A `LIMIT` that is not a number, or a `FETCH FIRST` even of a number, is
replaced by the cap, which may raise it, so `RowsHonest` excepts both; `truncated`
may be said of exactly `MAX_ROWS` rows that are all there are. That the role is
denied what it was not granted is PostgreSQL's: a guard of `RunSqlQuery` and no
property. Its catalogs, which every role may read, nested `WITH` and `WITH
RECURSIVE` are left out, as is `scrub_uuids`.

### Startup

Each process is started, runs its statements one by one, and ends in `serving`,
`exited`, or `down` (a server, to be restarted). `created` is the committed
schema, `ads`, `comments`, `metrics` the committed datasets, one per process
run, so that mixing and doubling show. Statements wait where PostgreSQL makes
them: a unique key or a table being created in another open transaction, and
`TRUNCATE` against open inserts. `DirOf` gives each process its static
directory: the script run on the host has another one than the API in its
container.

### ChatBox

One browser tab. `turns`, `status`, `error` and `abortRef` are the component's
state and ref; `pc[r]` is what a run of `handleSubmit` awaits, `wire[r]` what the
server has sent it and `got[r]` how much of that was read. The text of an answer
is a sequence of tokens that name their request, so a token in the wrong turn,
twice or out of order shows.

| Action | Code |
|---|---|
| `Submit`, `Response`, `Fail`, `Settle` | `handleSubmit`, with the proxy route in between |
| `ReadChunk`, `ReadError`, `StreamEnds`, `StreamBreaks` | `consumeStream` and the `catch` it may end in |
| `HandleStop`, `HandleReset` | Stop and Clear, with the `catch` and `finally` that the abort sets off |
| `SendToken`, `SendEnd` | `_event_stream`, of which `ChatTurn` is the detail |

A step is one browser task and the promise callbacks it settles: `abort()`
rejects the pending `fetch` or `read` at once, so the aborted `handleSubmit` is
over before the next click, and React has rendered before it. That makes the
`signal.aborted` test in `consumeStream` unreachable. Framing is abstracted:
events that share a chunk are one `ReadChunk`, and an event split over two
chunks arrives with the second. Typed text is a request's name; each name is
used once, so the number of questions is bounded.

### Dashboard and Reports

A request for a statistic is a session with one transaction and two to four
statements; `seen[r]` is what each found committed, `locks[r]` the tables whose
shared locks it holds until its session closes. The forced reseed of `Startup`
is here its locks and its two commits.

| Action | Code |
|---|---|
| `Home`, `AskDetails`, `Show`, `FailPage` | `web/app/page.tsx`: two `Promise.all`, and `getJSON`'s throw |
| `Authenticate`, `Execute`, `Close` | `get_current_user`, a statement of an endpoint (`ListReads`, `CoverageReads`, ...), the end of `get_db` |
| `GiveUp`, `BreakDeadlock` | `command_timeout`, PostgreSQL's deadlock detection |
| `ResetTables`, `LockTable`, `CommitTruncate`, `CommitSeed`, `WriterFails` | `reset_tables` and `seed` |

`TRUNCATE` takes its locks in the order it names the tables; a reader that does
not hold a table yet waits behind it. `Reports` has what becomes of the rows:
coverage, weekly sums, the ranking by CTR and an ad's detail, with rates as
fractions. A sum is a fold of a function over its finite domain and `ORDER BY` is
`Sorted`, a list of all the elements in an order that the operator gives. An ad's number is also its place among the titles. Left out: rounding,
engagements (summed as clicks are), the ranking's other metrics and filters,
which the page does not use, the timeout of the connection pool, and 401s.

## 3. Runs

| Run | Instance | What it shows |
|---|---|---|
| `auth_safety` | 2 requests, 2 redemptions, 2 addresses, clock to 3, 1 reset, any failures | account, session and redemption safety; nobody waits in a circle; `MagicLinkAuth` implements `SignIn` |
| `auth_liveness` | the same without resets, `FairSpec` | every handler that starts ends |
| `auth_single_use` | nothing fails | *violated*: two overlapping redemptions both succeed |
| `auth_same_answer` | nothing fails | *violated*: a raced first request is answered 500 |
| `chat_turn` | 2 rounds, 2 calls, 1 delta, `FairSpec` | conversation, guards, event stream, termination |
| `chat_provider_error` | the same | *violated*: provider failure ends in `done` |
| `startup` | 2 servers, migration, seed, forced seed, 1 fault, `FairSpec` | one whole dataset, images first, no server without data; servers come up and stay up |
| `chat_box` | 3 questions, answers of 2 tokens, a history of 2 turns, `FairSpec` | answers, errors and Stop belong to the right question; the box settles |
| `chat_history_accepted` | the same | *violated*: a long answer makes the API refuse the next question |
| `tool_round` | 2 calls of up to 2 pieces, queries with up to 2 common table expressions, a cap of 2 rows | calls are put together and run whole; the guard errs on names of aliases alone and rows are told honestly |
| `web_session` | a reader and a scanner, 2 GETs, 1 link, clock to 4, 2 sign-outs, `FairSpec` | a cookie lasts as its token, a refusal takes no session away, an only visit signs in |
| `dashboard` | 2 datasets of 2 ads, 2 connections, 1 forced reseed, `FairSpec` | no answer mixes datasets, the page agrees with itself, the reseed gets through |

*Bounds.* Every race in the handlers is between two of a kind (a unique key, a
row lock, a read followed by a write); a third handler meets the same waits. Two
addresses are one that the migrations seeded and one that is new. The clock must
pass a link's expiry while a redemption is open (`ExpireMinutes = 1`,
`MaxTime = 3`) and a token's after it was issued. Two rounds and two calls let a
failed call be followed by another in the same round and the next, and reach
the cap; one delta tells an answer that had begun from one that had not. One
fault kills any process at any statement, with every other one still to come
and the killed server restarted; the theorems of `Startup` allow any number. Two
calls of two pieces have every mixture of two calls' fragments and a cut before,
in and behind the arguments; results of 0 to 3 rows are below, at and above a cap
of 2, and the queries have each name once in scope and once out of it. Two GETs
are a reload, a prefetch or a scanner, before or after the reader; a token of 2
with a clock to 4 expires before and after its answer is read. Three questions put a history of two
turns past its limit and leave one behind a stopped or cleared one; answers of
two tokens, against one that the API takes back, are read in one chunk or two and
can be too long. The two datasets have an ad without
metrics, a week only one platform has, a platform without impressions and ads in
one dataset alone; one reseed is before, between or after any two statements; two
connections let `TRUNCATE` wait for two readers at once, and every two requests
overlap. What the bounds leave open for
safety, the theorems close.

*Deadlock.* All systems here stop: handlers answer, a turn is closed, servers
serve. `CHECK_DEADLOCK FALSE` for that reason; that nobody stops too early is
what the liveness properties say.

*Fairness.* `MagicLinkAuth`: each handler's next statement, weakly; the event
loop resumes a handler whose statement is answered, and a statement that waits
for a lock is not enabled meanwhile. New requests, e-mail clicks, time and
failures get none. `ChatTurn`: `Step`, weakly; statements return or hit their
timeouts and the client library ends a stream that stalls. Which of the
provider's choices is taken is not fair: `TurnEnds` holds for a model that asks
for tools for ever. `Startup`: each process, weakly, as Docker restarts servers;
faults get none and are bounded. `ChatBox`: `Answer(r)`, weakly: the API ends
the stream of every question it accepts (`TurnEnds` of `ChatTurn`) and the
browser delivers it; clicks get none, so the box settles without Stop.
`WebSession`: the handling of each GET, weakly: the API answers
(`HandlersFinish`), the route does nothing else, and an answer that is not lost
arrives; losses, failures, clicks and time get none. `ToolRound` states none: that
rounds end is `TurnEnds`. `Dashboard`: each request, the page and the reseed,
weakly; PostgreSQL looks for deadlocks and the engine's timeout ends other waits.
Failures of the script get none: `ReseedEnds` does not count on them.

### Disagreements with the documentation

* `README.md:29` promises that a second attempt with a token is rejected.
  `verify_magic_link` checks `is_used` on a row read without a lock and the
  `UPDATE` has no condition: two overlapping attempts both get a token
  (`SingleUse`). What does hold: an attempt that looks the link up after
  another was answered is refused (`SecondAttemptRefused`, proved).
* `README.md:31` promises the same generic answer always. Of two concurrent first
  requests for one address, one fails on `ix_users_email` and is answered 500
  (`SameAnswer`). The accounts stay unique (`OneUserPerEmail`, proved).
* `app/api/routes/chat.py:44` promises `error` if the provider fails partway.
  `ask_stream` catches the failure, sends an apology as text and the stream ends
  with `done` (`ProviderFailureIsError`).
* `tests/unit/test_chat_route.py:95` says that sending an answer back as history
  must not be refused. The box joins the text of up to five rounds, each of up
  to about 4000 characters by the comment in `app/schemas/chat.py:8`, and the API
  takes 4000 for a turn: after a longer answer questions get 422 until it is out
  of the last ten turns (`HistoryAccepted`). Nothing else about the history is
  refused (`RefusedForLength`, proved).

## 4. Proofs

| Theorems | Of |
|---|---|
| `Invariant`, `UniqueUsers`, `AssertionHolds`, `SessionsBelong`, `TokensBacked`, `RedeemedInTime`, `NoCallerMissing`, `LaterAttemptsRefused`, `WaitsEnd` | `MagicLinkAuth`: any sets of requests, redemptions and addresses, any lifetimes, any number of resets |
| `SignInKept` | the same: `MagicLinkAuth` implements `SignIn` |
| `Invariant`, `SessionLasts`, `SessionKept`, `SessionsEarned`, `RefusalsExcused`, `UsesSignIn` | `WebSession`: any clients, GETs, links, lifetimes, sign-outs |
| `Invariant`, `ModesConfined`, `QueriesGuarded`, `EndsOnce`, `QueriesHarmless`, `EveryCallAnswered`, `TurnCountsDown`, `StreamStaysBounded` | `ChatTurn`: any cap, calls and deltas |
| `Invariant`, `CallsPutTogether`, `ArgumentsComplete`, `GuardAlone`, `GuardDecides`, `RowsToldHonestly` | `ToolRound` and `SqlGuard`: any calls and pieces, any tables, queries, limits and sizes |
| `Invariant`, `SeededOnce`, `ServersHaveData`, `ImagesBeforeRows`, `WipedByForceAlone`, `ServersStopRestarting` | `Startup`: any processes, directories, faults |
| `Invariant`, `AnswersStayTheirs`, `AnswersWhole`, `StopReaches`, `ErrorsAreCurrent`, `OnlyLengthRefused`, `AnswersCountDown` | `ChatBox`: any number of questions, any lengths |
| `Invariant`, `AnswersFromOneDataset`, `CardsFound`, `HeatmapWhole`, `RankingIsBest`, `PageIsConsistent`, `PoolStaysKept`, `NobodyWaitsForGood` | `Dashboard` and `Reports`: any datasets with any finite numbers of rows, any platforms, connections, number of reseeds |

Each module's `Invariant` contains its `TypeOK`.

*Assumptions.* `NamesAssumption` (the seeded user's id and the unknown token are
nobody's; its address is an address), `TimesAssumption` and `BoundsAssumption`
(durations and bounds are numbers; a cap of at least one), `AbsentAssumption`
(NULL is no row), `RolesAssumption` (a process has one role, and forced reseeds are finitely many), `LengthsAssumption` (the box sends no
more turns than the API takes, and one round fits a turn), `NoneAssumption` (no
request is called none), `SessionAssumption` (no link is called none, no cookie is
no cookie; lifetimes are numbers, a token's not 0), `GuardAssumption` (a cap of
at least one row), `RoundAssumption` and
`QueriesAssumption` (numbers are numbers), `DatasetsAssumption` (there are ads,
and metrics are of them, by the foreign key), `RowsAssumption` (a dataset has
finitely many rows, and no count is negative, by the table's `CHECK`),
`ReportsAssumption` (`ad_platform_enum` is finite; the length of the ranking is a
number) and `BoundAssumption`. TLC evaluates each
in the runs of its module.

*Argument.* None of the properties is inductive. Each module has an `IInv` that
says what an unfinished process may rely on; TLC checked each on the instances
above before it was proved, and the runs keep to the properties:

* `MagicLinkAuth`: a handler with an uncommitted user is the only one with that
  address, committed or not, which is what the unique index's wait and check
  give, so a commit keeps addresses unique; a handler that holds a link's user
  finds both rows still there, since rows go only by a reset and a reset ends
  open handlers; an admitted redemption's time of check is within the link's
  expiry, and it is that time, not the time of the commit, that is written; a
  redeemed link can only be overwritten with another time. Sessions outlive
  resets, so `SessionOK` speaks of rows that may be gone but, once gone, cannot
  come back: `Past` says that the request that wrote them is over.
* `ChatTurn`: `SessionOK` says exactly which guards the savepoint holds at each
  statement; whatever fails, `RollBack` is the only way out and empties them or
  finds the connection lost. `StreamOK` ties the final event to the handler's
  place. `FoundOK` says that nothing touches the transaction between the start of
  `run_sql_query` and its savepoint: with it, and since the rollback is the only
  other way back to the tools, a call hands on what it found or a lost connection
  (`QueriesHarmless`). `ConversationOK` says of the conversation between two rounds that the
  last assistant message has the results of the calls executed so far, and that
  `calls` are its others in order, whatever became of the former.
* Who waits for whom (`WaitsEnd`): `LocksOK` says which row locks a redemption
  may hold at each statement. The link's is taken before the user's and the
  user's is the last, so a holder of the user's lock waits for nothing, and a
  wait is at most two handlers long.
* How long a turn is (`TurnCountsDown`): `StepsLeft` counts rounds, deltas, calls
  and the statements of a call down; every step of the code makes it smaller,
  and `Spec` keeps it a natural number. So no answer of the provider, no failed
  statement and no cap makes a turn go on for ever; that each step is taken is
  the fairness of `TurnEnds`. Each step writes at most one event, so the same
  count bounds the stream.
* `MagicLinkRefinement`: the commit of a request is `Issue`, of a redemption
  `Redeem`, the two checks `Admit`, a reset `Wipe`, and every other end of a
  handler `Withdraw` or `TurnAway`; the rest stutters. `IInv` says that what was
  admitted is still there, `ExpiresOK` that an expiry computed before the
  commit is not too late at it.
* `WebSession`: `AnswerOK` follows a token's time left from the route to the
  redirect, `CookieOK` from there to the cookie. `SessionsEarned` needs `EarnedOK`
  as well: how far a GET and its visit at the API may be apart, so that the
  redirect that brings a cookie belongs to the visit that used up its link.
  `RefusalsExcused` needs `ExcusedOK`: a link is used only by a visit whose GET
  opened it, so whoever finds it used was not the only one.
* `ToolRound`: `EntriesOK` says that the entries are the calls as far as they
  were sent, in the order their indexes first came; `MadeOK` that no index comes
  twice; `CallsOK` that what is executed is one of them, complete or without any
  arguments, which is what `json.loads` of every entry decides. `GuardAlone` is
  about any query: what PostgreSQL reads is named in a body, and a name in a body
  that is no alias is read (`ReadsAreNamed`), so the check by names misses only
  names of aliases.
* `Startup`: `InsertsExclusive` says that at most one process has uncommitted
  rows, and only while the table is empty, which is what `UNIQUE (ad_id)` and
  the lock of `TRUNCATE` give; `ImagesFirst` and `ForceOnly` follow a process
  from its files to its rows.
* How often a server starts (`ServersStopRestarting`): a start fails by a fault
  or by finding the migrations, the extension or the rows committed since it
  looked. Nothing takes the first two back, so each is lost once; only a forced
  reseed, which runs once, takes the rows back. `Starts` counts the starts of a
  server and what it can still lose: no step of its own raises it, a fault or a
  `TRUNCATE` by one. TLC finds the bound reached.
* `ChatBox`: `LiveOK` says that the request that is out finds its question, or
  the answer it began, as the last turn, which is what extending "the last turn"
  relies on; it holds because a question is taken only when nothing is out.
  `AskedOnce` ties a question to its place. `Left` counts an answer down
  (`AnswersCountDown`): since only one question is out, every step that does not
  end it is a step of its answer. `ReadChunkFacts` says once what a
  chunk does to the turns, for all conjuncts of its step.
* `Dashboard`: `LocksOK` and `WriterOK` say that `TRUNCATE` holds a table only
  while no reader does, so the rows a request has read stay committed until its
  session closes; `Undisturbed` that without a reseed all read one dataset, and
  `RoundsOK` which requests are out in each round of the page, and `PeriodOK`
  that the ranking is asked for only where there are rows to rank. What waits,
  waits for a reseed (`NobodyWaitsForGood`): readers never wait for each other,
  and a reader that `TRUNCATE` waits for goes on, closes, or is in a deadlock of
  those two, which PostgreSQL breaks.
* `Reports`: that the page's numbers agree (`PageIsConsistent`) is a fact about
  sums over the same rows grouped in different ways, by week and platform in the
  charts and by ad on the cards. `Reports_proofs` has the lemmas: a sum is
  that of a part and of the rest, of the groups of a partition, and does not
  depend on the order of the fold. Induction is over the set of the numbers, or
  of the subsets of a finite set, that a lemma holds for (`Induction`,
  `FiniteInduction`), from the library's well-foundedness of `<`. `Sorted` is a list that exists for every finite set and strict
  total order, which the ranking's is: by rate, then by ad.

Each proof has a lemma per action, and in it a step per conjunct the action can
disturb.

*Model-checked only.* Liveness: `HandlersFinish`, `TurnEnds`, `ServersComeUp`,
`BoxSettles`, `ReseedEnds`, `OnlyVisitSignsIn`. Fairness speaks of `ENABLED`, which
is beyond the prover. What can be proved of each is proved: nobody waits in a
circle or for somebody stuck (`WaitsEnd`, `NobodyWaitsForGood`), turns and answers
have a bounded number of steps (`TurnCountsDown`, `AnswersCountDown`), servers a
bounded number of starts (`ServersStopRestarting`), and who is turned away has an
excuse (`RefusalsExcused`). What is left to fairness is that the steps are taken.

*In no run's list.* `CountsDown`, `StreamBounded`, `AnswerCountsDown`,
`RestartsBounded`, `PoolKept`, `WaitsResolve`, `SessionEarned` and
`TurnedAwayExcused`: TLC checked each on the instance of its module before it was
proved.

## 5. Not modelled

* Logging, request ids, CORS and health checks, and the proxy of static images:
  stateless.
* Prompt wording; the drawing of charts, pages and of the header that shows who
  is signed in; the sign-in form, which sends one request at a time.
* Parsing of the CSV files, and `extract_creative_text.py`, a script run once on
  a developer's machine, one image after the other.
* Hashing and token bytes, taken as unforgeable names; `scrub_uuids`; what
  sqlglot makes of a text, which is a choice of `form`.
* Column definitions, and upgrades of the schema from an older revision.
* A chat turn among the readers of `Dashboard`. Its first two queries hold locks
  on the metrics and ads tables until its session closes, which is after the last
  token, and a forced reseed waits for it meanwhile. With the page's requests
  this is more states than TLC goes through in minutes; that the turn ends and
  gives its session back is `TurnEnds`.

## 6. Plan

What is left, in this order:

1. A chat turn as the one reader of a smaller `Dashboard`.
2. `WebSession` with database resets, which take a signed-in reader's account
   away under the cookie.
