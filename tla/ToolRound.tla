------------------------------ MODULE ToolRound ------------------------------
(***************************************************************************)
(* One answer of the provider that asks for tools: the fragments of its    *)
(* calls as they stream in, the calls chat_stream makes of them, and what  *)
(* execute does with each.  ChatTurn is the loop around such rounds; here  *)
(* the calls have arguments and the queries tables, limits and rows.       *)
(*                                                                         *)
(* A step is one fragment, the end of the stream, or one call executed.    *)
(* The text of a call's arguments is a sequence of pieces, each named by   *)
(* its call and place.  The provider may stop at any fragment: max_tokens. *)
(***************************************************************************)
EXTENDS SqlGuard

CONSTANTS
    MaxCalls,   \* bound: calls in the answer
    MaxPieces,  \* bound: pieces of a call's arguments
    Queries,    \* the queries the model may write, see SqlGuard
    Sizes       \* rows that a query without its limit may have

ASSUME RoundAssumption == MaxCalls \in Nat /\ MaxPieces \in Nat
ASSUME QueriesAssumption ==
    /\ Sizes \subseteq Nat
    /\ \A q \in Queries : q.limit.kind \in {"none", "number", "expression", "fetch"} /\ q.limit.n \in Nat

Indexes == 1 .. MaxCalls
Tools == {"get_ad_performance", "run_sql_query", "get_ad_details"}  \* REGISTRY
Names == Tools \cup {"unknown"}
NoName == ""
Pieces == [call : Indexes, place : 1 .. MaxPieces]

VARIABLES
    pc,       \* "stream", "tools", "answered", or what ended the stream early
    made,     \* the provider's calls: name, pieces of the arguments, pieces sent
    came,     \* the indexes, in the order their first fragments came
    entries,  \* tool_calls_by_index
    calls,    \* the calls of the LLMResponse that are not yet executed
    results,  \* the tool messages: which call, with data or an error
    ran       \* the last query: its outcome, what was asked and what was answered
vars == <<pc, made, came, entries, calls, results, ran>>

PCs == {"stream", "tools", "answered", "garbled", "broken"}
Entry == [index : Indexes, id : Indexes \cup {0}, name : Names \cup {NoName}, arguments : Seq(Pieces)]
ToolCall == [id : Indexes \cup {0}, name : Names \cup {NoName}, arguments : Seq(Pieces)]
Message == [id : Indexes \cup {0}, answer : {"data", "error"}]

Made == [name : Names \cup {NoName}, pieces : 0 .. MaxPieces, sent : 0 .. MaxPieces]
NotMade == [name |-> NoName, pieces |-> 0, sent |-> 0]
NotRun == [outcome |-> "none"]

\* The first k pieces of call i; all of them are a JSON object, fewer are
\* not, and none at all are the empty string.
Sent(i, k) == [place \in 1 .. k |-> [call |-> i, place |-> place]]
Whole(i) == Sent(i, made[i].pieces)

----------------------------------------------------------------------------
(* chat_stream. *)

\* A fragment with an id and a name, or with arguments; what it lacks is
\* empty.
Begin(i, name) == [id |-> i, name |-> name, arguments |-> <<>>]
Piece(i, k) == [id |-> 0, name |-> NoName, arguments |-> <<[call |-> i, place |-> k]>>]

\* setdefault: an index is given an entry when it first comes.
Present(i) == \E n \in DOMAIN entries : entries[n].index = i
WithEntry(i) ==
    IF Present(i) THEN entries
    ELSE Append(entries, [index |-> i, id |-> 0, name |-> NoName, arguments |-> <<>>])
Merged(entry, f) ==
    [index |-> entry.index,
     id |-> IF f.id # 0 THEN f.id ELSE entry.id,
     name |-> IF f.name # NoName THEN f.name ELSE entry.name,
     arguments |-> entry.arguments \o f.arguments]
\* Every fragment taken for the entry that came last.
AccumulatedLast(i, f) ==
    [n \in DOMAIN WithEntry(i) |->
        IF n = Len(WithEntry(i)) THEN Merged(WithEntry(i)[n], f) ELSE WithEntry(i)[n]]
Accumulated(i, f) ==
    [n \in DOMAIN WithEntry(i) |->
        IF WithEntry(i)[n].index = i THEN Merged(WithEntry(i)[n], f) ELSE WithEntry(i)[n]]

SendBegin(i, name, pieces) ==
    /\ pc = "stream"
    /\ made[i] = NotMade
    /\ made' = [made EXCEPT ![i] = [name |-> name, pieces |-> pieces, sent |-> 0]]
    /\ came' = Append(came, i)
    /\ entries' = Accumulated(i, Begin(i, name))
    /\ UNCHANGED <<pc, calls, results, ran>>

SendPiece(i) ==
    /\ pc = "stream"
    /\ made[i].sent < made[i].pieces
    /\ made' = [made EXCEPT ![i] = [@ EXCEPT !.sent = made[i].sent + 1]]
    /\ entries' = Accumulated(i, Piece(i, made[i].sent + 1))
    /\ UNCHANGED <<pc, came, calls, results, ran>>

\* Text that is not JSON taken for no arguments.
ParsesOrIsDropped(text) == [ok |-> TRUE,
    arguments |-> IF \E i \in Indexes : text = Whole(i) THEN text ELSE <<>>]
\* json.loads, of an object of the provider's, or {} for the empty string.
Parsed(text) == [ok |-> text = <<>> \/ \E i \in Indexes : text = Whole(i), arguments |-> text]

\* The stream is over, complete or not: nothing here tells which.
StreamEnds ==
    /\ pc = "stream"
    /\ IF \A n \in DOMAIN entries : Parsed(entries[n].arguments).ok
       THEN /\ calls' = [n \in DOMAIN entries |->
                  [id |-> entries[n].id, name |-> entries[n].name,
                   arguments |-> Parsed(entries[n].arguments).arguments]]
            /\ pc' = IF entries = <<>> THEN "answered" ELSE "tools"
       ELSE pc' = "garbled" /\ UNCHANGED calls
    /\ UNCHANGED <<made, came, entries, results, ran>>

\* The provider's error, or its timeout.
StreamBreaks ==
    /\ pc = "stream"
    /\ pc' = "broken"
    /\ UNCHANGED <<made, came, entries, calls, results, ran>>

----------------------------------------------------------------------------
(* execute, for each call of the response. *)

Running(name) == pc = "tools" /\ calls # <<>> /\ Head(calls).name = name
Arguments == Head(calls).arguments

Report(answer) ==
    /\ results' = Append(results, [id |-> Head(calls).id, answer |-> answer])
    /\ calls' = Tail(calls)
    /\ pc' = IF Len(calls) = 1 THEN "answered" ELSE "tools"
    /\ UNCHANGED <<made, came, entries>>

\* An unknown tool, or arguments its model does not validate.  {} is valid
\* for AdPerformanceArgs, where every field has a default, and for no other.
RefuseCall ==
    /\ \/ Running("unknown") \/ Running(NoName)
       \/ \E name \in Tools : Running(name) /\ ~(name = "get_ad_performance" /\ Arguments = <<>>)
    /\ Report("error")
    /\ UNCHANGED ran

\* A report, or a statement that fails.
GetAdPerformance ==
    /\ Running("get_ad_performance")
    /\ \E answer \in {"data", "error"} : Report(answer)
    /\ UNCHANGED ran

\* An ad, no such ad, or a statement that fails.
GetAdDetails ==
    /\ Running("get_ad_details")
    /\ Arguments # <<>>
    /\ \E answer \in {"data", "error"} : Report(answer)
    /\ UNCHANGED ran

\* What ai_query_readonly may SELECT.
Granted(t) == Queryable(t)

\* Told to be whole although the cap cut it off.
TruncatedAbove(count) == count > MaxRows
Truncated(count) == count >= MaxRows

Smaller(m, n) == IF m <= n THEN m ELSE n

RunSqlQuery(q, size) ==
    /\ Running("run_sql_query")
    /\ Arguments # <<>>
    /\ \/ ~Accepts(q) /\ ran' = [outcome |-> "refused", query |-> q] /\ Report("error")
       \/ \* PostgreSQL turns it down, or it fails there
          Accepts(q) /\ ran' = [outcome |-> "failed", query |-> q] /\ Report("error")
       \/ /\ Accepts(q)
          /\ \A t \in TablesRead(q) : Granted(t)
          /\ LET count == Smaller(size, RowCap(q)) IN
             ran' = [outcome |-> "answered", query |-> q, size |-> size, count |-> count,
                     truncated |-> Truncated(count)]
          /\ Report("data")

----------------------------------------------------------------------------
Init ==
    /\ pc = "stream"
    /\ made = [i \in Indexes |-> NotMade]
    /\ came = <<>> /\ entries = <<>> /\ calls = <<>> /\ results = <<>>
    /\ ran = NotRun

Next ==
    \/ \E i \in Indexes, name \in Names, pieces \in 0 .. MaxPieces : SendBegin(i, name, pieces)
    \/ \E i \in Indexes : SendPiece(i)
    \/ StreamEnds \/ StreamBreaks
    \/ RefuseCall \/ GetAdPerformance \/ GetAdDetails
    \/ \E q \in Queries, size \in Sizes : RunSqlQuery(q, size)

Spec == Init /\ [][Next]_vars

----------------------------------------------------------------------------
(* Properties. *)

\* Fragments, calls and messages keep their shape.
TypeOK ==
    /\ pc \in PCs
    /\ made \in [Indexes -> Made]
    /\ came \in Seq(Indexes)
    /\ entries \in Seq(Entry)
    /\ calls \in Seq(ToolCall)
    /\ results \in Seq(Message)

Complete == \A i \in Indexes : made[i].sent = made[i].pieces

\* However the fragments of several calls are mixed, a stream that was sent to
\* its end gives the calls the model made: each with its own id, name and
\* arguments, in the order in which they first came, and each executed once
\* in that order.
CallsWhole ==
    /\ pc = "garbled" => ~Complete
    /\ pc \in {"tools", "answered"} /\ Complete =>
        /\ Len(came) = Len(results) + Len(calls)
        /\ \A n \in DOMAIN results : results[n].id = came[n]
        /\ \A n \in DOMAIN calls :
              LET i == came[Len(results) + n] IN
              calls[n] = [id |-> i, name |-> made[i].name, arguments |-> Whole(i)]

\* A call whose arguments were cut off never runs on part of them.  Cut off
\* before the first of them it may run, on the defaults: then it is a call of
\* get_ad_performance, since no other tool takes no arguments.
NoGuessedArguments ==
    \A n \in DOMAIN results : results[n].answer = "data" =>
        LET call == made[results[n].id] IN
        call.sent = call.pieces \/ (call.sent = 0 /\ call.name = "get_ad_performance")

\* The guard, which knows names alone, against PostgreSQL, which knows their
\* scopes.  What it sends there reads the ads tables and otherwise only tables
\* that bear the name of an alias of the same query, where the role's grant is
\* the one thing left; and no query over the ads tables is refused for the
\* names in it, whatever its aliases are called.
GuardExact ==
    /\ ran.outcome \in {"failed", "answered"} =>
          \A t \in Strays(ran.query) : t.name \in Aliases(ran.query)
    /\ ran.outcome = "refused" =>
          \/ Strays(ran.query) # {} \/ ran.query.form # "select"
          \/ ~ColumnsAllowed(ran.query) \/ ~FunctionsAllowed(ran.query)

\* An answer that does not say it was truncated has every row the query asked
\* for, and none that it did not ask for unless its limit is an expression or a
\* FETCH FIRST, which the cap replaces; no answer has more rows than the cap.
RowsHonest ==
    ran.outcome = "answered" =>
        LET asked == Asked(ran.query, ran.size) IN
        /\ ran.count <= MaxRows
        /\ ~ran.truncated => ran.count >= asked
        /\ ran.query.limit.kind \in {"none", "number"} => ran.count <= asked

\* The inductive invariant: the entries are the calls as far as they were
\* sent, in the order they came; what is executed is one of them, and whole or
\* empty.
Built(i) == [index |-> i, id |-> i, name |-> made[i].name, arguments |-> Sent(i, made[i].sent)]
MadeOK ==
    /\ \A i \in Indexes : made[i].sent <= made[i].pieces
    /\ \A i \in Indexes : made[i].name = NoName => made[i] = NotMade
    /\ \A i \in Indexes : made[i].name # NoName <=> \E n \in DOMAIN came : came[n] = i
    /\ \A m, n \in DOMAIN came : came[m] = came[n] => m = n
EntriesOK ==
    /\ Len(entries) = Len(came)
    /\ \A n \in DOMAIN entries : entries[n] = Built(came[n])
CallsOK ==
    /\ pc \notin {"tools", "answered"} => calls = <<>> /\ results = <<>>
    /\ pc = "garbled" => ~Complete
    /\ pc \in {"tools", "answered"} =>
        /\ Len(came) = Len(results) + Len(calls)
        /\ \A n \in DOMAIN came : made[came[n]].sent \in {0, made[came[n]].pieces}
        /\ \A n \in DOMAIN results : results[n].id = came[n]
        /\ \A n \in DOMAIN calls :
              LET i == came[Len(results) + n] IN
              calls[n] = [id |-> i, name |-> made[i].name, arguments |-> Sent(i, made[i].sent)]
IInv == TypeOK /\ MadeOK /\ EntriesOK /\ CallsOK /\ NoGuessedArguments
=============================================================================
