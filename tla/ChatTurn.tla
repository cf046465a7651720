------------------------------ MODULE ChatTurn ------------------------------
(***************************************************************************)
(* One POST /chat: the tool-calling loop of ChatService.ask_stream, the    *)
(* provider stream it reads, the tools it runs on the request's database   *)
(* session, and the server-sent events the route makes of what it yields.  *)
(*                                                                         *)
(* One step runs from one await (a statement, a provider chunk) to the     *)
(* next.  What the provider answers, whether a statement is rejected, a    *)
(* lost connection and the client going away are choices.                  *)
(***************************************************************************)
EXTENDS Naturals, Sequences

CONSTANTS
    MaxToolIterations,  \* MAX_TOOL_ITERATIONS
    MaxCalls,           \* bound: tool calls in one provider answer
    MaxDeltas           \* bound: text deltas in one provider answer

ASSUME BoundsAssumption ==
    MaxToolIterations \in Nat \ {0} /\ MaxCalls \in Nat \ {0} /\ MaxDeltas \in Nat

\* A call of run_sql_query, of a tool that reads without a savepoint
\* (get_ad_performance, get_ad_details), or one execute() turns down itself
\* (an unknown tool, arguments that do not validate).
Kinds == {"sql", "read", "bad"}
Id == [turn : 1 .. MaxToolIterations, n : 1 .. MaxCalls]

VARIABLES
    pc,        \* where the handler is
    asked,     \* provider calls made
    deltas,    \* text deltas of the current provider call
    messages,  \* the conversation sent to the provider
    calls,     \* tool calls of the current answer not yet executed
    result,    \* what the tool call that is running will report
    db,        \* the session's transaction
    found,     \* how the call of run_sql_query that is running found it
    events,    \* server-sent events written
    gone       \* the client went away
vars == <<pc, asked, deltas, messages, calls, result, db, found, events, gone>>

PCs == {"range", "ads", "ask", "stream", "tools", "savepoint", "role", "readonly",
        "timeout", "query", "rollback", "failed", "finish", "ended", "closed"}
InSql == {"role", "readonly", "timeout", "query", "rollback"}

\* `state' is the transaction: usable, aborted by a rejected statement, lost
\* with its connection, or closed.  `inside' is what SAVEPOINT, SET LOCAL ROLE,
\* SET TRANSACTION READ ONLY and SET LOCAL statement_timeout have set in it.
Guards == {"savepoint", "role", "readonly", "timeout"}
Transaction == [state : {"ok", "aborted", "lost", "closed"}, inside : SUBSET Guards]
Fresh == [state |-> "ok", inside |-> {}]

\* Message, with no more of it than who it is from and which calls it makes or
\* answers; a ToolCall; what a tool call reports.
Contents == {"refused", "rows", "reason", "failed"}
Message == [role : {"system", "user", "assistant"}, calls : Seq(Id)]
      \cup [role : {"tool"}, calls : Seq(Id), content : Contents]
ToolCall == [id : Id, kind : Kinds]
Events == {"text", "apology", "cap", "done", "error"}

System == [role |-> "system", calls |-> <<>>]
User   == [role |-> "user", calls |-> <<>>]
AssistantMessage(ids) == [role |-> "assistant", calls |-> ids]
ToolMessage(id, content) == [role |-> "tool", calls |-> <<id>>, content |-> content]

----------------------------------------------------------------------------
(* Statements. *)

Usable == db.state = "ok"
\* What a statement that raises leaves: in a usable transaction the server
\* rejects it or the connection is lost; afterwards every statement raises.
Raised == IF Usable THEN {[db EXCEPT !.state = "aborted"], [db EXCEPT !.state = "lost"]}
          ELSE {db}

\* Releasing the savepoint keeps what was set inside it.
Released == [db EXCEPT !.inside = @ \ {"savepoint"}]
\* nested.rollback(): back to before the savepoint.
RolledBack == [db EXCEPT !.state = "ok", !.inside = {}]

With(guard) == [db EXCEPT !.inside = @ \cup {guard}]

Emit(e) == events' = Append(events, e)

----------------------------------------------------------------------------
(* Before the loop: the two queries behind the system prompt. *)

Prepare(from, to) ==
    /\ pc = from
    /\ \/ Usable /\ pc' = to /\ UNCHANGED db
       \/ pc' = "failed" /\ db' \in Raised
    /\ UNCHANGED <<asked, deltas, messages, calls, result, found, events, gone>>
GetDatasetDateRange == Prepare("range", "ads")
ListAds == Prepare("ads", "ask")

\* The error event, and then done as if nothing had happened.
EmitErrorAndGoOn ==
    /\ pc = "failed"
    /\ Emit("error")
    /\ pc' = "finish"
    /\ UNCHANGED <<asked, deltas, messages, calls, result, db, found, gone>>
\* An exception ask_stream does not catch: _event_stream reports it and stops.
EmitError ==
    /\ pc = "failed"
    /\ Emit("error")
    /\ pc' = "ended"
    /\ UNCHANGED <<asked, deltas, messages, calls, result, db, found, gone>>

----------------------------------------------------------------------------
(* The provider: OpenAIClient.chat_stream inside the loop. *)

CapReached == asked = MaxToolIterations

AskProvider ==
    /\ pc = "ask"
    /\ ~CapReached
    /\ asked' = asked + 1
    /\ deltas' = 0
    /\ pc' = "stream"
    /\ UNCHANGED <<messages, calls, result, db, found, events, gone>>

GiveUp ==
    /\ pc = "ask"
    /\ CapReached
    /\ Emit("cap")
    /\ pc' = "finish"
    /\ UNCHANGED <<asked, deltas, messages, calls, result, db, found, gone>>

TextDelta ==
    /\ pc = "stream"
    /\ deltas < MaxDeltas
    /\ deltas' = deltas + 1
    /\ Emit("text")
    /\ UNCHANGED <<pc, asked, messages, calls, result, db, found, gone>>

\* A failed provider call tried again without being counted.
ProviderFailsUncounted ==
    /\ pc = "stream"
    /\ asked' = asked - 1
    /\ pc' = "ask"
    /\ UNCHANGED <<deltas, messages, calls, result, db, found, events, gone>>
\* The request, the stream or json.loads of the arguments raises: the turn
\* ends with an apology, behind whatever text was already sent.
ProviderFails ==
    /\ pc = "stream"
    /\ Emit("apology")
    /\ pc' = "finish"
    /\ UNCHANGED <<asked, deltas, messages, calls, result, db, found, gone>>

\* The final chunk: no tool calls, the answer is complete.
Answer ==
    /\ pc = "stream"
    /\ pc' = "finish"
    /\ UNCHANGED <<asked, deltas, messages, calls, result, db, found, events, gone>>

\* ask_stream returned: _event_stream writes done.
Finish ==
    /\ pc = "finish"
    /\ Emit("done")
    /\ pc' = "ended"
    /\ UNCHANGED <<asked, deltas, messages, calls, result, db, found, gone>>

\* The final chunk with tool calls, in the order their fragments first came.
CallTools(kinds) ==
    LET ids == [n \in DOMAIN kinds |-> [turn |-> asked, n |-> n]] IN
    /\ pc = "stream"
    /\ messages' = Append(messages, AssistantMessage(ids))
    /\ calls' = [n \in DOMAIN kinds |-> [id |-> ids[n], kind |-> kinds[n]]]
    /\ pc' = "tools"
    /\ UNCHANGED <<asked, deltas, result, db, found, events, gone>>

----------------------------------------------------------------------------
(* Tools: execute() always returns a string, which becomes the tool message. *)

\* A tool that raised leaves no message.
ReportUnlessFailed(content) ==
    /\ calls' = Tail(calls)
    /\ messages' = IF content = "failed" THEN messages
                   ELSE Append(messages, ToolMessage(Head(calls).id, content))
    /\ result' = "none" /\ found' = "none"
    /\ pc' = "tools"
Report(content) ==
    /\ calls' = Tail(calls)
    /\ messages' = Append(messages, ToolMessage(Head(calls).id, content))
    /\ result' = "none" /\ found' = "none"
    /\ pc' = "tools"

Running(kind) == pc = "tools" /\ calls # <<>> /\ Head(calls).kind = kind

RefuseCall ==
    /\ Running("bad")
    /\ Report("refused")
    /\ UNCHANGED <<asked, deltas, db, events, gone>>

\* get_ad_performance and get_ad_details: an error is caught only in execute().
ReadTool ==
    /\ Running("read")
    /\ \/ Usable /\ Report("rows") /\ UNCHANGED db
       \/ Report("failed") /\ db' \in Raised
    /\ UNCHANGED <<asked, deltas, events, gone>>

\* run_sql_query: validate_select_only rejects, or the savepoint is next.
ValidateSql ==
    /\ Running("sql")
    /\ \/ Report("refused")
       \/ pc' = "savepoint" /\ found' = db.state /\ UNCHANGED <<messages, calls, result>>
    /\ UNCHANGED <<asked, deltas, db, events, gone>>

\* SAVEPOINT is sent by begin_nested, before the try, or with the first
\* statement inside it; either way a failure leaves nothing to roll back.
\* PostgreSQL rejects it in an aborted transaction alone: in a usable one it
\* needs no right and no lock, and fails only with the connection.
BeginNested ==
    /\ pc = "savepoint"
    /\ \/ /\ Usable
          /\ db' = With("savepoint")
          /\ pc' = "role"
          /\ UNCHANGED <<messages, calls, result, found>>
       \/ \E content \in {"reason", "failed"} :
             Report(content) /\ db' = IF Usable THEN [db EXCEPT !.state = "lost"] ELSE db
    /\ UNCHANGED <<asked, deltas, events, gone>>

\* A statement inside the try; what it raises is the tool's answer.
Guarded(from, to, done) ==
    /\ pc = from
    /\ \/ Usable /\ db' = done /\ pc' = to /\ UNCHANGED result
       \/ db' \in Raised /\ pc' = "rollback" /\ result' \in {"reason", "failed"}
    /\ UNCHANGED <<asked, deltas, messages, calls, found, events, gone>>

SetRole == Guarded("role", "readonly", With("role"))
\* SET TRANSACTION READ ONLY left out.
SetReadOnlySkipped == Guarded("readonly", "timeout", db)
SetReadOnly == Guarded("readonly", "timeout", With("readonly"))
SetTimeout == Guarded("timeout", "query", With("timeout"))

\* The reason for a rejection returned before the rollback.
RunQueryOutsideTry ==
    /\ pc = "query"
    /\ \/ result' = "rows" /\ pc' = "rollback" /\ UNCHANGED <<messages, calls, db, found>>
       \/ Report("reason") /\ db' \in Raised
    /\ UNCHANGED <<asked, deltas, events, gone>>
\* The model's SELECT.
RunQuery ==
    /\ pc = "query"
    /\ \/ result' = "rows" /\ UNCHANGED db
       \/ result' \in {"reason", "failed"} /\ db' \in Raised
       \* raised by SQLAlchemy before the statement is sent
       \/ result' = "failed" /\ UNCHANGED db
    /\ pc' = "rollback"
    /\ UNCHANGED <<asked, deltas, messages, calls, found, events, gone>>

\* `finally: await nested.rollback()', which raises on a lost connection.
RollBack ==
    /\ pc = "rollback"
    /\ \/ db.state # "lost" /\ Report(result) /\ db' = RolledBack
       \/ Report("failed") /\ db' = [db EXCEPT !.state = "lost"]
    /\ UNCHANGED <<asked, deltas, events, gone>>

NextRound ==
    /\ pc = "tools"
    /\ calls = <<>>
    /\ pc' = "ask"
    /\ UNCHANGED <<asked, deltas, messages, calls, result, db, found, events, gone>>

----------------------------------------------------------------------------
(* The end of the request. *)

\* The client is gone: the handler is cancelled where it waits.
Disconnect ==
    /\ pc \notin {"ended", "closed"}
    /\ pc' = "ended"
    /\ gone' = TRUE
    /\ UNCHANGED <<asked, deltas, messages, calls, result, db, found, events>>

\* get_db closes the session.
CloseSession ==
    /\ pc = "ended"
    /\ pc' = "closed"
    /\ db' = [Fresh EXCEPT !.state = "closed"]
    /\ UNCHANGED <<asked, deltas, messages, calls, result, found, events, gone>>

Init ==
    /\ pc = "range"
    /\ asked = 0 /\ deltas = 0
    /\ messages = <<System, User>>
    /\ calls = <<>> /\ result = "none"
    /\ db = Fresh /\ found = "none"
    /\ events = <<>>
    /\ gone = FALSE

KindSeqs == UNION {[1 .. n -> Kinds] : n \in 1 .. MaxCalls}

Step ==
    \/ GetDatasetDateRange \/ ListAds \/ EmitError
    \/ AskProvider \/ GiveUp \/ TextDelta \/ ProviderFails \/ Answer \/ Finish
    \/ \E kinds \in KindSeqs : CallTools(kinds)
    \/ RefuseCall \/ ReadTool \/ ValidateSql \/ BeginNested
    \/ SetRole \/ SetReadOnly \/ SetTimeout \/ RunQuery \/ RollBack \/ NextRound
    \/ CloseSession
Next == Step \/ Disconnect

Spec == Init /\ [][Next]_vars
\* The provider's stream ends or times out and statements return or time out.
FairSpec == Spec /\ WF_vars(Step)

----------------------------------------------------------------------------
(* Properties. *)

\* Handler, transaction and event stream keep their shape.
TypeOK ==
    /\ pc \in PCs
    /\ asked \in 0 .. MaxToolIterations
    /\ deltas \in 0 .. MaxDeltas
    /\ messages \in Seq(Message)
    /\ calls \in Seq(ToolCall)
    /\ result \in Contents \cup {"none"}
    /\ db \in Transaction
    /\ found \in {"none", "ok", "aborted", "lost"}
    /\ events \in Seq(Events)
    /\ gone \in BOOLEAN

\* What the provider requires of a conversation it is sent: behind every
\* assistant message with calls stand their results, one each, in call order.
CallsAnswered ==
    pc \in {"ask", "stream"} =>
        \A i \in DOMAIN messages : messages[i].role = "assistant" =>
            LET ids == messages[i].calls
                next == i + Len(ids) + 1
            IN  /\ \A n \in DOMAIN ids :
                      /\ i + n \in DOMAIN messages
                      /\ messages[i + n].role = "tool"
                      /\ messages[i + n].calls = <<ids[n]>>
                /\ next \in DOMAIN messages => messages[next].role = "assistant"

\* The role, read-only mode and timeout of run_sql_query end with the call,
\* however it ends, so that no later tool call of the turn runs under them.
ModeConfined ==
    pc \notin InSql /\ db.state \in {"ok", "aborted"} /\ pc # "ended" =>
        db.inside = {}

\* The model's SELECT is sent only under all three guards.
QueryGuarded ==
    pc = "query" => db.inside = Guards

\* A call of run_sql_query that finds the transaction usable leaves it usable
\* to the calls behind it, whichever of its statements is rejected and by
\* whichever way it returns: only with its connection does it spoil them.
SqlNeverAborts ==
    [][found = "ok" /\ pc' = "tools" => db'.state \in {"ok", "lost"}]_vars

\* The event stream has one end: done or error, never both, nothing behind
\* it, and a handler whose client stayed has written it.
Final == {"done", "error"}
OneEnding ==
    /\ \A i \in DOMAIN events : events[i] \in Final => i = Len(events)
    /\ pc = "closed" /\ ~gone => events # <<>> /\ events[Len(events)] \in Final

\* The inductive invariant behind these: what the savepoint holds at each
\* statement of run_sql_query, and where the event stream may have its end.
SessionOK ==
    /\ db.state = "closed" => pc = "closed"
    /\ pc = "role" => db.inside = {"savepoint"}
    /\ pc = "readonly" => db.inside = {"savepoint", "role"}
    /\ pc = "timeout" => db.inside = {"savepoint", "role", "readonly"}
    /\ pc = "query" => db.inside = Guards
Working == PCs \ {"range", "ads", "failed", "ask", "ended", "closed"}
LoopOK ==
    /\ pc \in Working \ {"finish"} => asked > 0
    /\ pc \in InSql \cup {"savepoint"} => calls # <<>>
    /\ pc = "rollback" => result # "none"
StreamOK ==
    /\ \A i \in DOMAIN events : events[i] \in Final =>
          i = Len(events) /\ pc \in {"ended", "closed"}
    /\ pc \in {"ended", "closed"} /\ ~gone => events # <<>> /\ events[Len(events)] \in Final
IInv == TypeOK /\ ModeConfined /\ SessionOK /\ LoopOK /\ StreamOK

\* What run_sql_query found is known while it runs, and up to its savepoint
\* nothing has changed it.
FoundOK ==
    /\ pc \notin InSql \cup {"savepoint", "ended", "closed"} => found = "none"
    /\ pc = "savepoint" => found = db.state

\* The conversation between the rounds as well: of the assistant messages, all
\* but perhaps the last have their results behind them; that one has those of
\* the calls already executed, and `calls' are the others, in order.
AnsweredUpTo(i, k) ==
    \A n \in 1 .. k :
        /\ i + n \in DOMAIN messages
        /\ messages[i + n].role = "tool"
        /\ messages[i + n].calls = <<messages[i].calls[n]>>
Complete(i) ==
    LET next == i + Len(messages[i].calls) + 1 IN
    /\ AnsweredUpTo(i, Len(messages[i].calls))
    /\ next \in DOMAIN messages => messages[next].role = "assistant"
    /\ calls # <<>> => next \in DOMAIN messages
Pending(i) ==
    LET executed == Len(messages[i].calls) - Len(calls) IN
    /\ calls # <<>>
    /\ Len(messages) = i + executed
    /\ AnsweredUpTo(i, executed)
    /\ \A n \in DOMAIN calls : calls[n].id = messages[i].calls[executed + n]
ConversationOK ==
    /\ pc \in {"range", "ads", "ask", "stream"} => calls = <<>>
    /\ \A i \in DOMAIN messages :
          messages[i].role = "assistant" => Complete(i) \/ Pending(i)

\* How many steps a turn can still take, whatever the provider asks for: a
\* round is a provider call with its deltas, seven steps for every tool call
\* and the way back; before and after the rounds there are five.
RoundSteps == MaxDeltas + 7 * MaxCalls + 3
RoundsLeft == MaxToolIterations - asked
Executed == [tools |-> 0, savepoint |-> 1, role |-> 2, readonly |-> 3, timeout |-> 4,
             query |-> 5, rollback |-> 6]
Around == [range |-> 5, ads |-> 4, ask |-> 3, failed |-> 2, finish |-> 2, ended |-> 1, closed |-> 0]
RestOfRound ==
    IF pc = "stream" THEN (MaxDeltas - deltas) + 7 * MaxCalls + 5
    ELSE IF pc \in DOMAIN Executed THEN 7 * Len(calls) + 4 - Executed[pc]
    ELSE Around[pc]
StepsLeft == RoundsLeft * RoundSteps + RestOfRound

\* Every step leaves fewer steps to take, so no answer of the provider makes a
\* turn longer than its cap allows.
CountsDown == [][StepsLeft' < StepsLeft]_vars

\* The event stream grows by at most one event a step.
StreamBounded == Len(events) + StepsLeft <= MaxToolIterations * RoundSteps + 5

\* Every turn ends and gives its session back, whatever the provider asks for.
TurnEnds == <>(pc = "closed")

\* The route's promise of `error' if the provider fails partway through.
ProviderFailureIsError ==
    \A i \in DOMAIN events :
        pc = "closed" /\ ~gone /\ events[i] = "apology" => events[Len(events)] = "error"
=============================================================================
