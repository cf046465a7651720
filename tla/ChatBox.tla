------------------------------- MODULE ChatBox -------------------------------
(***************************************************************************)
(* The chat box of the dashboard: questions submitted, stopped and cleared *)
(* while the answers of POST /api/chat, proxied to POST /chat, arrive late, *)
(* in pieces, broken off, refused or not at all.                           *)
(*                                                                         *)
(* One step is one task of the browser with the promise callbacks it       *)
(* settles, which all run before the next click: in particular abort()     *)
(* rejects the fetch or read in progress, and the catch and finally of     *)
(* handleSubmit run with the click that called it.  React has rendered the *)
(* updates of one task before the next click.                              *)
(***************************************************************************)
EXTENDS Naturals, Sequences

CONSTANTS
    Requests,     \* runs of handleSubmit
    MaxHistory,   \* MAX_HISTORY
    MaxTurns,     \* max_length of ChatRequest.history
    MaxContent,   \* max_length of ChatTurn.content, in tokens
    MaxRounds,    \* MAX_TOOL_ITERATIONS: rounds whose text goes into one answer
    RoundLength,  \* settings.llm_max_tokens: tokens in a round
    None          \* no controller, no error

ASSUME LengthsAssumption ==
    /\ MaxHistory \in Nat \ {0} /\ MaxTurns \in Nat /\ MaxHistory <= MaxTurns
    /\ MaxRounds \in Nat \ {0}
    /\ MaxContent \in Nat /\ RoundLength \in 1 .. MaxContent
ASSUME NoneAssumption == None \notin Requests

VARIABLES
    pc,        \* where each request is
    wire,      \* what the server has sent of each answer
    got,       \* how many of its tokens were read
    turns, status, error, abortRef  \* the component's state
vars == <<pc, wire, got, turns, status, error, abortRef>>

\* Awaiting fetch, res.json() of a refusal, or reader.read().
Awaiting == {"fetch", "refusal", "read"}
Over == {"complete", "failed", "stopped"}
Live(r) == pc[r] \in Awaiting

\* A token is known by the answer it belongs to and its place there.
AnswerLength == MaxRounds * RoundLength
Token == Requests \X (1 .. AnswerLength)
Tokens(r, from, to) == [i \in 1 .. to - from |-> <<r, from + i>>]

\* Turns: a question, known by its request, or an answer.
Question(r) == [role |-> "user", of |-> r, content |-> <<>>]
Assistant(r, content) == [role |-> "assistant", of |-> r, content |-> content]
ChatTurn == [role : {"user"}, of : Requests, content : {<<>>}]
       \cup [role : {"assistant"}, of : Requests, content : Seq(Token)]

\* What the server has sent: tokens, and whether done or error came behind
\* them; `valid' is what the API finds the request's body to be.
Stream == [sent : 0 .. AnswerLength, state : {"open", "error", "ended"}, valid : BOOLEAN]

\* One turn more than the API takes.
SliceLong(ts) == SubSeq(ts, IF Len(ts) > MaxHistory THEN Len(ts) - MaxHistory ELSE 1, Len(ts))
\* turns.slice(-MAX_HISTORY)
Slice(ts) == SubSeq(ts, IF Len(ts) > MaxHistory THEN Len(ts) - MaxHistory + 1 ELSE 1, Len(ts))

\* ChatRequest: what pydantic lets through.
Valid(history) ==
    /\ Len(history) <= MaxTurns
    /\ \A i \in DOMAIN history : Len(history[i].content) <= MaxContent

----------------------------------------------------------------------------
(* The box. *)

\* Questions are taken while one is being answered.
MaySubmitAlways == TRUE
\* status !== "idle"
MaySubmit == status = "idle"

Submit(r) ==
    /\ pc[r] = "new"
    /\ MaySubmit
    /\ wire' = [wire EXCEPT ![r].valid = Valid(Slice(turns))]
    /\ turns' = Append(turns, Question(r))
    /\ status' = "loading"
    /\ error' = None
    /\ abortRef' = r
    /\ pc' = [pc EXCEPT ![r] = "fetch"]
    /\ UNCHANGED got

\* The status left as it is.
SettleBusy(r, how) ==
    /\ pc' = [pc EXCEPT ![r] = how]
    /\ abortRef' = None
    /\ UNCHANGED status
\* How handleSubmit ends: setStatus("idle") and the finally block.
Settle(r, how) ==
    /\ pc' = [pc EXCEPT ![r] = how]
    /\ status' = "idle"
    /\ abortRef' = None

\* The response: 200 and a stream, or a refusal whose body is read next.
\* The API refuses what does not validate, and may refuse the caller.
Response(r) ==
    /\ pc[r] = "fetch"
    /\ \/ wire[r].valid /\ pc' = [pc EXCEPT ![r] = "read"]
       \/ pc' = [pc EXCEPT ![r] = "refusal"]
    /\ UNCHANGED <<wire, got, turns, status, error, abortRef>>

\* fetch or res.json() fails, or the detail of a refusal is thrown.
Fail(r) ==
    /\ pc[r] \in {"fetch", "refusal"}
    /\ error' = r
    /\ Settle(r, "failed")
    /\ UNCHANGED <<wire, got, turns>>

\* Every chunk becomes a turn of its own.
ExtendedByTurn(r, tokens) == Append(turns, Assistant(r, tokens))
\* Each chunk replaces the one before it.
ExtendedAnew(r, tokens) ==
    IF got[r] = 0 THEN Append(turns, Assistant(r, tokens))
    ELSE [turns EXCEPT ![Len(turns)] = Assistant(r, tokens)]
\* setTurns for the token events of a chunk: the first starts the answer,
\* the others extend the last turn, whatever it is.
Extended(r, tokens) ==
    IF got[r] = 0 THEN Append(turns, Assistant(r, tokens))
    ELSE [turns EXCEPT ![Len(turns)] =
             Assistant(r, turns[Len(turns)].content \o tokens)]

\* reader.read() yields a chunk: tokens up to the to-th, and the error event
\* if it is among them.
ReadChunk(r, to) ==
    /\ pc[r] = "read"
    /\ to \in got[r] + 1 .. wire[r].sent
    /\ got' = [got EXCEPT ![r] = to]
    /\ turns' = Extended(r, Tokens(r, got[r], to))
    /\ status' = "streaming"
    /\ UNCHANGED <<pc, wire, error, abortRef>>

ReadError(r) ==
    /\ pc[r] = "read"
    /\ wire[r].state = "error"
    /\ got[r] = wire[r].sent
    /\ error' = r
    /\ wire' = [wire EXCEPT ![r].state = "ended"]
    /\ UNCHANGED <<pc, got, turns, status, abortRef>>

\* The stream ended: consumeStream returns.
StreamEnds(r) ==
    /\ pc[r] = "read"
    /\ wire[r].state = "ended"
    /\ got[r] = wire[r].sent
    /\ Settle(r, "complete")
    /\ UNCHANGED <<wire, got, turns, error>>

\* The connection broke: what was not read is lost, read() rejects.
StreamBreaks(r) ==
    /\ pc[r] = "read"
    /\ error' = r
    /\ Settle(r, "failed")
    /\ UNCHANGED <<wire, got, turns>>

\* The abort is not passed on: the request goes on in the background.
AbortNothing == UNCHANGED <<pc, abortRef>>
\* abort(): the request, if there is one, ends in the catch of handleSubmit.
Abort ==
    IF abortRef = None THEN UNCHANGED <<pc, abortRef>>
    ELSE /\ pc' = [pc EXCEPT ![abortRef] = "stopped"]
         /\ abortRef' = None

HandleStop ==
    /\ Abort
    /\ status' = IF abortRef = None THEN status ELSE "idle"
    /\ UNCHANGED <<wire, got, turns, error>>

\* The button is there when there are turns.
HandleReset ==
    /\ turns # <<>>
    /\ Abort
    /\ turns' = <<>>
    /\ error' = None
    /\ status' = "idle"
    /\ UNCHANGED <<wire, got>>

----------------------------------------------------------------------------
(* The server, as the route's event stream shows it: see ChatTurn. *)

SendToken(r) ==
    /\ pc[r] = "read"
    /\ wire[r].state = "open"
    /\ wire[r].sent < AnswerLength
    /\ wire' = [wire EXCEPT ![r].sent = @ + 1]
    /\ UNCHANGED <<pc, got, turns, status, error, abortRef>>

\* done, which the box ignores, or error; the stream ends behind either.
SendEnd(r) ==
    /\ pc[r] = "read"
    /\ wire[r].state = "open"
    /\ \E last \in {"ended", "error"} : wire' = [wire EXCEPT ![r].state = last]
    /\ UNCHANGED <<pc, got, turns, status, error, abortRef>>

----------------------------------------------------------------------------
Init ==
    /\ pc = [r \in Requests |-> "new"]
    /\ wire = [r \in Requests |-> [sent |-> 0, state |-> "open", valid |-> TRUE]]
    /\ got = [r \in Requests |-> 0]
    /\ turns = <<>> /\ status = "idle" /\ error = None /\ abortRef = None

Answer(r) ==
    \/ Response(r) \/ Fail(r)
    \/ \E to \in 1 .. AnswerLength : ReadChunk(r, to)
    \/ ReadError(r) \/ StreamEnds(r) \/ SendToken(r) \/ SendEnd(r)
Next ==
    \/ \E r \in Requests : Submit(r) \/ Answer(r) \/ StreamBreaks(r)
    \/ HandleStop \/ HandleReset

Spec == Init /\ [][Next]_vars
\* The API answers every request it accepts and ends its stream (TurnEnds of
\* ChatTurn), and the browser delivers what was sent.
FairSpec == Spec /\ \A r \in Requests : WF_vars(Answer(r))

----------------------------------------------------------------------------
(* Properties. *)

\* Requests, streams and component state keep their shape.
TypeOK ==
    /\ pc \in [Requests -> {"new"} \cup Awaiting \cup Over]
    /\ wire \in [Requests -> Stream]
    /\ got \in [Requests -> 0 .. AnswerLength]
    /\ turns \in Seq(ChatTurn)
    /\ status \in {"idle", "loading", "streaming"}
    /\ error \in Requests \cup {None}
    /\ abortRef \in Requests \cup {None}

\* Whatever was clicked in whatever order, an answer stands right behind its
\* own question and holds what was read of that request, in order and once.
AnswersBelong ==
    \A i \in DOMAIN turns : turns[i].role = "assistant" =>
        /\ i > 1 /\ turns[i - 1] = Question(turns[i].of)
        /\ turns[i].content = Tokens(turns[i].of, 0, got[turns[i].of])

\* An answer that ended is whole, unless its conversation was cleared.
CompleteAnswers ==
    \A r \in Requests, i \in DOMAIN turns :
        /\ pc[r] = "complete" /\ got[r] > 0
        /\ turns[i] = Question(r)
        => i < Len(turns) /\ turns[i + 1] = Assistant(r, Tokens(r, 0, wire[r].sent))

\* The box is busy exactly while one request is out, and Stop reaches that
\* one: no click leaves a request running behind an idle box, or a busy box
\* with nothing that could end it.
BusyMeansStoppable ==
    /\ \A r \in Requests : Live(r) => abortRef = r
    /\ (status # "idle") <=> (\E r \in Requests : Live(r))

\* The error shown is about the last question shown: a request that was
\* stopped or cleared away reports nothing later.
Asked == {i \in DOMAIN turns : turns[i].role = "user"}
ErrorIsCurrent ==
    error # None =>
        \E i \in Asked : turns[i].of = error /\ \A j \in Asked : j <= i

\* The API turns a question down for its history only after an answer longer
\* than the API takes was shown: the box never sends too many turns.
RefusedForLength ==
    \A r \in Requests : wire[r].valid \/ \E q \in Requests : got[q] > MaxContent

\* The inductive invariant behind these: each request asks once, and what the
\* live one may rely on.
AskedOnce ==
    /\ \A r \in Requests : pc[r] = "new" => got[r] = 0
    /\ \A i \in Asked : pc[turns[i].of] # "new"
    /\ \A i, j \in Asked : turns[i].of = turns[j].of => i = j
LiveOK(r) ==
    Live(r) =>
        /\ turns # <<>>
        /\ got[r] = 0 => turns[Len(turns)] = Question(r)
        /\ got[r] > 0 => turns[Len(turns)].role = "assistant" /\ turns[Len(turns)].of = r
IInv ==
    /\ TypeOK
    /\ AnswersBelong /\ CompleteAnswers /\ ErrorIsCurrent /\ RefusedForLength
    /\ BusyMeansStoppable
    /\ AskedOnce
    /\ \A r \in Requests : LiveOK(r)

\* The box becomes idle again without a click.
BoxSettles == status # "idle" ~> status = "idle"

\* What an answer can still take: its response, tokens to send and to read,
\* the last event and the end.
Left(r) ==
    CASE pc[r] = "fetch" -> 2 * AnswerLength + 3
      [] pc[r] = "read" /\ wire[r].state = "open" ->
            (AnswerLength - wire[r].sent) + (AnswerLength - got[r]) + 2
      [] pc[r] = "read" /\ wire[r].state = "error" -> AnswerLength - got[r] + 1
      [] pc[r] = "read" /\ wire[r].state = "ended" -> AnswerLength - got[r]
      [] OTHER -> 0

\* While a question is out nothing else happens in the box: every step, a click
\* too, ends it or brings its answer nearer to its end.
AnswerCountsDown == [][\A r \in Requests : Live(r) /\ Live(r)' => Left(r)' < Left(r)]_vars

\* The promise that an answer the box has shown can be sent back as history.
HistoryAccepted == \A r \in Requests : wire[r].valid
=============================================================================
