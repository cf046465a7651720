--------------------------- MODULE ChatBox_proofs ---------------------------
(* Proofs of the chat box's invariant and of the properties it implies, for *)
(* any number of requests and any lengths.                                  *)
EXTENDS ChatBox, SequenceTheorems, TLAPS

\* A turn is a question or an answer of some request.
LEMMA TurnFacts ==
  ASSUME TypeOK, NEW i \in DOMAIN turns
  PROVE  /\ turns[i] \in ChatTurn
         /\ turns[i].role \in {"user", "assistant"}
         /\ turns[i].of \in Requests
         /\ turns[i].role = "user" => turns[i] = Question(turns[i].of)
         /\ turns[i].role = "assistant" => turns[i] = Assistant(turns[i].of, turns[i].content)
         /\ i \in 1 .. Len(turns) /\ Len(turns) \in Nat
<1>1. turns \in Seq(ChatTurn)
  BY DEF TypeOK
<1>2. turns[i] \in ChatTurn /\ i \in 1 .. Len(turns) /\ Len(turns) \in Nat
  BY <1>1
<1>3. CASE turns[i] \in [role : {"user"}, of : Requests, content : {<<>>}]
  BY <1>2, <1>3 DEF Question
<1>4. CASE turns[i] \in [role : {"assistant"}, of : Requests, content : Seq(Token)]
  BY <1>2, <1>4 DEF Assistant
<1> QED
  BY <1>2, <1>3, <1>4 DEF ChatTurn

\* What appending a turn leaves alone and what it adds.
LEMMA AppendFacts ==
  ASSUME TypeOK, NEW x \in ChatTurn, turns' = Append(turns, x)
  PROVE  /\ turns' \in Seq(ChatTurn)
         /\ Len(turns') = Len(turns) + 1 /\ Len(turns) \in Nat
         /\ DOMAIN turns = 1 .. Len(turns) /\ DOMAIN turns' = 1 .. Len(turns) + 1
         /\ \A i \in 1 .. Len(turns) : turns'[i] = turns[i]
         /\ turns'[Len(turns) + 1] = x
  BY DEF TypeOK

\* The live request's question is the last one asked, and it or its answer
\* is the last turn.
LEMMA LastQuestion ==
  ASSUME IInv, NEW r \in Requests, Live(r)
  PROVE  \E i \in Asked :
            /\ turns[i] = Question(r)
            /\ \A j \in Asked : j <= i
            /\ got[r] = 0 => i = Len(turns)
            /\ got[r] > 0 => /\ Len(turns) = i + 1
                             /\ turns[Len(turns)].role = "assistant"
                             /\ turns[Len(turns)].of = r
<1> DEFINE n == Len(turns)
<1>1. TypeOK /\ n \in Nat /\ DOMAIN turns = 1 .. n /\ n > 0 /\ got[r] \in Nat
  BY DEF IInv, TypeOK, LiveOK, AnswerLength
<1>2. CASE got[r] = 0
  <2>1. turns[n] = Question(r)
    BY <1>2 DEF IInv, LiveOK
  <2>2. n \in Asked /\ \A j \in Asked : j <= n
    BY <1>1, <2>1 DEF Asked, Question
  <2> QED
    BY <1>2, <2>1, <2>2
<1>3. CASE got[r] > 0
  <2>1. turns[n].role = "assistant" /\ turns[n].of = r
    BY <1>3 DEF IInv, LiveOK
  <2>2. n > 1 /\ turns[n - 1] = Question(r)
    BY <1>1, <2>1 DEF IInv, AnswersBelong
  <2>3. n - 1 \in Asked
    BY <1>1, <2>2 DEF Asked, Question
  <2>4. \A j \in Asked : j <= n - 1
    BY <1>1, <2>1 DEF Asked
  <2> QED
    BY <1>1, <1>3, <2>1, <2>2, <2>3, <2>4
<1> QED
  BY <1>1, <1>2, <1>3

\* The tokens from one place to another.
LEMMA TokensFacts ==
  ASSUME NEW r \in Requests, NEW from \in Nat, NEW to \in Nat,
         from <= to, to <= AnswerLength
  PROVE  /\ Tokens(r, from, to) \in Seq(Token)
         /\ Len(Tokens(r, from, to)) = to - from
         /\ \A i \in 1 .. to - from : Tokens(r, from, to)[i] = <<r, from + i>>
<1> USE LengthsAssumption
<1>1. AnswerLength \in Nat
  BY DEF AnswerLength
<1>2. \A i \in 1 .. to - from : <<r, from + i>> \in Token
  BY <1>1 DEF Token
<1>3. Tokens(r, from, to) \in [1 .. to - from -> Token]
  BY <1>2 DEF Tokens
<1>4. to - from \in Nat
  OBVIOUS
<1>5. Tokens(r, from, to) \in Seq(Token)
  BY <1>3, <1>4
<1> QED
  BY <1>3, <1>4, <1>5 DEF Tokens

\* The tokens from the first on.
LEMMA FirstTokens ==
  ASSUME NEW r \in Requests, NEW to \in Nat, to <= AnswerLength
  PROVE  /\ Tokens(r, 0, to) \in Seq(Token)
         /\ Len(Tokens(r, 0, to)) = to
         /\ \A i \in 1 .. to : Tokens(r, 0, to)[i] = <<r, i>>
<1>1. /\ Tokens(r, 0, to) \in Seq(Token)
      /\ Len(Tokens(r, 0, to)) = to - 0
      /\ \A i \in 1 .. to - 0 : Tokens(r, 0, to)[i] = <<r, 0 + i>>
  <2>1. 0 \in Nat /\ 0 <= to
    OBVIOUS
  <2> HIDE DEF Tokens
  <2> QED
    BY <2>1, TokensFacts
<1>2. to - 0 = to /\ \A i \in 1 .. to : 0 + i = i
  OBVIOUS
<1> QED
  BY <1>1, <1>2

\* A sequence made of a first part and the rest is their concatenation.
LEMMA ConcatOfParts ==
  ASSUME NEW S, NEW a \in Seq(S), NEW b \in Seq(S), NEW c \in Seq(S),
         Len(c) = Len(a) + Len(b),
         \A i \in 1 .. Len(a) : c[i] = a[i],
         \A i \in 1 .. Len(b) : c[Len(a) + i] = b[i]
  PROVE  a \o b = c
<1>1. /\ a \o b \in Seq(S) /\ Len(a \o b) = Len(c)
      /\ \A i \in 1 .. Len(a) + Len(b) :
            (a \o b)[i] = IF i <= Len(a) THEN a[i] ELSE b[i - Len(a)]
  BY ConcatProperties
<1>2. Len(a) \in Nat /\ Len(b) \in Nat
  OBVIOUS
<1>3. ASSUME NEW i \in 1 .. Len(c) PROVE (a \o b)[i] = c[i]
  <2>1. CASE i <= Len(a)
    BY <1>1, <1>2, <2>1
  <2>2. CASE ~(i <= Len(a))
    <3>1. i - Len(a) \in 1 .. Len(b) /\ Len(a) + (i - Len(a)) = i
      BY <1>2, <2>2
    <3>2. c[i] = b[i - Len(a)]
      BY <3>1
    <3> QED
      BY <1>1, <2>2, <3>2
  <2> QED
    BY <2>1, <2>2
<1> QED
  BY <1>1, <1>3, SeqEqual

\* What was read before and what a chunk adds make up what was read after.
LEMMA TokensConcat ==
  ASSUME NEW r \in Requests, NEW from \in Nat, NEW to \in Nat,
         from <= to, to <= AnswerLength
  PROVE  Tokens(r, 0, from) \o Tokens(r, from, to) = Tokens(r, 0, to)
<1>1. AnswerLength \in Nat /\ from <= AnswerLength
  BY LengthsAssumption DEF AnswerLength
<1>2. /\ Tokens(r, 0, from) \in Seq(Token) /\ Len(Tokens(r, 0, from)) = from
      /\ \A i \in 1 .. from : Tokens(r, 0, from)[i] = <<r, i>>
  BY <1>1, FirstTokens
<1>3. /\ Tokens(r, from, to) \in Seq(Token) /\ Len(Tokens(r, from, to)) = to - from
      /\ \A i \in 1 .. to - from : Tokens(r, from, to)[i] = <<r, from + i>>
  BY TokensFacts
<1>4. /\ Tokens(r, 0, to) \in Seq(Token) /\ Len(Tokens(r, 0, to)) = to
      /\ \A i \in 1 .. to : Tokens(r, 0, to)[i] = <<r, i>>
  BY <1>1, FirstTokens
<1>5. \A i \in 1 .. to - from : from + i \in 1 .. to
  OBVIOUS
<1>6. \A i \in 1 .. from : i \in 1 .. to
  OBVIOUS
<1>7. Len(Tokens(r, 0, to)) = Len(Tokens(r, 0, from)) + Len(Tokens(r, from, to))
  <2>1. from + (to - from) = to
    OBVIOUS
  <2> QED
    BY <1>2, <1>3, <1>4, <2>1, Zenon
<1>8. \A i \in 1 .. Len(Tokens(r, 0, from)) : Tokens(r, 0, to)[i] = Tokens(r, 0, from)[i]
  BY <1>2, <1>4, <1>6
<1>9. ASSUME NEW i \in 1 .. to - from
      PROVE  Tokens(r, 0, to)[from + i] = Tokens(r, from, to)[i]
  <2>1. Tokens(r, 0, to)[from + i] = <<r, from + i>>
    <3>1. from + i \in 1 .. to
      BY <1>5
    <3> QED
      BY <1>4, <3>1, Zenon
  <2>2. Tokens(r, from, to)[i] = <<r, from + i>>
    BY <1>3, Zenon
  <2> QED
    BY <2>1, <2>2, Zenon
<1>10. \A i \in 1 .. Len(Tokens(r, from, to)) :
          Tokens(r, 0, to)[Len(Tokens(r, 0, from)) + i] = Tokens(r, from, to)[i]
  BY <1>2, <1>3, <1>9, Zenon
<1> QED
  BY <1>2, <1>3, <1>4, <1>7, <1>8, <1>10, ConcatOfParts, Zenon

\* A step of Submit keeps IInv.
LEMMA SubmitIInv ==
  ASSUME IInv, NEW r \in Requests, Submit(r)
  PROVE  IInv'
<1> USE LengthsAssumption, NoneAssumption
<1>1. TypeOK'
  <2>1. Question(r) \in ChatTurn
    BY DEF ChatTurn, Question
  <2>2. turns' \in Seq(ChatTurn)
    BY <2>1, AppendFacts DEF IInv, Submit
  <2>3. wire[r] \in Stream /\ Valid(Slice(turns)) \in BOOLEAN
    BY DEF IInv, TypeOK, Valid
  <2>4. [wire[r] EXCEPT !.valid = Valid(Slice(turns))] \in Stream
    BY <2>3 DEF Stream
  <2>5. wire' = [wire EXCEPT ![r] = [wire[r] EXCEPT !.valid = Valid(Slice(turns))]]
    BY DEF IInv, TypeOK, Submit
  <2> QED
    BY <2>2, <2>4, <2>5 DEF IInv, TypeOK, Awaiting, Submit
<1>2. AnswersBelong'
  <2>0. /\ Len(turns') = Len(turns) + 1 /\ Len(turns) \in Nat
        /\ DOMAIN turns = 1 .. Len(turns) /\ DOMAIN turns' = 1 .. Len(turns) + 1
        /\ \A i \in 1 .. Len(turns) : turns'[i] = turns[i]
        /\ turns'[Len(turns) + 1] = Question(r)
    <3>1. Question(r) \in ChatTurn
      BY DEF ChatTurn, Question
    <3> QED
      BY <3>1, AppendFacts DEF IInv, Submit
  <2>1. got' = got
    BY DEF Submit
  <2>2. ASSUME NEW i \in DOMAIN turns', turns'[i].role = "assistant"
        PROVE  /\ i > 1 /\ turns'[i - 1] = Question(turns'[i].of)
               /\ turns'[i].content = Tokens(turns'[i].of, 0, got'[turns'[i].of])
    <3>1. i \in 1 .. Len(turns)
      BY <2>0, <2>2 DEF Question
    <3> QED
      BY <2>0, <2>1, <2>2, <3>1 DEF IInv, AnswersBelong
  <2> QED
    BY <2>2 DEF AnswersBelong
<1>3. CompleteAnswers'
  BY DEF IInv, TypeOK, CompleteAnswers, Tokens, Question, Assistant, Awaiting, Over, Submit, MaySubmit
<1>4. ErrorIsCurrent'
  BY DEF IInv, TypeOK, ErrorIsCurrent, Asked, Submit, MaySubmit
<1>5. RefusedForLength'
  <2>1. wire'[r].valid = Valid(Slice(turns)) /\ got' = got
    BY DEF IInv, TypeOK, Stream, Submit
  <2>2. \A q \in Requests : q # r => wire'[q].valid = wire[q].valid
    BY DEF IInv, TypeOK, Submit
  <2>3. ASSUME ~Valid(Slice(turns)) PROVE \E q \in Requests : got[q] > MaxContent
    <3> DEFINE n == Len(turns)
               from == IF n > MaxHistory THEN n - MaxHistory + 1 ELSE 1
    <3>1. turns \in Seq(ChatTurn) /\ n \in Nat /\ from \in 1 .. n + 1
      BY DEF IInv, TypeOK
    <3>2. /\ Len(Slice(turns)) = n - from + 1
          /\ \A i \in 1 .. n - from + 1 : Slice(turns)[i] = turns[from + i - 1]
          /\ DOMAIN Slice(turns) = 1 .. n - from + 1
      BY <3>1 DEF Slice
    <3>3. Len(Slice(turns)) <= MaxTurns
      BY <3>1, <3>2
    <3>4. PICK i \in 1 .. n - from + 1 : ~(Len(Slice(turns)[i].content) <= MaxContent)
      BY <2>3, <3>2, <3>3 DEF Valid
    <3> DEFINE k == from + i - 1
    <3>5. k \in DOMAIN turns /\ ~(Len(turns[k].content) <= MaxContent)
      BY <3>1, <3>2, <3>4
    <3>6. turns[k].role = "assistant" /\ turns[k].of \in Requests
      <4>1. CASE turns[k].role = "user"
        BY <3>5, <4>1, TurnFacts DEF IInv, Question
      <4> QED
        BY <3>5, <4>1, TurnFacts DEF IInv
    <3>7. turns[k].content = Tokens(turns[k].of, 0, got[turns[k].of])
      BY <3>5, <3>6 DEF IInv, AnswersBelong
    <3>8. got[turns[k].of] \in Nat /\ got[turns[k].of] <= AnswerLength
      BY <3>6 DEF IInv, TypeOK, AnswerLength
    <3>9. Len(turns[k].content) = got[turns[k].of]
      BY <3>6, <3>7, <3>8, FirstTokens
    <3> QED
      BY <3>5, <3>6, <3>8, <3>9
  <2> QED
    BY <2>1, <2>2, <2>3 DEF IInv, RefusedForLength
<1>6. BusyMeansStoppable'
  BY DEF IInv, TypeOK, BusyMeansStoppable, Live, Awaiting, Over, Submit, MaySubmit
<1>7. AskedOnce'
  <2>0. /\ Len(turns') = Len(turns) + 1 /\ Len(turns) \in Nat
        /\ DOMAIN turns = 1 .. Len(turns) /\ DOMAIN turns' = 1 .. Len(turns) + 1
        /\ \A i \in 1 .. Len(turns) : turns'[i] = turns[i]
        /\ turns'[Len(turns) + 1] = Question(r)
    <3>1. Question(r) \in ChatTurn
      BY DEF ChatTurn, Question
    <3> QED
      BY <3>1, AppendFacts DEF IInv, Submit
  <2>1. /\ got' = got /\ pc[r] = "new" /\ pc'[r] = "fetch"
        /\ \A q \in Requests : q # r => pc'[q] = pc[q]
    BY DEF IInv, TypeOK, Submit
  <2>2. Asked' = Asked \cup {Len(turns) + 1}
    BY <2>0 DEF Asked, Question
  <2>3. \A i \in Asked : turns'[i] = turns[i] /\ turns[i].of \in Requests \ {r}
    BY <2>0, <2>1, TurnFacts DEF IInv, AskedOnce, Asked
  <2>4. turns'[Len(turns) + 1].of = r
    BY <2>0 DEF Question
  <2> QED
    BY <2>1, <2>2, <2>3, <2>4 DEF IInv, AskedOnce
<1>8. ASSUME NEW q \in Requests PROVE LiveOK(q)'
  <2>0. /\ Len(turns') = Len(turns) + 1 /\ Len(turns) \in Nat
        /\ DOMAIN turns = 1 .. Len(turns) /\ DOMAIN turns' = 1 .. Len(turns) + 1
        /\ \A i \in 1 .. Len(turns) : turns'[i] = turns[i]
        /\ turns'[Len(turns) + 1] = Question(r)
    <3>1. Question(r) \in ChatTurn
      BY DEF ChatTurn, Question
    <3> QED
      BY <3>1, AppendFacts DEF IInv, Submit
  <2>1. Live(q)' => q = r
    BY DEF IInv, TypeOK, BusyMeansStoppable, Live, Awaiting, MaySubmit, Submit
  <2>2. got'[r] = 0 /\ turns' # <<>> /\ Len(turns') = Len(turns) + 1
    BY <2>0 DEF IInv, AskedOnce, Submit
  <2> QED
    BY <2>0, <2>1, <2>2 DEF LiveOK
<1> QED
  BY <1>1, <1>2, <1>3, <1>4, <1>5, <1>6, <1>7, <1>8 DEF IInv

\* A step of Response keeps IInv.
LEMMA ResponseIInv ==
  ASSUME IInv, NEW r \in Requests, Response(r)
  PROVE  IInv'
<1> USE LengthsAssumption, NoneAssumption
<1>1. TypeOK'
  BY DEF IInv, TypeOK, Awaiting, Over, ChatTurn, Question, Response
<1>2. AnswersBelong'
  BY DEF IInv, TypeOK, AnswersBelong, Tokens, Question, Awaiting, Over, Response
<1>3. CompleteAnswers'
  BY DEF IInv, TypeOK, CompleteAnswers, Tokens, Question, Assistant, Awaiting, Over, Response
<1>4. ErrorIsCurrent'
  BY DEF IInv, TypeOK, ErrorIsCurrent, Asked, Response
<1>5. RefusedForLength'
  BY DEF IInv, TypeOK, RefusedForLength, Response
<1>6. BusyMeansStoppable'
  BY DEF IInv, TypeOK, BusyMeansStoppable, Live, Awaiting, Over, Response
<1>7. AskedOnce'
  <2>1. Asked' = Asked /\ turns' = turns
    BY DEF Asked, Response
  <2>2. ASSUME NEW q \in Requests PROVE pc'[q] = "new" => pc[q] = "new"
    BY DEF IInv, TypeOK, Awaiting, Over, Response
  <2>3. \A i \in Asked : turns[i].of \in Requests
    BY TurnFacts DEF IInv, Asked
  <2> QED
    BY <2>1, <2>2, <2>3 DEF IInv, AskedOnce, Asked, Response
<1>8. ASSUME NEW q \in Requests PROVE LiveOK(q)'
  BY DEF IInv, TypeOK, LiveOK, Live, Awaiting, Over, Response
<1> QED
  BY <1>1, <1>2, <1>3, <1>4, <1>5, <1>6, <1>7, <1>8 DEF IInv

\* A step of Fail keeps IInv.
LEMMA FailIInv ==
  ASSUME IInv, NEW r \in Requests, Fail(r)
  PROVE  IInv'
<1> USE LengthsAssumption, NoneAssumption
<1>1. TypeOK'
  BY DEF IInv, TypeOK, Awaiting, Over, ChatTurn, Question, Fail, Settle
<1>2. AnswersBelong'
  BY DEF IInv, TypeOK, AnswersBelong, Tokens, Question, Awaiting, Over, Fail, Settle
<1>3. CompleteAnswers'
  BY DEF IInv, TypeOK, CompleteAnswers, Tokens, Question, Assistant, Awaiting, Over, Fail, Settle
<1>4. ErrorIsCurrent'
  <2>1. Asked' = Asked /\ turns' = turns /\ error' = r
    BY DEF Asked, Fail
  <2>2. PICK i \in Asked : turns[i] = Question(r) /\ \A j \in Asked : j <= i
    BY LastQuestion DEF Fail, Live, Awaiting
  <2> QED
    BY <2>1, <2>2 DEF ErrorIsCurrent, Question
<1>5. RefusedForLength'
  BY DEF IInv, TypeOK, RefusedForLength, Fail, Settle
<1>6. BusyMeansStoppable'
  BY DEF IInv, TypeOK, BusyMeansStoppable, Live, Awaiting, Over, Fail, Settle
<1>7. AskedOnce'
  BY DEF IInv, TypeOK, AskedOnce, Asked, Awaiting, Over, Fail, Settle
<1>8. ASSUME NEW q \in Requests PROVE LiveOK(q)'
  BY DEF IInv, TypeOK, LiveOK, Live, Awaiting, Over, Fail, Settle
<1> QED
  BY <1>1, <1>2, <1>3, <1>4, <1>5, <1>6, <1>7, <1>8 DEF IInv

\* What a chunk read for r does to the turns behind its question at k.
ChunkFacts(r, to, k) ==
    /\ turns' \in Seq(ChatTurn)
    /\ k \in Nat \ {0} /\ Len(turns') = k + 1 /\ DOMAIN turns' = 1 .. k + 1
    /\ DOMAIN turns = 1 .. Len(turns) /\ Len(turns) \in {k, k + 1}
    /\ \A i \in 1 .. k : turns'[i] = turns[i]
    /\ turns[k] = Question(r)
    /\ turns'[k + 1] = Assistant(r, Tokens(r, 0, to))
    /\ Asked \subseteq 1 .. k /\ Asked' = Asked
    /\ to \in Nat \ {0} /\ to <= AnswerLength
    /\ got' \in [Requests -> 0 .. AnswerLength]
    /\ got'[r] = to /\ \A q \in Requests : q # r => got'[q] = got[q]

\* A chunk adds an answer behind the last question, or extends the one there.
LEMMA ReadChunkFacts ==
  ASSUME IInv, NEW r \in Requests, NEW to \in 1 .. AnswerLength, ReadChunk(r, to)
  PROVE  \E k \in Asked : ChunkFacts(r, to, k)
<1> USE LengthsAssumption
<1>1. PICK k \in Asked :
          /\ turns[k] = Question(r)
          /\ \A j \in Asked : j <= k
          /\ got[r] = 0 => k = Len(turns)
          /\ got[r] > 0 => /\ Len(turns) = k + 1
                           /\ turns[Len(turns)].role = "assistant"
                           /\ turns[Len(turns)].of = r
  BY LastQuestion DEF ReadChunk, Live, Awaiting
<1>2. /\ TypeOK /\ AnswerLength \in Nat /\ got[r] \in 0 .. AnswerLength
      /\ Len(turns) \in Nat /\ DOMAIN turns = 1 .. Len(turns) /\ k \in 1 .. Len(turns)
      /\ to \in Nat /\ got[r] < to
  BY <1>1 DEF IInv, TypeOK, Asked, AnswerLength, ReadChunk
<1>3. /\ got' \in [Requests -> 0 .. AnswerLength]
      /\ got'[r] = to /\ \A q \in Requests : q # r => got'[q] = got[q]
  BY <1>2 DEF IInv, TypeOK, ReadChunk
<1>4. /\ Tokens(r, 0, to) \in Seq(Token)
      /\ Assistant(r, Tokens(r, 0, to)) \in ChatTurn
  <2>1. Tokens(r, 0, to) \in Seq(Token)
    BY <1>2, FirstTokens
  <2> QED
    BY <2>1 DEF Assistant, ChatTurn
<1>5. CASE got[r] = 0
  <2>1. turns' = Append(turns, Assistant(r, Tokens(r, 0, to)))
    BY <1>5 DEF ReadChunk, Extended
  <2>2. /\ turns' \in Seq(ChatTurn)
        /\ Len(turns') = k + 1 /\ DOMAIN turns' = 1 .. k + 1
        /\ \A i \in 1 .. k : turns'[i] = turns[i]
        /\ turns'[k + 1] = Assistant(r, Tokens(r, 0, to))
    BY <1>1, <1>2, <1>4, <1>5, <2>1, AppendFacts
  <2>3. Asked' = Asked /\ Asked \subseteq 1 .. k
    BY <1>1, <1>2, <1>5, <2>2 DEF Asked, Assistant
  <2>4. k \in Nat \ {0} /\ Len(turns) = k /\ to \in Nat \ {0}
    BY <1>1, <1>2, <1>5
  <2> QED
    BY <1>1, <1>2, <1>3, <2>2, <2>3, <2>4 DEF ChunkFacts
<1>6. CASE got[r] > 0
  <2>1. Len(turns) = k + 1 /\ turns[k + 1].role = "assistant" /\ turns[k + 1].of = r
    BY <1>1, <1>6
  <2>2. turns[k + 1].content = Tokens(r, 0, got[r])
    BY <1>2, <2>1 DEF IInv, AnswersBelong
  <2>3. Tokens(r, 0, got[r]) \o Tokens(r, got[r], to) = Tokens(r, 0, to)
    <3>1. got[r] \in Nat /\ to \in Nat /\ got[r] <= to /\ to <= AnswerLength
      BY <1>2
    <3> QED
      BY <3>1, TokensConcat, Zenon
  <2>4. turns' = [turns EXCEPT ![k + 1] = Assistant(r, Tokens(r, 0, to))]
    <3>1. turns' = [turns EXCEPT ![k + 1] =
                       Assistant(r, turns[k + 1].content \o Tokens(r, got[r], to))]
      BY <1>6, <2>1 DEF ReadChunk, Extended
    <3> QED
      BY <2>2, <2>3, <3>1, Zenon
  <2>5. /\ turns' \in Seq(ChatTurn)
        /\ Len(turns') = k + 1 /\ DOMAIN turns' = 1 .. k + 1
        /\ \A i \in 1 .. k : turns'[i] = turns[i]
        /\ turns'[k + 1] = Assistant(r, Tokens(r, 0, to))
    BY <1>2, <1>4, <2>1, <2>4, ExceptSeq DEF TypeOK
  <2>6. Asked' = Asked /\ Asked \subseteq 1 .. k
    BY <1>1, <1>2, <2>1, <2>5 DEF Asked, Assistant
  <2>7. k \in Nat \ {0} /\ to \in Nat \ {0}
    BY <1>2
  <2> QED
    BY <1>1, <1>2, <1>3, <2>1, <2>5, <2>6, <2>7 DEF ChunkFacts
<1> QED
  BY <1>2, <1>5, <1>6

\* A step of ReadChunk keeps IInv.
LEMMA ReadChunkIInv ==
  ASSUME IInv, NEW r \in Requests, NEW to \in 1 .. AnswerLength, ReadChunk(r, to)
  PROVE  IInv'
<1> USE LengthsAssumption, NoneAssumption
<1>1. TypeOK'
  <2>1. PICK k \in Asked : ChunkFacts(r, to, k)
    BY ReadChunkFacts
  <2> QED
    BY <2>1 DEF IInv, TypeOK, ChunkFacts, ReadChunk, Assistant, Question
<1>2. AnswersBelong'
  <2>1. PICK k \in Asked : ChunkFacts(r, to, k)
    BY ReadChunkFacts
  <2>2. k \in Nat \ {0} /\ Len(turns) \in {k, k + 1}
    BY <2>1, Zenon DEF ChunkFacts
  <2>5. DOMAIN turns = 1 .. Len(turns) /\ DOMAIN turns' = 1 .. k + 1
    BY <2>1, Zenon DEF ChunkFacts
  <2>3. /\ turns'[k + 1] = Assistant(r, Tokens(r, 0, to)) /\ turns[k] = Question(r)
        /\ \A j \in 1 .. k : turns'[j] = turns[j]
        /\ got'[r] = to /\ \A q \in Requests : q # r => got'[q] = got[q]
    BY <2>1, Zenon DEF ChunkFacts
  <2>4. ASSUME NEW i \in DOMAIN turns', turns'[i].role = "assistant"
        PROVE  /\ i > 1 /\ turns'[i - 1] = Question(turns'[i].of)
               /\ turns'[i].content = Tokens(turns'[i].of, 0, got'[turns'[i].of])
    <3>1. i \in 1 .. k + 1
      BY <2>5, Zenon
    <3>2. CASE i = k + 1
      <4>1. i > 1 /\ i - 1 = k /\ k \in 1 .. k
        BY <2>2, <3>2
      <4>2. turns'[k] = Question(r)
        BY <2>3, <4>1, Zenon
      <4>3. turns'[i] = Assistant(r, Tokens(r, 0, to))
        BY <2>3, <3>2, Zenon
      <4>4. turns'[i].of = r /\ turns'[i].content = Tokens(r, 0, to)
        BY <4>3 DEF Assistant
      <4> QED
        BY <2>3, <4>1, <4>2, <4>4, Zenon
    <3>3. CASE i # k + 1
      <4>1. i \in 1 .. k /\ i \in 1 .. Len(turns)
        BY <2>2, <3>1, <3>3
      <4>2. turns'[i] = turns[i] /\ i \in DOMAIN turns
        BY <2>3, <2>5, <4>1, Zenon
      <4>3. turns[i].role = "assistant" /\ turns[i].of \in Requests
        BY <2>4, <4>2, TurnFacts DEF IInv
      <4>4. /\ i > 1 /\ turns[i - 1] = Question(turns[i].of)
            /\ turns[i].content = Tokens(turns[i].of, 0, got[turns[i].of])
        BY <4>2, <4>3 DEF IInv, AnswersBelong
      <4>5. i - 1 \in 1 .. Len(turns) /\ i - 1 \in 1 .. k /\ i - 1 # k
        <5>1. i > 1
          BY <4>4, Zenon
        <5> QED
          BY <2>2, <4>1, <5>1
      <4>6. turns[i - 1].role = "user" /\ turns[i - 1].of = turns[i].of
        BY <4>4 DEF Question
      <4>7. i - 1 \in Asked
        BY <2>5, <4>5, <4>6, Zenon DEF Asked
      <4>8. turns[i].of # r
        <5>1. turns[k].of = r
          BY <2>3 DEF Question
        <5> QED
          BY <4>5, <4>6, <4>7, <5>1, Zenon DEF IInv, AskedOnce
      <4> QED
        BY <2>3, <4>2, <4>3, <4>4, <4>5, <4>8, Zenon
    <3> QED
      BY <3>2, <3>3
  <2> QED
    BY <2>4 DEF AnswersBelong
<1>3. CompleteAnswers'
  <2>1. PICK k \in Asked : ChunkFacts(r, to, k)
    BY ReadChunkFacts
  <2>2. ASSUME NEW q \in Requests, NEW i \in DOMAIN turns',
               pc'[q] = "complete", got'[q] > 0, turns'[i] = Question(q)
        PROVE  i < Len(turns') /\ turns'[i + 1] = Assistant(q, Tokens(q, 0, wire'[q].sent))
    <3>1. q # r /\ pc[q] = "complete" /\ got[q] > 0 /\ wire'[q] = wire[q]
      <4>1. got'[r] = to /\ \A p \in Requests : p # r => got'[p] = got[p]
        BY <2>1, Zenon DEF ChunkFacts
      <4> QED
        BY <2>2, <4>1 DEF ReadChunk
    <3>2. /\ i \in 1 .. k + 1 /\ k \in Nat /\ Len(turns) \in {k, k + 1}
          /\ DOMAIN turns = 1 .. Len(turns) /\ \A j \in 1 .. k : turns'[j] = turns[j]
          /\ turns[k] = Question(r) /\ k \in 1 .. k
          /\ turns'[k + 1] = Assistant(r, Tokens(r, 0, to))
      <4>1. k \in Nat \ {0}
        BY <2>1, Zenon DEF ChunkFacts
      <4>2. k \in 1 .. k
        BY <4>1
      <4> QED
        BY <2>1, <2>2, <4>1, <4>2, Zenon DEF ChunkFacts
    <3>3. i # k + 1 /\ i # k
      <4>1. turns'[k] = Question(r)
        BY <3>2, Zenon
      <4>2. Question(q) # Question(r)
        BY <3>1 DEF Question
      <4>3. Question(q) # Assistant(r, Tokens(r, 0, to))
        BY DEF Question, Assistant
      <4> QED
        BY <2>2, <3>2, <4>1, <4>2, <4>3, Zenon
    <3>6. i \in DOMAIN turns /\ i < k /\ turns[i] = Question(q)
      BY <2>2, <3>2, <3>3
    <3>4. i < Len(turns) /\ turns[i + 1] = Assistant(q, Tokens(q, 0, wire[q].sent))
      BY <3>1, <3>6 DEF IInv, CompleteAnswers
    <3>8. i \in Nat /\ k \in Nat /\ i < k
      <4>1. i \in 1 .. k + 1 /\ k \in Nat /\ i < k
        BY <3>2, <3>6, Zenon
      <4> QED
        BY <4>1
    <3>5. i + 1 \in 1 .. k
      BY <3>8
    <3>7. i < Len(turns')
      <4>1. Len(turns') = k + 1
        BY <2>1, Zenon DEF ChunkFacts
      <4> QED
        BY <3>8, <4>1
    <3> QED
      BY <3>1, <3>2, <3>4, <3>5, <3>7, Zenon
  <2> QED
    BY <2>2 DEF CompleteAnswers
<1>4. ErrorIsCurrent'
  <2>1. PICK k \in Asked : ChunkFacts(r, to, k)
    BY ReadChunkFacts
  <2>2. Asked \subseteq 1 .. k /\ Asked' = Asked /\ \A i \in 1 .. k : turns'[i] = turns[i]
    BY <2>1, Zenon DEF ChunkFacts
  <2>3. error' = error
    BY DEF ReadChunk
  <2> QED
    BY <2>2, <2>3, Zenon DEF IInv, ErrorIsCurrent
<1>5. RefusedForLength'
  BY DEF IInv, TypeOK, RefusedForLength, ReadChunk, Extended
<1>6. BusyMeansStoppable'
  BY DEF IInv, TypeOK, BusyMeansStoppable, Live, Awaiting, Over, ReadChunk, Extended
<1>7. AskedOnce'
  <2>1. PICK k \in Asked : ChunkFacts(r, to, k)
    BY ReadChunkFacts
  <2>2. /\ Asked' = Asked /\ \A q \in Requests : q # r => got'[q] = got[q]
        /\ \A i \in Asked : turns'[i] = turns[i]
    BY <2>1, Zenon DEF ChunkFacts
  <2>3. pc' = pc /\ pc[r] # "new"
    BY DEF ReadChunk
  <2>4. \A q \in Requests : pc'[q] = "new" => got'[q] = 0
    BY <2>2, <2>3 DEF IInv, AskedOnce
  <2>5. \A i \in Asked' : pc'[turns'[i].of] # "new"
    BY <2>2, <2>3, Zenon DEF IInv, AskedOnce
  <2>6. \A i, j \in Asked' : turns'[i].of = turns'[j].of => i = j
    <3> SUFFICES ASSUME NEW i \in Asked, NEW j \in Asked, turns'[i].of = turns'[j].of
                 PROVE  i = j
      BY <2>2, Zenon
    <3>1. turns[i].of = turns[j].of
      BY <2>2
    <3> QED
      BY <3>1, Zenon DEF IInv, AskedOnce
  <2> QED
    BY <2>4, <2>5, <2>6, Zenon DEF AskedOnce
<1>8. ASSUME NEW q \in Requests PROVE LiveOK(q)'
  <2>1. PICK k \in Asked : ChunkFacts(r, to, k)
    BY ReadChunkFacts
  <2>2. Live(q)' => q = r
    BY DEF IInv, BusyMeansStoppable, Live, Awaiting, ReadChunk
  <2>3. /\ got'[r] = to /\ to \in Nat \ {0}
        /\ turns' \in Seq(ChatTurn) /\ Len(turns') = k + 1 /\ k \in Nat
        /\ turns'[k + 1] = Assistant(r, Tokens(r, 0, to))
    BY <2>1, Zenon DEF ChunkFacts
  <2>4. turns'[Len(turns')].role = "assistant" /\ turns'[Len(turns')].of = r
    <3>1. turns'[Len(turns')] = Assistant(r, Tokens(r, 0, to))
      BY <2>3, Zenon
    <3> QED
      BY <3>1 DEF Assistant
  <2>5. turns' # <<>> /\ got'[r] # 0
    BY <2>3
  <2> QED
    BY <2>2, <2>4, <2>5 DEF LiveOK
<1> QED
  BY <1>1, <1>2, <1>3, <1>4, <1>5, <1>6, <1>7, <1>8 DEF IInv

\* A step of ReadError keeps IInv.
LEMMA ReadErrorIInv ==
  ASSUME IInv, NEW r \in Requests, ReadError(r)
  PROVE  IInv'
<1> USE LengthsAssumption, NoneAssumption
<1>1. TypeOK'
  <2>1. wire[r] \in Stream /\ AnswerLength \in Nat
    BY DEF IInv, TypeOK, AnswerLength
  <2>2. [wire[r] EXCEPT !.state = "ended"] \in Stream
    BY <2>1 DEF Stream, ReadError
  <2>3. wire' = [wire EXCEPT ![r] = [wire[r] EXCEPT !.state = "ended"]]
    BY DEF IInv, TypeOK, ReadError
  <2> QED
    BY <2>2, <2>3 DEF IInv, TypeOK, ReadError
<1>2. AnswersBelong'
  BY DEF IInv, AnswersBelong, ReadError
<1>3. CompleteAnswers'
  BY DEF IInv, TypeOK, CompleteAnswers, Tokens, Question, Assistant, Awaiting, Over, ReadError
<1>4. ErrorIsCurrent'
  <2>1. Asked' = Asked /\ turns' = turns /\ error' = r
    BY DEF Asked, ReadError
  <2>2. PICK i \in Asked : turns[i] = Question(r) /\ \A j \in Asked : j <= i
    BY LastQuestion DEF ReadError, Live, Awaiting
  <2> QED
    BY <2>1, <2>2 DEF ErrorIsCurrent, Question
<1>5. RefusedForLength'
  BY DEF IInv, TypeOK, RefusedForLength, ReadError
<1>6. BusyMeansStoppable'
  BY DEF IInv, TypeOK, BusyMeansStoppable, Live, Awaiting, Over, ReadError
<1>7. AskedOnce'
  BY DEF IInv, TypeOK, AskedOnce, Asked, Awaiting, Over, ReadError
<1>8. ASSUME NEW q \in Requests PROVE LiveOK(q)'
  BY DEF IInv, TypeOK, LiveOK, Live, Awaiting, Over, ReadError
<1> QED
  BY <1>1, <1>2, <1>3, <1>4, <1>5, <1>6, <1>7, <1>8 DEF IInv

\* A step of StreamEnds keeps IInv.
LEMMA StreamEndsIInv ==
  ASSUME IInv, NEW r \in Requests, StreamEnds(r)
  PROVE  IInv'
<1> USE LengthsAssumption, NoneAssumption
<1>1. TypeOK'
  BY DEF IInv, TypeOK, Awaiting, Over, ChatTurn, Question, StreamEnds, Settle
<1>2. AnswersBelong'
  BY DEF IInv, TypeOK, AnswersBelong, Tokens, Question, Awaiting, Over, StreamEnds, Settle
<1>3. CompleteAnswers'
  <2>1. PICK k \in Asked :
            /\ turns[k] = Question(r)
            /\ got[r] > 0 => /\ Len(turns) = k + 1
                             /\ turns[Len(turns)].role = "assistant"
                             /\ turns[Len(turns)].of = r
    BY LastQuestion DEF StreamEnds, Live, Awaiting
  <2>2. turns' = turns /\ got' = got /\ wire' = wire /\ got[r] = wire[r].sent
    BY DEF StreamEnds
  <2>3. ASSUME NEW q \in Requests, NEW i \in DOMAIN turns,
               pc'[q] = "complete", got[q] > 0, turns[i] = Question(q)
        PROVE  i < Len(turns) /\ turns[i + 1] = Assistant(q, Tokens(q, 0, wire[q].sent))
    <3>1. CASE q # r
      BY <2>3, <3>1 DEF IInv, TypeOK, CompleteAnswers, StreamEnds, Settle
    <3>2. CASE q = r
      <4>1. i = k
        BY <2>1, <2>3, <3>2 DEF IInv, AskedOnce, Asked, Question
      <4>2. /\ i + 1 = Len(turns) /\ Len(turns) \in DOMAIN turns
            /\ turns[i + 1].role = "assistant" /\ turns[i + 1].of = r
        BY <2>1, <2>3, <3>2, <4>1 DEF IInv, TypeOK
      <4>3. turns[i + 1].content = Tokens(r, 0, got[r])
        BY <4>2 DEF IInv, AnswersBelong
      <4> QED
        BY <2>2, <3>2, <4>2, <4>3, TurnFacts DEF IInv
    <3> QED
      BY <3>1, <3>2
  <2> QED
    BY <2>2, <2>3 DEF CompleteAnswers
<1>4. ErrorIsCurrent'
  BY DEF IInv, TypeOK, ErrorIsCurrent, Asked, StreamEnds, Settle
<1>5. RefusedForLength'
  BY DEF IInv, TypeOK, RefusedForLength, StreamEnds, Settle
<1>6. BusyMeansStoppable'
  BY DEF IInv, TypeOK, BusyMeansStoppable, Live, Awaiting, Over, StreamEnds, Settle
<1>7. AskedOnce'
  BY DEF IInv, TypeOK, AskedOnce, Asked, Awaiting, Over, StreamEnds, Settle
<1>8. ASSUME NEW q \in Requests PROVE LiveOK(q)'
  BY DEF IInv, TypeOK, LiveOK, Live, Awaiting, Over, StreamEnds, Settle
<1> QED
  BY <1>1, <1>2, <1>3, <1>4, <1>5, <1>6, <1>7, <1>8 DEF IInv

\* A step of StreamBreaks keeps IInv.
LEMMA StreamBreaksIInv ==
  ASSUME IInv, NEW r \in Requests, StreamBreaks(r)
  PROVE  IInv'
<1> USE LengthsAssumption, NoneAssumption
<1>1. TypeOK'
  BY DEF IInv, TypeOK, Awaiting, Over, ChatTurn, Question, StreamBreaks, Settle
<1>2. AnswersBelong'
  BY DEF IInv, TypeOK, AnswersBelong, Tokens, Question, Awaiting, Over, StreamBreaks, Settle
<1>3. CompleteAnswers'
  BY DEF IInv, TypeOK, CompleteAnswers, Tokens, Question, Assistant, Awaiting, Over, StreamBreaks, Settle
<1>4. ErrorIsCurrent'
  <2>1. Asked' = Asked /\ turns' = turns /\ error' = r
    BY DEF Asked, StreamBreaks
  <2>2. PICK i \in Asked : turns[i] = Question(r) /\ \A j \in Asked : j <= i
    BY LastQuestion DEF StreamBreaks, Live, Awaiting
  <2> QED
    BY <2>1, <2>2 DEF ErrorIsCurrent, Question
<1>5. RefusedForLength'
  BY DEF IInv, TypeOK, RefusedForLength, StreamBreaks, Settle
<1>6. BusyMeansStoppable'
  BY DEF IInv, TypeOK, BusyMeansStoppable, Live, Awaiting, Over, StreamBreaks, Settle
<1>7. AskedOnce'
  BY DEF IInv, TypeOK, AskedOnce, Asked, Awaiting, Over, StreamBreaks, Settle
<1>8. ASSUME NEW q \in Requests PROVE LiveOK(q)'
  BY DEF IInv, TypeOK, LiveOK, Live, Awaiting, Over, StreamBreaks, Settle
<1> QED
  BY <1>1, <1>2, <1>3, <1>4, <1>5, <1>6, <1>7, <1>8 DEF IInv

\* A step of HandleStop keeps IInv.
LEMMA HandleStopIInv ==
  ASSUME IInv, HandleStop
  PROVE  IInv'
<1> USE LengthsAssumption, NoneAssumption
<1>1. TypeOK'
  BY DEF IInv, TypeOK, Awaiting, Over, ChatTurn, Question, HandleStop, Abort
<1>2. AnswersBelong'
  BY DEF IInv, TypeOK, AnswersBelong, Tokens, Question, Awaiting, Over, HandleStop, Abort
<1>3. CompleteAnswers'
  BY DEF IInv, TypeOK, CompleteAnswers, Tokens, Question, Assistant, Awaiting, Over, HandleStop, Abort
<1>4. ErrorIsCurrent'
  BY DEF IInv, TypeOK, ErrorIsCurrent, Asked, HandleStop, Abort
<1>5. RefusedForLength'
  BY DEF IInv, TypeOK, RefusedForLength, HandleStop, Abort
<1>6. BusyMeansStoppable'
  BY DEF IInv, TypeOK, BusyMeansStoppable, Live, Awaiting, Over, HandleStop, Abort
<1>7. AskedOnce'
  <2>1. Asked' = Asked /\ turns' = turns
    BY DEF Asked, HandleStop, Abort
  <2>2. ASSUME NEW q \in Requests PROVE pc'[q] = "new" => pc[q] = "new"
    BY DEF IInv, TypeOK, Awaiting, Over, HandleStop, Abort
  <2>3. \A i \in Asked : turns[i].of \in Requests
    BY TurnFacts DEF IInv, Asked
  <2> QED
    BY <2>1, <2>2, <2>3 DEF IInv, AskedOnce, Asked, HandleStop, Abort
<1>8. ASSUME NEW q \in Requests PROVE LiveOK(q)'
  BY DEF IInv, TypeOK, LiveOK, Live, Awaiting, Over, HandleStop, Abort
<1> QED
  BY <1>1, <1>2, <1>3, <1>4, <1>5, <1>6, <1>7, <1>8 DEF IInv

\* A step of HandleReset keeps IInv.
LEMMA HandleResetIInv ==
  ASSUME IInv, HandleReset
  PROVE  IInv'
<1> USE LengthsAssumption, NoneAssumption
<1>1. TypeOK'
  BY DEF IInv, TypeOK, Awaiting, Over, ChatTurn, Question, HandleReset, Abort
<1>2. AnswersBelong'
  BY DEF IInv, TypeOK, AnswersBelong, Tokens, Question, Awaiting, Over, HandleReset, Abort
<1>3. CompleteAnswers'
  BY DEF IInv, TypeOK, CompleteAnswers, Tokens, Question, Assistant, Awaiting, Over, HandleReset, Abort
<1>4. ErrorIsCurrent'
  BY DEF IInv, TypeOK, ErrorIsCurrent, Asked, HandleReset, Abort
<1>5. RefusedForLength'
  BY DEF IInv, TypeOK, RefusedForLength, HandleReset, Abort
<1>6. BusyMeansStoppable'
  BY DEF IInv, TypeOK, BusyMeansStoppable, Live, Awaiting, Over, HandleReset, Abort
<1>7. AskedOnce'
  BY DEF IInv, TypeOK, AskedOnce, Asked, Awaiting, Over, HandleReset, Abort
<1>8. ASSUME NEW q \in Requests PROVE LiveOK(q)'
  <2>1. ~Live(q)'
    BY DEF IInv, TypeOK, BusyMeansStoppable, Live, Awaiting, HandleReset, Abort
  <2> QED
    BY <2>1 DEF LiveOK
<1> QED
  BY <1>1, <1>2, <1>3, <1>4, <1>5, <1>6, <1>7, <1>8 DEF IInv

\* A step of SendToken keeps IInv.
LEMMA SendTokenIInv ==
  ASSUME IInv, NEW r \in Requests, SendToken(r)
  PROVE  IInv'
<1> USE LengthsAssumption, NoneAssumption
<1>1. TypeOK'
  <2>1. wire[r] \in Stream /\ AnswerLength \in Nat
    BY DEF IInv, TypeOK, AnswerLength
  <2>2. [wire[r] EXCEPT !.sent = @ + 1] \in Stream
    BY <2>1 DEF Stream, SendToken
  <2>3. wire' = [wire EXCEPT ![r] = [wire[r] EXCEPT !.sent = @ + 1]]
    BY DEF IInv, TypeOK, SendToken
  <2> QED
    BY <2>2, <2>3 DEF IInv, TypeOK, SendToken
<1>2. AnswersBelong'
  BY DEF IInv, TypeOK, AnswersBelong, Tokens, Question, Awaiting, Over, SendToken
<1>3. CompleteAnswers'
  BY DEF IInv, TypeOK, CompleteAnswers, Tokens, Question, Assistant, Awaiting, Over, SendToken
<1>4. ErrorIsCurrent'
  BY DEF IInv, TypeOK, ErrorIsCurrent, Asked, SendToken
<1>5. RefusedForLength'
  BY DEF IInv, TypeOK, RefusedForLength, SendToken
<1>6. BusyMeansStoppable'
  BY DEF IInv, TypeOK, BusyMeansStoppable, Live, Awaiting, Over, SendToken
<1>7. AskedOnce'
  BY DEF IInv, TypeOK, AskedOnce, Asked, Awaiting, Over, SendToken
<1>8. ASSUME NEW q \in Requests PROVE LiveOK(q)'
  BY DEF IInv, TypeOK, LiveOK, Live, Awaiting, Over, SendToken
<1> QED
  BY <1>1, <1>2, <1>3, <1>4, <1>5, <1>6, <1>7, <1>8 DEF IInv

\* A step of SendEnd keeps IInv.
LEMMA SendEndIInv ==
  ASSUME IInv, NEW r \in Requests, SendEnd(r)
  PROVE  IInv'
<1> USE LengthsAssumption, NoneAssumption
<1>1. TypeOK'
  <2>1. wire[r] \in Stream
    BY DEF IInv, TypeOK
  <2>2. PICK last \in {"ended", "error"} : wire' = [wire EXCEPT ![r].state = last]
    BY DEF SendEnd
  <2>3. [wire[r] EXCEPT !.state = last] \in Stream
    BY <2>1 DEF Stream
  <2>4. wire' = [wire EXCEPT ![r] = [wire[r] EXCEPT !.state = last]]
    BY <2>2 DEF IInv, TypeOK
  <2> QED
    BY <2>3, <2>4 DEF IInv, TypeOK, SendEnd
<1>2. AnswersBelong'
  BY DEF IInv, TypeOK, AnswersBelong, Tokens, Question, Awaiting, Over, SendEnd
<1>3. CompleteAnswers'
  BY DEF IInv, TypeOK, CompleteAnswers, Tokens, Question, Assistant, Awaiting, Over, SendEnd
<1>4. ErrorIsCurrent'
  BY DEF IInv, TypeOK, ErrorIsCurrent, Asked, SendEnd
<1>5. RefusedForLength'
  BY DEF IInv, TypeOK, RefusedForLength, SendEnd
<1>6. BusyMeansStoppable'
  BY DEF IInv, TypeOK, BusyMeansStoppable, Live, Awaiting, Over, SendEnd
<1>7. AskedOnce'
  BY DEF IInv, TypeOK, AskedOnce, Asked, Awaiting, Over, SendEnd
<1>8. ASSUME NEW q \in Requests PROVE LiveOK(q)'
  BY DEF IInv, TypeOK, LiveOK, Live, Awaiting, Over, SendEnd
<1> QED
  BY <1>1, <1>2, <1>3, <1>4, <1>5, <1>6, <1>7, <1>8 DEF IInv
\* The box starts empty and idle.
LEMMA InitIInv == Init => IInv
<1> SUFFICES ASSUME Init PROVE IInv
  OBVIOUS
<1> USE LengthsAssumption, NoneAssumption
<1>1. AnswerLength \in Nat
  BY DEF AnswerLength
<1>2. TypeOK
  <2>1. [sent |-> 0, state |-> "open", valid |-> TRUE] \in Stream
    BY <1>1 DEF Stream
  <2> QED
    BY <1>1, <2>1 DEF Init, TypeOK
<1>3. DOMAIN turns = {} /\ Asked = {}
  BY DEF Init, Asked
<1>4. \A r \in Requests : ~Live(r)
  BY DEF Init, Live, Awaiting
<1>5. AnswersBelong /\ CompleteAnswers /\ ErrorIsCurrent
  BY <1>3 DEF Init, AnswersBelong, CompleteAnswers, ErrorIsCurrent
<1>6. RefusedForLength
  BY DEF Init, RefusedForLength
<1>7. BusyMeansStoppable
  BY <1>4 DEF Init, BusyMeansStoppable
<1>8. AskedOnce /\ \A r \in Requests : LiveOK(r)
  BY <1>3, <1>4 DEF Init, AskedOnce, LiveOK
<1> QED
  BY <1>2, <1>5, <1>6, <1>7, <1>8 DEF IInv

\* Every step of the box and of the server keeps the invariant, and so does
\* a step of neither.
LEMMA NextIInv == IInv /\ [Next]_vars => IInv'
<1> SUFFICES ASSUME IInv, [Next]_vars PROVE IInv'
  OBVIOUS
<1>1. CASE UNCHANGED vars
  BY <1>1 DEF vars, IInv, TypeOK, AnswersBelong, CompleteAnswers, ErrorIsCurrent,
              RefusedForLength, BusyMeansStoppable, AskedOnce, Asked, LiveOK, Live
<1>2. CASE HandleStop \/ HandleReset
  BY <1>2, HandleStopIInv, HandleResetIInv
<1>3. ASSUME NEW r \in Requests, Submit(r) \/ StreamBreaks(r) PROVE IInv'
  BY <1>3, SubmitIInv, StreamBreaksIInv
<1>4. ASSUME NEW r \in Requests, Answer(r) PROVE IInv'
  BY <1>4, ResponseIInv, FailIInv, ReadChunkIInv, ReadErrorIInv, StreamEndsIInv,
     SendTokenIInv, SendEndIInv DEF Answer
<1> QED
  BY <1>1, <1>2, <1>3, <1>4 DEF Next

\* What the box, the requests and the turns may rely on, at every step.
THEOREM Invariant == Spec => []IInv
<1>1. Init => IInv
  BY InitIInv
<1>2. IInv /\ [Next]_vars => IInv'
  BY NextIInv
<1> QED
  BY <1>1, <1>2, PTL DEF Spec

\* Requests, streams and component state keep their shape.
THEOREM TypeCorrect == Spec => []TypeOK
<1>1. IInv => TypeOK
  BY DEF IInv
<1> QED
  BY <1>1, Invariant, PTL

\* No order of clicks and chunks puts an answer behind another's question.
THEOREM AnswersStayTheirs == Spec => []AnswersBelong
<1>1. IInv => AnswersBelong
  BY DEF IInv
<1> QED
  BY <1>1, Invariant, PTL

\* An answer read to its end is shown whole.
THEOREM AnswersWhole == Spec => []CompleteAnswers
<1>1. IInv => CompleteAnswers
  BY DEF IInv
<1> QED
  BY <1>1, Invariant, PTL

\* The request that is out is the one Stop and Clear abort.
THEOREM StopReaches == Spec => []BusyMeansStoppable
<1>1. IInv => BusyMeansStoppable
  BY DEF IInv
<1> QED
  BY <1>1, Invariant, PTL

\* The error shown belongs to the last question shown.
THEOREM ErrorsAreCurrent == Spec => []ErrorIsCurrent
<1>1. IInv => ErrorIsCurrent
  BY DEF IInv
<1> QED
  BY <1>1, Invariant, PTL

\* Whatever MAX_HISTORY is, up to the API's limit, the number of turns is never
\* why a question is refused.
THEOREM OnlyLengthRefused == Spec => []RefusedForLength
<1>1. IInv => RefusedForLength
  BY DEF IInv
<1> QED
  BY <1>1, Invariant, PTL

\* How much is left is a number.
LEMMA LeftType == ASSUME IInv, NEW r \in Requests PROVE Left(r) \in Nat
<1>1. AnswerLength \in Nat
  BY LengthsAssumption DEF AnswerLength
<1>2. /\ wire[r].sent \in 0 .. AnswerLength /\ got[r] \in 0 .. AnswerLength
      /\ wire[r].state \in {"open", "error", "ended"}
  BY DEF IInv, TypeOK, Stream
<1> QED
  BY <1>1, <1>2 DEF Left

\* A step of the answer to r leaves less of it.
LEMMA AnswerLeft ==
    ASSUME IInv, NEW r \in Requests, Answer(r), Live(r)'
    PROVE  Left(r)' < Left(r)
<1>1. AnswerLength \in Nat
  BY LengthsAssumption DEF AnswerLength
<1>2. /\ wire[r].sent \in 0 .. AnswerLength /\ got[r] \in 0 .. AnswerLength
      /\ wire[r].state \in {"open", "error", "ended"}
      /\ pc \in [Requests -> {"new"} \cup Awaiting \cup Over]
      /\ wire \in [Requests -> Stream] /\ got \in [Requests -> 0 .. AnswerLength]
      /\ wire[r] \in Stream
  BY DEF IInv, TypeOK, Stream
<1>3. CASE Response(r)
  <2>1. /\ pc[r] = "fetch" /\ pc'[r] \in {"read", "refusal"}
        /\ wire' = wire /\ got' = got
    BY <1>2, <1>3 DEF Response
  <2>2. Left(r) = 2 * AnswerLength + 3
    BY <2>1 DEF Left
  <2>3. Left(r)' <= 2 * AnswerLength + 2
    BY <1>1, <1>2, <2>1 DEF Left
  <2>4. Left(r)' \in Int
    BY <1>1, <1>2, <2>1 DEF Left
  <2> QED
    BY <1>1, <2>2, <2>3, <2>4
<1>4. CASE Fail(r) \/ StreamEnds(r)
  BY <1>2, <1>4 DEF Fail, StreamEnds, Settle, Live, Awaiting
<1>5. ASSUME NEW to \in 1 .. AnswerLength, ReadChunk(r, to)
      PROVE  Left(r)' < Left(r)
  <2>1. pc[r] = "read" /\ pc' = pc /\ wire' = wire /\ got'[r] = to
    BY <1>2, <1>5 DEF ReadChunk
  <2>2. to \in Nat /\ got[r] < to
    BY <1>1, <1>2, <1>5 DEF ReadChunk
  <2> QED
    BY <1>1, <1>2, <2>1, <2>2 DEF Left
<1>6. CASE ReadError(r)
  <2>1. /\ pc[r] = "read" /\ pc' = pc /\ got' = got
        /\ wire[r].state = "error" /\ wire'[r].state = "ended"
    BY <1>2, <1>6 DEF ReadError, Stream
  <2> QED
    BY <1>1, <1>2, <2>1 DEF Left
<1>7. CASE SendToken(r)
  <2>1. /\ pc[r] = "read" /\ pc' = pc /\ got' = got
        /\ wire[r].state = "open" /\ wire'[r].state = "open"
        /\ wire'[r].sent = wire[r].sent + 1
    BY <1>2, <1>7 DEF SendToken, Stream
  <2> QED
    BY <1>1, <1>2, <2>1 DEF Left
<1>8. CASE SendEnd(r)
  <2>1. /\ pc[r] = "read" /\ pc' = pc /\ got' = got
        /\ wire[r].state = "open" /\ wire'[r].state \in {"ended", "error"}
    BY <1>2, <1>8 DEF SendEnd, Stream
  <2> QED
    BY <1>1, <1>2, <2>1 DEF Left
<1> QED
  BY <1>3, <1>4, <1>5, <1>6, <1>7, <1>8 DEF Answer

\* While a question is out, every step ends it or leaves less of its answer, of
\* which there is never less than nothing: with whatever clicks between, the box
\* is busy for 2 * AnswerLength + 4 steps at most.
THEOREM AnswersCountDown == Spec => AnswerCountsDown /\ [](\A r \in Requests : Left(r) \in Nat)
<1>1. ASSUME IInv, [Next]_vars, NEW r \in Requests, Live(r), Live(r)'
      PROVE  Left(r)' < Left(r) \/ UNCHANGED vars
  <2>1. abortRef = r /\ status # "idle" /\ \A q \in Requests : Live(q) => q = r
    BY <1>1, NoneAssumption DEF IInv, BusyMeansStoppable
  <2>2. pc \in [Requests -> {"new"} \cup Awaiting \cup Over]
    BY <1>1 DEF IInv, TypeOK
  <2>3. CASE HandleStop \/ HandleReset
    BY <1>1, <2>1, <2>2, <2>3, NoneAssumption DEF HandleStop, HandleReset, Abort, Live, Awaiting
  <2>4. ASSUME NEW q \in Requests, Submit(q) PROVE FALSE
    BY <2>1, <2>4 DEF Submit, MaySubmit
  <2>5. ASSUME NEW q \in Requests, Answer(q) \/ StreamBreaks(q) PROVE q = r
    <3>1. Live(q)
      BY <2>5 DEF Answer, StreamBreaks, Response, Fail, ReadChunk, ReadError, StreamEnds,
                  SendToken, SendEnd, Live, Awaiting
    <3> QED
      BY <2>1, <3>1
  <2>6. ~StreamBreaks(r)
    BY <1>1, <2>2 DEF StreamBreaks, Settle, Live, Awaiting
  <2>7. Answer(r) => Left(r)' < Left(r)
    BY <1>1, AnswerLeft
  <2> QED
    BY <1>1, <2>3, <2>4, <2>5, <2>6, <2>7 DEF Next
<1>2. IInv /\ [Next]_vars =>
        [\A r \in Requests : Live(r) /\ Live(r)' => Left(r)' < Left(r)]_vars
  BY <1>1
<1>3. IInv => \A r \in Requests : Left(r) \in Nat
  BY LeftType
<1> QED
  BY <1>2, <1>3, Invariant, PTL DEF Spec, AnswerCountsDown
=============================================================================
