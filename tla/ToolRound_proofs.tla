-------------------------- MODULE ToolRound_proofs --------------------------
(***************************************************************************)
(* ToolRound: the calls put together from fragments are the calls that     *)
(* were made, and queries answer what they were asked, for any number of   *)
(* calls, pieces, tables and queries and any cap on rows.                  *)
(***************************************************************************)
EXTENDS ToolRound, TLAPS

USE RoundAssumption

----------------------------------------------------------------------------
(* The pieces of a call. *)

\* A call's pieces are a sequence of pieces; none are the empty sequence.
LEMMA SentType ==
    ASSUME NEW i \in Indexes, NEW k \in 0 .. MaxPieces
    PROVE  /\ Sent(i, k) \in Seq(Pieces)
           /\ DOMAIN Sent(i, k) = 1 .. k
           /\ Len(Sent(i, k)) = k
           /\ \A place \in 1 .. k : Sent(i, k)[place] = [call |-> i, place |-> place]
<1>1. k \in Nat
  OBVIOUS
<1>2. \A place \in 1 .. k : [call |-> i, place |-> place] \in Pieces
  BY DEF Pieces
<1>3. Sent(i, k) \in [1 .. k -> Pieces]
  BY <1>2 DEF Sent
<1>4. Sent(i, k) \in Seq(Pieces)
  BY <1>1, <1>3
<1>5. DOMAIN Sent(i, k) = 1 .. k
  BY DEF Sent
<1>6. Len(Sent(i, k)) = k
  BY <1>1, <1>4, <1>5
<1> QED
  BY <1>4, <1>5, <1>6 DEF Sent

\* Before the first event nothing has been sent.
LEMMA SentEmpty == ASSUME NEW i \in Indexes PROVE Sent(i, 0) = <<>>
<1>1. 0 \in 0 .. MaxPieces
  OBVIOUS
<1>2. Sent(i, 0) \in Seq(Pieces) /\ Len(Sent(i, 0)) = 0
  BY <1>1, SentType
<1> QED
  BY <1>2

\* The next piece makes them one more.
LEMMA SentNext ==
    ASSUME NEW i \in Indexes, NEW k \in 0 .. MaxPieces, k < MaxPieces
    PROVE  Sent(i, k) \o <<[call |-> i, place |-> k + 1]>> = Sent(i, k + 1)
<1>1. k + 1 \in 0 .. MaxPieces /\ k \in Nat
  OBVIOUS
<1>2. [call |-> i, place |-> k + 1] \in Pieces
  BY DEF Pieces
<1> DEFINE s == Sent(i, k)
           p == [call |-> i, place |-> k + 1]
           t == Sent(i, k + 1)
<1>3. /\ s \in Seq(Pieces) /\ Len(s) = k /\ t \in Seq(Pieces) /\ Len(t) = k + 1
      /\ \A n \in 1 .. k : s[n] = [call |-> i, place |-> n]
      /\ \A n \in 1 .. k + 1 : t[n] = [call |-> i, place |-> n]
  BY <1>1, SentType
<1>4. p \in Pieces /\ t[k + 1] = p /\ \A n \in 1 .. k : t[n] = s[n]
  <2>1. k + 1 \in 1 .. k + 1 /\ \A n \in 1 .. k : n \in 1 .. k + 1
    BY <1>1
  <2> QED
    BY <1>2, <1>3, <2>1
<1> HIDE DEF s, t, p
<1>5. s \o <<p>> \in Seq(Pieces) /\ Len(s \o <<p>>) = k + 1
  BY <1>1, <1>3, <1>4
<1>6. \A n \in 1 .. k + 1 : (s \o <<p>>)[n] = t[n]
  BY <1>1, <1>3, <1>4
<1>7. s \o <<p>> = t
  BY <1>1, <1>3, <1>5, <1>6
<1> QED
  BY <1>7 DEF s, t, p

\* Pieces that are all of some call's are that call's.
LEMMA SentWhole ==
    ASSUME NEW i \in Indexes, NEW k \in 0 .. MaxPieces, NEW j \in Indexes, NEW m \in 0 .. MaxPieces,
           Sent(i, k) = Sent(j, m)
    PROVE  k = m /\ (k # 0 => i = j)
<1>1. k = m
  BY SentType
<1>2. ASSUME k # 0 PROVE i = j
  <2>1. 1 \in 1 .. k /\ 1 \in 1 .. m
    BY <1>1, <1>2
  <2>2. Sent(i, k)[1] = [call |-> i, place |-> 1] /\ Sent(j, m)[1] = [call |-> j, place |-> 1]
    BY <2>1, SentType
  <2>3. [call |-> i, place |-> 1].call = [call |-> j, place |-> 1].call
    BY <2>2
  <2> QED
    BY <2>3
<1> QED
  BY <1>1, <1>2

\* A piece adds to the arguments and leaves the rest.
LEMMA MergedPiece ==
    ASSUME NEW e, NEW f, f.id = 0, f.name = NoName
    PROVE  Merged(e, f) = [index |-> e.index, id |-> e.id, name |-> e.name, arguments |-> e.arguments \o f.arguments]
  BY Zenon DEF Merged

\* A sequence and one element more.
LEMMA AppendFacts ==
    ASSUME NEW S, NEW s \in Seq(S), NEW e \in S
    PROVE  /\ Append(s, e) \in Seq(S) /\ Len(Append(s, e)) = Len(s) + 1 /\ Len(s) \in Nat
           /\ DOMAIN s = 1 .. Len(s) /\ DOMAIN Append(s, e) = 1 .. Len(s) + 1
           /\ Append(s, e)[Len(s) + 1] = e
           /\ \A n \in 1 .. Len(s) : Append(s, e)[n] = s[n]
<1>1. Append(s, e) \in Seq(S) /\ Len(Append(s, e)) = Len(s) + 1 /\ Len(s) \in Nat
  OBVIOUS
<1>2. DOMAIN Append(s, e) = 1 .. Len(s) + 1 /\ DOMAIN s = 1 .. Len(s)
  BY <1>1
<1>3. Append(s, e)[Len(s) + 1] = e /\ \A n \in 1 .. Len(s) : Append(s, e)[n] = s[n]
  OBVIOUS
<1> QED
  BY <1>1, <1>2, <1>3

----------------------------------------------------------------------------
(* The stream. *)

\* No name is not a tool's name.
LEMMA NoNameIsNone == NoName \notin Names
  BY Zenon DEF NoName, Names, Tools

\* The types of the parts of the state.
LEMMA Types ==
    ASSUME IInv
    PROVE  /\ pc \in PCs
           /\ made \in [Indexes -> Made]
           /\ came \in Seq(Indexes) /\ entries \in Seq(Entry)
           /\ calls \in Seq(ToolCall) /\ results \in Seq(Message)
  BY Zenon DEF IInv, TypeOK
\* The parts of IInv, each by its name.
LEMMA Parts == ASSUME IInv PROVE MadeOK /\ EntriesOK /\ CallsOK /\ NoGuessedArguments
  BY Zenon DEF IInv

\* What is known of one call.
LEMMA MadeFacts ==
    ASSUME IInv, NEW i \in Indexes
    PROVE  /\ made[i].sent \in 0 .. MaxPieces /\ made[i].pieces \in 0 .. MaxPieces
           /\ made[i].name \in Names \cup {NoName} /\ i # 0
           /\ made[i].sent < made[i].pieces => made[i].name # NoName
<1>1. made[i] \in Made
  BY Types
<1>2. made[i].sent \in 0 .. MaxPieces /\ made[i].pieces \in 0 .. MaxPieces /\ made[i].name \in Names \cup {NoName}
  BY <1>1 DEF Made
<1>3. made[i].name = NoName => made[i].sent = 0 /\ made[i].pieces = 0
  BY Parts DEF MadeOK, NotMade
<1>4. i # 0
  BY DEF Indexes
<1> QED
  BY <1>2, <1>3, <1>4

\* An entry that is built from a call's pieces is an entry.
LEMMA BuiltType == ASSUME IInv, NEW i \in Indexes PROVE Built(i) \in Entry
  BY MadeFacts, SentType DEF Built, Entry

\* An entry built from the pieces keeps its index.
LEMMA BuiltFields == ASSUME NEW i PROVE Built(i).index = i
<1>1. Built(i) = [index |-> i, id |-> i, name |-> made[i].name, arguments |-> Sent(i, made[i].sent)]
  BY Zenon DEF Built
<1> HIDE DEF Sent
<1> QED
  BY <1>1

\* Which indexes have entries.
LEMMA PresentFacts ==
    ASSUME IInv, NEW i \in Indexes
    PROVE  /\ Len(came) \in Nat /\ DOMAIN came = 1 .. Len(came) /\ DOMAIN entries = 1 .. Len(came)
           /\ \A n \in DOMAIN came : came[n] \in Indexes /\ entries[n] = Built(came[n])
           /\ Present(i) <=> made[i].name # NoName
           /\ Present(i) <=> \E n \in DOMAIN came : came[n] = i
<1>1. Len(came) \in Nat /\ DOMAIN came = 1 .. Len(came) /\ DOMAIN entries = 1 .. Len(came)
  BY Types, Parts DEF EntriesOK
<1>2. \A n \in DOMAIN came : came[n] \in Indexes
  BY Types
<1>3. \A n \in DOMAIN came : entries[n] = Built(came[n])
  BY <1>1, Parts DEF EntriesOK
<1>4. \A n \in DOMAIN came : entries[n].index = came[n]
  BY <1>3, BuiltFields
<1>5. Present(i) <=> \E n \in DOMAIN came : came[n] = i
  BY <1>1, <1>4 DEF Present
<1> QED
  BY <1>1, <1>2, <1>3, <1>5, Parts DEF MadeOK

\* A call's first fragment appends its entry.
LEMMA SendBeginIInv ==
    ASSUME IInv, NEW i \in Indexes, NEW name \in Names, NEW pieces \in 0 .. MaxPieces,
           SendBegin(i, name, pieces)
    PROVE  IInv'
<1>1. /\ made[i] = NotMade /\ pc = "stream" /\ name # NoName
      /\ made' = [made EXCEPT ![i] = [name |-> name, pieces |-> pieces, sent |-> 0]]
      /\ came' = Append(came, i) /\ UNCHANGED <<pc, calls, results>>
      /\ entries' = Accumulated(i, Begin(i, name))
  BY NoNameIsNone DEF SendBegin
<1>2. /\ Len(came) \in Nat /\ DOMAIN came = 1 .. Len(came) /\ DOMAIN entries = 1 .. Len(came)
      /\ \A n \in DOMAIN came : came[n] \in Indexes /\ came[n] # i /\ entries[n] = Built(came[n])
      /\ ~Present(i)
  BY <1>1, PresentFacts DEF NotMade
<1>3. /\ DOMAIN came' = 1 .. Len(came) + 1 /\ Len(came') = Len(came) + 1
      /\ came'[Len(came) + 1] = i
      /\ \A n \in 1 .. Len(came) : came'[n] = came[n]
      /\ came' \in Seq(Indexes)
  BY <1>1, AppendFacts, Types
<1>4. /\ made'[i] = [name |-> name, pieces |-> pieces, sent |-> 0]
      /\ \A j \in Indexes \ {i} : made'[j] = made[j]
      /\ made' \in [Indexes -> Made]
  <2>1. [name |-> name, pieces |-> pieces, sent |-> 0] \in Made
    BY DEF Made
  <2> QED
    BY <1>1, <2>1, Types
<1> DEFINE built(j) == [index |-> j, id |-> j, name |-> made'[j].name, arguments |-> Sent(j, made'[j].sent)]
           new == [index |-> i, id |-> 0, name |-> NoName, arguments |-> <<>>]
<1>5. new \in Entry /\ entries \in Seq(Entry) /\ Len(entries) = Len(came)
  BY Types, Parts DEF Entry, EntriesOK
<1>6. WithEntry(i) = Append(entries, new)
  BY <1>2 DEF WithEntry
<1> HIDE DEF new
<1>7. /\ DOMAIN WithEntry(i) = 1 .. Len(came) + 1
      /\ WithEntry(i)[Len(came) + 1] = new
      /\ \A n \in 1 .. Len(came) : WithEntry(i)[n] = entries[n]
  BY <1>5, <1>6, AppendFacts
<1>8. Merged(new, Begin(i, name)) = [index |-> i, id |-> i, name |-> name, arguments |-> <<>> \o <<>>]
  BY <1>1, MadeFacts DEF new, Merged, Begin
<1>9. built(i) = [index |-> i, id |-> i, name |-> name, arguments |-> <<>>]
  BY <1>4, SentEmpty
<1>10. \A n \in 1 .. Len(came) : built(came[n]) = Built(came[n])
  BY <1>2, <1>3, <1>4 DEF Built
<1>11. DOMAIN entries' = 1 .. Len(came) + 1
  BY <1>1, <1>7 DEF Accumulated
<1>12. ASSUME NEW n \in 1 .. Len(came) + 1 PROVE entries'[n] = built(came'[n])
  <2>1. CASE n = Len(came) + 1
    <3>1. entries'[n] = Merged(new, Begin(i, name))
      BY <1>1, <1>7, <2>1 DEF Accumulated, new
    <3>2. <<>> \o <<>> = <<>>
      OBVIOUS
    <3> QED
      BY <1>3, <1>8, <1>9, <2>1, <3>1, <3>2
  <2>2. CASE n # Len(came) + 1
    <3>1. n \in 1 .. Len(came)
      BY <1>2, <2>2
    <3>2. entries[n].index # i /\ entries[n] = Built(came[n])
      BY <1>2, <3>1 DEF Built
    <3>3. entries'[n] = entries[n]
      BY <1>1, <1>7, <3>1, <3>2 DEF Accumulated
    <3> QED
      BY <1>3, <1>10, <3>1, <3>2, <3>3
  <2> QED
    BY <2>1, <2>2
<1>13. \A n \in 1 .. Len(came) + 1 : entries'[n] \in Entry
  <2>1. \A j \in Indexes : built(j) \in Entry
    <3> SUFFICES ASSUME NEW j \in Indexes PROVE built(j) \in Entry
      OBVIOUS
    <3>1. made'[j].sent \in 0 .. MaxPieces /\ made'[j].name \in Names \cup {NoName}
      BY <1>4 DEF Made
    <3> QED
      BY <3>1, SentType DEF Entry
  <2> HIDE DEF built
  <2>2. \A n \in 1 .. Len(came) + 1 : came'[n] \in Indexes
    BY <1>3
  <2> QED
    BY <1>12, <2>1, <2>2
<1>14. entries' \in Seq(Entry) /\ Len(entries') = Len(came) + 1
  <2>1. entries' = [n \in 1 .. Len(came) + 1 |-> entries'[n]]
    BY <1>1, <1>7, <1>11 DEF Accumulated
  <2> QED
    BY <1>2, <1>13, <2>1
<1>15. TypeOK'
  BY <1>1, <1>3, <1>4, <1>14, Types DEF TypeOK
<1>16. MadeOK'
  <2>1. \A j \in Indexes : made'[j].sent <= made'[j].pieces
    BY <1>4, Parts DEF MadeOK
  <2>2. \A j \in Indexes : made'[j].name = NoName => made'[j] = NotMade
    BY <1>1, <1>4, Parts DEF MadeOK
  <2>3. ASSUME NEW j \in Indexes PROVE made'[j].name # NoName <=> \E n \in DOMAIN came' : came'[n] = j
    <3>1. CASE j = i
      BY <1>1, <1>2, <1>3, <1>4, <3>1
    <3>2. CASE j # i
      BY <1>2, <1>3, <1>4, <3>2, Parts DEF MadeOK
    <3> QED
      BY <3>1, <3>2
  <2>4. ASSUME NEW m \in DOMAIN came', NEW n \in DOMAIN came', came'[m] = came'[n] PROVE m = n
    BY <1>2, <1>3, <2>4, Parts DEF MadeOK
  <2> QED
    BY <2>1, <2>2, <2>3, <2>4 DEF MadeOK
<1>17. EntriesOK'
  <2>1. \A n \in 1 .. Len(came) + 1 : entries'[n] = Built(came[n])'
    BY <1>12, Zenon DEF Built
  <2> QED
    BY <1>3, <1>11, <1>14, <2>1 DEF EntriesOK
<1>18. CallsOK' /\ NoGuessedArguments'
  BY <1>1, Parts DEF CallsOK, NoGuessedArguments
<1> QED
  BY <1>15, <1>16, <1>17, <1>18 DEF IInv

\* Any other fragment adds its piece to its call's entry, whatever came
\* between.
LEMMA SendPieceIInv == ASSUME IInv, NEW i \in Indexes, SendPiece(i) PROVE IInv'
<1> DEFINE k == made[i].sent
           built(j) == [index |-> j, id |-> j, name |-> made'[j].name, arguments |-> Sent(j, made'[j].sent)]
<1>1. /\ pc = "stream" /\ k < made[i].pieces /\ UNCHANGED <<pc, came, calls, results>>
      /\ made' = [made EXCEPT ![i] = [made[i] EXCEPT !.sent = k + 1]]
      /\ entries' = Accumulated(i, Piece(i, k + 1))
  BY DEF SendPiece
<1>2. k \in 0 .. MaxPieces /\ k < MaxPieces /\ k + 1 \in 0 .. MaxPieces /\ made[i].pieces \in 0 .. MaxPieces
      /\ made[i].name # NoName /\ i # 0 /\ made[i].name \in Names \cup {NoName}
  BY <1>1, MadeFacts
<1>3. [made[i] EXCEPT !.sent = k + 1] \in Made
  BY <1>2, Types DEF Made
<1>4. /\ made' \in [Indexes -> Made]
      /\ made'[i].sent = k + 1 /\ made'[i].name = made[i].name /\ made'[i].pieces = made[i].pieces
      /\ \A j \in Indexes \ {i} : made'[j] = made[j]
  <2>1. made \in [Indexes -> Made] /\ made[i] \in Made
    BY Types
  <2>2. made'[i] = [made[i] EXCEPT !.sent = k + 1]
    BY <1>1, <2>1
  <2>3. made'[i].sent = k + 1 /\ made'[i].name = made[i].name /\ made'[i].pieces = made[i].pieces
    BY <2>1, <2>2 DEF Made
  <2> QED
    BY <1>1, <1>3, <2>1, <2>3
<1>5. /\ Len(came) \in Nat /\ DOMAIN came = 1 .. Len(came) /\ DOMAIN entries = DOMAIN came
      /\ \A n \in DOMAIN came : came[n] \in Indexes /\ entries[n] = Built(came[n])
      /\ Present(i)
  BY <1>2, PresentFacts
<1>6. /\ DOMAIN entries' = DOMAIN came
      /\ \A n \in DOMAIN came : entries'[n] = IF entries[n].index = i THEN Merged(entries[n], Piece(i, k + 1))
                                              ELSE entries[n]
  BY <1>1, <1>5 DEF Accumulated, WithEntry
<1>7. Merged(Built(i), Piece(i, k + 1)) = built(i)
  <2>1. Built(i) = [index |-> i, id |-> i, name |-> made[i].name, arguments |-> Sent(i, k)]
    BY Zenon DEF Built
  <2>2. Piece(i, k + 1) = [id |-> 0, name |-> NoName, arguments |-> <<[call |-> i, place |-> k + 1]>>]
    BY Zenon DEF Piece
  <2> DEFINE s == Sent(i, k)
             p == <<[call |-> i, place |-> k + 1]>>
  <2>3. s \o p = Sent(i, made'[i].sent)
    BY <1>2, <1>4, SentNext
  <2> HIDE DEF s, p
  <2>4. /\ Built(i).index = i /\ Built(i).id = i /\ Built(i).name = made[i].name
        /\ Built(i).arguments = s
    <3>1. Built(i) = [index |-> i, id |-> i, name |-> made[i].name, arguments |-> s]
      BY <2>1 DEF s
    <3> QED
      BY <3>1
  <2>5. /\ Piece(i, k + 1).id = 0 /\ Piece(i, k + 1).name = NoName
        /\ Piece(i, k + 1).arguments = p
    <3>1. Piece(i, k + 1) = [id |-> 0, name |-> NoName, arguments |-> p]
      BY <2>2 DEF p
    <3> QED
      BY <3>1
  <2> DEFINE e == Built(i)
             f == Piece(i, k + 1)
  <2> HIDE DEF e, f
  <2>6. Merged(e, f) = [index |-> i, id |-> i, name |-> made[i].name, arguments |-> s \o p]
    <3>1. /\ e.index = i /\ e.id = i /\ e.name = made[i].name /\ e.arguments = s
          /\ f.id = 0 /\ f.name = NoName /\ f.arguments = p
      BY <2>4, <2>5 DEF e, f
    <3>2. Merged(e, f) = [index |-> e.index, id |-> e.id, name |-> e.name, arguments |-> e.arguments \o f.arguments]
      BY <3>1, MergedPiece
    <3> QED
      BY <3>1, <3>2
  <2> QED
    BY <1>4, <2>3, <2>6 DEF e, f
<1>8. ASSUME NEW n \in DOMAIN came PROVE entries'[n] = built(came[n])
  <2> HIDE DEF built
  <2>1. CASE came[n] = i
    BY <1>5, <1>6, <1>7, <2>1, BuiltFields
  <2>2. CASE came[n] # i
    <3>1. entries'[n] = Built(came[n])
      BY <1>5, <1>6, <2>2, BuiltFields
    <3>2. made'[came[n]] = made[came[n]]
      BY <1>4, <1>5, <2>2
    <3> QED
      BY <3>1, <3>2 DEF built, Built
  <2> QED
    BY <2>1, <2>2
<1>9. ASSUME NEW j \in Indexes PROVE built(j) \in Entry
  <2>1. made'[j].sent \in 0 .. MaxPieces /\ made'[j].name \in Names \cup {NoName}
    BY <1>4 DEF Made
  <2> QED
    BY <2>1, SentType DEF Entry
<1>10. entries' \in Seq(Entry) /\ Len(entries') = Len(came)
  <2> HIDE DEF built
  <2>1. \A n \in 1 .. Len(came) : entries'[n] \in Entry
    BY <1>5, <1>8, <1>9
  <2>2. entries' = [n \in 1 .. Len(came) |-> entries'[n]]
    BY <1>1, <1>5, <1>6 DEF Accumulated
  <2> QED
    BY <1>5, <2>1, <2>2
<1>11. TypeOK'
  BY <1>1, <1>4, <1>10, Types DEF TypeOK
<1>12. MadeOK'
  <2>1. \A j \in Indexes : made'[j].sent <= made'[j].pieces
    BY <1>1, <1>2, <1>4, Parts DEF MadeOK
  <2>2. \A j \in Indexes : made'[j].name = NoName => made'[j] = NotMade
    BY <1>2, <1>4, Parts DEF MadeOK
  <2>3. \A j \in Indexes : made'[j].name = made[j].name
    BY <1>4
  <2> QED
    BY <1>1, <2>1, <2>2, <2>3, Parts DEF MadeOK
<1>13. EntriesOK'
  <2>1. \A n \in DOMAIN came : entries'[n] = Built(came[n])'
    BY <1>1, <1>8, Zenon DEF Built
  <2> QED
    BY <1>1, <1>6, <1>10, <2>1 DEF EntriesOK
<1>14. CallsOK' /\ NoGuessedArguments'
  BY <1>1, Parts DEF CallsOK, NoGuessedArguments
<1> QED
  BY <1>11, <1>12, <1>13, <1>14 DEF IInv

\* The calls that are made of a stream that ended are whole or empty.
LEMMA StreamEndsIInv == ASSUME IInv, StreamEnds PROVE IInv'
<1>1. pc = "stream" /\ UNCHANGED <<made, came, entries, results>> /\ results = <<>>
  BY Parts DEF StreamEnds, CallsOK
<1>2. /\ Len(came) \in Nat /\ DOMAIN came = 1 .. Len(came) /\ DOMAIN entries = DOMAIN came
      /\ Len(entries) = Len(came)
      /\ \A n \in DOMAIN came : came[n] \in Indexes
  BY Types, Parts DEF EntriesOK
<1>3. MadeOK' /\ EntriesOK' /\ NoGuessedArguments'
  BY <1>1, Parts DEF MadeOK, EntriesOK, NoGuessedArguments, Built
<1>4. ASSUME NEW n \in DOMAIN came
      PROVE  /\ entries[n].id = came[n] /\ entries[n].name = made[came[n]].name
             /\ entries[n].arguments = Sent(came[n], made[came[n]].sent)
             /\ entries[n] \in Entry
  <2>1. entries[n] = [index |-> came[n], id |-> came[n], name |-> made[came[n]].name,
                      arguments |-> Sent(came[n], made[came[n]].sent)]
    BY <1>2, Parts, Zenon DEF EntriesOK, Built
  <2>2. entries[n] \in Entry
    BY <1>2, Types
  <2> DEFINE s == Sent(came[n], made[came[n]].sent)
  <2> HIDE DEF s
  <2>3. entries[n] = [index |-> came[n], id |-> came[n], name |-> made[came[n]].name, arguments |-> s]
    BY <2>1 DEF s
  <2>4. entries[n].id = came[n] /\ entries[n].name = made[came[n]].name /\ entries[n].arguments = s
    BY <2>3
  <2> QED
    BY <2>2, <2>4 DEF s
<1>5. CASE \A n \in DOMAIN entries : Parsed(entries[n].arguments).ok
  <2>1. /\ calls' = [n \in DOMAIN entries |-> [id |-> entries[n].id, name |-> entries[n].name,
                        arguments |-> Parsed(entries[n].arguments).arguments]]
        /\ pc' = IF entries = <<>> THEN "answered" ELSE "tools"
    BY <1>5 DEF StreamEnds
  <2>2. ASSUME NEW n \in DOMAIN came PROVE made[came[n]].sent \in {0, made[came[n]].pieces}
    <3> DEFINE i == came[n]
    <3>1. Parsed(Sent(i, made[i].sent)).ok
      BY <1>2, <1>4, <1>5
    <3>2. Sent(i, made[i].sent) = <<>> \/ \E j \in Indexes : Sent(i, made[i].sent) = Whole(j)
      BY <3>1 DEF Parsed
    <3>3. i \in Indexes /\ made[i].sent \in 0 .. MaxPieces
      BY <1>2, MadeFacts
    <3>4. CASE Sent(i, made[i].sent) = <<>>
      <4>1. Len(Sent(i, made[i].sent)) = made[i].sent
        BY <3>3, SentType
      <4> QED
        BY <3>4, <4>1
    <3>5. ASSUME NEW j \in Indexes, Sent(i, made[i].sent) = Whole(j) PROVE made[i].sent \in {0, made[i].pieces}
      BY <3>3, <3>5, MadeFacts, SentWhole DEF Whole
    <3> QED
      BY <3>2, <3>4, <3>5
  <2>3. ASSUME NEW n \in DOMAIN came
        PROVE  /\ calls'[n] = [id |-> came[n], name |-> made[came[n]].name,
                               arguments |-> Sent(came[n], made[came[n]].sent)]
               /\ calls'[n] \in ToolCall
    <3> DEFINE s == Sent(came[n], made[came[n]].sent)
    <3>1. Parsed(s).arguments = s
      BY DEF Parsed
    <3>2. s \in Seq(Pieces)
      BY <1>2, MadeFacts, SentType
    <3> HIDE DEF s
    <3>3. calls'[n] = [id |-> came[n], name |-> made[came[n]].name, arguments |-> s]
      BY <1>2, <1>4, <2>1, <3>1 DEF s
    <3>4. calls'[n] \in ToolCall
      BY <1>2, <3>2, <3>3, MadeFacts DEF ToolCall
    <3> QED
      BY <3>3, <3>4 DEF s
  <2>4. calls' \in Seq(ToolCall) /\ Len(calls') = Len(came) /\ DOMAIN calls' = 1 .. Len(came)
    <3>1. calls' = [n \in 1 .. Len(came) |-> calls'[n]]
      BY <1>2, <2>1
    <3>2. \A n \in 1 .. Len(came) : calls'[n] \in ToolCall
      BY <1>2, <2>3
    <3> QED
      BY <1>2, <3>1, <3>2
  <2>5. pc' \in {"answered", "tools"}
    BY <2>1
  <2>6. TypeOK'
    BY <1>1, <2>4, <2>5, Types DEF TypeOK, PCs
  <2>7. \A n \in 1 .. Len(came) : Len(results) + n = n /\ Len(results) = 0
    BY <1>1
  <2>8. CallsOK'
    BY <1>1, <1>2, <2>2, <2>3, <2>4, <2>5, <2>7 DEF CallsOK
  <2> QED
    BY <1>3, <2>6, <2>8 DEF IInv
<1>6. CASE ~\A n \in DOMAIN entries : Parsed(entries[n].arguments).ok
  <2>1. pc' = "garbled" /\ calls' = calls /\ calls = <<>>
    BY <1>1, <1>6, Parts DEF StreamEnds, CallsOK
  <2>2. PICK n \in DOMAIN came : ~Parsed(entries[n].arguments).ok
    BY <1>2, <1>6
  <2>3. made[came[n]].sent # made[came[n]].pieces
    BY <1>2, <1>4, <2>2 DEF Parsed, Whole
  <2>4. ~Complete
    BY <1>2, <2>3 DEF Complete
  <2>5. TypeOK'
    BY <1>1, <2>1, Types DEF TypeOK, PCs
  <2>6. CallsOK'
    BY <1>1, <2>1, <2>4 DEF CallsOK, Complete
  <2> QED
    BY <1>3, <2>5, <2>6 DEF IInv
<1> QED
  BY <1>5, <1>6

\* A stream that breaks keeps IInv: what was sent stays as it is.
LEMMA StreamBreaksIInv == ASSUME IInv, StreamBreaks PROVE IInv'
<1>1. pc = "stream" /\ pc' = "broken" /\ UNCHANGED <<made, came, entries, calls, results>>
  BY DEF StreamBreaks
<1>2. TypeOK'
  BY <1>1, Types DEF TypeOK, PCs
<1>3. MadeOK' /\ EntriesOK' /\ NoGuessedArguments' /\ CallsOK'
  BY <1>1, Parts DEF MadeOK, EntriesOK, NoGuessedArguments, Built, CallsOK, Complete
<1> QED
  BY <1>2, <1>3 DEF IInv

----------------------------------------------------------------------------
(* The calls. *)

\* What is known of the call that is next.
LEMMA HeadFacts ==
    ASSUME IInv, pc = "tools", calls # <<>>
    PROVE  LET i == came[Len(results) + 1] IN
           /\ i \in Indexes /\ Len(results) + 1 \in DOMAIN came
           /\ Head(calls).id = i /\ Head(calls).name = made[i].name
           /\ Head(calls).arguments = Sent(i, made[i].sent)
           /\ made[i].sent \in {0, made[i].pieces}
<1> DEFINE m == Len(results) + 1
           s == Sent(came[m], made[came[m]].sent)
<1>1. /\ Len(calls) \in Nat \ {0} /\ Len(results) \in Nat /\ Len(came) \in Nat
      /\ Head(calls) = calls[1] /\ DOMAIN calls = 1 .. Len(calls) /\ DOMAIN came = 1 .. Len(came)
      /\ \A n \in DOMAIN came : came[n] \in Indexes
  BY Types
<1>2. Len(came) = Len(results) + Len(calls)
  BY Parts DEF CallsOK
<1>3. m \in DOMAIN came /\ 1 \in DOMAIN calls
  BY <1>1, <1>2
<1>4. /\ calls[1] = [id |-> came[m], name |-> made[came[m]].name, arguments |-> s]
      /\ made[came[m]].sent \in {0, made[came[m]].pieces}
  BY <1>3, Parts DEF CallsOK
<1> HIDE DEF s
<1>5. calls[1].id = came[m] /\ calls[1].name = made[came[m]].name /\ calls[1].arguments = s
  BY <1>4
<1> QED
  BY <1>1, <1>3, <1>4, <1>5 DEF s

\* A tool message keeps IInv, if it has data only of a call that may have it.
LEMMA ReportIInv ==
    ASSUME IInv, pc = "tools", calls # <<>>, NEW answer \in {"data", "error"}, Report(answer),
           LET call == made[came[Len(results) + 1]] IN
           answer = "data" => \/ call.sent = call.pieces
                              \/ call.sent = 0 /\ call.name = "get_ad_performance"
    PROVE  IInv'
<1> DEFINE m == Len(results) + 1
<1>1. /\ results' = Append(results, [id |-> Head(calls).id, answer |-> answer])
      /\ calls' = Tail(calls) /\ UNCHANGED <<made, came, entries>> /\ pc' \in {"answered", "tools"}
  BY DEF Report
<1>2. came[m] \in Indexes /\ m \in DOMAIN came /\ Head(calls).id = came[m]
  BY HeadFacts
<1>3. [id |-> came[m], answer |-> answer] \in Message
  BY <1>2 DEF Message
<1> DEFINE e == [id |-> came[m], answer |-> answer]
<1>4. results' = Append(results, e) /\ e \in Message /\ e.id = came[m] /\ e.answer = answer
  BY <1>1, <1>2, <1>3
<1> HIDE DEF e
<1>5. /\ results' \in Seq(Message) /\ Len(results') = m /\ Len(results) \in Nat
      /\ DOMAIN results = 1 .. Len(results) /\ DOMAIN results' = 1 .. m
      /\ results'[m] = e
      /\ \A n \in 1 .. Len(results) : results'[n] = results[n]
  BY <1>4, AppendFacts, Types
<1>6. /\ calls' \in Seq(ToolCall) /\ Len(calls') = Len(calls) - 1 /\ Len(calls) \in Nat \ {0}
      /\ DOMAIN calls' = 1 .. Len(calls) - 1 /\ DOMAIN calls = 1 .. Len(calls)
      /\ \A n \in 1 .. Len(calls) - 1 : calls'[n] = calls[n + 1]
  <2>1. calls \in Seq(ToolCall) /\ calls # <<>>
    BY Types
  <2>2. Tail(calls) \in Seq(ToolCall) /\ Len(Tail(calls)) = Len(calls) - 1 /\ Len(calls) \in Nat \ {0}
    BY <2>1
  <2>3. \A n \in 1 .. Len(calls) - 1 : Tail(calls)[n] = calls[n + 1]
    BY <2>1
  <2> QED
    BY <1>1, <2>1, <2>2, <2>3
<1>7. TypeOK'
  BY <1>1, <1>5, <1>6, Types DEF TypeOK, PCs
<1>8. MadeOK' /\ EntriesOK'
  BY <1>1, Parts DEF MadeOK, EntriesOK, Built
<1>9. CallsOK'
  <2>1. Len(came) = Len(results') + Len(calls')
    <3>1. Len(came) = Len(results) + Len(calls)
      BY Parts DEF CallsOK
    <3> QED
      BY <1>5, <1>6, <3>1
  <2>2. \A n \in DOMAIN came : made[came[n]].sent \in {0, made[came[n]].pieces}
    BY Parts DEF CallsOK
  <2>3. ASSUME NEW n \in 1 .. m PROVE results'[n].id = came[n]
    <3>1. CASE n = m
      BY <1>4, <1>5, <3>1
    <3>2. CASE n # m
      <4>1. n \in DOMAIN results
        BY <1>5, <3>2
      <4> QED
        BY <1>5, <4>1, Parts DEF CallsOK
    <3> QED
      BY <3>1, <3>2
  <2>4. ASSUME NEW n \in 1 .. Len(calls) - 1
        PROVE  LET i == came[m + n] IN
               calls'[n] = [id |-> i, name |-> made[i].name, arguments |-> Sent(i, made[i].sent)]
    <3>1. n + 1 \in DOMAIN calls /\ Len(results) + (n + 1) = m + n
      BY <1>5, <1>6
    <3>2. LET i == came[Len(results) + (n + 1)] IN
          calls[n + 1] = [id |-> i, name |-> made[i].name, arguments |-> Sent(i, made[i].sent)]
      BY <3>1, Parts DEF CallsOK
    <3> QED
      BY <1>6, <3>1, <3>2
  <2> QED
    BY <1>1, <1>5, <1>6, <2>1, <2>2, <2>3, <2>4 DEF CallsOK
<1>10. NoGuessedArguments'
  <2>1. ASSUME NEW n \in 1 .. m, results'[n].answer = "data"
        PROVE  \/ made[results'[n].id].sent = made[results'[n].id].pieces
               \/ made[results'[n].id].sent = 0 /\ made[results'[n].id].name = "get_ad_performance"
    <3>1. CASE n = m
      BY <1>4, <1>5, <2>1, <3>1
    <3>2. CASE n # m
      <4>1. n \in DOMAIN results /\ results'[n] = results[n]
        BY <1>5, <3>2
      <4> QED
        BY <2>1, <4>1, Parts DEF NoGuessedArguments
    <3> QED
      BY <3>1, <3>2
  <2> QED
    BY <1>1, <1>5, <2>1 DEF NoGuessedArguments
<1> QED
  BY <1>7, <1>8, <1>9, <1>10 DEF IInv

\* Each way to execute a call keeps IInv.
LEMMA ExecuteIInv ==
    ASSUME IInv,
           \/ RefuseCall \/ GetAdPerformance \/ GetAdDetails
           \/ \E q \in Queries, size \in Sizes : RunSqlQuery(q, size)
    PROVE  IInv'
<1> DEFINE i == came[Len(results) + 1]
<1>1. pc = "tools" /\ calls # <<>>
  BY DEF RefuseCall, GetAdPerformance, GetAdDetails, RunSqlQuery, Running
<1>2. /\ i \in Indexes /\ Head(calls).name = made[i].name /\ made[i].sent \in {0, made[i].pieces}
      /\ Head(calls).arguments = Sent(i, made[i].sent)
  BY <1>1, HeadFacts
<1>3. Head(calls).arguments # <<>> => made[i].sent = made[i].pieces
  BY <1>2, SentEmpty
<1> HIDE DEF i
<1>4. CASE RefuseCall
  <2>1. Report("error")
    BY <1>4 DEF RefuseCall
  <2> QED
    BY <1>1, <2>1, ReportIInv
<1>5. CASE GetAdPerformance
  <2>1. PICK answer \in {"data", "error"} : Report(answer)
    BY <1>5 DEF GetAdPerformance
  <2>2. made[i].name = "get_ad_performance"
    BY <1>2, <1>5 DEF GetAdPerformance, Running
  <2> QED
    BY <1>1, <1>2, <2>1, <2>2, ReportIInv DEF i
<1>6. CASE GetAdDetails
  <2>1. PICK answer \in {"data", "error"} : Report(answer)
    BY <1>6 DEF GetAdDetails
  <2>2. made[i].sent = made[i].pieces
    BY <1>3, <1>6 DEF GetAdDetails, Arguments
  <2> QED
    BY <1>1, <2>1, <2>2, ReportIInv DEF i
<1>7. ASSUME NEW q \in Queries, NEW size \in Sizes, RunSqlQuery(q, size) PROVE IInv'
  <2>1. Report("error") \/ Report("data")
    BY <1>7 DEF RunSqlQuery
  <2>2. made[i].sent = made[i].pieces
    BY <1>3, <1>7 DEF RunSqlQuery, Arguments
  <2> QED
    BY <1>1, <2>1, <2>2, ReportIInv DEF i
<1> QED
  BY <1>4, <1>5, <1>6, <1>7

----------------------------------------------------------------------------
(* The theorems. *)

\* The initial state satisfies IInv.
LEMMA InitIInv == Init => IInv
<1> SUFFICES ASSUME Init PROVE IInv
  OBVIOUS
<1>1. /\ pc = "stream" /\ came = <<>> /\ entries = <<>> /\ calls = <<>> /\ results = <<>>
      /\ \A i \in Indexes : made[i] = NotMade
      /\ made = [i \in Indexes |-> NotMade]
  BY DEF Init
<1>2. NotMade \in Made /\ NotMade.name = NoName /\ NotMade.sent = 0 /\ NotMade.pieces = 0
  BY DEF NotMade, Made
<1>3. TypeOK
  BY <1>1, <1>2 DEF TypeOK, PCs
<1>4. MadeOK
  BY <1>1, <1>2 DEF MadeOK
<1>5. EntriesOK /\ CallsOK /\ NoGuessedArguments
  BY <1>1 DEF EntriesOK, CallsOK, NoGuessedArguments
<1> QED
  BY <1>3, <1>4, <1>5 DEF IInv

\* IInv is inductive.
LEMMA NextIInv == IInv /\ [Next]_vars => IInv'
<1> SUFFICES ASSUME IInv, [Next]_vars PROVE IInv'
  OBVIOUS
<1>1. CASE UNCHANGED vars
  <2>1. TypeOK'
    BY <1>1, Types DEF vars, TypeOK
  <2>2. MadeOK' /\ EntriesOK' /\ CallsOK' /\ NoGuessedArguments'
    BY <1>1, Parts DEF vars, MadeOK, EntriesOK, Built, CallsOK, Complete, NoGuessedArguments
  <2> QED
    BY <2>1, <2>2 DEF IInv
<1> QED
  BY <1>1, SendBeginIInv, SendPieceIInv, StreamEndsIInv, StreamBreaksIInv, ExecuteIInv DEF Next

\* Fragments are put together as IInv says, for any number of calls and pieces.
THEOREM Invariant == Spec => []IInv
  BY InitIInv, NextIInv, PTL DEF Spec

\* In whatever order the fragments of the calls come, the calls executed are
\* those the model made.
THEOREM CallsPutTogether == Spec => []CallsWhole
<1>1. ASSUME IInv PROVE CallsWhole
  <2>1. pc = "garbled" => ~Complete
    BY <1>1, Parts DEF CallsOK
  <2>2. ASSUME pc \in {"tools", "answered"}, Complete
        PROVE  /\ Len(came) = Len(results) + Len(calls)
               /\ \A n \in DOMAIN results : results[n].id = came[n]
    BY <1>1, <2>2, Parts DEF CallsOK
  <2>3. ASSUME pc \in {"tools", "answered"}, Complete, NEW n \in DOMAIN calls
        PROVE  LET i == came[Len(results) + n] IN
               calls[n] = [id |-> i, name |-> made[i].name, arguments |-> Whole(i)]
    <3> DEFINE i == came[Len(results) + n]
    <3>1. calls[n] = [id |-> i, name |-> made[i].name, arguments |-> Sent(i, made[i].sent)]
      BY <1>1, <2>3, Parts DEF CallsOK
    <3>2. Len(results) + n \in DOMAIN came /\ came \in Seq(Indexes)
      <4>1. Len(came) = Len(results) + Len(calls)
        BY <2>2, <2>3
      <4>2. Len(results) \in Nat /\ DOMAIN calls = 1 .. Len(calls) /\ DOMAIN came = 1 .. Len(came)
            /\ Len(calls) \in Nat /\ came \in Seq(Indexes)
        BY <1>1, Types
      <4> QED
        BY <2>3, <4>1, <4>2
    <3>3. made[i].sent = made[i].pieces
      BY <2>3, <3>2 DEF Complete
    <3> QED
      BY <3>1, <3>3 DEF Whole
  <2> QED
    BY <2>1, <2>2, <2>3 DEF CallsWhole
<1> QED
  BY <1>1, Invariant, PTL

\* No tool runs on part of its arguments.
THEOREM ArgumentsComplete == Spec => []NoGuessedArguments
<1>1. IInv => NoGuessedArguments
  BY Parts
<1> QED
  BY <1>1, Invariant, PTL

\* What PostgreSQL reads for a query is named in one of its bodies, and a name
\* there that is no alias of the query is read.
LEMMA ReadsAreNamed ==
    ASSUME NEW q
    PROVE  /\ \A t \in TablesRead(q) : \E b \in Bodies(q) : t \in b.tables
           /\ \A b \in Bodies(q) : \A t \in b.tables :
                 t.name \notin Aliases(q) => t \in TablesRead(q)
<1>1. q.body \in Bodies(q) /\ \A n \in DOMAIN q.ctes : q.ctes[n].body \in Bodies(q)
  BY DEF Bodies
<1>2. \A t \in TablesRead(q) :
          \/ t \in ReadsOf(q.body, Aliases(q))
          \/ \E n \in DOMAIN q.ctes : t \in ReadsOf(q.ctes[n].body, Scope(q, n))
  BY Zenon DEF TablesRead
<1>3. \A t \in TablesRead(q) : \E b \in Bodies(q) : t \in b.tables
  BY <1>1, <1>2, Zenon DEF ReadsOf
<1>4. ASSUME NEW b, NEW t \in b.tables, NEW scope, scope \subseteq Aliases(q), t.name \notin Aliases(q)
      PROVE  t \in ReadsOf(b, scope)
  BY <1>4, Zenon DEF ReadsOf, IsTable
<1>5. ASSUME NEW b \in Bodies(q), NEW t \in b.tables, t.name \notin Aliases(q)
      PROVE  t \in TablesRead(q)
  <2>1. CASE b = q.body
    <3>1. t \in ReadsOf(q.body, Aliases(q))
      BY <1>4, <1>5, <2>1
    <3> QED
      BY <3>1, Zenon DEF TablesRead
  <2>2. CASE b # q.body
    <3>1. PICK n \in DOMAIN q.ctes : b = q.ctes[n].body
      BY <1>5, <2>2 DEF Bodies
    <3>2. Scope(q, n) \subseteq Aliases(q)
      BY DEF Scope, Aliases
    <3>3. t \in ReadsOf(q.ctes[n].body, Scope(q, n))
      BY <1>4, <1>5, <3>1, <3>2
    <3> QED
      BY <3>1, <3>3, Zenon DEF TablesRead
  <2> QED
    BY <2>1, <2>2
<1> QED
  BY <1>3, <1>5

\* The guard decides by names what PostgreSQL decides by scopes: for any query
\* the two differ at most in tables that bear an alias's name.
THEOREM GuardAlone ==
    ASSUME NEW q
    PROVE  /\ TablesAllowed(q) => \A t \in Strays(q) : t.name \in Aliases(q)
           /\ Strays(q) = {} => TablesAllowed(q)
<1>1. ASSUME TablesAllowed(q), NEW t \in Strays(q) PROVE t.name \in Aliases(q)
  <2>1. t \in TablesRead(q) /\ ~Queryable(t)
    BY DEF Strays
  <2> QED
    BY <1>1, <2>1, ReadsAreNamed, Zenon DEF TablesAllowed
<1>2. ASSUME Strays(q) = {}, NEW b \in Bodies(q), NEW t \in b.tables, t.name \notin Aliases(q)
      PROVE  Queryable(t)
  <2>1. t \in TablesRead(q)
    BY <1>2, ReadsAreNamed, Zenon
  <2> QED
    BY <1>2, <2>1 DEF Strays
<1> QED
  BY <1>1, <1>2, Zenon DEF TablesAllowed

\* Only run_sql_query touches `ran'.
LEMMA OnlySqlRuns ==
    ASSUME [Next]_vars, ran' # ran
    PROVE  \E q \in Queries, size \in Sizes : RunSqlQuery(q, size)
  BY DEF Next, vars, SendBegin, SendPiece, StreamEnds, StreamBreaks, RefuseCall,
       GetAdPerformance, GetAdDetails

\* A step leaves in `ran' a query that the guard took the right way.
LEMMA NextGuard == GuardExact /\ [Next]_vars => GuardExact'
<1> SUFFICES ASSUME GuardExact, [Next]_vars PROVE GuardExact'
  OBVIOUS
<1>1. CASE ran' = ran
  BY <1>1 DEF GuardExact
<1>2. CASE ran' # ran
  <2>1. PICK q \in Queries, size \in Sizes : RunSqlQuery(q, size)
    BY <1>2, OnlySqlRuns
  <2>2. /\ ran'.query = q
        /\ \/ ran'.outcome = "refused" /\ ~Accepts(q)
           \/ ran'.outcome \in {"failed", "answered"} /\ Accepts(q)
    BY <2>1 DEF RunSqlQuery
  <2>3. Accepts(q) => \A t \in Strays(q) : t.name \in Aliases(q)
    BY GuardAlone, Zenon DEF Accepts
  <2>4. ~Accepts(q) => \/ Strays(q) # {} \/ q.form # "select"
                       \/ ~ColumnsAllowed(q) \/ ~FunctionsAllowed(q)
    BY GuardAlone, Zenon DEF Accepts
  <2> QED
    BY <2>2, <2>3, <2>4 DEF GuardExact
<1> QED
  BY <1>1, <1>2

\* In every round the guard lets through what reads the ads tables, and besides
\* it at most tables that share their name with an alias: for any allowed
\* tables, queries and aliases.
THEOREM GuardDecides == Spec => []GuardExact
<1>1. Init => GuardExact
  BY DEF Init, NotRun, GuardExact
<1> QED
  BY <1>1, NextGuard, PTL DEF Spec

\* How the rows of a query that is answered are counted.
LEMMA NextRows == RowsHonest /\ [Next]_vars => RowsHonest'
<1> SUFFICES ASSUME RowsHonest, [Next]_vars PROVE RowsHonest'
  OBVIOUS
<1>1. CASE ran' = ran
  BY <1>1 DEF RowsHonest
<1>2. CASE ran' # ran
  <2>1. PICK q \in Queries, size \in Sizes : RunSqlQuery(q, size)
    BY <1>2, OnlySqlRuns
  <2> DEFINE count == Smaller(size, RowCap(q))
  <2>2. \/ ran'.outcome \in {"refused", "failed"}
        \/ ran' = [outcome |-> "answered", query |-> q, size |-> size, count |-> count,
                   truncated |-> Truncated(count)]
    BY <2>1 DEF RunSqlQuery
  <2>3. /\ size \in Nat /\ q.limit.n \in Nat /\ MaxRows \in Nat
        /\ q.limit.kind \in {"none", "number", "expression", "fetch"}
    BY QueriesAssumption, GuardAssumption
  <2>4. /\ count <= MaxRows
        /\ count < MaxRows => count >= Asked(q, size)
        /\ q.limit.kind \in {"none", "number"} => count <= Asked(q, size)
    BY <2>3 DEF Smaller, RowCap, Asked
  <2>5. count \in Nat
    BY <2>3 DEF Smaller, RowCap
  <2>6. ~Truncated(count) => count < MaxRows
    BY <2>3, <2>5 DEF Truncated
  <2> HIDE DEF count
  <2>7. CASE ran'.outcome \in {"refused", "failed"}
    BY <2>7 DEF RowsHonest
  <2>8. CASE ran' = [outcome |-> "answered", query |-> q, size |-> size, count |-> count,
                     truncated |-> Truncated(count)]
    <3>1. /\ ran'.query = q /\ ran'.size = size /\ ran'.count = count
          /\ ran'.truncated = Truncated(count)
      BY <2>8
    <3>2. ~ran'.truncated => count < MaxRows
      BY <2>6, <3>1, Zenon
    <3> QED
      BY <2>4, <3>1, <3>2, Zenon DEF RowsHonest
  <2> QED
    BY <2>2, <2>7, <2>8
<1> QED
  BY <1>1, <1>2

\* A result says it was truncated when it was, for any cap, limit and number of
\* rows.
THEOREM RowsToldHonestly == Spec => []RowsHonest
<1>1. Init => RowsHonest
  BY DEF Init, NotRun, RowsHonest
<1> QED
  BY <1>1, NextRows, PTL DEF Spec
=============================================================================
