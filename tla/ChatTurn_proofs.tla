-------------------------- MODULE ChatTurn_proofs --------------------------
(***************************************************************************)
(* ChatTurn: IInv is inductive, and what follows from it, for every bound  *)
(* on the iterations, the calls of an answer and its text deltas.          *)
(***************************************************************************)
EXTENDS ChatTurn, SequenceTheorems, TLAPS

USE BoundsAssumption

\* A statement that raises leaves no usable transaction, and its guards alone.
LEMMA RaisedTransaction ==
    ASSUME db \in Transaction, NEW d \in Raised
    PROVE  /\ d \in Transaction
           /\ d.inside = db.inside
           /\ d.state # "ok"
           /\ d.state = "closed" => db.state = "closed"
           /\ d.state = "aborted" => db.state \in {"ok", "aborted"}
  BY DEF Raised, Usable, Transaction

\* What a guard's statement leaves when it succeeds.
LEMMA WithTransaction ==
    ASSUME db \in Transaction, NEW guard \in Guards
    PROVE  /\ With(guard) \in Transaction
           /\ With(guard).inside = db.inside \cup {guard}
           /\ With(guard).state = db.state
  BY DEF With, Transaction

\* The initial state satisfies IInv.
LEMMA InitIInv == Init => IInv
<1> SUFFICES ASSUME Init PROVE IInv
  OBVIOUS
<1>1. TypeOK
  <2>1. messages \in Seq(Message)
    <3>1. System \in Message /\ User \in Message
      BY DEF System, User, Message
    <3> QED
      BY <3>1 DEF Init
  <2>2. calls \in Seq(ToolCall) /\ events \in Seq(Events)
    BY DEF Init
  <2>3. db \in Transaction
    BY DEF Init, Fresh, Transaction
  <2>4. asked \in 0 .. MaxToolIterations /\ deltas \in 0 .. MaxDeltas
    BY DEF Init
  <2> QED
    BY <2>1, <2>2, <2>3, <2>4 DEF Init, TypeOK, PCs
<1>2. ModeConfined /\ SessionOK
  BY DEF Init, ModeConfined, SessionOK, Fresh
<1>3. LoopOK /\ StreamOK
  BY DEF Init, LoopOK, StreamOK, InSql, Working, PCs
<1> QED
  BY <1>1, <1>2, <1>3 DEF IInv

\* Reporting a tool call keeps the conversation and the calls left well formed.
LEMMA ReportedTypes ==
    ASSUME TypeOK, NEW content \in Contents, Report(content), calls # <<>>
    PROVE  messages' \in Seq(Message) /\ calls' \in Seq(ToolCall)
<1>1. Head(calls) \in ToolCall /\ Tail(calls) \in Seq(ToolCall)
  BY DEF TypeOK
<1>2. ToolMessage(Head(calls).id, content) \in Message
  <2>1. <<Head(calls).id>> \in Seq(Id)
    BY <1>1 DEF ToolCall
  <2> QED
    BY <2>1 DEF ToolMessage, Message
<1> QED
  BY <1>1, <1>2 DEF Report, TypeOK

\* A step of GetDatasetDateRange keeps IInv.
LEMMA GetDatasetDateRangeIInv ==
    ASSUME IInv, GetDatasetDateRange
    PROVE  IInv'
<1> USE DEF IInv
<1>1. messages' \in Seq(Message) /\ calls' \in Seq(ToolCall) /\ events' \in Seq(Events)
  BY DEF TypeOK, LoopOK, InSql, Contents, GetDatasetDateRange, Prepare
<1>2. asked' \in 0 .. MaxToolIterations /\ deltas' \in 0 .. MaxDeltas
  BY DEF TypeOK, GetDatasetDateRange, Prepare
<1>3. db' \in Transaction
  BY RaisedTransaction DEF Guards, TypeOK, GetDatasetDateRange, Prepare
<1>4. TypeOK'
  BY <1>1, <1>2, <1>3 DEF TypeOK, PCs, Contents, GetDatasetDateRange, Prepare
<1>5. ModeConfined' /\ SessionOK'
  BY RaisedTransaction DEF Usable, Guards, TypeOK, ModeConfined, SessionOK, InSql, GetDatasetDateRange, Prepare
<1>6. LoopOK'
  BY DEF TypeOK, LoopOK, InSql, Working, PCs, GetDatasetDateRange, Prepare
<1>7. StreamOK'
  BY DEF TypeOK, StreamOK, Final, GetDatasetDateRange, Prepare
<1> QED
  BY <1>4, <1>5, <1>6, <1>7

\* A step of ListAds keeps IInv.
LEMMA ListAdsIInv ==
    ASSUME IInv, ListAds
    PROVE  IInv'
<1> USE DEF IInv
<1>1. messages' \in Seq(Message) /\ calls' \in Seq(ToolCall) /\ events' \in Seq(Events)
  BY DEF TypeOK, LoopOK, InSql, Contents, ListAds, Prepare
<1>2. asked' \in 0 .. MaxToolIterations /\ deltas' \in 0 .. MaxDeltas
  BY DEF TypeOK, ListAds, Prepare
<1>3. db' \in Transaction
  BY RaisedTransaction DEF Guards, TypeOK, ListAds, Prepare
<1>4. TypeOK'
  BY <1>1, <1>2, <1>3 DEF TypeOK, PCs, Contents, ListAds, Prepare
<1>5. ModeConfined' /\ SessionOK'
  BY RaisedTransaction DEF Usable, Guards, TypeOK, ModeConfined, SessionOK, InSql, ListAds, Prepare
<1>6. LoopOK'
  BY DEF TypeOK, LoopOK, InSql, Working, PCs, ListAds, Prepare
<1>7. StreamOK'
  BY DEF TypeOK, StreamOK, Final, ListAds, Prepare
<1> QED
  BY <1>4, <1>5, <1>6, <1>7

\* A step of EmitError keeps IInv.
LEMMA EmitErrorIInv ==
    ASSUME IInv, EmitError
    PROVE  IInv'
<1> USE DEF IInv
<1>1. messages' \in Seq(Message) /\ calls' \in Seq(ToolCall) /\ events' \in Seq(Events)
  BY DEF TypeOK, LoopOK, InSql, Contents, EmitError, Emit, Events
<1>2. asked' \in 0 .. MaxToolIterations /\ deltas' \in 0 .. MaxDeltas
  BY DEF TypeOK, EmitError, Emit
<1>3. db' \in Transaction
  BY DEF Guards, TypeOK, EmitError, Emit
<1>4. TypeOK'
  BY <1>1, <1>2, <1>3 DEF TypeOK, PCs, Contents, EmitError, Emit
<1>5. ModeConfined' /\ SessionOK'
  BY DEF Usable, Guards, TypeOK, ModeConfined, SessionOK, InSql, EmitError, Emit
<1>6. LoopOK'
  BY DEF TypeOK, LoopOK, InSql, Working, PCs, EmitError, Emit
<1>7. StreamOK'
  BY DEF TypeOK, StreamOK, Final, EmitError, Emit
<1> QED
  BY <1>4, <1>5, <1>6, <1>7

\* A step of AskProvider keeps IInv.
LEMMA AskProviderIInv ==
    ASSUME IInv, AskProvider
    PROVE  IInv'
<1> USE DEF IInv
<1>1. messages' \in Seq(Message) /\ calls' \in Seq(ToolCall) /\ events' \in Seq(Events)
  BY DEF TypeOK, LoopOK, InSql, Contents, AskProvider, CapReached
<1>2. asked' \in 0 .. MaxToolIterations /\ deltas' \in 0 .. MaxDeltas
  BY DEF TypeOK, AskProvider, CapReached
<1>3. db' \in Transaction
  BY DEF Guards, TypeOK, AskProvider, CapReached
<1>4. TypeOK'
  BY <1>1, <1>2, <1>3 DEF TypeOK, PCs, Contents, AskProvider, CapReached
<1>5. ModeConfined' /\ SessionOK'
  BY DEF Usable, Guards, TypeOK, ModeConfined, SessionOK, InSql, AskProvider, CapReached
<1>6. LoopOK'
  BY DEF TypeOK, LoopOK, InSql, Working, PCs, AskProvider, CapReached
<1>7. StreamOK'
  BY DEF TypeOK, StreamOK, Final, AskProvider, CapReached
<1> QED
  BY <1>4, <1>5, <1>6, <1>7

\* A step of GiveUp keeps IInv.
LEMMA GiveUpIInv ==
    ASSUME IInv, GiveUp
    PROVE  IInv'
<1> USE DEF IInv
<1>1. messages' \in Seq(Message) /\ calls' \in Seq(ToolCall) /\ events' \in Seq(Events)
  BY DEF TypeOK, LoopOK, InSql, Contents, GiveUp, Emit, CapReached, Events
<1>2. asked' \in 0 .. MaxToolIterations /\ deltas' \in 0 .. MaxDeltas
  BY DEF TypeOK, GiveUp, Emit, CapReached
<1>3. db' \in Transaction
  BY DEF Guards, TypeOK, GiveUp, Emit, CapReached
<1>4. TypeOK'
  BY <1>1, <1>2, <1>3 DEF TypeOK, PCs, Contents, GiveUp, Emit, CapReached
<1>5. ModeConfined' /\ SessionOK'
  BY DEF Usable, Guards, TypeOK, ModeConfined, SessionOK, InSql, GiveUp, Emit, CapReached
<1>6. LoopOK'
  BY DEF TypeOK, LoopOK, InSql, Working, PCs, GiveUp, Emit, CapReached
<1>7. StreamOK'
  BY DEF TypeOK, StreamOK, Final, GiveUp, Emit, CapReached
<1> QED
  BY <1>4, <1>5, <1>6, <1>7

\* A step of TextDelta keeps IInv.
LEMMA TextDeltaIInv ==
    ASSUME IInv, TextDelta
    PROVE  IInv'
<1> USE DEF IInv
<1>1. messages' \in Seq(Message) /\ calls' \in Seq(ToolCall) /\ events' \in Seq(Events)
  BY DEF TypeOK, LoopOK, InSql, Contents, TextDelta, Emit, Events
<1>2. asked' \in 0 .. MaxToolIterations /\ deltas' \in 0 .. MaxDeltas
  BY DEF TypeOK, TextDelta, Emit
<1>3. db' \in Transaction
  BY DEF Guards, TypeOK, TextDelta, Emit
<1>4. TypeOK'
  BY <1>1, <1>2, <1>3 DEF TypeOK, PCs, Contents, TextDelta, Emit
<1>5. ModeConfined' /\ SessionOK'
  BY DEF Usable, Guards, TypeOK, ModeConfined, SessionOK, InSql, TextDelta, Emit
<1>6. LoopOK'
  BY DEF TypeOK, LoopOK, InSql, Working, PCs, TextDelta, Emit
<1>7. StreamOK'
  BY DEF TypeOK, StreamOK, Final, TextDelta, Emit
<1> QED
  BY <1>4, <1>5, <1>6, <1>7

\* A step of ProviderFails keeps IInv.
LEMMA ProviderFailsIInv ==
    ASSUME IInv, ProviderFails
    PROVE  IInv'
<1> USE DEF IInv
<1>1. messages' \in Seq(Message) /\ calls' \in Seq(ToolCall) /\ events' \in Seq(Events)
  BY DEF TypeOK, LoopOK, InSql, Contents, ProviderFails, Emit, Events
<1>2. asked' \in 0 .. MaxToolIterations /\ deltas' \in 0 .. MaxDeltas
  BY DEF TypeOK, ProviderFails, Emit
<1>3. db' \in Transaction
  BY DEF Guards, TypeOK, ProviderFails, Emit
<1>4. TypeOK'
  BY <1>1, <1>2, <1>3 DEF TypeOK, PCs, Contents, ProviderFails, Emit
<1>5. ModeConfined' /\ SessionOK'
  BY DEF Usable, Guards, TypeOK, ModeConfined, SessionOK, InSql, ProviderFails, Emit
<1>6. LoopOK'
  BY DEF TypeOK, LoopOK, InSql, Working, PCs, ProviderFails, Emit
<1>7. StreamOK'
  BY DEF TypeOK, StreamOK, Final, ProviderFails, Emit
<1> QED
  BY <1>4, <1>5, <1>6, <1>7

\* A step of Answer keeps IInv.
LEMMA AnswerIInv ==
    ASSUME IInv, Answer
    PROVE  IInv'
<1> USE DEF IInv
<1>1. messages' \in Seq(Message) /\ calls' \in Seq(ToolCall) /\ events' \in Seq(Events)
  BY DEF TypeOK, LoopOK, InSql, Contents, Answer
<1>2. asked' \in 0 .. MaxToolIterations /\ deltas' \in 0 .. MaxDeltas
  BY DEF TypeOK, Answer
<1>3. db' \in Transaction
  BY DEF Guards, TypeOK, Answer
<1>4. TypeOK'
  BY <1>1, <1>2, <1>3 DEF TypeOK, PCs, Contents, Answer
<1>5. ModeConfined' /\ SessionOK'
  BY DEF Usable, Guards, TypeOK, ModeConfined, SessionOK, InSql, Answer
<1>6. LoopOK'
  BY DEF TypeOK, LoopOK, InSql, Working, PCs, Answer
<1>7. StreamOK'
  BY DEF TypeOK, StreamOK, Final, Answer
<1> QED
  BY <1>4, <1>5, <1>6, <1>7

\* A step of Finish keeps IInv.
LEMMA FinishIInv ==
    ASSUME IInv, Finish
    PROVE  IInv'
<1> USE DEF IInv
<1>1. messages' \in Seq(Message) /\ calls' \in Seq(ToolCall) /\ events' \in Seq(Events)
  BY DEF TypeOK, LoopOK, InSql, Contents, Finish, Emit, Events
<1>2. asked' \in 0 .. MaxToolIterations /\ deltas' \in 0 .. MaxDeltas
  BY DEF TypeOK, Finish, Emit
<1>3. db' \in Transaction
  BY DEF Guards, TypeOK, Finish, Emit
<1>4. TypeOK'
  BY <1>1, <1>2, <1>3 DEF TypeOK, PCs, Contents, Finish, Emit
<1>5. ModeConfined' /\ SessionOK'
  BY DEF Usable, Guards, TypeOK, ModeConfined, SessionOK, InSql, Finish, Emit
<1>6. LoopOK'
  BY DEF TypeOK, LoopOK, InSql, Working, PCs, Finish, Emit
<1>7. StreamOK'
  BY DEF TypeOK, StreamOK, Final, Finish, Emit
<1> QED
  BY <1>4, <1>5, <1>6, <1>7

\* A step of RefuseCall keeps IInv.
LEMMA RefuseCallIInv ==
    ASSUME IInv, RefuseCall
    PROVE  IInv'
<1> USE DEF IInv
<1>1. messages' \in Seq(Message) /\ calls' \in Seq(ToolCall) /\ events' \in Seq(Events)
  BY ReportedTypes DEF TypeOK, LoopOK, InSql, Contents, RefuseCall, Running
<1>2. asked' \in 0 .. MaxToolIterations /\ deltas' \in 0 .. MaxDeltas
  BY DEF TypeOK, RefuseCall, Running, Report
<1>3. db' \in Transaction
  BY DEF Guards, TypeOK, RefuseCall, Running, Report
<1>4. TypeOK'
  BY <1>1, <1>2, <1>3 DEF TypeOK, PCs, Contents, RefuseCall, Running, Report
<1>5. ModeConfined' /\ SessionOK'
  BY DEF Usable, Guards, TypeOK, ModeConfined, SessionOK, InSql, RefuseCall, Running, Report
<1>6. LoopOK'
  BY DEF TypeOK, LoopOK, InSql, Working, PCs, RefuseCall, Running, Report
<1>7. StreamOK'
  BY DEF TypeOK, StreamOK, Final, RefuseCall, Running, Report
<1> QED
  BY <1>4, <1>5, <1>6, <1>7

\* A step of ReadTool keeps IInv.
LEMMA ReadToolIInv ==
    ASSUME IInv, ReadTool
    PROVE  IInv'
<1> USE DEF IInv
<1>1. messages' \in Seq(Message) /\ calls' \in Seq(ToolCall) /\ events' \in Seq(Events)
  BY ReportedTypes DEF TypeOK, LoopOK, InSql, Contents, ReadTool, Running
<1>2. asked' \in 0 .. MaxToolIterations /\ deltas' \in 0 .. MaxDeltas
  BY DEF TypeOK, ReadTool, Running, Report
<1>3. db' \in Transaction
  BY RaisedTransaction DEF Guards, TypeOK, ReadTool, Running, Report
<1>4. TypeOK'
  BY <1>1, <1>2, <1>3 DEF TypeOK, PCs, Contents, ReadTool, Running, Report
<1>5. ModeConfined' /\ SessionOK'
  BY RaisedTransaction DEF Usable, Guards, TypeOK, ModeConfined, SessionOK, InSql, ReadTool, Running, Report
<1>6. LoopOK'
  BY DEF TypeOK, LoopOK, InSql, Working, PCs, ReadTool, Running, Report
<1>7. StreamOK'
  BY DEF TypeOK, StreamOK, Final, ReadTool, Running, Report
<1> QED
  BY <1>4, <1>5, <1>6, <1>7

\* A step of ValidateSql keeps IInv.
LEMMA ValidateSqlIInv ==
    ASSUME IInv, ValidateSql
    PROVE  IInv'
<1> USE DEF IInv
<1>1. messages' \in Seq(Message) /\ calls' \in Seq(ToolCall) /\ events' \in Seq(Events)
  BY ReportedTypes DEF TypeOK, LoopOK, InSql, Contents, ValidateSql, Running
<1>2. asked' \in 0 .. MaxToolIterations /\ deltas' \in 0 .. MaxDeltas
  BY DEF TypeOK, ValidateSql, Running, Report
<1>3. db' \in Transaction
  BY DEF Guards, TypeOK, ValidateSql, Running, Report
<1>4. TypeOK'
  BY <1>1, <1>2, <1>3 DEF TypeOK, SessionOK, Transaction, PCs, Contents, ValidateSql, Running, Report
<1>5. ModeConfined' /\ SessionOK'
  BY DEF Usable, Guards, TypeOK, ModeConfined, SessionOK, InSql, ValidateSql, Running, Report
<1>6. LoopOK'
  BY DEF TypeOK, LoopOK, InSql, Working, PCs, ValidateSql, Running, Report
<1>7. StreamOK'
  BY DEF TypeOK, StreamOK, Final, ValidateSql, Running, Report
<1> QED
  BY <1>4, <1>5, <1>6, <1>7

\* A step of BeginNested keeps IInv.
LEMMA BeginNestedIInv ==
    ASSUME IInv, BeginNested
    PROVE  IInv'
<1> USE DEF IInv
<1>0. db' \in Raised \/ (pc' = "role" /\ Usable /\ db' = With("savepoint"))
  BY DEF BeginNested, Raised
<1>1. messages' \in Seq(Message) /\ calls' \in Seq(ToolCall) /\ events' \in Seq(Events)
  BY ReportedTypes DEF TypeOK, LoopOK, InSql, Contents, BeginNested
<1>2. asked' \in 0 .. MaxToolIterations /\ deltas' \in 0 .. MaxDeltas
  BY DEF TypeOK, BeginNested, Report
<1>3. db' \in Transaction
  BY <1>0, RaisedTransaction, WithTransaction DEF Guards, TypeOK, BeginNested, Report
<1>4. TypeOK'
  BY <1>1, <1>2, <1>3 DEF TypeOK, PCs, Contents, BeginNested, Report
<1>5. ModeConfined' /\ SessionOK'
  BY <1>0, RaisedTransaction, WithTransaction DEF Usable, Guards, TypeOK, ModeConfined, SessionOK, InSql, BeginNested, Report
<1>6. LoopOK'
  BY DEF TypeOK, LoopOK, InSql, Working, PCs, BeginNested, Report
<1>7. StreamOK'
  BY DEF TypeOK, StreamOK, Final, BeginNested, Report
<1> QED
  BY <1>4, <1>5, <1>6, <1>7

\* A step of SetRole keeps IInv.
LEMMA SetRoleIInv ==
    ASSUME IInv, SetRole
    PROVE  IInv'
<1> USE DEF IInv
<1>1. messages' \in Seq(Message) /\ calls' \in Seq(ToolCall) /\ events' \in Seq(Events)
  BY DEF TypeOK, LoopOK, InSql, Contents, SetRole, Guarded
<1>2. asked' \in 0 .. MaxToolIterations /\ deltas' \in 0 .. MaxDeltas
  BY DEF TypeOK, SetRole, Guarded
<1>3. db' \in Transaction
  BY RaisedTransaction, WithTransaction DEF Guards, TypeOK, SetRole, Guarded
<1>4. TypeOK'
  BY <1>1, <1>2, <1>3 DEF TypeOK, PCs, Contents, SetRole, Guarded
<1>5. ModeConfined' /\ SessionOK'
  BY RaisedTransaction, WithTransaction DEF Usable, Guards, TypeOK, ModeConfined, SessionOK, InSql, SetRole, Guarded
<1>6. LoopOK'
  BY DEF TypeOK, LoopOK, InSql, Working, PCs, SetRole, Guarded
<1>7. StreamOK'
  BY DEF TypeOK, StreamOK, Final, SetRole, Guarded
<1> QED
  BY <1>4, <1>5, <1>6, <1>7

\* A step of SetReadOnly keeps IInv.
LEMMA SetReadOnlyIInv ==
    ASSUME IInv, SetReadOnly
    PROVE  IInv'
<1> USE DEF IInv
<1>1. messages' \in Seq(Message) /\ calls' \in Seq(ToolCall) /\ events' \in Seq(Events)
  BY DEF TypeOK, LoopOK, InSql, Contents, SetReadOnly, Guarded
<1>2. asked' \in 0 .. MaxToolIterations /\ deltas' \in 0 .. MaxDeltas
  BY DEF TypeOK, SetReadOnly, Guarded
<1>3. db' \in Transaction
  BY RaisedTransaction, WithTransaction DEF Guards, TypeOK, SetReadOnly, Guarded
<1>4. TypeOK'
  BY <1>1, <1>2, <1>3 DEF TypeOK, PCs, Contents, SetReadOnly, Guarded
<1>5. ModeConfined' /\ SessionOK'
  BY RaisedTransaction, WithTransaction DEF Usable, Guards, TypeOK, ModeConfined, SessionOK, InSql, SetReadOnly, Guarded
<1>6. LoopOK'
  BY DEF TypeOK, LoopOK, InSql, Working, PCs, SetReadOnly, Guarded
<1>7. StreamOK'
  BY DEF TypeOK, StreamOK, Final, SetReadOnly, Guarded
<1> QED
  BY <1>4, <1>5, <1>6, <1>7

\* A step of SetTimeout keeps IInv.
LEMMA SetTimeoutIInv ==
    ASSUME IInv, SetTimeout
    PROVE  IInv'
<1> USE DEF IInv
<1>1. messages' \in Seq(Message) /\ calls' \in Seq(ToolCall) /\ events' \in Seq(Events)
  BY DEF TypeOK, LoopOK, InSql, Contents, SetTimeout, Guarded
<1>2. asked' \in 0 .. MaxToolIterations /\ deltas' \in 0 .. MaxDeltas
  BY DEF TypeOK, SetTimeout, Guarded
<1>3. db' \in Transaction
  BY RaisedTransaction, WithTransaction DEF Guards, TypeOK, SetTimeout, Guarded
<1>4. TypeOK'
  BY <1>1, <1>2, <1>3 DEF TypeOK, PCs, Contents, SetTimeout, Guarded
<1>5. ModeConfined' /\ SessionOK'
  BY RaisedTransaction, WithTransaction DEF Usable, Guards, TypeOK, ModeConfined, SessionOK, InSql, SetTimeout, Guarded
<1>6. LoopOK'
  BY DEF TypeOK, LoopOK, InSql, Working, PCs, SetTimeout, Guarded
<1>7. StreamOK'
  BY DEF TypeOK, StreamOK, Final, SetTimeout, Guarded
<1> QED
  BY <1>4, <1>5, <1>6, <1>7

\* A step of RunQuery keeps IInv.
LEMMA RunQueryIInv ==
    ASSUME IInv, RunQuery
    PROVE  IInv'
<1> USE DEF IInv
<1>1. messages' \in Seq(Message) /\ calls' \in Seq(ToolCall) /\ events' \in Seq(Events)
  BY DEF TypeOK, LoopOK, InSql, Contents, RunQuery
<1>2. asked' \in 0 .. MaxToolIterations /\ deltas' \in 0 .. MaxDeltas
  BY DEF TypeOK, RunQuery
<1>3. db' \in Transaction
  BY RaisedTransaction DEF Guards, TypeOK, RunQuery
<1>4. TypeOK'
  BY <1>1, <1>2, <1>3 DEF TypeOK, PCs, Contents, RunQuery
<1>5. ModeConfined' /\ SessionOK'
  BY RaisedTransaction DEF Usable, Guards, TypeOK, ModeConfined, SessionOK, InSql, RunQuery
<1>6. LoopOK'
  BY DEF TypeOK, LoopOK, InSql, Working, PCs, RunQuery
<1>7. StreamOK'
  BY DEF TypeOK, StreamOK, Final, RunQuery
<1> QED
  BY <1>4, <1>5, <1>6, <1>7

\* A step of RollBack keeps IInv.
LEMMA RollBackIInv ==
    ASSUME IInv, RollBack
    PROVE  IInv'
<1> USE DEF IInv
<1>1. messages' \in Seq(Message) /\ calls' \in Seq(ToolCall) /\ events' \in Seq(Events)
  BY ReportedTypes DEF TypeOK, LoopOK, InSql, Contents, RollBack, RolledBack, Transaction
<1>2. asked' \in 0 .. MaxToolIterations /\ deltas' \in 0 .. MaxDeltas
  BY DEF TypeOK, RollBack, Report, RolledBack, Transaction
<1>3. db' \in Transaction
  BY DEF Guards, TypeOK, RollBack, Report, RolledBack, Transaction
<1>4. TypeOK'
  BY <1>1, <1>2, <1>3 DEF TypeOK, PCs, Contents, RollBack, Report, RolledBack, Transaction
<1>5. ModeConfined' /\ SessionOK'
  BY DEF Usable, Guards, TypeOK, ModeConfined, SessionOK, InSql, RollBack, Report, RolledBack, Transaction
<1>6. LoopOK'
  BY DEF TypeOK, LoopOK, InSql, Working, PCs, RollBack, Report, RolledBack, Transaction
<1>7. StreamOK'
  BY DEF TypeOK, StreamOK, Final, RollBack, Report, RolledBack, Transaction
<1> QED
  BY <1>4, <1>5, <1>6, <1>7

\* A step of NextRound keeps IInv.
LEMMA NextRoundIInv ==
    ASSUME IInv, NextRound
    PROVE  IInv'
<1> USE DEF IInv
<1>1. messages' \in Seq(Message) /\ calls' \in Seq(ToolCall) /\ events' \in Seq(Events)
  BY DEF TypeOK, LoopOK, InSql, Contents, NextRound
<1>2. asked' \in 0 .. MaxToolIterations /\ deltas' \in 0 .. MaxDeltas
  BY DEF TypeOK, NextRound
<1>3. db' \in Transaction
  BY DEF Guards, TypeOK, NextRound
<1>4. TypeOK'
  BY <1>1, <1>2, <1>3 DEF TypeOK, PCs, Contents, NextRound
<1>5. ModeConfined' /\ SessionOK'
  BY DEF Usable, Guards, TypeOK, ModeConfined, SessionOK, InSql, NextRound
<1>6. LoopOK'
  BY DEF TypeOK, LoopOK, InSql, Working, PCs, NextRound
<1>7. StreamOK'
  BY DEF TypeOK, StreamOK, Final, NextRound
<1> QED
  BY <1>4, <1>5, <1>6, <1>7

\* A step of CloseSession keeps IInv.
LEMMA CloseSessionIInv ==
    ASSUME IInv, CloseSession
    PROVE  IInv'
<1> USE DEF IInv
<1>1. messages' \in Seq(Message) /\ calls' \in Seq(ToolCall) /\ events' \in Seq(Events)
  BY DEF TypeOK, LoopOK, InSql, Contents, CloseSession, Fresh, Transaction
<1>2. asked' \in 0 .. MaxToolIterations /\ deltas' \in 0 .. MaxDeltas
  BY DEF TypeOK, CloseSession, Fresh, Transaction
<1>3. db' \in Transaction
  BY DEF Guards, TypeOK, CloseSession, Fresh, Transaction
<1>4. TypeOK'
  BY <1>1, <1>2, <1>3 DEF TypeOK, PCs, Contents, CloseSession, Fresh, Transaction
<1>5. ModeConfined' /\ SessionOK'
  BY DEF Usable, Guards, TypeOK, ModeConfined, SessionOK, InSql, CloseSession, Fresh, Transaction
<1>6. LoopOK'
  BY DEF TypeOK, LoopOK, InSql, Working, PCs, CloseSession, Fresh, Transaction
<1>7. StreamOK'
  BY DEF TypeOK, StreamOK, Final, CloseSession, Fresh, Transaction
<1> QED
  BY <1>4, <1>5, <1>6, <1>7

\* A step of Disconnect keeps IInv.
LEMMA DisconnectIInv ==
    ASSUME IInv, Disconnect
    PROVE  IInv'
<1> USE DEF IInv
<1>1. messages' \in Seq(Message) /\ calls' \in Seq(ToolCall) /\ events' \in Seq(Events)
  BY DEF TypeOK, LoopOK, InSql, Contents, Disconnect
<1>2. asked' \in 0 .. MaxToolIterations /\ deltas' \in 0 .. MaxDeltas
  BY DEF TypeOK, Disconnect
<1>3. db' \in Transaction
  BY DEF Guards, TypeOK, Disconnect
<1>4. TypeOK'
  BY <1>1, <1>2, <1>3 DEF TypeOK, PCs, Contents, Disconnect
<1>5. ModeConfined' /\ SessionOK'
  BY DEF Usable, Guards, TypeOK, ModeConfined, SessionOK, InSql, Disconnect
<1>6. LoopOK'
  BY DEF TypeOK, LoopOK, InSql, Working, PCs, Disconnect
<1>7. StreamOK'
  BY DEF TypeOK, StreamOK, Final, Disconnect
<1> QED
  BY <1>4, <1>5, <1>6, <1>7

\* A step of CallTools keeps IInv.
LEMMA CallToolsIInv ==
    ASSUME IInv, NEW kinds \in KindSeqs, CallTools(kinds)
    PROVE  IInv'
<1> USE DEF IInv
<1> DEFINE ids == [n \in DOMAIN kinds |-> [turn |-> asked, n |-> n]]
           asking == [n \in DOMAIN kinds |-> [id |-> ids[n], kind |-> kinds[n]]]
<1>1. PICK k \in 1 .. MaxCalls : kinds \in [1 .. k -> Kinds]
  BY DEF KindSeqs
<1>2. asked \in 1 .. MaxToolIterations
  BY DEF TypeOK, LoopOK, CallTools, Working, PCs
<1>3. \A n \in 1 .. k : [turn |-> asked, n |-> n] \in Id
  <2> TAKE n \in 1 .. k
  <2>1. n \in 1 .. MaxCalls
    BY <1>1
  <2> QED
    BY <1>2, <2>1 DEF Id
<1>4. ids \in [1 .. k -> Id]
  BY <1>1, <1>3
<1>5. asking \in [1 .. k -> ToolCall]
  BY <1>1, <1>3 DEF ToolCall
<1>6. ids \in Seq(Id) /\ asking \in Seq(ToolCall)
  <2>1. k \in Nat
    BY <1>1
  <2> HIDE DEF ids, asking
  <2> QED
    BY <1>4, <1>5, <2>1, SeqDef
<1>7. AssistantMessage(ids) \in Message
  BY <1>6 DEF AssistantMessage, Message
<1>8. messages' = Append(messages, AssistantMessage(ids)) /\ calls' = asking
  BY DEF CallTools
<1>9. messages' \in Seq(Message) /\ calls' \in Seq(ToolCall)
  BY <1>6, <1>7, <1>8 DEF TypeOK
<1>10. TypeOK'
  BY <1>9 DEF TypeOK, PCs, CallTools
<1>11. ModeConfined' /\ SessionOK'
  BY DEF ModeConfined, SessionOK, InSql, CallTools
<1>12. LoopOK' /\ StreamOK'
  BY DEF LoopOK, StreamOK, InSql, Working, PCs, CallTools
<1> QED
  BY <1>10, <1>11, <1>12

\* Every step, and a stuttering step, keeps IInv.
LEMMA NextIInv == IInv /\ [Next]_vars => IInv'
<1> SUFFICES ASSUME IInv, [Next]_vars PROVE IInv'
  OBVIOUS
<1>1. CASE \E kinds \in KindSeqs : CallTools(kinds)
  BY <1>1, CallToolsIInv
<1>2. CASE UNCHANGED vars
  BY <1>2 DEF vars, IInv, TypeOK, ModeConfined, SessionOK, LoopOK, StreamOK
<1>3. CASE Step /\ ~\E kinds \in KindSeqs : CallTools(kinds)
  BY <1>3, GetDatasetDateRangeIInv,
         ListAdsIInv,
         EmitErrorIInv,
         AskProviderIInv,
         GiveUpIInv,
         TextDeltaIInv,
         ProviderFailsIInv,
         AnswerIInv,
         FinishIInv,
         RefuseCallIInv,
         ReadToolIInv,
         ValidateSqlIInv,
         BeginNestedIInv,
         SetRoleIInv,
         SetReadOnlyIInv,
         SetTimeoutIInv,
         RunQueryIInv,
         RollBackIInv,
         NextRoundIInv,
         CloseSessionIInv DEF Step
<1>4. CASE Disconnect
  BY <1>4, DisconnectIInv
<1> QED
  BY <1>1, <1>2, <1>3, <1>4 DEF Next

\* The invariant holds in every reachable state.
THEOREM Invariant == Spec => []IInv
<1>1. Init => IInv
  BY InitIInv
<1>2. IInv /\ [Next]_vars => IInv'
  BY NextIInv
<1> QED
  BY <1>1, <1>2, PTL DEF Spec

\* Handler, transaction, conversation and event stream keep their shape.
THEOREM TypeCorrect == Spec => []TypeOK
<1>1. IInv => TypeOK
  BY DEF IInv
<1> QED
  BY <1>1, Invariant, PTL

\* What run_sql_query sets never outlives the call.
THEOREM ModesConfined == Spec => []ModeConfined
<1>1. IInv => ModeConfined
  BY DEF IInv
<1> QED
  BY <1>1, Invariant, PTL

\* The model's SELECT always runs under all of its guards.
THEOREM QueriesGuarded == Spec => []QueryGuarded
<1>1. IInv => QueryGuarded
  BY DEF IInv, SessionOK, QueryGuarded
<1> QED
  BY <1>1, Invariant, PTL

\* The event stream has one end, and a client that stays is told of it.
THEOREM EndsOnce == Spec => []OneEnding
<1>1. IInv => OneEnding
  BY DEF IInv, StreamOK, OneEnding
<1> QED
  BY <1>1, Invariant, PTL

\* What run_sql_query found is known from its first step to its last.
LEMMA NextFound == IInv /\ FoundOK /\ [Next]_vars => FoundOK'
<1> SUFFICES ASSUME IInv, FoundOK, [Next]_vars PROVE FoundOK'
  OBVIOUS
<1>1. CASE \E content : Report(content)
  BY <1>1 DEF Report, FoundOK
<1>2. CASE ValidateSql /\ pc' = "savepoint"
  BY <1>2 DEF ValidateSql, Report, InSql, FoundOK
<1>3. CASE BeginNested /\ pc' = "role" /\ UNCHANGED found
  BY <1>3 DEF FoundOK, InSql
<1>4. CASE SetRole \/ SetReadOnly \/ SetTimeout \/ RunQuery
  BY <1>4 DEF SetRole, SetReadOnly, SetTimeout, Guarded, RunQuery, FoundOK, InSql
<1>5. CASE GetDatasetDateRange \/ ListAds \/ EmitError \/ AskProvider \/ GiveUp \/ TextDelta
  BY <1>5 DEF GetDatasetDateRange, ListAds, Prepare, EmitError, AskProvider, GiveUp, TextDelta,
       FoundOK, InSql
<1>6. CASE ProviderFails \/ Answer \/ Finish \/ NextRound \/ \E kinds \in KindSeqs : CallTools(kinds)
  BY <1>6 DEF ProviderFails, Answer, Finish, NextRound, CallTools, FoundOK, InSql
<1>7. CASE CloseSession \/ Disconnect \/ UNCHANGED vars
  BY <1>7 DEF CloseSession, Disconnect, vars, FoundOK
<1>8. CASE RefuseCall \/ ReadTool \/ ValidateSql \/ BeginNested \/ RollBack
  BY <1>1, <1>2, <1>3, <1>8 DEF RefuseCall, ReadTool, ValidateSql, BeginNested, RollBack
<1> QED
  BY <1>4, <1>5, <1>6, <1>7, <1>8 DEF Next, Step

\* A call of run_sql_query that finds the transaction usable leaves it usable
\* or its connection lost: what ends such a call is a SAVEPOINT that failed with
\* the connection or the rollback, whichever statement was rejected.
THEOREM QueriesHarmless == Spec => SqlNeverAborts
<1>1. Init => FoundOK
  BY DEF Init, FoundOK
<1>2. IInv /\ FoundOK /\ [Next]_vars => [found = "ok" /\ pc' = "tools" => db'.state \in {"ok", "lost"}]_vars
  <2> SUFFICES ASSUME IInv, FoundOK, Next, found = "ok", pc' = "tools"
               PROVE  db'.state \in {"ok", "lost"}
    BY DEF vars
  <2>1. db \in Transaction /\ pc \in InSql \cup {"savepoint", "ended", "closed"}
    BY DEF IInv, TypeOK, FoundOK
  <2>2. BeginNested \/ RollBack
    BY <2>1 DEF Next, Step, GetDatasetDateRange, ListAds, Prepare, EmitError, AskProvider, GiveUp,
           TextDelta, ProviderFails, Answer, Finish, CallTools, RefuseCall, ReadTool, ValidateSql,
           Running, SetRole, SetReadOnly, SetTimeout, Guarded, RunQuery, NextRound,
           CloseSession, Disconnect, InSql
  <2>3. CASE BeginNested
    <3>1. Usable /\ db' = [db EXCEPT !.state = "lost"]
      BY <2>3 DEF BeginNested, FoundOK, Usable
    <3> QED
      BY <2>1, <3>1 DEF Transaction
  <2>4. CASE RollBack
    BY <2>1, <2>4 DEF RollBack, RolledBack, Transaction
  <2> QED
    BY <2>2, <2>3, <2>4
<1> QED
  BY <1>1, <1>2, NextFound, Invariant, PTL DEF Spec, SqlNeverAborts

\* A step that leaves the conversation and the calls alone keeps ConversationOK.
LEMMA ConversationKept ==
    ASSUME ConversationOK, UNCHANGED <<messages, calls>>,
           pc' \in {"range", "ads", "ask", "stream"} => calls = <<>>
    PROVE  ConversationOK'
<1>1. messages' = messages /\ calls' = calls
  OBVIOUS
<1>2. ASSUME NEW i \in DOMAIN messages, messages[i].role = "assistant"
      PROVE  (Complete(i) \/ Pending(i))'
  <2>1. CASE Complete(i)
    <3>1. Complete(i)'
      BY <1>1, <2>1 DEF Complete, AnsweredUpTo
    <3> QED
      BY <3>1
  <2>2. CASE Pending(i)
    <3>1. Pending(i)'
      BY <1>1, <2>2 DEF Pending, AnsweredUpTo
    <3> QED
      BY <3>1
  <2> QED
    BY <1>2, <2>1, <2>2 DEF ConversationOK
<1> QED
  BY <1>1, <1>2 DEF ConversationOK

\* Executing a call answers the next one of the pending message.
LEMMA ReportConversation ==
    ASSUME TypeOK, ConversationOK, calls # <<>>,
           NEW content \in Contents, Report(content)
    PROVE  ConversationOK'
<1> DEFINE last == ToolMessage(Head(calls).id, content)
<1>1. /\ messages' = Append(messages, last) /\ calls' = Tail(calls) /\ pc' = "tools"
      /\ last.role = "tool" /\ last.calls = <<calls[1].id>>
  BY DEF Report, ToolMessage
<1> HIDE DEF last
<1>2. /\ Len(messages) \in Nat /\ Len(messages') = Len(messages) + 1
      /\ DOMAIN messages = 1 .. Len(messages) /\ DOMAIN messages' = 1 .. Len(messages')
      /\ \A j \in DOMAIN messages : messages'[j] = messages[j]
      /\ messages'[Len(messages) + 1] = last
  BY <1>1 DEF TypeOK
<1>3. /\ Len(calls) \in Nat \ {0} /\ Len(calls') = Len(calls) - 1
      /\ DOMAIN calls = 1 .. Len(calls) /\ DOMAIN calls' = 1 .. Len(calls')
      /\ \A n \in DOMAIN calls' : calls'[n] = calls[n + 1]
      /\ calls' = <<>> => Len(calls') = 0
      /\ calls' # <<>> => Len(calls') # 0
  <2>1. calls \in Seq(ToolCall) /\ calls # <<>> /\ calls' \in Seq(ToolCall)
    BY <1>1 DEF TypeOK
  <2>2. Len(calls) \in Nat \ {0} /\ Len(calls') = Len(calls) - 1
    BY <2>1, <1>1, EmptySeq, HeadTailProperties
  <2>3. \A n \in 1 .. Len(calls') : calls'[n] = calls[n + 1]
    BY <2>1, <1>1, HeadTailProperties
  <2>4. calls' # <<>> => Len(calls') # 0
    BY <2>1, EmptySeq
  <2> QED
    BY <2>1, <2>2, <2>3, <2>4, EmptySeq, LenProperties
<1>4. ASSUME NEW i \in DOMAIN messages', messages'[i].role = "assistant"
      PROVE  (Complete(i) \/ Pending(i))'
  <2>1. i \in DOMAIN messages /\ messages'[i] = messages[i]
    BY <1>1, <1>2, <1>4
  <2>2. i \in Nat /\ Len(messages[i].calls) \in Nat
    BY <2>1, <1>2 DEF TypeOK, Message
  <2>3. CASE Complete(i)
    <3>1. i + Len(messages[i].calls) + 1 \in DOMAIN messages
      BY <2>3 DEF Complete
    <3>2. Complete(i)'
      BY <2>1, <2>2, <2>3, <3>1, <1>2 DEF Complete, AnsweredUpTo
    <3> QED
      BY <3>2
  <2>4. CASE Pending(i)
    <3>1. PICK e \in Nat : e = Len(messages[i].calls) - Len(calls) /\ Len(messages) = i + e
      BY <2>1, <2>2, <2>4, <1>2, <1>3 DEF Pending
    <3>2. /\ AnsweredUpTo(i, e)
          /\ \A n \in DOMAIN calls : calls[n].id = messages[i].calls[e + n]
      BY <2>4, <3>1 DEF Pending
    <3>3. last.calls = <<messages[i].calls[e + 1]>>
      BY <3>2, <1>1, <1>3
    <3>4. AnsweredUpTo(i, e + 1)'
      <4> SUFFICES ASSUME NEW n \in 1 .. (e + 1)
                   PROVE  /\ i + n \in DOMAIN messages'
                          /\ messages'[i + n].role = "tool"
                          /\ messages'[i + n].calls = <<messages'[i].calls[n]>>
        BY DEF AnsweredUpTo
      <4>1. CASE n \in 1 .. e
        <5>1. /\ i + n \in DOMAIN messages
              /\ messages[i + n].role = "tool"
              /\ messages[i + n].calls = <<messages[i].calls[n]>>
          BY <4>1, <3>2 DEF AnsweredUpTo
        <5>2. i + n \in DOMAIN messages' /\ messages'[i + n] = messages[i + n]
          BY <5>1, <1>2
        <5> QED
          BY <5>1, <5>2, <2>1
      <4>2. CASE n = e + 1
        <5>1. i + n = Len(messages) + 1
          BY <4>2, <3>1, <2>2
        <5> QED
          BY <5>1, <4>2, <2>1, <3>3, <1>1, <1>2
      <4>3. n \in 1 .. e \/ n = e + 1
        BY <3>1
      <4> QED
        BY <4>1, <4>2, <4>3
    <3>5. /\ Len(messages'[i].calls) - Len(calls') = e + 1
          /\ Len(messages') = i + (e + 1)
      BY <2>1, <2>2, <3>1, <1>2, <1>3
    <3>6. CASE calls' = <<>>
      <4>1. Len(messages'[i].calls) = e + 1
        BY <2>1, <2>2, <3>5, <3>6, <1>3
      <4>2. i + Len(messages'[i].calls) + 1 \notin DOMAIN messages'
        BY <4>1, <3>5, <2>2, <1>2
      <4>3. Complete(i)'
        BY <3>4, <3>6, <4>1, <4>2 DEF Complete
      <4> QED
        BY <4>3
    <3>7. CASE calls' # <<>>
      <4>1. \A n \in DOMAIN calls' : calls'[n].id = messages'[i].calls[e + 1 + n]
        <5> SUFFICES ASSUME NEW n \in DOMAIN calls'
                     PROVE  calls'[n].id = messages'[i].calls[e + 1 + n]
          OBVIOUS
        <5>1. n + 1 \in DOMAIN calls /\ n \in Nat /\ calls'[n] = calls[n + 1]
          BY <1>3
        <5>2. calls[n + 1].id = messages[i].calls[e + (n + 1)]
          BY <5>1, <3>2
        <5>3. e + (n + 1) = e + 1 + n
          BY <5>1
        <5> QED
          BY <5>1, <5>2, <5>3, <2>1
      <4>2. Pending(i)'
        BY <3>4, <3>5, <3>7, <4>1 DEF Pending
      <4> QED
        BY <4>2
    <3> QED
      BY <3>6, <3>7
  <2> QED
    BY <1>4, <2>1, <2>3, <2>4 DEF ConversationOK
<1> QED
  BY <1>1, <1>4 DEF ConversationOK

\* An answer with tool calls is the pending message, and the others are complete.
LEMMA CallToolsConversation ==
    ASSUME IInv, ConversationOK, NEW kinds \in KindSeqs, CallTools(kinds)
    PROVE  ConversationOK'
<1> DEFINE ids == [n \in DOMAIN kinds |-> [turn |-> asked, n |-> n]]
           asking == AssistantMessage(ids)
<1>1. PICK k \in 1 .. MaxCalls : kinds \in [1 .. k -> Kinds]
  BY DEF KindSeqs
<1>2. /\ messages' = Append(messages, asking) /\ pc' = "tools" /\ calls = <<>>
      /\ asking.role = "assistant" /\ asking.calls = ids
  BY DEF CallTools, AssistantMessage, ConversationOK
<1>3. /\ calls' = [n \in 1 .. k |-> [id |-> ids[n], kind |-> kinds[n]]]
      /\ ids = [n \in 1 .. k |-> [turn |-> asked, n |-> n]]
  BY <1>1 DEF CallTools
<1>4. k \in Nat \ {0}
  BY <1>1
<1>5. /\ Len(calls') = k /\ DOMAIN calls' = 1 .. k /\ Len(ids) = k
      /\ \A n \in DOMAIN calls' : calls'[n].id = ids[n]
      /\ calls' # <<>>
  <2>1. DOMAIN calls' = 1 .. k /\ Len(calls') = k
    BY <1>3, <1>4
  <2>2. DOMAIN ids = 1 .. k /\ Len(ids) = k
    BY <1>3, <1>4
  <2>3. \A n \in DOMAIN calls' : calls'[n].id = ids[n]
    BY <1>3, <2>1
  <2>4. calls' # <<>>
    BY <2>1, <1>4, EmptySeq
  <2> QED
    BY <2>1, <2>2, <2>3, <2>4
<1> HIDE DEF ids, asking
<1>6. /\ Len(messages) \in Nat /\ Len(messages') = Len(messages) + 1
      /\ DOMAIN messages = 1 .. Len(messages) /\ DOMAIN messages' = 1 .. Len(messages')
      /\ \A j \in DOMAIN messages : messages'[j] = messages[j]
      /\ messages'[Len(messages) + 1] = asking
  BY <1>2 DEF IInv, TypeOK
<1>7. ASSUME NEW i \in DOMAIN messages, messages[i].role = "assistant"
      PROVE  Complete(i)'
  <2>1. Complete(i)
    BY <1>2, <1>7 DEF ConversationOK, Pending
  <2>2. i \in Nat \ {0} /\ Len(messages[i].calls) \in Nat
    BY <1>6, <1>7 DEF IInv, TypeOK, Message
  <2>3. i + Len(messages[i].calls) \in DOMAIN messages
    BY <2>1, <2>2, <1>6 DEF Complete, AnsweredUpTo
  <2> QED
    BY <2>1, <2>2, <2>3, <1>2, <1>6 DEF Complete, AnsweredUpTo
<1>8. PICK l \in Nat : l = Len(messages) + 1
  BY <1>6
<1>9. Pending(l)'
  <2>1. Len(messages') = l + 0 /\ messages'[l].calls = ids
    BY <1>2, <1>6, <1>8
  <2>2. Len(ids) - Len(calls') = 0
    BY <1>4, <1>5
  <2>3. \A n \in DOMAIN calls' : calls'[n].id = ids[0 + n]
    BY <1>4, <1>5
  <2>4. AnsweredUpTo(l, 0)'
    BY DEF AnsweredUpTo
  <2> QED
    BY <2>1, <2>2, <2>3, <2>4, <1>5 DEF Pending
<1>10. ASSUME NEW i \in DOMAIN messages', messages'[i].role = "assistant"
       PROVE  (Complete(i) \/ Pending(i))'
  <2>1. CASE i \in DOMAIN messages
    BY <1>6, <1>7, <1>10, <2>1
  <2>2. CASE i = l
    BY <1>9, <2>2
  <2> QED
    BY <1>6, <1>8, <2>1, <2>2
<1> QED
  BY <1>2, <1>10 DEF ConversationOK

\* The first messages make no calls.
LEMMA InitConversation == Init => ConversationOK
  BY DEF Init, ConversationOK, System, User

\* Every step keeps ConversationOK.
LEMMA NextConversation == IInv /\ ConversationOK /\ [Next]_vars => ConversationOK'
<1> SUFFICES ASSUME IInv, ConversationOK, [Next]_vars PROVE ConversationOK'
  OBVIOUS
<1>1. CASE \E kinds \in KindSeqs : CallTools(kinds)
  BY <1>1, CallToolsConversation
<1>2. CASE \E content \in Contents : calls # <<>> /\ Report(content)
  BY <1>2, ReportConversation DEF IInv
<1>3. CASE RefuseCall \/ ReadTool \/ ValidateSql
  BY <1>2, <1>3, ConversationKept DEF RefuseCall, ReadTool, ValidateSql, Running, Contents
<1>4. CASE BeginNested \/ RollBack
  BY <1>2, <1>4, ConversationKept
     DEF BeginNested, RollBack, Contents, IInv, TypeOK, LoopOK, InSql
<1>5. CASE SetRole \/ SetReadOnly \/ SetTimeout \/ RunQuery
  BY <1>5, ConversationKept DEF SetRole, SetReadOnly, SetTimeout, Guarded, RunQuery
<1>6. CASE GetDatasetDateRange \/ ListAds \/ EmitError \/ AskProvider \/ GiveUp
  BY <1>6, ConversationKept
     DEF GetDatasetDateRange, ListAds, Prepare, EmitError, AskProvider, GiveUp, ConversationOK
<1>7. CASE TextDelta \/ ProviderFails \/ Answer \/ Finish
  BY <1>7, ConversationKept DEF TextDelta, ProviderFails, Answer, Finish, ConversationOK
<1>8. CASE NextRound \/ CloseSession \/ Disconnect \/ UNCHANGED vars
  BY <1>8, ConversationKept DEF NextRound, CloseSession, Disconnect, ConversationOK, vars
<1> QED
  BY <1>1, <1>3, <1>4, <1>5, <1>6, <1>7, <1>8 DEF Next, Step

\* The provider is asked with a conversation it accepts: every call made in it
\* has its result, in order, whatever became of the calls.
THEOREM EveryCallAnswered == Spec => []CallsAnswered
<1>1. Init => ConversationOK
  BY InitConversation
<1>2. IInv /\ ConversationOK /\ [Next]_vars => ConversationOK'
  BY NextConversation
<1>3. ConversationOK /\ TypeOK => CallsAnswered
  <2> SUFFICES ASSUME ConversationOK, TypeOK, pc \in {"ask", "stream"},
                      NEW i \in DOMAIN messages, messages[i].role = "assistant"
               PROVE  LET ids == messages[i].calls
                          next == i + Len(ids) + 1
                      IN  /\ \A n \in DOMAIN ids :
                                /\ i + n \in DOMAIN messages
                                /\ messages[i + n].role = "tool"
                                /\ messages[i + n].calls = <<ids[n]>>
                          /\ next \in DOMAIN messages => messages[next].role = "assistant"
    BY DEF CallsAnswered
  <2>1. Complete(i)
    BY DEF ConversationOK, Pending
  <2>2. DOMAIN messages[i].calls = 1 .. Len(messages[i].calls)
    BY DEF TypeOK, Message
  <2> QED
    BY <2>1, <2>2 DEF Complete, AnsweredUpTo
<1> QED
  BY <1>1, <1>2, <1>3, Invariant, TypeCorrect, PTL DEF Spec

-----------------------------------------------------------------------------
(* How long a turn can be. *)

\* What is left of a round is a number.
LEMMA RestType == IInv => RestOfRound \in Nat
<1> SUFFICES ASSUME IInv PROVE RestOfRound \in Nat
  OBVIOUS
<1>1. /\ pc \in PCs /\ deltas \in Nat /\ deltas <= MaxDeltas /\ Len(calls) \in Nat
      /\ calls # <<>> => Len(calls) # 0
  BY EmptySeq DEF IInv, TypeOK
<1>2. pc \in InSql \cup {"savepoint"} => Len(calls) > 0
  BY <1>1 DEF IInv, LoopOK
<1>3. CASE pc = "stream"
  BY <1>1, <1>3 DEF RestOfRound
<1>4. CASE pc \in DOMAIN Executed
  <2>1. pc # "stream" /\ RestOfRound = 7 * Len(calls) + 4 - Executed[pc]
    BY <1>4 DEF RestOfRound, Executed
  <2>2. CASE pc = "tools"
    BY <1>1, <2>1, <2>2 DEF Executed
  <2>3. CASE pc # "tools"
    <3>1. pc \in InSql \cup {"savepoint"}
      BY <1>4, <2>3 DEF Executed, InSql
    <3>2. Executed[pc] \in 1 .. 6
      BY <1>4, <2>3 DEF Executed
    <3> QED
      BY <1>1, <1>2, <2>1, <3>1, <3>2
  <2> QED
    BY <2>2, <2>3
<1>5. CASE pc # "stream" /\ pc \notin DOMAIN Executed
  BY <1>1, <1>5 DEF RestOfRound, Executed, Around, PCs
<1> QED
  BY <1>3, <1>4, <1>5

\* What is left of a turn is a number.
LEMMA StepsType == IInv => RoundSteps \in Nat /\ RoundsLeft \in Nat /\ StepsLeft \in Nat
<1> SUFFICES ASSUME IInv
             PROVE  RoundSteps \in Nat /\ RoundsLeft \in Nat /\ StepsLeft \in Nat
  OBVIOUS
<1>1. RoundSteps \in Nat
  BY DEF RoundSteps
<1>2. RoundsLeft \in Nat
  BY DEF IInv, TypeOK, RoundsLeft
<1>3. RoundsLeft * RoundSteps \in Nat
  BY <1>1, <1>2
<1> QED
  BY <1>1, <1>2, <1>3, RestType DEF StepsLeft

\* Within a round it is the rest of the round that shrinks.
LEMMA RoundCountsDown ==
    ASSUME IInv, IInv', asked' = asked, RestOfRound' < RestOfRound
    PROVE  StepsLeft' < StepsLeft
<1>1. PICK n \in Nat : n = RoundsLeft * RoundSteps
  BY StepsType
<1>2. StepsLeft = n + RestOfRound /\ StepsLeft' = n + RestOfRound'
  <2>1. RoundsLeft' = RoundsLeft /\ RoundSteps' = RoundSteps
    BY DEF RoundsLeft, RoundSteps
  <2> QED
    BY <1>1, <2>1 DEF StepsLeft
<1>3. RestOfRound \in Nat /\ RestOfRound' \in Nat
  <2>1. IInv' => (RestOfRound \in Nat)'
    BY RestType, PTL
  <2> QED
    BY <2>1, RestType
<1> QED
  BY <1>1, <1>2, <1>3

\* A reported call takes a whole call's steps off the round.
LEMMA ReportCountsDown ==
    ASSUME IInv, IInv', asked' = asked, calls # <<>>, NEW content, Report(content),
           pc \in DOMAIN Executed
    PROVE  StepsLeft' < StepsLeft
<1>1. Len(calls) \in Nat \ {0} /\ Len(calls') = Len(calls) - 1
  <2>1. calls \in Seq(ToolCall)
    BY DEF IInv, TypeOK
  <2> QED
    BY <2>1, EmptySeq, HeadTailProperties DEF Report
<1>2. pc' = "tools"
  BY DEF Report
<1>3. RestOfRound' = 7 * (Len(calls) - 1) + 4
  BY <1>1, <1>2 DEF RestOfRound, Executed
<1>4. RestOfRound = 7 * Len(calls) + 4 - Executed[pc] /\ Executed[pc] \in 0 .. 6
  BY DEF RestOfRound, Executed
<1>5. RestOfRound' < RestOfRound
  BY <1>1, <1>3, <1>4
<1> QED
  BY <1>5, RoundCountsDown

\* A statement of run_sql_query takes one step off the round.
LEMMA SqlCountsDown ==
    ASSUME IInv, IInv', asked' = asked, calls' = calls,
           pc \in DOMAIN Executed, pc' \in DOMAIN Executed, Executed[pc] < Executed[pc']
    PROVE  StepsLeft' < StepsLeft
<1>1. Len(calls) \in Nat
  BY DEF IInv, TypeOK
<1>2. /\ RestOfRound = 7 * Len(calls) + 4 - Executed[pc]
      /\ RestOfRound' = 7 * Len(calls) + 4 - Executed[pc']
  BY DEF RestOfRound, Executed
<1>3. Executed[pc] \in 0 .. 6 /\ Executed[pc'] \in 0 .. 6
  BY DEF Executed
<1>4. RestOfRound' < RestOfRound
  BY <1>1, <1>2, <1>3
<1> QED
  BY <1>4, RoundCountsDown

\* Every step leaves fewer to take.
LEMMA NextCountsDown == ASSUME IInv, IInv', Next PROVE StepsLeft' < StepsLeft
<1>1. /\ Len(calls) \in Nat /\ deltas \in Nat /\ deltas <= MaxDeltas
      /\ deltas' \in Nat /\ pc \in PCs
  BY DEF IInv, TypeOK
<1>2. CASE AskProvider
  <2>1. /\ asked \in Nat /\ asked < MaxToolIterations /\ asked' = asked + 1
        /\ pc = "ask" /\ pc' = "stream" /\ deltas' = 0
    BY <1>2 DEF AskProvider, CapReached, IInv, TypeOK
  <2>2. RestOfRound' = MaxDeltas + 7 * MaxCalls + 5 /\ RestOfRound = 3
    BY <2>1 DEF RestOfRound, Executed, Around
  <2>3. RoundSteps \in Nat /\ RoundsLeft' \in Nat /\ RoundsLeft = RoundsLeft' + 1 /\ RoundSteps' = RoundSteps
    BY <2>1 DEF RoundSteps, RoundsLeft
  <2>4. PICK a \in Nat, s \in Nat : a = RoundsLeft' /\ s = RoundSteps
    BY <2>3
  <2>5. StepsLeft = (a + 1) * s + 3 /\ StepsLeft' = a * s + (MaxDeltas + 7 * MaxCalls + 5)
    BY <2>2, <2>3, <2>4 DEF StepsLeft
  <2>6. s = MaxDeltas + 7 * MaxCalls + 3
    BY <2>4 DEF RoundSteps
  <2>7. PICK m \in Nat : m = a * s
    OBVIOUS
  <2>8. (a + 1) * s = m + s
    BY <2>7
  <2> QED
    BY <2>5, <2>6, <2>7, <2>8
<1>3. CASE \E kinds \in KindSeqs : CallTools(kinds)
  <2>1. PICK k \in 1 .. MaxCalls : Len(calls') = k
    <3>1. PICK kinds \in KindSeqs : CallTools(kinds)
      BY <1>3
    <3>2. PICK k \in 1 .. MaxCalls : kinds \in [1 .. k -> Kinds]
      BY DEF KindSeqs
    <3>3. DOMAIN calls' = 1 .. k
      BY <3>1, <3>2 DEF CallTools
    <3>4. Len(calls') = k
      BY <3>3, LenProperties DEF IInv, TypeOK
    <3> QED
      BY <3>4
  <2>2. pc = "stream" /\ pc' = "tools" /\ asked' = asked
    BY <1>3 DEF CallTools
  <2>3. /\ RestOfRound = (MaxDeltas - deltas) + 7 * MaxCalls + 5
        /\ RestOfRound' = 7 * Len(calls') + 4
    BY <2>1, <2>2 DEF RestOfRound, Executed
  <2>4. RestOfRound' < RestOfRound
    BY <1>1, <2>1, <2>3
  <2> QED
    BY <2>2, <2>4, RoundCountsDown
<1>4. CASE TextDelta \/ ProviderFails \/ Answer
  <2>1. RestOfRound' < RestOfRound /\ asked' = asked
    BY <1>1, <1>4 DEF TextDelta, ProviderFails, Answer, RestOfRound, Executed, Around
  <2> QED
    BY <2>1, RoundCountsDown
<1>5. CASE GetDatasetDateRange \/ ListAds \/ EmitError \/ GiveUp \/ Finish \/ CloseSession
  <2>1. RestOfRound' < RestOfRound /\ asked' = asked
    BY <1>5 DEF GetDatasetDateRange, ListAds, Prepare, EmitError, GiveUp, Finish, CloseSession,
       RestOfRound, Executed, Around
  <2> QED
    BY <2>1, RoundCountsDown
<1>6. CASE NextRound
  <2>1. Len(calls) = 0 /\ pc = "tools" /\ pc' = "ask" /\ asked' = asked
    BY <1>6 DEF NextRound
  <2>2. RestOfRound = 4 /\ RestOfRound' = 3
    BY <2>1 DEF RestOfRound, Executed, Around
  <2> QED
    BY <2>1, <2>2, RoundCountsDown
<1>7. CASE \E content : Report(content) /\ calls # <<>> /\ asked' = asked /\ pc \in DOMAIN Executed
  BY <1>7, ReportCountsDown
<1>8. CASE RefuseCall \/ ReadTool \/ BeginNested \/ RollBack
  <2>1. CASE calls # <<>> /\ \E content : Report(content)
    <3>1. asked' = asked /\ pc \in DOMAIN Executed
      BY <1>8 DEF RefuseCall, ReadTool, BeginNested, RollBack, Running, Executed
    <3> QED
      BY <1>7, <2>1, <3>1
  <2>2. CASE ~(\E content : Report(content))
    <3>1. BeginNested /\ calls' = calls /\ pc = "savepoint" /\ pc' = "role" /\ asked' = asked
      BY <1>8, <2>2 DEF RefuseCall, ReadTool, BeginNested, RollBack
    <3> QED
      BY <3>1, SqlCountsDown DEF Executed
  <2>3. calls # <<>>
    BY <1>8 DEF RefuseCall, ReadTool, BeginNested, RollBack, Running, IInv, LoopOK, InSql
  <2> QED
    BY <2>1, <2>2, <2>3
<1>9. CASE ValidateSql
  <2>1. CASE pc' = "savepoint" /\ calls' = calls
    <3>1. pc = "tools" /\ asked' = asked
      BY <1>9 DEF ValidateSql, Running
    <3> QED
      BY <2>1, <3>1, SqlCountsDown DEF Executed
  <2>2. CASE Report("refused")
    <3>1. pc = "tools" /\ asked' = asked /\ calls # <<>>
      BY <1>9 DEF ValidateSql, Running
    <3>2. pc \in DOMAIN Executed
      BY <3>1 DEF Executed
    <3> QED
      BY <1>7, <2>2, <3>1, <3>2
  <2> QED
    BY <1>9, <2>1, <2>2 DEF ValidateSql
<1>10. CASE SetRole \/ SetReadOnly \/ SetTimeout \/ RunQuery
  <2>1. /\ asked' = asked /\ calls' = calls
        /\ pc \in {"role", "readonly", "timeout", "query"}
        /\ pc = "role" => pc' \in {"readonly", "rollback"}
        /\ pc = "readonly" => pc' \in {"timeout", "rollback"}
        /\ pc = "timeout" => pc' \in {"query", "rollback"}
        /\ pc = "query" => pc' = "rollback"
    BY <1>10 DEF SetRole, SetReadOnly, SetTimeout, Guarded, RunQuery
  <2>2. pc \in DOMAIN Executed /\ pc' \in DOMAIN Executed /\ Executed[pc] < Executed[pc']
    BY <2>1 DEF Executed
  <2> QED
    BY <2>1, <2>2, SqlCountsDown
<1>11. CASE Disconnect
  <2>1. pc' = "ended" /\ pc \notin {"ended", "closed"} /\ asked' = asked
    BY <1>11 DEF Disconnect
  <2>2. RestOfRound' = 1
    BY <2>1 DEF RestOfRound, Executed, Around
  <2>3. RestOfRound > 1
    <3>1. CASE pc = "stream"
      BY <1>1, <3>1 DEF RestOfRound
    <3>2. CASE pc = "tools"
      BY <1>1, <3>2 DEF RestOfRound, Executed
    <3>3. CASE pc \in InSql \cup {"savepoint"}
      <4>1. Len(calls) \in Nat \ {0}
        BY <1>1, <3>3, EmptySeq DEF IInv, LoopOK, TypeOK
      <4>2. pc \in DOMAIN Executed /\ Executed[pc] \in 1 .. 6 /\ pc # "stream"
        BY <3>3 DEF InSql, Executed
      <4>3. RestOfRound = 7 * Len(calls) + 4 - Executed[pc]
        BY <4>2 DEF RestOfRound
      <4> QED
        BY <4>1, <4>2, <4>3
    <3>4. CASE pc \in {"range", "ads", "ask", "failed", "finish"}
      BY <3>4 DEF RestOfRound, Executed, Around
    <3> QED
      BY <1>1, <2>1, <3>1, <3>2, <3>3, <3>4 DEF PCs, InSql
  <2> QED
    BY <2>1, <2>2, <2>3, RoundCountsDown
<1> QED
  BY <1>2, <1>3, <1>4, <1>5, <1>6, <1>8, <1>9, <1>10, <1>11 DEF Next, Step

\* Every step of a turn leaves fewer steps to take: with any cap, any number of
\* calls and whatever fails, a turn is over after at most
\* MaxToolIterations * RoundSteps + 5 of them.
THEOREM TurnCountsDown == Spec => CountsDown /\ [](StepsLeft \in Nat)
<1>1. IInv /\ IInv' /\ [Next]_vars => [StepsLeft' < StepsLeft]_vars
  BY NextCountsDown
<1>2. IInv => StepsLeft \in Nat
  BY StepsType
<1> QED
  BY <1>1, <1>2, Invariant, PTL DEF Spec, CountsDown

\* A turn writes no more events than it has steps.
THEOREM StreamStaysBounded == Spec => []StreamBounded
<1>1. Init => StreamBounded
  <2> SUFFICES ASSUME Init PROVE StreamBounded
    OBVIOUS
  <2>1. Len(events) = 0 /\ RoundsLeft = MaxToolIterations /\ RestOfRound = 5
    BY DEF Init, RoundsLeft, RestOfRound, Executed, Around
  <2>2. MaxToolIterations * RoundSteps \in Nat
    BY DEF RoundSteps
  <2> QED
    BY <2>1, <2>2 DEF StreamBounded, StepsLeft
<1>2. StreamBounded /\ IInv /\ IInv' /\ [Next]_vars => StreamBounded'
  <2> SUFFICES ASSUME StreamBounded, IInv, IInv', [Next]_vars PROVE StreamBounded'
    OBVIOUS
  <2>1. CASE UNCHANGED vars
    BY <2>1 DEF vars, StreamBounded, StepsLeft, RoundsLeft, RestOfRound, RoundSteps
  <2>2. CASE Next
    <3>1. StepsLeft' < StepsLeft
      BY <2>2, NextCountsDown
    <3>2. Len(events') \in Nat /\ Len(events) \in Nat /\ Len(events') <= Len(events) + 1
      <4>1. events' = events \/ \E e : events' = Append(events, e)
        BY <2>2 DEF Next, Step, GetDatasetDateRange, ListAds, Prepare, EmitError, AskProvider,
           GiveUp, TextDelta, ProviderFails, Answer, Finish, CallTools, RefuseCall, ReadTool,
           ValidateSql, BeginNested, SetRole, SetReadOnly, SetTimeout, Guarded, RunQuery,
           RollBack, NextRound, CloseSession, Disconnect, Emit
      <4> QED
        BY <4>1 DEF IInv, TypeOK
    <3>3. StepsLeft \in Nat /\ StepsLeft' \in Nat /\ MaxToolIterations * RoundSteps \in Nat
      <4>1. IInv => StepsLeft \in Nat
        BY StepsType
      <4>2. IInv' => (RoundSteps \in Nat /\ RoundsLeft \in Nat /\ StepsLeft \in Nat)'
        BY StepsType, PTL
      <4>3. RoundSteps \in Nat
        BY DEF RoundSteps
      <4> QED
        BY <4>1, <4>2, <4>3
    <3>4. RoundSteps' = RoundSteps
      BY DEF RoundSteps
    <3> DEFINE b == MaxToolIterations * RoundSteps
    <3>5. Len(events) + StepsLeft <= b + 5
      BY DEF StreamBounded
    <3>6. b \in Nat
      BY <3>3
    <3> HIDE DEF b
    <3>7. Len(events') + StepsLeft' <= b + 5
      BY <3>1, <3>2, <3>3, <3>5, <3>6
    <3> QED
      BY <3>4, <3>7 DEF b, StreamBounded
  <2> QED
    BY <2>1, <2>2
<1> QED
  BY <1>1, <1>2, Invariant, PTL DEF Spec
=============================================================================
