-------------------------- MODULE Dashboard_proofs --------------------------
(***************************************************************************)
(* Dashboard: what a request reads and finds while the tables are reset,   *)
(* for any datasets, any number of connections and of reseeds.             *)
(***************************************************************************)
EXTENDS Dashboard, Reports_proofs

USE DatasetsAssumption, BoundAssumption

\* What a statement may read from.
Data == Datasets \cup {Empty}

\* Each statement reads some of the three tables.
LEMMA ReadsFacts ==
    ASSUME NEW r \in Requests
    PROVE  /\ Statements(r) \in Nat \ {0}
           /\ \A n \in 1 .. Statements(r) : Reads(r)[n] # {} /\ Reads(r)[n] \subseteq Tables
<1> DEFINE ReadsWell(s) == /\ Len(s) \in Nat \ {0}
                           /\ \A n \in 1 .. Len(s) : s[n] # {} /\ s[n] \subseteq Tables
<1>1. ReadsWell(ListReads) /\ ReadsWell(WeeklyReads)
  BY DEF ListReads, WeeklyReads, Tables
<1>2. ReadsWell(CoverageReads) /\ ReadsWell(RankedReads)
  BY DEF CoverageReads, RankedReads, Tables
<1>3. ReadsWell(DetailReads)
  BY DEF DetailReads, Tables
<1>4. ReadsWell(StatsReads)
  BY DEF StatsReads, Tables
<1>5. Reads(r) \in {ListReads, CoverageReads, WeeklyReads, StatsReads, RankedReads, DetailReads}
  BY DEF Reads
<1> QED
  BY <1>1, <1>2, <1>3, <1>4, <1>5 DEF Statements

\* A dataset is not empty, and its metrics are of its ads.
LEMMA DataFacts ==
    ASSUME NEW d \in Data
    PROVE  /\ d # Empty => d \in Datasets /\ d.ads # {}
           /\ \A m \in d.metrics : m.ad \in d.ads
           /\ d = Empty => d.ads = {} /\ d.metrics = {}
  BY DEF Data, Empty

\* A truncated table is no dataset.
LEMMA EmptyIsNoDataset == Empty \notin Datasets
  BY DEF Empty

\* The requests of the two rounds differ.
LEMMA RoundsDiffer ==
    /\ FirstRound \cap Details = {}
    /\ FirstRound \subseteq Requests /\ Details \subseteq Requests /\ List \in FirstRound
    /\ \A a, b \in Ads : Detail(a) = Detail(b) => a = b
    /\ \A a \in Ads : Detail(a) \in Details /\ Detail(a)[2] = a
  BY DEF FirstRound, Details, Requests, Detail, List, Covering, Weekly, Overview, Ranking

\* How a request can stand after a statement.
LEMMA AfterFacts ==
    ASSUME NEW r \in Requests, NEW n, NEW data
    PROVE  /\ After(r, n, data) \in {"missing", "open", "answered"}
           /\ After(r, n, data) = "missing" => r \in Details /\ n = 1 /\ ~Found(r[2], data)
  BY DEF After, NoSuchAd, NoLine, Placed

\* A sequence and one element more.
LEMMA AppendFacts ==
    ASSUME NEW S, NEW s \in Seq(S), NEW e \in S
    PROVE  /\ Append(s, e) \in Seq(S) /\ Append(s, e) # <<>>
           /\ Len(s) \in Nat /\ DOMAIN s = 1 .. Len(s)
           /\ DOMAIN Append(s, e) = 1 .. Len(s) + 1
           /\ Append(s, e)[Len(s) + 1] = e
           /\ \A i \in DOMAIN s : Append(s, e)[i] = s[i]
<1>1. Append(s, e) \in Seq(S) /\ Len(Append(s, e)) = Len(s) + 1 /\ Len(s) \in Nat
  OBVIOUS
<1>2. DOMAIN Append(s, e) = 1 .. Len(s) + 1 /\ DOMAIN s = 1 .. Len(s)
  BY <1>1
<1>3. Append(s, e)[Len(s) + 1] = e /\ \A i \in 1 .. Len(s) : Append(s, e)[i] = s[i]
  OBVIOUS
<1> QED
  BY <1>1, <1>2, <1>3

\* What a statement does.
LEMMA ExecuteFacts ==
    ASSUME IInv, NEW r \in Requests, Execute(r)
    PROVE  /\ seen[r] \in Seq(Data) /\ seen'[r] = Append(seen[r], loaded)
           /\ seen' \in [Requests -> Seq(Data)]
           /\ status' \in [Requests -> {"off", "asked", "open"} \cup Good \cup Bad]
           /\ locks' \in [Requests -> SUBSET Tables]
           /\ status[r] = "open" /\ status'[r] \in {"missing", "open", "answered"}
           /\ status'[r] = "missing" => r \in Details /\ ~Found(r[2], loaded)
           /\ status'[r] \in {"open", "answered"} => locks'[r] # {}
           /\ status'[r] = "missing" => locks'[r] = {}
           /\ locks'[r] \cap Truncated = {}
           /\ \A q \in Requests \ {r} :
                  seen'[q] = seen[q] /\ status'[q] = status[q] /\ locks'[q] = locks[q]
<1>1. /\ seen \in [Requests -> Seq(Data)] /\ loaded \in Data
      /\ status \in [Requests -> {"off", "asked", "open"} \cup Good \cup Bad]
      /\ locks \in [Requests -> SUBSET Tables]
  BY DEF IInv, TypeOK, Data
<1>2. Len(seen[r]) \in Nat /\ Len(seen[r]) + 1 \in 1 .. Statements(r)
  BY <1>1, ReadsFacts DEF Execute, Unread
<1>3. Kept(r) # {} /\ Kept(r) \subseteq Tables
  BY <1>1, <1>2, ReadsFacts DEF Kept
<1>4. Kept(r) \cap Truncated = {}
  BY DEF IInv, LocksOK, Kept, Execute, Blocked, Wanted
<1>5. /\ seen'[r] = Append(seen[r], loaded) /\ seen' \in [Requests -> Seq(Data)]
      /\ \A q \in Requests \ {r} : seen'[q] = seen[q]
  <2>1. seen' = [seen EXCEPT ![r] = Append(seen[r], loaded)]
    BY DEF Execute
  <2>2. Append(seen[r], loaded) \in Seq(Data)
    BY <1>1
  <2> QED
    BY <1>1, <2>1, <2>2
<1>6. /\ status'[r] = After(r, Len(seen[r]) + 1, loaded)
      /\ \A q \in Requests \ {r} : status'[q] = status[q]
      /\ status' = [status EXCEPT ![r] = After(r, Len(seen[r]) + 1, loaded)]
  BY <1>1 DEF Execute
<1>7. /\ status'[r] \in {"missing", "open", "answered"}
      /\ status'[r] = "missing" => r \in Details /\ ~Found(r[2], loaded)
  BY <1>6, AfterFacts
<1>8. status' \in [Requests -> {"off", "asked", "open"} \cup Good \cup Bad]
  BY <1>1, <1>6, <1>7 DEF Good, Bad
<1>9. CASE status'[r] \in {"open", "answered"}
  <2>1. locks' = [locks EXCEPT ![r] = Kept(r)]
    BY <1>9 DEF Execute
  <2> QED
    BY <1>1, <1>3, <1>4, <1>5, <1>6, <1>7, <1>8, <1>9, <2>1 DEF Execute
<1>10. CASE status'[r] = "missing"
  <2>1. locks' = [locks EXCEPT ![r] = {}]
    BY <1>10 DEF Execute, Released
  <2> QED
    BY <1>1, <1>5, <1>6, <1>7, <1>8, <1>10, <2>1 DEF Execute
<1> QED
  BY <1>7, <1>9, <1>10

\* The initial state satisfies IInv.
LEMMA InitIInv == Init => IInv
<1> SUFFICES ASSUME Init PROVE IInv
  OBVIOUS
<1>1. TypeOK
  BY DEF Init, TypeOK
<1>2. LocksOK /\ WriterOK
  BY DEF Init, LocksOK, WriterOK, Truncated
<1>3. Undisturbed
  BY EmptyIsNoDataset, RoundsDiffer DEF Init, Undisturbed
<1>4. RoundsOK
  BY RoundsDiffer DEF Init, RoundsOK, Good
<1>5. OneDatasetPerAnswer /\ MissingMeansReseeded
  BY RoundsDiffer DEF Init, OneDatasetPerAnswer, MissingMeansReseeded
<1> QED
  BY <1>1, <1>2, <1>3, <1>4, <1>5 DEF IInv

\* A statement keeps IInv: what it reads is what the earlier ones of its
\* transaction read, whose tables cannot have been emptied meanwhile.
LEMMA ExecuteIInv == ASSUME IInv, NEW r \in Requests, Execute(r) PROVE IInv'
<1> USE ExecuteFacts
<1>1. loaded \in Data /\ loaded' = loaded /\ writer' = writer /\ excl' = excl /\ reseeds' = reseeds
      /\ page' = page /\ Truncated' = Truncated
  BY DEF IInv, TypeOK, Data, Execute, Truncated
<1>2. TypeOK'
  BY <1>1 DEF IInv, TypeOK, Data
<1>3. ASSUME NEW i \in DOMAIN seen[r], seen[r][i] # Empty PROVE loaded = seen[r][i]
  <2>1. seen[r] # <<>>
    BY <1>3
  <2> QED
    BY <1>3, <2>1 DEF IInv, LocksOK
<1>4. /\ DOMAIN seen'[r] = 1 .. Len(seen[r]) + 1 /\ DOMAIN seen[r] = 1 .. Len(seen[r])
      /\ Len(seen[r]) \in Nat
      /\ seen'[r][Len(seen[r]) + 1] = loaded
      /\ \A i \in DOMAIN seen[r] : seen'[r][i] = seen[r][i]
      /\ seen'[r] # <<>>
  <2>1. seen[r] \in Seq(Data) /\ seen'[r] = Append(seen[r], loaded)
    OBVIOUS
  <2>2. /\ Append(seen[r], loaded) # <<>> /\ Len(seen[r]) \in Nat
        /\ DOMAIN seen[r] = 1 .. Len(seen[r])
        /\ DOMAIN Append(seen[r], loaded) = 1 .. Len(seen[r]) + 1
        /\ Append(seen[r], loaded)[Len(seen[r]) + 1] = loaded
        /\ \A i \in DOMAIN seen[r] : Append(seen[r], loaded)[i] = seen[r][i]
    BY <1>1, <2>1, AppendFacts
  <2> QED
    BY <2>1, <2>2
<1>5. \A i \in DOMAIN seen'[r] : seen'[r][i] = loaded \/ seen'[r][i] = Empty
  BY <1>3, <1>4
<1>6. LocksOK'
  <2>1. ASSUME NEW q \in Requests, locks'[q] # {} PROVE status'[q] \in {"open", "answered"}
    BY <2>1 DEF IInv, LocksOK
  <2>2. ASSUME NEW q \in Requests, status'[q] = "open", seen'[q] # <<>> PROVE locks'[q] # {}
    BY <2>2 DEF IInv, LocksOK
  <2>3. ASSUME NEW q \in Requests PROVE locks'[q] \cap Truncated = {}
    BY DEF IInv, LocksOK
  <2>4. ASSUME NEW q \in Requests, NEW i \in DOMAIN seen'[q], locks'[q] # {}, seen'[q][i] # Empty
        PROVE  loaded = seen'[q][i]
    <3>1. CASE q = r
      BY <1>5, <2>4, <3>1
    <3>2. CASE q # r
      BY <2>4, <3>2 DEF IInv, LocksOK
    <3> QED
      BY <3>1, <3>2
  <2> QED
    BY <1>1, <2>1, <2>2, <2>3, <2>4 DEF LocksOK
<1>7. WriterOK'
  BY <1>1 DEF IInv, WriterOK
<1>8. OneDatasetPerAnswer'
  <2>1. ASSUME NEW q \in Requests, NEW i \in DOMAIN seen'[q], NEW j \in DOMAIN seen'[q],
               i < j, seen'[q][i] # Empty
        PROVE  seen'[q][j] = seen'[q][i]
    <3>1. CASE q # r
      BY <2>1, <3>1 DEF IInv, OneDatasetPerAnswer
    <3>2. CASE q = r /\ j = Len(seen[r]) + 1
      BY <1>4, <1>5, <2>1, <3>2
    <3>3. CASE q = r /\ j # Len(seen[r]) + 1
      <4>1. i \in DOMAIN seen[r] /\ j \in DOMAIN seen[r]
        BY <1>4, <2>1, <3>3
      <4> QED
        BY <1>4, <2>1, <3>3, <4>1 DEF IInv, OneDatasetPerAnswer
    <3> QED
      BY <3>1, <3>2, <3>3
  <2> QED
    BY <2>1 DEF OneDatasetPerAnswer
<1>9. Undisturbed'
  <2> SUFFICES ASSUME reseeds = 0
               PROVE  /\ writer = "idle" /\ loaded # Empty
                      /\ \A q \in Requests : \A i \in DOMAIN seen'[q] : seen'[q][i] = loaded
                      /\ \A a \in Ads : status'[Detail(a)] # "off" => a \in loaded.ads
    BY <1>1 DEF Undisturbed
  <2>1. writer = "idle" /\ loaded # Empty
    BY DEF IInv, Undisturbed
  <2>2. ASSUME NEW q \in Requests, NEW i \in DOMAIN seen'[q] PROVE seen'[q][i] = loaded
    <3>1. CASE q # r
      BY <2>2, <3>1 DEF IInv, Undisturbed
    <3>2. CASE q = r /\ i = Len(seen[r]) + 1
      BY <1>4, <3>2
    <3>3. CASE q = r /\ i # Len(seen[r]) + 1
      <4>1. i \in DOMAIN seen[r]
        BY <1>4, <2>2, <3>3
      <4> QED
        BY <1>4, <3>3, <4>1 DEF IInv, Undisturbed
    <3> QED
      BY <3>1, <3>2, <3>3
  <2>3. ASSUME NEW a \in Ads, status'[Detail(a)] # "off" PROVE a \in loaded.ads
    <3>1. status[Detail(a)] # "off"
      BY <2>3, RoundsDiffer
    <3> QED
      BY <3>1 DEF IInv, Undisturbed
  <2> QED
    BY <2>1, <2>2, <2>3
<1>10. RoundsOK'
  <2>1. ASSUME NEW q \in Requests
        PROVE  /\ status'[q] \in {"off", "asked"} => seen'[q] = <<>>
               /\ status'[q] \in Good => seen'[q] # <<>>
               /\ status'[q] # "error"
    <3>1. CASE q # r
      BY <3>1 DEF IInv, RoundsOK
    <3>2. CASE q = r
      BY <1>4, <3>2
    <3> QED
      BY <3>1, <3>2
  <2>2. page = "off" => \A q \in Requests : status'[q] = "off"
    BY DEF IInv, RoundsOK
  <2>3. page = "overview" => \A q \in Details : status'[q] = "off"
    BY RoundsDiffer DEF IInv, RoundsOK
  <2> QED
    BY <1>1, <2>1, <2>2, <2>3 DEF RoundsOK
<1>11. MissingMeansReseeded'
  <2> SUFFICES ASSUME NEW q \in Details, status'[q] = "missing", reseeds = 0 PROVE FALSE
    BY <1>1 DEF MissingMeansReseeded, IInv, TypeOK
  <2>1. q \in Requests /\ status[q] # "missing"
    BY RoundsDiffer DEF IInv, MissingMeansReseeded
  <2>2. q = r
    BY <2>1
  <2>3. PICK a \in Ads : r = Detail(a)
    BY <2>2 DEF Details
  <2>4. r[2] \notin loaded.ads
    BY <2>2 DEF Found
  <2>5. status[Detail(a)] # "off"
    BY <2>3
  <2>6. a \in loaded.ads
    BY <2>5 DEF IInv, Undisturbed
  <2>7. r[2] = a
    BY <2>3, RoundsDiffer
  <2> QED
    BY <2>4, <2>6, <2>7
<1> QED
  BY <1>2, <1>6, <1>7, <1>8, <1>9, <1>10, <1>11 DEF IInv

\* A step that changes one request's status to a failure or closed, and lets
\* its locks go, keeps IInv.
LEMMA EndIInv ==
    ASSUME IInv, NEW r \in Requests, status[r] \in {"open", "answered"},
           \/ status' = [status EXCEPT ![r] = "failed"] /\ seen' = [seen EXCEPT ![r] = <<>>]
           \/ status' = [status EXCEPT ![r] = "closed"] /\ seen' = seen /\ status[r] = "answered",
           locks' = Released(r),
           UNCHANGED <<loaded, writer, excl, reseeds, page>>
    PROVE  IInv'
<1>1. /\ status \in [Requests -> {"off", "asked", "open"} \cup Good \cup Bad]
      /\ seen \in [Requests -> Seq(Data)] /\ locks \in [Requests -> SUBSET Tables]
  BY DEF IInv, TypeOK, Data
<1>2. /\ status'[r] \in {"failed", "closed"} /\ locks'[r] = {}
      /\ seen'[r] = <<>> \/ seen'[r] = seen[r]
      /\ status'[r] = "closed" => seen'[r] = seen[r] /\ status[r] = "answered"
      /\ \A q \in Requests \ {r} :
             status'[q] = status[q] /\ seen'[q] = seen[q] /\ locks'[q] = locks[q]
  BY <1>1 DEF Released
<1>3. /\ status' \in [Requests -> {"off", "asked", "open"} \cup Good \cup Bad]
      /\ seen' \in [Requests -> Seq(Data)] /\ locks' \in [Requests -> SUBSET Tables]
  <2>1. <<>> \in Seq(Data) /\ "failed" \in Bad /\ "closed" \in Good
    BY DEF Good, Bad
  <2>2. seen' \in [Requests -> Seq(Data)]
    BY <1>1, <2>1
  <2>3. status' \in [Requests -> {"off", "asked", "open"} \cup Good \cup Bad]
    BY <1>1, <2>1
  <2>4. locks' \in [Requests -> SUBSET Tables]
    BY <1>1 DEF Released
  <2> QED
    BY <2>2, <2>3, <2>4
<1>4. TypeOK'
  BY <1>3 DEF IInv, TypeOK, Data
<1>5. Truncated' = Truncated
  BY DEF Truncated
<1>6. LocksOK'
  <2>1. ASSUME NEW q \in Requests
        PROVE  /\ locks'[q] # {} => status'[q] \in {"open", "answered"}
               /\ status'[q] = "open" /\ seen'[q] # <<>> => locks'[q] # {}
               /\ locks'[q] \cap Truncated = {}
    BY <1>2 DEF IInv, LocksOK
  <2>2. ASSUME NEW q \in Requests, NEW i \in DOMAIN seen'[q], locks'[q] # {}, seen'[q][i] # Empty
        PROVE  loaded = seen'[q][i]
    <3>1. q # r
      BY <1>2, <2>2
    <3> QED
      BY <1>2, <2>2, <3>1 DEF IInv, LocksOK
  <2> QED
    BY <1>5, <2>1, <2>2 DEF LocksOK
<1>7. WriterOK'
  BY DEF IInv, WriterOK
<1>8. \A q \in Requests : DOMAIN seen'[q] \subseteq DOMAIN seen[q]
                          /\ \A i \in DOMAIN seen'[q] : seen'[q][i] = seen[q][i]
  BY <1>2
<1>9. OneDatasetPerAnswer'
  BY <1>8 DEF IInv, OneDatasetPerAnswer
<1>10. Undisturbed'
  <2>1. ASSUME NEW a \in Ads, status'[Detail(a)] # "off" PROVE status[Detail(a)] # "off"
    BY <1>2, <2>1, RoundsDiffer
  <2> QED
    BY <1>8, <2>1 DEF IInv, Undisturbed
<1>11. RoundsOK'
  <2>1. ASSUME NEW q \in Requests
        PROVE  /\ status'[q] \in {"off", "asked"} => seen'[q] = <<>>
               /\ status'[q] \in Good => seen'[q] # <<>>
               /\ status'[q] # "error"
    <3>1. CASE q # r
      BY <1>2, <3>1 DEF IInv, RoundsOK
    <3>2. CASE q = r
      BY <1>2, <3>2 DEF IInv, RoundsOK, Good
    <3> QED
      BY <3>1, <3>2
  <2>2. (page = "off" => status[r] = "off") /\ (page = "overview" /\ r \in Details => status[r] = "off")
    BY DEF IInv, RoundsOK
  <2>3. page = "off" => \A q \in Requests : status'[q] = "off"
    BY <2>2
  <2>4. page = "overview" => \A q \in Details : status'[q] = "off"
    BY <1>2, <2>2, RoundsDiffer DEF IInv, RoundsOK
  <2> QED
    BY <2>1, <2>3, <2>4 DEF RoundsOK
<1>12. MissingMeansReseeded'
  BY <1>2, RoundsDiffer DEF IInv, MissingMeansReseeded
<1> QED
  BY <1>4, <1>6, <1>7, <1>9, <1>10, <1>11, <1>12 DEF IInv

\* A step of the page that asks for requests not asked before, of ads that
\* are there unless there was a reseed, keeps IInv.
LEMMA OpenedIInv ==
    ASSUME IInv, NEW rs \in SUBSET Requests, Opened(rs),
           \A r \in rs : status[r] = "off",
           \A a \in Ads : Detail(a) \in rs /\ reseeds = 0 => a \in loaded.ads,
           \/ page' = "overview" /\ rs \cap Details = {} /\ page = "off"
           \/ page' = "cards",
           UNCHANGED <<loaded, writer, excl, reseeds, seen, locks>>
    PROVE  IInv'
<1>1. /\ status' \in [Requests -> {"off", "asked", "open"} \cup Good \cup Bad]
      /\ \A r \in rs : status'[r] = "asked"
      /\ \A r \in Requests \ rs : status'[r] = status[r]
  BY DEF IInv, TypeOK, Opened
<1>2. TypeOK'
  BY <1>1 DEF IInv, TypeOK
<1>3. \A r \in rs : locks[r] = {} /\ seen[r] = <<>>
  BY DEF IInv, LocksOK, RoundsOK
<1>4. Truncated' = Truncated
  BY DEF Truncated
<1>5. LocksOK'
  BY <1>1, <1>3, <1>4 DEF IInv, LocksOK
<1>6. WriterOK' /\ OneDatasetPerAnswer'
  BY DEF IInv, WriterOK, OneDatasetPerAnswer
<1>7. Undisturbed'
  <2>1. ASSUME reseeds = 0, NEW a \in Ads, status'[Detail(a)] # "off" PROVE a \in loaded.ads
    BY <1>1, <2>1, RoundsDiffer DEF IInv, Undisturbed
  <2> QED
    BY <2>1 DEF IInv, Undisturbed
<1>8. RoundsOK'
  BY <1>1, <1>3, RoundsDiffer DEF IInv, RoundsOK, Good
<1>9. MissingMeansReseeded'
  BY <1>1, RoundsDiffer DEF IInv, MissingMeansReseeded
<1> QED
  BY <1>2, <1>5, <1>6, <1>7, <1>8, <1>9 DEF IInv

\* The reseed's own steps keep IInv: TRUNCATE commits when no reader holds a
\* table, and new rows come where there are none.
LEMMA WriterIInv ==
    ASSUME IInv, ResetTables \/ LockTable \/ CommitTruncate \/ CommitSeed \/ WriterFails
    PROVE  IInv'
<1>1. /\ UNCHANGED <<status, seen, locks, page>>
      /\ excl \in 0 .. 3 /\ reseeds \in 0 .. MaxReseeds
      /\ locks \in [Requests -> SUBSET Tables]
  BY DEF IInv, TypeOK, ResetTables, LockTable, CommitTruncate, CommitSeed, WriterFails
<1>2. reseeds' # 0 /\ reseeds' \in Nat
  BY <1>1 DEF IInv, Undisturbed, ResetTables, LockTable, CommitTruncate, CommitSeed, WriterFails
<1>3. TypeOK' /\ WriterOK'
  <2>1. CASE ResetTables
    BY <1>1, <2>1 DEF IInv, TypeOK, WriterOK, ResetTables
  <2>2. CASE LockTable
    BY <1>1, <2>2 DEF IInv, TypeOK, WriterOK, LockTable
  <2>3. CASE CommitTruncate
    BY <1>1, <2>3 DEF IInv, TypeOK, WriterOK, CommitTruncate
  <2>4. CASE CommitSeed
    BY <1>1, <2>4 DEF IInv, TypeOK, WriterOK, CommitSeed
  <2>5. CASE WriterFails
    BY <1>1, <2>5 DEF IInv, TypeOK, WriterOK, WriterFails
  <2> QED
    BY <2>1, <2>2, <2>3, <2>4, <2>5
<1>4. \A r \in Requests : locks[r] \cap Truncated' = {}
  <2>1. CASE LockTable
    <3>1. \A r \in Requests : locks[r] \cap Truncated = {} /\ LockOrder[excl + 1] \notin locks[r]
      BY <2>1 DEF IInv, LocksOK, LockTable, Awaited
    <3>2. 1 .. excl + 1 = 1 .. excl \cup {excl + 1}
      BY <1>1
    <3>3. Truncated' = Truncated \cup {LockOrder[excl + 1]}
      BY <2>1, <3>2 DEF Truncated, LockTable
    <3> QED
      BY <3>1, <3>3
  <2>2. CASE ResetTables
    BY <2>2 DEF IInv, LocksOK, ResetTables, Truncated
  <2>3. CASE CommitSeed
    BY <2>3 DEF IInv, LocksOK, CommitSeed, Truncated
  <2>4. CASE CommitTruncate \/ WriterFails
    BY <2>4 DEF CommitTruncate, WriterFails, Truncated
  <2> QED
    BY <2>1, <2>2, <2>3, <2>4
<1>5. ASSUME NEW r \in Requests, NEW i \in DOMAIN seen[r], locks[r] # {}, seen[r][i] # Empty
      PROVE  loaded' = seen[r][i]
  <2>1. loaded = seen[r][i]
    BY <1>5 DEF IInv, LocksOK
  <2>2. CASE ResetTables \/ LockTable \/ WriterFails
    BY <2>1, <2>2 DEF ResetTables, LockTable, WriterFails
  <2>3. CASE CommitSeed
    BY <1>5, <2>1, <2>3 DEF IInv, WriterOK, CommitSeed
  <2>4. CASE CommitTruncate
    <3>1. LockOrder[1] = "comments" /\ LockOrder[2] = "metrics" /\ LockOrder[3] = "ads"
      BY DEF LockOrder
    <3>2. Truncated = Tables
      BY <2>4, <3>1 DEF CommitTruncate, Truncated, Tables
    <3>3. locks[r] = {}
      BY <1>1, <3>2 DEF IInv, LocksOK
    <3> QED
      BY <1>5, <3>3
  <2> QED
    BY <2>2, <2>3, <2>4
<1>6. LocksOK'
  BY <1>1, <1>4, <1>5 DEF IInv, LocksOK
<1>7. Undisturbed'
  BY <1>2 DEF Undisturbed
<1>8. RoundsOK' /\ OneDatasetPerAnswer'
  BY <1>1 DEF IInv, RoundsOK, OneDatasetPerAnswer
<1>9. MissingMeansReseeded'
  BY <1>2 DEF MissingMeansReseeded
<1> QED
  BY <1>3, <1>6, <1>7, <1>8, <1>9 DEF IInv

\* A request that is taken on has read nothing yet.
LEMMA AuthenticateIInv == ASSUME IInv, NEW r \in Requests, Authenticate(r) PROVE IInv'
<1>1. /\ status' \in [Requests -> {"off", "asked", "open"} \cup Good \cup Bad]
      /\ status[r] = "asked" /\ status'[r] = "open"
      /\ \A q \in Requests \ {r} : status'[q] = status[q]
  BY DEF IInv, TypeOK, Authenticate
<1>2. seen[r] = <<>> /\ locks[r] = {}
  BY <1>1 DEF IInv, RoundsOK, LocksOK
<1>3. TypeOK' /\ WriterOK' /\ OneDatasetPerAnswer' /\ Truncated' = Truncated
  BY <1>1 DEF IInv, TypeOK, WriterOK, OneDatasetPerAnswer, Authenticate, Truncated
<1>4. LocksOK'
  BY <1>1, <1>2, <1>3 DEF IInv, LocksOK, Authenticate
<1>5. Undisturbed'
  BY <1>1, RoundsDiffer DEF IInv, Undisturbed, Authenticate
<1>6. RoundsOK'
  BY <1>1, RoundsDiffer DEF IInv, RoundsOK, Authenticate, Good
<1>7. MissingMeansReseeded'
  BY <1>1, RoundsDiffer DEF IInv, MissingMeansReseeded, Authenticate
<1> QED
  BY <1>3, <1>4, <1>5, <1>6, <1>7 DEF IInv

\* The page's steps that ask for nothing keep IInv.
LEMMA PageIInv == ASSUME IInv, Show \/ FailPage PROVE IInv'
<1>1. UNCHANGED <<loaded, writer, excl, reseeds, status, seen, locks>> /\ page' \in {"shown", "failed"}
  BY DEF Show, FailPage
<1>2. TypeOK' /\ WriterOK' /\ OneDatasetPerAnswer' /\ Truncated' = Truncated
  BY <1>1 DEF IInv, TypeOK, WriterOK, OneDatasetPerAnswer, Truncated
<1>3. LocksOK' /\ Undisturbed' /\ RoundsOK' /\ MissingMeansReseeded'
  BY <1>1, <1>2 DEF IInv, LocksOK, Undisturbed, RoundsOK, MissingMeansReseeded
<1> QED
  BY <1>2, <1>3 DEF IInv

\* IInv is inductive.
LEMMA NextIInv == IInv /\ [Next]_vars => IInv'
<1> SUFFICES ASSUME IInv, [Next]_vars PROVE IInv'
  OBVIOUS
<1>1. ASSUME NEW r \in Requests, GiveUp(r) PROVE IInv'
  BY <1>1, EndIInv DEF GiveUp
<1>2. ASSUME NEW r \in Requests, Close(r) PROVE IInv'
  BY <1>2, EndIInv DEF Close
<1>3. ASSUME NEW r \in Requests, BreakDeadlock(r) PROVE IInv'
  <2>1. status[r] = "open" /\ UNCHANGED <<loaded, reseeds, page>>
    BY <1>3 DEF BreakDeadlock, Deadlocked
  <2>2. CASE /\ status' = [status EXCEPT ![r] = "failed"] /\ seen' = [seen EXCEPT ![r] = <<>>]
             /\ locks' = Released(r) /\ UNCHANGED <<writer, excl>>
    BY <2>1, <2>2, EndIInv
  <2>3. CASE writer' = "idle" /\ excl' = 0 /\ UNCHANGED <<status, seen, locks>>
    <3>1. Awaited # {}
      BY <1>3 DEF BreakDeadlock, Deadlocked
    <3>2. WriterFails
      BY <2>1, <2>3, <3>1 DEF WriterFails, Awaited
    <3> QED
      BY <3>2, WriterIInv
  <2> QED
    BY <1>3, <2>2, <2>3 DEF BreakDeadlock
<1>4. CASE Home
  <2>1. \A r \in Requests : status[r] = "off"
    BY <1>4 DEF IInv, RoundsOK, Home
  <2> QED
    BY <1>4, <2>1, OpenedIInv, RoundsDiffer DEF Home
<1>5. CASE AskDetails
  <2> DEFINE rs == {Detail(a) : a \in Cards}
  <2>1. List \in Requests /\ seen[List] \in Seq(Data) /\ seen[List] # <<>>
    BY <1>5, RoundsDiffer DEF IInv, TypeOK, RoundsOK, AskDetails, Data
  <2>2. 1 \in DOMAIN seen[List] /\ seen[List][1] \in Data
    BY <2>1
  <2>3. Cards \subseteq Ads
    BY <2>2 DEF Cards, Data, Empty
  <2>4. rs \subseteq Details
    BY <2>3 DEF Details
  <2>5. \A r \in rs : status[r] = "off"
    BY <1>5, <2>4 DEF IInv, RoundsOK, AskDetails
  <2>6. ASSUME NEW a \in Ads, Detail(a) \in rs, reseeds = 0 PROVE a \in loaded.ads
    <3>1. a \in Cards
      BY <2>3, <2>6, RoundsDiffer
    <3>2. seen[List][1] = loaded
      BY <2>1, <2>2, <2>6 DEF IInv, Undisturbed
    <3> QED
      BY <3>1, <3>2 DEF Cards
  <2>7. rs \in SUBSET Requests
    BY <2>4, RoundsDiffer
  <2>8. Opened(rs) /\ page' = "cards" /\ UNCHANGED <<loaded, writer, excl, reseeds, seen, locks>>
    BY <1>5 DEF AskDetails
  <2> HIDE DEF rs
  <2> QED
    BY <2>5, <2>6, <2>7, <2>8, OpenedIInv
<1>6. CASE UNCHANGED vars
  <2>1. TypeOK' /\ Truncated' = Truncated
    BY <1>6 DEF vars, IInv, TypeOK, Truncated
  <2>2. LocksOK' /\ WriterOK' /\ Undisturbed' /\ RoundsOK'
    BY <1>6, <2>1 DEF vars, IInv, LocksOK, WriterOK, Undisturbed, RoundsOK
  <2>3. OneDatasetPerAnswer' /\ MissingMeansReseeded'
    BY <1>6 DEF vars, IInv, OneDatasetPerAnswer, MissingMeansReseeded
  <2> QED
    BY <2>1, <2>2, <2>3 DEF IInv
<1> QED
  BY <1>1, <1>2, <1>3, <1>4, <1>5, <1>6, AuthenticateIInv, ExecuteIInv, WriterIInv, PageIInv
  DEF Next, Serve, Browse, Reseed

\* Readers and reseed keep out of each other's way as IInv says, for any
\* datasets and any number of connections and reseeds.
THEOREM Invariant == Spec => []IInv
  BY InitIInv, NextIInv, PTL DEF Spec

\* No answer mixes two datasets, however many reseeds there are.
THEOREM AnswersFromOneDataset == Spec => []OneDatasetPerAnswer
<1>1. IInv => OneDatasetPerAnswer
  BY DEF IInv
<1> QED
  BY <1>1, Invariant, PTL

\* Without a reseed no card is missing.
THEOREM CardsFound == Spec => []MissingMeansReseeded
<1>1. IInv => MissingMeansReseeded
  BY DEF IInv
<1> QED
  BY <1>1, Invariant, PTL

\* The heatmap never fails on a row whose ad was not listed, nor loses one but
\* when no ad was listed at all.
THEOREM HeatmapWhole == Spec => []CoverageWhole
<1>1. ASSUME IInv PROVE CoverageWhole
  <2>1. Covering \in Requests
    BY DEF Requests, FirstRound
  <2>2. status[Covering] # "error"
    BY <1>1, <2>1 DEF IInv, RoundsOK
  <2>3. ASSUME HasAnswered(Covering), seen[Covering][1].ads # {}
        PROVE  Placed(seen[Covering][1].ads, seen[Covering][2].metrics) = seen[Covering][2].metrics
    <3>1. Reads(Covering) = CoverageReads
      BY DEF Reads, Covering, List, Weekly, Overview, Ranking
    <3>2. seen[Covering] \in Seq(Data) /\ Len(seen[Covering]) = 2
      BY <1>1, <2>1, <2>3, <3>1 DEF HasAnswered, Statements, CoverageReads, IInv, TypeOK, Data
    <3>3. 1 \in DOMAIN seen[Covering] /\ 2 \in DOMAIN seen[Covering] /\ seen[Covering][1] \in Data
      BY <3>2
    <3>4. seen[Covering][1] # Empty
      BY <2>3 DEF Empty
    <3>5. seen[Covering][2] = seen[Covering][1]
      BY <1>1, <2>1, <3>3, <3>4 DEF IInv, OneDatasetPerAnswer
    <3>6. \A m \in seen[Covering][1].metrics : m.ad \in seen[Covering][1].ads
      BY <3>3, DataFacts
    <3> QED
      BY <3>5, <3>6 DEF Placed
  <2> QED
    BY <2>2, <2>3 DEF CoverageWhole
<1> QED
  BY <1>1, Invariant, PTL

----------------------------------------------------------------------------
(* What the page shows. *)

\* What a finished request has read.
LEMMA AnsweredFacts ==
    ASSUME IInv, NEW r \in Requests, HasAnswered(r)
    PROVE  /\ seen[r] \in Seq(Data)
           /\ DOMAIN seen[r] = 1 .. Statements(r)
           /\ \A i \in 1 .. Statements(r) : seen[r][i] \in Data
<1>1. seen[r] \in Seq(Data)
  BY DEF IInv, TypeOK, Data
<1> QED
  BY <1>1 DEF HasAnswered

\* How many statements each request has.
LEMMA StatementCounts ==
    /\ Statements(List) = 1 /\ Statements(Covering) = 2 /\ Statements(Weekly) = 1
    /\ Statements(Overview) = 4 /\ Statements(Ranking) = 2
    /\ \A a \in Ads : Statements(Detail(a)) = 3
<1>1. Reads(List) = ListReads /\ Reads(Covering) = CoverageReads /\ Reads(Weekly) = WeeklyReads
  BY DEF Reads, List, Covering, Weekly, Overview, Ranking
<1>2. Reads(Overview) = StatsReads /\ Reads(Ranking) = RankedReads
  BY DEF Reads, List, Covering, Weekly, Overview, Ranking
<1>3. Len(ListReads) = 1 /\ Len(CoverageReads) = 2 /\ Len(WeeklyReads) = 1
  BY DEF ListReads, CoverageReads, WeeklyReads
<1>4. Len(StatsReads) = 4 /\ Len(RankedReads) = 2
  BY DEF StatsReads, RankedReads
<1>5. Len(DetailReads) = 3
  BY DEF DetailReads
<1>6. ASSUME NEW a \in Ads
      PROVE  Statements(Detail(a)) = 3
  <2>1. Detail(a) \notin FirstRound
    BY RoundsDiffer
  <2>2. Reads(Detail(a)) = DetailReads
    BY <2>1 DEF Reads, FirstRound
  <2> QED
    BY <1>5, <2>2 DEF Statements
<1> QED
  BY <1>1, <1>2, <1>3, <1>4, <1>6 DEF Statements

\* A dataset's rows, and the period of all of them.
LEMMA DatasetFacts ==
    ASSUME NEW d \in Datasets
    PROVE  /\ d.ads \subseteq Ads /\ IsFiniteSet(d.ads)
           /\ d.metrics \in SUBSET AdMetric /\ IsFiniteSet(d.metrics)
           /\ \A m \in d.metrics : m.ad \in d.ads
           /\ d.metrics # {} => InPeriod(d.metrics, DateRange(d.metrics)) = d.metrics
  BY RowsAssumption, WholePeriod

\* A ranking that found no period ends with its first statement.
LEMMA InitPeriodOK == Init => PeriodOK
<1>1. Ranking \in Requests
  BY DEF Requests, FirstRound
<1> QED
  BY <1>1 DEF Init, PeriodOK

\* Every step keeps PeriodOK.
LEMMA NextPeriodOK == IInv /\ PeriodOK /\ [Next]_vars => PeriodOK'
<1> SUFFICES ASSUME IInv, PeriodOK, [Next]_vars PROVE PeriodOK'
  OBVIOUS
<1>1. Ranking \in Requests /\ Ranking \in FirstRound
  BY DEF Requests, FirstRound
<1>2. /\ seen \in [Requests -> Seq(Data)]
      /\ status \in [Requests -> {"off", "asked", "open"} \cup Good \cup Bad]
  BY DEF IInv, TypeOK, Data
<1>3. ASSUME seen'[Ranking] = seen[Ranking],
             status'[Ranking] = "open" => status[Ranking] = "open" \/ seen[Ranking] = <<>>
      PROVE  PeriodOK'
  BY <1>3 DEF PeriodOK
<1>4. ASSUME seen'[Ranking] = <<>>
      PROVE  PeriodOK'
  BY <1>4 DEF PeriodOK
<1>5. ASSUME NEW r \in Requests, Execute(r)
      PROVE  PeriodOK'
  <2>1. CASE r # Ranking
    BY <1>1, <1>2, <1>3, <1>5, <2>1 DEF Execute
  <2>2. CASE r = Ranking
    <3> DEFINE s == seen[Ranking]
    <3>1. s \in Seq(Data) /\ loaded \in Data
      BY <1>1, <1>2 DEF IInv, TypeOK, Data
    <3>2. seen'[Ranking] = Append(s, loaded) /\ status[Ranking] = "open"
      BY <1>1, <1>2, <1>5, <2>2 DEF Execute
    <3>3. status'[Ranking] = After(Ranking, Len(s) + 1, loaded)
      BY <1>1, <1>2, <1>5, <2>2 DEF Execute
    <3>4. CASE s = <<>>
      <4>1. seen'[Ranking] = <<loaded>>
        BY <3>1, <3>2, <3>4
      <4>2. status'[Ranking] = "open" => loaded.metrics # {}
        BY <3>3, <3>4, RoundsDiffer DEF After, NoSuchAd, NoLine, NoPeriod
      <4> QED
        BY <4>1, <4>2 DEF PeriodOK
    <3>5. CASE s # <<>>
      <4>1. s[1].metrics # {}
        BY <3>2, <3>5 DEF PeriodOK
      <4>2. Append(s, loaded)[1] = s[1]
        BY <3>1, <3>5
      <4> QED
        BY <3>2, <4>1, <4>2 DEF PeriodOK
    <3> QED
      BY <3>4, <3>5
  <2> QED
    BY <2>1, <2>2
<1>6. ASSUME NEW r \in Requests, Authenticate(r)
      PROVE  PeriodOK'
  <2>1. status[r] = "asked" /\ seen' = seen /\ status' = [status EXCEPT ![r] = "open"]
    BY <1>6 DEF Authenticate
  <2>2. seen[r] = <<>>
    BY <2>1 DEF IInv, RoundsOK
  <2> QED
    BY <1>1, <1>2, <1>3, <2>1, <2>2
<1>7. ASSUME NEW r \in Requests,
             \/ status' = [status EXCEPT ![r] = "failed"] /\ seen' = [seen EXCEPT ![r] = <<>>]
             \/ status' = [status EXCEPT ![r] = "closed"] /\ seen' = seen
      PROVE  PeriodOK'
  <2>1. CASE r = Ranking
    BY <1>1, <1>2, <1>3, <1>4, <1>7, <2>1
  <2>2. CASE r # Ranking
    BY <1>1, <1>2, <1>3, <1>7, <2>2
  <2> QED
    BY <2>1, <2>2
<1>8. ASSUME UNCHANGED <<status, seen>>
      PROVE  PeriodOK'
  BY <1>8 DEF PeriodOK
<1>9. ASSUME NEW r \in Requests, GiveUp(r) \/ Close(r) \/ BreakDeadlock(r)
      PROVE  PeriodOK'
  BY <1>7, <1>8, <1>9 DEF GiveUp, Close, BreakDeadlock
<1>10. CASE Home \/ AskDetails
  <2>1. PICK rs : Opened(rs) /\ seen' = seen
    BY <1>10 DEF Home, AskDetails
  <2>2. status'[Ranking] \in {"asked", status[Ranking]}
    BY <1>1, <2>1 DEF Opened
  <2> QED
    BY <1>3, <2>1, <2>2
<1>11. CASE Show \/ FailPage
  BY <1>8, <1>11 DEF Show, FailPage
<1>12. CASE ResetTables \/ LockTable \/ CommitTruncate \/ CommitSeed \/ WriterFails
  BY <1>8, <1>12 DEF ResetTables, LockTable, CommitTruncate, CommitSeed, WriterFails
<1>13. CASE UNCHANGED vars
  BY <1>8, <1>13 DEF vars
<1> QED
  BY <1>5, <1>6, <1>9, <1>10, <1>11, <1>12, <1>13 DEF Next, Serve, Browse, Reseed

\* Both statements of a ranking read one dataset, which has rows.
LEMMA RankedDataset ==
    ASSUME IInv, PeriodOK, HasAnswered(Ranking)
    PROVE  /\ seen[Ranking][2] \in Datasets /\ seen[Ranking][1] = seen[Ranking][2]
           /\ seen[Ranking][2].metrics # {}
<1>1. Ranking \in Requests
  BY DEF Requests, FirstRound
<1>2. /\ DOMAIN seen[Ranking] = 1 .. 2 /\ Len(seen[Ranking]) = 2
      /\ seen[Ranking][1] \in Data /\ seen[Ranking][2] \in Data
  <2>1. Statements(Ranking) = 2 /\ 1 \in 1 .. 2 /\ 2 \in 1 .. 2
    BY StatementCounts
  <2>2. DOMAIN seen[Ranking] = 1 .. 2 /\ \A i \in 1 .. 2 : seen[Ranking][i] \in Data
    BY <1>1, <2>1, AnsweredFacts
  <2>3. Len(seen[Ranking]) = 2
    BY <2>1 DEF HasAnswered
  <2> QED
    BY <2>1, <2>2, <2>3
<1>3. seen[Ranking][1].metrics # {}
  BY <1>2 DEF PeriodOK
<1>4. seen[Ranking][1] # Empty
  BY <1>3 DEF Empty
<1>5. seen[Ranking][2] = seen[Ranking][1]
  BY <1>1, <1>2, <1>4 DEF IInv, OneDatasetPerAnswer
<1> QED
  BY <1>2, <1>3, <1>4, <1>5 DEF Data

\* The ranking is the best ads of all dates, whatever the datasets hold.
THEOREM RankingIsBest == Spec => []RankedBest
<1>1. ASSUME IInv, PeriodOK PROVE RankedBest
  <2> SUFFICES ASSUME HasAnswered(Ranking) PROVE RankedBest
    BY DEF RankedBest
  <2>1. PICK d : d = seen[Ranking][2]
    OBVIOUS
  <2>2. d \in Datasets /\ seen[Ranking][1] = d /\ d.metrics # {}
    BY <1>1, <2>1, RankedDataset
  <2>3. RankedAnswer = RankAds(d.ads, d.metrics, DateRange(d.metrics))
    BY <2>1, <2>2 DEF RankedAnswer
  <2> QED
    BY <2>1, <2>2, <2>3, DatasetFacts, RankingFacts DEF RankedBest, WholeOf
<1> QED
  BY <1>1, InitPeriodOK, NextPeriodOK, InitIInv, NextIInv, PTL DEF Spec

\* What the requests of a page read, when all of it is of one dataset.
LEMMA PageDataset ==
    ASSUME IInv, NEW d \in Datasets,
           \A r \in PageRequests : HasAnswered(r) /\ \A i \in DOMAIN seen[r] : seen[r][i] = d
    PROVE  /\ Cards = d.ads /\ seen[Overview][1] = d
           /\ seen[Covering][1] = d /\ seen[Covering][2] = d /\ seen[Weekly][1] = d
           /\ HasAnswered(Ranking) /\ seen[Ranking][1] = d /\ seen[Ranking][2] = d
           /\ \A a \in d.ads : seen[Detail(a)][2] = d
<1>1. FirstRound \subseteq PageRequests /\ FirstRound \subseteq Requests
  BY RoundsDiffer DEF PageRequests
<1>2. \A r \in PageRequests \cap Requests : \A i \in 1 .. Statements(r) : seen[r][i] = d
  BY AnsweredFacts
<1>3. /\ List \in FirstRound /\ Overview \in FirstRound /\ Covering \in FirstRound
      /\ Weekly \in FirstRound /\ Ranking \in FirstRound
  BY DEF FirstRound
<1>4. seen[List][1] = d /\ seen[Overview][1] = d /\ seen[Weekly][1] = d
  BY <1>1, <1>2, <1>3, StatementCounts
<1>5. seen[Covering][1] = d /\ seen[Covering][2] = d /\ seen[Ranking][1] = d /\ seen[Ranking][2] = d
  BY <1>1, <1>2, <1>3, StatementCounts
<1>6. Cards = d.ads
  BY <1>4 DEF Cards
<1>7. ASSUME NEW a \in d.ads PROVE seen[Detail(a)][2] = d
  <2>1. a \in Ads /\ Statements(Detail(a)) = 3
    BY DatasetFacts, StatementCounts
  <2>2. Detail(a) \in PageRequests \cap Requests
    BY <1>6, <2>1, RoundsDiffer DEF PageRequests
  <2> QED
    BY <1>2, <2>1, <2>2
<1> QED
  BY <1>1, <1>3, <1>4, <1>5, <1>6, <1>7

\* A page shown from one dataset agrees with itself, whatever it holds.
THEOREM PageIsConsistent == Spec => []PageAgrees
<1>1. ASSUME IInv, PeriodOK PROVE PageAgrees
  <2> SUFFICES ASSUME NEW d \in Datasets,
                      \A r \in PageRequests : HasAnswered(r) /\ \A i \in DOMAIN seen[r] : seen[r][i] = d
               PROVE  PageAgrees
    BY DEF PageAgrees, FromOneDataset
  <2>1. PICK ads, rows : ads = d.ads /\ rows = d.metrics
    OBVIOUS
  <2>2. /\ rows \in SUBSET AdMetric /\ IsFiniteSet(rows)
        /\ IsFiniteSet(ads) /\ \A m \in rows : m.ad \in ads
    BY <2>1, DatasetFacts
  <2>3. /\ Cards = ads /\ seen[Overview][1] = d
        /\ CoverageAnswer = Coverage(ads, rows) /\ WeeklyAnswer = WeeklySummary(rows)
        /\ RankedAnswer = RankAds(ads, rows, DateRange(rows))
        /\ \A a \in ads : DetailAnswer(a) = AdDetail(a, rows)
    BY <1>1, <2>1, PageDataset
    DEF CoverageAnswer, WeeklyAnswer, RankedAnswer, DetailAnswer
  <2>4. rows # {}
    BY <1>1, <2>1, PageDataset, RankedDataset
  <2>5. Cardinality(seen[Overview][1].ads) = Cardinality(Cards)
    BY <2>1, <2>3
  <2>6. SumFunction([p \in Platforms |-> SumFunction(WeeklyAnswer.series[p])])
          = SumFunction([a \in Cards |-> DetailAnswer(a).impressions])
    <3>1. SumFunction([p \in Platforms |-> SumFunction(WeeklySummary(rows).series[p])])
            = Total(rows, "impressions")
      BY <2>2, ChartTotals
    <3>2. SumFunction([a \in ads |-> AdDetail(a, rows).impressions]) = Total(rows, "impressions")
      BY <2>2, CardTotals
    <3>3. [a \in Cards |-> DetailAnswer(a).impressions] = [a \in ads |-> AdDetail(a, rows).impressions]
      BY <2>3
    <3> QED
      BY <2>3, <3>1, <3>2, <3>3
  <2>7. ASSUME NEW i \in DOMAIN RankedAnswer
        PROVE  /\ RankedAnswer[i].impressions = DetailAnswer(RankedAnswer[i].ad).impressions
               /\ RankedAnswer[i].clicks = DetailAnswer(RankedAnswer[i].ad).clicks
    <3>1. InPeriod(rows, DateRange(rows)) = rows
      BY <2>2, <2>4, WholePeriod
    <3>2. PICK best : best = RankedAnswer[i]
      OBVIOUS
    <3>3. best.ad \in {m.ad : m \in rows} /\ best = WholeOf(best.ad, rows)
      BY <2>2, <2>3, <3>1, <3>2, RankingFacts
    <3>4. best.ad \in ads
      BY <2>2, <3>3
    <3>5. /\ WholeOf(best.ad, rows).impressions = AdDetail(best.ad, rows).impressions
          /\ WholeOf(best.ad, rows).clicks = AdDetail(best.ad, rows).clicks
      BY DEF WholeOf
    <3> QED
      BY <2>3, <3>2, <3>3, <3>4, <3>5
  <2>8. /\ CoverageAnswer.weeks = WeeklyAnswer.weeks
        /\ \A a \in Cards : UNION {CoverageAnswer.cells[a][i] : i \in DOMAIN CoverageAnswer.weeks}
                            = DetailAnswer(a).platforms
    <3>1. PICK c : c = Coverage(ads, rows)
      OBVIOUS
    <3>2. ASSUME NEW a \in ads
          PROVE  UNION {c.cells[a][i] : i \in DOMAIN c.weeks} = AdDetail(a, rows).platforms
      BY <2>2, <3>1, HeatmapLine
    <3>3. c.weeks = WeeklySummary(rows).weeks
      BY <3>1 DEF Coverage, WeeklySummary
    <3> QED
      BY <2>3, <3>1, <3>2, <3>3
  <2> QED
    BY <2>5, <2>6, <2>7, <2>8 DEF PageAgrees
<1> QED
  BY <1>1, InitPeriodOK, NextPeriodOK, InitIInv, NextIInv, PTL DEF Spec

----------------------------------------------------------------------------
(* Connections and waiting. *)

\* What a step does to the state of a request: it gets a connection, reads, or
\* is through with it; or its state stays out of the pool or what it was.
LEMMA StatusSteps ==
    ASSUME IInv, [Next]_vars
    PROVE  \/ \E r \in Requests : Authenticate(r)
           \/ \E r \in Requests : Execute(r)
           \/ \A r \in Requests :
                  \/ status'[r] = status[r] /\ seen'[r] = seen[r]
                  \/ status'[r] \notin {"open", "answered"}
<1>1. status \in [Requests -> {"off", "asked", "open"} \cup Good \cup Bad]
      /\ seen \in [Requests -> Seq(Data)]
  BY DEF IInv, TypeOK, Data
<1>2. ASSUME UNCHANGED <<status, seen>>
      PROVE  \A r \in Requests : status'[r] = status[r] /\ seen'[r] = seen[r]
  BY <1>2
<1>3. ASSUME NEW q \in Requests, GiveUp(q) \/ Close(q) \/ BreakDeadlock(q)
      PROVE  \A r \in Requests : \/ status'[r] = status[r] /\ seen'[r] = seen[r]
                                 \/ status'[r] \notin {"open", "answered"}
  BY <1>1, <1>3 DEF GiveUp, Close, BreakDeadlock
<1>4. CASE Home \/ AskDetails
  <2>1. PICK rs : Opened(rs) /\ seen' = seen
    BY <1>4 DEF Home, AskDetails
  <2>2. \A r \in Requests : status'[r] \in {"asked", status[r]}
    BY <2>1 DEF Opened
  <2> QED
    BY <2>1, <2>2
<1>5. Show \/ FailPage => UNCHANGED <<status, seen>>
  BY DEF Show, FailPage
<1>6. ResetTables \/ LockTable \/ CommitTruncate \/ CommitSeed \/ WriterFails
      => UNCHANGED <<status, seen>>
  BY DEF ResetTables, LockTable, CommitTruncate, CommitSeed, WriterFails
<1>7. UNCHANGED vars => UNCHANGED <<status, seen>>
  BY DEF vars
<1> QED
  BY <1>2, <1>3, <1>4, <1>5, <1>6, <1>7 DEF Next, Serve, Browse, Reseed

\* Every step leaves as many connections as the pool has.
LEMMA NextPoolKept ==
    ASSUME IInv, PoolKept, [Next]_vars
    PROVE  PoolKept'
<1>1. status \in [Requests -> {"off", "asked", "open"} \cup Good \cup Bad]
  BY DEF IInv, TypeOK
<1>2. ASSUME InPool' \subseteq InPool
      PROVE  PoolKept'
  <2>1. IsFiniteSet(InPool') /\ Cardinality(InPool') <= Cardinality(InPool)
    BY <1>2, FS_Subset DEF PoolKept
  <2>2. Cardinality(InPool') \in Nat /\ Cardinality(InPool) \in Nat
    BY <2>1, FS_CardinalityType DEF PoolKept
  <2> QED
    BY <2>1, <2>2 DEF PoolKept
<1>3. ASSUME NEW r \in Requests, Authenticate(r)
      PROVE  PoolKept'
  <2>1. InPool' = InPool \cup {r}
    BY <1>1, <1>3 DEF Authenticate, InPool
  <2>2. r \notin InPool /\ Cardinality(InPool) # Connections
    BY <1>3 DEF Authenticate, InPool, PoolEmpty
  <2>3. IsFiniteSet(InPool') /\ Cardinality(InPool') = Cardinality(InPool) + 1
    BY <2>1, <2>2, FS_AddElement DEF PoolKept
  <2>4. Cardinality(InPool) \in Nat
    BY FS_CardinalityType DEF PoolKept
  <2> QED
    BY <2>2, <2>3, <2>4 DEF PoolKept
<1>4. ASSUME NEW r \in Requests, Execute(r)
      PROVE  PoolKept'
  <2>1. status[r] = "open" /\ \A q \in Requests \ {r} : status'[q] = status[q]
    BY <1>4, ExecuteFacts
  <2> QED
    BY <1>2, <2>1 DEF InPool
<1>5. ASSUME \A r \in Requests : status'[r] = status[r] \/ status'[r] \notin {"open", "answered"}
      PROVE  PoolKept'
  BY <1>2, <1>5 DEF InPool
<1> QED
  BY <1>3, <1>4, <1>5, StatusSteps

\* Requests never have more connections than the pool, whatever its size.
THEOREM PoolStaysKept == Spec => []PoolKept
<1>1. Init => PoolKept
  <2> SUFFICES ASSUME Init PROVE PoolKept
    OBVIOUS
  <2>1. InPool = {}
    BY DEF Init, InPool
  <2> QED
    BY <2>1, FS_EmptySet DEF PoolKept
<1>2. IInv /\ PoolKept /\ [Next]_vars => PoolKept'
  BY NextPoolKept
<1> QED
  BY <1>1, <1>2, Invariant, PTL DEF Spec

\* An open request has a statement to run.
OpenUnread == \A r \in Requests : status[r] = "open" => Unread(r)

\* Every step keeps it so: a request with no statement left is answered.
LEMMA NextOpenUnread ==
    ASSUME IInv, OpenUnread, [Next]_vars
    PROVE  OpenUnread'
<1>1. /\ status \in [Requests -> {"off", "asked", "open"} \cup Good \cup Bad]
      /\ seen \in [Requests -> Seq(Data)]
  BY DEF IInv, TypeOK, Data
<1>2. \A r \in Requests : (Unread(r))' <=> Len(seen'[r]) < Statements(r)
  BY DEF Unread, Statements, Reads
<1>3. ASSUME NEW r \in Requests, Authenticate(r)
      PROVE  OpenUnread'
  <2>1. Len(seen'[r]) = 0
    BY <1>3 DEF Authenticate, IInv, RoundsOK
  <2>2. Len(seen'[r]) < Statements(r)
    BY <2>1, ReadsFacts
  <2>3. \A q \in Requests \ {r} : status'[q] = status[q] /\ seen'[q] = seen[q]
    BY <1>1, <1>3 DEF Authenticate
  <2> QED
    BY <1>2, <2>2, <2>3 DEF OpenUnread, Unread
<1>4. ASSUME NEW r \in Requests, Execute(r)
      PROVE  OpenUnread'
  <2>1. /\ seen'[r] = Append(seen[r], loaded)
        /\ \A q \in Requests \ {r} : status'[q] = status[q] /\ seen'[q] = seen[q]
    BY <1>4, ExecuteFacts
  <2>2. Len(seen'[r]) = Len(seen[r]) + 1 /\ Len(seen[r]) \in Nat
    BY <1>1, <2>1
  <2>3. Len(seen[r]) < Statements(r) /\ Statements(r) \in Nat
    BY <1>4, ReadsFacts DEF Execute, Unread
  <2>4. status'[r] = After(r, Len(seen[r]) + 1, loaded)
    BY <1>1, <1>4 DEF Execute
  <2>5. status'[r] = "open" => Len(seen[r]) + 1 # Statements(r)
    BY <2>4 DEF After
  <2> QED
    BY <1>2, <2>1, <2>2, <2>3, <2>5 DEF OpenUnread, Unread
<1>5. ASSUME \A r \in Requests : \/ status'[r] = status[r] /\ seen'[r] = seen[r]
                                 \/ status'[r] \notin {"open", "answered"}
      PROVE  OpenUnread'
  BY <1>2, <1>5 DEF OpenUnread, Unread
<1> QED
  BY <1>3, <1>4, <1>5, StatusSteps

\* Waiting for a reseed, or of a reseed, is never in a circle but for the
\* deadlocks of two that PostgreSQL breaks.
THEOREM NobodyWaitsForGood == Spec => []WaitsResolve
<1>1. Init => OpenUnread
  BY DEF Init, OpenUnread
<1>2. IInv /\ OpenUnread /\ [Next]_vars => OpenUnread'
  BY NextOpenUnread
<1>3. IInv /\ OpenUnread => WaitsResolve
  <2> SUFFICES ASSUME IInv, OpenUnread PROVE WaitsResolve
    OBVIOUS
  <2>1. \A r \in Requests : Blocked(r) => writer = "truncate"
    <3>1. writer # "truncate" => Truncated = {} /\ Awaited = {}
      BY DEF IInv, WriterOK, Truncated, Awaited
    <3> QED
      BY <3>1 DEF Blocked
  <2>2. ASSUME NEW r \in Requests, Awaited \cap locks[r] # {}
        PROVE  status[r] = "answered" \/ (status[r] = "open" /\ (~Blocked(r) \/ Deadlocked(r)))
    <3>1. status[r] \in {"open", "answered"}
      BY <2>2 DEF IInv, LocksOK
    <3>2. Awaited \subseteq locks[r]
      BY <2>2 DEF Awaited
    <3>3. Blocked(r) => Wanted(r) \cap Truncated # {}
      BY <3>2 DEF Blocked, Wanted
    <3> QED
      BY <2>2, <3>1, <3>3 DEF OpenUnread, Deadlocked
  <2> QED
    BY <2>1, <2>2 DEF WaitsResolve, OpenUnread
<1> QED
  BY <1>1, <1>2, <1>3, Invariant, PTL DEF Spec
=============================================================================
