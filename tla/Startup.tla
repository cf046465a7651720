------------------------------ MODULE Startup ------------------------------
(***************************************************************************)
(* Bringing the service up on one database: API servers that migrate,      *)
(* provision pgvector and seed an empty ads table as they start, next to   *)
(* `alembic upgrade head' and scripts/seed_from_source.py run by hand.     *)
(*                                                                         *)
(* One step is one database statement, or one commit, with the code around *)
(* it up to the next.  What a process has not committed is known from its  *)
(* pc alone and is dropped when the process ends.  A dataset is named by   *)
(* the run of the process that loads it: <<process, run>>.                 *)
(***************************************************************************)
EXTENDS Naturals, FiniteSets

CONSTANTS
    Servers,    \* API processes, restarted whenever they end
    Migrators,  \* `alembic upgrade head' run by hand
    Seeders,    \* seed_from_source.py
    Forcers,    \* seed_from_source.py --force
    DirOf,      \* the static directory each process writes and serves
    MaxFaults   \* bound: crashes and failed statements

Processes == Servers \cup Migrators \cup Seeders \cup Forcers

ASSUME RolesAssumption ==
    /\ Servers \cap (Migrators \cup Seeders \cup Forcers) = {}
    /\ Migrators \cap (Seeders \cup Forcers) = {} /\ Seeders \cap Forcers = {}
    /\ IsFiniteSet(Forcers)
    /\ MaxFaults \in Nat

VARIABLES
    pc,        \* where each process is
    runs,      \* how often it was started
    created,   \* committed schema objects: the tables, the vector extension
    ads,       \* datasets with rows in table ads,
    comments,  \* in ad_comments
    metrics,   \* and in ad_metrics
    files,     \* image files: <<directory, dataset>>
    faults     \* crashes so far
vars == <<pc, runs, created, ads, comments, metrics, files, faults>>

PCs == {"down", "heads", "upgrade", "ddl", "migrated", "provision", "extend", "extended",
        "count", "seed", "truncate", "images", "insert", "commit", "serving", "exited"}
Dataset(p) == <<p, runs[p]>>
IsEmpty == ads = {}

Goto(p, to) == pc' = [pc EXCEPT ![p] = to]

\* A container that is not started again.
EndForGood(p) == Goto(p, "exited")
\* The process ends with an error: a server's container is restarted.
End(p) == Goto(p, IF p \in Servers THEN "down" ELSE "exited")

\* Another transaction holds what the statement of p needs.
HeldElsewhere(p, at) == \E q \in Processes \ {p} : pc[q] = at

----------------------------------------------------------------------------
(* Migrations and the extension. *)

Start(p) ==
    /\ pc[p] = "down"
    /\ runs' = [runs EXCEPT ![p] = @ + 1]
    /\ Goto(p, IF p \in Servers THEN "heads" ELSE IF p \in Migrators THEN "upgrade" ELSE "seed")
    /\ UNCHANGED <<created, ads, comments, metrics, files, faults>>

\* _maybe_upgrade_database.
ReadHeads(p) ==
    /\ pc[p] = "heads"
    /\ Goto(p, IF "tables" \in created THEN "provision" ELSE "upgrade")
    /\ UNCHANGED <<runs, created, ads, comments, metrics, files, faults>>

Upgraded(p) == IF p \in Migrators THEN "exited" ELSE "provision"

\* alembic reads the revision, then runs what is missing in one transaction.
ReadRevision(p) ==
    /\ pc[p] = "upgrade"
    /\ Goto(p, IF "tables" \in created THEN Upgraded(p) ELSE "ddl")
    /\ UNCHANGED <<runs, created, ads, comments, metrics, files, faults>>

\* CREATE TABLE waits for a table of that name being created elsewhere and
\* fails if that was committed: CalledProcessError.
RunMigrations(p) ==
    /\ pc[p] = "ddl"
    /\ ~HeldElsewhere(p, "migrated")
    /\ IF "tables" \in created THEN End(p) ELSE Goto(p, "migrated")
    /\ UNCHANGED <<runs, created, ads, comments, metrics, files, faults>>

CommitMigrations(p) ==
    /\ pc[p] = "migrated"
    /\ created' = created \cup {"tables"}
    /\ Goto(p, Upgraded(p))
    /\ UNCHANGED <<runs, ads, comments, metrics, files, faults>>

\* CREATE EXTENSION IF NOT EXISTS looks first, then creates.
LookForExtension(p) ==
    /\ pc[p] = "provision"
    /\ Goto(p, IF "vector" \in created THEN "count" ELSE "extend")
    /\ UNCHANGED <<runs, created, ads, comments, metrics, files, faults>>
CreateExtension(p) ==
    /\ pc[p] = "extend"
    /\ ~HeldElsewhere(p, "extended")
    /\ IF "vector" \in created THEN End(p) ELSE Goto(p, "extended")
    /\ UNCHANGED <<runs, created, ads, comments, metrics, files, faults>>
CommitExtension(p) ==
    /\ pc[p] = "extended"
    /\ created' = created \cup {"vector"}
    /\ Goto(p, "count")
    /\ UNCHANGED <<runs, ads, comments, metrics, files, faults>>

----------------------------------------------------------------------------
(* Seeding. *)

\* seed_if_empty.
SeedIfEmpty(p) ==
    /\ pc[p] = "count"
    /\ Goto(p, IF IsEmpty THEN "seed" ELSE "serving")
    /\ UNCHANGED <<runs, created, ads, comments, metrics, files, faults>>

\* The tables are wiped whenever the script gets past its check.
AfterCountAlwaysWipe(p) == "truncate"
AfterCount(p) == IF p \in Forcers THEN "truncate" ELSE "images"

\* seed: without tables the count itself fails; SystemExit if there are rows.
CountAds(p) ==
    /\ pc[p] = "seed"
    /\ IF "tables" \notin created \/ (~IsEmpty /\ p \notin Forcers)
       THEN End(p)
       ELSE Goto(p, AfterCount(p))
    /\ UNCHANGED <<runs, created, ads, comments, metrics, files, faults>>

\* TRUNCATE and its commit: it waits for open inserts, and everything that
\* touches the tables waits for it.
ResetTables(p) ==
    /\ pc[p] = "truncate"
    /\ ~HeldElsewhere(p, "commit")
    /\ ads' = {} /\ comments' = {} /\ metrics' = {}
    /\ Goto(p, "images")
    /\ UNCHANGED <<runs, created, files, faults>>

\* Images copied only for the first dataset a directory sees.
CopiedOnce(p) == IF \E f \in files : f[1] = DirOf[p] THEN files
                 ELSE files \cup {<<DirOf[p], Dataset(p)>>}
Copied(p) == files \cup {<<DirOf[p], Dataset(p)>>}

CopyImages(p) ==
    /\ pc[p] = "images"
    /\ files' = Copied(p)
    /\ Goto(p, "insert")
    /\ UNCHANGED <<runs, created, ads, comments, metrics, faults>>

\* Without UNIQUE (ad_id) a second dataset goes in beside the first.
ConflictsNever == FALSE
\* UNIQUE (ad_id): every dataset has the same keys.
Conflicts == ads # {}

\* The flush of the ads waits for the same keys inserted elsewhere.
InsertAds(p) ==
    /\ pc[p] = "insert"
    /\ ~HeldElsewhere(p, "commit")
    /\ IF Conflicts THEN End(p) ELSE Goto(p, "commit")
    /\ UNCHANGED <<runs, created, ads, comments, metrics, files, faults>>

\* The session closed without its commit.
Rows(table, p) == table
Seeded(table, p) == table \cup {Dataset(p)}

CommitSeed(p) ==
    /\ pc[p] = "commit"
    /\ ads' = Seeded(ads, p)
    /\ comments' = Seeded(comments, p)
    /\ metrics' = Seeded(metrics, p)
    /\ Goto(p, IF p \in Servers THEN "serving" ELSE "exited")
    /\ UNCHANGED <<runs, created, files, faults>>

\* The process dies, or a statement of it fails.
Crash(p) ==
    /\ faults < MaxFaults
    /\ faults' = faults + 1
    /\ pc[p] \notin {"down", "exited"}
    /\ End(p)
    /\ UNCHANGED <<runs, created, ads, comments, metrics, files>>

----------------------------------------------------------------------------
Init ==
    /\ pc = [p \in Processes |-> "down"]
    /\ runs = [p \in Processes |-> 0]
    /\ created = {}
    /\ ads = {} /\ comments = {} /\ metrics = {}
    /\ files = {}
    /\ faults = 0

Step(p) ==
    \/ Start(p) \/ ReadHeads(p) \/ ReadRevision(p) \/ RunMigrations(p) \/ CommitMigrations(p)
    \/ LookForExtension(p) \/ CreateExtension(p) \/ CommitExtension(p)
    \/ SeedIfEmpty(p) \/ CountAds(p) \/ ResetTables(p) \/ CopyImages(p)
    \/ InsertAds(p) \/ CommitSeed(p)
Next == \E p \in Processes : Step(p) \/ Crash(p)

Spec == Init /\ [][Next]_vars
\* Docker restarts servers; statements that wait for no one return.
FairSpec == Spec /\ \A p \in Processes : WF_vars(Step(p))

----------------------------------------------------------------------------
(* Properties. *)

Datasets == Processes \X Nat

\* Process states, tables and directories keep their shape.
TypeOK ==
    /\ pc \in [Processes -> PCs]
    /\ runs \in [Processes -> Nat]
    /\ created \subseteq {"tables", "vector"}
    /\ ads \subseteq Datasets /\ comments \subseteq Datasets /\ metrics \subseteq Datasets
    /\ \A f \in files : f[2] \in Datasets
    /\ faults \in 0 .. MaxFaults

\* However many processes find the table empty at once, and wherever they
\* die, the tables hold nothing or one whole dataset: ads, comments, metrics.
OneDataset ==
    /\ \A d, e \in ads : d = e
    /\ comments = ads
    /\ metrics = ads

\* As long as nobody forces a reseed, a server that answers has data to answer
\* from: no server gets past startup on a seed that failed or was lost.
ServesData ==
    (\E s \in Servers : pc[s] = "serving") /\ (\A f \in Forcers : runs[f] = 0) => ~IsEmpty

\* The images of every dataset in the tables are in the directory of the
\* process that loaded it, from the moment the rows can be read.
ImagesOnDisk == \A d \in ads : <<DirOf[d[1]], d>> \in files

\* Data goes away by --force alone: no server start and no plain seed, racing
\* with whatever else, replaces or wipes rows that are there.
OnlyForceWipes ==
    [][ads # {} /\ ads' # ads => ads' = {} /\ \E f \in Forcers : pc[f] = "truncate"]_vars

\* The inductive invariant behind these: one uncommitted dataset at a time,
\* and only into empty tables; images before rows; only --force truncates.
InsertsExclusive ==
    /\ \A p, q \in Processes : pc[p] = "commit" /\ pc[q] = "commit" => p = q
    /\ \A p \in Processes : pc[p] = "commit" => IsEmpty
ImagesFirst ==
    \A p \in Processes : pc[p] \in {"insert", "commit"} => <<DirOf[p], Dataset(p)>> \in files
ForceOnly ==
    /\ \A f \in Forcers : runs[f] = 0 => pc[f] = "down"
    /\ \A p \in Processes : pc[p] = "truncate" => p \in Forcers
IInv ==
    /\ TypeOK /\ OneDataset /\ ImagesOnDisk /\ ServesData
    /\ InsertsExclusive /\ ImagesFirst /\ ForceOnly

\* A server is not restarted for ever: a start fails by a fault, by losing the
\* migrations, the extension or the seed, each once, or the seed once more for
\* every forced reseed that has wiped the tables meanwhile.
Wipers == {f \in Forcers : pc[f] \notin {"down", "seed", "truncate"}}
RestartsBounded == \A s \in Servers : runs[s] <= 4 + faults + Cardinality(Wipers)

\* Behind it: what a server has lost and can still lose, and where servers and
\* forced seeds can be.
Count(P) == IF P THEN 1 ELSE 0
CanLose(s) ==
    Count("tables" \notin created \/ pc[s] = "ddl")
        + Count("vector" \notin created \/ pc[s] = "extend")
        + Count(IsEmpty \/ pc[s] \in {"seed", "images", "insert"})
Starts(s) == runs[s] + Count(pc[s] = "down") + CanLose(s)
RolesOK ==
    /\ \A f \in Forcers :
          pc[f] \in {"down", "seed", "truncate", "images", "insert", "commit", "exited"}
    /\ \A s \in Servers :
          pc[s] \in {"provision", "extend", "extended", "count", "seed"} => "tables" \in created
StartsOK == RolesOK /\ \A s \in Servers : Starts(s) <= 4 + faults + Cardinality(Wipers)

\* Servers that lose a race for the migrations, the extension or the seed,
\* or die on the way, come up in the end and stay up.
ServersComeUp == \A s \in Servers : <>[](pc[s] = "serving")
=============================================================================
