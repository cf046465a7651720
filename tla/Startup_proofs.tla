-------------------------- MODULE Startup_proofs --------------------------
(***************************************************************************)
(* Startup: IInv is inductive, and what follows from it, for any number of *)
(* servers, migrators, seeders and forced seeders, any static directories  *)
(* and any number of faults.                                               *)
(***************************************************************************)
EXTENDS Startup, FiniteSetTheorems, TLAPS

\* The initial state satisfies IInv.
LEMMA InitIInv == Init => IInv
<1> SUFFICES ASSUME Init PROVE IInv
  OBVIOUS
<1>1. TypeOK
  BY RolesAssumption DEF Init, TypeOK, PCs, Datasets
<1>2. OneDataset /\ ImagesOnDisk /\ ServesData
  BY DEF Init, OneDataset, ImagesOnDisk, ServesData, Processes
<1>3. InsertsExclusive /\ ImagesFirst /\ ForceOnly
  BY DEF Init, InsertsExclusive, ImagesFirst, ForceOnly, Processes
<1> QED
  BY <1>1, <1>2, <1>3 DEF IInv

\* A step of Start keeps IInv.
LEMMA StartIInv ==
    ASSUME IInv, NEW p \in Processes, Start(p)
    PROVE  IInv'
<1> USE DEF IInv
<1>1. TypeOK'
  BY RolesAssumption DEF TypeOK, PCs, Datasets, Dataset, Start, Goto
<1>2. OneDataset'
  BY DEF TypeOK, OneDataset, InsertsExclusive, IsEmpty, Start, Goto
<1>3. ImagesOnDisk'
  BY DEF TypeOK, ImagesOnDisk, ImagesFirst, Dataset, Start, Goto
<1>4. ServesData'
  BY DEF TypeOK, ServesData, ForceOnly, IsEmpty, Processes, Start, Goto
<1>5. InsertsExclusive'
  BY DEF TypeOK, InsertsExclusive, IsEmpty, HeldElsewhere, Start, Goto
<1>6. ImagesFirst'
  BY DEF TypeOK, ImagesFirst, Dataset, Start, Goto
<1>7. ForceOnly'
  BY DEF TypeOK, ForceOnly, Processes, Start, Goto
<1> QED
  BY <1>1, <1>2, <1>3, <1>4, <1>5, <1>6, <1>7

\* A step of ReadHeads keeps IInv.
LEMMA ReadHeadsIInv ==
    ASSUME IInv, NEW p \in Processes, ReadHeads(p)
    PROVE  IInv'
<1> USE DEF IInv
<1>1. TypeOK'
  BY RolesAssumption DEF TypeOK, PCs, Datasets, Dataset, ReadHeads, Goto
<1>2. OneDataset'
  BY DEF TypeOK, OneDataset, InsertsExclusive, IsEmpty, ReadHeads, Goto
<1>3. ImagesOnDisk'
  BY DEF TypeOK, ImagesOnDisk, ImagesFirst, Dataset, ReadHeads, Goto
<1>4. ServesData'
  BY DEF TypeOK, ServesData, ForceOnly, IsEmpty, Processes, ReadHeads, Goto
<1>5. InsertsExclusive'
  BY DEF TypeOK, InsertsExclusive, IsEmpty, HeldElsewhere, ReadHeads, Goto
<1>6. ImagesFirst'
  BY DEF TypeOK, ImagesFirst, Dataset, ReadHeads, Goto
<1>7. ForceOnly'
  BY DEF TypeOK, ForceOnly, Processes, ReadHeads, Goto
<1> QED
  BY <1>1, <1>2, <1>3, <1>4, <1>5, <1>6, <1>7

\* A step of ReadRevision keeps IInv.
LEMMA ReadRevisionIInv ==
    ASSUME IInv, NEW p \in Processes, ReadRevision(p)
    PROVE  IInv'
<1> USE DEF IInv
<1>1. TypeOK'
  BY RolesAssumption DEF TypeOK, PCs, Datasets, Dataset, ReadRevision, Goto, Upgraded
<1>2. OneDataset'
  BY DEF TypeOK, OneDataset, InsertsExclusive, IsEmpty, ReadRevision, Goto, Upgraded
<1>3. ImagesOnDisk'
  BY DEF TypeOK, ImagesOnDisk, ImagesFirst, Dataset, ReadRevision, Goto, Upgraded
<1>4. ServesData'
  BY DEF TypeOK, ServesData, ForceOnly, IsEmpty, Processes, ReadRevision, Goto, Upgraded
<1>5. InsertsExclusive'
  BY DEF TypeOK, InsertsExclusive, IsEmpty, HeldElsewhere, ReadRevision, Goto, Upgraded
<1>6. ImagesFirst'
  BY DEF TypeOK, ImagesFirst, Dataset, ReadRevision, Goto, Upgraded
<1>7. ForceOnly'
  BY DEF TypeOK, ForceOnly, Processes, ReadRevision, Goto, Upgraded
<1> QED
  BY <1>1, <1>2, <1>3, <1>4, <1>5, <1>6, <1>7

\* A step of RunMigrations keeps IInv.
LEMMA RunMigrationsIInv ==
    ASSUME IInv, NEW p \in Processes, RunMigrations(p)
    PROVE  IInv'
<1> USE DEF IInv
<1>1. TypeOK'
  BY RolesAssumption DEF TypeOK, PCs, Datasets, Dataset, RunMigrations, Goto, End
<1>2. OneDataset'
  BY DEF TypeOK, OneDataset, InsertsExclusive, IsEmpty, RunMigrations, Goto, End
<1>3. ImagesOnDisk'
  BY DEF TypeOK, ImagesOnDisk, ImagesFirst, Dataset, RunMigrations, Goto, End
<1>4. ServesData'
  BY DEF TypeOK, ServesData, ForceOnly, IsEmpty, Processes, RunMigrations, Goto, End
<1>5. InsertsExclusive'
  BY DEF TypeOK, InsertsExclusive, IsEmpty, HeldElsewhere, RunMigrations, Goto, End
<1>6. ImagesFirst'
  BY DEF TypeOK, ImagesFirst, Dataset, RunMigrations, Goto, End
<1>7. ForceOnly'
  BY DEF TypeOK, ForceOnly, Processes, RunMigrations, Goto, End
<1> QED
  BY <1>1, <1>2, <1>3, <1>4, <1>5, <1>6, <1>7

\* A step of CommitMigrations keeps IInv.
LEMMA CommitMigrationsIInv ==
    ASSUME IInv, NEW p \in Processes, CommitMigrations(p)
    PROVE  IInv'
<1> USE DEF IInv
<1>1. TypeOK'
  BY RolesAssumption DEF TypeOK, PCs, Datasets, Dataset, CommitMigrations, Goto, Upgraded
<1>2. OneDataset'
  BY DEF TypeOK, OneDataset, InsertsExclusive, IsEmpty, CommitMigrations, Goto, Upgraded
<1>3. ImagesOnDisk'
  BY DEF TypeOK, ImagesOnDisk, ImagesFirst, Dataset, CommitMigrations, Goto, Upgraded
<1>4. ServesData'
  BY DEF TypeOK, ServesData, ForceOnly, IsEmpty, Processes, CommitMigrations, Goto, Upgraded
<1>5. InsertsExclusive'
  BY DEF TypeOK, InsertsExclusive, IsEmpty, HeldElsewhere, CommitMigrations, Goto, Upgraded
<1>6. ImagesFirst'
  BY DEF TypeOK, ImagesFirst, Dataset, CommitMigrations, Goto, Upgraded
<1>7. ForceOnly'
  BY DEF TypeOK, ForceOnly, Processes, CommitMigrations, Goto, Upgraded
<1> QED
  BY <1>1, <1>2, <1>3, <1>4, <1>5, <1>6, <1>7

\* A step of LookForExtension keeps IInv.
LEMMA LookForExtensionIInv ==
    ASSUME IInv, NEW p \in Processes, LookForExtension(p)
    PROVE  IInv'
<1> USE DEF IInv
<1>1. TypeOK'
  BY RolesAssumption DEF TypeOK, PCs, Datasets, Dataset, LookForExtension, Goto
<1>2. OneDataset'
  BY DEF TypeOK, OneDataset, InsertsExclusive, IsEmpty, LookForExtension, Goto
<1>3. ImagesOnDisk'
  BY DEF TypeOK, ImagesOnDisk, ImagesFirst, Dataset, LookForExtension, Goto
<1>4. ServesData'
  BY DEF TypeOK, ServesData, ForceOnly, IsEmpty, Processes, LookForExtension, Goto
<1>5. InsertsExclusive'
  BY DEF TypeOK, InsertsExclusive, IsEmpty, HeldElsewhere, LookForExtension, Goto
<1>6. ImagesFirst'
  BY DEF TypeOK, ImagesFirst, Dataset, LookForExtension, Goto
<1>7. ForceOnly'
  BY DEF TypeOK, ForceOnly, Processes, LookForExtension, Goto
<1> QED
  BY <1>1, <1>2, <1>3, <1>4, <1>5, <1>6, <1>7

\* A step of CreateExtension keeps IInv.
LEMMA CreateExtensionIInv ==
    ASSUME IInv, NEW p \in Processes, CreateExtension(p)
    PROVE  IInv'
<1> USE DEF IInv
<1>1. TypeOK'
  BY RolesAssumption DEF TypeOK, PCs, Datasets, Dataset, CreateExtension, Goto, End
<1>2. OneDataset'
  BY DEF TypeOK, OneDataset, InsertsExclusive, IsEmpty, CreateExtension, Goto, End
<1>3. ImagesOnDisk'
  BY DEF TypeOK, ImagesOnDisk, ImagesFirst, Dataset, CreateExtension, Goto, End
<1>4. ServesData'
  BY DEF TypeOK, ServesData, ForceOnly, IsEmpty, Processes, CreateExtension, Goto, End
<1>5. InsertsExclusive'
  BY DEF TypeOK, InsertsExclusive, IsEmpty, HeldElsewhere, CreateExtension, Goto, End
<1>6. ImagesFirst'
  BY DEF TypeOK, ImagesFirst, Dataset, CreateExtension, Goto, End
<1>7. ForceOnly'
  BY DEF TypeOK, ForceOnly, Processes, CreateExtension, Goto, End
<1> QED
  BY <1>1, <1>2, <1>3, <1>4, <1>5, <1>6, <1>7

\* A step of CommitExtension keeps IInv.
LEMMA CommitExtensionIInv ==
    ASSUME IInv, NEW p \in Processes, CommitExtension(p)
    PROVE  IInv'
<1> USE DEF IInv
<1>1. TypeOK'
  BY RolesAssumption DEF TypeOK, PCs, Datasets, Dataset, CommitExtension, Goto
<1>2. OneDataset'
  BY DEF TypeOK, OneDataset, InsertsExclusive, IsEmpty, CommitExtension, Goto
<1>3. ImagesOnDisk'
  BY DEF TypeOK, ImagesOnDisk, ImagesFirst, Dataset, CommitExtension, Goto
<1>4. ServesData'
  BY DEF TypeOK, ServesData, ForceOnly, IsEmpty, Processes, CommitExtension, Goto
<1>5. InsertsExclusive'
  BY DEF TypeOK, InsertsExclusive, IsEmpty, HeldElsewhere, CommitExtension, Goto
<1>6. ImagesFirst'
  BY DEF TypeOK, ImagesFirst, Dataset, CommitExtension, Goto
<1>7. ForceOnly'
  BY DEF TypeOK, ForceOnly, Processes, CommitExtension, Goto
<1> QED
  BY <1>1, <1>2, <1>3, <1>4, <1>5, <1>6, <1>7

\* A step of SeedIfEmpty keeps IInv.
LEMMA SeedIfEmptyIInv ==
    ASSUME IInv, NEW p \in Processes, SeedIfEmpty(p)
    PROVE  IInv'
<1> USE DEF IInv
<1>1. TypeOK'
  BY RolesAssumption DEF TypeOK, PCs, Datasets, Dataset, SeedIfEmpty, Goto, IsEmpty
<1>2. OneDataset'
  BY DEF TypeOK, OneDataset, InsertsExclusive, IsEmpty, SeedIfEmpty, Goto, IsEmpty
<1>3. ImagesOnDisk'
  BY DEF TypeOK, ImagesOnDisk, ImagesFirst, Dataset, SeedIfEmpty, Goto, IsEmpty
<1>4. ServesData'
  BY DEF TypeOK, ServesData, ForceOnly, IsEmpty, Processes, SeedIfEmpty, Goto, IsEmpty
<1>5. InsertsExclusive'
  BY DEF TypeOK, InsertsExclusive, IsEmpty, HeldElsewhere, SeedIfEmpty, Goto, IsEmpty
<1>6. ImagesFirst'
  BY DEF TypeOK, ImagesFirst, Dataset, SeedIfEmpty, Goto, IsEmpty
<1>7. ForceOnly'
  BY DEF TypeOK, ForceOnly, Processes, SeedIfEmpty, Goto, IsEmpty
<1> QED
  BY <1>1, <1>2, <1>3, <1>4, <1>5, <1>6, <1>7

\* A step of CountAds keeps IInv.
LEMMA CountAdsIInv ==
    ASSUME IInv, NEW p \in Processes, CountAds(p)
    PROVE  IInv'
<1> USE DEF IInv
<1>1. TypeOK'
  BY RolesAssumption DEF TypeOK, PCs, Datasets, Dataset, CountAds, Goto, End, AfterCount
<1>2. OneDataset'
  BY DEF TypeOK, OneDataset, InsertsExclusive, IsEmpty, CountAds, Goto, End, AfterCount
<1>3. ImagesOnDisk'
  BY DEF TypeOK, ImagesOnDisk, ImagesFirst, Dataset, CountAds, Goto, End, AfterCount
<1>4. ServesData'
  BY DEF TypeOK, ServesData, ForceOnly, IsEmpty, Processes, CountAds, Goto, End, AfterCount
<1>5. InsertsExclusive'
  BY DEF TypeOK, InsertsExclusive, IsEmpty, HeldElsewhere, CountAds, Goto, End, AfterCount
<1>6. ImagesFirst'
  BY DEF TypeOK, ImagesFirst, Dataset, CountAds, Goto, End, AfterCount
<1>7. ForceOnly'
  BY DEF TypeOK, ForceOnly, Processes, CountAds, Goto, End, AfterCount
<1> QED
  BY <1>1, <1>2, <1>3, <1>4, <1>5, <1>6, <1>7

\* A step of ResetTables keeps IInv.
LEMMA ResetTablesIInv ==
    ASSUME IInv, NEW p \in Processes, ResetTables(p)
    PROVE  IInv'
<1> USE DEF IInv
<1>1. TypeOK'
  BY RolesAssumption DEF TypeOK, PCs, Datasets, Dataset, ResetTables, Goto, HeldElsewhere
<1>2. OneDataset'
  BY DEF TypeOK, OneDataset, InsertsExclusive, IsEmpty, ResetTables, Goto, HeldElsewhere
<1>3. ImagesOnDisk'
  BY DEF TypeOK, ImagesOnDisk, ImagesFirst, Dataset, ResetTables, Goto, HeldElsewhere
<1>4. ServesData'
  BY DEF TypeOK, ServesData, ForceOnly, IsEmpty, Processes, ResetTables, Goto, HeldElsewhere
<1>5. InsertsExclusive'
  BY DEF TypeOK, InsertsExclusive, IsEmpty, HeldElsewhere, ResetTables, Goto, HeldElsewhere
<1>6. ImagesFirst'
  BY DEF TypeOK, ImagesFirst, Dataset, ResetTables, Goto, HeldElsewhere
<1>7. ForceOnly'
  BY DEF TypeOK, ForceOnly, Processes, ResetTables, Goto, HeldElsewhere
<1> QED
  BY <1>1, <1>2, <1>3, <1>4, <1>5, <1>6, <1>7

\* A step of CopyImages keeps IInv.
LEMMA CopyImagesIInv ==
    ASSUME IInv, NEW p \in Processes, CopyImages(p)
    PROVE  IInv'
<1> USE DEF IInv
<1>1. TypeOK'
  BY RolesAssumption DEF TypeOK, PCs, Datasets, Dataset, CopyImages, Goto, Copied
<1>2. OneDataset'
  BY DEF TypeOK, OneDataset, InsertsExclusive, IsEmpty, CopyImages, Goto, Copied
<1>3. ImagesOnDisk'
  BY DEF TypeOK, ImagesOnDisk, ImagesFirst, Dataset, CopyImages, Goto, Copied
<1>4. ServesData'
  BY DEF TypeOK, ServesData, ForceOnly, IsEmpty, Processes, CopyImages, Goto, Copied
<1>5. InsertsExclusive'
  BY DEF TypeOK, InsertsExclusive, IsEmpty, HeldElsewhere, CopyImages, Goto, Copied
<1>6. ImagesFirst'
  BY DEF TypeOK, ImagesFirst, Dataset, CopyImages, Goto, Copied
<1>7. ForceOnly'
  BY DEF TypeOK, ForceOnly, Processes, CopyImages, Goto, Copied
<1> QED
  BY <1>1, <1>2, <1>3, <1>4, <1>5, <1>6, <1>7

\* A step of InsertAds keeps IInv.
LEMMA InsertAdsIInv ==
    ASSUME IInv, NEW p \in Processes, InsertAds(p)
    PROVE  IInv'
<1> USE DEF IInv
<1>1. TypeOK'
  BY RolesAssumption DEF TypeOK, PCs, Datasets, Dataset, InsertAds, Goto, End, HeldElsewhere, Conflicts
<1>2. OneDataset'
  BY DEF TypeOK, OneDataset, InsertsExclusive, IsEmpty, InsertAds, Goto, End, HeldElsewhere, Conflicts
<1>3. ImagesOnDisk'
  BY DEF TypeOK, ImagesOnDisk, ImagesFirst, Dataset, InsertAds, Goto, End, HeldElsewhere, Conflicts
<1>4. ServesData'
  BY DEF TypeOK, ServesData, ForceOnly, IsEmpty, Processes, InsertAds, Goto, End, HeldElsewhere, Conflicts
<1>5. InsertsExclusive'
  BY DEF TypeOK, InsertsExclusive, IsEmpty, HeldElsewhere, InsertAds, Goto, End, HeldElsewhere, Conflicts
<1>6. ImagesFirst'
  BY DEF TypeOK, ImagesFirst, Dataset, InsertAds, Goto, End, HeldElsewhere, Conflicts
<1>7. ForceOnly'
  BY DEF TypeOK, ForceOnly, Processes, InsertAds, Goto, End, HeldElsewhere, Conflicts
<1> QED
  BY <1>1, <1>2, <1>3, <1>4, <1>5, <1>6, <1>7

\* A step of CommitSeed keeps IInv.
LEMMA CommitSeedIInv ==
    ASSUME IInv, NEW p \in Processes, CommitSeed(p)
    PROVE  IInv'
<1> USE DEF IInv
<1>1. TypeOK'
  BY RolesAssumption DEF TypeOK, PCs, Datasets, Dataset, CommitSeed, Goto, Seeded
<1>2. OneDataset'
  BY DEF TypeOK, OneDataset, InsertsExclusive, IsEmpty, CommitSeed, Goto, Seeded
<1>3. ImagesOnDisk'
  BY DEF TypeOK, ImagesOnDisk, ImagesFirst, Dataset, CommitSeed, Goto, Seeded
<1>4. ServesData'
  BY DEF TypeOK, ServesData, ForceOnly, IsEmpty, Processes, CommitSeed, Goto, Seeded
<1>5. InsertsExclusive'
  BY DEF TypeOK, InsertsExclusive, IsEmpty, HeldElsewhere, CommitSeed, Goto, Seeded
<1>6. ImagesFirst'
  BY DEF TypeOK, ImagesFirst, Dataset, CommitSeed, Goto, Seeded
<1>7. ForceOnly'
  BY DEF TypeOK, ForceOnly, Processes, CommitSeed, Goto, Seeded
<1> QED
  BY <1>1, <1>2, <1>3, <1>4, <1>5, <1>6, <1>7

\* A step of Crash keeps IInv.
LEMMA CrashIInv ==
    ASSUME IInv, NEW p \in Processes, Crash(p)
    PROVE  IInv'
<1> USE DEF IInv
<1>1. TypeOK'
  BY RolesAssumption DEF TypeOK, PCs, Datasets, Dataset, Crash, Goto, End
<1>2. OneDataset'
  BY DEF TypeOK, OneDataset, InsertsExclusive, IsEmpty, Crash, Goto, End
<1>3. ImagesOnDisk'
  BY DEF TypeOK, ImagesOnDisk, ImagesFirst, Dataset, Crash, Goto, End
<1>4. ServesData'
  BY DEF TypeOK, ServesData, ForceOnly, IsEmpty, Processes, Crash, Goto, End
<1>5. InsertsExclusive'
  BY DEF TypeOK, InsertsExclusive, IsEmpty, HeldElsewhere, Crash, Goto, End
<1>6. ImagesFirst'
  BY DEF TypeOK, ImagesFirst, Dataset, Crash, Goto, End
<1>7. ForceOnly'
  BY DEF TypeOK, ForceOnly, Processes, Crash, Goto, End
<1> QED
  BY <1>1, <1>2, <1>3, <1>4, <1>5, <1>6, <1>7

\* Every step, and a stuttering step, keeps IInv.
LEMMA NextIInv == IInv /\ [Next]_vars => IInv'
<1> SUFFICES ASSUME IInv, [Next]_vars PROVE IInv'
  OBVIOUS
<1>1. CASE UNCHANGED vars
  BY <1>1 DEF vars, IInv, TypeOK, OneDataset, ImagesOnDisk, ServesData, InsertsExclusive,
              ImagesFirst, ForceOnly, IsEmpty, Dataset
<1>2. ASSUME NEW p \in Processes, Step(p) \/ Crash(p)
      PROVE  IInv'
  BY <1>2, StartIInv, ReadHeadsIInv, ReadRevisionIInv, RunMigrationsIInv, CommitMigrationsIInv,
         LookForExtensionIInv, CreateExtensionIInv, CommitExtensionIInv, SeedIfEmptyIInv, CountAdsIInv,
         ResetTablesIInv, CopyImagesIInv, InsertAdsIInv, CommitSeedIInv, CrashIInv DEF Step
<1> QED
  BY <1>1, <1>2 DEF Next

\* The invariant holds in every reachable state.
THEOREM Invariant == Spec => []IInv
<1>1. Init => IInv
  BY InitIInv
<1>2. IInv /\ [Next]_vars => IInv'
  BY NextIInv
<1> QED
  BY <1>1, <1>2, PTL DEF Spec

\* Process states, tables and directories keep their shape.
THEOREM TypeCorrect == Spec => []TypeOK
<1>1. IInv => TypeOK
  BY DEF IInv
<1> QED
  BY <1>1, Invariant, PTL

\* The tables hold nothing or one whole dataset, whoever raced to load it.
THEOREM SeededOnce == Spec => []OneDataset
<1>1. IInv => OneDataset
  BY DEF IInv
<1> QED
  BY <1>1, Invariant, PTL

\* Without a forced reseed a server that answers has data.
THEOREM ServersHaveData == Spec => []ServesData
<1>1. IInv => ServesData
  BY DEF IInv
<1> QED
  BY <1>1, Invariant, PTL

\* Rows that can be read have their images on their loader's disk.
THEOREM ImagesBeforeRows == Spec => []ImagesOnDisk
<1>1. IInv => ImagesOnDisk
  BY DEF IInv
<1> QED
  BY <1>1, Invariant, PTL

\* Nothing but --force takes committed rows away.
THEOREM WipedByForceAlone == Spec => OnlyForceWipes
<1>1. IInv /\ [Next]_vars =>
        [ads # {} /\ ads' # ads => ads' = {} /\ \E f \in Forcers : pc[f] = "truncate"]_vars
  <2> SUFFICES ASSUME IInv, NEW p \in Processes, Step(p) \/ Crash(p), ads # {}, ads' # ads
               PROVE  ads' = {} /\ \E f \in Forcers : pc[f] = "truncate"
    BY DEF Next, vars
  <2>1. ~CommitSeed(p)
    BY DEF IInv, InsertsExclusive, IsEmpty, CommitSeed
  <2>2. ResetTables(p)
    BY <2>1 DEF Step, Start, ReadHeads, ReadRevision, RunMigrations, CommitMigrations,
                LookForExtension, CreateExtension, CommitExtension, SeedIfEmpty, CountAds,
                CopyImages, InsertAds, Crash
  <2> QED
    BY <2>2 DEF ResetTables, IInv, ForceOnly
<1> QED
  BY <1>1, Invariant, PTL DEF Spec, OnlyForceWipes

----------------------------------------------------------------------------
(* How often servers start. *)

\* Nobody has started yet.
LEMMA InitRoles == Init => RolesOK
  BY DEF Init, RolesOK, Processes

\* Forced seeds stay where forced seeds can be, and servers that seed have tables.
LEMMA NextRoles == IInv /\ RolesOK /\ [Next]_vars => RolesOK'
<1> SUFFICES ASSUME IInv, RolesOK, [Next]_vars PROVE RolesOK'
  OBVIOUS
<1>1. pc \in [Processes -> PCs]
  BY DEF IInv, TypeOK
<1>2. "tables" \in created => "tables" \in created'
  BY DEF Next, Step, Crash, vars, Start, ReadHeads, ReadRevision, RunMigrations, CommitMigrations,
         LookForExtension, CreateExtension, CommitExtension, SeedIfEmpty, CountAds, ResetTables,
         CopyImages, InsertAds, CommitSeed
<1>3. CASE UNCHANGED vars
  BY <1>3 DEF RolesOK, vars
<1>4. ASSUME NEW p \in Processes, Step(p) \/ Crash(p) PROVE RolesOK'
  <2>1. \A q \in Processes \ {p} : pc'[q] = pc[q]
    BY <1>1, <1>4 DEF Step, Crash, Start, ReadHeads, ReadRevision, RunMigrations, CommitMigrations,
       LookForExtension, CreateExtension, CommitExtension, SeedIfEmpty, CountAds, ResetTables,
       CopyImages, InsertAds, CommitSeed, Goto, End
  <2>2. ASSUME p \in Forcers
        PROVE  pc'[p] \in {"down", "seed", "truncate", "images", "insert", "commit", "exited"}
    <3>1. pc[p] \in {"down", "seed", "truncate", "images", "insert", "commit", "exited"}
      BY <2>2 DEF RolesOK
    <3>2. p \notin Servers /\ p \notin Migrators
      BY <2>2, RolesAssumption
    <3> QED
      BY <1>1, <1>4, <3>1, <3>2 DEF Step, Crash, Start, ReadHeads, ReadRevision, RunMigrations,
         CommitMigrations, LookForExtension, CreateExtension, CommitExtension, SeedIfEmpty, CountAds,
         ResetTables, CopyImages, InsertAds, CommitSeed, Goto, End, AfterCount
  <2>3. ASSUME p \in Servers,
               pc'[p] \in {"provision", "extend", "extended", "count", "seed"}
        PROVE  "tables" \in created'
    <3>1. pc[p] \in {"provision", "extend", "extended", "count", "seed"} => "tables" \in created
      BY <2>3 DEF RolesOK
    <3> QED
      BY <1>1, <1>2, <1>4, <2>3, <3>1 DEF Step, Crash, Start, ReadHeads, ReadRevision, RunMigrations,
         CommitMigrations, LookForExtension, CreateExtension, CommitExtension, SeedIfEmpty, CountAds,
         ResetTables, CopyImages, InsertAds, CommitSeed, Goto, End, AfterCount
  <2>4. \A f \in Forcers :
          pc'[f] \in {"down", "seed", "truncate", "images", "insert", "commit", "exited"}
    BY <2>1, <2>2 DEF RolesOK, Processes
  <2>5. \A s \in Servers :
          pc'[s] \in {"provision", "extend", "extended", "count", "seed"} => "tables" \in created'
    BY <1>2, <2>1, <2>3 DEF RolesOK, Processes
  <2> QED
    BY <2>4, <2>5 DEF RolesOK
<1> QED
  BY <1>3, <1>4 DEF Next

\* A forced seed that has wiped the tables, or given up, does not come back.
LEMMA WipersGrow ==
    ASSUME IInv, RolesOK, NEW p \in Processes, Step(p) \/ Crash(p)
    PROVE  /\ IsFiniteSet(Wipers) /\ IsFiniteSet(Wipers')
           /\ Wipers \subseteq Wipers'
           /\ Cardinality(Wipers) \in Nat /\ Cardinality(Wipers') \in Nat
           /\ Cardinality(Wipers) <= Cardinality(Wipers')
<1>1. ASSUME NEW f \in Wipers PROVE f \in Wipers'
  <2>1. f \in Forcers /\ f \notin Servers /\ pc \in [Processes -> PCs] /\ f \in Processes
        /\ pc[f] \in {"images", "insert", "commit", "exited"}
    BY <1>1, RolesAssumption DEF Wipers, RolesOK, IInv, TypeOK, Processes
  <2>2. pc'[f] \in {"images", "insert", "commit", "exited"}
    BY <2>1 DEF Step, Crash, Start, ReadHeads, ReadRevision, RunMigrations,
         CommitMigrations, LookForExtension, CreateExtension, CommitExtension, SeedIfEmpty, CountAds,
         ResetTables, CopyImages, InsertAds, CommitSeed, Goto, End
  <2> QED
    BY <2>1, <2>2 DEF Wipers
<1>2. Wipers \subseteq Forcers /\ Wipers' \subseteq Forcers
  BY DEF Wipers
<1>3. IsFiniteSet(Wipers) /\ IsFiniteSet(Wipers')
  BY <1>2, FS_Subset, RolesAssumption
<1> QED
  BY <1>1, <1>3, FS_Subset, FS_CardinalityType

\* A step of another process takes from a server nothing that it had won, but
\* for TRUNCATE, after which it can lose the seed again.
LEMMA OthersStarts ==
    ASSUME IInv, NEW s \in Servers, NEW p \in Processes, p # s, Step(p) \/ Crash(p)
    PROVE  /\ ~ResetTables(p) => Starts(s)' <= Starts(s)
           /\ Starts(s)' <= Starts(s) + 1
<1>1. s \in Processes /\ runs[s] \in Nat
  BY DEF IInv, TypeOK, Processes
<1>2. runs'[s] = runs[s] /\ pc'[s] = pc[s]
  BY <1>1 DEF IInv, TypeOK, Step, Crash, Start, ReadHeads, ReadRevision, RunMigrations,
     CommitMigrations, LookForExtension, CreateExtension, CommitExtension, SeedIfEmpty, CountAds,
     ResetTables, CopyImages, InsertAds, CommitSeed, Goto, End
<1>3. created \subseteq created'
  BY DEF Step, Crash, Start, ReadHeads, ReadRevision, RunMigrations,
     CommitMigrations, LookForExtension, CreateExtension, CommitExtension, SeedIfEmpty, CountAds,
     ResetTables, CopyImages, InsertAds, CommitSeed
<1>4. ~ResetTables(p) => (IsEmpty' => IsEmpty)
  BY DEF IsEmpty, Step, Crash, Start, ReadHeads, ReadRevision, RunMigrations,
     CommitMigrations, LookForExtension, CreateExtension, CommitExtension, SeedIfEmpty, CountAds,
     CopyImages, InsertAds, CommitSeed, Seeded
<1> QED
  BY <1>1, <1>2, <1>3, <1>4 DEF Starts, CanLose, Count

\* A server pays for every start with something that it lost and cannot lose
\* again.
LEMMA OwnStarts ==
    ASSUME IInv, RolesOK, NEW s \in Servers, Step(s)
    PROVE  Starts(s)' <= Starts(s)
<1>1. /\ s \in Processes /\ runs[s] \in Nat /\ pc[s] \in PCs
      /\ pc \in [Processes -> PCs] /\ runs \in [Processes -> Nat]
      /\ s \notin Migrators /\ s \notin Forcers
  BY RolesAssumption DEF IInv, TypeOK, Processes
<1>2. CASE Start(s)
  BY <1>1, <1>2 DEF Start, Goto, Starts, CanLose, Count, IsEmpty
<1>3. CASE ReadHeads(s) \/ ReadRevision(s) \/ LookForExtension(s) \/ SeedIfEmpty(s) \/ CopyImages(s)
  <2>1. runs' = runs /\ created' = created /\ ads' = ads
    BY <1>3 DEF ReadHeads, ReadRevision, LookForExtension, SeedIfEmpty, CopyImages
  <2>2. /\ pc[s] # "down" /\ pc'[s] # "down"
        /\ pc'[s] = "ddl" => "tables" \notin created
        /\ pc'[s] = "extend" => "vector" \notin created
        /\ pc'[s] \in {"seed", "images", "insert"} => IsEmpty \/ pc[s] \in {"seed", "images", "insert"}
    BY <1>1, <1>3 DEF ReadHeads, ReadRevision, LookForExtension, SeedIfEmpty, CopyImages, Goto, Upgraded
  <2> QED
    BY <1>1, <2>1, <2>2 DEF Starts, CanLose, Count, IsEmpty
<1>4. CASE RunMigrations(s) \/ CreateExtension(s) \/ CountAds(s) \/ InsertAds(s)
  <2>1. runs' = runs /\ created' = created /\ ads' = ads
    BY <1>4 DEF RunMigrations, CreateExtension, CountAds, InsertAds
  <2>2. CASE pc'[s] = "down"
    <3>1. \/ pc[s] = "ddl" /\ "tables" \in created
          \/ pc[s] = "extend" /\ "vector" \in created
          \/ pc[s] \in {"seed", "insert"} /\ ~IsEmpty
      BY <1>1, <1>4, <2>2 DEF RunMigrations, CreateExtension, CountAds, InsertAds, Goto, AfterCount,
                              Conflicts, IsEmpty, RolesOK
    <3> QED
      BY <1>1, <2>1, <2>2, <3>1 DEF Starts, CanLose, Count, IsEmpty
  <2>3. CASE pc'[s] # "down"
    <3>1. \/ pc'[s] = "images" /\ pc[s] = "seed"
          \/ pc'[s] \in {"migrated", "extended", "commit"}
      BY <1>1, <1>4, <2>3 DEF RunMigrations, CreateExtension, CountAds, InsertAds, Goto, End, AfterCount
    <3> QED
      BY <1>1, <2>1, <2>3, <3>1 DEF Starts, CanLose, Count, IsEmpty
  <2> QED
    BY <2>2, <2>3
<1>5. CASE CommitMigrations(s) \/ CommitExtension(s) \/ CommitSeed(s)
  <2>1. /\ runs' = runs /\ created \subseteq created' /\ (IsEmpty' => IsEmpty)
        /\ pc'[s] \in {"provision", "count", "serving"}
    BY <1>1, <1>5 DEF CommitMigrations, CommitExtension, CommitSeed, Goto, Upgraded, Seeded, IsEmpty
  <2> QED
    BY <1>1, <2>1 DEF Starts, CanLose, Count
<1>6. ~ResetTables(s)
  BY <1>1 DEF ResetTables, IInv, ForceOnly
<1> QED
  BY <1>2, <1>3, <1>4, <1>5, <1>6 DEF Step

\* A crash costs a server one start.
LEMMA CrashStarts ==
    ASSUME IInv, NEW s \in Servers, Crash(s)
    PROVE  Starts(s)' <= Starts(s) + 1
<1>1. /\ s \in Processes /\ runs[s] \in Nat /\ pc \in [Processes -> PCs]
      /\ runs' = runs /\ created' = created /\ ads' = ads
  BY DEF IInv, TypeOK, Processes, Crash
<1>2. pc[s] # "down" /\ pc'[s] = "down"
  BY <1>1 DEF Crash, End, Goto
<1> QED
  BY <1>1, <1>2 DEF Starts, CanLose, Count, IsEmpty

\* Before anything starts each server has one start ahead and three to lose.
LEMMA InitStarts == Init => StartsOK
<1> SUFFICES ASSUME Init PROVE StartsOK
  OBVIOUS
<1>1. Wipers = {} /\ faults = 0
  BY DEF Init, Wipers, Processes
<1>2. Cardinality(Wipers) = 0
  BY <1>1, FS_EmptySet
<1>3. ASSUME NEW s \in Servers PROVE Starts(s) = 4
  BY DEF Init, Starts, CanLose, Count, IsEmpty, Processes
<1> QED
  BY <1>1, <1>2, <1>3, InitRoles DEF StartsOK

\* Every step keeps StartsOK: a fault or a TRUNCATE raises both sides.
LEMMA NextStarts == IInv /\ StartsOK /\ [Next]_vars => StartsOK'
<1> SUFFICES ASSUME IInv, StartsOK, [Next]_vars PROVE StartsOK'
  OBVIOUS
<1>1. RolesOK /\ RolesOK' /\ faults \in Nat
  BY NextRoles, RolesAssumption DEF StartsOK, IInv, TypeOK
<1>2. CASE UNCHANGED vars
  BY <1>1, <1>2 DEF StartsOK, vars, Starts, CanLose, Count, IsEmpty, Wipers
<1>3. ASSUME NEW p \in Processes, Step(p) \/ Crash(p), NEW s \in Servers
      PROVE  Starts(s)' <= 4 + faults' + Cardinality(Wipers')
  <2>1. /\ Cardinality(Wipers) \in Nat /\ Cardinality(Wipers') \in Nat
        /\ Cardinality(Wipers) <= Cardinality(Wipers')
        /\ Wipers \subseteq Wipers' /\ IsFiniteSet(Wipers')
    BY <1>1, <1>3, WipersGrow
  <2>2. Starts(s) <= 4 + faults + Cardinality(Wipers) /\ Starts(s) \in Int /\ Starts(s)' \in Int
    <3>1. runs[s] \in Nat /\ runs'[s] \in Nat
      BY NextIInv DEF IInv, TypeOK, Processes
    <3> QED
      BY <3>1 DEF StartsOK, Starts, CanLose, Count
  <2>3. CASE Crash(p)
    <3>1. faults' = faults + 1 /\ Starts(s)' <= Starts(s) + 1
      BY <1>3, <2>3, CrashStarts, OthersStarts DEF Crash
    <3> QED
      BY <1>1, <2>1, <2>2, <3>1
  <2>4. CASE ResetTables(p)
    <3>1. p \in Forcers /\ p \notin Servers /\ p \in Processes /\ pc \in [Processes -> PCs]
      BY <2>4, RolesAssumption DEF ResetTables, IInv, ForceOnly, TypeOK
    <3>2. p \notin Wipers /\ p \in Wipers' /\ faults' = faults
      BY <2>4, <3>1 DEF ResetTables, Goto, Wipers
    <3>3. Cardinality(Wipers) < Cardinality(Wipers')
      BY <2>1, <3>2, FS_Subset
    <3>4. Starts(s)' <= Starts(s) + 1
      BY <1>3, <3>1, OthersStarts
    <3> QED
      BY <1>1, <2>1, <2>2, <3>2, <3>3, <3>4
  <2>5. CASE Step(p) /\ ~ResetTables(p)
    <3>1. faults' = faults
      BY <2>5 DEF Step, Start, ReadHeads, ReadRevision, RunMigrations,
         CommitMigrations, LookForExtension, CreateExtension, CommitExtension, SeedIfEmpty, CountAds,
         CopyImages, InsertAds, CommitSeed
    <3>2. Starts(s)' <= Starts(s)
      BY <1>1, <1>3, <2>5, OthersStarts, OwnStarts
    <3> QED
      BY <1>1, <2>1, <2>2, <3>1, <3>2
  <2> QED
    BY <1>3, <2>3, <2>4, <2>5
<1> QED
  BY <1>1, <1>2, <1>3 DEF Next, StartsOK

\* A server is started four times at most, and once more for every fault and
\* every forced reseed, however many processes it races with.
THEOREM ServersStopRestarting == Spec => []RestartsBounded
<1>1. Spec => [](IInv /\ StartsOK)
  BY InitIInv, NextIInv, InitStarts, NextStarts, PTL DEF Spec
<1>2. IInv /\ StartsOK => RestartsBounded
  <2> SUFFICES ASSUME IInv, StartsOK, NEW s \in Servers
               PROVE  runs[s] <= 4 + faults + Cardinality(Wipers)
    BY DEF RestartsBounded
  <2>1. Wipers \subseteq Forcers
    BY DEF Wipers
  <2>2. Cardinality(Wipers) \in Nat
    BY <2>1, FS_Subset, FS_CardinalityType, RolesAssumption
  <2>3. runs[s] \in Nat /\ faults \in Nat /\ Starts(s) <= 4 + faults + Cardinality(Wipers)
    BY RolesAssumption DEF IInv, TypeOK, Processes, StartsOK
  <2>4. runs[s] <= Starts(s) /\ Starts(s) \in Nat
    BY <2>3 DEF Starts, CanLose, Count
  <2> QED
    BY <2>2, <2>3, <2>4
<1> QED
  BY <1>1, <1>2, PTL
============================================================================
