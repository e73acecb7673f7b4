---------------------------- MODULE StorageProofs ----------------------------
(***************************************************************************)
(* Theorems about the ledger as a file (module Storage), for every number  *)
(* of processes, tables, rows, seconds and snapshots kept: migrations that *)
(* interleave, fail and stop destroy no row, and a snapshot under its      *)
(* final name is whole.                                                    *)
(***************************************************************************)
EXTENDS Storage, FiniteSetTheorems, WellFoundedInduction, TLAPS

-----------------------------------------------------------------------------
(* The jobs and the types.                                                 *)

Numbers == 1..Len(Rebuilds)
PlainJob == [at: {"closed", "schema", "income", "mark", "commit", "open"}]
CheckJob == [at: {"check"}, k: Numbers]
ScriptJob ==
    {j \in [at: {"rename", "create", "fill", "drop"}, k: Numbers] : Rebuilds[j.k].table \in Table}
WriteJob == [at: {"copy", "describe", "name", "list"}, stamp: Second]
PruneJob == [at: {"prune"}, stamp: Second, old: SUBSET Second]
Job == PlainJob \cup CheckJob \cup ScriptJob \cup WriteJob \cup PruneJob

\* The table a process rebuilds, and who is at work on a snapshot.
Rebuilt(p) == Rebuilds[procs[p].k].table
Backing(j) == j.at \in {"copy", "describe", "name", "list", "prune"}

TablesTyped ==
    /\ now \in [Table -> TableForm \cup {None}] /\ legacy \in [Table -> TableForm \cup {None}]
    /\ written \in TableRows
FoldersTyped ==
    folders \in [Second -> Folder \cup {None}] /\ partial \in [Second -> Folder \cup {None}]
RestTyped ==
    /\ income \in {None, "column", "marked"}
    /\ clock \in Second /\ backups \in 0..MaxBackups /\ stops \in 0..MaxStops
    /\ disturbed \subseteq {"rebuild", "clash", "prune"}
JobsTyped == procs \in [Process -> Job]
\* Only who is between the flags of _add_income_flag and the next commit holds a
\* transaction open.
WriterInv ==
    /\ writer \in Process \cup {None}
    /\ writer # None => procs[writer].at \in {"check", "rename", "commit"}

LEMMA RebuildFacts ==
    Len(Rebuilds) = 4 /\ \A k \in Numbers : Rebuilds[k].to \in 1..2
<1>1. Len(Rebuilds) = 4
  BY DEF Rebuilds
<1>2. /\ Rebuilds[1].to = 1 /\ Rebuilds[2].to = 2 /\ Rebuilds[3].to = 1
      /\ Rebuilds[4].to = 1
  BY DEF Rebuilds
<1>3. \A k \in Numbers : k = 1 \/ k = 2 \/ k = 3 \/ k = 4
  BY <1>1 DEF Numbers
<1>4. QED
  BY <1>1, <1>2, <1>3

\* What is left of the rebuilds is one of them or the commit.
LEMMA CheckingJob ==
    ASSUME NEW k \in 1..(Len(Rebuilds) + 1)
    PROVE  /\ Checking(k) \in Job /\ Checking(k).at \in {"check", "commit"}
           /\ ~InScript(Checking(k)) /\ ~Backing(Checking(k))
<1>1. k > Len(Rebuilds) \/ k \in Numbers
  BY RebuildFacts DEF Numbers
<1>2. QED
  BY <1>1 DEF Checking, Job, CheckJob, PlainJob, InScript, Backing

LEMMA ClosedJob == Closed \in Job /\ Closed.at = "closed" /\ ~InScript(Closed) /\ ~Backing(Closed)
BY DEF Closed, Job, PlainJob, InScript, Backing

LEMMA JobAt ==
    ASSUME NEW j \in Job
    PROVE  /\ j.at = "check" => j \in CheckJob
           /\ j.at \in {"rename", "create", "fill", "drop"} => j \in ScriptJob
           /\ j.at \in {"copy", "describe", "name", "list"} => j \in WriteJob
           /\ j.at = "prune" => j \in PruneJob
BY DEF Job, PlainJob, CheckJob, ScriptJob, WriteJob, PruneJob

LEMMA Became ==
    ASSUME JobsTyped, NEW p \in Process, NEW j \in Job, Become(p, j)
    PROVE  /\ JobsTyped' /\ procs'[p] = j
           /\ \A q \in Process \ {p} : procs'[q] = procs[q]
BY DEF JobsTyped, Become

LEMMA KNumbers ==
    ASSUME NEW j \in Job, "k" \in DOMAIN j PROVE j.k \in Numbers
BY DEF Job, PlainJob, CheckJob, ScriptJob, WriteJob, PruneJob

\* A process that holds no transaction goes on and the writer stays who it is.
LEMMA WriterStays ==
    ASSUME JobsTyped, WriterInv, NEW p \in Process, NEW j \in Job, Become(p, j),
           writer' = writer, writer # p \/ j.at \in {"check", "rename", "commit"}
    PROVE  WriterInv'
BY Became DEF WriterInv

-----------------------------------------------------------------------------
(* Every step keeps the types.                                             *)

Typed == TablesTyped /\ FoldersTyped /\ RestTyped /\ JobsTyped /\ WriterInv

LEMMA TypedIsTypeOK == Typed => TypeOK
<1>1. SUFFICES ASSUME Typed PROVE TypeOK
  OBVIOUS
<1>2. \A p \in Process : "k" \in DOMAIN procs[p] => procs[p].k \in 1..Len(Rebuilds)
  BY <1>1, KNumbers DEF Typed, JobsTyped, Numbers
<1>3. DOMAIN procs = Process
  BY <1>1 DEF Typed, JobsTyped
<1>4. QED
  BY <1>1, <1>2, <1>3 DEF Typed, TablesTyped, FoldersTyped, RestTyped, WriterInv, TypeOK

LEMMA InitTyped == Init => Typed
<1>1. SUFFICES ASSUME Init PROVE Typed
  OBVIOUS
<1>2. TablesTyped
  <2>1. PICK former \in Former, r \in Rows :
            /\ now = [t \in Table |-> [form |-> former[t], rows |-> r]]
            /\ written = [t \in Table |-> r]
    BY <1>1 DEF Init
  <2>2. former \in [Table -> 0..2] /\ r \subseteq Row
    BY TablesAssumption
  <2>3. \A t \in Table : [form |-> former[t], rows |-> r] \in TableForm
    BY <2>2 DEF TableForm
  <2>4. legacy = [t \in Table |-> None]
    BY <1>1 DEF Init
  <2>5. QED
    BY <2>1, <2>2, <2>3, <2>4 DEF TablesTyped, TableRows
<1>3. FoldersTyped
  BY <1>1 DEF Init, FoldersTyped
<1>4. RestTyped
  BY <1>1, KeepAssumption, BoundsAssumption DEF Init, RestTyped, Second
<1>5. JobsTyped /\ WriterInv
  BY <1>1, ClosedJob DEF Init, JobsTyped, WriterInv
<1>6. QED
  BY <1>2, <1>3, <1>4, <1>5 DEF Typed

\* A table's row sets are of rows.
LEMMA HeldRows ==
    ASSUME TablesTyped, NEW t \in Table
    PROVE  /\ Held(t) \subseteq Row /\ Stranded(t) \subseteq Row
           /\ now[t] # None => now[t] \in TableForm
           /\ legacy[t] # None => legacy[t] \in TableForm
<1>1. now[t] \in TableForm \cup {None} /\ legacy[t] \in TableForm \cup {None}
  BY DEF TablesTyped
<1>2. QED
  BY <1>1 DEF Held, Stranded, TableForm

LEMMA MigrateTyped ==
    ASSUME Typed, NEW p \in Process, Migrate(p) PROVE Typed'
<1>1. JobsTyped /\ WriterInv /\ TablesTyped /\ FoldersTyped /\ RestTyped /\ procs[p] \in Job
  BY DEF Typed, JobsTyped
<1>2. CASE Open(p)
  <2>1. [at |-> "schema"] \in Job
    BY DEF Job, PlainJob
  <2>2. writer # p
    BY ProcessAssumption, <1>1, <1>2, ClosedJob DEF Open, WriterInv
  <2>3. JobsTyped' /\ WriterInv'
    BY <1>1, <1>2, <2>1, <2>2, Became, WriterStays DEF Open
  <2>4. QED
    BY <1>1, <1>2, <2>3
    DEF Open, database, snapshots, bounds, Typed, TablesTyped, FoldersTyped, RestTyped
<1>3. CASE Schema(p)
  <2>1. [at |-> "income"] \in Job
    BY DEF Job, PlainJob
  <2>2. writer # p
    BY ProcessAssumption, <1>1, <1>3 DEF Schema, WriterInv
  <2>3. JobsTyped' /\ WriterInv'
    BY <1>1, <1>3, <2>1, <2>2, Became, WriterStays DEF Schema
  <2>4. \A t \in Table : [form |-> Present(t), rows |-> {}] \in TableForm
    BY DEF Present, TableForm
  <2>5. TablesTyped'
    BY <1>1, <1>3, <2>4 DEF Schema, TablesTyped
  <2>6. RestTyped'
    BY <1>1, <1>3 DEF Schema, bounds, RestTyped, Met
  <2>7. QED
    BY <1>1, <1>3, <2>3, <2>5, <2>6 DEF Schema, snapshots, Typed, FoldersTyped
<1>4. CASE AddColumn(p)
  <2>1. PICK j \in Job : Become(p, j)
    <3>1. [at |-> "mark"] \in Job /\ Checking(1) \in Job
      BY RebuildFacts, CheckingJob DEF Job, PlainJob
    <3>2. QED
      BY <1>4, <3>1 DEF AddColumn
  <2>2. writer # p
    BY ProcessAssumption, <1>1, <1>4 DEF AddColumn, WriterInv
  <2>3. JobsTyped' /\ WriterInv'
    BY <1>1, <1>4, <2>1, <2>2, Became, WriterStays DEF AddColumn
  <2>4. QED
    BY <1>1, <1>4, <2>3
    DEF AddColumn, snapshots, bounds, Typed, TablesTyped, FoldersTyped, RestTyped
<1>5. CASE Mark(p)
  <2>1. Checking(1) \in Job /\ Checking(1).at \in {"check", "rename", "commit"}
    BY RebuildFacts, CheckingJob
  <2>2. Become(p, Checking(1)) /\ writer' = p
    BY <1>5 DEF Mark
  <2> DEFINE j == Checking(1)
  <2> HIDE DEF j
  <2>3. JobsTyped' /\ procs'[p] = j
    BY <1>1, <2>1, <2>2, Became DEF j
  <2>4. WriterInv'
    BY <2>1, <2>2, <2>3 DEF WriterInv, j
  <2>5. QED
    BY <1>1, <1>5, <2>3, <2>4
    DEF Mark, database, snapshots, bounds, Typed, TablesTyped, FoldersTyped, RestTyped
<1>6. CASE Check(p)
  <2>1. procs[p] \in CheckJob
    BY <1>1, <1>6, JobAt DEF Check
  <2>2. PICK k \in Numbers : k = procs[p].k
    BY <2>1 DEF CheckJob
  <2>3. PICK j \in Job : Become(p, j) /\ j.at \in {"check", "rename", "commit"}
    <3>1. CASE UpToDate(Rebuilds[k])
      <4>1. k + 1 \in 1..(Len(Rebuilds) + 1)
        BY RebuildFacts DEF Numbers
      <4>2. Become(p, Checking(k + 1))
        BY <1>6, <2>2, <3>1 DEF Check
      <4>3. QED
        BY <4>1, <4>2, CheckingJob
    <3>2. CASE ~UpToDate(Rebuilds[k])
      <4>1. [at |-> "rename", k |-> k] \in Job
        BY <3>2 DEF UpToDate, Job, ScriptJob
      <4>2. Become(p, [at |-> "rename", k |-> k])
        BY <1>6, <2>2, <3>2 DEF Check
      <4>3. QED
        BY <4>1, <4>2
    <3>3. QED
      BY <3>1, <3>2
  <2>4. JobsTyped' /\ WriterInv'
    BY <1>1, <1>6, <2>3, Became, WriterStays DEF Check
  <2>5. QED
    BY <1>1, <1>6, <2>4
    DEF Check, database, snapshots, bounds, Typed, TablesTyped, FoldersTyped, RestTyped
<1>7. CASE Rename(p)
  <2>1. procs[p] \in ScriptJob
    BY <1>1, <1>7, JobAt DEF Rename
  <2>2. PICK k \in Numbers : k = procs[p].k /\ Rebuilds[k].table \in Table
    BY <2>1 DEF ScriptJob
  <2>3. PICK j \in Job : Become(p, j)
    <3>1. [procs[p] EXCEPT !.at = "create"] \in Job
      BY <2>1 DEF ScriptJob, Job
    <3>2. QED
      BY <1>7, <3>1, ClosedJob DEF Rename
  <2>4. writer' # p /\ (writer' = writer \/ writer' = None)
    BY <1>7, ProcessAssumption DEF Rename, Committed
  <2>5. JobsTyped' /\ WriterInv'
    BY <1>1, <2>3, <2>4, Became DEF WriterInv
  <2>6. TablesTyped'
    BY <1>1, <1>7, <2>2 DEF Rename, TablesTyped
  <2>7. RestTyped'
    BY <1>1, <1>7 DEF Rename, Committed, bounds, RestTyped, Met
  <2>8. QED
    BY <1>1, <1>7, <2>5, <2>6, <2>7 DEF Rename, snapshots, Typed, FoldersTyped
<1>8. CASE Create(p)
  <2>1. procs[p] \in ScriptJob
    BY <1>1, <1>8, JobAt DEF Create
  <2>2. PICK k \in Numbers : k = procs[p].k /\ Rebuilds[k].table \in Table
    BY <2>1 DEF ScriptJob
  <2>3. PICK j \in Job : Become(p, j)
    <3>1. [procs[p] EXCEPT !.at = "fill"] \in Job
      BY <2>1 DEF ScriptJob, Job
    <3>2. QED
      BY <1>8, <3>1, ClosedJob DEF Create
  <2>4. writer' # p /\ writer' = writer
    BY ProcessAssumption, <1>1, <1>8 DEF Create, WriterInv
  <2>5. JobsTyped' /\ WriterInv'
    BY <1>1, <2>3, <2>4, Became DEF WriterInv
  <2>6. TablesTyped'
    <3>1. [form |-> Rebuilds[k].to, rows |-> {}] \in TableForm
      BY RebuildFacts DEF TableForm
    <3>2. QED
      BY <1>1, <1>8, <2>2, <3>1 DEF Create, TablesTyped
  <2>7. RestTyped'
    BY <1>1, <1>8 DEF Create, bounds, RestTyped, Met
  <2>8. QED
    BY <1>1, <1>8, <2>5, <2>6, <2>7 DEF Create, snapshots, Typed, FoldersTyped
<1>9. CASE Fill(p)
  <2>1. procs[p] \in ScriptJob
    BY <1>1, <1>9, JobAt DEF Fill
  <2>2. PICK k \in Numbers : k = procs[p].k /\ Rebuilds[k].table \in Table
    BY <2>1 DEF ScriptJob
  <2>3. PICK j \in Job : Become(p, j)
    <3>1. [procs[p] EXCEPT !.at = "drop"] \in Job
      BY <2>1 DEF ScriptJob, Job
    <3>2. QED
      BY <1>9, <3>1, ClosedJob DEF Fill
  <2>4. writer' # p /\ writer' = writer
    BY ProcessAssumption, <1>1, <1>9 DEF Fill, WriterInv
  <2>5. JobsTyped' /\ WriterInv'
    BY <1>1, <2>3, <2>4, Became DEF WriterInv
  <2>6. TablesTyped'
    <3> DEFINE t == Rebuilds[k].table
    <3>1. t \in Table
      BY <2>2
    <3> HIDE DEF t
    <3>2. now' = now \/ (now[t] # None /\ now' = [now EXCEPT ![t].rows = @ \cup Stranded(t)])
      BY <1>9, <2>2 DEF Fill, t
    <3>3. now[t] # None => [now[t] EXCEPT !.rows = @ \cup Stranded(t)] \in TableForm
      BY <1>1, <3>1, HeldRows DEF TableForm
    <3>4. now' \in [Table -> TableForm \cup {None}]
      BY <1>1, <3>1, <3>2, <3>3 DEF TablesTyped
    <3>5. QED
      BY <1>1, <1>9, <3>4 DEF Fill, TablesTyped
  <2>7. RestTyped'
    BY <1>1, <1>9 DEF Fill, bounds, RestTyped, Met
  <2>8. QED
    BY <1>1, <1>9, <2>5, <2>6, <2>7 DEF Fill, snapshots, Typed, FoldersTyped
<1>10. CASE Drop(p)
  <2>1. procs[p] \in ScriptJob
    BY <1>1, <1>10, JobAt DEF Drop
  <2>2. PICK k \in Numbers : k = procs[p].k /\ Rebuilds[k].table \in Table
    BY <2>1 DEF ScriptJob
  <2>3. PICK j \in Job : Become(p, j)
    <3>1. k + 1 \in 1..(Len(Rebuilds) + 1)
      BY RebuildFacts DEF Numbers
    <3>2. QED
      BY <1>10, <2>2, <3>1, ClosedJob, CheckingJob DEF Drop
  <2>4. writer' # p /\ writer' = writer
    BY ProcessAssumption, <1>1, <1>10 DEF Drop, WriterInv
  <2>5. JobsTyped' /\ WriterInv'
    BY <1>1, <2>3, <2>4, Became DEF WriterInv
  <2>6. TablesTyped'
    BY <1>1, <1>10, <2>2 DEF Drop, TablesTyped
  <2>7. QED
    BY <1>1, <1>10, <2>5, <2>6
    DEF Drop, snapshots, bounds, Typed, FoldersTyped, RestTyped
<1>11. CASE Opened(p)
  <2>1. [at |-> "open"] \in Job
    BY DEF Job, PlainJob
  <2>2. writer' # p /\ (writer' = writer \/ writer' = None)
    BY <1>11, ProcessAssumption DEF Opened, Committed
  <2>3. JobsTyped' /\ WriterInv'
    BY <1>1, <1>11, <2>1, <2>2, Became DEF Opened, WriterInv
  <2>4. QED
    BY <1>1, <1>11, <2>3
    DEF Opened, Committed, snapshots, bounds, Typed, TablesTyped, FoldersTyped, RestTyped
<1>12. QED
  BY <1>2, <1>3, <1>4, <1>5, <1>6, <1>7, <1>8, <1>9, <1>10, <1>11 DEF Migrate

LEMMA BackupTyped ==
    ASSUME Typed, NEW p \in Process, StartBackup(p) \/ Backup(p) PROVE Typed'
<1>1. JobsTyped /\ WriterInv /\ TablesTyped /\ FoldersTyped /\ RestTyped /\ procs[p] \in Job
  BY DEF Typed, JobsTyped
\* None of these steps touches the ledger, and who does them holds no transaction.
<1>2. /\ writer # p /\ writer' = writer /\ TablesTyped'
  BY <1>1, ProcessAssumption DEF StartBackup, Backup, CopyDatabase, Describe, Name, List,
     RemoveFile, RemoveFolder, EndBackup, BackupFails, database, WriterInv, TablesTyped
<1>3. RestTyped'
  BY <1>1, BoundsAssumption DEF StartBackup, Backup, CopyDatabase, Describe, Name, List,
     RemoveFile, RemoveFolder, EndBackup, BackupFails, database, bounds, RestTyped
<1>4. ASSUME NEW j \in Job, Become(p, j) PROVE JobsTyped' /\ WriterInv'
  BY <1>1, <1>2, <1>4, Became, WriterStays
<1>5. /\ \A s \in Second : folders[s] \in Folder \cup {None} /\ partial[s] \in Folder \cup {None}
      /\ Empty \in Folder
  BY <1>1 DEF FoldersTyped, Empty, Folder
<1>6. CASE StartBackup(p)
  <2>1. [at |-> "copy", stamp |-> clock] \in Job /\ clock \in Second
    BY <1>1 DEF Job, WriteJob, RestTyped
  <2>2. JobsTyped' /\ WriterInv'
    BY <1>4, <1>6, <2>1, ClosedJob DEF StartBackup
  <2>3. FoldersTyped'
    BY <1>1, <1>5, <1>6, <2>1 DEF StartBackup, FoldersTyped
  <2>4. QED
    BY <1>2, <1>3, <2>2, <2>3 DEF Typed
<1>7. CASE CopyDatabase(p)
  <2>1. procs[p] \in WriteJob
    BY <1>1, <1>7, JobAt DEF CopyDatabase
  <2>2. PICK s \in Second : s = Stamped(p)
    BY <2>1 DEF WriteJob, Stamped
  <2>3. [procs[p] EXCEPT !.at = "describe"] \in Job
    BY <2>1 DEF WriteJob, Job
  <2>4. JobsTyped' /\ WriterInv'
    BY <1>4, <1>7, <2>3 DEF CopyDatabase
  <2>5. Copy \in TableRows
    BY <1>1, HeldRows DEF Copy, TableRows
  <2>6. partial' = [partial EXCEPT ![s].db = Copy] /\ partial[s] \in Folder /\ folders' = folders
    BY <1>5, <1>7, <2>2 DEF CopyDatabase
  <2>7. [partial[s] EXCEPT !.db = Copy] \in Folder
    BY <2>5, <2>6 DEF Folder
  <2>8. FoldersTyped'
    BY <1>1, <2>6, <2>7 DEF FoldersTyped
  <2>9. QED
    BY <1>2, <1>3, <2>4, <2>8 DEF Typed
<1>8. CASE Describe(p)
  <2>1. procs[p] \in WriteJob
    BY <1>1, <1>8, JobAt DEF Describe
  <2>2. PICK s \in Second : s = Stamped(p)
    BY <2>1 DEF WriteJob, Stamped
  <2>3. [procs[p] EXCEPT !.at = "name"] \in Job
    BY <2>1 DEF WriteJob, Job
  <2>4. JobsTyped' /\ WriterInv'
    BY <1>4, <1>8, <2>3 DEF Describe
  <2>5. /\ partial' = [partial EXCEPT ![s].manifest = partial[s].db]
        /\ partial[s] \in Folder /\ folders' = folders
    BY <1>5, <1>8, <2>2 DEF Describe, Counted
  <2>6. [partial[s] EXCEPT !.manifest = partial[s].db] \in Folder
    BY <2>5 DEF Folder
  <2>7. FoldersTyped'
    BY <1>1, <2>5, <2>6 DEF FoldersTyped
  <2>8. QED
    BY <1>2, <1>3, <2>4, <2>7 DEF Typed
<1>9. CASE Name(p)
  <2>1. procs[p] \in WriteJob
    BY <1>1, <1>9, JobAt DEF Name
  <2>2. PICK s \in Second : s = Stamped(p)
    BY <2>1 DEF WriteJob, Stamped
  <2>3. [at |-> "list", stamp |-> s] \in Job
    BY DEF WriteJob, Job
  <2>4. JobsTyped' /\ WriterInv'
    BY <1>4, <1>9, <2>2, <2>3, ClosedJob DEF Name
  <2>5. FoldersTyped'
    BY <1>1, <1>5, <1>9, <2>2 DEF Name, snapshots, FoldersTyped
  <2>6. QED
    BY <1>2, <1>3, <2>4, <2>5 DEF Typed
<1>10. CASE List(p)
  <2>1. procs[p] \in WriteJob
    BY <1>1, <1>10, JobAt DEF List
  <2> DEFINE old == IF Keep = 0 THEN {} ELSE Pruned(Stamped(p))
  <2>2. Stamped(p) \in Second /\ old \subseteq Second
    BY <2>1 DEF WriteJob, Stamped, Pruned, Snapshots
  <2> HIDE DEF old
  <2>3. [at |-> "prune", stamp |-> Stamped(p), old |-> old] \in Job
    BY <2>2 DEF PruneJob, Job
  <2>4. JobsTyped' /\ WriterInv'
    BY <1>4, <1>10, <2>3 DEF List, old
  <2>5. QED
    BY <1>1, <1>2, <1>3, <1>10, <2>4 DEF List, snapshots, FoldersTyped, Typed
<1>11. CASE RemoveFile(p)
  <2>1. procs[p] \in PruneJob
    BY <1>1, <1>11, JobAt DEF RemoveFile
  <2>2. PICK s \in Second, file \in {"db", "manifest"} :
            folders[s] # None /\ folders' = [folders EXCEPT ![s][file] = None]
    BY <1>11, <2>1 DEF RemoveFile, PruneJob
  <2>3. [folders[s] EXCEPT ![file] = None] \in Folder
    BY <1>5, <2>2 DEF Folder
  <2>4. FoldersTyped'
    BY <1>1, <1>11, <2>2, <2>3 DEF RemoveFile, FoldersTyped
  <2>5. QED
    BY <1>1, <1>2, <1>3, <1>11, <2>4 DEF RemoveFile, JobsTyped, WriterInv, Typed
<1>12. CASE RemoveFolder(p)
  <2>1. procs[p] \in PruneJob
    BY <1>1, <1>12, JobAt DEF RemoveFolder
  <2>2. PICK s \in Second : /\ folders' = [folders EXCEPT ![s] = None]
                            /\ Become(p, [procs[p] EXCEPT !.old = @ \ {s}])
    BY <1>12, <2>1 DEF RemoveFolder, PruneJob
  <2>3. [procs[p] EXCEPT !.old = @ \ {s}] \in Job
    BY <2>1 DEF PruneJob, Job
  <2>4. JobsTyped' /\ WriterInv'
    BY <1>4, <2>2, <2>3
  <2>5. QED
    BY <1>1, <1>2, <1>3, <1>12, <2>2, <2>4 DEF RemoveFolder, FoldersTyped, Typed
<1>13. CASE EndBackup(p)
  <2>1. JobsTyped' /\ WriterInv'
    BY <1>4, <1>13, ClosedJob DEF EndBackup
  <2>2. QED
    BY <1>1, <1>2, <1>3, <1>13, <2>1 DEF EndBackup, snapshots, FoldersTyped, Typed
<1>14. CASE BackupFails(p)
  <2>1. JobsTyped' /\ WriterInv'
    BY <1>4, <1>14, ClosedJob DEF BackupFails
  <2>2. QED
    BY <1>1, <1>2, <1>3, <1>14, <2>1 DEF BackupFails, FoldersTyped, Typed
<1>15. QED
  BY <1>6, <1>7, <1>8, <1>9, <1>10, <1>11, <1>12, <1>13, <1>14 DEF Backup

LEMMA OtherTyped ==
    ASSUME Typed, NEW p \in Process,
           \/ GiveUp(p) \/ Close(p) \/ Stop(p)
           \/ \E t \in Table, r \in Row : Insert(p, t, r)
    PROVE  Typed'
<1>1. JobsTyped /\ WriterInv /\ TablesTyped /\ FoldersTyped /\ RestTyped /\ procs[p] \in Job
  BY DEF Typed, JobsTyped
<1>2. CASE GiveUp(p)
  <2>1. writer # p
    BY <1>2 DEF GiveUp, MayWrite
  <2>2. JobsTyped' /\ WriterInv'
    BY <1>1, <1>2, <2>1, ClosedJob, Became, WriterStays DEF GiveUp
  <2>3. QED
    BY <1>1, <1>2, <2>2 DEF GiveUp, CutShort, database, snapshots, bounds, Typed, TablesTyped,
       FoldersTyped, RestTyped
<1>3. CASE Close(p)
  <2>1. writer # p
    BY <1>1, <1>3, ProcessAssumption DEF Close, WriterInv
  <2>2. JobsTyped' /\ WriterInv'
    BY <1>1, <1>3, <2>1, ClosedJob, Became, WriterStays DEF Close
  <2>3. QED
    BY <1>1, <1>3, <2>2 DEF Close, database, snapshots, bounds, Typed, TablesTyped,
       FoldersTyped, RestTyped
<1>4. CASE Stop(p)
  <2>1. JobsTyped' /\ procs'[p] = Closed /\ \A q \in Process \ {p} : procs'[q] = procs[q]
    BY <1>1, <1>4, ClosedJob, Became DEF Stop
  <2>2. writer' # p /\ (writer' = writer \/ writer' = None)
    BY <1>4, ProcessAssumption DEF Stop
  <2>3. WriterInv'
    BY <1>1, <2>1, <2>2 DEF WriterInv
  <2>4. RestTyped'
    BY <1>1, <1>4, BoundsAssumption DEF Stop, database, CutShort, RestTyped
  <2>5. QED
    BY <1>1, <1>4, <2>1, <2>3, <2>4 DEF Stop, database, snapshots, Typed, TablesTyped,
       FoldersTyped
<1>5. ASSUME NEW t \in Table, NEW r \in Row, Insert(p, t, r) PROVE Typed'
  <2>1. now[t] \in TableForm /\ now' = [now EXCEPT ![t].rows = @ \cup {r}]
    BY <1>1, <1>5, HeldRows DEF Insert
  <2>2. [now[t] EXCEPT !.rows = @ \cup {r}] \in TableForm
    BY <2>1 DEF TableForm
  <2>3. TablesTyped'
    BY <1>1, <1>5, <2>1, <2>2 DEF Insert, TablesTyped, TableRows
  <2>4. QED
    BY <1>1, <1>5, <2>3 DEF Insert, snapshots, bounds, Typed, JobsTyped, WriterInv,
       FoldersTyped, RestTyped
<1>6. QED
  BY <1>2, <1>3, <1>4, <1>5

LEMMA TypedStep == ASSUME Typed, [Next]_vars PROVE Typed'
<1>1. CASE Time
  <2>1. clock' \in Second /\ stops' \in 0..MaxStops
    BY <1>1, BoundsAssumption, KeepAssumption
    DEF Time, Tick, SetBack, Typed, RestTyped, Second
  <2>2. QED
    BY <1>1, <2>1 DEF Time, Tick, SetBack, database, snapshots, Typed, TablesTyped, FoldersTyped,
       RestTyped, JobsTyped, WriterInv
<1>2. CASE UNCHANGED vars
  BY <1>2 DEF vars, Typed, TablesTyped, FoldersTyped, RestTyped, JobsTyped, WriterInv
<1>3. QED
  BY <1>1, <1>2, MigrateTyped, BackupTyped, OtherTyped DEF Next

\* Every variable keeps its type, whatever processes migrate, copy and prune at once.
THEOREM TypeCorrect == Spec => []TypeOK
<1>1. Spec => []Typed
  BY InitTyped, TypedStep, PTL DEF Spec
<1>2. QED
  BY <1>1, TypedIsTypeOK, PTL

-----------------------------------------------------------------------------
(* No row is lost.                                                         *)

\* Who is in the script of a table has it renamed, is alone in it, and at its last
\* statement has copied every row: the rename fails while a renamed table is there.
ScriptInv ==
    /\ \A p \in Process : InScript(procs[p]) =>
        /\ legacy[Rebuilt(p)] # None
        /\ procs[p].at = "drop" => Stranded(Rebuilt(p)) \subseteq Held(Rebuilt(p))
    /\ \A p, q \in Process :
        InScript(procs[p]) /\ InScript(procs[q]) /\ Rebuilt(p) = Rebuilt(q) => p = q

\* A table is left renamed only by a rebuild that was cut short, or met another.
UnderWay ==
    "rebuild" \notin disturbed =>
        \A t \in Table : legacy[t] # None =>
            \E q \in Process : InScript(procs[q]) /\ Rebuilt(q) = t

TablesInv == ScriptInv /\ NothingDestroyed /\ UnderWay

LEMMA InitTables == Init => TablesInv
<1>1. SUFFICES ASSUME Init PROVE TablesInv
  OBVIOUS
<1>2. ScriptInv /\ UnderWay
  BY <1>1, ClosedJob DEF Init, ScriptInv, UnderWay
<1>3. PICK former \in Former, r \in Rows :
          /\ now = [t \in Table |-> [form |-> former[t], rows |-> r]]
          /\ written = [t \in Table |-> r]
  BY <1>1 DEF Init
<1>4. ASSUME NEW t \in Table PROVE written[t] \subseteq Held(t)
  <2>1. former[t] \in 0..2 /\ r \subseteq Row
    BY TablesAssumption
  <2>2. [form |-> former[t], rows |-> r] \in TableForm
    BY <2>1 DEF TableForm
  <2>3. now[t] # None /\ now[t].rows = r /\ written[t] = r
    BY <1>3, <2>2, TablesAssumption
  <2>4. QED
    BY <2>3 DEF Held
<1>5. NothingDestroyed
  BY <1>4 DEF NothingDestroyed
<1>6. QED
  BY <1>2, <1>5 DEF TablesInv

\* Before and after a step outside the scripts that leaves the tables alone.
LEMMA OutsideKeeps ==
    ASSUME JobsTyped, TablesInv, NEW p \in Process, NEW j \in Job, Become(p, j),
           ~InScript(procs[p]), ~InScript(j), UNCHANGED <<now, legacy, written>>,
           disturbed \subseteq disturbed'
    PROVE  TablesInv'
<1>1. procs'[p] = j /\ \A q \in Process \ {p} : procs'[q] = procs[q]
  BY Became
<1>2. ScriptInv'
  BY <1>1 DEF TablesInv, ScriptInv, Rebuilt, Held, Stranded
<1>3. NothingDestroyed'
  BY DEF TablesInv, NothingDestroyed, Held, Stranded
<1>4. UnderWay'
  BY <1>1 DEF TablesInv, UnderWay, Rebuilt
<1>5. QED
  BY <1>2, <1>3, <1>4 DEF TablesInv

\* A rebuild that is cut short, or fails upon another, leaves its two tables.
LEMMA CutShortKeeps ==
    ASSUME JobsTyped, TablesInv, NEW p \in Process, Become(p, Closed),
           InScript(procs[p]) => "rebuild" \in disturbed',
           UNCHANGED <<now, legacy, written>>, disturbed \subseteq disturbed'
    PROVE  TablesInv'
<1>1. procs'[p] = Closed /\ ~InScript(procs'[p]) /\ \A q \in Process \ {p} : procs'[q] = procs[q]
  BY Became, ClosedJob
<1>2. ScriptInv'
  BY <1>1 DEF TablesInv, ScriptInv, Rebuilt, Held, Stranded
<1>3. NothingDestroyed'
  BY DEF TablesInv, NothingDestroyed, Held, Stranded
<1>4. UnderWay'
  BY <1>1 DEF TablesInv, UnderWay, Rebuilt
<1>5. QED
  BY <1>2, <1>3, <1>4 DEF TablesInv

\* A step that leaves every job as it is and only adds rows where they are written.
LEMMA AddingKeeps ==
    ASSUME TablesInv, UNCHANGED <<procs, legacy>>, disturbed \subseteq disturbed',
           \A t \in Table : Held(t) \subseteq Held(t)' /\ written'[t] \subseteq Held(t)' \cup written[t],
           \A p \in Process : InScript(procs[p]) => Rebuilt(p) \in Table
    PROVE  TablesInv'
<1>1. \A t \in Table : Stranded(t)' = Stranded(t)
  BY DEF Stranded
<1>2. ScriptInv'
  BY <1>1 DEF TablesInv, ScriptInv, Rebuilt
<1>3. NothingDestroyed'
  BY <1>1 DEF TablesInv, NothingDestroyed
<1>4. UnderWay'
  BY DEF TablesInv, UnderWay, Rebuilt
<1>5. QED
  BY <1>2, <1>3, <1>4 DEF TablesInv

LEMMA ScriptTable ==
    ASSUME JobsTyped, NEW p \in Process, InScript(procs[p]) \/ procs[p].at = "rename"
    PROVE  /\ procs[p].k \in Numbers /\ Rebuilt(p) \in Table
           /\ procs[p] \in ScriptJob
           /\ \A a \in {"rename", "create", "fill", "drop"} :
                /\ [procs[p] EXCEPT !.at = a] \in Job /\ [procs[p] EXCEPT !.at = a].at = a
                /\ [procs[p] EXCEPT !.at = a].k = procs[p].k
<1>1. procs[p] \in ScriptJob
  BY JobAt DEF JobsTyped, InScript
<1>2. QED
  BY <1>1 DEF ScriptJob, Rebuilt, Job

LEMMA SchemaTables ==
    ASSUME Typed, TablesInv, NEW p \in Process, Schema(p) PROVE TablesInv'
<1>1. JobsTyped /\ TablesTyped
  BY DEF Typed
<1>2. [at |-> "income"] \in Job /\ ~InScript([at |-> "income"]) /\ ~InScript(procs[p])
  BY DEF Job, PlainJob, InScript, Schema
<1>3. \A q \in Process : InScript(procs'[q]) => procs'[q] = procs[q] /\ InScript(procs[q])
                                                /\ Rebuilt(q) \in Table
  BY <1>1, <1>2, Became, ScriptTable DEF Schema
<1>4. \A q \in Process : InScript(procs[q]) => procs'[q] = procs[q]
  BY <1>1, <1>2, Became DEF Schema
<1>5. \A t \in Table : Held(t)' = Held(t) /\ Stranded(t)' = Stranded(t)
  <2>1. ASSUME NEW t \in Table PROVE Held(t)' = Held(t)
    <3>1. CASE now[t] = None
      <4>1. [form |-> Present(t), rows |-> {}] \in TableForm
        BY DEF Present, TableForm
      <4>2. now'[t] = [form |-> Present(t), rows |-> {}] /\ now'[t] # None
        BY <3>1, <4>1, TablesAssumption DEF Schema
      <4>3. QED
        BY <3>1, <4>2 DEF Held
    <3>2. CASE now[t] # None
      BY <3>2 DEF Held, Schema
    <3>3. QED
      BY <3>1, <3>2
  <2>2. QED
    BY <2>1 DEF Schema, Stranded
<1>6. ScriptInv'
  BY <1>3, <1>5 DEF TablesInv, ScriptInv, Rebuilt, Schema
<1>7. NothingDestroyed'
  BY <1>5 DEF TablesInv, NothingDestroyed, Schema
<1>8. UnderWay'
  BY <1>4 DEF TablesInv, UnderWay, Rebuilt, Schema, Met
<1>9. QED
  BY <1>6, <1>7, <1>8 DEF TablesInv

LEMMA RenameTables ==
    ASSUME Typed, TablesInv, NEW p \in Process, Rename(p) PROVE TablesInv'
<1>1. JobsTyped /\ TablesTyped
  BY DEF Typed
<1>2. PICK t \in Table : t = Rebuilt(p)
  BY <1>1, ScriptTable DEF Rename
<1>3. ~InScript(procs[p]) /\ disturbed \subseteq disturbed'
  BY DEF Rename, InScript, Met
<1>4. CASE ~Renames(t)
  BY <1>1, <1>2, <1>3, <1>4, ClosedJob, OutsideKeeps DEF Rename, Rebuilt
<1>5. CASE Renames(t)
  <2> DEFINE j == [procs[p] EXCEPT !.at = "create"]
  <2>1. j \in Job /\ j.at = "create" /\ j.k = procs[p].k
    BY <1>1, ScriptTable DEF Rename
  <2>2. Become(p, j)
    BY <1>2, <1>5 DEF Rename, Rebuilt
  <2> HIDE DEF j
  <2>3. procs'[p] = j /\ \A q \in Process \ {p} : procs'[q] = procs[q]
    BY <1>1, <2>1, <2>2, Became
  <2>4. /\ now[t] # None /\ legacy[t] = None
        /\ legacy' = [legacy EXCEPT ![t] = now[t]] /\ now' = [now EXCEPT ![t] = None]
        /\ written' = written
    BY <1>2, <1>5 DEF Rename, Rebuilt, Renames
  <2>5. /\ now'[t] = None /\ legacy'[t] = now[t]
        /\ \A x \in Table \ {t} : now'[x] = now[x] /\ legacy'[x] = legacy[x]
    BY <1>1, <2>4 DEF TablesTyped
  <2>6. \A q \in Process \ {p} : InScript(procs[q]) => Rebuilt(q) \in Table \ {t}
    BY <1>1, <2>4, ScriptTable DEF TablesInv, ScriptInv
  <2>7. Rebuilt(p)' = t /\ \A q \in Process \ {p} : Rebuilt(q)' = Rebuilt(q)
    BY <1>2, <2>1, <2>3 DEF Rebuilt
  <2>8. /\ Stranded(t)' = Held(t) /\ Stranded(t) = {} /\ Held(t)' = {}
        /\ \A x \in Table \ {t} : Held(x)' = Held(x) /\ Stranded(x)' = Stranded(x)
    BY <2>4, <2>5 DEF Held, Stranded
  <2>9. ScriptInv'
    <3>1. ASSUME NEW q \in Process, InScript(procs'[q])
          PROVE  /\ legacy'[Rebuilt(q)'] # None
                 /\ procs'[q].at = "drop" => Stranded(Rebuilt(q))' \subseteq Held(Rebuilt(q))'
      <4>1. CASE q = p
        BY <2>1, <2>3, <2>4, <2>5, <2>7, <4>1
      <4>2. CASE q # p
        BY <2>3, <2>5, <2>6, <2>7, <2>8, <3>1, <4>2 DEF TablesInv, ScriptInv
      <4>3. QED
        BY <4>1, <4>2
    <3>2. ASSUME NEW q \in Process, NEW s \in Process, InScript(procs'[q]), InScript(procs'[s]),
                 Rebuilt(q)' = Rebuilt(s)'
          PROVE  q = s
      <4>1. CASE q = p \/ s = p
        BY <2>3, <2>6, <2>7, <3>2, <4>1
      <4>2. CASE q # p /\ s # p
        BY <2>3, <2>7, <3>2, <4>2 DEF TablesInv, ScriptInv
      <4>3. QED
        BY <4>1, <4>2
    <3>3. QED
      BY <3>1, <3>2 DEF ScriptInv
  <2>10. NothingDestroyed'
    BY <2>4, <2>8 DEF TablesInv, NothingDestroyed
  <2>11. UnderWay'
    <3>1. SUFFICES ASSUME "rebuild" \notin disturbed', NEW x \in Table, legacy'[x] # None
                   PROVE  \E q \in Process : InScript(procs'[q]) /\ Rebuilt(q)' = x
      BY DEF UnderWay
    <3>2. CASE x = t
      BY <2>1, <2>3, <2>7, <3>2 DEF InScript
    <3>3. CASE x # t
      <4>1. PICK q \in Process : InScript(procs[q]) /\ Rebuilt(q) = x
        BY <1>3, <2>5, <3>1, <3>3 DEF TablesInv, UnderWay
      <4>2. q # p
        BY <1>3, <4>1
      <4>3. QED
        BY <2>3, <2>7, <4>1, <4>2
    <3>4. QED
      BY <3>2, <3>3
  <2>12. QED
    BY <2>9, <2>10, <2>11 DEF TablesInv
<1>6. QED
  BY <1>4, <1>5

\* A step inside the script of table t that leaves its process in that script.
LEMMA InsideKeeps ==
    ASSUME Typed, TablesInv, NEW p \in Process, InScript(procs[p]),
           NEW a \in {"create", "fill", "drop"}, Become(p, [procs[p] EXCEPT !.at = a]),
           legacy' = legacy, written' = written, disturbed' = disturbed,
           \A x \in Table : Held(x) \subseteq Held(x)',
           NEW t \in Table, t = Rebuilt(p), a = "drop" => Stranded(t) \subseteq Held(t)'
    PROVE  TablesInv'
<1>1. JobsTyped
  BY DEF Typed
<1> DEFINE j == [procs[p] EXCEPT !.at = a]
<1>2. j \in Job /\ j.at = a /\ j.k = procs[p].k /\ Become(p, j)
  BY <1>1, ScriptTable
<1> HIDE DEF j
<1>3. procs'[p] = j /\ \A q \in Process \ {p} : procs'[q] = procs[q]
  BY <1>1, <1>2, Became
<1>4. /\ \A q \in Process : Rebuilt(q)' = Rebuilt(q)
      /\ \A q \in Process : InScript(procs'[q]) <=> InScript(procs[q])
  BY <1>2, <1>3 DEF Rebuilt, InScript
<1>5. \A q \in Process : InScript(procs[q]) => Rebuilt(q) \in Table
  BY <1>1, ScriptTable
<1>6. \A x \in Table : Stranded(x)' = Stranded(x)
  BY DEF Stranded
<1>7. ScriptInv'
  <2>1. ASSUME NEW q \in Process, InScript(procs'[q]), procs'[q].at = "drop"
        PROVE  Stranded(Rebuilt(q))' \subseteq Held(Rebuilt(q))'
    <3>1. PICK x \in Table : x = Rebuilt(q)
      BY <1>4, <1>5, <2>1
    <3>2. CASE q = p
      <4>1. Stranded(x) \subseteq Held(x)'
        BY <1>2, <1>3, <2>1, <3>1, <3>2
      <4>2. Stranded(x)' \subseteq Held(x)'
        BY <1>6, <4>1
      <4>3. QED
        BY <1>4, <3>1, <4>2
    <3>3. CASE q # p
      <4>1. Stranded(x) \subseteq Held(x)
        BY <1>3, <1>4, <2>1, <3>1, <3>3 DEF TablesInv, ScriptInv
      <4>2. Stranded(x)' \subseteq Held(x)'
        BY <1>6, <4>1
      <4>3. QED
        BY <1>4, <3>1, <4>2
    <3>4. QED
      BY <3>2, <3>3
  <2>2. QED
    BY <1>4, <2>1 DEF TablesInv, ScriptInv
<1>8. NothingDestroyed'
  BY <1>6 DEF TablesInv, NothingDestroyed
<1>9. UnderWay'
  BY <1>4 DEF TablesInv, UnderWay
<1>10. QED
  BY <1>7, <1>8, <1>9 DEF TablesInv

LEMMA CreateTables ==
    ASSUME Typed, TablesInv, NEW p \in Process, Create(p) PROVE TablesInv'
<1>1. JobsTyped /\ TablesTyped
  BY DEF Typed
<1>2. InScript(procs[p])
  BY DEF InScript, Create
<1>3. PICK t \in Table : t = Rebuilt(p)
  BY <1>1, <1>2, ScriptTable
<1>4. CASE now[t] # None
  BY <1>1, <1>3, <1>4, CutShortKeeps DEF Create, Rebuilt, Met
<1>5. CASE now[t] = None
  <2>1. /\ Become(p, [procs[p] EXCEPT !.at = "fill"]) /\ disturbed' = disturbed
        /\ \E f : now' = [now EXCEPT ![t] = f]
    BY <1>3, <1>5 DEF Create, Rebuilt, Met
  <2>2. \A x \in Table : Held(x) \subseteq Held(x)'
    BY <1>1, <1>5, <2>1 DEF Held, TablesTyped
  <2>3. QED
    BY <1>2, <1>3, <2>1, <2>2, InsideKeeps DEF Create
<1>6. QED
  BY <1>4, <1>5

LEMMA FillTables ==
    ASSUME Typed, TablesInv, NEW p \in Process, Fill(p) PROVE TablesInv'
<1>1. JobsTyped /\ TablesTyped
  BY DEF Typed
<1>2. InScript(procs[p])
  BY DEF InScript, Fill
<1>3. PICK t \in Table : t = Rebuilt(p)
  BY <1>1, <1>2, ScriptTable
<1>4. CASE Become(p, Closed) /\ disturbed' = Met(TRUE) /\ now' = now
  BY <1>1, <1>4, CutShortKeeps DEF Fill, Met
<1>5. CASE /\ now[t] # None /\ now' = [now EXCEPT ![t].rows = @ \cup Stranded(t)]
           /\ Become(p, [procs[p] EXCEPT !.at = "drop"]) /\ disturbed' = disturbed
  <2>1. now[t] \in TableForm /\ Stranded(t) \subseteq Row
    BY <1>1, <1>5, HeldRows
  <2> DEFINE f == [now[t] EXCEPT !.rows = @ \cup Stranded(t)]
  <2>2. f \in TableForm /\ f.rows = now[t].rows \cup Stranded(t)
    BY <2>1 DEF TableForm
  <2>3. now' = [now EXCEPT ![t] = f]
    BY <1>5
  <2> HIDE DEF f
  <2>4. now'[t] = f /\ f # None /\ \A x \in Table \ {t} : now'[x] = now[x]
    BY <1>1, <2>2, <2>3, TablesAssumption DEF TablesTyped
  <2>5. Held(t)' = Held(t) \cup Stranded(t) /\ \A x \in Table \ {t} : Held(x)' = Held(x)
    BY <1>5, <2>2, <2>4 DEF Held
  <2>6. /\ \A x \in Table : Held(x) \subseteq Held(x)'
        /\ Stranded(t) \subseteq Held(t)'
    BY <2>5
  <2>7. QED
    BY <1>2, <1>3, <1>5, <2>6, InsideKeeps DEF Fill
<1>6. QED
  BY <1>3, <1>4, <1>5 DEF Fill, Rebuilt

LEMMA DropTables ==
    ASSUME Typed, TablesInv, NEW p \in Process, Drop(p) PROVE TablesInv'
<1>1. JobsTyped /\ TablesTyped
  BY DEF Typed
<1>2. InScript(procs[p])
  BY DEF InScript, Drop
<1>3. PICK t \in Table : t = Rebuilt(p)
  BY <1>1, <1>2, ScriptTable
<1>4. legacy[t] # None /\ Stranded(t) \subseteq Held(t)
  BY <1>2, <1>3 DEF TablesInv, ScriptInv, Drop
<1> DEFINE j == Checking(procs[p].k + 1)
<1>5. j \in Job /\ ~InScript(j) /\ Become(p, j)
  <2>1. procs[p].k + 1 \in 1..(Len(Rebuilds) + 1)
    <3>1. procs[p].k \in Numbers
      BY <1>1, <1>2, ScriptTable
    <3>2. \A k \in Numbers : k + 1 \in 1..(Len(Rebuilds) + 1)
      BY RebuildFacts DEF Numbers
    <3>3. QED
      BY <3>1, <3>2
  <2>2. Become(p, Checking(procs[p].k + 1))
    BY <1>3, <1>4 DEF Drop, Rebuilt
  <2>3. QED
    BY <2>1, <2>2, CheckingJob
<1> HIDE DEF j
<1>6. procs'[p] = j /\ \A q \in Process \ {p} : procs'[q] = procs[q] /\ Rebuilt(q)' = Rebuilt(q)
  BY <1>1, <1>5, Became DEF Rebuilt
<1>7. /\ legacy'[t] = None /\ \A x \in Table \ {t} : legacy'[x] = legacy[x]
      /\ now' = now /\ written' = written /\ disturbed' = disturbed
  BY <1>1, <1>3 DEF Drop, Rebuilt, TablesTyped
<1>8. /\ \A x \in Table : Held(x)' = Held(x)
      /\ \A x \in Table \ {t} : Stranded(x)' = Stranded(x)
  BY <1>7 DEF Held, Stranded
<1>9. \A q \in Process \ {p} : InScript(procs[q]) => Rebuilt(q) \in Table \ {t}
  BY <1>1, <1>2, <1>3, ScriptTable DEF TablesInv, ScriptInv
<1>10. ScriptInv'
  <2>1. ASSUME NEW q \in Process, InScript(procs'[q])
        PROVE  /\ legacy'[Rebuilt(q)'] # None
               /\ procs'[q].at = "drop" => Stranded(Rebuilt(q))' \subseteq Held(Rebuilt(q))'
    <3>1. q # p
      BY <1>5, <1>6, <2>1
    <3>2. PICK x \in Table \ {t} : x = Rebuilt(q)
      BY <1>6, <1>9, <2>1, <3>1
    <3>3. legacy[x] # None /\ (procs[q].at = "drop" => Stranded(x) \subseteq Held(x))
      BY <1>6, <2>1, <3>1, <3>2 DEF TablesInv, ScriptInv
    <3>4. legacy'[x] # None /\ (procs'[q].at = "drop" => Stranded(x)' \subseteq Held(x)')
      BY <1>6, <1>7, <1>8, <3>1, <3>3
    <3>5. QED
      BY <1>6, <3>1, <3>2, <3>4
  <2>2. QED
    BY <1>5, <1>6, <2>1 DEF TablesInv, ScriptInv
<1>11. NothingDestroyed'
  BY <1>4, <1>7, <1>8 DEF TablesInv, NothingDestroyed
<1>12. UnderWay'
  BY <1>3, <1>6, <1>7 DEF TablesInv, UnderWay
<1>13. QED
  BY <1>10, <1>11, <1>12 DEF TablesInv

LEMMA InsertTables ==
    ASSUME Typed, TablesInv, NEW p \in Process, NEW t \in Table, NEW r \in Row, Insert(p, t, r)
    PROVE  TablesInv'
<1>1. JobsTyped /\ TablesTyped
  BY DEF Typed
<1>2. now[t] \in TableForm /\ now' = [now EXCEPT ![t].rows = @ \cup {r}]
  BY <1>1, HeldRows DEF Insert
<1> DEFINE f == [now[t] EXCEPT !.rows = @ \cup {r}]
<1>3. f \in TableForm /\ f.rows = now[t].rows \cup {r} /\ now' = [now EXCEPT ![t] = f]
  BY <1>2 DEF TableForm
<1> HIDE DEF f
<1>4. now'[t] = f /\ f # None /\ now[t] # None /\ \A x \in Table \ {t} : now'[x] = now[x]
  BY <1>1, <1>2, <1>3, TablesAssumption DEF TablesTyped
<1>5. Held(t)' = Held(t) \cup {r} /\ \A x \in Table \ {t} : Held(x)' = Held(x)
  BY <1>3, <1>4 DEF Held
<1>6. written'[t] = written[t] \cup {r} /\ \A x \in Table \ {t} : written'[x] = written[x]
  BY <1>1 DEF Insert, TablesTyped, TableRows
<1>7. \A x \in Table : /\ Held(x) \subseteq Held(x)'
                       /\ written'[x] \subseteq Held(x)' \cup written[x]
  BY <1>5, <1>6
<1>8. \A q \in Process : InScript(procs[q]) => Rebuilt(q) \in Table
  BY <1>1, ScriptTable
<1>9. QED
  BY <1>7, <1>8, AddingKeeps DEF Insert

LEMMA TablesStep == ASSUME Typed, TablesInv, [Next]_vars PROVE TablesInv'
<1>1. JobsTyped
  BY DEF Typed
<1>2. ASSUME NEW p \in Process,
             \/ Open(p) \/ AddColumn(p) \/ Mark(p) \/ Check(p) \/ Opened(p) \/ Close(p)
             \/ StartBackup(p) \/ CopyDatabase(p) \/ Describe(p) \/ Name(p) \/ List(p)
             \/ RemoveFolder(p) \/ EndBackup(p) \/ BackupFails(p)
      PROVE  TablesInv'
  <2>1. ~InScript(procs[p]) /\ UNCHANGED <<now, legacy, written>> /\ disturbed \subseteq disturbed'
    BY <1>2 DEF Open, AddColumn, Mark, Check, Opened, Close, StartBackup, CopyDatabase, Describe,
       Name, List, RemoveFolder, EndBackup, BackupFails, database, InScript, Closed
  <2>2. Typed'
    BY <1>2, MigrateTyped, BackupTyped, OtherTyped DEF Migrate, Backup
  <2>3. \E j : Become(p, j)
    BY <1>2 DEF Open, AddColumn, Mark, Check, Opened, Close, StartBackup, CopyDatabase, Describe,
       Name, List, RemoveFolder, EndBackup, BackupFails
  <2>4. PICK j : Become(p, j)
    BY <2>3
  <2>5. procs'[p] = j /\ j \in Job
    BY <1>1, <2>2, <2>4 DEF Typed, JobsTyped, Become
  <2>6. ~InScript(procs'[p])
    <3>1. \A k \in 1..(Len(Rebuilds) + 1) : ~InScript(Checking(k))
      BY CheckingJob
    <3>2. 1 \in 1..(Len(Rebuilds) + 1)
      BY RebuildFacts
    <3>3. Check(p) => procs[p].k + 1 \in 1..(Len(Rebuilds) + 1)
      <4>1. procs[p].at = "check" => procs[p].k \in Numbers
        BY <1>1, JobAt DEF JobsTyped, CheckJob
      <4>2. QED
        BY <4>1, RebuildFacts DEF Numbers, Check
    <3>4. CASE Open(p) \/ AddColumn(p) \/ Mark(p) \/ Check(p) \/ Opened(p) \/ Close(p)
      BY <1>1, <3>1, <3>2, <3>3, <3>4, ClosedJob
      DEF Open, AddColumn, Mark, Check, Opened, Close, Become, JobsTyped, InScript
    <3>5. CASE \/ StartBackup(p) \/ CopyDatabase(p) \/ Describe(p) \/ Name(p) \/ List(p)
               \/ RemoveFolder(p) \/ EndBackup(p) \/ BackupFails(p)
      <4>1. procs[p] \in Job
        BY <1>1 DEF JobsTyped
      <4>2. CASE StartBackup(p) \/ Name(p) \/ List(p) \/ EndBackup(p) \/ BackupFails(p)
        BY <1>1, <4>2, ClosedJob DEF StartBackup, Name, List, EndBackup, BackupFails, Become,
           JobsTyped, InScript
      <4>3. CASE CopyDatabase(p) \/ Describe(p)
        <5>1. procs[p] \in WriteJob
          BY <4>1, <4>3, JobAt DEF CopyDatabase, Describe
        <5>2. procs'[p].at \in {"describe", "name"}
          BY <1>1, <4>3, <5>1 DEF CopyDatabase, Describe, Become, JobsTyped, WriteJob
        <5>3. QED
          BY <5>2 DEF InScript
      <4>4. CASE RemoveFolder(p)
        <5>1. procs[p] \in PruneJob
          BY <4>1, <4>4, JobAt DEF RemoveFolder
        <5>2. procs'[p].at = "prune"
          BY <1>1, <4>4, <5>1 DEF RemoveFolder, Become, JobsTyped, PruneJob
        <5>3. QED
          BY <5>2 DEF InScript
      <4>5. QED
        BY <3>5, <4>2, <4>3, <4>4
    <3>6. QED
      BY <1>2, <3>4, <3>5
  <2>7. QED
    BY <1>1, <2>1, <2>4, <2>5, <2>6, OutsideKeeps
<1>3. ASSUME NEW p \in Process, GiveUp(p) \/ Stop(p) PROVE TablesInv'
  <2>1. /\ Become(p, Closed) /\ UNCHANGED <<now, legacy, written>>
        /\ disturbed \subseteq disturbed'
        /\ InScript(procs[p]) => "rebuild" \in disturbed'
    BY <1>3 DEF GiveUp, Stop, database, CutShort
  <2>2. QED
    BY <1>1, <2>1, CutShortKeeps
<1>4. ASSUME NEW p \in Process, RemoveFile(p) PROVE TablesInv'
  BY <1>4 DEF RemoveFile, database, TablesInv, ScriptInv, NothingDestroyed, UnderWay, Rebuilt,
     Held, Stranded
<1>5. CASE Time \/ UNCHANGED vars
  BY <1>5 DEF Time, Tick, SetBack, vars, database, TablesInv, ScriptInv, NothingDestroyed,
     UnderWay, Rebuilt, Held, Stranded
<1>6. QED
  BY <1>2, <1>3, <1>4, <1>5, SchemaTables, RenameTables, CreateTables, FillTables, DropTables,
     InsertTables DEF Next, Migrate, Backup

\* A migration loses no row, however many openers interleave and wherever one fails or
\* stops; and until one is cut short or meets another, whoever has opened the ledger
\* finds every row in its table (initialize, _generalize_rules and the others).
THEOREM NoRowLost == Spec => []RowsKept
<1>1. Spec => [](Typed /\ TablesInv)
  <2>1. Init => Typed /\ TablesInv
    BY InitTyped, InitTables
  <2>2. Typed /\ TablesInv /\ [Next]_vars => (Typed /\ TablesInv)'
    BY TypedStep, TablesStep
  <2>3. QED
    BY <2>1, <2>2, PTL DEF Spec
<1>2. Typed /\ TablesInv => RowsKept
  <2>1. SUFFICES ASSUME Typed, TablesInv PROVE RowsKept
    OBVIOUS
  <2>2. NothingDestroyed
    BY <2>1 DEF TablesInv
  <2>3. ASSUME "rebuild" \notin disturbed, NEW t \in Table
        PROVE  \/ written[t] \subseteq Held(t)
               \/ \E q \in Process : InScript(procs[q]) /\ Rebuilds[procs[q].k].table = t
    <3>1. CASE legacy[t] = None
      <4>1. Stranded(t) = {}
        BY <3>1 DEF Stranded
      <4>2. QED
        BY <2>2, <4>1 DEF NothingDestroyed
    <3>2. CASE legacy[t] # None
      BY <2>1, <2>3, <3>2 DEF TablesInv, UnderWay, Rebuilt
    <3>3. QED
      BY <3>1, <3>2
  <2>4. QED
    BY <2>2, <2>3 DEF RowsKept, RowsInPlace
<1>3. QED
  BY <1>1, <1>2, PTL

-----------------------------------------------------------------------------
(* The newest of a set of snapshots.                                       *)

LEMMA SecondsFinite ==
    ASSUME NEW S \in SUBSET Second
    PROVE  IsFiniteSet(S) /\ Cardinality(S) \in Nat
<1>1. IsFiniteSet(Second)
  BY KeepAssumption, FS_Interval DEF Second
<1>2. IsFiniteSet(S)
  BY <1>1, FS_Subset
<1>3. QED
  BY <1>2, FS_CardinalityType

LEMMA FewerSeconds ==
    ASSUME NEW T \in SUBSET Second, NEW S \in SUBSET T
    PROVE  Cardinality(S) <= Cardinality(T)
<1>1. IsFiniteSet(T)
  BY SecondsFinite
<1>2. QED
  BY <1>1, FS_Subset

\* Of a set of names the newest n are at most n: all but the oldest of them are newer
\* than that one.
LEMMA NewestFew ==
    ASSUME NEW S \in SUBSET Second, NEW n \in Nat
    PROVE  Cardinality(NewestOf(S, n)) <= n
<1> DEFINE N == NewestOf(S, n)
           Above(x) == {y \in S : y > x}
<1>1. N \subseteq S /\ S \subseteq Nat /\ N \subseteq Second
  <2>1. S \subseteq Nat
    BY KeepAssumption DEF Second
  <2>2. N \subseteq S
    BY DEF NewestOf
  <2>3. QED
    BY <2>1, <2>2
<1>2. \A x \in N : Cardinality(Above(x)) < n
  BY DEF NewestOf
<1> HIDE DEF N
<1>3. CASE N = {}
  BY <1>3, FS_EmptySet DEF N
<1>4. CASE N # {}
  <2>1. N \subseteq Nat
    BY <1>1
  <2>2. PICK m \in N : \A k \in N : ~(<<k, m>> \in OpToRel(<, Nat))
    BY <1>4, <2>1, NatLessThanWellFounded, WFMin
  <2>3. \A k \in N : ~(k < m)
    BY <2>1, <2>2 DEF OpToRel
  <2>4. N \ {m} \subseteq Above(m) /\ Above(m) \subseteq Second
    <3>1. \A k \in N \ {m} : k \in Nat /\ m \in Nat /\ k # m /\ ~(k < m)
      BY <2>1, <2>3
    <3>2. \A k \in N \ {m} : k > m
      BY <3>1
    <3>3. QED
      BY <1>1, <3>2
  <2>5. Cardinality(N \ {m}) <= Cardinality(Above(m))
    BY <2>4, FewerSeconds
  <2>6. IsFiniteSet(N) /\ Cardinality(N) \in Nat
    BY <1>1, SecondsFinite
  <2>7. Cardinality(N \ {m}) = Cardinality(N) - 1
    BY <2>6, FS_RemoveElement
  <2>8. Cardinality(Above(m)) < n /\ Cardinality(Above(m)) \in Nat
    BY <1>2, <2>4, SecondsFinite
  <2>9. QED
    BY <2>5, <2>6, <2>7, <2>8 DEF N
<1>5. QED
  BY <1>3, <1>4

\* What is newer than one of them is one of them.
LEMMA NewestUpward ==
    ASSUME NEW S \in SUBSET Second, NEW n \in Nat, NEW x \in NewestOf(S, n), NEW s \in S, x < s
    PROVE  s \in NewestOf(S, n)
<1>1. x \in S /\ Cardinality({y \in S : y > x}) < n
  BY DEF NewestOf
<1>2. x \in Nat /\ s \in Nat /\ \A y \in S : y \in Nat
  BY <1>1 DEF Second
<1>3. {y \in S : y > s} \subseteq {y \in S : y > x}
  <2>1. \A y \in S : y > s => y > x
    BY <1>2
  <2>2. QED
    BY <2>1
<1>4. Cardinality({y \in S : y > s}) <= Cardinality({y \in S : y > x})
  BY <1>3, FewerSeconds
<1>5. /\ Cardinality({y \in S : y > s}) \in Nat
      /\ Cardinality({y \in S : y > x}) \in Nat
  BY SecondsFinite
<1>6. Cardinality({y \in S : y > s}) < n
  BY <1>1, <1>4, <1>5
<1>7. QED
  BY <1>6 DEF NewestOf

\* What a run that wrote `own` may prune, `old` being what is left of it.
OwnKept(own, old) ==
    /\ folders[own] # None /\ own \notin old
    /\ Keep > 0 => Cardinality(Snapshots \ old) <= Keep
    /\ \A s \in old, x \in Snapshots \ {own} : x < s => x \in old

LEMMA PrunedKept ==
    ASSUME FoldersTyped, NEW own \in Second, folders[own] # None
    PROVE  OwnKept(own, IF Keep = 0 THEN {} ELSE Pruned(own))
<1>1. CASE Keep = 0
  BY <1>1 DEF OwnKept
<1>2. CASE Keep # 0
  <2> DEFINE S == Snapshots \ {own}
             N == NewestOf(S, Keep - 1)
  <2>1. S \subseteq Second /\ Keep - 1 \in Nat /\ own \in Snapshots /\ own \notin S
    BY <1>2, KeepAssumption DEF Snapshots
  <2> HIDE DEF S
  <2>2. N \subseteq S /\ N \subseteq Second
    BY <2>1 DEF NewestOf
  <2>3. Cardinality(N) <= Keep - 1 /\ Cardinality(N) \in Nat /\ IsFiniteSet(N)
    BY <2>1, <2>2, NewestFew, SecondsFinite
  <2>4. Pruned(own) = S \ N
    BY DEF Pruned, S
  <2>5. \A s \in S, x \in N : x < s => s \in N
    BY <2>1, NewestUpward
  <2> HIDE DEF N
  <2>6. Snapshots \ (S \ N) = N \cup {own}
    BY <2>1, <2>2 DEF S
  <2>7. Cardinality(N \cup {own}) <= Keep
    <3>1. Cardinality(N \cup {own}) = Cardinality(N) + 1
      BY <2>1, <2>2, <2>3, FS_AddElement
    <3>2. QED
      BY <2>3, <3>1, KeepAssumption
  <2>8. \A s \in S \ N, x \in S : x < s => x \in S \ N
    BY <2>5
  <2>9. OwnKept(own, S \ N)
    BY <2>1, <2>6, <2>7, <2>8 DEF OwnKept, S
  <2>10. QED
    BY <1>2, <2>4, <2>9
<1>3. QED
  BY <1>1, <1>2

-----------------------------------------------------------------------------
(* A snapshot is whole.                                                    *)

Whole(f) == f.db # None /\ f.manifest = f.db

\* As long as runs do not overlap: one is at work alone; what it is about to name is
\* whole, what it has named is there, and what it prunes is as said above.
AloneInv ==
    /\ \A p, q \in Process : Backing(procs[p]) /\ Backing(procs[q]) => p = q
    /\ \A p \in Process :
        /\ procs[p].at = "name" =>
               partial[Stamped(p)] # None /\ Whole(partial[Stamped(p)])
        /\ procs[p].at = "list" => folders[Stamped(p)] # None
        /\ procs[p].at = "prune" => OwnKept(Stamped(p), procs[p].old)

\* A folder that is not whole is one a run is taking away.
PartsInv ==
    "prune" \notin disturbed =>
        \A s \in Snapshots :
            Whole(folders[s]) \/ \E p \in Process : procs[p].at = "prune" /\ s \in procs[p].old

SnapInv == "clash" \notin disturbed => AloneInv /\ PartsInv

LEMMA InitSnap == Init => SnapInv
BY ClosedJob DEF Init, SnapInv, AloneInv, PartsInv, Backing, Snapshots

\* Who has nothing to do with snapshots, before and after.
LEMMA ApartKeeps ==
    ASSUME JobsTyped, SnapInv, NEW p \in Process, NEW j \in Job, Become(p, j),
           ~Backing(procs[p]), ~Backing(j), UNCHANGED <<folders, partial>>,
           disturbed \subseteq disturbed'
    PROVE  SnapInv'
<1>1. procs'[p] = j /\ \A q \in Process \ {p} : procs'[q] = procs[q]
  BY Became
<1>2. ASSUME AloneInv PROVE AloneInv'
  BY <1>1, <1>2 DEF AloneInv, Stamped, OwnKept, Snapshots, Backing
<1>3. ASSUME PartsInv PROVE PartsInv'
  BY <1>1, <1>3 DEF PartsInv, Snapshots, Backing
<1>4. QED
  BY <1>2, <1>3 DEF SnapInv

\* Who is at work on a snapshot leaves it where it is: nothing was to be pruned, or
\* what was is named as cut short.
LEMMA LeaveKeeps ==
    ASSUME JobsTyped, SnapInv, NEW p \in Process, Become(p, Closed), folders' = folders,
           partial' = partial \/ Backing(procs[p]), disturbed \subseteq disturbed',
           procs[p].at = "prune" => procs[p].old = {} \/ "prune" \in disturbed'
    PROVE  SnapInv'
<1>1. /\ procs'[p] = Closed /\ Closed.at = "closed" /\ ~Backing(Closed)
      /\ \A q \in Process \ {p} : procs'[q] = procs[q]
  BY Became, ClosedJob
<1>2. ASSUME AloneInv PROVE AloneInv'
  <2>1. \A q \in Process \ {p} : Backing(procs[q]) => partial' = partial
    BY <1>2 DEF AloneInv
  <2>2. QED
    BY <1>1, <1>2, <2>1 DEF AloneInv, Stamped, OwnKept, Snapshots, Backing
<1>3. ASSUME PartsInv PROVE PartsInv'
  BY <1>1, <1>3 DEF PartsInv, Snapshots, Backing
<1>4. QED
  BY <1>2, <1>3 DEF SnapInv

\* Who is alone at work goes on.
LEMMA GoesOnKeeps ==
    ASSUME JobsTyped, NEW p \in Process, NEW j \in Job, Become(p, j),
           "clash" \notin disturbed' =>
               /\ \A q \in Process \ {p} : ~Backing(procs[q])
               /\ j.at = "name" => partial'[j.stamp] # None /\ Whole(partial'[j.stamp])
               /\ j.at = "list" => folders'[j.stamp] # None
               /\ j.at = "prune" => OwnKept(j.stamp, j.old)'
               /\ "prune" \notin disturbed' => \A s \in Snapshots' :
                      Whole(folders'[s]) \/ (j.at = "prune" /\ s \in j.old)
    PROVE  SnapInv'
<1>1. procs'[p] = j /\ \A q \in Process \ {p} : procs'[q] = procs[q]
  BY Became
<1>2. ASSUME "clash" \notin disturbed' PROVE AloneInv'
  <2>1. \A q \in Process : q = p \/ ~Backing(procs'[q])
    BY <1>1, <1>2
  <2>2. \A q \in Process : Backing(procs'[q]) => procs'[q] = j /\ Stamped(q)' = j.stamp
    BY <1>1, <2>1 DEF Stamped
  <2>3. ASSUME NEW q \in Process, procs'[q].at = "prune"
        PROVE  OwnKept(Stamped(q), procs[q].old)'
    <3>1. procs'[q] = j /\ Stamped(q)' = j.stamp
      BY <2>2, <2>3 DEF Backing
    <3>2. QED
      BY <1>2, <2>3, <3>1 DEF OwnKept
  <2>4. QED
    BY <1>2, <2>1, <2>2, <2>3 DEF AloneInv, Backing
<1>3. ASSUME "clash" \notin disturbed' PROVE PartsInv'
  BY <1>1, <1>3 DEF PartsInv
<1>4. QED
  BY <1>2, <1>3 DEF SnapInv

\* While runs do not overlap nobody else is at work beside who is.
LEMMA AloneAtWork ==
    ASSUME SnapInv, "clash" \notin disturbed, NEW p \in Process, Backing(procs[p])
    PROVE  AloneInv /\ PartsInv /\ \A q \in Process \ {p} : ~Backing(procs[q])
BY DEF SnapInv, AloneInv

\* What is not being pruned is whole.
LEMMA WholeUnlessPruned ==
    ASSUME SnapInv, "clash" \notin disturbed, "prune" \notin disturbed, NEW p \in Process,
           Backing(procs[p]), NEW s \in Snapshots
    PROVE  Whole(folders[s]) \/ (procs[p].at = "prune" /\ s \in procs[p].old)
<1>1. PartsInv /\ \A q \in Process \ {p} : ~Backing(procs[q])
  BY AloneAtWork
<1>2. Whole(folders[s]) \/ \E q \in Process : procs[q].at = "prune" /\ s \in procs[q].old
  BY <1>1 DEF PartsInv
<1>3. QED
  BY <1>1, <1>2 DEF Backing

LEMMA StartBackupSnap ==
    ASSUME Typed, SnapInv, NEW p \in Process, StartBackup(p) PROVE SnapInv'
<1>1. JobsTyped /\ ~Backing(procs[p]) /\ folders' = folders
  BY DEF Typed, StartBackup, Backing
<1>2. CASE folders[clock] # None
  BY <1>1, <1>2, ClosedJob, ApartKeeps DEF StartBackup
<1>3. CASE folders[clock] = None
  <2> DEFINE j == [at |-> "copy", stamp |-> clock]
  <2>1. j \in Job /\ j.at = "copy" /\ Become(p, j)
    BY <1>3 DEF StartBackup, Job, WriteJob, Typed, RestTyped
  <2> HIDE DEF j
  <2>2. disturbed' = IF Others(p) = {} THEN disturbed ELSE disturbed \cup {"clash"}
    BY <1>3 DEF StartBackup
  <2>3. ASSUME "clash" \notin disturbed'
        PROVE  /\ \A q \in Process \ {p} : ~Backing(procs[q])
               /\ "prune" \notin disturbed' => \A s \in Snapshots' : Whole(folders'[s])
    <3>1. Others(p) = {} /\ disturbed' = disturbed
      BY <2>2, <2>3
    <3>2. \A q \in Process \ {p} : ~Backing(procs[q])
      BY <3>1 DEF Others, Backing
    <3>3. Snapshots' = Snapshots
      BY <1>1 DEF Snapshots
    <3>4. "prune" \notin disturbed => \A s \in Snapshots : Whole(folders[s])
      BY <1>1, <2>3, <3>1, <3>2 DEF SnapInv, PartsInv, Backing
    <3>5. QED
      BY <1>1, <3>1, <3>2, <3>3, <3>4
  <2>4. QED
    BY <1>1, <2>1, <2>3, GoesOnKeeps
<1>4. QED
  BY <1>2, <1>3

LEMMA WritingSnap ==
    ASSUME Typed, SnapInv, NEW p \in Process, CopyDatabase(p) \/ Describe(p) PROVE SnapInv'
<1>1. JobsTyped /\ Backing(procs[p]) /\ folders' = folders /\ disturbed' = disturbed
      /\ procs[p].at # "prune"
  BY DEF Typed, CopyDatabase, Describe, Backing
<1>2. procs[p] \in WriteJob
  BY <1>1, JobAt DEF JobsTyped, CopyDatabase, Describe
<1>3. PICK s \in Second : s = procs[p].stamp
  BY <1>2 DEF WriteJob
<1>4. \A r \in Snapshots' : r \in Snapshots
  BY <1>1 DEF Snapshots
<1>5. CASE CopyDatabase(p)
  <2> DEFINE j == [procs[p] EXCEPT !.at = "describe"]
  <2>1. j \in Job /\ j.at = "describe" /\ Become(p, j)
    BY <1>2, <1>5 DEF WriteJob, Job, CopyDatabase
  <2> HIDE DEF j
  <2>2. QED
    BY <1>1, <1>4, <2>1, AloneAtWork, WholeUnlessPruned, GoesOnKeeps
<1>6. CASE Describe(p)
  <2> DEFINE j == [procs[p] EXCEPT !.at = "name"]
  <2>1. j \in Job /\ j.at = "name" /\ j.stamp = s /\ Become(p, j)
    BY <1>2, <1>3, <1>6 DEF WriteJob, Job, Describe
  <2> HIDE DEF j
  <2>2. partial'[s] # None /\ Whole(partial'[s])
    <3>1. /\ partial \in [Second -> Folder \cup {None}] /\ partial[s] # None
          /\ partial[s].db # None /\ partial' = [partial EXCEPT ![s].manifest = partial[s].db]
      BY <1>3, <1>6 DEF Describe, Counted, Stamped, Typed, FoldersTyped
    <3> DEFINE f == [partial[s] EXCEPT !.manifest = partial[s].db]
    <3>2. f \in Folder /\ f.db = partial[s].db /\ f.manifest = partial[s].db
      BY <3>1 DEF Folder
    <3>3. partial' = [partial EXCEPT ![s] = f]
      BY <3>1
    <3> HIDE DEF f
    <3>4. partial'[s] = f /\ f # None
      BY <3>1, <3>2, <3>3, TablesAssumption
    <3>5. QED
      BY <3>1, <3>2, <3>4 DEF Whole
  <2>3. QED
    BY <1>1, <1>4, <2>1, <2>2, AloneAtWork, WholeUnlessPruned, GoesOnKeeps
<1>7. QED
  BY <1>5, <1>6

LEMMA NameSnap ==
    ASSUME Typed, SnapInv, NEW p \in Process, Name(p) PROVE SnapInv'
<1>1. JobsTyped /\ Backing(procs[p]) /\ disturbed' = disturbed /\ procs[p].at = "name"
  BY DEF Typed, Name, Backing
<1>2. procs[p] \in WriteJob
  BY <1>1, JobAt DEF JobsTyped
<1>3. PICK s \in Second : s = procs[p].stamp
  BY <1>2 DEF WriteJob
<1>4. CASE partial[s] = None \/ folders[s] # None
  BY <1>1, <1>3, <1>4, LeaveKeeps DEF Name, snapshots, Stamped
<1>5. CASE partial[s] # None /\ folders[s] = None
  <2> DEFINE j == [at |-> "list", stamp |-> s]
  <2>1. j \in Job /\ j.at = "list" /\ j.stamp = s /\ Become(p, j)
    BY <1>3, <1>5 DEF Name, Stamped, Job, WriteJob
  <2> HIDE DEF j
  <2>2. folders'[s] = partial[s] /\ \A r \in Second \ {s} : folders'[r] = folders[r]
    BY <1>3, <1>5 DEF Name, Stamped, Typed, FoldersTyped
  <2>3. ASSUME "clash" \notin disturbed, "prune" \notin disturbed, NEW r \in Snapshots'
        PROVE  Whole(folders'[r])
    <3>1. CASE r = s
      BY <1>1, <1>3, <2>2, <2>3, <3>1, AloneAtWork DEF AloneInv, Stamped
    <3>2. CASE r # s
      BY <1>1, <2>2, <2>3, <3>2, WholeUnlessPruned DEF Snapshots
    <3>3. QED
      BY <3>1, <3>2
  <2>4. QED
    BY <1>1, <1>5, <2>1, <2>2, <2>3, AloneAtWork, GoesOnKeeps
<1>6. QED
  BY <1>4, <1>5

LEMMA ListSnap ==
    ASSUME Typed, SnapInv, NEW p \in Process, List(p) PROVE SnapInv'
<1>1. /\ JobsTyped /\ FoldersTyped /\ Backing(procs[p]) /\ disturbed' = disturbed
      /\ procs[p].at = "list" /\ folders' = folders /\ partial' = partial
  BY DEF Typed, List, Backing, snapshots
<1>2. procs[p] \in WriteJob
  BY <1>1, JobAt DEF JobsTyped
<1>3. PICK s \in Second : s = procs[p].stamp
  BY <1>2 DEF WriteJob
<1> DEFINE old == IF Keep = 0 THEN {} ELSE Pruned(s)
           j == [at |-> "prune", stamp |-> s, old |-> old]
<1>4. old \subseteq Second
  BY DEF Pruned, Snapshots
<1>5. Become(p, j)
  BY <1>3 DEF List, Stamped
<1>6. "clash" \notin disturbed => OwnKept(s, old)
  BY <1>1, <1>3, AloneAtWork, PrunedKept DEF AloneInv, Stamped
<1>7. PICK o \in SUBSET Second : o = old
  BY <1>4
<1> HIDE DEF old
<1>8. PICK k \in Job : k.at = "prune" /\ k.stamp = s /\ k.old = o /\ Become(p, k)
  <2>1. [at |-> "prune", stamp |-> s, old |-> o] \in Job
    BY DEF Job, PruneJob
  <2>2. QED
    BY <1>5, <1>7, <2>1
<1>9. "clash" \notin disturbed => OwnKept(s, o)'
  BY <1>1, <1>6, <1>7 DEF OwnKept, Snapshots
<1>10. Snapshots' = Snapshots
  BY <1>1 DEF Snapshots
<1>11. "clash" \notin disturbed => OwnKept(k.stamp, k.old)'
  BY <1>8, <1>9
<1>12. ASSUME "clash" \notin disturbed, "prune" \notin disturbed, NEW r \in Snapshots
       PROVE  Whole(folders[r])
  BY <1>1, <1>12, WholeUnlessPruned
<1>13. QED
  BY <1>1, <1>8, <1>10, <1>11, <1>12, AloneAtWork, GoesOnKeeps

LEMMA RemoveFileSnap ==
    ASSUME Typed, SnapInv, NEW p \in Process, RemoveFile(p) PROVE SnapInv'
<1>1. /\ JobsTyped /\ FoldersTyped /\ Backing(procs[p]) /\ disturbed' = disturbed
      /\ procs[p].at = "prune" /\ procs' = procs /\ partial' = partial
  BY DEF Typed, RemoveFile, Backing
<1>2. procs[p] \in PruneJob
  BY <1>1, JobAt DEF JobsTyped
<1>3. PICK s \in procs[p].old, file \in {"db", "manifest"} :
          folders[s] # None /\ folders' = [folders EXCEPT ![s][file] = None]
  BY DEF RemoveFile
<1>4. s \in Second
  BY <1>2 DEF PruneJob
<1> DEFINE f == [folders[s] EXCEPT ![file] = None]
<1>5. f \in Folder /\ folders' = [folders EXCEPT ![s] = f]
  BY <1>1, <1>3, <1>4 DEF FoldersTyped, Folder
<1> HIDE DEF f
<1>6. folders'[s] # None /\ \A r \in Second \ {s} : folders'[r] = folders[r]
  BY <1>1, <1>4, <1>5, TablesAssumption DEF FoldersTyped
<1>7. Snapshots' = Snapshots
  BY <1>3, <1>4, <1>6 DEF Snapshots
<1>8. ASSUME "clash" \notin disturbed PROVE AloneInv'
  <2>1. AloneInv /\ \A q \in Process \ {p} : ~Backing(procs[q])
    BY <1>1, <1>8, AloneAtWork
  <2>2. OwnKept(Stamped(p), procs[p].old)'
    <3>1. OwnKept(Stamped(p), procs[p].old)
      BY <1>1, <2>1 DEF AloneInv
    <3>2. Stamped(p) # s /\ Stamped(p) \in Second
      BY <1>2, <3>1 DEF OwnKept, PruneJob, Stamped
    <3>3. QED
      BY <1>1, <1>6, <1>7, <3>1, <3>2 DEF OwnKept, Stamped
  <2>3. QED
    BY <1>1, <2>1, <2>2 DEF AloneInv, Backing
<1>9. ASSUME "clash" \notin disturbed PROVE PartsInv'
  <2>1. ASSUME "prune" \notin disturbed, NEW r \in Snapshots
        PROVE  Whole(folders'[r]) \/ r \in procs[p].old
    <3>1. Whole(folders[r]) \/ r \in procs[p].old
      BY <1>1, <1>9, <2>1, WholeUnlessPruned
    <3>2. QED
      BY <1>6, <3>1 DEF Snapshots
  <2>2. QED
    BY <1>1, <1>7, <2>1 DEF PartsInv
<1>10. QED
  BY <1>1, <1>8, <1>9 DEF SnapInv

LEMMA RemoveFolderSnap ==
    ASSUME Typed, SnapInv, NEW p \in Process, RemoveFolder(p) PROVE SnapInv'
<1>1. /\ JobsTyped /\ FoldersTyped /\ Backing(procs[p]) /\ disturbed' = disturbed
      /\ procs[p].at = "prune"
  BY DEF Typed, RemoveFolder, Backing
<1>2. procs[p] \in PruneJob
  BY <1>1, JobAt DEF JobsTyped
<1>3. PICK own \in Second, old \in SUBSET Second : own = procs[p].stamp /\ old = procs[p].old
  BY <1>2 DEF PruneJob
<1>4. PICK s \in old : /\ folders' = [folders EXCEPT ![s] = None]
                       /\ Become(p, [procs[p] EXCEPT !.old = @ \ {s}])
  BY <1>3 DEF RemoveFolder
<1>5. PICK j \in Job :
          j.at = "prune" /\ j.stamp = own /\ j.old = old \ {s} /\ Become(p, j)
  <2>1. /\ [procs[p] EXCEPT !.old = @ \ {s}] \in Job
        /\ [procs[p] EXCEPT !.old = @ \ {s}].at = "prune"
        /\ [procs[p] EXCEPT !.old = @ \ {s}].stamp = own
        /\ [procs[p] EXCEPT !.old = @ \ {s}].old = old \ {s}
    BY <1>2, <1>3 DEF Job, PruneJob
  <2>2. QED
    BY <1>4, <2>1
<1>6. folders'[s] = None /\ \A r \in Second \ {s} : folders'[r] = folders[r]
  BY <1>1, <1>4 DEF FoldersTyped
<1>7. Snapshots' = Snapshots \ {s}
  BY <1>4, <1>6 DEF Snapshots
<1>8. ASSUME "clash" \notin disturbed PROVE OwnKept(own, old \ {s})'
  <2>1. OwnKept(own, old)
    BY <1>1, <1>3, <1>8, AloneAtWork DEF AloneInv, Stamped
  <2>2. Snapshots' \ (old \ {s}) = Snapshots \ old
    BY <1>4, <1>7
  <2>3. own # s /\ folders'[own] # None
    BY <1>6, <2>1 DEF OwnKept
  <2>4. QED
    BY <1>7, <2>1, <2>2, <2>3 DEF OwnKept
<1>9. ASSUME "clash" \notin disturbed, "prune" \notin disturbed, NEW r \in Snapshots'
      PROVE  Whole(folders'[r]) \/ r \in old \ {s}
  <2>1. r \in Snapshots \ {s}
    BY <1>7
  <2>2. Whole(folders[r]) \/ r \in old
    BY <1>1, <1>3, <1>9, <2>1, WholeUnlessPruned
  <2>3. QED
    BY <1>6, <2>1, <2>2 DEF Snapshots
<1>10. "clash" \notin disturbed => OwnKept(j.stamp, j.old)'
  BY <1>5, <1>8
<1>11. QED
  BY <1>1, <1>5, <1>9, <1>10, AloneAtWork, GoesOnKeeps

LEMMA SnapStep == ASSUME Typed, SnapInv, [Next]_vars PROVE SnapInv'
<1>1. JobsTyped
  BY DEF Typed
<1>2. ASSUME NEW p \in Process,
             Migrate(p) \/ Close(p)
      PROVE  SnapInv'
  <2>1. ~Backing(procs[p]) /\ UNCHANGED <<folders, partial>> /\ disturbed \subseteq disturbed'
    <3>1. CASE Open(p) \/ Schema(p) \/ AddColumn(p) \/ Mark(p) \/ Opened(p) \/ Close(p)
      BY <3>1 DEF Open, Schema, AddColumn, Mark, Opened, Close, snapshots, Backing, Closed, Met
    <3>2. CASE Check(p) \/ Rename(p) \/ Create(p)
      BY <3>2 DEF Check, Rename, Create, snapshots, Backing, Met
    <3>3. CASE Fill(p) \/ Drop(p)
      BY <3>3 DEF Fill, Drop, snapshots, Backing, Met
    <3>4. QED
      BY <1>2, <3>1, <3>2, <3>3 DEF Migrate
  <2>2. PICK j : Become(p, j)
    BY <1>2 DEF Migrate, Open, Schema, AddColumn, Mark, Check, Rename, Create, Fill, Drop, Opened,
       Close
  <2>3. Typed'
    BY <1>2, MigrateTyped, OtherTyped
  <2>4. procs'[p] = j /\ j \in Job
    BY <1>1, <2>2, <2>3 DEF Typed, JobsTyped, Become
  <2>5. ~Backing(procs'[p])
    <3>1. \A k \in 1..(Len(Rebuilds) + 1) : ~Backing(Checking(k))
      BY CheckingJob
    <3>2. 1 \in 1..(Len(Rebuilds) + 1)
      BY RebuildFacts
    <3>3. procs[p].at \in {"check", "drop"} => procs[p].k + 1 \in 1..(Len(Rebuilds) + 1)
      <4>1. procs[p].at \in {"check", "drop"} => procs[p].k \in Numbers
        BY <1>1, JobAt DEF JobsTyped, CheckJob, ScriptJob
      <4>2. \A k \in Numbers : k + 1 \in 1..(Len(Rebuilds) + 1)
        BY RebuildFacts DEF Numbers
      <4>3. QED
        BY <4>1, <4>2
    <3>4. CASE Rename(p) \/ Create(p) \/ Fill(p)
      <4>1. procs[p] \in ScriptJob
        BY <1>1, <3>4, JobAt DEF JobsTyped, Rename, Create, Fill
      <4>2. procs'[p].at \in {"create", "fill", "drop", "closed"}
        BY <1>1, <3>4, <4>1, ClosedJob DEF Rename, Create, Fill, Become, JobsTyped, ScriptJob
      <4>3. QED
        BY <4>2 DEF Backing
    <3>5. CASE Check(p) \/ Drop(p)
      BY <1>1, <3>1, <3>3, <3>5, ClosedJob DEF Check, Drop, Become, JobsTyped, Backing
    <3>6. CASE Open(p) \/ Schema(p) \/ Opened(p) \/ Close(p)
      <4>1. procs'[p] \in {[at |-> "schema"], [at |-> "income"], [at |-> "open"], Closed}
        BY <1>1, <3>6 DEF Open, Schema, Opened, Close, Become, JobsTyped
      <4>2. QED
        BY <4>1 DEF Backing, Closed
    <3>7. CASE AddColumn(p) \/ Mark(p)
      BY <1>1, <3>1, <3>2, <3>7 DEF AddColumn, Mark, Become, JobsTyped, Backing
    <3>8. QED
      BY <1>2, <3>4, <3>5, <3>6, <3>7 DEF Migrate
  <2>6. QED
    BY <1>1, <2>1, <2>2, <2>4, <2>5, ApartKeeps
<1>3. ASSUME NEW p \in Process, GiveUp(p) \/ Stop(p) \/ EndBackup(p) \/ BackupFails(p)
      PROVE  SnapInv'
  <2>1. /\ Become(p, Closed) /\ folders' = folders /\ disturbed \subseteq disturbed'
        /\ partial' = partial \/ Backing(procs[p])
        /\ procs[p].at = "prune" => procs[p].old = {} \/ "prune" \in disturbed'
    BY <1>3 DEF GiveUp, Stop, EndBackup, BackupFails, snapshots, CutShort, Backing
  <2>2. QED
    BY <1>1, <2>1, LeaveKeeps
<1>4. ASSUME NEW p \in Process, NEW t \in Table, NEW r \in Row, Insert(p, t, r) PROVE SnapInv'
  BY <1>4 DEF Insert, snapshots, SnapInv, AloneInv, PartsInv, Snapshots, OwnKept, Stamped
<1>5. CASE Time \/ UNCHANGED vars
  BY <1>5 DEF Time, Tick, SetBack, vars, snapshots, SnapInv, AloneInv, PartsInv, Snapshots,
     OwnKept, Stamped
<1>6. QED
  BY <1>2, <1>3, <1>4, <1>5, StartBackupSnap, WritingSnap, NameSnap, ListSnap, RemoveFileSnap,
     RemoveFolderSnap DEF Next, Backup

LEMMA SnapInvariance == Spec => [](Typed /\ SnapInv)
<1>1. Init => Typed /\ SnapInv
  BY InitTyped, InitSnap
<1>2. Typed /\ SnapInv /\ [Next]_vars => (Typed /\ SnapInv)'
  BY TypedStep, SnapStep
<1>3. QED
  BY <1>1, <1>2, PTL DEF Spec

\* As long as runs do not overlap, a folder under its final name holds a database and
\* the manifest of that database, but for what a run is pruning or was stopped pruning
\* (make_snapshot).
THEOREM SnapshotsAreWhole == Spec => []SnapshotsWhole
<1>1. Typed /\ SnapInv => SnapshotsWhole
  BY DEF SnapInv, PartsInv, SnapshotsWhole, Whole
<1>2. QED
  BY <1>1, SnapInvariance, PTL

\* As long as runs do not overlap, a run keeps its own snapshot, no more than Keep with
\* it, and of the others no older one in the place of a newer, whatever the clock did
\* (_prune).
THEOREM OwnIsKept == Spec => []OwnSnapshotKept
<1>1. Typed /\ SnapInv => OwnSnapshotKept
  BY DEF SnapInv, AloneInv, OwnSnapshotKept, OwnKept
<1>2. QED
  BY <1>1, SnapInvariance, PTL

=============================================================================
