------------------------------- MODULE Storage -------------------------------
(***************************************************************************)
(* The ledger as a file: opening it, which brings an older one to the      *)
(* present schema (amonhen/db.py), and copying it into dated snapshots     *)
(* that are pruned (amonhen/backup.py).                                    *)
(*                                                                         *)
(* Every process that opens the ledger migrates it, the server and its     *)
(* sync at the same moment and the command line whenever it is called.     *)
(* SQLite commits each statement of a script by itself, so a rebuild is    *)
(* four commits that other openers may run between, and a stop may fall    *)
(* after any of them.  Of the migrations that hold a transaction open, the *)
(* flag on the categories is here.                                         *)
(*                                                                         *)
(* A row is a member of a small set.  Indexes, plain added columns, the    *)
(* table of merchants and the obsolete rows, whose statements hold a       *)
(* transaction too, the rebuild of budgets, which rewrites every row, the  *)
(* re-described movements and the configuration beside the database are    *)
(* not here.                                                               *)
(***************************************************************************)
EXTENDS Integers, Sequences, FiniteSetsExt

CONSTANTS
    Process,
    Row,            \* the rows of a table
    Table,          \* the rebuilt tables there are in this ledger
    Former,         \* the forms the file may have them in
    Rows,           \* the rows they may hold by then
    LastSecond,     \* bound: the clock runs over 1..LastSecond
    Keep,           \* how many snapshots a run keeps
    MaxBackups,     \* bound
    MaxStops,       \* bound: processes stopped, and clocks set back
    None

\* The forms a table has had, and what a snapshot is made of.
TableForm == [form: 0..2, rows: SUBSET Row]
TableRows == [Table -> SUBSET Row]
Folder == [db: TableRows \cup {None}, manifest: TableRows \cup {None}]

ASSUME TablesAssumption ==
    /\ Former \subseteq [Table -> 0..2] /\ Rows \subseteq SUBSET Row
    /\ None \notin TableForm /\ None \notin TableRows /\ None \notin Folder
ASSUME ProcessAssumption == None \notin Process
ASSUME KeepAssumption == Keep \in Nat /\ LastSecond \in Nat \ {0}
ASSUME BoundsAssumption == MaxBackups \in Nat /\ MaxStops \in Nat

\* The rebuilds of initialize in their order: a table older than form `to` is renamed,
\* made anew and filled from the old one, if that has a form the script can read.
Rebuilds ==
    <<[table |-> "rules", to |-> 1, reads |-> {0}],                 \* _generalize_rules
      [table |-> "rules", to |-> 2, reads |-> {1, 2}],              \* _allow_tag_rules
      [table |-> "account_balances", to |-> 1, reads |-> {0, 1}],   \* _widen_balance_key
      [table |-> "budget_items", to |-> 1, reads |-> {0, 1}]>>      \* _unassigned_budget_items
\* SCHEMA
Present(t) == IF t = "rules" THEN 2 ELSE 1

VARIABLES
    now,            \* each table: its form and rows, or None
    legacy,         \* <table>_legacy
    income,         \* the flag of the categories: None, "column", "marked"
    writer,         \* who holds a transaction open
    procs,          \* what each process is doing
    folders,        \* the snapshots under their final names
    partial,        \* and those still being written
    clock,
    backups, stops,
    written,        \* history: the rows every table was given
    disturbed       \* history: what is named below has happened

vars == <<now, legacy, income, writer, procs, folders, partial, clock, backups, stops,
          written, disturbed>>
database == <<now, legacy, income, written>>
snapshots == <<folders, partial>>
bounds == <<clock, backups, stops>>

Second == 1..LastSecond
Closed == [at |-> "closed"]
Held(t) == IF now[t] = None THEN {} ELSE now[t].rows
Stranded(t) == IF legacy[t] = None THEN {} ELSE legacy[t].rows

\* Every variable has its type; a rebuild being run is one of the list, and only who is
\* between the flags of _add_income_flag and the next commit holds a transaction.
TypeOK ==
    /\ now \in [Table -> TableForm \cup {None}] /\ legacy \in [Table -> TableForm \cup {None}]
    /\ written \in TableRows
    /\ income \in {None, "column", "marked"} /\ writer \in Process \cup {None}
    /\ DOMAIN procs = Process
    /\ \A p \in Process : "k" \in DOMAIN procs[p] => procs[p].k \in 1..Len(Rebuilds)
    /\ writer # None => procs[writer].at \in {"check", "rename", "commit"}
    /\ folders \in [Second -> Folder \cup {None}] /\ partial \in [Second -> Folder \cup {None}]
    /\ clock \in Second /\ backups \in 0..MaxBackups /\ stops \in 0..MaxStops
    /\ disturbed \subseteq {"rebuild", "clash", "prune"}

\* A ledger written by an earlier version or up to date, and no snapshot yet.
Init ==
    /\ \E former \in Former, r \in Rows :
         /\ now = [t \in Table |-> [form |-> former[t], rows |-> r]]
         /\ written = [t \in Table |-> r]
    /\ legacy = [t \in Table |-> None] /\ income = None /\ writer = None
    /\ procs = [p \in Process |-> Closed]
    /\ folders = [s \in Second |-> None] /\ partial = [s \in Second |-> None]
    /\ clock = 1 /\ backups = 0 /\ stops = 0 /\ disturbed = {}

-----------------------------------------------------------------------------
(* Opening the ledger.                                                     *)

Become(p, j) == procs' = [procs EXCEPT ![p] = j]
\* A statement that writes waits for whoever holds a transaction.
MayWrite(p) == writer \in {None, p}
InScript(j) == j.at \in {"create", "fill", "drop"}

\* An opener comes upon the rebuild of another, or upon what one left.
Met(condition) == IF condition THEN disturbed \cup {"rebuild"} ELSE disturbed

Open(p) ==
    /\ procs[p] = Closed
    /\ Become(p, [at |-> "schema"])
    /\ UNCHANGED <<database, writer, snapshots, bounds, disturbed>>

\* executescript(SCHEMA): a table that is not there is made, in its present form.
Schema(p) ==
    /\ procs[p].at = "schema" /\ MayWrite(p)
    /\ now' = [t \in Table |-> IF now[t] = None THEN [form |-> Present(t), rows |-> {}]
                               ELSE now[t]]
    /\ Become(p, [at |-> "income"])
    /\ disturbed' = Met(\E t \in Table : now[t] = None)
    /\ UNCHANGED <<legacy, income, written, writer, snapshots, bounds>>

\* Mutant: one more than there are.
CheckingOneMore(k) ==
    IF k > Len(Rebuilds) + 1 THEN [at |-> "commit"] ELSE [at |-> "check", k |-> k]
\* What is left of the rebuilds, and the end of the migration.
Checking(k) == IF k > Len(Rebuilds) THEN [at |-> "commit"] ELSE [at |-> "check", k |-> k]

\* _add_income_flag: the column commits, the flags wait for the next commit.
AddColumn(p) ==
    /\ procs[p].at = "income" /\ MayWrite(p)
    /\ income' = IF income = None THEN "column" ELSE income
    /\ Become(p, IF income = None THEN [at |-> "mark"] ELSE Checking(1))
    /\ UNCHANGED <<now, legacy, written, writer, snapshots, bounds, disturbed>>
Mark(p) ==
    /\ procs[p].at = "mark" /\ MayWrite(p)
    /\ writer' = p
    /\ Become(p, Checking(1))
    /\ UNCHANGED <<database, snapshots, bounds, disturbed>>

\* What a commit of p makes of the flags it has written.
Committed(p) ==
    /\ income' = IF writer = p THEN "marked" ELSE income
    /\ writer' = IF writer = p THEN None ELSE writer

\* A table of planned expenses that is not there leaves nothing to rebuild.
UpToDate(r) ==
    \/ r.table \notin Table
    \/ IF now[r.table] = None THEN r.table = "budget_items" ELSE now[r.table].form >= r.to
\* The form of the table is read, then the script runs or not.
Check(p) ==
    LET k == procs[p].k
        r == Rebuilds[k]
    IN  /\ procs[p].at = "check"
        /\ Become(p, IF UpToDate(r) THEN Checking(k + 1)
                     ELSE [at |-> "rename", k |-> k])
        /\ UNCHANGED <<database, writer, snapshots, bounds, disturbed>>

\* Mutant: the name is made free first, DROP TABLE IF EXISTS <table>_legacy.
RenamesOver(t) == now[t] # None
\* RENAME fails when the table is gone or a renamed one is still there.
Renames(t) == now[t] # None /\ legacy[t] = None
Rename(p) ==
    LET r == Rebuilds[procs[p].k]
        t == r.table
        fails == ~Renames(t)
    IN  /\ procs[p].at = "rename" /\ MayWrite(p)
        /\ Committed(p)
        /\ IF fails
           THEN Become(p, Closed) /\ UNCHANGED <<now, legacy>>
           ELSE /\ legacy' = [legacy EXCEPT ![t] = now[t]]
                /\ now' = [now EXCEPT ![t] = None]
                /\ Become(p, [procs[p] EXCEPT !.at = "create"])
        /\ disturbed' = Met(fails \/ now[t].form >= r.to)      \* rebuilt since the check
        /\ UNCHANGED <<written, snapshots, bounds>>

Create(p) ==
    LET r == Rebuilds[procs[p].k]
        fails == now[r.table] # None
    IN  /\ procs[p].at = "create" /\ MayWrite(p)
        /\ IF fails
           THEN Become(p, Closed) /\ UNCHANGED now
           ELSE /\ now' = [now EXCEPT ![r.table] = [form |-> r.to, rows |-> {}]]
                /\ Become(p, [procs[p] EXCEPT !.at = "fill"])
        /\ disturbed' = Met(fails)
        /\ UNCHANGED <<legacy, income, written, writer, snapshots, bounds>>

\* INSERT .. SELECT: columns the old form does not have are an error.
Fills(r) == legacy[r.table] # None /\ legacy[r.table].form \in r.reads
Fill(p) ==
    LET r == Rebuilds[procs[p].k]
        t == r.table
    IN  /\ procs[p].at = "fill" /\ MayWrite(p)
        /\ \/ /\ Fills(r) /\ now[t] # None
              /\ now' = [now EXCEPT ![t].rows = @ \cup Stranded(t)]
              /\ Become(p, [procs[p] EXCEPT !.at = "drop"])
              /\ UNCHANGED disturbed
           \/ /\ ~Fills(r) \/ now[t] = None \/ Held(t) # {}     \* a key that is taken
              /\ Become(p, Closed) /\ disturbed' = Met(TRUE)
              /\ UNCHANGED now
        /\ UNCHANGED <<legacy, income, written, writer, snapshots, bounds>>

Drop(p) ==
    LET k == procs[p].k
    IN  /\ procs[p].at = "drop" /\ MayWrite(p)
        /\ legacy' = [legacy EXCEPT ![Rebuilds[k].table] = None]
        /\ Become(p, IF legacy[Rebuilds[k].table] = None THEN Closed ELSE Checking(k + 1))
        /\ UNCHANGED <<now, income, written, writer, snapshots, bounds, disturbed>>

\* The commit at the end of initialize.
Opened(p) ==
    /\ procs[p].at = "commit" /\ MayWrite(p)
    /\ Committed(p)
    /\ Become(p, [at |-> "open"])
    /\ UNCHANGED <<now, legacy, written, snapshots, bounds, disturbed>>

\* What a person writes meanwhile.
Insert(p, t, r) ==
    /\ procs[p].at = "open" /\ MayWrite(p)
    /\ now[t] # None /\ now[t].form = Present(t) /\ r \notin written[t]
    /\ now' = [now EXCEPT ![t].rows = @ \cup {r}]
    /\ written' = [written EXCEPT ![t] = @ \cup {r}]
    /\ UNCHANGED <<legacy, income, writer, procs, snapshots, bounds, disturbed>>

Close(p) ==
    /\ procs[p].at = "open"
    /\ Become(p, Closed)
    /\ UNCHANGED <<database, writer, snapshots, bounds, disturbed>>

-----------------------------------------------------------------------------
(* Writing a snapshot, and pruning the others.                             *)

Empty == [db |-> None, manifest |-> None]
Snapshots == {s \in Second : folders[s] # None}
Stamped(p) == procs[p].stamp
Others(p) == {q \in Process \ {p} : procs[q].at \in {"copy", "describe", "name", "list", "prune"}}

\* The ledger's own tables, as the backup API copies them: what is committed.
Copy == [t \in Table |-> Held(t)]

\* make_snapshot takes its name and an empty folder to write in.
StartBackup(p) ==
    /\ procs[p].at = "open" /\ backups < MaxBackups
    /\ backups' = backups + 1
    /\ IF folders[clock] # None
       THEN Become(p, Closed) /\ UNCHANGED <<partial, disturbed>>
       ELSE /\ partial' = [partial EXCEPT ![clock] = Empty]
            /\ Become(p, [at |-> "copy", stamp |-> clock])
            /\ disturbed' = IF Others(p) = {} THEN disturbed ELSE disturbed \cup {"clash"}
    /\ UNCHANGED <<database, writer, folders, clock, stops>>

\* The folder was taken away by a run of the same second, or the disk is full.
BackupFails(p) ==
    /\ procs[p].at \in {"copy", "describe"}
    /\ partial' = [partial EXCEPT ![Stamped(p)] = None]
    /\ Become(p, Closed)
    /\ UNCHANGED <<database, writer, folders, bounds, disturbed>>

\* Mutant: what is counted is the ledger, not the copy.
CountedLive(p) == Copy
Counted(p) == partial[Stamped(p)].db
CopyDatabase(p) ==
    LET s == Stamped(p)
    IN  /\ procs[p].at = "copy" /\ partial[s] # None
        /\ partial' = [partial EXCEPT ![s].db = Copy]
        /\ Become(p, [procs[p] EXCEPT !.at = "describe"])
        /\ UNCHANGED <<database, writer, folders, bounds, disturbed>>
Describe(p) ==
    LET s == Stamped(p)
    IN  /\ procs[p].at = "describe" /\ partial[s] # None /\ partial[s].db # None
        /\ partial' = [partial EXCEPT ![s].manifest = Counted(p)]
        /\ Become(p, [procs[p] EXCEPT !.at = "name"])
        /\ UNCHANGED <<database, writer, folders, bounds, disturbed>>

\* The folder takes its name; from here on an error leaves it.
Name(p) ==
    LET s == Stamped(p)
    IN  /\ procs[p].at = "name"
        /\ IF partial[s] = None \/ folders[s] # None
           THEN Become(p, Closed) /\ UNCHANGED snapshots
           ELSE /\ folders' = [folders EXCEPT ![s] = partial[s]]
                /\ partial' = [partial EXCEPT ![s] = None]
                /\ Become(p, [at |-> "list", stamp |-> s])
        /\ UNCHANGED <<database, writer, bounds, disturbed>>

\* The newest of a set of names, at most n.
NewestOf(names, n) == {s \in names : Cardinality({x \in names : x > s}) < n}
\* Mutant: the newest ones, whichever run wrote them.
Newest(own) == Snapshots \ NewestOf(Snapshots, Keep)
\* _prune: its own snapshot, and the newest of the others.
Pruned(own) == (Snapshots \ {own}) \ NewestOf(Snapshots \ {own}, Keep - 1)
List(p) ==
    /\ procs[p].at = "list"
    /\ Become(p, [at |-> "prune", stamp |-> Stamped(p),
                  old |-> IF Keep = 0 THEN {} ELSE Pruned(Stamped(p))])
    /\ UNCHANGED <<database, writer, snapshots, bounds, disturbed>>

\* shutil.rmtree takes the files one by one, in any order, then the folder.
RemoveFile(p) ==
    /\ procs[p].at = "prune"
    /\ \E s \in procs[p].old, file \in {"db", "manifest"} :
         /\ folders[s] # None /\ folders[s][file] # None
         /\ folders' = [folders EXCEPT ![s][file] = None]
    /\ UNCHANGED <<database, writer, procs, partial, bounds, disturbed>>
RemoveFolder(p) ==
    /\ procs[p].at = "prune"
    /\ \E s \in procs[p].old :
         /\ folders[s] \in {None, Empty}
         /\ folders' = [folders EXCEPT ![s] = None]
         /\ Become(p, [procs[p] EXCEPT !.old = @ \ {s}])
    /\ UNCHANGED <<database, writer, partial, bounds, disturbed>>
\* ignore_errors: the run ends well whatever it could not remove.
EndBackup(p) ==
    /\ procs[p].at = "prune"
    /\ Become(p, Closed)
    /\ disturbed' = IF procs[p].old = {} THEN disturbed ELSE disturbed \cup {"prune"}
    /\ UNCHANGED <<database, writer, snapshots, bounds>>

-----------------------------------------------------------------------------
(* Stops, and the clock.                                                   *)

\* What is cut short and nothing goes back to.
CutShort(j) ==
    (IF InScript(j) THEN {"rebuild"} ELSE {}) \cup (IF j.at = "prune" THEN {"prune"} ELSE {})

\* A statement of initialize waited too long for who holds a transaction.
GiveUp(p) ==
    /\ InScript(procs[p]) \/ procs[p].at \in {"schema", "income", "mark", "rename", "commit"}
    /\ ~MayWrite(p)
    /\ Become(p, Closed) /\ disturbed' = disturbed \cup CutShort(procs[p])
    /\ UNCHANGED <<database, writer, snapshots, bounds>>

Stop(p) ==
    /\ procs[p] # Closed /\ stops < MaxStops /\ stops' = stops + 1
    /\ Become(p, Closed)
    /\ writer' = IF writer = p THEN None ELSE writer
    /\ disturbed' = disturbed \cup CutShort(procs[p])
    /\ UNCHANGED <<database, snapshots, clock, backups>>

Tick == clock < LastSecond /\ clock' = clock + 1
SetBack ==
    /\ stops < MaxStops /\ stops' = stops + 1
    /\ \E s \in 1..(clock - 1) : clock' = s
Time ==
    /\ (Tick /\ UNCHANGED stops) \/ SetBack
    /\ UNCHANGED <<database, writer, procs, snapshots, backups, disturbed>>

-----------------------------------------------------------------------------
Migrate(p) ==
    \/ Open(p) \/ Schema(p) \/ AddColumn(p) \/ Mark(p) \/ Check(p)
    \/ Rename(p) \/ Create(p) \/ Fill(p) \/ Drop(p) \/ Opened(p)
Backup(p) ==
    \/ CopyDatabase(p) \/ Describe(p) \/ Name(p) \/ List(p)
    \/ RemoveFile(p) \/ RemoveFolder(p) \/ EndBackup(p) \/ BackupFails(p)

Next ==
    \/ \E p \in Process :
        \/ Migrate(p) \/ GiveUp(p) \/ Close(p) \/ StartBackup(p) \/ Backup(p) \/ Stop(p)
        \/ \E t \in Table, r \in Row : Insert(p, t, r)
    \/ Time

Spec == Init /\ [][Next]_vars

-----------------------------------------------------------------------------
(* Properties.                                                             *)

\* No rebuild destroys a row, however many openers interleave and wherever one of
\* them fails or stops: what was written is in the table or in the one it was renamed to.
NothingDestroyed == \A t \in Table : written[t] \subseteq Held(t) \cup Stranded(t)

\* "Keeping every rule it already had": whoever has opened the ledger finds every row
\* in its table, once no rebuild of it is under way (_generalize_rules and the others).
RowsInPlace ==
    \A p \in Process, t \in Table :
        procs[p].at = "open" => \/ written[t] \subseteq Held(t)
                                \/ \E q \in Process : InScript(procs[q])
                                                      /\ Rebuilds[procs[q].k].table = t

\* Both: the first whatever happens, the second as long as no rebuild was cut short
\* or met by another opener.
RowsKept == NothingDestroyed /\ ("rebuild" \notin disturbed => RowsInPlace)

\* "A run that dies halfway must not leave behind a folder that looks like a snapshot":
\* under a final name are a database and the manifest of that very database, while
\* nothing is being pruned, no pruning ended before all was removed, and no runs overlap.
SnapshotsWhole ==
    ("clash" \notin disturbed /\ "prune" \notin disturbed) =>
        \A s \in Snapshots :
            \/ folders[s].db # None /\ folders[s].manifest = folders[s].db
            \/ \E p \in Process : procs[p].at = "prune" /\ s \in procs[p].old

\* "Keep the newest snapshots, the one just written among them", though the clock
\* stepped back or another's stamp is ahead: a run never prunes what it wrote, nor,
\* of the rest, an older one and not a newer (_prune).
OwnSnapshotKept ==
    "clash" \notin disturbed =>
        \A p \in Process : procs[p].at = "prune" =>
            /\ folders[Stamped(p)] # None /\ Stamped(p) \notin procs[p].old
            /\ Keep > 0 => Cardinality(Snapshots \ procs[p].old) <= Keep
            /\ \A s \in procs[p].old, x \in Snapshots \ {Stamped(p)} : x < s => x \in procs[p].old
=============================================================================
