------------------------------- MODULE Ingest -------------------------------
(***************************************************************************)
(* The write path of the ledger (amonhen/ledger.py) over the SQLite file   *)
(* its connections share (amonhen/db.py).                                  *)
(*                                                                         *)
(* A connection reads in autocommit and opens its transaction at the first *)
(* row it writes: what `_plan` read may be stale when `_carry_out` writes, *)
(* unless the connection already holds the write lock.  A batch and a held *)
(* movement commit once, at their end (deferred_commits); a restored       *)
(* movement and the mark on its tombstone are two commits; an answer on a  *)
(* held movement is read before the transaction that writes it.  What a    *)
(* person's other requests do is one step.                                 *)
(***************************************************************************)
EXTENDS Dedup

CONSTANTS
    Writer,     \* the connections that record movements
    Describes,  \* ground truth, for the properties: the movement a report is about
    Batches,    \* what a sync, a period or a file hands to record_batch
    MaxJobs,    \* bound: recordings started
    MaxEdits    \* bound: requests of a person

ASSUME BatchesAssumption == Batches \subseteq [seq: Seq(Incoming), hold: BOOLEAN]
ASSUME WriterAssumption == None \notin Writer

VARIABLES
    db,         \* the committed tables
    work,       \* the tables as the open transaction sees them
    lock,       \* the connection whose transaction is open
    job,        \* what each connection is recording
    reported,   \* history: the movements of the batches that committed
    started, edited

vars == <<db, work, lock, job, reported, started, edited>>
bounds == <<started, edited>>

NoPlan == [Planned("duplicate", [content |-> None, occ |-> 0, ext |-> None])
           EXCEPT !.action = "none"]
Idle == [kind |-> "idle", seq |-> <<>>, pos |-> 1, hold |-> FALSE,
         ref |-> None, occ |-> 1, note |-> None, plan |-> NoPlan, row |-> 0]

JobType == [kind: {"idle", "batch", "restore", "write", "discard"}, seq: Seq(Incoming),
            pos: Nat \ {0}, hold: BOOLEAN, ref: (Account \X KeyType) \cup {None},
            occ: Nat \ {0}, note: Note \cup {None}, plan: PlanType \cup {NoPlan},
            row: Nat]

TypeOK ==
    /\ db \in Tables /\ work \in Tables
    /\ lock \in Writer \cup {None}
    /\ job \in [Writer -> JobType]
    /\ reported \subseteq Incoming
    /\ started \in Nat /\ edited \in Nat

-----------------------------------------------------------------------------
(* What each statement leaves in the tables.                               *)

Named(x, ref) == x.txn.account = ref[1] /\ x.key = ref[2]
RefOf(x) == <<x.txn.account, x.key>>

\* Mutant: the number of rows instead of the highest id.
CountId(rows) == Cardinality(rows)

\* INTEGER PRIMARY KEY without AUTOINCREMENT: one more than the highest id.
NextId(rows) ==
    IF rows = {} THEN 1
    ELSE 1 + (CHOOSE n \in {r.id : r \in rows} : \A r \in rows : r.id <= n)

InsertRow(s, t, digest, note) ==
    [s EXCEPT !.rows = @ \cup
        {[id |-> NextId(s.rows), txn |-> t, digest |-> digest, note |-> note]}]

\* Mutant: the promotion rewrites the note with the rest of the row.
PromoteRowAndNote(s, id, t, digest) ==
    [s EXCEPT !.rows = {IF r.id = id
                        THEN [r EXCEPT !.txn = t, !.digest = digest, !.note = None]
                        ELSE r : r \in s.rows}]
PromoteRow(s, id, t, digest) ==
    [s EXCEPT !.rows = {IF r.id = id THEN [r EXCEPT !.txn = t, !.digest = digest]
                        ELSE r : r \in s.rows}]

SetRestored(s, ref) ==
    [s EXCEPT !.graves = {IF Named(g, ref) THEN [g EXCEPT !.restored = TRUE]
                          ELSE g : g \in s.graves}]
SetNoteOf(s, id, note) ==
    [s EXCEPT !.rows = {IF r.id = id THEN [r EXCEPT !.note = note] ELSE r : r \in s.rows}]

\* _carry_out of a reimport: the new row gets the tombstone's note.
Reimport(s, t, p) ==
    LET ref  == <<t.account, p.grave>>
        note == (CHOOSE g \in s.graves : Named(g, ref)).note
    IN  SetRestored(InsertRow(s, t, p.digest, note), ref)

HoldRow(s, t, occ, digest) ==
    [s EXCEPT !.held = @ \cup
        {[key |-> KeyOf(t, digest), txn |-> t, occ |-> occ, decision |-> "pending"]}]
SetDecision(s, ref, decision) ==
    [s EXCEPT !.held = {IF Named(h, ref) THEN [h EXCEPT !.decision = decision]
                        ELSE h : h \in s.held}]

\* The copy into deleted_transactions, over an earlier one of the same key.
Grave(r) == [key |-> KeyOf(r.txn, r.digest), txn |-> r.txn, digest |-> r.digest,
             note |-> r.note, restored |-> FALSE]
DeleteRow(s, r) ==
    [s EXCEPT !.rows = @ \ {r},
              !.graves = {g \in @ : ~Named(g, RefOf(Grave(r)))} \cup {Grave(r)}]

\* _carry_out and _hold: the tables after the plan is written.
Written(s, t, occ, p) ==
    CASE p.action = "inserted"   -> InsertRow(s, t, p.digest, None)
      [] p.action = "promoted"   -> PromoteRow(s, p.row, t, p.digest)
      [] p.action = "reimported" -> Reimport(s, t, p)
      [] p.action = "hold"       -> HoldRow(s, t, occ, p.digest)
Writes == {"inserted", "promoted", "reimported", "hold"}

\* An IntegrityError: the unique indexes, and the foreign key of a posting on a
\* promoted row that is gone.
ExtTaken(s, t, but) ==
    \E r \in s.rows : r.id # but /\ t.ext # None /\ r.txn.account = t.account
                      /\ r.txn.ext = t.ext
Refused(s, t, p) ==
    CASE p.action \in {"inserted", "reimported"} -> ExtTaken(s, t, 0)
      [] p.action = "promoted" -> ExtTaken(s, t, p.row) \/ \A r \in s.rows : r.id # p.row
      [] p.action = "hold"     -> HeldRow(s.held, t, p.digest) # {}

-----------------------------------------------------------------------------
(* The connections.                                                        *)

View(w) == IF lock = w THEN work ELSE db
Planning(w) == job[w].kind # "idle" /\ job[w].plan = NoPlan /\ job[w].pos <= Len(job[w].seq)
Carrying(w) == job[w].plan # NoPlan
Recorded(w) == job[w].kind # "idle" /\ job[w].pos > Len(job[w].seq)
Movement(w) == job[w].seq[job[w].pos]
OccurrenceAt(j) == IF j.kind = "batch" THEN Occurrence(j.seq, j.pos) ELSE j.occ
Free(w) == lock \in {None, w}

Begin(w, j) ==
    /\ job[w].kind = "idle" /\ started < MaxJobs
    /\ started' = started + 1
    /\ job' = [job EXCEPT ![w] = j]
    /\ UNCHANGED <<db, work, lock, reported, edited>>

\* record_batch: a sync, a period (which holds) or a file.
StartBatch(w) ==
    \E b \in Batches :
        Begin(w, [Idle EXCEPT !.kind = "batch", !.seq = b.seq, !.hold = b.hold])

\* Mutant: the movement is rebuilt without the bank's id.
MovementWithoutId(g) == [g.txn EXCEPT !.ext = None]

\* _movement_of: the row as the tombstone kept it.
MovementOf(g) == g.txn

\* restore_deleted: the tombstone is read and refused if already restored.
StartRestore(w) ==
    \E g \in View(w).graves :
        /\ ~g.restored
        /\ Begin(w, [Idle EXCEPT !.kind = "restore", !.seq = <<MovementOf(g)>>,
                                 !.ref = RefOf(g), !.note = g.note])

\* decide_held: the answer is refused unless the movement is pending when it is
\* read; the decision that is written later does not look again.
Deciding(h, kind) ==
    [Idle EXCEPT !.kind = kind, !.seq = IF kind = "write" THEN <<h.txn>> ELSE <<>>,
                 !.ref = RefOf(h), !.occ = h.occ]
StartDecision(w) ==
    \E h \in View(w).held, kind \in {"write", "discard"} :
        h.decision = "pending" /\ Begin(w, Deciding(h, kind))

\* _plan and, in a period, the search for a probable duplicate: reads alone.
PlanMovement(w) ==
    /\ Planning(w)
    /\ \E p \in Plans(View(w), Movement(w), OccurrenceAt(job[w]), job[w].kind = "restore") :
         job' = [job EXCEPT ![w].plan =
                    IF job[w].hold THEN HoldIfProbable(View(w), Movement(w), p) ELSE p]
    /\ UNCHANGED <<db, work, lock, reported, bounds>>

\* _carry_out of a plan that writes nothing.
Absorbed(w) ==
    /\ Carrying(w) /\ job[w].plan.action \notin Writes
    /\ job' = [job EXCEPT ![w].pos = @ + 1, ![w].plan = NoPlan, ![w].note = None,
                          ![w].row = job[w].plan.row]
    /\ UNCHANGED <<db, work, lock, reported, bounds>>

\* Mutant: each movement of a batch commits by itself.
DefersNothing(kind) == FALSE

\* deferred_commits: what record_batch and decide_held are wrapped in.
Defers(kind) == kind # "restore"

\* _carry_out of one that writes: inside a batch it opens the transaction, or
\* goes on in it; the one movement of a restore commits at once.
CarryOut(w) ==
    LET t == Movement(w)
        p == job[w].plan
        s == Written(View(w), t, OccurrenceAt(job[w]), p)
    IN  /\ Carrying(w) /\ p.action \in Writes /\ Free(w)
        /\ ~Refused(View(w), t, p)
        /\ work' = s
        /\ IF Defers(job[w].kind) THEN db' = db /\ lock' = w ELSE db' = s /\ lock' = lock
        /\ job' = [job EXCEPT ![w].pos = @ + 1, ![w].plan = NoPlan,
                      ![w].note = IF p.action = "inserted" THEN @ ELSE None,
                      ![w].row = IF p.action = "promoted" THEN p.row ELSE NextId(View(w).rows)]
        /\ UNCHANGED <<reported, bounds>>

\* The end of record_batch: one commit, when anything was written.
CommitBatch(w) ==
    /\ Recorded(w) /\ job[w].kind = "batch"
    /\ db' = View(w) /\ work' = work
    /\ lock' = IF lock = w THEN None ELSE lock
    /\ reported' = reported \cup {job[w].seq[i] : i \in DOMAIN job[w].seq}
    /\ job' = [job EXCEPT ![w] = Idle]
    /\ UNCHANGED bounds

\* decide_held: the decision, with the movement if one was written.
Decided(kind) == IF kind = "write" THEN "written" ELSE "discarded"
CommitDecision(w) ==
    /\ Recorded(w) /\ job[w].kind \in {"write", "discard"} /\ Free(w)
    /\ LET s == SetDecision(View(w), job[w].ref, Decided(job[w].kind)) IN db' = s /\ work' = s
    /\ lock' = None
    /\ job' = [job EXCEPT ![w] = Idle]
    /\ UNCHANGED <<reported, bounds>>

\* _mark_restored, in a commit of its own: the note is handed over only to a
\* row that was inserted.
MarkRestored(w) ==
    /\ Recorded(w) /\ job[w].kind = "restore" /\ lock = None
    /\ LET s == SetRestored(IF job[w].note = None THEN db
                            ELSE SetNoteOf(db, job[w].row, job[w].note), job[w].ref)
       IN  db' = s /\ work' = s
    /\ job' = [job EXCEPT ![w] = Idle]
    /\ UNCHANGED <<lock, reported, bounds>>

\* Mutant: the lock outlives the transaction.
RollBackLocked(w) ==
    /\ work' = db /\ job' = [job EXCEPT ![w] = Idle]
    /\ UNCHANGED <<db, lock, reported, bounds>>

RollBack(w) ==
    /\ work' = IF lock = w THEN db ELSE work
    /\ lock' = IF lock = w THEN None ELSE lock
    /\ job' = [job EXCEPT ![w] = Idle]
    /\ UNCHANGED <<db, reported, bounds>>

\* A constraint refuses the write: the exception undoes the batch.
Refuse(w) ==
    /\ Carrying(w) /\ job[w].plan.action \in Writes /\ Free(w)
    /\ Refused(View(w), Movement(w), job[w].plan)
    /\ RollBack(w)

\* The process dies, an exception ends the job, or the lock of another
\* connection outlasts the five seconds SQLite waits for it.
GiveUp(w) == job[w].kind # "idle" /\ RollBack(w)

-----------------------------------------------------------------------------
(* Requests of a person, each a transaction of its own.                    *)

Edit(s) ==
    /\ lock = None /\ edited < MaxEdits
    /\ edited' = edited + 1
    /\ db' = s /\ work' = s
    /\ UNCHANGED <<lock, job, reported, started>>

DeleteTransaction == \E r \in db.rows : Edit(DeleteRow(db, r))
SetNotes == \E r \in db.rows, n \in Note \cup {None} : Edit(SetNoteOf(db, r.id, n))
SetReimportDeleted ==
    \E a \in Account : Edit([db EXCEPT !.reimport[a] = ~@])

-----------------------------------------------------------------------------
Init ==
    /\ db = EmptyTables /\ work = EmptyTables
    /\ lock = None
    /\ job = [w \in Writer |-> Idle]
    /\ reported = {}
    /\ started = 0 /\ edited = 0

Progress(w) ==
    \/ PlanMovement(w) \/ Absorbed(w) \/ CarryOut(w) \/ Refuse(w)
    \/ CommitBatch(w) \/ CommitDecision(w) \/ MarkRestored(w)

Next ==
    \/ \E w \in Writer :
          \/ StartBatch(w) \/ StartRestore(w) \/ StartDecision(w)
          \/ Progress(w) \/ GiveUp(w)
    \/ DeleteTransaction \/ SetNotes \/ SetReimportDeleted

Spec == Init /\ [][Next]_vars

-----------------------------------------------------------------------------
(* Properties.                                                             *)

\* A batch is in the ledger whole or not at all: whatever refuses it, ends it or
\* stops the process half way, no row, tombstone or held movement is of a report
\* that no committed batch brought (record_batch under deferred_commits, _carry_out).
BatchesWhole == \A x \in db.rows \cup db.graves \cup db.held : x.txn \in reported

\* A settled movement leaves the ledger only through the trash: no ingest
\* rewrites a BOOK row or takes it away (_absorb, _promote, delete_transaction).
StaysSettled(r) ==
    \/ \E q \in db'.rows : q.id = r.id /\ q.txn = r.txn /\ q.digest = r.digest
    \/ \E g \in db'.graves : g.txn = r.txn /\ ~g.restored
SettledKept == [][\A r \in db.rows : r.txn.status = "BOOK" => StaysSettled(r)]_vars

InWindow(s, t) == SameAmount(s, t) /\ Near(s, t)

\* docs/ledger.md, "a note is local, and that is why the sync cannot lose it":
\* whatever a batch does, the note hangs on its row, and the row is still the
\* movement it was written on or what the bank settled it as, by its id or by the
\* window of days; or it is in the trash with the movement; until a person writes
\* another or a restore hands one back.
Settles(s, t) ==
    /\ s.status = "PDNG" /\ t.status = "BOOK"
    /\ InWindow(s, t) \/ (s.account = t.account /\ s.ext # None /\ s.ext = t.ext)
KeepsNote(r) ==
    \/ \E q \in db'.rows :
          /\ q.id = r.id /\ (q.txn = r.txn \/ Settles(r.txn, q.txn))
          /\ \/ q.note = r.note
             \/ SetNotes
             \/ \E w \in Writer : MarkRestored(w) /\ job[w].row = r.id
    \/ \E g \in db'.graves : g.txn = r.txn /\ g.note = r.note /\ ~g.restored

\* The note a restore hands back goes to a row of the movement it restored.
HandsBack(w) ==
    job[w].note # None =>
        \A q \in db'.rows : q.id = job[w].row => q.txn = job[w].seq[1]
NotesKept ==
    [][/\ \A r \in db.rows : r.note # None => KeepsNote(r)
       /\ \A w \in Writer : MarkRestored(w) => HandsBack(w)]_vars

\* What _plan read still holds when _carry_out writes it: no unique index
\* refuses the write, and a promoted row that is still there is still pending.
PlanHolds(s, t, p) ==
    /\ p.action \in {"inserted", "reimported"} => ~ExtTaken(s, t, 0)
    /\ p.action = "hold" => HeldRow(s.held, t, p.digest) = {}
    /\ p.action = "promoted" =>
          /\ ~ExtTaken(s, t, p.row)
          /\ \A r \in s.rows : r.id = p.row => r.txn.status = "PDNG"
PlanStillHolds ==
    \A w \in Writer : Carrying(w) => PlanHolds(View(w), Movement(w), job[w].plan)

\* A settled movement a committed batch brought, with the bank's own id, is a settled
\* row, known to a tombstone, or among the probable duplicates under that id: none
\* is lost between the six answers of record.  A row or a tombstone stands for it
\* by its id, or by its content from the other path; a tombstone also as its
\* pending twin.
StandsFor(x, t) ==
    /\ x.txn.account = t.account
    /\ x.txn.ext = t.ext \/ (x.digest.content = ContentOf(t) /\ x.txn.source # t.source)
Accounted(s, t) ==
    \/ \E r \in s.rows : r.txn.status = "BOOK" /\ StandsFor(r, t)
    \/ \E g \in s.graves : StandsFor(g, t) \/ (InWindow(g.txn, t) /\ g.txn.status # t.status)
    \/ \E h \in s.held : h.txn.account = t.account /\ h.txn.ext = t.ext
SettledAccounted ==
    \A t \in reported : t.status = "BOOK" /\ t.ext # None => Accounted(db, t)

\* Two ingest paths, one ledger: of the movements of one amount in one window of
\* days the ledger never holds more than the bank and the files ever reported.
RowsBoundedByMovements ==
    \A t \in Incoming :
        Cardinality({r \in db.rows : InWindow(r.txn, t)}) <=
        Cardinality({Describes[u] : u \in {v \in reported : InWindow(v, t)}})

\* restore_deleted: "the row it restores is the one whose deletion this is".  The
\* movement is planned under the tombstone's own key, or answered by a row of the
\* same movement; but for the one way the code takes another movement for it: no
\* row has its id, and one of that amount and window waits in the other status.
InItsPlace(w) ==
    LET t == Movement(w)  p == job'[w].plan
    IN  \/ p.action = "inserted" /\ KeyOf(t, p.digest) = job[w].ref[2]
        \/ \E r \in View(w).rows : r.id = p.row /\ Describes[r.txn] = Describes[t]
TakenForTwin(s, t) ==
    /\ FindByExternalId(s.rows, t) = {}
    /\ \E q \in s.rows : /\ InWindow(q.txn, t) /\ q.txn.status # t.status
                         /\ Describes[q.txn] # Describes[t]
RestoreKeepsIdentity ==
    [][\A w \in Writer : PlanMovement(w) /\ job[w].kind = "restore" =>
          InItsPlace(w) \/ TakenForTwin(View(w), Movement(w))]_vars

\* decide_held "once", and docs of the request: "the decision is final".  A period
\* run again neither asks twice nor forgets an answer, and no answer is replaced.
DecidedOnce ==
    [][\A h \in db.held :
          /\ \E k \in db'.held : RefOf(k) = RefOf(h) /\ k.txn = h.txn
          /\ \A k \in db'.held : RefOf(k) = RefOf(h) =>
                h.decision = "pending" \/ k.decision = h.decision]_vars

\* delete_transaction: the tombstone "is what stops the next sync from writing
\* it straight back".  While a deletion stands and the account does not ask for
\* its deletions again, no batch writes a row under the identity deleted.
DeletedStaysOut ==
    [][\A w \in Writer, g \in db.graves :
          CommitBatch(w) /\ ~g.restored /\ ~db.reimport[g.txn.account] =>
              {r \in db'.rows : RefOf(Grave(r)) = RefOf(g)} \subseteq
              {r \in db'.rows : \E q \in db.rows : RefOf(Grave(q)) = RefOf(g)}]_vars

\* Whatever the other connections do, a recording ends: committed, refused or
\* given up.  Every thread of the server and every command is scheduled.
FairSpec == Spec /\ \A w \in Writer : WF_vars(Progress(w))
EveryJobEnds == \A w \in Writer : job[w].kind # "idle" ~> job[w].kind = "idle"

-----------------------------------------------------------------------------
(* What some theorems ask of the reports: `_plan` has nothing else to tell  *)
(* two movements by, and without it their claims are false.                *)

\* No batch has one movement twice without ids to tell the two apart.
OnceEach ==
    \A b \in Batches : \A i \in DOMAIN b.seq : b.seq[i].ext = None => Occurrence(b.seq, i) = 1

\* Of one content, the reports of one path all have an id or all have none.
DifferentPaths ==
    \A s, t \in Incoming :
        ContentOf(s) = ContentOf(t) /\ s.ext # None /\ t.ext = None => s.source # t.source

\* An id is of one movement, and so is a content, where ids do not tell it apart.
ReportsTell ==
    \A s, t \in Incoming :
        \/ s.account = t.account /\ t.ext # None /\ s.ext = t.ext
        \/ ContentOf(s) = ContentOf(t) /\ (s.ext = None \/ t.ext = None)
        => Describes[s] = Describes[t]

\* An id is of one movement in one status on one path; what has none has one
\* status for a content.
IdsTell ==
    \A s, t \in Incoming : s.account = t.account /\ s.ext = t.ext =>
        /\ t.ext # None => ContentOf(s) = ContentOf(t) /\ s.source = t.source
        /\ ContentOf(s) = ContentOf(t) => s.status = t.status

\* The payments of one amount come in windows apart from each other; in a window a
\* payment has one content in each status, a content one status and at most one
\* id, and no batch has a content twice.
WindowsTell ==
    /\ \A s, t, u \in Incoming : InWindow(s, t) /\ InWindow(t, u) => InWindow(s, u)
    /\ \A s, t \in Incoming : ContentOf(s) = ContentOf(t) =>
          /\ s.status = t.status
          /\ s.ext = None \/ t.ext = None \/ s.ext = t.ext
    /\ \A s, t \in Incoming :
          InWindow(s, t) /\ Describes[s] = Describes[t] /\ s.status = t.status =>
              ContentOf(s) = ContentOf(t)
    /\ \A b \in Batches : \A i \in DOMAIN b.seq : Occurrence(b.seq, i) = 1
=============================================================================
