------------------------------- MODULE Dedup -------------------------------
(***************************************************************************)
(* What the ledger decides about one incoming movement, before it writes   *)
(* anything: `Ledger._plan` of amonhen/ledger.py with the queries it makes *)
(* and the identities of amonhen/dedup.py.  Everything here is a function  *)
(* of the tables; module Ingest says when they are read and when they are  *)
(* written.                                                                *)
(*                                                                         *)
(* A movement keeps of its columns those that some decision compares.  A   *)
(* SHA-256 digest is the tuple it is computed from, because nothing in the *)
(* code looks inside one.                                                  *)
(***************************************************************************)
EXTENDS Integers, FiniteSets, Sequences

CONSTANTS
    Account,     \* the real accounts
    Text,        \* the wordings a bank or an export gives a movement
    Ext,         \* the identifiers a provider assigns
    Note,        \* what a person may write on a movement
    None,        \* the SQL NULL of a nullable column
    Incoming,    \* the reports that may reach the ledger
    Normalize    \* what normalize_description makes of each wording

\* models.py: TransactionStatus and SourceKind.  An amount is in cents.
Status == {"BOOK", "PDNG"}
Source == {"psd2", "import"}
IncomingTransaction ==
    [account: Account, date: Nat, amount: Int, text: Text,
     status: Status, source: Source, ext: Ext \cup {None}]

ASSUME IncomingAssumption == Incoming \subseteq IncomingTransaction
ASSUME NoneAssumption == None \notin Ext /\ None \notin Note
ASSUME NormalizeAssumption ==
    Normalize \in [Text -> Text] /\ \A x \in Text : Normalize[Normalize[x]] = Normalize[x]

\* ledger.py: PENDING_WINDOW_DAYS
PendingWindowDays == 3

-----------------------------------------------------------------------------
(* Identities.                                                             *)

Content == [account: Account, date: Nat, amount: Int, text: Text]
DigestType == [content: Content, occ: Nat \ {0}, ext: Ext \cup {None}]

ContentOf(t) ==
    [account |-> t.account, date |-> t.date, amount |-> t.amount,
     text |-> Normalize[t.text]]

\* content_hash, with the ":r<occurrence>" of a repeated content.  A third
\* field holds the ":<external id>" a second provider id on one content adds.
DigestOf(t, occ) == [content |-> ContentOf(t), occ |-> occ, ext |-> None]

\* COALESCE(external_id, content_hash): what a deletion or a hold is keyed by.
KeyOf(t, digest) == IF t.ext # None THEN <<"ext", t.ext>> ELSE <<"hash", digest>>
KeyType == ({"ext"} \X Ext) \cup ({"hash"} \X DigestType)

\* _numbered: the occurrence of a batch's i-th movement among its equals.
Occurrence(batch, i) ==
    Cardinality({j \in 1..i : ContentOf(batch[j]) = ContentOf(batch[i])})

-----------------------------------------------------------------------------
(* The tables.  A row of `transactions` is the movement that last wrote it, *)
(* its digest and the note of a person; a row of `deleted_transactions` is  *)
(* the same, copied; `held_transactions` keeps a movement as it arrived.    *)

RowType == [id: Nat \ {0}, txn: Incoming, digest: DigestType, note: Note \cup {None}]
GraveType == [key: KeyType, txn: Incoming, digest: DigestType,
              note: Note \cup {None}, restored: BOOLEAN]
HeldType == [key: KeyType, txn: Incoming, occ: Nat \ {0},
             decision: {"pending", "written", "discarded"}]
Tables == [rows: SUBSET RowType, graves: SUBSET GraveType, held: SUBSET HeldType,
           reimport: [Account -> BOOLEAN]]

EmptyTables == [rows |-> {}, graves |-> {}, held |-> {},
                reimport |-> [a \in Account |-> FALSE]]

-----------------------------------------------------------------------------
(* The lookups of _plan, in the order it makes them.                       *)

Near(s, t) == s.date - t.date <= PendingWindowDays /\ t.date - s.date <= PendingWindowDays
SameAmount(s, t) == s.account = t.account /\ s.amount = t.amount

FindByExternalId(rows, t) ==
    {r \in rows : t.ext # None /\ r.txn.account = t.account /\ r.txn.ext = t.ext}

\* ORDER BY id LIMIT 1
FindByContentHash(rows, digest) ==
    LET same == {r \in rows : r.digest = digest}
    IN  {r \in same : \A q \in same : r.id <= q.id}

\* Mutant: the window is lost, and only a twin of the same day is found.
FindOppositeStatusSameDay(rows, t) ==
    {r \in rows : SameAmount(r.txn, t) /\ r.txn.date = t.date /\ r.txn.status # t.status}

\* ORDER BY date LIMIT 1: between rows of one date SQLite may return either.
FindOppositeStatus(rows, t) ==
    LET twins == {r \in rows : /\ SameAmount(r.txn, t) /\ Near(r.txn, t)
                               /\ r.txn.status # t.status}
    IN  {r \in twins : \A q \in twins : r.txn.date <= q.txn.date}

\* The three ways a deletion recognises a movement.  restored_at is not read.
Buries(g, t, digest) ==
    /\ g.txn.account = t.account
    /\ \/ g.key = KeyOf(t, digest)
       \/ g.digest = digest /\ g.txn.source # t.source
       \/ SameAmount(g.txn, t) /\ Near(g.txn, t) /\ g.txn.status # t.status
Tombstones(graves, t, digest) == {g \in graves : Buries(g, t, digest)}

\* Same account, day and amount from the other ingest path.
ProbableDuplicate(rows, t) ==
    {r \in rows : SameAmount(r.txn, t) /\ r.txn.date = t.date /\ r.txn.source # t.source}

\* Mutant: the decided ones are not looked at.
HeldRowPending(held, t, digest) ==
    {h \in held : /\ h.txn.account = t.account /\ h.key = KeyOf(t, digest)
                  /\ h.decision = "pending"}

HeldRow(held, t, digest) ==
    {h \in held : h.txn.account = t.account /\ h.key = KeyOf(t, digest)}

-----------------------------------------------------------------------------
(* The plan: what to do, under which digest, on which row (0: none) and     *)
(* for which tombstone's sake.                                              *)

Action == {"inserted", "promoted", "duplicate", "suppressed", "reimported",
           "hold", "held", "discarded"}
PlanType == [action: Action, digest: DigestType, row: Nat,
             grave: KeyType \cup {None}]
Planned(action, digest) ==
    [action |-> action, digest |-> digest, row |-> 0, grave |-> None]

\* Mutants: a booked report promotes whatever it finds; or promotes nothing.
AbsorbRewriting(r, t, digest) ==
    [Planned(IF t.status = "BOOK" THEN "promoted" ELSE "duplicate", digest)
        EXCEPT !.row = r.id]
AbsorbNever(r, t, digest) == [Planned("duplicate", digest) EXCEPT !.row = r.id]

Absorb(r, t, digest) ==
    LET settles == r.txn.status = "PDNG" /\ t.status = "BOOK"
    IN  [Planned(IF settles THEN "promoted" ELSE "duplicate", digest) EXCEPT !.row = r.id]

\* Two provider ids on one content are two movements: the second one's digest
\* takes its id, which leaves the bare digest to the import path.
Distinct(r, t) == t.ext # None /\ r.txn.ext # None /\ r.txn.ext # t.ext

\* What _plan answers; more than one plan only where SQLite may choose.
Plans(tables, t, occ, restoring) ==
    LET base     == DigestOf(t, occ)
        known    == FindByExternalId(tables.rows, t)
        twins    == FindByContentHash(tables.rows, base)
        digest   == IF \E r \in twins : Distinct(r, t)
                    THEN [base EXCEPT !.ext = t.ext] ELSE base
        same     == {r \in twins : ~Distinct(r, t)}
        opposite == FindOppositeStatus(tables.rows, t)
        buried   == IF restoring THEN {} ELSE Tombstones(tables.graves, t, digest)
    IN  IF known # {} THEN {Absorb(r, t, base) : r \in known}
        ELSE IF same # {} THEN {Absorb(r, t, base) : r \in same}
        ELSE IF opposite # {} THEN {Absorb(r, t, digest) : r \in opposite}
        ELSE IF buried = {} THEN {Planned("inserted", digest)}
        ELSE IF ~tables.reimport[t.account] THEN {Planned("suppressed", digest)}
        ELSE {[Planned("reimported", digest) EXCEPT !.grave = g.key] : g \in buried}

\* record_batch(hold_probable=True): an insertion that resembles a row of the
\* other ingest path is set aside, once.
HoldIfProbable(tables, t, p) ==
    LET asked == HeldRow(tables.held, t, p.digest)
    IN  IF p.action # "inserted" \/ ProbableDuplicate(tables.rows, t) = {} THEN p
        ELSE IF asked = {} THEN [p EXCEPT !.action = "hold"]
        ELSE IF \E h \in asked : h.decision = "discarded"
             THEN [p EXCEPT !.action = "discarded"] ELSE [p EXCEPT !.action = "held"]
=============================================================================
