---------------------------- MODULE IngestProofs ----------------------------
(***************************************************************************)
(* Theorems about the write path of the ledger (module Ingest), for every  *)
(* set of accounts, reports, batches and connections.                      *)
(***************************************************************************)
EXTENDS Ingest, FiniteSetTheorems, WellFoundedInduction, TLAPS

-----------------------------------------------------------------------------
(* Fresh row ids.                                                          *)

\* The rows have a highest id: the tables are finite.
Bounded(s) == \E n \in Nat : \A r \in s.rows : r.id <= n

\* INTEGER PRIMARY KEY: with a highest id there is a next one, above them all.
LEMMA NextIdFresh ==
    ASSUME NEW s \in Tables, Bounded(s)
    PROVE  NextId(s.rows) \in Nat \ {0} /\ \A r \in s.rows : r.id < NextId(s.rows)
<1> DEFINE upper == {n \in Nat : \A r \in s.rows : r.id <= n}
           ids   == {r.id : r \in s.rows}
<1>1. \A r \in s.rows : r.id \in Nat \ {0}
  BY DEF Tables, RowType
<1>2. CASE s.rows = {}
  BY <1>2 DEF NextId
<1>3. CASE s.rows # {}
  <2>1. PICK m \in upper : \A y \in upper : ~(<<y, m>> \in OpToRel(<, Nat))
    <3>1. upper # {}
      BY DEF Bounded
    <3>2. QED
      BY <3>1, NatLessThanWellFounded, WFMin
  <2>2. \A y \in upper : ~(y < m)
    BY <2>1 DEF OpToRel
  <2>3. m \in ids
    <3>1. SUFFICES ASSUME m \notin ids PROVE FALSE
      OBVIOUS
    <3>2. \A r \in s.rows : r.id <= m - 1
      BY <1>1, <3>1
    <3>3. m - 1 \in Nat
      BY <1>1, <1>3, <3>2
    <3>4. QED
      BY <2>2, <3>2, <3>3
  <2>4. \E n \in ids : \A r \in s.rows : r.id <= n
    BY <2>3
  <2>5. QED
    BY <1>1, <1>3, <2>4 DEF NextId
<1>4. QED
  BY <1>2, <1>3

-----------------------------------------------------------------------------
(* What a plan is made of.                                                 *)

LEMMA IncomingTyped == ASSUME NEW t \in Incoming PROVE t \in IncomingTransaction
BY IncomingAssumption

LEMMA DigestTyped ==
    ASSUME NEW t \in Incoming, NEW occ \in Nat \ {0}
    PROVE  DigestOf(t, occ) \in DigestType
BY IncomingTyped, NormalizeAssumption DEF DigestOf, ContentOf, DigestType, Content, IncomingTransaction

LEMMA KeyTyped ==
    ASSUME NEW t \in Incoming, NEW digest \in DigestType
    PROVE  KeyOf(t, digest) \in KeyType
BY IncomingTyped DEF KeyOf, KeyType, IncomingTransaction

\* _numbered counts from one.
LEMMA OccurrencePositive ==
    ASSUME NEW batch \in Seq(Incoming), NEW i \in 1..Len(batch)
    PROVE  Occurrence(batch, i) \in Nat \ {0}
<1> DEFINE equals == {j \in 1..i : ContentOf(batch[j]) = ContentOf(batch[i])}
<1>1. IsFiniteSet(1..i)
  BY FS_Interval
<1>2. IsFiniteSet(equals)
  BY <1>1, FS_Subset
<1>3. i \in equals
  BY DEF equals
<1>4. Cardinality(equals) \in Nat /\ Cardinality(equals) # 0
  BY <1>2, <1>3, FS_CardinalityType, FS_EmptySet
<1>5. QED
  BY <1>4 DEF Occurrence

\* One row under an id and under a bank's identifier; one tombstone, and one held
\* movement, under a key.
Unambiguous(s) ==
    /\ \A q, r \in s.rows : q.id = r.id => q = r
    /\ \A q, r \in s.rows :
          q.txn.ext # None /\ q.txn.ext = r.txn.ext /\ q.txn.account = r.txn.account => q = r
    /\ \A f, g \in s.graves : RefOf(f) = RefOf(g) => f = g
    /\ \A h, k \in s.held : RefOf(h) = RefOf(k) => h = k

\* The tombstone a reimport is for is in the table it was read from.
GraveKnown(s, t, p) ==
    p.action = "reimported" => \E g \in s.graves : Named(g, <<t.account, p.grave>>)

LEMMA AbsorbPlan ==
    ASSUME NEW s \in Tables, Unambiguous(s), NEW t \in Incoming, NEW r \in s.rows,
           NEW digest \in DigestType,
           r \in FindByExternalId(s.rows, t) \/ FindByExternalId(s.rows, t) = {}
    PROVE  LET p == Absorb(r, t, digest)
           IN  p \in PlanType /\ PlanHolds(s, t, p) /\ GraveKnown(s, t, p)
<1> DEFINE p == Absorb(r, t, digest)
<1>1. p \in PlanType /\ p.row = r.id /\ p.action \in {"promoted", "duplicate"}
  BY DEF Absorb, Planned, PlanType, Action, Tables, RowType
<1>2. p.action = "promoted" => r.txn.status = "PDNG"
  BY DEF Absorb, Planned
<1>3. ~ExtTaken(s, t, r.id)
  BY DEF ExtTaken, FindByExternalId, Unambiguous
<1>4. \A q \in s.rows : q.id = r.id => q = r
  BY DEF Unambiguous
<1>5. QED
  BY <1>1, <1>2, <1>3, <1>4 DEF PlanHolds, GraveKnown

\* Every answer of _plan is a plan, and holds of the tables it was made from.
LEMMA PlansHold ==
    ASSUME NEW s \in Tables, Unambiguous(s), NEW t \in Incoming, NEW occ \in Nat \ {0},
           NEW restoring \in BOOLEAN, NEW p \in Plans(s, t, occ, restoring)
    PROVE  p \in PlanType /\ PlanHolds(s, t, p) /\ GraveKnown(s, t, p)
<1> DEFINE base     == DigestOf(t, occ)
           known    == FindByExternalId(s.rows, t)
           twins    == FindByContentHash(s.rows, base)
           digest   == IF \E r \in twins : Distinct(r, t)
                       THEN [base EXCEPT !.ext = t.ext] ELSE base
           same     == {r \in twins : ~Distinct(r, t)}
           opposite == FindOppositeStatus(s.rows, t)
           buried   == IF restoring THEN {} ELSE Tombstones(s.graves, t, digest)
<1>1. base \in DigestType /\ digest \in DigestType
  BY DigestTyped, IncomingTyped DEF DigestType, IncomingTransaction
<1>2. known \subseteq s.rows /\ same \subseteq s.rows /\ opposite \subseteq s.rows
  BY DEF FindByExternalId, FindByContentHash, FindOppositeStatus
<1>3. CASE known # {}
  <2>1. PICK r \in known : p = Absorb(r, t, base)
    BY <1>3 DEF Plans
  <2>2. QED
    BY <1>1, <1>2, <2>1, AbsorbPlan
<1>4. CASE known = {} /\ same # {}
  <2>1. PICK r \in same : p = Absorb(r, t, base)
    BY <1>4 DEF Plans
  <2>2. QED
    BY <1>1, <1>2, <1>4, <2>1, AbsorbPlan
<1>5. CASE known = {} /\ same = {} /\ opposite # {}
  <2>1. PICK r \in opposite : p = Absorb(r, t, digest)
    BY <1>5 DEF Plans
  <2>2. QED
    BY <1>1, <1>2, <1>5, <2>1, AbsorbPlan
<1>6. CASE known = {} /\ same = {} /\ opposite = {}
  <2>1. \/ p \in {Planned("inserted", digest), Planned("suppressed", digest)}
        \/ \E g \in buried : p = [Planned("reimported", digest) EXCEPT !.grave = g.key]
    BY <1>6 DEF Plans
  <2>2. ~ExtTaken(s, t, 0)
    BY <1>6 DEF ExtTaken, FindByExternalId
  <2>3. CASE p \in {Planned("inserted", digest), Planned("suppressed", digest)}
    BY <1>1, <2>2, <2>3 DEF Planned, PlanType, Action, PlanHolds, GraveKnown
  <2>4. ASSUME NEW g \in buried, p = [Planned("reimported", digest) EXCEPT !.grave = g.key]
        PROVE  p \in PlanType /\ PlanHolds(s, t, p) /\ GraveKnown(s, t, p)
    <3>1. g \in s.graves /\ Named(g, <<t.account, g.key>>)
      BY DEF Tombstones, Buries, Named
    <3>2. g.key \in KeyType
      BY <3>1 DEF Tables, GraveType
    <3>3. p \in PlanType /\ p.action = "reimported" /\ p.grave = g.key
      BY <1>1, <2>4, <3>2 DEF Planned, PlanType, Action
    <3>4. QED
      BY <2>2, <3>1, <3>3 DEF PlanHolds, GraveKnown
  <2>5. QED
    BY <2>1, <2>3, <2>4
<1>7. QED
  BY <1>3, <1>4, <1>5, <1>6

\* A period turns some insertions into questions, which were not asked before.
LEMMA HoldIfProbableHolds ==
    ASSUME NEW s \in Tables, NEW t \in Incoming, NEW p \in PlanType,
           PlanHolds(s, t, p), GraveKnown(s, t, p)
    PROVE  LET q == HoldIfProbable(s, t, p)
           IN  q \in PlanType /\ PlanHolds(s, t, q) /\ GraveKnown(s, t, q)
<1> DEFINE q == HoldIfProbable(s, t, p)
<1>1. \/ q = p
      \/ q = [p EXCEPT !.action = "hold"] /\ HeldRow(s.held, t, p.digest) = {}
      \/ q = [p EXCEPT !.action = "discarded"]
      \/ q = [p EXCEPT !.action = "held"]
  BY DEF HoldIfProbable
<1>2. CASE q = p
  BY <1>2
<1>3. CASE q # p
  <2>1. q \in PlanType /\ q.digest = p.digest /\ q.action \in {"hold", "discarded", "held"}
    BY <1>1, <1>3 DEF PlanType, Action
  <2>2. q.action = "hold" => HeldRow(s.held, t, p.digest) = {}
    BY <1>1, <1>3 DEF PlanType
  <2>3. QED
    BY <2>1, <2>2 DEF PlanHolds, GraveKnown
<1>4. QED
  BY <1>2, <1>3

-----------------------------------------------------------------------------
(* What each statement preserves.                                          *)

Sound(s) == s \in Tables /\ Bounded(s) /\ Unambiguous(s)

\* From one state of the tables to another, no note is lost, no settled row
\* rewritten and no tombstone forgotten.
KeepsNotes(s, z) ==
    \A r \in s.rows : r.note # None => \E q \in z.rows : q.id = r.id /\ q.note = r.note
KeepsSettled(s, z) ==
    \A r \in s.rows : r.txn.status = "BOOK" =>
        \E q \in z.rows : q.id = r.id /\ q.txn = r.txn /\ q.digest = r.digest
KeepsGraves(s, z) ==
    \A g \in s.graves : \E f \in z.graves : RefOf(f) = RefOf(g)

LEMMA InsertRowSound ==
    ASSUME NEW s, Sound(s), NEW t \in Incoming, NEW digest \in DigestType,
           NEW note \in Note \cup {None}, ~ExtTaken(s, t, 0)
    PROVE  LET z == InsertRow(s, t, digest, note)
           IN  Sound(z) /\ s.rows \subseteq z.rows /\ z.graves = s.graves /\ z.held = s.held
<1> DEFINE z   == InsertRow(s, t, digest, note)
           new == [id |-> NextId(s.rows), txn |-> t, digest |-> digest, note |-> note]
<1>1. NextId(s.rows) \in Nat \ {0} /\ \A r \in s.rows : r.id < NextId(s.rows)
  BY NextIdFresh DEF Sound
<1>2. s \in Tables
  BY DEF Sound
<1>3. /\ z.rows = s.rows \cup {new} /\ z.graves = s.graves
      /\ z.held = s.held /\ z.reimport = s.reimport
  BY <1>2 DEF InsertRow, Tables
<1>4. new \in RowType
  BY <1>1 DEF RowType
<1>5. z \in Tables
  BY <1>2, <1>4 DEF InsertRow, Tables
<1>6. Bounded(z)
  BY <1>1, <1>2, <1>3 DEF Bounded, Tables, RowType
<1>7. Unambiguous(z)
  <2>1. \A r \in s.rows : r.id # 0 /\ r.id # new.id
    BY <1>1, <1>2 DEF Tables, RowType
  <2>2. \A r \in s.rows : ~(t.ext # None /\ r.txn.account = t.account /\ r.txn.ext = t.ext)
    BY <2>1 DEF ExtTaken
  <2>3. \A q, r \in z.rows : q.id = r.id => q = r
    BY <1>3, <2>1 DEF Sound, Unambiguous
  <2>4. \A q, r \in z.rows : q.txn.ext # None /\ q.txn.ext = r.txn.ext
                               /\ q.txn.account = r.txn.account => q = r
    BY <1>3, <2>2 DEF Sound, Unambiguous
  <2>5. QED
    BY <1>3, <2>3, <2>4 DEF Sound, Unambiguous
<1>8. QED
  BY <1>3, <1>5, <1>6, <1>7 DEF Sound

LEMMA PromoteRowSound ==
    ASSUME NEW s, Sound(s), NEW t \in Incoming, NEW digest \in DigestType,
           NEW id \in Nat, ~ExtTaken(s, t, id)
    PROVE  LET z == PromoteRow(s, id, t, digest)
           IN  /\ Sound(z) /\ KeepsNotes(s, z) /\ z.graves = s.graves /\ z.held = s.held
               /\ (\A r \in s.rows : r.id = id => r.txn.status = "PDNG") => KeepsSettled(s, z)
<1> DEFINE Image(r) == IF r.id = id THEN [r EXCEPT !.txn = t, !.digest = digest] ELSE r
           z == PromoteRow(s, id, t, digest)
<1>1. s \in Tables
  BY DEF Sound
<1>2. /\ z.rows = {Image(r) : r \in s.rows} /\ z.graves = s.graves
      /\ z.held = s.held /\ z.reimport = s.reimport
  BY <1>1 DEF PromoteRow, Tables
<1>3. \A r \in s.rows : /\ Image(r) \in RowType /\ Image(r).id = r.id /\ Image(r).note = r.note
                        /\ r.id = id => Image(r).txn = t
                        /\ r.id # id => Image(r) = r
  BY <1>1 DEF Tables, RowType
<1> HIDE DEF Image
<1>4. z \in Tables
  <2>1. z.rows \in SUBSET RowType
    BY <1>2, <1>3
  <2>2. QED
    BY <1>1, <2>1 DEF PromoteRow, Tables
<1>5. Bounded(z)
  BY <1>2, <1>3 DEF Sound, Bounded
<1>6. Unambiguous(z)
  <2>1. \A q, r \in s.rows : q.id = r.id => q = r
    BY DEF Sound, Unambiguous
  <2>2. \A q, r \in z.rows : q.id = r.id => q = r
    BY <1>2, <1>3, <2>1
  <2>3. ASSUME NEW q \in s.rows, NEW r \in s.rows, Image(q).txn.ext # None,
               Image(q).txn.ext = Image(r).txn.ext, Image(q).txn.account = Image(r).txn.account
        PROVE  q = r
    <3>1. CASE q.id = id /\ r.id = id
      BY <2>1, <3>1
    <3>2. CASE q.id = id /\ r.id # id
      BY <1>3, <2>3, <3>2 DEF ExtTaken
    <3>3. CASE q.id # id /\ r.id = id
      BY <1>3, <2>3, <3>3 DEF ExtTaken
    <3>4. CASE q.id # id /\ r.id # id
      BY <1>3, <2>3, <3>4 DEF Sound, Unambiguous
    <3>5. QED
      BY <3>1, <3>2, <3>3, <3>4
  <2>4. \A q, r \in z.rows : q.txn.ext # None /\ q.txn.ext = r.txn.ext
                               /\ q.txn.account = r.txn.account => q = r
    BY <1>2, <2>3
  <2>5. QED
    BY <1>2, <2>2, <2>4 DEF Sound, Unambiguous
<1>7. KeepsNotes(s, z)
  BY <1>2, <1>3 DEF KeepsNotes
<1>8. (\A r \in s.rows : r.id = id => r.txn.status = "PDNG") => KeepsSettled(s, z)
  BY <1>2, <1>3 DEF KeepsSettled
<1>9. QED
  BY <1>2, <1>4, <1>5, <1>6, <1>7, <1>8 DEF Sound

LEMMA SetRestoredSound ==
    ASSUME NEW s, Sound(s), NEW ref
    PROVE  LET z == SetRestored(s, ref)
           IN  Sound(z) /\ KeepsGraves(s, z) /\ z.rows = s.rows /\ z.held = s.held
<1> DEFINE Image(g) == IF Named(g, ref) THEN [g EXCEPT !.restored = TRUE] ELSE g
           z == SetRestored(s, ref)
<1>1. s \in Tables
  BY DEF Sound
<1>2. /\ z.graves = {Image(g) : g \in s.graves} /\ z.rows = s.rows
      /\ z.held = s.held /\ z.reimport = s.reimport
  BY <1>1 DEF SetRestored, Tables
<1>3. \A g \in s.graves : Image(g) \in GraveType /\ RefOf(Image(g)) = RefOf(g)
  BY <1>1 DEF Tables, GraveType, RefOf
<1> HIDE DEF Image
<1>4. z.graves \in SUBSET GraveType
  BY <1>2, <1>3
<1>5. z \in Tables
  BY <1>1, <1>4 DEF SetRestored, Tables
<1>6. \A f, g \in z.graves : RefOf(f) = RefOf(g) => f = g
  BY <1>2, <1>3 DEF Sound, Unambiguous
<1>7. Unambiguous(z) /\ Bounded(z)
  BY <1>2, <1>6 DEF Sound, Unambiguous, Bounded
<1>8. KeepsGraves(s, z)
  BY <1>2, <1>3 DEF KeepsGraves
<1>9. QED
  BY <1>2, <1>5, <1>7, <1>8 DEF Sound

LEMMA SetNoteSound ==
    ASSUME NEW s, Sound(s), NEW id, NEW note \in Note \cup {None}
    PROVE  LET z == SetNoteOf(s, id, note)
           IN  /\ Sound(z) /\ z.graves = s.graves /\ z.held = s.held /\ KeepsSettled(s, z)
               /\ \A r \in s.rows : r.id # id => r \in z.rows
               /\ \A r \in s.rows : \E q \in z.rows : q.id = r.id /\ q.txn = r.txn
               /\ \A q \in z.rows : \E r \in s.rows : q.id = r.id /\ q.txn = r.txn
<1> DEFINE Image(r) == IF r.id = id THEN [r EXCEPT !.note = note] ELSE r
           z == SetNoteOf(s, id, note)
<1>1. s \in Tables
  BY DEF Sound
<1>2. /\ z.rows = {Image(r) : r \in s.rows} /\ z.graves = s.graves
      /\ z.held = s.held /\ z.reimport = s.reimport
  BY <1>1 DEF SetNoteOf, Tables
<1>3. \A r \in s.rows : /\ Image(r) \in RowType /\ Image(r).id = r.id
                        /\ Image(r).txn = r.txn /\ Image(r).digest = r.digest
                        /\ r.id # id => Image(r) = r
  BY <1>1 DEF Tables, RowType
<1> HIDE DEF Image
<1>4. z.rows \in SUBSET RowType
  BY <1>2, <1>3
<1>5. z \in Tables
  BY <1>1, <1>4 DEF SetNoteOf, Tables
<1>6. /\ \A q, r \in z.rows : q.id = r.id => q = r
      /\ \A q, r \in z.rows : q.txn.ext # None /\ q.txn.ext = r.txn.ext
                                /\ q.txn.account = r.txn.account => q = r
  BY <1>2, <1>3 DEF Sound, Unambiguous
<1>7. Unambiguous(z) /\ Bounded(z)
  BY <1>2, <1>3, <1>6 DEF Sound, Unambiguous, Bounded
<1>8. KeepsSettled(s, z)
  BY <1>2, <1>3 DEF KeepsSettled
<1>9. QED
  BY <1>2, <1>3, <1>5, <1>7, <1>8 DEF Sound

LEMMA HoldRowSound ==
    ASSUME NEW s, Sound(s), NEW t \in Incoming, NEW occ \in Nat \ {0},
           NEW digest \in DigestType, HeldRow(s.held, t, digest) = {}
    PROVE  LET z == HoldRow(s, t, occ, digest)
           IN  Sound(z) /\ z.rows = s.rows /\ z.graves = s.graves
<1> DEFINE new == [key |-> KeyOf(t, digest), txn |-> t, occ |-> occ, decision |-> "pending"]
           z == HoldRow(s, t, occ, digest)
<1>1. s \in Tables
  BY DEF Sound
<1>2. new \in HeldType
  BY KeyTyped DEF HeldType
<1>3. /\ z.held = s.held \cup {new} /\ z.rows = s.rows
      /\ z.graves = s.graves /\ z.reimport = s.reimport
  BY <1>1 DEF HoldRow, Tables
<1>4. z \in Tables
  BY <1>1, <1>2 DEF HoldRow, Tables
<1>5. \A h \in s.held : RefOf(h) # RefOf(new)
  BY DEF HeldRow, RefOf
<1>6. \A h, k \in z.held : RefOf(h) = RefOf(k) => h = k
  BY <1>3, <1>5 DEF Sound, Unambiguous
<1>7. Unambiguous(z) /\ Bounded(z)
  BY <1>3, <1>6 DEF Sound, Unambiguous, Bounded
<1>8. QED
  BY <1>3, <1>4, <1>7 DEF Sound

LEMMA SetDecisionSound ==
    ASSUME NEW s, Sound(s), NEW ref, NEW decision \in {"written", "discarded"}
    PROVE  LET z == SetDecision(s, ref, decision)
           IN  /\ Sound(z) /\ z.rows = s.rows /\ z.graves = s.graves
               /\ {RefOf(h) : h \in z.held} = {RefOf(h) : h \in s.held}
<1> DEFINE Image(h) == IF Named(h, ref) THEN [h EXCEPT !.decision = decision] ELSE h
           z == SetDecision(s, ref, decision)
<1>1. s \in Tables
  BY DEF Sound
<1>2. /\ z.held = {Image(h) : h \in s.held} /\ z.rows = s.rows
      /\ z.graves = s.graves /\ z.reimport = s.reimport
  BY <1>1 DEF SetDecision, Tables
<1>3. \A h \in s.held : Image(h) \in HeldType /\ RefOf(Image(h)) = RefOf(h)
  BY <1>1 DEF Tables, HeldType, RefOf
<1> HIDE DEF Image
<1>4. z.held \in SUBSET HeldType
  BY <1>2, <1>3
<1>5. z \in Tables
  BY <1>1, <1>4 DEF SetDecision, Tables
<1>6. \A h, k \in z.held : RefOf(h) = RefOf(k) => h = k
  BY <1>2, <1>3 DEF Sound, Unambiguous
<1>7. Unambiguous(z) /\ Bounded(z)
  BY <1>2, <1>6 DEF Sound, Unambiguous, Bounded
<1>8. {RefOf(h) : h \in z.held} = {RefOf(h) : h \in s.held}
  BY <1>2, <1>3
<1>9. QED
  BY <1>2, <1>5, <1>7, <1>8 DEF Sound

LEMMA DeleteRowSound ==
    ASSUME NEW s, Sound(s), NEW r \in s.rows
    PROVE  LET z == DeleteRow(s, r)
           IN  /\ Sound(z) /\ KeepsGraves(s, z) /\ z.held = s.held
               /\ z.rows = s.rows \ {r} /\ Grave(r) \in z.graves
<1> DEFINE g == Grave(r)
           z == DeleteRow(s, r)
<1>1. s \in Tables
  BY DEF Sound
<1>2. g \in GraveType
  BY <1>1, KeyTyped DEF Grave, GraveType, Tables, RowType
<1>3. /\ z.graves = {f \in s.graves : ~Named(f, RefOf(g))} \cup {g} /\ z.rows = s.rows \ {r}
      /\ z.held = s.held /\ z.reimport = s.reimport
  BY <1>1 DEF DeleteRow, Tables
<1>4. z \in Tables
  BY <1>1, <1>2 DEF DeleteRow, Tables
<1>5. \A f \in s.graves : Named(f, RefOf(g)) <=> RefOf(f) = RefOf(g)
  BY DEF Named, RefOf
<1>6. \A e, f \in z.graves : RefOf(e) = RefOf(f) => e = f
  BY <1>3, <1>5 DEF Sound, Unambiguous
<1>7. Unambiguous(z) /\ Bounded(z)
  BY <1>3, <1>6 DEF Sound, Unambiguous, Bounded
<1>8. KeepsGraves(s, z)
  BY <1>3, <1>5 DEF KeepsGraves
<1>9. QED
  BY <1>3, <1>4, <1>7, <1>8 DEF Sound

\* _carry_out and _hold of a plan no constraint refuses.
LEMMA WrittenSound ==
    ASSUME NEW s, Sound(s), NEW t \in Incoming, NEW occ \in Nat \ {0}, NEW p \in PlanType,
           p.action \in Writes, ~Refused(s, t, p), GraveKnown(s, t, p)
    PROVE  LET z == Written(s, t, occ, p)
           IN  /\ Sound(z) /\ KeepsNotes(s, z) /\ KeepsGraves(s, z)
               /\ PlanHolds(s, t, p) => KeepsSettled(s, z)
<1> DEFINE z == Written(s, t, occ, p)
<1>1. p.digest \in DigestType /\ p.row \in Nat
  BY DEF PlanType
<1>2. CASE p.action = "inserted"
  <2>1. z = InsertRow(s, t, p.digest, None) /\ ~ExtTaken(s, t, 0)
    BY <1>2 DEF Written, Refused
  <2>2. QED
    BY <1>1, <2>1, InsertRowSound DEF KeepsNotes, KeepsGraves, KeepsSettled
<1>3. CASE p.action = "promoted"
  <2>1. z = PromoteRow(s, p.row, t, p.digest) /\ ~ExtTaken(s, t, p.row)
    BY <1>3 DEF Written, Refused
  <2>2. QED
    BY <1>1, <1>3, <2>1, PromoteRowSound DEF KeepsGraves, PlanHolds
<1>4. CASE p.action = "reimported"
  <2> DEFINE ref  == <<t.account, p.grave>>
             note == (CHOOSE g \in s.graves : Named(g, ref)).note
             y    == InsertRow(s, t, p.digest, note)
  <2>1. z = SetRestored(y, ref) /\ ~ExtTaken(s, t, 0)
    BY <1>4 DEF Written, Refused, Reimport
  <2>2. (CHOOSE g \in s.graves : Named(g, ref)) \in s.graves
    BY <1>4 DEF GraveKnown
  <2>3. note \in Note \cup {None}
    BY <2>2 DEF Sound, Tables, GraveType
  <2>4. Sound(y) /\ s.rows \subseteq y.rows /\ y.graves = s.graves
    <3>1. \A n \in Note \cup {None} :
             LET x == InsertRow(s, t, p.digest, n)
             IN  Sound(x) /\ s.rows \subseteq x.rows /\ x.graves = s.graves
      BY <1>1, <2>1, InsertRowSound
    <3> HIDE DEF note
    <3>2. QED
      BY <2>3, <3>1
  <2>5. Sound(z) /\ KeepsGraves(y, z) /\ z.rows = y.rows
    BY <2>1, <2>4, SetRestoredSound
  <2>6. QED
    BY <2>4, <2>5 DEF KeepsNotes, KeepsGraves, KeepsSettled
<1>5. CASE p.action = "hold"
  <2>1. z = HoldRow(s, t, occ, p.digest) /\ HeldRow(s.held, t, p.digest) = {}
    BY <1>5 DEF Written, Refused
  <2>2. QED
    BY <1>1, <2>1, HoldRowSound DEF KeepsNotes, KeepsGraves, KeepsSettled
<1>6. QED
  BY <1>2, <1>3, <1>4, <1>5 DEF Writes

-----------------------------------------------------------------------------
(* The inductive invariant, for any number of connections.                 *)

\* Outside a transaction there is one state of the tables; only a batch or a
\* decision keeps a transaction open from one step to the next.
LockInv ==
    /\ lock = None => work = db
    /\ lock # None => job[lock].kind \in {"batch", "write", "discard"}

\* What a transaction has written so far loses nothing of what is committed.
WorkInv == KeepsNotes(db, work) /\ KeepsGraves(db, work)

\* A plan is for a movement, and its tombstone, if any, can be read.
PlanFits(w) ==
    /\ job[w].kind # "idle" /\ job[w].pos <= Len(job[w].seq)
    /\ GraveKnown(View(w), Movement(w), job[w].plan)
PlanInv == \A w \in Writer : Carrying(w) => PlanFits(w)

IInv == TypeOK /\ Sound(db) /\ Sound(work) /\ LockInv /\ WorkInv /\ PlanInv

LEMMA KeepsTransitive ==
    ASSUME NEW s, NEW y, NEW z
    PROVE  /\ KeepsNotes(s, y) /\ KeepsNotes(y, z) => KeepsNotes(s, z)
           /\ KeepsGraves(s, y) /\ KeepsGraves(y, z) => KeepsGraves(s, z)
           /\ KeepsSettled(s, y) /\ KeepsSettled(y, z) => KeepsSettled(s, z)
           /\ KeepsNotes(s, s) /\ KeepsGraves(s, s) /\ KeepsSettled(s, s)
<1>1. KeepsNotes(s, y) /\ KeepsNotes(y, z) => KeepsNotes(s, z)
  BY DEF KeepsNotes
<1>2. KeepsGraves(s, y) /\ KeepsGraves(y, z) => KeepsGraves(s, z)
  BY DEF KeepsGraves
<1>3. KeepsSettled(s, y) /\ KeepsSettled(y, z) => KeepsSettled(s, z)
  BY DEF KeepsSettled
<1>4. QED
  BY <1>1, <1>2, <1>3 DEF KeepsNotes, KeepsGraves, KeepsSettled

\* A tombstone that could be read can be read as long as none is forgotten.
LEMMA GraveStaysKnown ==
    ASSUME NEW s, NEW z, NEW t, NEW p, KeepsGraves(s, z), GraveKnown(s, t, p)
    PROVE  GraveKnown(z, t, p)
BY DEF KeepsGraves, GraveKnown, Named, RefOf

LEMMA IdleTyped == Idle \in JobType /\ Idle.kind = "idle" /\ Idle.plan = NoPlan
<1>1. <<>> \in Seq(Incoming)
  OBVIOUS
<1>2. QED
  BY <1>1 DEF Idle, JobType

\* The request to write or to discard a held movement.
LEMMA DecidingTyped ==
    ASSUME NEW h \in HeldType, NEW kind \in {"write", "discard"}
    PROVE  LET j == Deciding(h, kind)
           IN  /\ j \in JobType /\ j.plan = NoPlan /\ j.pos = 1 /\ j.hold = FALSE
               /\ j.kind = kind /\ j.ref = RefOf(h) /\ j.occ = h.occ /\ j.note = None
               /\ j.seq = <<h.txn>> \/ j.seq = <<>>
               /\ j.ref \in Account \X KeyType
<1> DEFINE seq == IF kind = "write" THEN <<h.txn>> ELSE <<>>
           j   == Deciding(h, kind)
<1>1. seq \in Seq(Incoming) /\ h.occ \in Nat \ {0}
  BY DEF HeldType
<1>2. RefOf(h) \in Account \X KeyType
  BY IncomingTyped DEF RefOf, HeldType, IncomingTransaction
<1>3. j = [Idle EXCEPT !.kind = kind, !.seq = seq, !.ref = RefOf(h), !.occ = h.occ]
  BY DEF Deciding
<1>4. seq = <<h.txn>> \/ seq = <<>>
  OBVIOUS
<1>5. Idle.pos = 1 /\ Idle.hold = FALSE /\ Idle.note = None
  BY DEF Idle
<1> HIDE DEF seq, j
<1>6. j \in JobType /\ j.plan = NoPlan /\ j.pos = 1 /\ j.hold = FALSE /\ j.kind = kind
      /\ j.ref = RefOf(h) /\ j.occ = h.occ /\ j.note = None /\ j.seq = seq
  BY <1>1, <1>2, <1>3, <1>5, IdleTyped DEF JobType
<1>7. QED
  BY <1>2, <1>4, <1>6 DEF j

LEMMA PlanIsNotNoPlan == ASSUME NEW p \in PlanType PROVE p # NoPlan
BY DEF PlanType, NoPlan, Planned, Action

\* What a connection carries is a typed plan for a reported movement.
LEMMA CarriedTyped ==
    ASSUME IInv, NEW w \in Writer, Carrying(w)
    PROVE  /\ Movement(w) \in Incoming /\ job[w].plan \in PlanType
           /\ OccurrenceAt(job[w]) \in Nat \ {0} /\ Sound(View(w))
           /\ KeepsNotes(db, View(w)) /\ KeepsGraves(db, View(w))
<1>1. job[w] \in JobType /\ job[w].plan # NoPlan /\ job[w].pos <= Len(job[w].seq)
  BY DEF IInv, TypeOK, PlanInv, PlanFits, Carrying
<1>2. job[w].seq \in Seq(Incoming) /\ job[w].pos \in 1..Len(job[w].seq)
  BY <1>1 DEF JobType
<1>3. Movement(w) \in Incoming
  BY <1>2 DEF Movement
<1>4. OccurrenceAt(job[w]) \in Nat \ {0}
  BY <1>1, <1>2, OccurrencePositive DEF OccurrenceAt, JobType
<1>5. Sound(View(w)) /\ KeepsNotes(db, View(w)) /\ KeepsGraves(db, View(w))
  BY KeepsTransitive DEF IInv, View, WorkInv
<1>6. QED
  BY <1>1, <1>3, <1>4, <1>5 DEF JobType

\* The plan of a connection that does not move goes on fitting.
LEMMA PlanGoesOnFitting ==
    ASSUME IInv, NEW v \in Writer, job'[v] = job[v], KeepsGraves(View(v), View(v)')
    PROVE  Carrying(v)' => PlanFits(v)'
<1>1. SUFFICES ASSUME Carrying(v) PROVE PlanFits(v)'
  BY DEF Carrying
<1>2. PlanFits(v)
  BY <1>1 DEF IInv, PlanInv
<1>3. Movement(v)' = Movement(v)
  BY DEF Movement
<1>4. GraveKnown(View(v)', Movement(v), job[v].plan)
  BY <1>2, GraveStaysKnown DEF PlanFits
<1>5. QED
  BY <1>2, <1>3, <1>4 DEF PlanFits

\* A step of one connection's job that leaves the tables alone.
LEMMA JobStep ==
    ASSUME IInv, NEW w \in Writer, NEW j \in JobType, job' = [job EXCEPT ![w] = j],
           UNCHANGED <<db, work, lock>>, reported' \subseteq Incoming,
           started' \in Nat, edited' \in Nat,
           lock = w => j.kind \in {"batch", "write", "discard"},
           j.plan # NoPlan =>
              /\ j.kind # "idle" /\ j.pos <= Len(j.seq)
              /\ GraveKnown(View(w), j.seq[j.pos], j.plan)
    PROVE  IInv'
<1>1. TypeOK'
  BY DEF IInv, TypeOK
<1>2. Sound(db)' /\ Sound(work)' /\ WorkInv'
  BY DEF IInv, Sound, WorkInv, KeepsNotes, KeepsGraves
<1>3. job'[w] = j /\ \A v \in Writer : v # w => job'[v] = job[v]
  BY DEF IInv, TypeOK
<1>4. LockInv'
  BY <1>3 DEF IInv, LockInv, TypeOK
<1>5. \A v \in Writer : View(v)' = View(v)
  BY DEF View
<1>6. PlanInv'
  <2>1. SUFFICES ASSUME NEW v \in Writer, Carrying(v)' PROVE PlanFits(v)'
    BY DEF PlanInv
  <2>2. CASE v = w
    BY <1>3, <1>5, <2>1, <2>2 DEF Carrying, PlanFits, Movement
  <2>3. CASE v # w
    BY <1>3, <1>5, <2>1, <2>3, PlanGoesOnFitting, KeepsTransitive
  <2>4. QED
    BY <2>2, <2>3
<1>7. QED
  BY <1>1, <1>2, <1>4, <1>6 DEF IInv

LEMMA BeginStep ==
    ASSUME IInv, NEW w \in Writer, NEW j \in JobType, j.plan = NoPlan, Begin(w, j)
    PROVE  IInv'
<1>1. lock # w
  BY WriterAssumption DEF Begin, IInv, LockInv
<1>2. reported' \subseteq Incoming /\ started' \in Nat /\ edited' \in Nat
  BY DEF Begin, IInv, TypeOK
<1>3. UNCHANGED <<db, work, lock>> /\ job' = [job EXCEPT ![w] = j]
  BY DEF Begin
<1>4. QED
  BY <1>1, <1>2, <1>3, JobStep

LEMMA StartStep ==
    ASSUME IInv, NEW w \in Writer, StartBatch(w) \/ StartRestore(w) \/ StartDecision(w)
    PROVE  IInv'
<1>1. View(w) \in Tables
  BY DEF IInv, Sound, View
<1>2. CASE StartBatch(w)
  <2>1. PICK b \in Batches :
           Begin(w, [Idle EXCEPT !.kind = "batch", !.seq = b.seq, !.hold = b.hold])
    BY <1>2 DEF StartBatch
  <2>2. b.seq \in Seq(Incoming) /\ b.hold \in BOOLEAN
    BY BatchesAssumption
  <2>3. QED
    BY <2>1, <2>2, IdleTyped, BeginStep DEF JobType
<1>3. CASE StartRestore(w)
  <2>1. PICK g \in View(w).graves :
           Begin(w, [Idle EXCEPT !.kind = "restore", !.seq = <<MovementOf(g)>>,
                                 !.ref = RefOf(g), !.note = g.note])
    BY <1>3 DEF StartRestore
  <2>2. g \in GraveType
    BY <1>1 DEF Tables
  <2>3. <<MovementOf(g)>> \in Seq(Incoming) /\ g.note \in Note \cup {None}
    BY <2>2 DEF MovementOf, GraveType
  <2>4. RefOf(g) \in Account \X KeyType
    BY <2>2, IncomingTyped DEF RefOf, GraveType, IncomingTransaction
  <2>5. QED
    BY <2>1, <2>3, <2>4, IdleTyped, BeginStep DEF JobType
<1>4. CASE StartDecision(w)
  <2>1. PICK h \in View(w).held, kind \in {"write", "discard"} : Begin(w, Deciding(h, kind))
    BY <1>4 DEF StartDecision
  <2>2. h \in HeldType
    BY <1>1 DEF Tables
  <2>3. Deciding(h, kind) \in JobType /\ Deciding(h, kind).plan = NoPlan
    BY <2>2, DecidingTyped
  <2>4. QED
    BY <2>1, <2>3, BeginStep
<1>5. QED
  BY <1>2, <1>3, <1>4

\* The plan of a movement, and that it holds of what the connection reads.
LEMMA PlannedTyped ==
    ASSUME IInv, NEW w \in Writer, PlanMovement(w)
    PROVE  /\ job'[w].plan \in PlanType
           /\ job' = [job EXCEPT ![w].plan = job'[w].plan]
           /\ PlanHolds(View(w), Movement(w), job'[w].plan)
           /\ GraveKnown(View(w), Movement(w), job'[w].plan)
<1> DEFINE t == Movement(w)
           s == View(w)
<1>1. job[w] \in JobType /\ Sound(s)
  BY DEF IInv, TypeOK, View
<1>2. job[w].seq \in Seq(Incoming) /\ job[w].pos \in 1..Len(job[w].seq)
  BY <1>1 DEF JobType, PlanMovement, Planning
<1>3. t \in Incoming
  BY <1>2 DEF Movement
<1>4. OccurrenceAt(job[w]) \in Nat \ {0}
  BY <1>1, <1>2, OccurrencePositive DEF OccurrenceAt, JobType
<1>5. PICK p \in Plans(s, t, OccurrenceAt(job[w]), job[w].kind = "restore") :
         job' = [job EXCEPT ![w].plan = IF job[w].hold THEN HoldIfProbable(s, t, p) ELSE p]
  BY DEF PlanMovement
<1>6. p \in PlanType /\ PlanHolds(s, t, p) /\ GraveKnown(s, t, p)
  BY <1>1, <1>3, <1>4, PlansHold DEF Sound
<1> DEFINE q == IF job[w].hold THEN HoldIfProbable(s, t, p) ELSE p
<1>7. q \in PlanType /\ PlanHolds(s, t, q) /\ GraveKnown(s, t, q)
  BY <1>1, <1>3, <1>6, HoldIfProbableHolds DEF Sound
<1>8. job'[w].plan = q
  BY <1>1, <1>5 DEF IInv, TypeOK, JobType
<1>9. QED
  BY <1>5, <1>7, <1>8

LEMMA PlanMovementStep ==
    ASSUME IInv, NEW w \in Writer, PlanMovement(w)
    PROVE  IInv'
<1> DEFINE p == job'[w].plan
           j == [job[w] EXCEPT !.plan = p]
<1>1. p \in PlanType /\ job' = [job EXCEPT ![w].plan = p] /\ GraveKnown(View(w), Movement(w), p)
  BY PlannedTyped
<1>2. job[w] \in JobType /\ job[w].kind # "idle" /\ job[w].pos <= Len(job[w].seq)
  BY DEF IInv, TypeOK, PlanMovement, Planning
<1>3. j \in JobType /\ j.plan = p /\ j.kind = job[w].kind /\ j.seq = job[w].seq /\ j.pos = job[w].pos
  BY <1>1, <1>2 DEF JobType
<1>4. job' = [job EXCEPT ![w] = j]
  BY <1>1, <1>2 DEF IInv, TypeOK
<1>5. reported' \subseteq Incoming /\ started' \in Nat /\ edited' \in Nat
  BY DEF PlanMovement, bounds, IInv, TypeOK
<1>6. UNCHANGED <<db, work, lock>>
  BY DEF PlanMovement
<1>7. lock = w => j.kind \in {"batch", "write", "discard"}
  BY <1>3, WriterAssumption DEF IInv, LockInv
<1>8. GraveKnown(View(w), j.seq[j.pos], j.plan)
  BY <1>1, <1>3 DEF Movement
<1> HIDE DEF p, j
<1>9. QED
  BY <1>2, <1>3, <1>4, <1>5, <1>6, <1>7, <1>8, JobStep

LEMMA AbsorbedStep ==
    ASSUME IInv, NEW w \in Writer, Absorbed(w)
    PROVE  IInv'
<1> DEFINE j == [job[w] EXCEPT !.pos = @ + 1, !.plan = NoPlan, !.note = None,
                               !.row = job[w].plan.row]
<1>1. job[w] \in JobType /\ job[w].plan \in PlanType
  BY CarriedTyped DEF IInv, TypeOK, Absorbed
<1>2. job[w].plan.row \in Nat
  BY <1>1 DEF PlanType
<1>3. j \in JobType /\ j.plan = NoPlan /\ j.kind = job[w].kind
  <2>1. job[w].pos + 1 \in Nat \ {0}
    BY <1>1 DEF JobType
  <2>2. j = [job[w] EXCEPT !.pos = job[w].pos + 1, !.plan = NoPlan, !.note = None,
                           !.row = job[w].plan.row]
    BY <1>1 DEF JobType
  <2>3. QED
    BY <1>1, <1>2, <2>1, <2>2 DEF JobType
<1>4. job' = [job EXCEPT ![w] = j]
  BY <1>1 DEF IInv, TypeOK, Absorbed
<1>5. reported' \subseteq Incoming /\ started' \in Nat /\ edited' \in Nat
  BY DEF Absorbed, bounds, IInv, TypeOK
<1>6. UNCHANGED <<db, work, lock>>
  BY DEF Absorbed
<1>7. lock = w => j.kind \in {"batch", "write", "discard"}
  BY <1>3, WriterAssumption DEF IInv, LockInv
<1> HIDE DEF j
<1>8. QED
  BY <1>3, <1>4, <1>5, <1>6, <1>7, JobStep

\* A step that ends the job of w and settles the tables outside a transaction,
\* or leaves another connection's transaction open.
LEMMA EndStep ==
    ASSUME IInv, NEW w \in Writer, job' = [job EXCEPT ![w] = Idle],
           Sound(db)', Sound(work)', KeepsGraves(db, db'),
           \/ lock' = None /\ work' = db' /\ lock \in {None, w}
           \/ UNCHANGED <<db, work, lock>> /\ lock # w,
           reported' \subseteq Incoming, started' \in Nat, edited' \in Nat
    PROVE  IInv'
<1>1. job'[w] = Idle /\ \A v \in Writer : v # w => job'[v] = job[v]
  BY DEF IInv, TypeOK
<1>2. TypeOK'
  BY IdleTyped DEF IInv, TypeOK, Sound
<1>3. LockInv' /\ WorkInv'
  BY <1>1, KeepsTransitive DEF IInv, LockInv, WorkInv, TypeOK
<1>4. PlanInv'
  <2>1. SUFFICES ASSUME NEW v \in Writer, Carrying(v)' PROVE PlanFits(v)'
    BY DEF PlanInv
  <2>2. v # w
    BY <1>1, <2>1, IdleTyped DEF Carrying
  <2>3. KeepsGraves(View(v), View(v)')
    BY <2>2, WriterAssumption, KeepsTransitive DEF View
  <2>4. QED
    BY <1>1, <2>1, <2>2, <2>3, PlanGoesOnFitting
<1>5. QED
  BY <1>2, <1>3, <1>4 DEF IInv

LEMMA RollBackStep ==
    ASSUME IInv, NEW w \in Writer, RollBack(w)
    PROVE  IInv'
<1>1. reported' \subseteq Incoming /\ started' \in Nat /\ edited' \in Nat
  BY DEF RollBack, bounds, IInv, TypeOK
<1>2. /\ job' = [job EXCEPT ![w] = Idle] /\ db' = db
      /\ work' = IF lock = w THEN db ELSE work
      /\ lock' = IF lock = w THEN None ELSE lock
  BY DEF RollBack
<1>3. Sound(db)' /\ Sound(work)'
  BY <1>2 DEF IInv, Sound
<1>4. \/ lock' = None /\ work' = db' /\ lock \in {None, w}
      \/ UNCHANGED <<db, work, lock>> /\ lock # w
  BY <1>2
<1>5. KeepsGraves(db, db')
  BY <1>2, KeepsTransitive
<1>6. QED
  BY <1>1, <1>2, <1>3, <1>4, <1>5, EndStep

LEMMA CommitBatchStep ==
    ASSUME IInv, NEW w \in Writer, CommitBatch(w)
    PROVE  IInv'
<1>1. started' \in Nat /\ edited' \in Nat
  BY DEF CommitBatch, bounds, IInv, TypeOK
<1>2. reported' \subseteq Incoming
  <2>1. job[w].seq \in Seq(Incoming)
    BY DEF IInv, TypeOK, JobType
  <2>2. \A i \in DOMAIN job[w].seq : job[w].seq[i] \in Incoming
    BY <2>1
  <2>3. QED
    BY <2>2 DEF CommitBatch, IInv, TypeOK
<1>3. /\ job' = [job EXCEPT ![w] = Idle] /\ db' = View(w) /\ work' = work
      /\ lock' = IF lock = w THEN None ELSE lock
  BY DEF CommitBatch
<1>4. Sound(db)' /\ Sound(work)'
  BY <1>3 DEF IInv, Sound, View
<1>5. \/ lock' = None /\ work' = db' /\ lock \in {None, w}
      \/ UNCHANGED <<db, work, lock>> /\ lock # w
  BY <1>3 DEF View
<1>6. KeepsGraves(db, db')
  BY <1>3, KeepsTransitive DEF View, IInv, WorkInv
<1>7. QED
  BY <1>1, <1>2, <1>3, <1>4, <1>5, <1>6, EndStep

LEMMA CommitDecisionStep ==
    ASSUME IInv, NEW w \in Writer, CommitDecision(w)
    PROVE  IInv'
<1> DEFINE s == SetDecision(View(w), job[w].ref, Decided(job[w].kind))
<1>1. reported' \subseteq Incoming /\ started' \in Nat /\ edited' \in Nat
  BY DEF CommitDecision, bounds, IInv, TypeOK
<1>2. Sound(View(w)) /\ KeepsGraves(db, View(w))
  BY KeepsTransitive DEF IInv, View, WorkInv
<1>3. Sound(s) /\ s.graves = View(w).graves
  BY <1>2, SetDecisionSound DEF Decided
<1>4. /\ job' = [job EXCEPT ![w] = Idle] /\ db' = s /\ work' = s /\ lock' = None
      /\ lock \in {None, w}
  BY DEF CommitDecision, Free
<1>5. Sound(db)' /\ Sound(work)'
  BY <1>3, <1>4 DEF Sound
<1>6. KeepsGraves(db, db')
  BY <1>2, <1>3, <1>4 DEF KeepsGraves
<1> HIDE DEF s
<1>7. QED
  BY <1>1, <1>4, <1>5, <1>6, EndStep

LEMMA MarkRestoredStep ==
    ASSUME IInv, NEW w \in Writer, MarkRestored(w)
    PROVE  IInv'
<1> DEFINE y == IF job[w].note = None THEN db ELSE SetNoteOf(db, job[w].row, job[w].note)
           s == SetRestored(y, job[w].ref)
<1>1. reported' \subseteq Incoming /\ started' \in Nat /\ edited' \in Nat
  BY DEF MarkRestored, bounds, IInv, TypeOK
<1>2. job[w].note \in Note \cup {None}
  BY DEF IInv, TypeOK, JobType
<1>3. Sound(y) /\ y.graves = db.graves
  BY <1>2, SetNoteSound DEF IInv
<1>4. Sound(s) /\ KeepsGraves(y, s)
  BY <1>3, SetRestoredSound
<1>5. /\ job' = [job EXCEPT ![w] = Idle] /\ db' = s /\ work' = s /\ lock' = None /\ lock = None
  BY DEF MarkRestored
<1>6. Sound(db)' /\ Sound(work)'
  BY <1>4, <1>5 DEF Sound
<1>7. KeepsGraves(db, db')
  BY <1>3, <1>4, <1>5 DEF KeepsGraves
<1> HIDE DEF y, s
<1>8. QED
  BY <1>1, <1>5, <1>6, <1>7, EndStep

\* What CarryOut writes, and to which of the two states of the tables.
LEMMA CarryOutWrites ==
    ASSUME IInv, NEW w \in Writer, CarryOut(w)
    PROVE  /\ Sound(work') /\ KeepsNotes(View(w), work') /\ KeepsGraves(View(w), work')
           /\ PlanHolds(View(w), Movement(w), job[w].plan) => KeepsSettled(View(w), work')
           /\ \/ job[w].kind = "restore" /\ lock = None /\ lock' = None /\ db' = work'
              \/ job[w].kind \in {"batch", "write", "discard"} /\ lock' = w /\ db' = db
<1>1. Carrying(w) /\ PlanFits(w)
  BY DEF CarryOut, IInv, PlanInv
<1>2. Movement(w) \in Incoming /\ job[w].plan \in PlanType
      /\ OccurrenceAt(job[w]) \in Nat \ {0} /\ Sound(View(w))
  BY <1>1, CarriedTyped
<1>3. /\ work' = Written(View(w), Movement(w), OccurrenceAt(job[w]), job[w].plan)
      /\ job[w].plan.action \in Writes /\ ~Refused(View(w), Movement(w), job[w].plan)
  BY DEF CarryOut
<1>4. /\ Sound(work') /\ KeepsNotes(View(w), work') /\ KeepsGraves(View(w), work')
      /\ PlanHolds(View(w), Movement(w), job[w].plan) => KeepsSettled(View(w), work')
  BY <1>1, <1>2, <1>3, WrittenSound DEF PlanFits
<1>5. \/ job[w].kind = "restore" /\ lock = None /\ lock' = None /\ db' = work'
      \/ job[w].kind \in {"batch", "write", "discard"} /\ lock' = w /\ db' = db
  <2>1. job[w].kind \in {"batch", "restore", "write", "discard"}
    BY <1>1 DEF PlanFits, IInv, TypeOK, JobType
  <2>2. job[w].kind = "restore" => lock = None
    BY DEF CarryOut, Free, IInv, LockInv
  <2>3. QED
    BY <2>1, <2>2 DEF CarryOut, Defers
<1>6. QED
  BY <1>4, <1>5

LEMMA CarryOutStep ==
    ASSUME IInv, NEW w \in Writer, CarryOut(w)
    PROVE  IInv'
<1>1. Movement(w) \in Incoming /\ job[w].plan \in PlanType /\ Sound(View(w))
      /\ KeepsNotes(db, View(w)) /\ KeepsGraves(db, View(w))
  BY CarriedTyped DEF CarryOut
<1>2. Sound(work)' /\ Sound(db)'
  BY CarryOutWrites DEF IInv, Sound
<1>3. reported' \subseteq Incoming /\ started' \in Nat /\ edited' \in Nat
  BY DEF CarryOut, bounds, IInv, TypeOK
<1>4. PICK n \in Nat, note \in {job[w].note, None} : job' =
         [job EXCEPT ![w] = [job[w] EXCEPT !.pos = job[w].pos + 1, !.plan = NoPlan,
                                           !.note = note, !.row = n]]
  <2>1. NextId(View(w).rows) \in Nat /\ job[w].plan.row \in Nat
    BY <1>1, NextIdFresh DEF Sound, PlanType
  <2> DEFINE n    == IF job[w].plan.action = "promoted" THEN job[w].plan.row
                     ELSE NextId(View(w).rows)
             note == IF job[w].plan.action = "inserted" THEN job[w].note ELSE None
  <2>2. n \in Nat /\ note \in {job[w].note, None}
    BY <2>1
  <2>3. job' = [job EXCEPT ![w].pos = job[w].pos + 1, ![w].plan = NoPlan,
                           ![w].note = note, ![w].row = n]
    BY DEF CarryOut, IInv, TypeOK, JobType
  <2> HIDE DEF n, note
  <2>4. job' = [job EXCEPT ![w] = [job[w] EXCEPT !.pos = job[w].pos + 1, !.plan = NoPlan,
                                                 !.note = note, !.row = n]]
    BY <2>3 DEF IInv, TypeOK, JobType
  <2>5. QED
    BY <2>2, <2>4
<1>6. job'[w] \in JobType /\ job'[w].plan = NoPlan /\ job'[w].kind = job[w].kind
  <2>1. job[w] \in JobType
    BY DEF IInv, TypeOK
  <2>2. job[w].pos + 1 \in Nat \ {0}
    BY <2>1 DEF JobType
  <2>3. QED
    BY <1>4, <2>1, <2>2 DEF JobType, IInv, TypeOK
<1>7. job' = [job EXCEPT ![w] = job'[w]]
  BY <1>4 DEF IInv, TypeOK
<1>8. TypeOK'
  BY <1>2, <1>3, <1>6, <1>7, CarryOutWrites DEF IInv, TypeOK, Sound
<1>9. LockInv'
  BY <1>6, CarryOutWrites, WriterAssumption DEF LockInv
<1>10. WorkInv'
  <2>1. KeepsNotes(db, work') /\ KeepsGraves(db, work')
    BY <1>1, CarryOutWrites, KeepsTransitive
  <2>2. db' = db \/ db' = work'
    BY CarryOutWrites
  <2>3. QED
    BY <2>1, <2>2, KeepsTransitive DEF WorkInv
<1>11. PlanInv'
  <2>1. SUFFICES ASSUME NEW v \in Writer, Carrying(v)' PROVE PlanFits(v)'
    BY DEF PlanInv
  <2>2. v # w /\ job'[v] = job[v]
    BY <1>6, <1>7, <2>1 DEF Carrying, IInv, TypeOK
  <2>3. KeepsGraves(View(v), View(v)')
    <3>1. CASE job[w].kind = "restore"
      BY <2>2, <3>1, CarryOutWrites, KeepsTransitive, WriterAssumption DEF View
    <3>2. CASE job[w].kind # "restore"
      <4>1. lock # v
        BY <2>2, WriterAssumption DEF CarryOut, Free
      <4>2. QED
        BY <2>2, <3>2, <4>1, CarryOutWrites, KeepsTransitive DEF View
    <3>3. QED
      BY <3>1, <3>2
  <2>4. QED
    BY <2>1, <2>2, <2>3, PlanGoesOnFitting
<1>12. QED
  BY <1>2, <1>8, <1>9, <1>10, <1>11 DEF IInv

LEMMA EditStep ==
    ASSUME IInv, NEW s, Sound(s), KeepsGraves(db, s), Edit(s)
    PROVE  IInv'
<1>1. lock = None /\ lock' = None /\ db' = s /\ work' = s /\ UNCHANGED <<job, reported, started>>
  BY DEF Edit
<1>2. TypeOK'
  BY <1>1 DEF Edit, IInv, TypeOK, Sound
<1>3. Sound(db)' /\ Sound(work)' /\ LockInv' /\ WorkInv'
  BY <1>1, KeepsTransitive DEF LockInv, WorkInv, Sound
<1>4. \A v \in Writer : View(v) = db /\ View(v)' = s
  BY <1>1, WriterAssumption DEF View
<1>5. PlanInv'
  BY <1>1, <1>4, PlanGoesOnFitting DEF PlanInv
<1>6. QED
  BY <1>2, <1>3, <1>5 DEF IInv

LEMMA RequestStep ==
    ASSUME IInv, DeleteTransaction \/ SetNotes \/ SetReimportDeleted
    PROVE  IInv'
<1>1. Sound(db)
  BY DEF IInv
<1>2. CASE DeleteTransaction
  <2>1. PICK r \in db.rows : Edit(DeleteRow(db, r))
    BY <1>2 DEF DeleteTransaction
  <2>2. Sound(DeleteRow(db, r)) /\ KeepsGraves(db, DeleteRow(db, r))
    BY <1>1, DeleteRowSound
  <2>3. QED
    BY <2>1, <2>2, EditStep
<1>3. CASE SetNotes
  <2>1. PICK r \in db.rows, n \in Note \cup {None} : Edit(SetNoteOf(db, r.id, n))
    BY <1>3 DEF SetNotes
  <2>2. Sound(SetNoteOf(db, r.id, n)) /\ KeepsGraves(db, SetNoteOf(db, r.id, n))
    BY <1>1, SetNoteSound DEF KeepsGraves
  <2>3. QED
    BY <2>1, <2>2, EditStep
<1>5. CASE SetReimportDeleted
  <2>1. PICK a \in Account : Edit([db EXCEPT !.reimport[a] = ~@])
    BY <1>5 DEF SetReimportDeleted
  <2> DEFINE s == [db EXCEPT !.reimport[a] = ~@]
  <2>2. db \in Tables
    BY <1>1 DEF Sound
  <2>3. s \in Tables /\ s.rows = db.rows /\ s.graves = db.graves /\ s.held = db.held
    BY <2>2 DEF Tables
  <2>4. Sound(s) /\ KeepsGraves(db, s)
    BY <1>1, <2>3 DEF Sound, Bounded, Unambiguous, KeepsGraves
  <2> HIDE DEF s
  <2>5. QED
    BY <2>1, <2>4, EditStep DEF s
<1>6. QED
  BY <1>2, <1>3, <1>5

LEMMA InvStep == IInv /\ [Next]_vars => IInv'
<1>1. SUFFICES ASSUME IInv, [Next]_vars PROVE IInv'
  OBVIOUS
<1>2. CASE UNCHANGED vars
  BY <1>1, <1>2 DEF vars, IInv, TypeOK, Sound, Bounded, Unambiguous, LockInv, WorkInv,
     KeepsNotes, KeepsGraves, PlanInv, PlanFits, Carrying, Movement, View, GraveKnown
<1>3. ASSUME NEW w \in Writer, StartBatch(w) \/ StartRestore(w) \/ StartDecision(w) PROVE IInv'
  BY <1>1, <1>3, StartStep
<1>4. ASSUME NEW w \in Writer, PlanMovement(w) PROVE IInv'
  BY <1>1, <1>4, PlanMovementStep
<1>5. ASSUME NEW w \in Writer, Absorbed(w) PROVE IInv'
  BY <1>1, <1>5, AbsorbedStep
<1>6. ASSUME NEW w \in Writer, CarryOut(w) PROVE IInv'
  BY <1>1, <1>6, CarryOutStep
<1>7. ASSUME NEW w \in Writer, Refuse(w) \/ GiveUp(w) PROVE IInv'
  BY <1>1, <1>7, RollBackStep DEF Refuse, GiveUp
<1>8. ASSUME NEW w \in Writer, CommitBatch(w) PROVE IInv'
  BY <1>1, <1>8, CommitBatchStep
<1>9. ASSUME NEW w \in Writer, CommitDecision(w) PROVE IInv'
  BY <1>1, <1>9, CommitDecisionStep
<1>10. ASSUME NEW w \in Writer, MarkRestored(w) PROVE IInv'
  BY <1>1, <1>10, MarkRestoredStep
<1>11. CASE DeleteTransaction \/ SetNotes \/ SetReimportDeleted
  BY <1>1, <1>11, RequestStep
<1>12. QED
  BY <1>1, <1>2, <1>3, <1>4, <1>5, <1>6, <1>7, <1>8, <1>9, <1>10, <1>11 DEF Next, Progress

LEMMA InvInit == Init => IInv
<1>1. SUFFICES ASSUME Init PROVE IInv
  OBVIOUS
<1>2. EmptyTables \in Tables
  BY DEF EmptyTables, Tables
<1>3. Sound(EmptyTables)
  BY <1>2 DEF Sound, EmptyTables, Bounded, Unambiguous
<1>4. TypeOK
  BY <1>1, <1>2, IdleTyped DEF Init, TypeOK
<1>5. LockInv /\ WorkInv
  BY <1>1, KeepsTransitive DEF Init, LockInv, WorkInv
<1>6. PlanInv
  BY <1>1, IdleTyped DEF Init, PlanInv, Carrying
<1>7. QED
  BY <1>1, <1>3, <1>4, <1>5, <1>6 DEF Init, IInv

LEMMA InvAlways == Spec => []IInv
BY InvInit, InvStep, PTL DEF Spec

\* The tables and every job keep their types in every state the ledger can be in.
THEOREM TypeCorrect == Spec => []TypeOK
<1>1. IInv => TypeOK
  BY DEF IInv
<1>2. QED
  BY <1>1, InvAlways, PTL

-----------------------------------------------------------------------------
(* One recording at a time: what _SYNC_LOCK gives the syncs, and a person at *)
(* one screen the rest.                                                    *)

OneRecording == \A v, w \in Writer : v = w

\* A transaction has rewritten no settled row, and the plan being carried out is
\* the one the tables still call for.
AloneInv == KeepsSettled(db, work) /\ PlanStillHolds

\* A plan survives a request that takes rows away, or writes no more than notes
\* and decisions.
LEMMA PlanSurvives ==
    ASSUME NEW s, NEW z, NEW t, NEW p, PlanHolds(s, t, p),
           \A q \in z.rows : \E r \in s.rows : q.id = r.id /\ q.txn = r.txn,
           \A k \in z.held : \E h \in s.held : RefOf(k) = RefOf(h)
    PROVE  PlanHolds(z, t, p)
<1>1. \A but : ~ExtTaken(s, t, but) => ~ExtTaken(z, t, but)
  BY DEF ExtTaken
<1>2. HeldRow(s.held, t, p.digest) = {} => HeldRow(z.held, t, p.digest) = {}
  BY DEF HeldRow, RefOf
<1>3. QED
  BY <1>1, <1>2 DEF PlanHolds

LEMMA AloneRequest ==
    ASSUME OneRecording, IInv, AloneInv,
           DeleteTransaction \/ SetNotes \/ SetReimportDeleted
    PROVE  AloneInv' /\ \A r \in db.rows : r.txn.status = "BOOK" => StaysSettled(r)
<1>1. Sound(db) /\ lock = None /\ lock' = None /\ work' = db' /\ job' = job
  BY DEF IInv, DeleteTransaction, SetNotes, SetReimportDeleted, Edit
<1>2. /\ \A q \in db'.rows : \E r \in db.rows : q.id = r.id /\ q.txn = r.txn
      /\ \A k \in db'.held : \E h \in db.held : RefOf(k) = RefOf(h)
      /\ \A r \in db.rows : r.txn.status = "BOOK" => StaysSettled(r)
  <2>1. CASE DeleteTransaction
    <3>1. PICK r \in db.rows : db' = DeleteRow(db, r)
      BY <2>1 DEF DeleteTransaction, Edit
    <3>2. db'.rows = db.rows \ {r} /\ Grave(r) \in db'.graves /\ db'.held = db.held
      BY <1>1, <3>1, DeleteRowSound
    <3>3. QED
      BY <3>2 DEF StaysSettled, Grave
  <2>2. CASE SetNotes
    <3>1. PICK r \in db.rows, n \in Note \cup {None} : db' = SetNoteOf(db, r.id, n)
      BY <2>2 DEF SetNotes, Edit
    <3>2. /\ KeepsSettled(db, db') /\ db'.held = db.held
          /\ \A q \in db'.rows : \E x \in db.rows : q.id = x.id /\ q.txn = x.txn
      BY <1>1, <3>1, SetNoteSound
    <3>3. QED
      BY <3>2 DEF StaysSettled, KeepsSettled
  <2>4. CASE SetReimportDeleted
    <3>1. db'.rows = db.rows /\ db'.held = db.held
      BY <1>1, <2>4 DEF SetReimportDeleted, Edit, Sound, Tables
    <3>2. QED
      BY <3>1 DEF StaysSettled
  <2>5. QED
    BY <2>1, <2>2, <2>4
<1>3. \A w \in Writer : View(w) = db /\ View(w)' = db'
  BY <1>1, WriterAssumption DEF View
<1>4. PlanStillHolds'
  <2>1. SUFFICES ASSUME NEW w \in Writer, Carrying(w)'
                 PROVE  PlanHolds(View(w)', Movement(w)', job'[w].plan)
    BY DEF PlanStillHolds
  <2>2. PlanHolds(db, Movement(w), job[w].plan)
    BY <1>1, <1>3, <2>1 DEF AloneInv, PlanStillHolds, Carrying
  <2>3. Movement(w)' = Movement(w) /\ job'[w].plan = job[w].plan
    BY <1>1 DEF Movement
  <2>4. PlanHolds(db', Movement(w), job[w].plan)
    BY <1>2, <2>2, PlanSurvives
  <2>5. QED
    BY <1>3, <2>3, <2>4
<1>5. QED
  BY <1>1, <1>2, <1>4, KeepsTransitive DEF AloneInv

\* With one recording at a time, nothing is being carried out once its step
\* has left no plan.
LEMMA NothingCarried ==
    ASSUME OneRecording, NEW w \in Writer, job'[w].plan = NoPlan
    PROVE  PlanStillHolds'
BY DEF OneRecording, PlanStillHolds, Carrying

LEMMA AloneView ==
    ASSUME OneRecording, IInv, AloneInv, NEW w \in Writer
    PROVE  /\ View(w) = work /\ lock \in {None, w}
           /\ Sound(View(w)) /\ KeepsSettled(db, View(w))
<1>1. lock \in {None, w}
  BY DEF OneRecording, IInv, TypeOK
<1>2. View(w) = work
  BY <1>1 DEF View, IInv, LockInv
<1>3. QED
  BY <1>1, <1>2 DEF IInv, AloneInv

LEMMA AloneCarryOut ==
    ASSUME OneRecording, IInv, AloneInv, NEW w \in Writer, CarryOut(w)
    PROVE  AloneInv' /\ KeepsSettled(db, db')
<1>1. PlanHolds(View(w), Movement(w), job[w].plan)
  BY DEF AloneInv, PlanStillHolds, CarryOut
<1>2. KeepsSettled(db, View(w))
  BY AloneView
<1>3. KeepsSettled(db, work') /\ (db' = db \/ db' = work')
  BY <1>1, <1>2, CarryOutWrites, KeepsTransitive
<1>4. job'[w].plan = NoPlan
  BY DEF CarryOut, IInv, TypeOK, JobType
<1>5. QED
  BY <1>3, <1>4, NothingCarried, KeepsTransitive DEF AloneInv

LEMMA AloneEnd ==
    ASSUME OneRecording, IInv, AloneInv, NEW w \in Writer,
           CommitBatch(w) \/ CommitDecision(w) \/ MarkRestored(w) \/ Refuse(w) \/ GiveUp(w)
    PROVE  AloneInv' /\ KeepsSettled(db, db')
<1>1. job'[w].plan = NoPlan
  BY IdleTyped DEF CommitBatch, CommitDecision, MarkRestored, Refuse, GiveUp, RollBack, IInv, TypeOK
<1>2. /\ View(w) = work /\ lock \in {None, w}
      /\ Sound(View(w)) /\ KeepsSettled(db, View(w)) /\ Sound(db)
  BY AloneView DEF IInv
<1>3. work' = db' /\ KeepsSettled(db, db')
  <2>1. CASE CommitBatch(w)
    BY <1>2, <2>1 DEF CommitBatch
  <2>2. CASE CommitDecision(w)
    BY <1>2, <2>2, SetDecisionSound DEF CommitDecision, Decided, KeepsSettled
  <2>3. CASE MarkRestored(w)
    <3> DEFINE y == IF job[w].note = None THEN db ELSE SetNoteOf(db, job[w].row, job[w].note)
    <3>1. job[w].note \in Note \cup {None}
      BY DEF IInv, TypeOK, JobType
    <3>2. Sound(y) /\ KeepsSettled(db, y)
      BY <1>2, <3>1, SetNoteSound, KeepsTransitive
    <3>3. db'.rows = y.rows /\ work' = db'
      BY <2>3, <3>2, SetRestoredSound DEF MarkRestored
    <3>4. QED
      BY <3>2, <3>3 DEF KeepsSettled
  <2>4. CASE Refuse(w) \/ GiveUp(w)
    BY <1>2, <2>4, KeepsTransitive DEF Refuse, GiveUp, RollBack, IInv, LockInv
  <2>5. QED
    BY <2>1, <2>2, <2>3, <2>4
<1>4. QED
  BY <1>1, <1>3, NothingCarried, KeepsTransitive DEF AloneInv

LEMMA AloneJob ==
    ASSUME OneRecording, IInv, AloneInv, NEW w \in Writer,
           \/ StartBatch(w) \/ StartRestore(w) \/ StartDecision(w)
           \/ PlanMovement(w) \/ Absorbed(w)
    PROVE  AloneInv' /\ KeepsSettled(db, db')
<1>1. UNCHANGED <<db, work, lock>>
  BY DEF StartBatch, StartRestore, StartDecision, Begin, PlanMovement, Absorbed
<1>2. KeepsSettled(db, work)' /\ KeepsSettled(db, db')
  BY <1>1, KeepsTransitive DEF AloneInv, KeepsSettled
<1>3. job[w] \in JobType /\ DOMAIN job = Writer
  BY DEF IInv, TypeOK
<1>4. CASE StartBatch(w) \/ StartRestore(w) \/ StartDecision(w)
  <2>1. job'[w].plan = NoPlan
    <3>1. ASSUME NEW j, Begin(w, j), j.plan = NoPlan PROVE job'[w].plan = NoPlan
      BY <1>3, <3>1 DEF Begin
    <3>2. CASE StartBatch(w)
      BY <3>1, <3>2 DEF StartBatch, Idle
    <3>3. CASE StartRestore(w)
      BY <3>1, <3>3 DEF StartRestore, Idle
    <3>4. CASE StartDecision(w)
      BY <3>1, <3>4 DEF StartDecision, Deciding, Idle
    <3>5. QED
      BY <1>4, <3>2, <3>3, <3>4
  <2>2. QED
    BY <1>2, <2>1, NothingCarried DEF AloneInv
<1>5. CASE Absorbed(w)
  <2>1. job'[w].plan = NoPlan
    BY <1>3, <1>5 DEF Absorbed, JobType
  <2>2. QED
    BY <1>2, <2>1, NothingCarried DEF AloneInv
<1>6. CASE PlanMovement(w)
  <2>1. PlanHolds(View(w), Movement(w), job'[w].plan) /\ job' = [job EXCEPT ![w].plan = job'[w].plan]
    BY <1>6, PlannedTyped
  <2>2. View(w)' = View(w)
    BY <1>1 DEF View
  <2>3. Movement(w)' = Movement(w)
    <3>1. job'[w].seq = job[w].seq /\ job'[w].pos = job[w].pos
      BY <1>3, <2>1 DEF JobType
    <3>2. QED
      BY <3>1 DEF Movement
  <2>4. \A v \in Writer : v = w
    BY DEF OneRecording
  <2>5. PlanStillHolds'
    BY <2>1, <2>2, <2>3, <2>4 DEF PlanStillHolds
  <2>6. QED
    BY <1>2, <2>5 DEF AloneInv
<1>7. QED
  BY <1>4, <1>5, <1>6

LEMMA AloneStep ==
    ASSUME OneRecording, IInv, AloneInv, [Next]_vars
    PROVE  AloneInv' /\ \A r \in db.rows : r.txn.status = "BOOK" => StaysSettled(r)
<1>1. KeepsSettled(db, db') => \A r \in db.rows : r.txn.status = "BOOK" => StaysSettled(r)
  BY DEF KeepsSettled, StaysSettled
<1>2. CASE UNCHANGED vars
  <2>1. AloneInv'
    BY <1>2 DEF vars, AloneInv, KeepsSettled, PlanStillHolds, Carrying, Movement, View,
       PlanHolds, ExtTaken, HeldRow, KeyOf
  <2>2. KeepsSettled(db, db')
    BY <1>2, KeepsTransitive DEF vars
  <2>3. QED
    BY <1>1, <2>1, <2>2
<1>3. ASSUME NEW w \in Writer,
             \/ StartBatch(w) \/ StartRestore(w) \/ StartDecision(w)
             \/ PlanMovement(w) \/ Absorbed(w)
      PROVE  AloneInv' /\ KeepsSettled(db, db')
  BY <1>3, AloneJob
<1>4. ASSUME NEW w \in Writer, CarryOut(w) PROVE AloneInv' /\ KeepsSettled(db, db')
  BY <1>4, AloneCarryOut
<1>5. ASSUME NEW w \in Writer,
             CommitBatch(w) \/ CommitDecision(w) \/ MarkRestored(w) \/ Refuse(w) \/ GiveUp(w)
      PROVE  AloneInv' /\ KeepsSettled(db, db')
  BY <1>5, AloneEnd
<1>6. CASE DeleteTransaction \/ SetNotes \/ SetReimportDeleted
  BY <1>6, AloneRequest
<1>7. QED
  BY <1>1, <1>2, <1>3, <1>4, <1>5, <1>6 DEF Next, Progress

LEMMA AloneAlways == ASSUME OneRecording PROVE Spec => [](IInv /\ AloneInv)
<1>1. Init => IInv /\ AloneInv
  <2>1. Init => KeepsSettled(db, work)
    BY KeepsTransitive DEF Init
  <2>2. Init => PlanStillHolds
    BY IdleTyped DEF Init, PlanStillHolds, Carrying
  <2>3. QED
    BY <2>1, <2>2, InvInit DEF AloneInv
<1>2. IInv /\ AloneInv /\ [Next]_vars => (IInv /\ AloneInv)'
  BY AloneStep, InvStep
<1>3. QED
  BY <1>1, <1>2, PTL DEF Spec

\* While one recording runs at a time, what it planned is what the tables still
\* call for when it writes: no constraint refuses it, no settled row is promoted.
THEOREM PlansAreCurrent == ASSUME OneRecording PROVE Spec => []PlanStillHolds
<1>1. AloneInv => PlanStillHolds
  BY DEF AloneInv
<1>2. QED
  BY <1>1, AloneAlways, PTL

\* While one recording runs at a time, a settled movement leaves the ledger only
\* through the trash, whatever the bank or a file reports later.
THEOREM SettledIsKept == ASSUME OneRecording PROVE Spec => SettledKept
<1>1. IInv /\ AloneInv /\ [Next]_vars =>
          [\A r \in db.rows : r.txn.status = "BOOK" => StaysSettled(r)]_vars
  BY AloneStep
<1>2. QED
  BY <1>1, AloneAlways, PTL DEF Spec, SettledKept

-----------------------------------------------------------------------------
(* Decisions on probable duplicates, for any number of connections.        *)

\* An open transaction has every held movement as it is committed: only the commit
\* of a decision changes one, and it does not leave the transaction open.
HeldInv ==
    /\ db.held \subseteq work.held
    /\ \A w \in Writer : job[w].kind \in {"write", "discard"} => job[w].ref \in Account \X KeyType

LEMMA WrittenHeld ==
    ASSUME NEW s, Sound(s), NEW t, NEW occ, NEW p, p.action \in Writes
    PROVE  s.held \subseteq Written(s, t, occ, p).held
<1>1. s \in Tables
  BY DEF Sound
<1>2. CASE p.action = "inserted"
  BY <1>1, <1>2 DEF Written, InsertRow, Tables
<1>3. CASE p.action = "promoted"
  <2>1. Written(s, t, occ, p) = PromoteRow(s, p.row, t, p.digest)
    BY <1>3 DEF Written
  <2>2. PromoteRow(s, p.row, t, p.digest).held = s.held
    BY <1>1 DEF PromoteRow, Tables
  <2>3. QED
    BY <2>1, <2>2
<1>4. CASE p.action = "reimported"
  <2>1. PICK note : Written(s, t, occ, p) =
           SetRestored(InsertRow(s, t, p.digest, note), <<t.account, p.grave>>)
    BY <1>4 DEF Written, Reimport
  <2> DEFINE y == InsertRow(s, t, p.digest, note)
  <2>2. y = [s EXCEPT !.rows = y.rows] /\ y.held = s.held
    BY <1>1 DEF InsertRow, Tables
  <2>3. SetRestored(y, <<t.account, p.grave>>).held = s.held
    BY <1>1, <2>2 DEF SetRestored, Tables
  <2>4. QED
    BY <2>1, <2>3
<1>5. CASE p.action = "hold"
  BY <1>1, <1>5 DEF Written, HoldRow, Tables
<1>6. QED
  BY <1>2, <1>3, <1>4, <1>5 DEF Writes

LEMMA ViewHeld ==
    ASSUME HeldInv, NEW w \in Writer
    PROVE  db.held \subseteq View(w).held
  BY DEF HeldInv, View

\* A step of one connection leaves the jobs of the others alone.
LEMMA OthersGoOn ==
    ASSUME IInv, NEW v \in Writer, NEW w \in Writer, v # w,
           \/ StartBatch(v) \/ StartRestore(v) \/ StartDecision(v) \/ Progress(v) \/ GiveUp(v)
    PROVE  job'[w] = job[w]
<1>1. job \in [Writer -> JobType]
  BY DEF IInv, TypeOK
<1>2. CASE StartBatch(v) \/ StartRestore(v) \/ StartDecision(v)
  BY <1>1, <1>2 DEF StartBatch, StartRestore, StartDecision, Begin
<1>3. CASE PlanMovement(v) \/ Absorbed(v) \/ CarryOut(v)
  BY <1>1, <1>3 DEF PlanMovement, Absorbed, CarryOut
<1>4. CASE CommitBatch(v) \/ CommitDecision(v) \/ MarkRestored(v) \/ Refuse(v) \/ GiveUp(v)
  BY <1>1, <1>4 DEF CommitBatch, CommitDecision, MarkRestored, Refuse, GiveUp, RollBack
<1>5. QED
  BY <1>2, <1>3, <1>4 DEF Progress

\* Its own job decides on a held movement only from the request that asks for it.
LEMMA DecisionGoesOn ==
    ASSUME IInv, NEW w \in Writer, job'[w].kind \in {"write", "discard"},
           \/ StartBatch(w) \/ StartRestore(w) \/ Progress(w) \/ GiveUp(w)
    PROVE  job[w].kind \in {"write", "discard"} /\ job'[w].ref = job[w].ref
<1>1. job \in [Writer -> JobType] /\ job[w] \in JobType
  BY DEF IInv, TypeOK
<1>2. CASE StartBatch(w)
  <2>1. PICK b \in Batches :
           Begin(w, [Idle EXCEPT !.kind = "batch", !.seq = b.seq, !.hold = b.hold])
    BY <1>2 DEF StartBatch
  <2>2. job'[w] = [Idle EXCEPT !.kind = "batch", !.seq = b.seq, !.hold = b.hold]
    BY <1>1, <2>1 DEF Begin
  <2>3. job'[w].kind = "batch"
    BY <2>2 DEF Idle
  <2>4. QED
    BY <2>3
<1>3. CASE StartRestore(w)
  <2>1. PICK g \in View(w).graves :
           Begin(w, [Idle EXCEPT !.kind = "restore", !.seq = <<MovementOf(g)>>,
                                 !.ref = RefOf(g), !.note = g.note])
    BY <1>3 DEF StartRestore
  <2>2. job'[w] = [Idle EXCEPT !.kind = "restore", !.seq = <<MovementOf(g)>>,
                               !.ref = RefOf(g), !.note = g.note]
    BY <1>1, <2>1 DEF Begin
  <2>3. job'[w].kind = "restore"
    BY <2>2 DEF Idle
  <2>4. QED
    BY <2>3
<1>4. CASE PlanMovement(w)
  <2>1. job' = [job EXCEPT ![w].plan = job'[w].plan]
    BY <1>4, PlannedTyped
  <2>2. QED
    BY <1>1, <2>1 DEF JobType
<1>5. CASE Absorbed(w)
  BY <1>1, <1>5 DEF Absorbed, JobType
<1>6. CASE CarryOut(w)
  BY <1>1, <1>6 DEF CarryOut, JobType
<1>7. CASE CommitBatch(w) \/ CommitDecision(w) \/ MarkRestored(w) \/ Refuse(w) \/ GiveUp(w)
  <2>1. job'[w] = Idle
    BY <1>1, <1>7 DEF CommitBatch, CommitDecision, MarkRestored, Refuse, GiveUp, RollBack
  <2>2. QED
    BY <2>1, IdleTyped
<1>8. QED
  BY <1>2, <1>3, <1>4, <1>5, <1>6, <1>7 DEF Progress

LEMMA DecisionBegins ==
    ASSUME IInv, NEW w \in Writer, StartDecision(w)
    PROVE  job'[w].ref \in Account \X KeyType
<1>1. View(w) \in Tables /\ job \in [Writer -> JobType]
  BY DEF IInv, TypeOK, Sound, View
<1>2. PICK h \in View(w).held, kind \in {"write", "discard"} : Begin(w, Deciding(h, kind))
  BY DEF StartDecision
<1>3. job'[w] = Deciding(h, kind) /\ h \in HeldType
  BY <1>1, <1>2 DEF Begin, Tables
<1>4. QED
  BY <1>3, DecidingTyped

\* Only CommitDecision changes the held movements that are committed, and while a
\* transaction is open nobody else commits.
LEMMA HeldStep ==
    ASSUME IInv, HeldInv, [Next]_vars
    PROVE  /\ HeldInv'
           /\ \/ db.held \subseteq db'.held
              \/ \E w \in Writer : /\ CommitDecision(w) /\ Sound(View(w))
                                   /\ db.held \subseteq View(w).held
                                   /\ db' = SetDecision(View(w), job[w].ref, Decided(job[w].kind))
<1> DEFINE Refs == \A w \in Writer :
                      job[w].kind \in {"write", "discard"} => job[w].ref \in Account \X KeyType
           Changed == \E w \in Writer : /\ CommitDecision(w) /\ Sound(View(w))
                                        /\ db.held \subseteq View(w).held
                                        /\ db' = SetDecision(View(w), job[w].ref, Decided(job[w].kind))
           Kept == db'.held \subseteq work'.held /\ (db.held \subseteq db'.held \/ Changed)
<1>1. Refs'
  <2> SUFFICES ASSUME NEW w \in Writer, job'[w].kind \in {"write", "discard"}
               PROVE  job'[w].ref \in Account \X KeyType
    OBVIOUS
  <2>1. CASE \E v \in Writer :
               \/ StartBatch(v) \/ StartRestore(v) \/ StartDecision(v) \/ Progress(v) \/ GiveUp(v)
    <3>1. PICK v \in Writer :
               \/ StartBatch(v) \/ StartRestore(v) \/ StartDecision(v) \/ Progress(v) \/ GiveUp(v)
      BY <2>1
    <3>2. CASE v # w
      BY <3>1, <3>2, OthersGoOn DEF HeldInv
    <3>3. CASE v = w /\ StartDecision(v)
      BY <3>3, DecisionBegins
    <3>4. CASE v = w /\ ~StartDecision(v)
      BY <3>1, <3>4, DecisionGoesOn DEF HeldInv
    <3>5. QED
      BY <3>2, <3>3, <3>4
  <2>2. CASE DeleteTransaction \/ SetNotes \/ SetReimportDeleted \/ UNCHANGED vars
    <3>1. job' = job
      BY <2>2 DEF DeleteTransaction, SetNotes, SetReimportDeleted, Edit, vars
    <3>2. QED
      BY <3>1 DEF HeldInv
  <2>3. QED
    BY <2>1, <2>2 DEF Next
<1>2. Sound(db) /\ Sound(work) /\ db.held \subseteq work.held
  BY DEF IInv, HeldInv
<1>3. ASSUME UNCHANGED <<db, work>>
      PROVE  Kept
  BY <1>2, <1>3
<1>4. ASSUME NEW w \in Writer, StartBatch(w) \/ StartRestore(w) \/ StartDecision(w)
                               \/ PlanMovement(w) \/ Absorbed(w)
      PROVE  Kept
  <2>1. UNCHANGED <<db, work>>
    BY <1>4 DEF StartBatch, StartRestore, StartDecision, Begin, PlanMovement, Absorbed
  <2>2. QED
    BY <1>3, <2>1
<1>5. ASSUME NEW w \in Writer, CarryOut(w)
      PROVE  Kept
  <2>1. Sound(View(w)) /\ db.held \subseteq View(w).held
    BY <1>5, CarriedTyped, ViewHeld DEF CarryOut
  <2>2. work' = Written(View(w), Movement(w), OccurrenceAt(job[w]), job[w].plan)
        /\ job[w].plan.action \in Writes
    BY <1>5 DEF CarryOut
  <2>3. db.held \subseteq work'.held
    BY <2>1, <2>2, WrittenHeld
  <2>4. db' = db \/ db' = work'
    BY <1>5, CarryOutWrites
  <2>5. QED
    BY <2>3, <2>4
<1>6. ASSUME NEW w \in Writer, Refuse(w) \/ GiveUp(w)
      PROVE  Kept
  BY <1>2, <1>6 DEF Refuse, GiveUp, RollBack
<1>7. ASSUME NEW w \in Writer, CommitBatch(w)
      PROVE  Kept
  <2>1. db' = View(w) /\ work' = work
    BY <1>7 DEF CommitBatch
  <2>2. QED
    BY <1>2, <2>1 DEF View
<1>8. ASSUME NEW w \in Writer, CommitDecision(w)
      PROVE  Kept
  <2>1. db' = SetDecision(View(w), job[w].ref, Decided(job[w].kind)) /\ work' = db'
    BY <1>8 DEF CommitDecision
  <2>2. Sound(View(w)) /\ db.held \subseteq View(w).held
    BY <1>2 DEF View
  <2>3. QED
    BY <1>8, <2>1, <2>2
<1>9. ASSUME NEW w \in Writer, MarkRestored(w)
      PROVE  Kept
  <2> DEFINE y == IF job[w].note = None THEN db ELSE SetNoteOf(db, job[w].row, job[w].note)
  <2>1. job[w].note \in Note \cup {None}
    BY DEF IInv, TypeOK, JobType
  <2>2. Sound(y) /\ y.held = db.held
    BY <1>2, <2>1, SetNoteSound
  <2>3. db' = SetRestored(y, job[w].ref) /\ work' = db'
    BY <1>9 DEF MarkRestored
  <2>4. db'.held = db.held
    BY <2>2, <2>3, SetRestoredSound
  <2>5. QED
    BY <2>3, <2>4
<1>10. CASE DeleteTransaction
  <2>1. PICK r \in db.rows : db' = DeleteRow(db, r) /\ work' = db'
    BY <1>10 DEF DeleteTransaction, Edit
  <2>2. db'.held = db.held
    BY <1>2, <2>1, DeleteRowSound
  <2>3. Kept
    BY <2>1, <2>2
  <2>4. QED
    BY <1>1, <2>3 DEF HeldInv
<1>11. CASE SetNotes
  <2>1. PICK r \in db.rows, n \in Note \cup {None} : db' = SetNoteOf(db, r.id, n) /\ work' = db'
    BY <1>11 DEF SetNotes, Edit
  <2>2. db'.held = db.held
    BY <1>2, <2>1, SetNoteSound
  <2>3. Kept
    BY <2>1, <2>2
  <2>4. QED
    BY <1>1, <2>3 DEF HeldInv
<1>13. CASE SetReimportDeleted
  <2>1. work' = db' /\ db'.held = db.held
    BY <1>2, <1>13 DEF SetReimportDeleted, Edit, Sound, Tables
  <2>2. Kept
    BY <2>1
  <2>3. QED
    BY <1>1, <2>2 DEF HeldInv
<1>14. CASE UNCHANGED vars
  BY <1>1, <1>3, <1>14 DEF vars, HeldInv
<1>15. ASSUME NEW w \in Writer,
              \/ StartBatch(w) \/ StartRestore(w) \/ StartDecision(w) \/ Progress(w) \/ GiveUp(w)
       PROVE  Kept
  BY <1>4, <1>5, <1>6, <1>7, <1>8, <1>9, <1>15 DEF Progress
<1>16. QED
  BY <1>1, <1>10, <1>11, <1>13, <1>14, <1>15 DEF Next, HeldInv

LEMMA DecisionStep ==
    ASSUME IInv, IInv', HeldInv, [Next]_vars, NEW h \in db.held
    PROVE  /\ \E k \in db'.held : RefOf(k) = RefOf(h) /\ k.txn = h.txn
           /\ \A k \in db'.held : RefOf(k) = RefOf(h) =>
                 \/ h.decision = "pending"
                 \/ k.decision = h.decision
                 \/ \E w \in Writer : CommitDecision(w) /\ job[w].ref = RefOf(h)
<1>1. \A f, k \in db'.held : RefOf(f) = RefOf(k) => f = k
  BY DEF IInv, Sound, Unambiguous
<1>2. CASE db.held \subseteq db'.held
  BY <1>1, <1>2
<1>3. ASSUME NEW s, Sound(s), db.held \subseteq s.held, NEW ref, NEW d,
             db' = SetDecision(s, ref, d)
      PROVE  LET k == IF Named(h, ref) THEN [h EXCEPT !.decision = d] ELSE h
             IN  k \in db'.held /\ RefOf(k) = RefOf(h) /\ k.txn = h.txn
  <2>1. s \in Tables /\ h \in HeldType
    BY <1>3 DEF Sound, Tables
  <2>2. db'.held = {IF Named(f, ref) THEN [f EXCEPT !.decision = d] ELSE f : f \in s.held}
    BY <1>3, <2>1 DEF SetDecision, Tables
  <2>3. [h EXCEPT !.decision = d].txn = h.txn /\ [h EXCEPT !.decision = d].key = h.key
    BY <2>1 DEF HeldType
  <2>4. QED
    BY <1>3, <2>2, <2>3 DEF RefOf
<1>4. CASE \E w \in Writer : /\ CommitDecision(w) /\ Sound(View(w))
                             /\ db.held \subseteq View(w).held
                             /\ db' = SetDecision(View(w), job[w].ref, Decided(job[w].kind))
  <2>1. PICK w \in Writer : /\ CommitDecision(w) /\ Sound(View(w))
                            /\ db.held \subseteq View(w).held
                            /\ db' = SetDecision(View(w), job[w].ref, Decided(job[w].kind))
    BY <1>4
  <2> DEFINE k == IF Named(h, job[w].ref) THEN [h EXCEPT !.decision = Decided(job[w].kind)] ELSE h
  <2>2. k \in db'.held /\ RefOf(k) = RefOf(h) /\ k.txn = h.txn
    BY <1>3, <2>1
  <2>3. CASE Named(h, job[w].ref)
    <3>1. job[w].ref \in Account \X KeyType
      BY <2>1 DEF CommitDecision, HeldInv
    <3>2. job[w].ref = RefOf(h)
      BY <2>3, <3>1 DEF Named, RefOf
    <3>3. QED
      BY <2>1, <2>2, <3>2
  <2>4. CASE ~Named(h, job[w].ref)
    BY <1>1, <2>2, <2>4
  <2>5. QED
    BY <2>3, <2>4
<1>6. QED
  BY <1>2, <1>4, HeldStep

\* The movement a request decides on is still pending, while it is the one request.
PendingInv ==
    \A w \in Writer : job[w].kind \in {"write", "discard"} =>
        \A h \in db.held : RefOf(h) = job[w].ref => h.decision = "pending"

LEMMA RequestHeld ==
    ASSUME IInv, DeleteTransaction \/ SetNotes \/ SetReimportDeleted
    PROVE  db'.held = db.held /\ job' = job
<1>1. Sound(db) /\ db \in Tables
  BY DEF IInv, Sound
<1>2. CASE DeleteTransaction
  BY <1>1, <1>2, DeleteRowSound DEF DeleteTransaction, Edit
<1>3. CASE SetNotes
  <2>1. PICK r \in db.rows, n \in Note \cup {None} : db' = SetNoteOf(db, r.id, n) /\ job' = job
    BY <1>3 DEF SetNotes, Edit
  <2>2. QED
    BY <1>1, <2>1, SetNoteSound
<1>4. CASE SetReimportDeleted
  BY <1>1, <1>4 DEF SetReimportDeleted, Edit, Tables
<1>5. QED
  BY <1>2, <1>3, <1>4

LEMMA PendingStep ==
    ASSUME OneRecording, IInv, HeldInv, PendingInv, [Next]_vars
    PROVE  PendingInv'
<1>1. SUFFICES ASSUME NEW w \in Writer, job'[w].kind \in {"write", "discard"},
                      NEW h \in db'.held, RefOf(h) = job'[w].ref
               PROVE  h.decision = "pending"
  BY DEF PendingInv
<1>2. job \in [Writer -> JobType] /\ Sound(View(w)) /\ db.held \subseteq View(w).held
  BY ViewHeld DEF IInv, TypeOK, View
<1>3. CASE StartDecision(w)
  <2>1. PICK x \in View(w).held, kind \in {"write", "discard"} :
           x.decision = "pending" /\ Begin(w, Deciding(x, kind))
    BY <1>3 DEF StartDecision
  <2>2. job'[w] = Deciding(x, kind) /\ x \in HeldType /\ db' = db
    BY <1>2, <2>1 DEF Begin, Sound, Tables
  <2>3. RefOf(h) = RefOf(x)
    BY <1>1, <2>2, DecidingTyped
  <2>4. h = x
    BY <1>1, <1>2, <2>2, <2>3 DEF Sound, Unambiguous
  <2>5. QED
    BY <2>1, <2>4
<1>4. ASSUME db'.held = db.held, job[w].kind \in {"write", "discard"}, job'[w].ref = job[w].ref
      PROVE  h.decision = "pending"
  BY <1>1, <1>4 DEF PendingInv
<1>5. CASE StartBatch(w) \/ StartRestore(w) \/ Progress(w) \/ GiveUp(w)
  <2>1. job[w].kind \in {"write", "discard"} /\ job'[w].ref = job[w].ref
    BY <1>1, <1>5, DecisionGoesOn
  <2>2. CASE StartBatch(w) \/ StartRestore(w) \/ PlanMovement(w) \/ Absorbed(w)
    <3>1. db' = db
      BY <2>2 DEF StartBatch, StartRestore, Begin, PlanMovement, Absorbed
    <3>2. QED
      BY <1>4, <2>1, <3>1
  <2>3. CASE CarryOut(w)
    <3>1. db' = db
      BY <2>1, <2>3, CarryOutWrites
    <3>2. QED
      BY <1>4, <2>1, <3>1
  <2>4. CASE CommitBatch(w) \/ CommitDecision(w) \/ MarkRestored(w) \/ Refuse(w) \/ GiveUp(w)
    <3>1. job'[w] = Idle
      BY <1>2, <2>4 DEF CommitBatch, CommitDecision, MarkRestored, Refuse, GiveUp, RollBack
    <3>2. QED
      BY <1>1, <3>1, IdleTyped
  <2>5. QED
    BY <1>5, <2>2, <2>3, <2>4 DEF Progress
<1>6. CASE DeleteTransaction \/ SetNotes \/ SetReimportDeleted
  BY <1>1, <1>4, <1>6, RequestHeld
<1>7. CASE UNCHANGED vars
  BY <1>1, <1>4, <1>7 DEF vars
<1>8. QED
  BY <1>3, <1>5, <1>6, <1>7 DEF Next, OneRecording

\* While one recording runs at a time, a probable duplicate is asked about once and
\* its movement stays with the answer: no step forgets a held movement, and none
\* replaces the decision on one.
THEOREM AnswersStand == ASSUME OneRecording PROVE Spec => DecidedOnce
<1>1. Init => HeldInv /\ PendingInv
  BY IdleTyped DEF Init, HeldInv, PendingInv
<1>2. IInv /\ HeldInv /\ PendingInv /\ [Next]_vars => HeldInv' /\ PendingInv'
  BY HeldStep, PendingStep
<1>3. IInv /\ IInv' /\ HeldInv /\ PendingInv /\ [Next]_vars =>
      [\A h \in db.held :
          /\ \E k \in db'.held : RefOf(k) = RefOf(h) /\ k.txn = h.txn
          /\ \A k \in db'.held : RefOf(k) = RefOf(h) =>
                h.decision = "pending" \/ k.decision = h.decision]_vars
  <2>1. SUFFICES ASSUME IInv, IInv', HeldInv, PendingInv, [Next]_vars, NEW h \in db.held
                 PROVE  /\ \E k \in db'.held : RefOf(k) = RefOf(h) /\ k.txn = h.txn
                        /\ \A k \in db'.held : RefOf(k) = RefOf(h) =>
                              h.decision = "pending" \/ k.decision = h.decision
    OBVIOUS
  <2>2. \A w \in Writer : CommitDecision(w) /\ job[w].ref = RefOf(h) => h.decision = "pending"
    BY <2>1 DEF CommitDecision, PendingInv
  <2>3. QED
    BY <2>1, <2>2, DecisionStep
<1>4. QED
  BY <1>1, <1>2, <1>3, InvAlways, PTL DEF Spec, DecidedOnce

-----------------------------------------------------------------------------
(* Where what a table holds came from.                                     *)

\* z has no movement that s has not: a row, a tombstone or a held movement of z
\* is one of s with another note or mark, or the tombstone of a row of s.
SameMovement(x, y) == x.txn = y.txn /\ x.digest = y.digest
SameGrave(f, g) == SameMovement(f, g) /\ f.key = g.key
SameHeld(h, k) == h.key = k.key /\ h.txn = k.txn /\ h.occ = k.occ
From(s, z) ==
    /\ \A q \in z.rows : \E r \in s.rows : q.id = r.id /\ SameMovement(q, r)
    /\ \A g \in z.graves : \/ \E f \in s.graves : SameGrave(g, f)
                           \/ \E r \in s.rows : SameGrave(g, Grave(r))
    /\ \A k \in z.held : \E h \in s.held : SameHeld(k, h)

\* The same, with what writing a plan for t adds.
FromAnd(s, z, t, occ, p) ==
    /\ \A q \in z.rows : \/ \E r \in s.rows : q.id = r.id /\ SameMovement(q, r)
                         \/ q.txn = t /\ q.digest = p.digest
    /\ \A g \in z.graves : \E f \in s.graves : SameGrave(g, f)
    /\ \A k \in z.held : \/ \E h \in s.held : SameHeld(k, h)
                         \/ k.key = KeyOf(t, p.digest) /\ k.txn = t /\ k.occ = occ

LEMMA FromItself == ASSUME NEW s PROVE From(s, s)
BY DEF From, SameMovement, SameGrave, SameHeld

LEMMA SetRestoredFrom ==
    ASSUME NEW s \in Tables, NEW ref
    PROVE  LET z == SetRestored(s, ref)
           IN  /\ z.rows = s.rows /\ z.held = s.held
               /\ \A g \in z.graves : \E f \in s.graves : SameGrave(g, f)
<1> DEFINE Image(g) == IF Named(g, ref) THEN [g EXCEPT !.restored = TRUE] ELSE g
           z == SetRestored(s, ref)
<1>1. z.graves = {Image(g) : g \in s.graves} /\ z.rows = s.rows /\ z.held = s.held
  BY DEF SetRestored, Tables
<1>2. \A g \in s.graves : SameGrave(Image(g), g)
  BY DEF Tables, GraveType, SameGrave, SameMovement
<1> HIDE DEF Image
<1>3. QED
  BY <1>1, <1>2

LEMMA SetNoteFrom ==
    ASSUME NEW s \in Tables, NEW id, NEW note
    PROVE  LET z == SetNoteOf(s, id, note)
           IN  /\ z.graves = s.graves /\ z.held = s.held
               /\ \A q \in z.rows : \E r \in s.rows : q.id = r.id /\ SameMovement(q, r)
<1> DEFINE Image(r) == IF r.id = id THEN [r EXCEPT !.note = note] ELSE r
           z == SetNoteOf(s, id, note)
<1>1. z.rows = {Image(r) : r \in s.rows} /\ z.graves = s.graves /\ z.held = s.held
  BY DEF SetNoteOf, Tables
<1>2. \A r \in s.rows : Image(r).id = r.id /\ SameMovement(Image(r), r)
  BY DEF Tables, RowType, SameMovement
<1> HIDE DEF Image
<1>3. QED
  BY <1>1, <1>2

LEMMA SetDecisionFrom ==
    ASSUME NEW s \in Tables, NEW ref, NEW decision
    PROVE  From(s, SetDecision(s, ref, decision))
<1> DEFINE Image(h) == IF Named(h, ref) THEN [h EXCEPT !.decision = decision] ELSE h
           z == SetDecision(s, ref, decision)
<1>1. z.held = {Image(h) : h \in s.held} /\ z.rows = s.rows /\ z.graves = s.graves
  BY DEF SetDecision, Tables
<1>2. \A h \in s.held : SameHeld(Image(h), h)
  BY DEF Tables, HeldType, SameHeld
<1> HIDE DEF Image
<1>3. QED
  BY <1>1, <1>2 DEF From, SameMovement, SameGrave

LEMMA DeleteRowFrom ==
    ASSUME NEW s \in Tables, NEW r \in s.rows
    PROVE  From(s, DeleteRow(s, r))
<1> DEFINE z == DeleteRow(s, r)
<1>1. /\ z.graves = {f \in s.graves : ~Named(f, RefOf(Grave(r)))} \cup {Grave(r)}
      /\ z.rows = s.rows \ {r} /\ z.held = s.held
  BY DEF DeleteRow, Tables
<1>2. QED
  BY <1>1 DEF From, SameMovement, SameGrave, SameHeld

LEMMA WrittenFrom ==
    ASSUME NEW s \in Tables, NEW t, NEW occ, NEW p, p.action \in Writes
    PROVE  FromAnd(s, Written(s, t, occ, p), t, occ, p)
<1> DEFINE z == Written(s, t, occ, p)
<1>1. CASE p.action = "inserted"
  BY <1>1 DEF Written, InsertRow, Tables, FromAnd, SameMovement, SameGrave, SameHeld
<1>2. CASE p.action = "promoted"
  <2> DEFINE Image(r) == IF r.id = p.row THEN [r EXCEPT !.txn = t, !.digest = p.digest] ELSE r
  <2>1. z.rows = {Image(r) : r \in s.rows} /\ z.graves = s.graves /\ z.held = s.held
    BY <1>2 DEF Written, PromoteRow, Tables
  <2>2. \A r \in s.rows : \/ Image(r).id = r.id /\ SameMovement(Image(r), r)
                          \/ Image(r).txn = t /\ Image(r).digest = p.digest
    BY DEF Tables, RowType, SameMovement
  <2> HIDE DEF Image
  <2>3. \A q \in z.rows : \/ \E r \in s.rows : q.id = r.id /\ SameMovement(q, r)
                          \/ q.txn = t /\ q.digest = p.digest
    BY <2>1, <2>2
  <2>4. QED
    BY <2>1, <2>3 DEF FromAnd, SameMovement, SameGrave, SameHeld
<1>3. CASE p.action = "reimported"
  <2>1. PICK note : z = SetRestored(InsertRow(s, t, p.digest, note), <<t.account, p.grave>>)
    BY <1>3 DEF Written, Reimport
  <2> DEFINE y   == InsertRow(s, t, p.digest, note)
             new == [id |-> NextId(s.rows), txn |-> t, digest |-> p.digest, note |-> note]
             Image(g) == IF Named(g, <<t.account, p.grave>>) THEN [g EXCEPT !.restored = TRUE] ELSE g
  <2>2. y.rows = s.rows \cup {new} /\ y.graves = s.graves /\ y.held = s.held
        /\ y = [s EXCEPT !.rows = y.rows]
    BY DEF InsertRow, Tables
  <2>3. z.rows = y.rows /\ z.held = y.held /\ z.graves = {Image(g) : g \in s.graves}
    BY <2>1, <2>2 DEF SetRestored, Tables
  <2>4. \A g \in s.graves : SameGrave(Image(g), g)
    BY DEF Tables, GraveType, SameGrave, SameMovement
  <2>5. new.txn = t /\ new.digest = p.digest
    OBVIOUS
  <2> HIDE DEF Image, new, y
  <2>6. \A g \in z.graves : \E f \in s.graves : SameGrave(g, f)
    BY <2>3, <2>4
  <2>7. \A q \in z.rows : \/ \E r \in s.rows : q.id = r.id /\ SameMovement(q, r)
                          \/ q.txn = t /\ q.digest = p.digest
    BY <2>2, <2>3, <2>5 DEF SameMovement
  <2>8. QED
    BY <2>2, <2>3, <2>6, <2>7 DEF FromAnd, SameHeld
<1>4. CASE p.action = "hold"
  BY <1>4 DEF Written, HoldRow, Tables, FromAnd, SameMovement, SameGrave, SameHeld
<1>5. QED
  BY <1>1, <1>2, <1>3, <1>4 DEF Writes

LEMMA MarkRestoredFrom ==
    ASSUME IInv, NEW w \in Writer, MarkRestored(w)
    PROVE  From(db, db') /\ work' = db'
<1> DEFINE y == IF job[w].note = None THEN db ELSE SetNoteOf(db, job[w].row, job[w].note)
<1>1. job[w].note \in Note \cup {None} /\ db \in Tables
  BY DEF IInv, Sound, TypeOK, JobType
<1>2. y \in Tables
  BY <1>1, SetNoteSound DEF IInv, Sound
<1>3. From(db, y)
  BY <1>1, FromItself, SetNoteFrom DEF From
<1>4. db' = SetRestored(y, job[w].ref) /\ work' = db'
  BY DEF MarkRestored
<1>5. /\ db'.rows = y.rows /\ db'.held = y.held
      /\ \A g \in db'.graves : \E f \in y.graves : SameGrave(g, f)
  BY <1>2, <1>4, SetRestoredFrom
<1>6. QED
  BY <1>3, <1>4, <1>5 DEF From, SameGrave, SameMovement

LEMMA RequestFrom ==
    ASSUME IInv, DeleteTransaction \/ SetNotes \/ SetReimportDeleted
    PROVE  From(db, db') /\ work' = db'
<1>1. db \in Tables /\ From(db, db)
  BY FromItself DEF IInv, Sound
<1>2. CASE DeleteTransaction
  BY <1>1, <1>2, DeleteRowFrom DEF DeleteTransaction, Edit
<1>3. CASE SetNotes
  <2>1. PICK r \in db.rows, n \in Note \cup {None} : db' = SetNoteOf(db, r.id, n) /\ work' = db'
    BY <1>3 DEF SetNotes, Edit
  <2>2. From(db, db')
    BY <1>1, <2>1, SetNoteFrom DEF From
  <2>3. QED
    BY <2>1, <2>2
<1>5. CASE SetReimportDeleted
  <2>1. /\ work' = db' /\ db'.rows = db.rows
        /\ db'.graves = db.graves /\ db'.held = db.held
    BY <1>1, <1>5 DEF SetReimportDeleted, Edit, Tables
  <2>2. From(db, db')
    BY <1>1, <2>1 DEF From
  <2>3. QED
    BY <2>1, <2>2
<1>6. QED
  BY <1>2, <1>3, <1>5

\* A step takes the committed tables, and those a transaction sees, from one of
\* the two, or writes a plan.
LEMMA TablesStep ==
    ASSUME IInv, [Next]_vars
    PROVE  \A z \in {db', work'} :
              \/ From(db, z) \/ From(work, z)
              \/ \E w \in Writer :
                    /\ CarryOut(w)
                    /\ FromAnd(View(w), z, Movement(w), OccurrenceAt(job[w]), job[w].plan)
<1> DEFINE Step(z) == \/ From(db, z) \/ From(work, z)
                      \/ \E w \in Writer :
                           /\ CarryOut(w)
                           /\ FromAnd(View(w), z, Movement(w), OccurrenceAt(job[w]), job[w].plan)
<1> SUFFICES Step(db') /\ Step(work')
  OBVIOUS
<1>1. db \in Tables /\ work \in Tables /\ \A w \in Writer : View(w) \in {db, work}
  BY DEF IInv, Sound, View
<1>2. From(db, db) /\ From(work, work)
  BY FromItself
<1>3. ASSUME NEW w \in Writer, \/ StartBatch(w) \/ StartRestore(w) \/ StartDecision(w)
                               \/ PlanMovement(w) \/ Absorbed(w)
      PROVE  Step(db') /\ Step(work')
  BY <1>2, <1>3 DEF StartBatch, StartRestore, StartDecision, Begin, PlanMovement, Absorbed
<1>4. ASSUME NEW w \in Writer, CarryOut(w) PROVE Step(db') /\ Step(work')
  <2>1. /\ work' = Written(View(w), Movement(w), OccurrenceAt(job[w]), job[w].plan)
        /\ job[w].plan.action \in Writes /\ db' \in {db, work'}
    BY <1>4 DEF CarryOut
  <2>2. FromAnd(View(w), work', Movement(w), OccurrenceAt(job[w]), job[w].plan)
    BY <1>1, <2>1, WrittenFrom
  <2>3. QED
    BY <1>2, <1>4, <2>1, <2>2
<1>5. ASSUME NEW w \in Writer, CommitBatch(w) \/ Refuse(w) \/ GiveUp(w)
      PROVE  Step(db') /\ Step(work')
  BY <1>1, <1>2, <1>5 DEF CommitBatch, Refuse, GiveUp, RollBack
<1>6. ASSUME NEW w \in Writer, CommitDecision(w) PROVE Step(db') /\ Step(work')
  <2>1. From(View(w), db') /\ work' = db'
    BY <1>1, <1>6, SetDecisionFrom DEF CommitDecision
  <2>2. QED
    BY <1>1, <2>1
<1>7. ASSUME NEW w \in Writer, MarkRestored(w) PROVE Step(db') /\ Step(work')
  BY <1>7, MarkRestoredFrom
<1>8. CASE DeleteTransaction \/ SetNotes \/ SetReimportDeleted
  BY <1>8, RequestFrom
<1>9. CASE UNCHANGED vars
  BY <1>2, <1>9 DEF vars
<1> HIDE DEF Step
<1>10. QED
  BY <1>3, <1>4, <1>5, <1>6, <1>7, <1>8, <1>9 DEF Next, Progress

-----------------------------------------------------------------------------
(* The identity a movement is deleted and restored under, for any number of *)
(* connections.                                                            *)

\* Where the reports are such, a movement is the first of its content in a batch.
First(t) == (OnceEach /\ t.ext = None) \/ WindowsTell

\* A digest is made of the movement's own content and id, and of nothing else where
\* the content is met once.
DigestFits(t, digest) ==
    /\ digest.content = ContentOf(t) /\ digest.ext \in {None, t.ext}
    /\ First(t) => digest.occ = 1
    /\ WindowsTell => digest.ext = None
Fits(s) ==
    /\ \A r \in s.rows : DigestFits(r.txn, r.digest)
    /\ \A g \in s.graves : DigestFits(g.txn, g.digest) /\ g.key = KeyOf(g.txn, g.digest)
    /\ \A h \in s.held : /\ First(h.txn) => h.occ = 1
                         /\ \A e \in Ext : h.key = <<"ext", e>> => h.txn.ext = e

\* A restore is of one movement, under the key its first digest gives it.
JobFits(j) ==
    /\ \A i \in 1..Len(j.seq) :
          First(j.seq[i]) => (IF j.kind = "batch" THEN Occurrence(j.seq, i) ELSE j.occ) = 1
    /\ j.kind = "restore" =>
          /\ Len(j.seq) = 1 /\ ~j.hold /\ j.occ = 1
          /\ OnceEach => j.ref[2] = KeyOf(j.seq[1], DigestOf(j.seq[1], 1))
    /\ j.plan # NoPlan => DigestFits(j.seq[j.pos], j.plan.digest)
FitsInv == Fits(db) /\ Fits(work) /\ \A w \in Writer : JobFits(job[w])

\* A movement's key is that of its first digest.
LEMMA FitKey ==
    ASSUME OnceEach, NEW t \in Incoming, NEW digest \in DigestType, DigestFits(t, digest)
    PROVE  KeyOf(t, digest) = KeyOf(t, DigestOf(t, 1))
<1>1. CASE t.ext = None
  <2>1. digest = DigestOf(t, 1)
    BY <1>1 DEF DigestFits, First, DigestOf, DigestType
  <2>2. QED
    BY <2>1
<1>2. CASE t.ext # None
  BY <1>2 DEF KeyOf
<1>3. QED
  BY <1>1, <1>2

LEMMA PlanDigest ==
    ASSUME NEW s \in Tables, Fits(s), NEW t \in Incoming, NEW occ, First(t) => occ = 1,
           NEW restoring, NEW p \in Plans(s, t, occ, restoring)
    PROVE  DigestFits(t, p.digest)
<1> DEFINE base     == DigestOf(t, occ)
           known    == FindByExternalId(s.rows, t)
           twins    == FindByContentHash(s.rows, base)
           digest   == IF \E r \in twins : Distinct(r, t)
                       THEN [base EXCEPT !.ext = t.ext] ELSE base
           same     == {r \in twins : ~Distinct(r, t)}
           opposite == FindOppositeStatus(s.rows, t)
           buried   == IF restoring THEN {} ELSE Tombstones(s.graves, t, digest)
           Back(k)  == [Planned("reimported", digest) EXCEPT !.grave = k]
<1>1. DigestFits(t, base) /\ DigestFits(t, digest)
  <2>1. DigestFits(t, base)
    BY DEF DigestFits, DigestOf
  <2>2. ASSUME WindowsTell, NEW r \in twins PROVE ~Distinct(r, t)
    <3>1. r \in s.rows /\ r.digest = base /\ r.txn \in Incoming
      BY DEF FindByContentHash, Tables, RowType
    <3>2. ContentOf(r.txn) = ContentOf(t)
      BY <3>1 DEF Fits, DigestFits, DigestOf
    <3>3. QED
      BY <2>2, <3>1, <3>2 DEF WindowsTell, Distinct
  <2>3. WindowsTell => digest = base
    BY <2>2
  <2>4. digest.content = base.content /\ digest.occ = base.occ /\ digest.ext \in {base.ext, t.ext}
    BY DEF DigestOf
  <2> HIDE DEF digest, base
  <2>5. QED
    BY <2>1, <2>3, <2>4 DEF DigestFits
<1>2. \/ \E r \in known : p = Absorb(r, t, base)
      \/ \E r \in same : p = Absorb(r, t, base)
      \/ \E r \in opposite : p = Absorb(r, t, digest)
      \/ p \in {Planned("inserted", digest), Planned("suppressed", digest)}
      \/ \E g \in buried : p = Back(g.key)
  BY DEF Plans
<1>3. p.digest \in {base, digest}
  <2>1. \A r, d : Absorb(r, t, d).digest = d
    BY DEF Absorb, Planned
  <2>2. (\A a, d : Planned(a, d).digest = d) /\ (\A k : Back(k).digest = digest)
    BY DEF Planned
  <2> HIDE DEF base, known, digest, same, opposite, buried, Back
  <2>3. QED
    BY <1>2, <2>1, <2>2
<1>4. QED
  BY <1>1, <1>3

\* What _plan finds of a restored movement is a row of it, or one that waits in the
\* other status.
RestoreFound(s, t, p, key) ==
    \/ p.action = "inserted" /\ KeyOf(t, p.digest) = key
    \/ \E r \in s.rows : r.id = p.row /\ Describes[r.txn] = Describes[t]
    \/ TakenForTwin(s, t)

LEMMA RestorePlan ==
    ASSUME OnceEach, ReportsTell, NEW s \in Tables, Fits(s), NEW t \in Incoming,
           NEW p \in Plans(s, t, 1, TRUE)
    PROVE  RestoreFound(s, t, p, KeyOf(t, DigestOf(t, 1)))
<1> DEFINE base     == DigestOf(t, 1)
           known    == FindByExternalId(s.rows, t)
           twins    == FindByContentHash(s.rows, base)
           digest   == IF \E r \in twins : Distinct(r, t)
                       THEN [base EXCEPT !.ext = t.ext] ELSE base
           same     == {r \in twins : ~Distinct(r, t)}
           opposite == FindOppositeStatus(s.rows, t)
           Goal(r)  == Describes[r.txn] = Describes[t]
<1>1. \/ \E r \in known : p = Absorb(r, t, base)
      \/ \E r \in same : p = Absorb(r, t, base)
      \/ known = {} /\ \E r \in opposite : p = Absorb(r, t, digest)
      \/ p = Planned("inserted", digest)
  BY DEF Plans
<1>2. \A r : \A d : Absorb(r, t, d).row = r.id
  BY DEF Absorb, Planned
<1>3. ASSUME NEW r \in known PROVE r \in s.rows /\ Goal(r)
  <2>1. r \in s.rows /\ r.txn \in Incoming /\ r.txn.account = t.account
        /\ t.ext # None /\ r.txn.ext = t.ext
    BY <1>3 DEF FindByExternalId, Tables, RowType
  <2>2. QED
    BY <2>1 DEF ReportsTell
<1>4. ASSUME NEW r \in same PROVE r \in s.rows /\ Goal(r)
  <2>1. r \in s.rows /\ r.digest = base /\ ~Distinct(r, t) /\ r.txn \in Incoming
    BY DEF FindByContentHash, Tables, RowType
  <2>2. ContentOf(r.txn) = ContentOf(t)
    BY <2>1 DEF Fits, DigestFits, DigestOf
  <2>3. CASE r.txn.ext = None \/ t.ext = None
    BY <2>1, <2>2, <2>3 DEF ReportsTell
  <2>4. CASE r.txn.ext # None /\ t.ext # None
    <3>1. r.txn.ext = t.ext
      BY <2>1, <2>4 DEF Distinct
    <3>2. r.txn.account = t.account
      BY <2>2 DEF ContentOf
    <3>3. QED
      BY <2>1, <2>4, <3>1, <3>2 DEF ReportsTell
  <2>5. QED
    BY <2>1, <2>3, <2>4
<1>5. ASSUME NEW r \in opposite, known = {}
      PROVE  r \in s.rows /\ (Goal(r) \/ TakenForTwin(s, t))
  BY <1>5 DEF FindOppositeStatus, TakenForTwin, InWindow
<1>6. CASE p = Planned("inserted", digest)
  <2>1. p.action = "inserted" /\ p.digest = digest
    BY <1>6 DEF Planned
  <2>2. digest \in DigestType
    BY DigestTyped, IncomingTyped DEF DigestType, IncomingTransaction
  <2>3. DigestFits(t, digest)
    <3>1. DigestFits(t, p.digest)
      BY PlanDigest
    <3>2. QED
      BY <2>1, <3>1
  <2>4. KeyOf(t, p.digest) = KeyOf(t, base)
    BY <2>1, <2>2, <2>3, FitKey
  <2>5. QED
    BY <2>1, <2>4 DEF RestoreFound
<1> HIDE DEF base, known, same, opposite, digest, Goal
<1>7. CASE p # Planned("inserted", digest)
  <2>1. PICK r \in s.rows : (Goal(r) \/ TakenForTwin(s, t)) /\ \E d : p = Absorb(r, t, d)
    BY <1>1, <1>3, <1>4, <1>5, <1>7
  <2>2. p.row = r.id
    BY <1>2, <2>1
  <2>3. QED
    BY <2>1, <2>2 DEF Goal, RestoreFound
<1>8. QED
  BY <1>6, <1>7 DEF base

\* Whatever comes from fitting tables, or from them and a fitting plan, fits.
LEMMA FromFits ==
    ASSUME NEW s \in Tables, Fits(s), NEW z, From(s, z)
    PROVE  Fits(z)
<1>1. \A r \in z.rows : DigestFits(r.txn, r.digest)
  BY DEF From, Fits, SameMovement
<1>2. \A g \in z.graves : DigestFits(g.txn, g.digest) /\ g.key = KeyOf(g.txn, g.digest)
  BY DEF From, Fits, SameGrave, SameMovement, Grave
<1>3. \A h \in z.held : /\ First(h.txn) => h.occ = 1
                        /\ \A e \in Ext : h.key = <<"ext", e>> => h.txn.ext = e
  BY DEF From, Fits, SameHeld
<1>4. QED
  BY <1>1, <1>2, <1>3 DEF Fits

LEMMA FromAndFits ==
    ASSUME NEW s \in Tables, Fits(s), NEW z, NEW t, NEW occ, NEW p,
           First(t) => occ = 1, DigestFits(t, p.digest), FromAnd(s, z, t, occ, p)
    PROVE  Fits(z)
<1>1. \A r \in z.rows : DigestFits(r.txn, r.digest)
  BY DEF FromAnd, Fits, SameMovement
<1>2. \A g \in z.graves : DigestFits(g.txn, g.digest) /\ g.key = KeyOf(g.txn, g.digest)
  BY DEF FromAnd, Fits, SameGrave, SameMovement
<1>3. \A h \in z.held : /\ First(h.txn) => h.occ = 1
                        /\ \A e \in Ext : h.key = <<"ext", e>> => h.txn.ext = e
  BY DEF FromAnd, Fits, SameHeld, KeyOf
<1>4. QED
  BY <1>1, <1>2, <1>3 DEF Fits

LEMMA HoldIfProbableDigest ==
    ASSUME NEW s, NEW t, NEW p \in PlanType
    PROVE  HoldIfProbable(s, t, p).digest = p.digest
BY DEF HoldIfProbable, PlanType

\* Requests that start a recording start a fitting one.
LEMMA FitBegins ==
    ASSUME IInv, FitsInv, NEW w \in Writer,
           StartBatch(w) \/ StartRestore(w) \/ StartDecision(w)
    PROVE  JobFits(job'[w])
<1>1. View(w) \in Tables /\ Fits(View(w)) /\ job \in [Writer -> JobType]
  BY DEF IInv, TypeOK, Sound, View, FitsInv
<1>2. CASE StartBatch(w)
  <2>1. PICK b \in Batches :
           Begin(w, [Idle EXCEPT !.kind = "batch", !.seq = b.seq, !.hold = b.hold])
    BY <1>2 DEF StartBatch
  <2>2. job'[w] = [Idle EXCEPT !.kind = "batch", !.seq = b.seq, !.hold = b.hold]
    BY <1>1, <2>1 DEF Begin
  <2>3. job'[w].kind = "batch" /\ job'[w].seq = b.seq /\ job'[w].plan = NoPlan
    BY <2>2 DEF Idle
  <2>4. DOMAIN b.seq = 1..Len(b.seq)
    BY BatchesAssumption
  <2>5. QED
    BY <2>3, <2>4 DEF JobFits, First, OnceEach, WindowsTell
<1>3. CASE StartRestore(w)
  <2>1. PICK g \in View(w).graves :
           Begin(w, [Idle EXCEPT !.kind = "restore", !.seq = <<MovementOf(g)>>,
                                 !.ref = RefOf(g), !.note = g.note])
    BY <1>3 DEF StartRestore
  <2>2. job'[w] = [Idle EXCEPT !.kind = "restore", !.seq = <<MovementOf(g)>>,
                               !.ref = RefOf(g), !.note = g.note]
    BY <1>1, <2>1 DEF Begin
  <2>3. /\ job'[w].kind = "restore" /\ job'[w].seq = <<g.txn>> /\ job'[w].plan = NoPlan
        /\ job'[w].occ = 1 /\ job'[w].hold = FALSE /\ job'[w].ref = <<g.txn.account, g.key>>
    BY <2>2 DEF Idle, MovementOf, RefOf
  <2>4. g.txn \in Incoming /\ g.digest \in DigestType
    BY <1>1 DEF Tables, GraveType
  <2>5. OnceEach => g.key = KeyOf(g.txn, DigestOf(g.txn, 1))
    BY <1>1, <2>4, FitKey DEF Fits
  <2>6. QED
    BY <2>3, <2>5 DEF JobFits
<1>4. CASE StartDecision(w)
  <2>1. PICK h \in View(w).held, kind \in {"write", "discard"} : Begin(w, Deciding(h, kind))
    BY <1>4 DEF StartDecision
  <2>2. job'[w] = Deciding(h, kind) /\ h \in HeldType
    BY <1>1, <2>1 DEF Begin, Tables
  <2>3. /\ job'[w].kind \in {"write", "discard"} /\ job'[w].plan = NoPlan
        /\ job'[w].seq = <<h.txn>> \/ job'[w].seq = <<>>
        /\ job'[w].occ = h.occ
    BY <2>2, DecidingTyped
  <2>4. First(h.txn) => h.occ = 1
    BY <1>1 DEF Fits
  <2>5. QED
    BY <2>3, <2>4 DEF JobFits
<1>5. QED
  BY <1>2, <1>3, <1>4

LEMMA FitGoesOn ==
    ASSUME IInv, FitsInv, NEW w \in Writer, Progress(w) \/ GiveUp(w)
    PROVE  JobFits(job'[w])
<1>1. job \in [Writer -> JobType] /\ job[w] \in JobType /\ JobFits(job[w])
  BY DEF IInv, TypeOK, FitsInv
<1>2. CASE PlanMovement(w)
  <2>1. job' = [job EXCEPT ![w].plan = job'[w].plan]
    BY <1>2, PlannedTyped
  <2>2. /\ job'[w].kind = job[w].kind /\ job'[w].seq = job[w].seq /\ job'[w].pos = job[w].pos
        /\ job'[w].hold = job[w].hold /\ job'[w].occ = job[w].occ /\ job'[w].ref = job[w].ref
    BY <1>1, <2>1 DEF JobType
  <2>3. job[w].pos \in 1..Len(job[w].seq)
    BY <1>1, <1>2 DEF PlanMovement, Planning, JobType
  <2>4. First(Movement(w)) => OccurrenceAt(job[w]) = 1
    BY <1>1, <2>3 DEF JobFits, Movement, OccurrenceAt
  <2>5. PICK p \in Plans(View(w), Movement(w), OccurrenceAt(job[w]), job[w].kind = "restore") :
           job'[w].plan = IF job[w].hold THEN HoldIfProbable(View(w), Movement(w), p) ELSE p
    BY <1>1, <1>2 DEF PlanMovement, JobType
  <2>9. Movement(w) \in Incoming /\ OccurrenceAt(job[w]) \in Nat \ {0}
    BY <1>1, <2>3, OccurrencePositive DEF JobType, Movement, OccurrenceAt
  <2>10. View(w) \in Tables /\ Unambiguous(View(w)) /\ Fits(View(w))
    BY DEF IInv, Sound, View, FitsInv
  <2>6. DigestFits(Movement(w), p.digest)
    BY <2>4, <2>5, <2>9, <2>10, PlanDigest
  <2>7. job'[w].plan.digest = p.digest
    <3>1. p \in PlanType
      BY <2>5, <2>9, <2>10, PlansHold
    <3>2. QED
      BY <2>5, <3>1, HoldIfProbableDigest
  <2>8. QED
    BY <1>1, <2>2, <2>6, <2>7 DEF JobFits, Movement
<1>3. CASE Absorbed(w) \/ CarryOut(w)
  <2>1. /\ job'[w].kind = job[w].kind /\ job'[w].seq = job[w].seq /\ job'[w].plan = NoPlan
        /\ job'[w].hold = job[w].hold /\ job'[w].occ = job[w].occ /\ job'[w].ref = job[w].ref
    BY <1>1, <1>3 DEF Absorbed, CarryOut, JobType
  <2>2. QED
    BY <1>1, <2>1 DEF JobFits
<1>4. CASE CommitBatch(w) \/ CommitDecision(w) \/ MarkRestored(w) \/ Refuse(w) \/ GiveUp(w)
  <2>1. job'[w] = Idle
    BY <1>1, <1>4 DEF CommitBatch, CommitDecision, MarkRestored, Refuse, GiveUp, RollBack
  <2>2. QED
    BY <2>1 DEF JobFits, Idle
<1>5. QED
  BY <1>2, <1>3, <1>4 DEF Progress

LEMMA FitsStep ==
    ASSUME IInv, FitsInv, [Next]_vars
    PROVE  FitsInv'
<1>1. \A z \in {db', work'} : Fits(z)
  <2> SUFFICES ASSUME NEW z \in {db', work'} PROVE Fits(z)
    OBVIOUS
  <2>1. CASE From(db, z) \/ From(work, z)
    BY <2>1, FromFits DEF IInv, Sound, FitsInv
  <2>2. ASSUME NEW w \in Writer, CarryOut(w),
               FromAnd(View(w), z, Movement(w), OccurrenceAt(job[w]), job[w].plan)
        PROVE  Fits(z)
    <3>1. View(w) \in Tables /\ Fits(View(w))
      BY DEF IInv, Sound, View, FitsInv
    <3>2. job[w] \in JobType /\ job[w].plan # NoPlan /\ job[w].pos <= Len(job[w].seq)
      BY <2>2 DEF CarryOut, Carrying, IInv, TypeOK, PlanInv, PlanFits
    <3>3. job[w].pos \in 1..Len(job[w].seq) /\ JobFits(job[w])
      BY <3>2 DEF JobType, FitsInv
    <3>4. First(Movement(w)) => OccurrenceAt(job[w]) = 1
      BY <3>3 DEF JobFits, Movement, OccurrenceAt
    <3>5. DigestFits(Movement(w), job[w].plan.digest)
      BY <3>2, <3>3 DEF JobFits, Movement
    <3>6. QED
      BY <2>2, <3>1, <3>4, <3>5, FromAndFits
  <2>3. QED
    BY <2>1, <2>2, TablesStep
<1>2. \A w \in Writer : JobFits(job'[w])
  <2> SUFFICES ASSUME NEW w \in Writer PROVE JobFits(job'[w])
    OBVIOUS
  <2>1. JobFits(job[w])
    BY DEF FitsInv
  <2>2. ASSUME NEW v \in Writer,
               \/ StartBatch(v) \/ StartRestore(v) \/ StartDecision(v) \/ Progress(v) \/ GiveUp(v)
        PROVE  JobFits(job'[w])
    BY <2>1, <2>2, OthersGoOn, FitBegins, FitGoesOn
  <2>3. CASE DeleteTransaction \/ SetNotes \/ SetReimportDeleted \/ UNCHANGED vars
    <3>1. job' = job
      BY <2>3 DEF DeleteTransaction, SetNotes, SetReimportDeleted, Edit, vars
    <3>2. QED
      BY <2>1, <3>1
  <2>4. QED
    BY <2>2, <2>3 DEF Next
<1>3. Fits(db)' /\ Fits(work)'
  BY <1>1 DEF Fits
<1>4. QED
  BY <1>2, <1>3 DEF FitsInv, JobFits

LEMMA FitsAlways == Spec => [](IInv /\ FitsInv)
<1>1. Init => FitsInv
  BY DEF Init, FitsInv, Fits, JobFits, EmptyTables, Idle
<1>2. IInv /\ FitsInv /\ [Next]_vars => FitsInv'
  BY FitsStep
<1>3. QED
  BY <1>1, <1>2, InvAlways, PTL DEF Spec

LEMMA RestoreStep ==
    ASSUME OnceEach, ReportsTell, IInv, FitsInv, NEW w \in Writer, PlanMovement(w),
           job[w].kind = "restore"
    PROVE  InItsPlace(w) \/ TakenForTwin(View(w), Movement(w))
<1>1. job \in [Writer -> JobType] /\ job[w] \in JobType /\ JobFits(job[w])
  BY DEF IInv, TypeOK, FitsInv
<1>2. job[w].seq \in Seq(Incoming) /\ job[w].pos \in 1..Len(job[w].seq) /\ Len(job[w].seq) = 1
  BY <1>1 DEF JobType, PlanMovement, Planning, JobFits
<1>3. job[w].pos = 1 /\ Movement(w) = job[w].seq[1] /\ Movement(w) \in Incoming
  BY <1>2 DEF Movement
<1>4. /\ job[w].ref[2] = KeyOf(Movement(w), DigestOf(Movement(w), 1))
      /\ OccurrenceAt(job[w]) = 1 /\ job[w].hold = FALSE
  BY <1>1, <1>3 DEF JobFits, OccurrenceAt, JobType
<1>5. job'[w].plan \in Plans(View(w), Movement(w), 1, TRUE)
  <2>1. PICK p \in Plans(View(w), Movement(w), 1, TRUE) :
           job' = [job EXCEPT ![w].plan = IF job[w].hold
                                          THEN HoldIfProbable(View(w), Movement(w), p) ELSE p]
    BY <1>4 DEF PlanMovement
  <2>2. job' = [job EXCEPT ![w].plan = p]
    BY <1>4, <2>1
  <2>3. job'[w] = [job[w] EXCEPT !.plan = p]
    BY <1>1, <2>2
  <2>4. job'[w].plan = p
    BY <1>1, <2>3 DEF JobType
  <2>5. QED
    BY <2>4
<1>6. View(w) \in Tables /\ Fits(View(w))
  BY DEF IInv, Sound, View, FitsInv
<1>7. RestoreFound(View(w), Movement(w), job'[w].plan, job[w].ref[2])
  BY <1>3, <1>4, <1>5, <1>6, RestorePlan
<1>8. QED
  BY <1>7 DEF RestoreFound, InItsPlace

\* However many connections record, a movement is restored under the key it was
\* deleted by, or answered by a row of that same movement; unless its id is no row's
\* and another movement of its amount waits in the window in the other status.
THEOREM RestoresUnderItsKey ==
    ASSUME OnceEach, ReportsTell
    PROVE  Spec => RestoreKeepsIdentity
<1>1. IInv /\ FitsInv /\ [Next]_vars =>
      [\A w \in Writer : PlanMovement(w) /\ job[w].kind = "restore" =>
          InItsPlace(w) \/ TakenForTwin(View(w), Movement(w))]_vars
  BY RestoreStep
<1>2. QED
  BY <1>1, FitsAlways, PTL DEF Spec, RestoreKeepsIdentity

-----------------------------------------------------------------------------
(* What accounts for a settled movement, while one recording runs at a time. *)

Settled(t) == t.status = "BOOK" /\ t.ext # None

\* The movements of a job it has already written or found nothing to write for.
Done(w) == {job[w].seq[i] : i \in {k \in DOMAIN job[w].seq : k < job[w].pos}}

\* From one state of the tables to another a settled row stays or is deleted, and
\* tombstones and held movements stay known by their keys.
Tracks(s, z) ==
    /\ \A r \in s.rows : r.txn.status = "BOOK" =>
          \/ \E q \in z.rows : SameMovement(q, r)
          \/ \E g \in z.graves : SameGrave(g, Grave(r))
    /\ KeepsGraves(s, z)
    /\ \A h \in s.held : \E k \in z.held : SameHeld(k, h)

\* Every settled movement reported, and of the open batch every one it is done
\* with, is accounted for; so is one about to be left unwritten.
AccountInv ==
    /\ \A t \in reported : Settled(t) => Accounted(db, t)
    /\ \A w \in Writer : \A t \in reported \cup Done(w) : Settled(t) => Accounted(work, t)
    /\ \A w \in Writer :
          Carrying(w) /\ job[w].plan.action \notin Writes /\ Settled(Movement(w)) =>
              Accounted(work, Movement(w))

LEMMA TracksItself == ASSUME NEW s PROVE Tracks(s, s)
BY KeepsTransitive DEF Tracks, SameMovement, SameHeld

\* Two tombstones of one key are alike in all that accounts for a movement: an
\* earlier one may be replaced.
LEMMA SameKeySame ==
    ASSUME DifferentPaths, IdsTell, NEW s \in Tables, NEW z \in Tables, Fits(s), Fits(z),
           NEW g \in s.graves, NEW f \in z.graves, RefOf(f) = RefOf(g),
           NEW t \in Incoming, Settled(t)
    PROVE  /\ StandsFor(g, t) => StandsFor(f, t)
           /\ InWindow(g.txn, t) => InWindow(f.txn, t)
           /\ f.txn.status = g.txn.status
<1>1. /\ f.txn \in Incoming /\ g.txn \in Incoming
      /\ f.txn.account = g.txn.account /\ KeyOf(f.txn, f.digest) = KeyOf(g.txn, g.digest)
      /\ f.digest.content = ContentOf(f.txn) /\ g.digest.content = ContentOf(g.txn)
  BY DEF Fits, DigestFits, RefOf, Tables, GraveType
<1>2. f.txn.ext = g.txn.ext /\ (f.txn.ext = None => f.digest = g.digest)
  BY <1>1 DEF KeyOf
<1>3. ContentOf(f.txn) = ContentOf(g.txn)
  <2>1. CASE f.txn.ext = None
    BY <1>1, <1>2, <2>1
  <2>2. CASE f.txn.ext # None
    BY <1>1, <1>2, <2>2 DEF IdsTell
  <2>3. QED
    BY <2>1, <2>2
<1>4. f.txn.status = g.txn.status /\ (f.txn.ext # None => f.txn.source = g.txn.source)
  BY <1>1, <1>2, <1>3 DEF IdsTell
<1>5. f.txn.account = g.txn.account /\ f.txn.date = g.txn.date /\ f.txn.amount = g.txn.amount
  BY <1>3 DEF ContentOf
<1>6. InWindow(g.txn, t) => InWindow(f.txn, t)
  BY <1>5 DEF InWindow, SameAmount, Near
<1>7. StandsFor(g, t) => StandsFor(f, t)
  <2>1. CASE f.txn.ext = None
    <3>1. ContentOf(g.txn) = ContentOf(t) => f.txn.source # t.source
      BY <1>1, <1>3, <2>1 DEF DifferentPaths, Settled
    <3>2. QED
      BY <1>1, <1>2, <1>3, <3>1 DEF StandsFor
  <2>2. CASE f.txn.ext # None
    BY <1>1, <1>2, <1>3, <1>4, <2>2 DEF StandsFor
  <2>3. QED
    BY <2>1, <2>2
<1>8. QED
  BY <1>4, <1>6, <1>7

\* What accounts for a movement goes on accounting for it.
LEMMA TrackedAccounted ==
    ASSUME DifferentPaths, IdsTell, NEW s \in Tables, NEW z \in Tables, Fits(s), Fits(z),
           Tracks(s, z), NEW t \in Incoming, Settled(t), Accounted(s, t)
    PROVE  Accounted(z, t)
<1>1. ASSUME NEW r \in s.rows, r.txn.status = "BOOK", StandsFor(r, t) PROVE Accounted(z, t)
  <2>1. CASE \E q \in z.rows : SameMovement(q, r)
    BY <1>1, <2>1 DEF SameMovement, Accounted, StandsFor
  <2>2. CASE \E g \in z.graves : SameGrave(g, Grave(r))
    BY <1>1, <2>2 DEF SameGrave, SameMovement, Grave, Accounted, StandsFor
  <2>3. QED
    BY <1>1, <2>1, <2>2 DEF Tracks
<1>2. ASSUME NEW g \in s.graves,
             StandsFor(g, t) \/ (InWindow(g.txn, t) /\ g.txn.status # t.status)
      PROVE  Accounted(z, t)
  <2>1. PICK f \in z.graves : RefOf(f) = RefOf(g)
    BY DEF Tracks, KeepsGraves
  <2>2. /\ StandsFor(g, t) => StandsFor(f, t)
        /\ InWindow(g.txn, t) => InWindow(f.txn, t)
        /\ f.txn.status = g.txn.status
    BY <2>1, SameKeySame
  <2>3. QED
    BY <1>2, <2>2 DEF Accounted
<1>3. ASSUME NEW h \in s.held, h.txn.account = t.account /\ h.txn.ext = t.ext
      PROVE  Accounted(z, t)
  BY <1>3 DEF Tracks, SameHeld, Accounted
<1>4. QED
  BY <1>1, <1>2, <1>3 DEF Accounted

\* A plan that writes nothing has found what accounts for the movement.
LEMMA PlanAccounts ==
    ASSUME DifferentPaths, NEW s \in Tables, Fits(s), NEW t \in Incoming, Settled(t),
           NEW occ, NEW restoring, NEW p \in Plans(s, t, occ, restoring)
    PROVE  /\ p.action \in {"duplicate", "suppressed"} => Accounted(s, t)
           /\ p.action \in {"duplicate", "suppressed", "promoted", "inserted", "reimported"}
<1> DEFINE base     == DigestOf(t, occ)
           known    == FindByExternalId(s.rows, t)
           twins    == FindByContentHash(s.rows, base)
           digest   == IF \E r \in twins : Distinct(r, t)
                       THEN [base EXCEPT !.ext = t.ext] ELSE base
           same     == {r \in twins : ~Distinct(r, t)}
           opposite == FindOppositeStatus(s.rows, t)
           buried   == IF restoring THEN {} ELSE Tombstones(s.graves, t, digest)
           Back(k)  == [Planned("reimported", digest) EXCEPT !.grave = k]
           Goal     == /\ p.action \in {"duplicate", "suppressed"} => Accounted(s, t)
                       /\ p.action \in {"duplicate", "suppressed", "promoted", "inserted", "reimported"}
<1>1. \/ \E r \in known : p = Absorb(r, t, base)
      \/ \E r \in same : p = Absorb(r, t, base)
      \/ \E r \in opposite : p = Absorb(r, t, digest)
      \/ p = Planned("inserted", digest)
      \/ p = Planned("suppressed", digest) /\ buried # {}
      \/ \E k : p = Back(k)
  BY DEF Plans
<1>2. ASSUME NEW r \in s.rows, NEW d, p = Absorb(r, t, d)
      PROVE  /\ p.action \in {"promoted", "duplicate"}
             /\ p.action = "duplicate" => r.txn.status = "BOOK"
  <2>1. r.txn \in IncomingTransaction
    BY IncomingTyped DEF Tables, RowType
  <2>2. r.txn.status \in {"BOOK", "PDNG"} /\ t.status = "BOOK"
    BY <2>1 DEF IncomingTransaction, Status, Settled
  <2>3. QED
    BY <1>2, <2>2 DEF Absorb, Planned
<1>3. ASSUME NEW r \in known, p = Absorb(r, t, base) PROVE Goal
  <2>1. r \in s.rows /\ StandsFor(r, t)
    BY DEF FindByExternalId, StandsFor
  <2>2. QED
    BY <1>2, <1>3, <2>1 DEF Accounted
<1>4. ASSUME NEW r \in same, p = Absorb(r, t, base) PROVE Goal
  <2>1. r \in s.rows /\ r.digest = base /\ ~Distinct(r, t) /\ r.txn \in Incoming
    BY DEF FindByContentHash, Tables, RowType
  <2>2. r.digest.content = ContentOf(t) /\ ContentOf(r.txn) = ContentOf(t)
    BY <2>1 DEF Fits, DigestFits, DigestOf
  <2>3. r.txn.account = t.account
    BY <2>2 DEF ContentOf
  <2>4. r.txn.ext = t.ext \/ r.txn.source # t.source
    BY <2>1, <2>2 DEF DifferentPaths, Distinct, Settled
  <2>5. StandsFor(r, t)
    BY <2>2, <2>3, <2>4 DEF StandsFor
  <2>6. QED
    BY <1>2, <1>4, <2>1, <2>5 DEF Accounted
<1>5. ASSUME NEW r \in opposite, p = Absorb(r, t, digest) PROVE Goal
  <2>1. r \in s.rows /\ r.txn.status # "BOOK"
    BY DEF FindOppositeStatus, Settled
  <2>2. QED
    BY <1>2, <1>5, <2>1
<1>6. ASSUME p = Planned("suppressed", digest), buried # {} PROVE Goal
  <2>1. PICK g \in s.graves : Buries(g, t, digest)
    BY <1>6 DEF Tombstones
  <2>2. g.txn.account = t.account /\ g.txn \in Incoming
    BY <2>1 DEF Buries, Tables, GraveType
  <2>3. CASE g.key = KeyOf(t, digest)
    <3>1. g.key = <<"ext", t.ext>> /\ g.key = KeyOf(g.txn, g.digest)
      BY <2>3 DEF KeyOf, Settled, Fits
    <3>2. g.txn.ext = t.ext
      BY <3>1 DEF KeyOf
    <3>3. QED
      BY <1>6, <2>2, <3>2 DEF Accounted, StandsFor, Planned
  <2>4. CASE g.digest = digest /\ g.txn.source # t.source
    <3>1. g.digest.content = ContentOf(t)
      BY <2>4 DEF DigestOf
    <3>2. QED
      BY <1>6, <2>2, <2>4, <3>1 DEF Accounted, StandsFor, Planned
  <2>5. CASE SameAmount(g.txn, t) /\ Near(g.txn, t) /\ g.txn.status # t.status
    BY <1>6, <2>5 DEF Accounted, InWindow, Planned
  <2>6. QED
    BY <2>1, <2>3, <2>4, <2>5 DEF Buries
<1>7. ASSUME p = Planned("inserted", digest) \/ \E k : p = Back(k) PROVE Goal
  <2>1. Planned("inserted", digest).action = "inserted" /\ \A k : Back(k).action = "reimported"
    BY DEF Planned
  <2> HIDE DEF digest, Back
  <2>2. QED
    BY <1>7, <2>1
<1> HIDE DEF known, same, opposite, buried, digest, base, Back, Goal
<1>8. Goal
  BY <1>1, <1>3, <1>4, <1>5, <1>6, <1>7
<1>9. QED
  BY <1>8 DEF Goal

LEMMA HoldAccounts ==
    ASSUME NEW s \in Tables, Fits(s), NEW t \in Incoming, Settled(t), NEW p \in PlanType,
           p.action \in {"duplicate", "suppressed"} => Accounted(s, t),
           p.action \in {"duplicate", "suppressed", "promoted", "inserted", "reimported"},
           HoldIfProbable(s, t, p).action \notin Writes
    PROVE  Accounted(s, t)
<1> DEFINE q == HoldIfProbable(s, t, p)
<1>1. CASE q = p
  BY <1>1 DEF Writes
<1>2. CASE q # p
  <2>1. HeldRow(s.held, t, p.digest) # {}
    BY <1>2 DEF HoldIfProbable, Writes, PlanType
  <2>2. PICK h \in s.held : h.txn.account = t.account /\ h.key = KeyOf(t, p.digest)
    BY <2>1 DEF HeldRow
  <2>3. t.ext \in Ext /\ h.key = <<"ext", t.ext>>
    BY <2>2, IncomingTyped DEF KeyOf, Settled, IncomingTransaction
  <2>4. h.txn.ext = t.ext
    BY <2>3 DEF Fits
  <2>5. QED
    BY <2>2, <2>4 DEF Accounted
<1>3. QED
  BY <1>1, <1>2

\* A plan that is written leaves what accounts for its movement, and for all that
\* was accounted for.
LEMMA WrittenAccounts ==
    ASSUME NEW s \in Tables, NEW t \in Incoming, Settled(t), NEW occ, NEW p,
           p.action \in Writes, ~Refused(s, t, p)
    PROVE  Accounted(Written(s, t, occ, p), t)
<1> DEFINE z == Written(s, t, occ, p)
<1>1. SUFFICES ASSUME p.action # "hold" PROVE \E r \in z.rows : r.txn = t
  <2>1. (\E r \in z.rows : r.txn = t) => Accounted(z, t)
    BY DEF Accounted, StandsFor, Settled
  <2>2. CASE p.action = "hold"
    <3> DEFINE new == [key |-> KeyOf(t, p.digest), txn |-> t, occ |-> occ, decision |-> "pending"]
    <3>1. z.held = s.held \cup {new}
      BY <2>2 DEF Written, HoldRow, Tables
    <3>2. new \in z.held /\ new.txn = t
      BY <3>1
    <3> HIDE DEF new, z
    <3>3. QED
      BY <3>2 DEF Accounted, z
  <2>3. QED
    BY <2>1, <2>2
<1>2. CASE p.action = "inserted"
  <2> DEFINE new == [id |-> NextId(s.rows), txn |-> t, digest |-> p.digest, note |-> None]
  <2>1. z.rows = s.rows \cup {new}
    BY <1>2 DEF Written, InsertRow, Tables
  <2>2. new \in z.rows /\ new.txn = t
    BY <2>1
  <2>3. QED
    BY <2>2
<1>3. CASE p.action = "promoted"
  <2>1. PICK r \in s.rows : r.id = p.row
    BY <1>3 DEF Refused
  <2>2. z.rows = {IF q.id = p.row THEN [q EXCEPT !.txn = t, !.digest = p.digest] ELSE q : q \in s.rows}
    BY <1>3 DEF Written, PromoteRow, Tables
  <2>3. [r EXCEPT !.txn = t, !.digest = p.digest] \in z.rows
    BY <2>1, <2>2
  <2>4. [r EXCEPT !.txn = t, !.digest = p.digest].txn = t
    BY DEF Tables, RowType
  <2>5. QED
    BY <2>3, <2>4
<1>4. CASE p.action = "reimported"
  <2>1. PICK note : z = SetRestored(InsertRow(s, t, p.digest, note), <<t.account, p.grave>>)
    BY <1>4 DEF Written, Reimport
  <2> DEFINE y   == InsertRow(s, t, p.digest, note)
             new == [id |-> NextId(s.rows), txn |-> t, digest |-> p.digest, note |-> note]
  <2>2. y.rows = s.rows \cup {new} /\ y = [s EXCEPT !.rows = y.rows]
    BY DEF InsertRow, Tables
  <2>3. z.rows = y.rows
    BY <2>1, <2>2 DEF SetRestored, Tables
  <2>4. new \in z.rows /\ new.txn = t
    BY <2>2, <2>3
  <2>5. QED
    BY <2>4
<1>5. QED
  BY <1>1, <1>2, <1>3, <1>4 DEF Writes

LEMMA SettledTracks ==
    ASSUME NEW s, NEW z, KeepsSettled(s, z), KeepsGraves(s, z),
           \A h \in s.held : \E k \in z.held : SameHeld(k, h)
    PROVE  Tracks(s, z)
BY DEF KeepsSettled, Tracks, SameMovement

LEMMA SetDecisionTracks ==
    ASSUME NEW s \in Tables, NEW ref, NEW decision
    PROVE  Tracks(s, SetDecision(s, ref, decision))
<1> DEFINE Image(h) == IF Named(h, ref) THEN [h EXCEPT !.decision = decision] ELSE h
           z == SetDecision(s, ref, decision)
<1>1. z.held = {Image(h) : h \in s.held} /\ z.rows = s.rows /\ z.graves = s.graves
  BY DEF SetDecision, Tables
<1>2. \A h \in s.held : SameHeld(Image(h), h)
  BY DEF Tables, HeldType, SameHeld
<1> HIDE DEF Image
<1>3. \A h \in s.held : \E k \in z.held : SameHeld(k, h)
  BY <1>1, <1>2
<1>4. KeepsSettled(s, z) /\ KeepsGraves(s, z)
  BY <1>1 DEF KeepsSettled, KeepsGraves
<1>5. QED
  BY <1>3, <1>4, SettledTracks

LEMMA RequestTracks ==
    ASSUME IInv, DeleteTransaction \/ SetNotes \/ SetReimportDeleted
    PROVE  Tracks(db, db') /\ lock = None /\ lock' = None /\ work' = db' /\ UNCHANGED <<job, reported>>
<1>1. lock = None /\ lock' = None /\ work' = db' /\ UNCHANGED <<job, reported>>
  BY DEF DeleteTransaction, SetNotes, SetReimportDeleted, Edit
<1>2. Sound(db) /\ db \in Tables
  BY DEF IInv, Sound
<1>3. CASE DeleteTransaction
  <2>1. PICK r \in db.rows : db' = DeleteRow(db, r)
    BY <1>3 DEF DeleteTransaction, Edit
  <2>2. /\ KeepsGraves(db, db') /\ db'.held = db.held
        /\ db'.rows = db.rows \ {r} /\ Grave(r) \in db'.graves
    BY <1>2, <2>1, DeleteRowSound
  <2>3. QED
    BY <1>1, <2>2 DEF Tracks, SameMovement, SameGrave, SameHeld
<1>4. CASE SetNotes
  <2>1. PICK r \in db.rows, n \in Note \cup {None} : db' = SetNoteOf(db, r.id, n)
    BY <1>4 DEF SetNotes, Edit
  <2>2. KeepsSettled(db, db') /\ db'.graves = db.graves /\ db'.held = db.held
    BY <1>2, <2>1, SetNoteSound
  <2>3. QED
    BY <1>1, <2>2, SettledTracks DEF KeepsGraves, SameHeld
<1>6. CASE SetReimportDeleted
  <2>1. db'.rows = db.rows /\ db'.graves = db.graves /\ db'.held = db.held
    BY <1>2, <1>6 DEF SetReimportDeleted, Edit, Tables
  <2>2. QED
    BY <1>1, <2>1, SettledTracks DEF KeepsSettled, KeepsGraves, SameHeld
<1>7. QED
  BY <1>3, <1>4, <1>6

\* What a job is done with, before and after a step of it.
LEMMA DoneBegins ==
    ASSUME IInv, NEW w \in Writer, StartBatch(w) \/ StartRestore(w) \/ StartDecision(w)
    PROVE  Done(w)' = {} /\ job'[w].plan = NoPlan /\ job'[w].pos = 1
<1>1. job \in [Writer -> JobType] /\ job' \in [Writer -> JobType]
  BY StartStep DEF IInv, TypeOK
<1>2. job'[w].pos = 1 /\ job'[w].plan = NoPlan
  <2>1. ASSUME NEW j, Begin(w, j), j.pos = 1, j.plan = NoPlan
        PROVE  job'[w].pos = 1 /\ job'[w].plan = NoPlan
    BY <1>1, <2>1 DEF Begin
  <2>2. CASE StartBatch(w)
    BY <2>1, <2>2 DEF StartBatch, Idle
  <2>3. CASE StartRestore(w)
    BY <2>1, <2>3 DEF StartRestore, Idle
  <2>4. CASE StartDecision(w)
    BY <2>1, <2>4 DEF StartDecision, Deciding, Idle
  <2>5. QED
    BY <2>2, <2>3, <2>4
<1>3. \A k \in DOMAIN job'[w].seq : ~(k < 1)
  BY <1>1 DEF JobType
<1>4. QED
  BY <1>2, <1>3 DEF Done

LEMMA DoneGoesOn ==
    ASSUME IInv, NEW w \in Writer, Absorbed(w) \/ CarryOut(w)
    PROVE  Done(w)' = Done(w) \cup {Movement(w)} /\ job'[w].plan = NoPlan
<1>1. job \in [Writer -> JobType] /\ job[w] \in JobType
  BY DEF IInv, TypeOK
<1>2. job'[w].seq = job[w].seq /\ job'[w].pos = job[w].pos + 1 /\ job'[w].plan = NoPlan
  BY <1>1 DEF Absorbed, CarryOut, JobType
<1>3. job[w].pos \in DOMAIN job[w].seq /\ DOMAIN job[w].seq \subseteq Nat
  BY <1>1 DEF Absorbed, CarryOut, IInv, PlanInv, PlanFits, JobType
<1>4. \A k \in DOMAIN job[w].seq : k < job[w].pos + 1 <=> k < job[w].pos \/ k = job[w].pos
  BY <1>3
<1>5. QED
  BY <1>2, <1>3, <1>4 DEF Done, Movement

LEMMA DoneEnds ==
    ASSUME IInv, NEW w \in Writer,
           CommitBatch(w) \/ CommitDecision(w) \/ MarkRestored(w) \/ Refuse(w) \/ GiveUp(w)
    PROVE  Done(w)' = {} /\ job'[w].plan = NoPlan
<1>1. job'[w] = Idle
  BY DEF CommitBatch, CommitDecision, MarkRestored, Refuse, GiveUp, RollBack, IInv, TypeOK
<1>2. Idle.seq = <<>> /\ Idle.plan = NoPlan
  BY DEF Idle
<1>3. QED
  BY <1>1, <1>2 DEF Done

\* The end of a batch reports what the job is done with.
LEMMA DoneReported ==
    ASSUME IInv, NEW w \in Writer, CommitBatch(w)
    PROVE  reported' = reported \cup Done(w)
<1>1. job[w] \in JobType
  BY DEF IInv, TypeOK
<1>2. \A i \in DOMAIN job[w].seq : i < job[w].pos
  BY <1>1 DEF CommitBatch, Recorded, JobType
<1>3. QED
  BY <1>2 DEF CommitBatch, Done

LEMMA DoneIncoming ==
    ASSUME IInv, NEW w \in Writer
    PROVE  Done(w) \subseteq Incoming
<1>1. job[w].seq \in Seq(Incoming)
  BY DEF IInv, TypeOK, JobType
<1>2. \A i \in DOMAIN job[w].seq : job[w].seq[i] \in Incoming
  BY <1>1
<1>3. QED
  BY <1>2 DEF Done

\* The tables a step leaves are those it found, or track them.
LEMMA TrackedStep ==
    ASSUME DifferentPaths, IdsTell, IInv, IInv', FitsInv, FitsInv',
           NEW t \in Incoming, Settled(t)
    PROVE  \A s \in {db, work} : \A z \in {db', work'} :
              Tracks(s, z) /\ Accounted(s, t) => Accounted(z, t)
<1>1. \A s \in {db, work} : s \in Tables /\ Fits(s)
  BY DEF IInv, Sound, FitsInv
<1>2. \A z \in {db', work'} : z \in Tables /\ Fits(z)
  BY DEF IInv, Sound, FitsInv, Fits
<1>3. QED
  BY <1>1, <1>2, TrackedAccounted

\* What AccountInv says of the tables alone, for the one connection there is.
LEMMA AccountTables ==
    ASSUME OneRecording, NEW w \in Writer, job'[w].plan = NoPlan,
           \A t \in reported' : Settled(t) => Accounted(db', t),
           \A t \in reported' \cup Done(w)' : Settled(t) => Accounted(work', t)
    PROVE  AccountInv'
<1>1. \A v \in Writer : v = w
  BY DEF OneRecording
<1>2. (\A t \in reported : Settled(t) => Accounted(db, t))'
  BY DEF Accounted, StandsFor
<1>3. (\A v \in Writer : \A t \in reported \cup Done(v) : Settled(t) => Accounted(work, t))'
  BY <1>1 DEF Accounted, StandsFor
<1>4. \A v \in Writer : ~Carrying(v)'
  BY <1>1 DEF Carrying
<1>5. QED
  BY <1>2, <1>3, <1>4 DEF AccountInv

LEMMA AccountJob ==
    ASSUME OneRecording, DifferentPaths, IInv, AloneInv, FitsInv, AccountInv, NEW w \in Writer,
           \/ StartBatch(w) \/ StartRestore(w) \/ StartDecision(w)
           \/ PlanMovement(w) \/ Absorbed(w)
    PROVE  AccountInv'
<1>1. UNCHANGED <<db, work, reported>>
  BY DEF StartBatch, StartRestore, StartDecision, Begin, PlanMovement, Absorbed
<1>2. CASE StartBatch(w) \/ StartRestore(w) \/ StartDecision(w)
  BY <1>1, <1>2, DoneBegins, AccountTables DEF AccountInv
<1>3. CASE Absorbed(w)
  <2>1. Done(w)' = Done(w) \cup {Movement(w)} /\ job'[w].plan = NoPlan
    BY <1>3, DoneGoesOn
  <2>2. Settled(Movement(w)) => Accounted(work, Movement(w))
    BY <1>3 DEF Absorbed, AccountInv
  <2>3. QED
    BY <1>1, <2>1, <2>2, AccountTables DEF AccountInv
<1>4. CASE PlanMovement(w)
  <2> DEFINE t == Movement(w)
  <2>1. job \in [Writer -> JobType] /\ job[w] \in JobType
    BY DEF IInv, TypeOK
  <2>2. job' = [job EXCEPT ![w].plan = job'[w].plan]
    BY <1>4, PlannedTyped
  <2>3. job'[w].seq = job[w].seq /\ job'[w].pos = job[w].pos
    BY <2>1, <2>2 DEF JobType
  <2>4. Done(w)' = Done(w) /\ Movement(w)' = Movement(w)
    BY <2>3 DEF Done, Movement
  <2>5. View(w) = work /\ work \in Tables /\ Unambiguous(work) /\ Fits(work)
    BY AloneView DEF IInv, Sound, FitsInv
  <2>6. t \in Incoming /\ OccurrenceAt(job[w]) \in Nat \ {0}
    <3>1. job[w].pos \in 1..Len(job[w].seq)
      BY <1>4, <2>1 DEF PlanMovement, Planning, JobType
    <3>2. QED
      BY <2>1, <3>1, OccurrencePositive DEF JobType, Movement, OccurrenceAt
  <2>7. PICK p \in Plans(work, t, OccurrenceAt(job[w]), job[w].kind = "restore") :
           job'[w].plan = IF job[w].hold THEN HoldIfProbable(work, t, p) ELSE p
    BY <1>4, <2>1, <2>5 DEF PlanMovement, JobType
  <2>8. ASSUME Settled(t), job'[w].plan.action \notin Writes PROVE Accounted(work, t)
    <3>1. p \in PlanType
      BY <2>5, <2>6, <2>7, PlansHold
    <3>2. /\ p.action \in {"duplicate", "suppressed"} => Accounted(work, t)
          /\ p.action \in {"duplicate", "suppressed", "promoted", "inserted", "reimported"}
      BY <2>5, <2>6, <2>7, <2>8, PlanAccounts
    <3>3. CASE job[w].hold
      BY <2>5, <2>6, <2>7, <2>8, <3>1, <3>2, <3>3, HoldAccounts
    <3>4. CASE ~job[w].hold
      BY <2>7, <2>8, <3>2, <3>4 DEF Writes
    <3>5. QED
      BY <3>3, <3>4
  <2>9. \A v \in Writer : v = w
    BY DEF OneRecording
  <2>10. (\A u \in reported : Settled(u) => Accounted(db, u))'
    BY <1>1 DEF AccountInv, Accounted, StandsFor
  <2>11. (\A v \in Writer : \A u \in reported \cup Done(v) : Settled(u) => Accounted(work, u))'
    BY <1>1, <2>4, <2>9 DEF AccountInv, Accounted, StandsFor
  <2>12. (\A v \in Writer :
             Carrying(v) /\ job[v].plan.action \notin Writes /\ Settled(Movement(v)) =>
                 Accounted(work, Movement(v)))'
    BY <1>1, <2>4, <2>8, <2>9 DEF Accounted, StandsFor
  <2>13. QED
    BY <2>10, <2>11, <2>12 DEF AccountInv
<1>5. QED
  BY <1>2, <1>3, <1>4

LEMMA AccountCarryOut ==
    ASSUME OneRecording, DifferentPaths, IdsTell, IInv, IInv', AloneInv, FitsInv, FitsInv',
           AccountInv, NEW w \in Writer, CarryOut(w)
    PROVE  AccountInv'
<1>1. View(w) = work /\ Sound(work)
  BY AloneView DEF IInv
<1>2. KeepsSettled(work, work') /\ KeepsGraves(work, work')
  BY <1>1, CarryOutWrites DEF CarryOut, AloneInv, PlanStillHolds
<1>3. /\ work' = Written(work, Movement(w), OccurrenceAt(job[w]), job[w].plan)
      /\ job[w].plan.action \in Writes /\ ~Refused(work, Movement(w), job[w].plan)
      /\ db' \in {db, work'} /\ reported' = reported
  BY <1>1 DEF CarryOut
<1>4. work.held \subseteq work'.held
  BY <1>1, <1>3, WrittenHeld
<1>5. Tracks(work, work')
  BY <1>2, <1>4, SettledTracks DEF SameHeld
<1>6. Done(w)' = Done(w) \cup {Movement(w)} /\ job'[w].plan = NoPlan
  BY DoneGoesOn
<1>7. Movement(w) \in Incoming /\ work \in Tables
  BY <1>1, CarriedTyped DEF CarryOut, Sound
<1>8. Settled(Movement(w)) => Accounted(work', Movement(w))
  BY <1>3, <1>7, WrittenAccounts
<1>9. \A t \in reported \cup Done(w) : Settled(t) => t \in Incoming /\ Accounted(work, t)
  BY DoneIncoming DEF AccountInv, IInv, TypeOK
<1>10. \A t \in reported \cup Done(w) : Settled(t) => Accounted(work', t)
  BY <1>5, <1>9, TrackedStep
<1>11. \A t \in reported : Settled(t) => Accounted(db', t)
  BY <1>3, <1>10 DEF AccountInv
<1>12. QED
  BY <1>3, <1>6, <1>8, <1>10, <1>11, AccountTables

LEMMA AccountEnd ==
    ASSUME OneRecording, DifferentPaths, IdsTell, IInv, IInv', AloneInv, FitsInv, FitsInv',
           AccountInv, NEW w \in Writer,
           CommitBatch(w) \/ CommitDecision(w) \/ MarkRestored(w) \/ Refuse(w) \/ GiveUp(w)
    PROVE  AccountInv'
<1>1. Done(w)' = {} /\ job'[w].plan = NoPlan
  BY DoneEnds
<1>2. View(w) = work /\ lock \in {None, w} /\ Sound(work) /\ work \in Tables
      /\ (lock = None => work = db)
  BY AloneView DEF IInv, Sound, LockInv
<1>3. \A t \in reported \cup Done(w) : Settled(t) => t \in Incoming /\ Accounted(work, t)
  BY DoneIncoming DEF AccountInv, IInv, TypeOK
<1>4. CASE CommitBatch(w)
  BY <1>1, <1>2, <1>3, <1>4, DoneReported, AccountTables DEF CommitBatch
<1>5. CASE CommitDecision(w)
  <2>1. db' = SetDecision(work, job[w].ref, Decided(job[w].kind)) /\ work' = db' /\ reported' = reported
    BY <1>2, <1>5 DEF CommitDecision
  <2>2. Tracks(work, db')
    BY <1>2, <2>1, SetDecisionTracks
  <2>3. \A t \in reported : Settled(t) => Accounted(db', t)
    BY <1>3, <2>2, TrackedStep
  <2>4. QED
    BY <1>1, <2>1, <2>3, AccountTables
<1>6. CASE MarkRestored(w)
  <2> DEFINE y == IF job[w].note = None THEN db ELSE SetNoteOf(db, job[w].row, job[w].note)
  <2>1. job[w].note \in Note \cup {None} /\ Sound(db)
    BY DEF IInv, TypeOK, JobType
  <2>2. Sound(y) /\ y.graves = db.graves /\ y.held = db.held
    BY <2>1, SetNoteSound
  <2>3. db' = SetRestored(y, job[w].ref) /\ work' = db' /\ reported' = reported /\ work = db
    BY <1>2, <1>6 DEF MarkRestored
  <2>4. KeepsGraves(y, db') /\ db'.held = y.held
    BY <2>2, <2>3, SetRestoredSound
  <2>5. KeepsSettled(db, db')
    BY <1>6, AloneEnd
  <2>6. Tracks(db, db')
    BY <2>2, <2>4, <2>5, SettledTracks DEF KeepsGraves, SameHeld
  <2>7. \A t \in reported : Settled(t) => Accounted(db', t)
    BY <1>3, <2>3, <2>6, TrackedStep
  <2>8. QED
    BY <1>1, <2>3, <2>7, AccountTables
<1>7. CASE Refuse(w) \/ GiveUp(w)
  <2>1. db' = db /\ work' = db /\ reported' = reported
    BY <1>2, <1>7 DEF Refuse, GiveUp, RollBack
  <2>2. QED
    BY <1>1, <2>1, AccountTables DEF AccountInv
<1>8. QED
  BY <1>4, <1>5, <1>6, <1>7

LEMMA AccountRequest ==
    ASSUME DifferentPaths, IdsTell, IInv, IInv', FitsInv, FitsInv', AccountInv,
           DeleteTransaction \/ SetNotes \/ SetReimportDeleted
    PROVE  AccountInv'
<1>1. /\ Tracks(db, db') /\ work = db /\ work' = db'
      /\ UNCHANGED <<job, reported>>
  BY RequestTracks DEF IInv, LockInv
<1>2. \A t \in Incoming : Settled(t) /\ Accounted(db, t) => Accounted(db', t)
  BY <1>1, TrackedStep
<1>3. (\A t \in reported : Settled(t) => Accounted(db, t))'
  <2>1. \A t \in reported : Settled(t) => Accounted(db', t)
    BY <1>2 DEF AccountInv, IInv, TypeOK
  <2>2. QED
    BY <1>1, <2>1 DEF Accounted, StandsFor
<1>4. (\A w \in Writer : \A t \in reported \cup Done(w) : Settled(t) => Accounted(work, t))'
  <2>1. \A w \in Writer : Done(w)' = Done(w)
    BY <1>1 DEF Done
  <2>2. \A w \in Writer : \A t \in reported \cup Done(w) : Settled(t) => Accounted(db', t)
    BY <1>1, <1>2, DoneIncoming DEF AccountInv, IInv, TypeOK
  <2>3. QED
    BY <1>1, <2>1, <2>2 DEF Accounted, StandsFor
<1>5. (\A w \in Writer :
          Carrying(w) /\ job[w].plan.action \notin Writes /\ Settled(Movement(w)) =>
              Accounted(work, Movement(w)))'
  <2>1. SUFFICES ASSUME NEW w \in Writer, Carrying(w)', job'[w].plan.action \notin Writes,
                        Settled(Movement(w)')
                 PROVE  Accounted(work', Movement(w)')
    BY DEF Accounted, StandsFor
  <2>2. Movement(w)' = Movement(w) /\ Carrying(w) /\ job'[w].plan = job[w].plan
    BY <1>1, <2>1 DEF Movement, Carrying
  <2>3. Movement(w) \in Incoming
    BY <2>2, CarriedTyped
  <2>4. Settled(Movement(w)) /\ Accounted(work, Movement(w))
    BY <2>1, <2>2 DEF AccountInv
  <2>5. Accounted(db, Movement(w))
    BY <1>1, <2>4
  <2>6. Accounted(db', Movement(w))
    BY <1>2, <2>3, <2>4, <2>5
  <2>7. QED
    BY <1>1, <2>2, <2>6
<1>6. QED
  BY <1>3, <1>4, <1>5 DEF AccountInv

LEMMA AccountStep ==
    ASSUME OneRecording, DifferentPaths, IdsTell, IInv, IInv', AloneInv, FitsInv, FitsInv',
           AccountInv, [Next]_vars
    PROVE  AccountInv'
<1>1. CASE UNCHANGED vars
  <2>1. UNCHANGED <<db, work, job, reported>>
    BY <1>1 DEF vars
  <2>2. \A w \in Writer : /\ Done(w)' = Done(w) /\ Movement(w)' = Movement(w)
                          /\ Carrying(w)' = Carrying(w)
    BY <2>1 DEF Done, Movement, Carrying
  <2>3. (\A t \in reported : Settled(t) => Accounted(db, t))'
    BY <2>1 DEF AccountInv, Accounted, StandsFor
  <2>4. (\A w \in Writer : \A t \in reported \cup Done(w) : Settled(t) => Accounted(work, t))'
    BY <2>1, <2>2 DEF AccountInv, Accounted, StandsFor
  <2>5. (\A w \in Writer :
            Carrying(w) /\ job[w].plan.action \notin Writes /\ Settled(Movement(w)) =>
                Accounted(work, Movement(w)))'
    BY <2>1, <2>2 DEF AccountInv, Accounted, StandsFor
  <2>6. QED
    BY <2>3, <2>4, <2>5 DEF AccountInv
<1>2. ASSUME NEW w \in Writer,
             \/ StartBatch(w) \/ StartRestore(w) \/ StartDecision(w) \/ Progress(w) \/ GiveUp(w)
      PROVE  AccountInv'
  BY <1>2, AccountJob, AccountCarryOut, AccountEnd DEF Progress
<1>3. CASE DeleteTransaction \/ SetNotes \/ SetReimportDeleted
  BY <1>3, AccountRequest
<1>4. QED
  BY <1>1, <1>2, <1>3 DEF Next

\* While one recording runs at a time, no settled movement the bank reports under
\* an id of its own is lost: whatever is promoted, deleted, restored, held or
\* decided since, a settled row, a tombstone or a held movement stands for it.
THEOREM SettledIsAccounted ==
    ASSUME OneRecording, DifferentPaths, IdsTell
    PROVE  Spec => []SettledAccounted
<1>1. Init => AccountInv
  BY DEF Init, AccountInv, Done, Idle, NoPlan, Carrying
<1>2. IInv /\ IInv' /\ AloneInv /\ FitsInv /\ FitsInv' /\ AccountInv /\ [Next]_vars => AccountInv'
  BY AccountStep
<1>3. AccountInv => SettledAccounted
  BY DEF AccountInv, SettledAccounted, Settled
<1>4. QED
  BY <1>1, <1>2, <1>3, AloneAlways, FitsAlways, PTL DEF Spec

-----------------------------------------------------------------------------
(* Notes, while one recording runs at a time.                              *)

\* Each row is still the movement it was, or what the bank settled it as, with its
\* note.
KeepsMovements(s, z) ==
    \A r \in s.rows : \E q \in z.rows :
        q.id = r.id /\ q.note = r.note /\ (q.txn = r.txn \/ Settles(r.txn, q.txn))

\* The row a plan promotes is the movement's own, by its id or by the window.
PromotesOwn(s, t, p) ==
    p.action = "promoted" => \A r \in s.rows : r.id = p.row => Settles(r.txn, t)

\* The row a restore has written, and will hand the note to, is of its movement.
Handed(j, s) ==
    j.kind = "restore" /\ j.pos > Len(j.seq) /\ j.note # None =>
        \A q \in s.rows : q.id = j.row => q.txn = j.seq[1]

NoteInv ==
    /\ KeepsMovements(db, work)
    /\ \A w \in Writer : /\ Carrying(w) => PromotesOwn(work, Movement(w), job[w].plan)
                         /\ Handed(job[w], db)

LEMMA MovementsTransitive ==
    ASSUME NEW s, NEW y, NEW z
    PROVE  /\ KeepsMovements(s, s)
           /\ KeepsMovements(s, y) /\ KeepsMovements(y, z) => KeepsMovements(s, z)
<1>1. KeepsMovements(s, s)
  BY DEF KeepsMovements
<1>2. ASSUME KeepsMovements(s, y), KeepsMovements(y, z) PROVE KeepsMovements(s, z)
  <2>1. SUFFICES ASSUME NEW r \in s.rows
                 PROVE  \E q \in z.rows : q.id = r.id /\ q.note = r.note
                                          /\ (q.txn = r.txn \/ Settles(r.txn, q.txn))
    BY DEF KeepsMovements
  <2>2. PICK x \in y.rows : x.id = r.id /\ x.note = r.note
                            /\ (x.txn = r.txn \/ Settles(r.txn, x.txn))
    BY <1>2 DEF KeepsMovements
  <2>3. PICK q \in z.rows : q.id = x.id /\ q.note = x.note
                            /\ (q.txn = x.txn \/ Settles(x.txn, q.txn))
    BY <1>2 DEF KeepsMovements
  <2>4. ~(Settles(r.txn, x.txn) /\ Settles(x.txn, q.txn))
    BY DEF Settles
  <2>5. QED
    BY <2>2, <2>3, <2>4
<1>3. QED
  BY <1>1, <1>2

LEMMA WrittenKeepsMovements ==
    ASSUME NEW s \in Tables, NEW t, NEW occ, NEW p, p.action \in Writes, PromotesOwn(s, t, p)
    PROVE  KeepsMovements(s, Written(s, t, occ, p))
<1> DEFINE z == Written(s, t, occ, p)
<1>1. ASSUME s.rows \subseteq z.rows PROVE KeepsMovements(s, z)
  BY <1>1 DEF KeepsMovements
<1>2. CASE p.action = "inserted"
  BY <1>1, <1>2 DEF Written, InsertRow, Tables
<1>3. CASE p.action = "promoted"
  <2> DEFINE Image(r) == IF r.id = p.row THEN [r EXCEPT !.txn = t, !.digest = p.digest] ELSE r
  <2>1. z.rows = {Image(r) : r \in s.rows}
    BY <1>3 DEF Written, PromoteRow, Tables
  <2>2. \A r \in s.rows : /\ Image(r).id = r.id /\ Image(r).note = r.note
                          /\ r.id # p.row => Image(r).txn = r.txn
                          /\ r.id = p.row => Image(r).txn = t
    BY DEF Tables, RowType
  <2> HIDE DEF Image
  <2>3. QED
    BY <1>3, <2>1, <2>2 DEF KeepsMovements, PromotesOwn
<1>4. CASE p.action = "reimported"
  <2>1. PICK note : z = SetRestored(InsertRow(s, t, p.digest, note), <<t.account, p.grave>>)
    BY <1>4 DEF Written, Reimport
  <2> DEFINE y == InsertRow(s, t, p.digest, note)
  <2>2. s.rows \subseteq y.rows /\ y = [s EXCEPT !.rows = y.rows]
    BY DEF InsertRow, Tables
  <2>3. z.rows = y.rows
    BY <2>1, <2>2 DEF SetRestored, Tables
  <2>4. QED
    BY <1>1, <2>2, <2>3
<1>5. CASE p.action = "hold"
  BY <1>1, <1>5 DEF Written, HoldRow, Tables
<1>6. QED
  BY <1>2, <1>3, <1>4, <1>5 DEF Writes

\* What _plan promotes is the row it found: under the id, under the content, or in
\* the window in the other status.
LEMMA PlanPromotesOwn ==
    ASSUME NEW s \in Tables, Unambiguous(s), Fits(s), NEW t \in Incoming, NEW occ,
           NEW restoring, NEW p \in Plans(s, t, occ, restoring)
    PROVE  PromotesOwn(s, t, p)
<1> DEFINE base     == DigestOf(t, occ)
           known    == FindByExternalId(s.rows, t)
           twins    == FindByContentHash(s.rows, base)
           digest   == IF \E r \in twins : Distinct(r, t)
                       THEN [base EXCEPT !.ext = t.ext] ELSE base
           same     == {r \in twins : ~Distinct(r, t)}
           opposite == FindOppositeStatus(s.rows, t)
           buried   == IF restoring THEN {} ELSE Tombstones(s.graves, t, digest)
           Back(k)  == [Planned("reimported", digest) EXCEPT !.grave = k]
           Own(r)   == InWindow(r.txn, t)
                       \/ (r.txn.account = t.account /\ r.txn.ext # None /\ r.txn.ext = t.ext)
<1>1. \/ \E r \in known : p = Absorb(r, t, base)
      \/ \E r \in same : p = Absorb(r, t, base)
      \/ \E r \in opposite : p = Absorb(r, t, digest)
      \/ p \in {Planned("inserted", digest), Planned("suppressed", digest)}
      \/ \E g \in buried : p = Back(g.key)
  BY DEF Plans
<1>2. \A r \in known : r \in s.rows /\ Own(r)
  BY DEF FindByExternalId
<1>3. ASSUME NEW r \in same PROVE r \in s.rows /\ Own(r)
  <2>1. r \in s.rows /\ r.digest = base /\ r.txn \in IncomingTransaction
    BY IncomingTyped DEF FindByContentHash, Tables, RowType
  <2>2. ContentOf(r.txn) = ContentOf(t)
    BY <2>1 DEF Fits, DigestFits, DigestOf
  <2>3. r.txn.account = t.account /\ r.txn.amount = t.amount /\ r.txn.date = t.date
    BY <2>2 DEF ContentOf
  <2>4. r.txn.date \in Nat
    BY <2>1 DEF IncomingTransaction
  <2>5. QED
    BY <2>1, <2>3, <2>4 DEF InWindow, SameAmount, Near, PendingWindowDays
<1>4. \A r \in opposite : r \in s.rows /\ Own(r)
  BY DEF FindOppositeStatus, InWindow
<1>5. ASSUME NEW r \in s.rows, Own(r), NEW d, p = Absorb(r, t, d) PROVE PromotesOwn(s, t, p)
  <2>1. p.row = r.id
    BY <1>5 DEF Absorb, Planned
  <2>2. p.action = "promoted" => r.txn.status = "PDNG" /\ t.status = "BOOK"
    BY <1>5 DEF Absorb, Planned
  <2>3. \A q \in s.rows : q.id = r.id => q = r
    BY DEF Unambiguous
  <2>4. QED
    BY <1>5, <2>1, <2>2, <2>3 DEF PromotesOwn, Settles
<1>6. CASE \/ p \in {Planned("inserted", digest), Planned("suppressed", digest)}
           \/ \E g \in buried : p = Back(g.key)
  <2>1. (\A a : \A d : Planned(a, d).action = a) /\ \A k : Back(k).action = "reimported"
    BY DEF Planned
  <2> HIDE DEF base, digest, buried, Back
  <2>2. p.action # "promoted"
    BY <1>6, <2>1
  <2>3. QED
    BY <2>2 DEF PromotesOwn
<1> HIDE DEF base, known, same, opposite, digest, buried, Back, Own
<1>7. QED
  BY <1>1, <1>2, <1>3, <1>4, <1>5, <1>6

\* What NoteInv says of the one connection there is, after a step.
LEMMA NoteTables ==
    ASSUME OneRecording, NEW w \in Writer, KeepsMovements(db', work'), Handed(job'[w], db'),
           Carrying(w)' => PromotesOwn(work', Movement(w)', job'[w].plan)
    PROVE  NoteInv'
<1>1. \A v \in Writer : v = w
  BY DEF OneRecording
<1>2. QED
  BY <1>1 DEF NoteInv, KeepsMovements, PromotesOwn, Handed

LEMMA NoteJob ==
    ASSUME OneRecording, IInv, AloneInv, FitsInv, NoteInv, NEW w \in Writer,
           \/ StartBatch(w) \/ StartRestore(w) \/ StartDecision(w)
           \/ PlanMovement(w) \/ Absorbed(w)
    PROVE  NoteInv' /\ KeepsMovements(db, db')
<1>1. UNCHANGED <<db, work>>
  BY DEF StartBatch, StartRestore, StartDecision, Begin, PlanMovement, Absorbed
<1>2. job \in [Writer -> JobType] /\ job[w] \in JobType /\ JobFits(job[w])
  BY DEF IInv, TypeOK, FitsInv
<1>3. KeepsMovements(db', work') /\ KeepsMovements(db, db')
  BY <1>1, MovementsTransitive DEF NoteInv
<1>4. CASE StartBatch(w) \/ StartRestore(w) \/ StartDecision(w)
  <2>1. job'[w].plan = NoPlan /\ job'[w].pos = 1 /\ JobFits(job'[w])
    BY <1>4, DoneBegins, FitBegins
  <2>2. Handed(job'[w], db')
    BY <2>1 DEF Handed, JobFits
  <2>3. QED
    BY <1>3, <2>1, <2>2, NoteTables DEF Carrying
<1>5. CASE Absorbed(w)
  <2>1. job'[w].plan = NoPlan /\ job'[w].note = None
    BY <1>2, <1>5 DEF Absorbed, JobType
  <2>2. QED
    BY <1>3, <2>1, NoteTables DEF Handed, Carrying
<1>6. CASE PlanMovement(w)
  <2>1. job' = [job EXCEPT ![w].plan = job'[w].plan]
    BY <1>6, PlannedTyped
  <2>2. job'[w].seq = job[w].seq /\ job'[w].pos = job[w].pos
    BY <1>2, <2>1 DEF JobType
  <2>3. job[w].pos \in 1..Len(job[w].seq)
    BY <1>2, <1>6 DEF PlanMovement, Planning, JobType
  <2>4. View(w) = work /\ work \in Tables /\ Unambiguous(work) /\ Fits(work)
    BY AloneView DEF IInv, Sound, FitsInv
  <2>5. Movement(w) \in Incoming /\ Movement(w)' = Movement(w)
    BY <1>2, <2>2, <2>3 DEF JobType, Movement
  <2>6. PICK p \in Plans(work, Movement(w), OccurrenceAt(job[w]), job[w].kind = "restore") :
           job'[w].plan = IF job[w].hold THEN HoldIfProbable(work, Movement(w), p) ELSE p
    BY <1>2, <1>6, <2>4 DEF PlanMovement, JobType
  <2>7. PromotesOwn(work, Movement(w), p)
    BY <2>4, <2>5, <2>6, PlanPromotesOwn
  <2>8. p \in PlanType
    <3>1. OccurrenceAt(job[w]) \in Nat \ {0}
      BY <1>2, <2>3, OccurrencePositive DEF JobType, OccurrenceAt
    <3>2. QED
      BY <2>4, <2>5, <2>6, <3>1, PlansHold
  <2>9. PromotesOwn(work', Movement(w)', job'[w].plan)
    BY <1>1, <2>5, <2>6, <2>7, <2>8 DEF PromotesOwn, HoldIfProbable, PlanType
  <2>10. Handed(job'[w], db')
    BY <1>2, <2>2, <2>3 DEF Handed, JobType
  <2>11. QED
    BY <1>3, <2>9, <2>10, NoteTables
<1>7. QED
  BY <1>4, <1>5, <1>6

LEMMA NoteCarryOut ==
    ASSUME OneRecording, IInv, AloneInv, FitsInv, NoteInv, NEW w \in Writer, CarryOut(w)
    PROVE  NoteInv' /\ KeepsMovements(db, db')
<1> DEFINE t == Movement(w)
           p == job[w].plan
<1>1. View(w) = work /\ Sound(work) /\ work \in Tables
  BY AloneView DEF IInv, Sound
<1>2. /\ work' = Written(work, t, OccurrenceAt(job[w]), p) /\ p.action \in Writes
      /\ db' \in {db, work'}
  BY <1>1 DEF CarryOut
<1>3. PromotesOwn(work, t, p) /\ KeepsMovements(db, work)
  BY DEF NoteInv, CarryOut
<1>4. KeepsMovements(work, work')
  BY <1>1, <1>2, <1>3, WrittenKeepsMovements
<1>5. KeepsMovements(db, work') /\ KeepsMovements(db', work') /\ KeepsMovements(db, db')
  BY <1>2, <1>3, <1>4, MovementsTransitive
<1>6. job[w] \in JobType /\ JobFits(job[w]) /\ job[w].pos <= Len(job[w].seq)
  BY DEF IInv, TypeOK, FitsInv, CarryOut, PlanInv, PlanFits
<1>7. /\ job'[w].plan = NoPlan /\ job'[w].kind = job[w].kind /\ job'[w].seq = job[w].seq
      /\ job'[w].note # None => p.action = "inserted"
      /\ p.action = "inserted" => job'[w].row = NextId(work.rows)
  BY <1>1, <1>6 DEF CarryOut, IInv, TypeOK, JobType
<1>8. Handed(job'[w], db')
  <2>1. SUFFICES ASSUME job[w].kind = "restore", p.action = "inserted",
                        NEW q \in db'.rows, q.id = NextId(work.rows)
                 PROVE  q.txn = job[w].seq[1]
    BY <1>7 DEF Handed
  <2>2. db' = work'
    BY <2>1, CarryOutWrites
  <2>3. work'.rows = work.rows \cup
           {[id |-> NextId(work.rows), txn |-> t, digest |-> p.digest, note |-> None]}
    BY <1>1, <1>2, <2>1 DEF Written, InsertRow, Tables
  <2>4. NextId(work.rows) \in Nat /\ \A r \in work.rows : r.id < NextId(work.rows) /\ r.id \in Nat
    BY <1>1, NextIdFresh DEF Sound, Tables, RowType
  <2>5. \A r \in work.rows : r.id # NextId(work.rows)
    BY <2>4
  <2>6. q.txn = t
    BY <2>1, <2>2, <2>3, <2>5
  <2>7. job[w].pos = 1
    <3>1. Len(job[w].seq) = 1
      BY <1>6, <2>1 DEF JobFits
    <3>2. job[w].pos \in Nat \ {0}
      BY <1>6 DEF JobType
    <3>3. QED
      BY <1>6, <3>1, <3>2
  <2>8. QED
    BY <2>6, <2>7 DEF Movement
<1>9. QED
  BY <1>5, <1>7, <1>8, NoteTables DEF Carrying

LEMMA NoteEnd ==
    ASSUME OneRecording, IInv, AloneInv, NoteInv, NEW w \in Writer,
           CommitBatch(w) \/ CommitDecision(w) \/ Refuse(w) \/ GiveUp(w)
    PROVE  NoteInv' /\ KeepsMovements(db, db')
<1>1. job'[w] = Idle
  BY DEF CommitBatch, CommitDecision, Refuse, GiveUp, RollBack, IInv, TypeOK
<1>2. View(w) = work /\ lock \in {None, w} /\ Sound(work) /\ (lock = None => work = db)
  BY AloneView DEF IInv, LockInv
<1>3. work' = db' /\ KeepsMovements(db, db')
  <2>1. CASE CommitBatch(w)
    BY <1>2, <2>1 DEF CommitBatch, NoteInv
  <2>2. CASE CommitDecision(w)
    <3>1. db'.rows = work.rows /\ work' = db'
      BY <1>2, <2>2, SetDecisionSound DEF CommitDecision, Decided
    <3>2. QED
      BY <3>1 DEF NoteInv, KeepsMovements
  <2>3. CASE Refuse(w) \/ GiveUp(w)
    BY <1>2, <2>3, MovementsTransitive DEF Refuse, GiveUp, RollBack
  <2>4. QED
    BY <2>1, <2>2, <2>3
<1>4. QED
  BY <1>1, <1>3, IdleTyped, NoteTables, MovementsTransitive DEF Handed, Carrying

\* Handing a note over leaves every row its movement, and the note goes to a row of
\* the movement restored.
LEMMA NoteHandedOver ==
    ASSUME OneRecording, IInv, AloneInv, NoteInv, NEW w \in Writer, MarkRestored(w)
    PROVE  /\ NoteInv' /\ HandsBack(w)
           /\ \A r \in db.rows : \E q \in db'.rows :
                 q.id = r.id /\ q.txn = r.txn /\ (r.id = job[w].row \/ q.note = r.note)
<1> DEFINE y == IF job[w].note = None THEN db ELSE SetNoteOf(db, job[w].row, job[w].note)
<1>1. job[w].note \in Note \cup {None} /\ Sound(db) /\ job'[w] = Idle
  BY DEF IInv, TypeOK, JobType, MarkRestored
<1>2. /\ Sound(y)
      /\ \A r \in db.rows : r.id # job[w].row => r \in y.rows
      /\ \A r \in db.rows : \E q \in y.rows : q.id = r.id /\ q.txn = r.txn
      /\ \A q \in y.rows : \E r \in db.rows : q.id = r.id /\ q.txn = r.txn
  BY <1>1, SetNoteSound
<1>3. db'.rows = y.rows /\ work' = db'
  BY <1>2, SetRestoredSound DEF MarkRestored
<1>4. NoteInv'
  BY <1>1, <1>3, IdleTyped, NoteTables, MovementsTransitive DEF Handed, Carrying
<1>5. HandsBack(w)
  BY <1>2, <1>3 DEF HandsBack, NoteInv, Handed, MarkRestored, Recorded
<1> HIDE DEF y
<1>6. QED
  BY <1>2, <1>3, <1>4, <1>5

LEMMA NoteRequest ==
    ASSUME OneRecording, IInv, NoteInv, DeleteTransaction \/ SetNotes \/ SetReimportDeleted
    PROVE  NoteInv' /\ \A r \in db.rows : KeepsNote(r)
<1>1. lock = None /\ work' = db' /\ work = db /\ UNCHANGED job /\ Sound(db)
  BY DEF IInv, LockInv, DeleteTransaction, SetNotes, SetReimportDeleted, Edit
<1>2. \A q \in db'.rows : \E r \in db.rows : q.id = r.id /\ q.txn = r.txn
  BY RequestFrom DEF From, SameMovement
<1>3. NoteInv'
  <2>1. ASSUME NEW w \in Writer PROVE NoteInv'
    <3>1. Carrying(w)' => PromotesOwn(work', Movement(w)', job'[w].plan)
      BY <1>1, <1>2 DEF NoteInv, PromotesOwn, Carrying, Movement
    <3>2. Handed(job'[w], db')
      BY <1>1, <1>2 DEF NoteInv, Handed
    <3>3. QED
      BY <1>1, <3>1, <3>2, NoteTables, MovementsTransitive
  <2>2. CASE Writer = {}
    BY <1>1, <2>2, MovementsTransitive DEF NoteInv
  <2>3. QED
    BY <2>1, <2>2
<1>4. CASE DeleteTransaction
  <2>1. PICK r \in db.rows : db' = DeleteRow(db, r)
    BY <1>4 DEF DeleteTransaction, Edit
  <2>2. db'.rows = db.rows \ {r} /\ Grave(r) \in db'.graves
    BY <1>1, <2>1, DeleteRowSound
  <2>3. QED
    BY <1>3, <2>2 DEF KeepsNote, Grave
<1>5. CASE SetNotes
  <2>1. PICK r \in db.rows, n \in Note \cup {None} : db' = SetNoteOf(db, r.id, n)
    BY <1>5 DEF SetNotes, Edit
  <2>2. \A x \in db.rows : \E q \in db'.rows : q.id = x.id /\ q.txn = x.txn
    BY <1>1, <2>1, SetNoteSound
  <2>3. QED
    BY <1>3, <1>5, <2>2 DEF KeepsNote
<1>6. CASE SetReimportDeleted
  <2>1. db'.rows = db.rows
    BY <1>1, <1>6 DEF SetReimportDeleted, Edit, Sound, Tables
  <2>2. QED
    BY <1>3, <2>1 DEF KeepsNote
<1>7. QED
  BY <1>4, <1>5, <1>6

LEMMA NoteStep ==
    ASSUME OneRecording, IInv, AloneInv, FitsInv, NoteInv, [Next]_vars
    PROVE  /\ NoteInv'
           /\ \A r \in db.rows : KeepsNote(r)
           /\ \A w \in Writer : MarkRestored(w) => HandsBack(w)
<1>1. KeepsMovements(db, db') => \A r \in db.rows : KeepsNote(r)
  BY DEF KeepsMovements, KeepsNote
<1>2. \A w \in Writer : MarkRestored(w) => HandsBack(w)
  BY NoteHandedOver
<1>3. ASSUME NEW w \in Writer,
             \/ StartBatch(w) \/ StartRestore(w) \/ StartDecision(w)
             \/ PlanMovement(w) \/ Absorbed(w) \/ CarryOut(w)
             \/ CommitBatch(w) \/ CommitDecision(w) \/ Refuse(w) \/ GiveUp(w)
      PROVE  NoteInv' /\ KeepsMovements(db, db')
  BY <1>3, NoteJob, NoteCarryOut, NoteEnd
<1>4. ASSUME NEW w \in Writer, MarkRestored(w)
      PROVE  NoteInv' /\ \A r \in db.rows : KeepsNote(r)
  BY <1>4, NoteHandedOver DEF KeepsNote
<1>5. CASE DeleteTransaction \/ SetNotes \/ SetReimportDeleted
  BY <1>2, <1>5, NoteRequest
<1>6. CASE UNCHANGED vars
  <2>1. UNCHANGED <<db, work, job>>
    BY <1>6 DEF vars
  <2>2. NoteInv'
    BY <2>1 DEF NoteInv, KeepsMovements, PromotesOwn, Handed, Carrying, Movement
  <2>3. QED
    BY <1>1, <1>2, <2>1, <2>2, MovementsTransitive
<1>7. QED
  BY <1>1, <1>2, <1>3, <1>4, <1>5, <1>6 DEF Next, Progress

\* While one recording runs at a time, a note stays on its row and the row on its
\* movement: what a batch promotes is the payment itself, by its id, its content or
\* the window, and what a restore hands back goes to the movement restored.
THEOREM NotesAreKept == ASSUME OneRecording PROVE Spec => NotesKept
<1>1. Init => NoteInv
  <2>1. SUFFICES ASSUME Init PROVE NoteInv
    OBVIOUS
  <2>2. \A w \in Writer : ~Carrying(w) /\ Handed(job[w], db)
    BY <2>1, IdleTyped DEF Init, Carrying, Handed
  <2>3. QED
    BY <2>1, <2>2, MovementsTransitive DEF Init, NoteInv
<1>2. IInv /\ AloneInv /\ FitsInv /\ NoteInv /\ [Next]_vars => NoteInv'
  BY NoteStep
<1>3. IInv /\ AloneInv /\ FitsInv /\ NoteInv /\ [Next]_vars =>
      [/\ \A r \in db.rows : r.note # None => KeepsNote(r)
       /\ \A w \in Writer : MarkRestored(w) => HandsBack(w)]_vars
  BY NoteStep
<1>4. QED
  BY <1>1, <1>2, <1>3, AloneAlways, FitsAlways, PTL DEF Spec, NotesKept

-----------------------------------------------------------------------------
(* Batches are whole, for any number of connections.                       *)

\* The tables hold nothing but these reports.
Holds(s, R) ==
    /\ \A r \in s.rows : r.txn \in R
    /\ \A g \in s.graves : g.txn \in R
    /\ \A h \in s.held : h.txn \in R

\* What is restored, or written on a person's word, is of these reports.
Brought(j, R) == j.kind \in {"restore", "write", "discard"} => \A i \in DOMAIN j.seq : j.seq[i] \in R

\* An open transaction holds, over what is reported, what its own job has done.
WholeInv ==
    /\ Holds(db, reported)
    /\ \A w \in Writer : /\ lock = w => Holds(work, reported \cup Done(w))
                         /\ Brought(job[w], reported)

LEMMA FromHolds ==
    ASSUME NEW s, NEW z, NEW R, Holds(s, R), From(s, z)
    PROVE  Holds(z, R)
BY DEF Holds, From, SameMovement, SameGrave, SameHeld, Grave

LEMMA FromAndHolds ==
    ASSUME NEW s, NEW z, NEW R, NEW t \in R, NEW occ, NEW p, Holds(s, R),
           FromAnd(s, z, t, occ, p)
    PROVE  Holds(z, R)
BY DEF Holds, FromAnd, SameMovement, SameGrave, SameHeld

LEMMA HoldsGrow ==
    ASSUME NEW s, NEW Q, NEW R, Holds(s, Q), Q \subseteq R
    PROVE  Holds(s, R)
BY DEF Holds

\* A restore is of a tombstone's movement, a decision of a held one.
LEMMA BroughtBegins ==
    ASSUME IInv, NEW w \in Writer, NEW R, Holds(View(w), R),
           StartBatch(w) \/ StartRestore(w) \/ StartDecision(w)
    PROVE  Brought(job'[w], R)
<1>1. job \in [Writer -> JobType]
  BY DEF IInv, TypeOK
<1>2. CASE StartBatch(w)
  <2>1. PICK b \in Batches :
           Begin(w, [Idle EXCEPT !.kind = "batch", !.seq = b.seq, !.hold = b.hold])
    BY <1>2 DEF StartBatch
  <2>2. job'[w] = [Idle EXCEPT !.kind = "batch", !.seq = b.seq, !.hold = b.hold]
    BY <1>1, <2>1 DEF Begin
  <2>3. job'[w].kind = "batch"
    BY <2>2 DEF Idle
  <2>4. QED
    BY <2>3 DEF Brought
<1>3. CASE StartRestore(w)
  <2>1. PICK g \in View(w).graves :
           Begin(w, [Idle EXCEPT !.kind = "restore", !.seq = <<MovementOf(g)>>,
                                 !.ref = RefOf(g), !.note = g.note])
    BY <1>3 DEF StartRestore
  <2>2. job'[w] = [Idle EXCEPT !.kind = "restore", !.seq = <<MovementOf(g)>>,
                               !.ref = RefOf(g), !.note = g.note]
    BY <1>1, <2>1 DEF Begin
  <2>3. job'[w].seq = <<g.txn>> /\ g.txn \in R
    BY <2>2 DEF Idle, MovementOf, Holds
  <2>4. QED
    BY <2>3 DEF Brought
<1>4. CASE StartDecision(w)
  <2>1. PICK h \in View(w).held, kind \in {"write", "discard"} : Begin(w, Deciding(h, kind))
    BY <1>4 DEF StartDecision
  <2>2. job'[w] = Deciding(h, kind) /\ h \in HeldType
    BY <1>1, <2>1 DEF Begin, IInv, Sound, View, Tables
  <2>3. (job'[w].seq = <<h.txn>> \/ job'[w].seq = <<>>) /\ h.txn \in R
    BY <2>2, DecidingTyped DEF Holds
  <2>4. QED
    BY <2>3 DEF Brought
<1>5. QED
  BY <1>2, <1>3, <1>4

\* A connection sees what is reported and, in its transaction, what it has done.
LEMMA ViewHolds ==
    ASSUME WholeInv, NEW w \in Writer
    PROVE  Holds(View(w), reported \cup Done(w)) /\ (lock # w => Holds(View(w), reported))
<1>1. CASE lock = w
  BY <1>1 DEF WholeInv, View
<1>2. CASE lock # w
  <2>1. View(w) = db /\ Holds(db, reported)
    BY <1>2 DEF WholeInv, View
  <2>2. QED
    BY <1>2, <2>1, HoldsGrow
<1>3. QED
  BY <1>1, <1>2

\* A step of one connection: the tables it leaves, its job and what is reported.
LEMMA WholeStepOf ==
    ASSUME IInv, WholeInv, NEW w \in Writer, reported \subseteq reported',
           \A v \in Writer : v # w => job'[v] = job[v],
           Holds(db', reported'), Brought(job'[w], reported'),
           lock' = w => Holds(work', reported' \cup Done(w)'),
           lock' # w => lock' = None \/ (lock' = lock /\ work' = work)
    PROVE  WholeInv'
<1>1. ASSUME NEW v \in Writer
      PROVE  /\ lock' = v => Holds(work', reported' \cup Done(v)')
             /\ Brought(job'[v], reported')
  <2>1. CASE v = w
    BY <2>1
  <2>2. CASE v # w
    <3>1. Done(v)' = Done(v) /\ job'[v] = job[v]
      BY <2>2 DEF Done
    <3>2. lock' = v => lock = v /\ work' = work
      BY <2>2, WriterAssumption
    <3>3. lock = v => Holds(work, reported \cup Done(v))
      BY DEF WholeInv
    <3>4. reported \cup Done(v) \subseteq reported' \cup Done(v)
      OBVIOUS
    <3>5. Brought(job[v], reported')
      BY DEF WholeInv, Brought
    <3>6. QED
      BY <3>1, <3>2, <3>3, <3>4, <3>5, HoldsGrow
  <2>3. QED
    BY <2>1, <2>2
<1>2. QED
  BY <1>1 DEF WholeInv, Holds, Brought

LEMMA WholeJob ==
    ASSUME IInv, WholeInv, NEW w \in Writer,
           \/ StartBatch(w) \/ StartRestore(w) \/ StartDecision(w)
           \/ PlanMovement(w) \/ Absorbed(w)
    PROVE  WholeInv'
<1>1. UNCHANGED <<db, work, lock, reported>>
  BY DEF StartBatch, StartRestore, StartDecision, Begin, PlanMovement, Absorbed
<1>2. job \in [Writer -> JobType] /\ job[w] \in JobType
  BY DEF IInv, TypeOK
<1>3. \A v \in Writer : v # w => job'[v] = job[v]
  BY OthersGoOn DEF Progress
<1>4. Holds(db', reported') /\ (lock = w => Holds(work', reported' \cup Done(w)))
      /\ Brought(job[w], reported')
  BY <1>1 DEF WholeInv
<1>5. CASE StartBatch(w) \/ StartRestore(w) \/ StartDecision(w)
  <2>1. job[w].kind = "idle"
    BY <1>5 DEF StartBatch, StartRestore, StartDecision, Begin
  <2>2. lock # w
    BY <2>1, WriterAssumption DEF IInv, LockInv
  <2>3. Brought(job'[w], reported')
    BY <1>1, <1>5, <2>2, ViewHolds, BroughtBegins
  <2>4. QED
    BY <1>1, <1>3, <1>4, <2>2, <2>3, WholeStepOf
<1>6. CASE Absorbed(w)
  <2>1. Done(w)' = Done(w) \cup {Movement(w)}
    BY <1>6, DoneGoesOn
  <2>2. job'[w].kind = job[w].kind /\ job'[w].seq = job[w].seq
    BY <1>2, <1>6 DEF Absorbed, JobType
  <2>3. Brought(job'[w], reported')
    BY <1>4, <2>2 DEF Brought
  <2>4. lock = w => Holds(work', reported' \cup Done(w)')
    BY <1>4, <2>1, HoldsGrow
  <2>5. QED
    BY <1>1, <1>3, <1>4, <2>3, <2>4, WholeStepOf
<1>7. CASE PlanMovement(w)
  <2>1. job' = [job EXCEPT ![w].plan = job'[w].plan]
    BY <1>7, PlannedTyped
  <2>2. job'[w].kind = job[w].kind /\ job'[w].seq = job[w].seq /\ job'[w].pos = job[w].pos
    BY <1>2, <2>1 DEF JobType
  <2>3. Done(w)' = Done(w) /\ Brought(job'[w], reported')
    BY <1>4, <2>2 DEF Done, Brought
  <2>4. QED
    BY <1>1, <1>3, <1>4, <2>3, WholeStepOf
<1>8. QED
  BY <1>5, <1>6, <1>7

LEMMA WholeCarryOut ==
    ASSUME IInv, WholeInv, NEW w \in Writer, CarryOut(w)
    PROVE  WholeInv'
<1> DEFINE t == Movement(w)
           R == reported \cup Done(w)
<1>1. job[w] \in JobType /\ View(w) \in Tables /\ reported' = reported
  BY DEF IInv, TypeOK, Sound, View, CarryOut
<1>2. \A v \in Writer : v # w => job'[v] = job[v]
  BY OthersGoOn DEF Progress
<1>3. Done(w)' = Done(w) \cup {t}
  BY DoneGoesOn
<1>4. FromAnd(View(w), work', t, OccurrenceAt(job[w]), job[w].plan)
  BY <1>1, WrittenFrom DEF CarryOut
<1>5. Holds(work', R \cup {t})
  <2>1. Holds(View(w), R)
    BY ViewHolds
  <2>2. R \subseteq R \cup {t}
    OBVIOUS
  <2> HIDE DEF R
  <2>3. Holds(View(w), R \cup {t})
    BY <2>1, <2>2, HoldsGrow
  <2>4. QED
    BY <1>4, <2>3, FromAndHolds
<1>6. R \cup {t} = reported' \cup Done(w)'
  BY <1>1, <1>3
<1>7. job'[w].kind = job[w].kind /\ job'[w].seq = job[w].seq
  BY <1>1 DEF CarryOut, IInv, TypeOK, JobType
<1>8. Brought(job[w], reported) /\ Brought(job'[w], reported')
  BY <1>1, <1>7 DEF Brought, WholeInv
<1>9. CASE job[w].kind = "restore" /\ lock' = None /\ db' = work'
  <2>1. job[w].pos \in DOMAIN job[w].seq
    BY <1>1 DEF CarryOut, IInv, PlanInv, PlanFits, JobType
  <2>2. R \cup {t} = reported
    BY <1>8, <1>9, <2>1 DEF Brought, Movement, Done
  <2>3. Holds(db', reported') /\ lock' # w
    BY <1>1, <1>5, <1>9, <2>2, WriterAssumption
  <2>4. QED
    BY <1>1, <1>2, <1>8, <1>9, <2>3, WholeStepOf
<1>10. CASE lock' = w /\ db' = db
  <2>1. Holds(db', reported')
    BY <1>1, <1>10 DEF WholeInv
  <2>2. QED
    BY <1>1, <1>2, <1>5, <1>6, <1>8, <1>10, <2>1, WholeStepOf
<1>11. QED
  BY <1>9, <1>10, CarryOutWrites

LEMMA WholeEnd ==
    ASSUME IInv, WholeInv, NEW w \in Writer,
           CommitBatch(w) \/ CommitDecision(w) \/ MarkRestored(w) \/ Refuse(w) \/ GiveUp(w)
    PROVE  WholeInv'
<1>1. job'[w] = Idle /\ \A v \in Writer : v # w => job'[v] = job[v]
  BY OthersGoOn DEF CommitBatch, CommitDecision, MarkRestored, Refuse, GiveUp, RollBack,
     IInv, TypeOK, Progress
<1>2. \A R : Brought(job'[w], R)
  BY <1>1 DEF Brought, Idle
<1>3. CASE CommitBatch(w)
  <2>1. reported' = reported \cup Done(w) /\ db' = View(w) /\ work' = work /\ lock' # w
        /\ (lock' = None \/ lock' = lock)
    BY <1>3, DoneReported, WriterAssumption DEF CommitBatch
  <2>2. QED
    BY <1>1, <1>2, <2>1, ViewHolds, WholeStepOf
<1>4. CASE CommitDecision(w)
  <2>1. /\ db' = SetDecision(View(w), job[w].ref, Decided(job[w].kind)) /\ reported' = reported
        /\ lock' = None /\ job[w].kind \in {"write", "discard"}
    BY <1>4 DEF CommitDecision
  <2>2. Done(w) \subseteq reported
    BY <2>1 DEF WholeInv, Brought, Done
  <2>3. reported \cup Done(w) = reported
    BY <2>2
  <2>4. From(View(w), db')
    BY <2>1, SetDecisionFrom DEF IInv, Sound, View
  <2>5. Holds(db', reported') /\ lock' # w
    BY <2>1, <2>3, <2>4, ViewHolds, FromHolds, WriterAssumption
  <2>6. QED
    BY <1>1, <1>2, <2>1, <2>5, WholeStepOf
<1>5. CASE MarkRestored(w)
  <2>1. From(db, db') /\ reported' = reported /\ lock' = None /\ lock' # w
    BY <1>5, MarkRestoredFrom, WriterAssumption DEF MarkRestored
  <2>2. Holds(db', reported')
    BY <2>1, FromHolds DEF WholeInv
  <2>3. QED
    BY <1>1, <1>2, <2>1, <2>2, WholeStepOf
<1>6. CASE Refuse(w) \/ GiveUp(w)
  <2>1. db' = db /\ reported' = reported /\ lock' # w
        /\ (lock' = None \/ (lock' = lock /\ work' = work))
    BY <1>6, WriterAssumption DEF Refuse, GiveUp, RollBack
  <2>2. Holds(db', reported')
    BY <2>1 DEF WholeInv
  <2>3. QED
    BY <1>1, <1>2, <2>1, <2>2, WholeStepOf
<1>7. QED
  BY <1>3, <1>4, <1>5, <1>6

LEMMA WholeStep ==
    ASSUME IInv, WholeInv, [Next]_vars
    PROVE  WholeInv'
<1>1. ASSUME NEW w \in Writer,
             \/ StartBatch(w) \/ StartRestore(w) \/ StartDecision(w) \/ Progress(w) \/ GiveUp(w)
      PROVE  WholeInv'
  BY <1>1, WholeJob, WholeCarryOut, WholeEnd DEF Progress
<1>2. CASE DeleteTransaction \/ SetNotes \/ SetReimportDeleted
  <2>1. UNCHANGED <<job, reported>> /\ lock' = None
    BY <1>2 DEF DeleteTransaction, SetNotes, SetReimportDeleted, Edit
  <2>2. Holds(db', reported)
    BY <1>2, RequestFrom, FromHolds DEF WholeInv
  <2>3. QED
    BY <2>1, <2>2, WriterAssumption DEF WholeInv, Holds, Brought
<1>3. CASE UNCHANGED vars
  <2>1. UNCHANGED <<db, work, lock, job, reported>>
    BY <1>3 DEF vars
  <2>2. \A w \in Writer : Done(w)' = Done(w)
    BY <2>1 DEF Done
  <2>3. QED
    BY <2>1, <2>2 DEF WholeInv, Holds, Brought
<1>4. QED
  BY <1>1, <1>2, <1>3 DEF Next

\* Any number of connections, whose batches are refused, given up or cut off half
\* way while others commit, leave in the ledger only what a committed batch brought:
\* a batch is there whole or not at all.
THEOREM NoHalfBatch == Spec => []BatchesWhole
<1>1. Init => WholeInv
  <2>1. SUFFICES ASSUME Init PROVE WholeInv
    OBVIOUS
  <2>2. Holds(db, reported)
    BY <2>1 DEF Init, EmptyTables, Holds
  <2>3. \A w \in Writer : lock # w /\ Brought(job[w], reported)
    BY <2>1, WriterAssumption DEF Init, Brought, Idle
  <2>4. QED
    BY <2>2, <2>3 DEF WholeInv
<1>2. IInv /\ WholeInv /\ [Next]_vars => WholeInv'
  BY WholeStep
<1>3. WholeInv => BatchesWhole
  BY DEF WholeInv, Holds, BatchesWhole
<1>4. QED
  BY <1>1, <1>2, <1>3, InvAlways, PTL DEF Spec

-----------------------------------------------------------------------------
(* No more rows than movements, while one recording runs at a time.        *)

\* Two reports of one movement in one status, which WindowsTell makes one content.
SameReport(s, t) == InWindow(s, t) /\ Describes[s] = Describes[t] /\ s.status = t.status

\* The rows of a window, and the movements some reports make of it.
RowsIn(s, t) == {r \in s.rows : InWindow(r.txn, t)}
MovementsIn(R, t) == {Describes[u] : u \in {v \in R : InWindow(v, t)}}

\* The tables hold what was reported, in no window more rows than movements, and of
\* one movement one row in a status.
Counted(s, R) ==
    /\ IsFiniteSet(R)
    /\ \A r \in s.rows : r.txn \in R
    /\ \A g \in s.graves : g.txn \in R
    /\ \A h \in s.held : h.txn \in R
    /\ \A q, r \in s.rows : SameReport(q.txn, r.txn) => q = r
    /\ \A t \in Incoming : Cardinality(RowsIn(s, t)) <= Cardinality(MovementsIn(R, t))

\* A plan writes a new row where its movement has none and the window has no row of
\* the other status; it promotes a row of the window, and the movement has none.
Fresh(s, t, p) ==
    /\ p.action \in {"inserted", "reimported"} =>
          \A r \in s.rows : InWindow(r.txn, t) =>
              r.txn.status = t.status /\ Describes[r.txn] # Describes[t]
    /\ p.action = "promoted" =>
          \A r \in s.rows : /\ r.id = p.row => InWindow(r.txn, t)
                            /\ ~SameReport(r.txn, t)

\* What is restored, or written on a person's word, was reported before.
WindowInv ==
    /\ Counted(db, reported)
    /\ \A w \in Writer :
          /\ Counted(work, reported \cup Done(w))
          /\ Carrying(w) => Fresh(work, Movement(w), job[w].plan)
          /\ job[w].kind \in {"restore", "write", "discard"} =>
                \A i \in DOMAIN job[w].seq : job[w].seq[i] \in reported

LEMMA LeastNatural ==
    ASSUME NEW ids, ids \subseteq Nat, ids # {}
    PROVE  \E n \in ids : \A m \in ids : n <= m
<1>1. PICK n \in ids : \A m \in ids : ~(<<m, n>> \in OpToRel(<, Nat))
  BY NatLessThanWellFounded, WFMin
<1>2. ASSUME NEW m \in ids PROVE n <= m
  <2>1. m \in Nat /\ n \in Nat
    OBVIOUS
  <2>2. ~(m < n)
    BY <1>1, <2>1 DEF OpToRel
  <2>3. QED
    BY <2>1, <2>2
<1>3. QED
  BY <1>2

\* SQLite's LIMIT 1 finds a row where there is one.
LEMMA TwinFound ==
    ASSUME NEW s \in Tables, NEW r \in s.rows
    PROVE  FindByContentHash(s.rows, r.digest) # {}
<1> DEFINE same == {q \in s.rows : q.digest = r.digest}
           ids  == {q.id : q \in same}
<1>1. ids \subseteq Nat /\ ids # {}
  BY DEF Tables, RowType
<1>2. PICK n \in ids : \A m \in ids : n <= m
  BY <1>1, LeastNatural
<1>3. PICK q \in same : q.id = n
  BY <1>2
<1>4. \A x \in same : x.id \in ids
  OBVIOUS
<1>5. \A x \in same : q.id <= x.id
  BY <1>2, <1>3, <1>4
<1> HIDE DEF ids
<1>6. QED
  BY <1>3, <1>5 DEF FindByContentHash

LEMMA OppositeFound ==
    ASSUME NEW s \in Tables, NEW t \in Incoming, NEW r \in s.rows, InWindow(r.txn, t),
           r.txn.status # t.status
    PROVE  FindOppositeStatus(s.rows, t) # {}
<1> DEFINE twins == {q \in s.rows : /\ SameAmount(q.txn, t) /\ Near(q.txn, t)
                                    /\ q.txn.status # t.status}
           dates == {q.txn.date : q \in twins}
<1>1. dates \subseteq Nat /\ dates # {}
  BY IncomingTyped DEF Tables, RowType, IncomingTransaction, InWindow
<1>2. PICK n \in dates : \A m \in dates : n <= m
  BY <1>1, LeastNatural
<1>3. PICK q \in twins : q.txn.date = n
  BY <1>2
<1>4. \A x \in twins : x.txn.date \in dates
  OBVIOUS
<1>5. \A x \in twins : q.txn.date <= x.txn.date
  BY <1>2, <1>3, <1>4
<1> HIDE DEF dates
<1>6. QED
  BY <1>3, <1>5 DEF FindOppositeStatus

LEMMA WindowSymmetric ==
    ASSUME NEW s \in Incoming, NEW t \in Incoming, InWindow(s, t)
    PROVE  InWindow(t, s)
BY IncomingTyped DEF InWindow, SameAmount, Near, PendingWindowDays, IncomingTransaction

\* Where a content is met once, a movement has the digest of its content alone.
LEMMA PlainDigest ==
    ASSUME WindowsTell, NEW t \in Incoming, NEW digest \in DigestType, DigestFits(t, digest)
    PROVE  digest = DigestOf(t, 1)
BY DEF DigestFits, First, DigestOf, DigestType

LEMMA PlanFresh ==
    ASSUME WindowsTell, IdsTell, NEW s \in Tables, Unambiguous(s), Fits(s), NEW t \in Incoming,
           NEW restoring, NEW p \in Plans(s, t, 1, restoring)
    PROVE  Fresh(s, t, p)
<1> DEFINE base     == DigestOf(t, 1)
           known    == FindByExternalId(s.rows, t)
           twins    == FindByContentHash(s.rows, base)
           digest   == IF \E r \in twins : Distinct(r, t)
                       THEN [base EXCEPT !.ext = t.ext] ELSE base
           same     == {r \in twins : ~Distinct(r, t)}
           opposite == FindOppositeStatus(s.rows, t)
           buried   == IF restoring THEN {} ELSE Tombstones(s.graves, t, digest)
           Back(k)  == [Planned("reimported", digest) EXCEPT !.grave = k]
           Goal     == Fresh(s, t, p)
<1>0. \A x : DigestOf(x, 1).content = ContentOf(x)
  BY DEF DigestOf
<1>1. \/ \E r \in known : p = Absorb(r, t, base)
      \/ \E r \in same : p = Absorb(r, t, base)
      \/ same = {} /\ \E r \in opposite : p = Absorb(r, t, digest)
      \/ same = {} /\ opposite = {} /\ p = Planned("inserted", digest)
      \/ p = Planned("suppressed", digest)
      \/ same = {} /\ opposite = {} /\ \E k : p = Back(k)
  BY DEF Plans
<1>2. \A r \in s.rows : r.txn \in Incoming /\ r.digest = DigestOf(r.txn, 1)
  BY PlainDigest DEF Fits, Tables, RowType
<1>3. \A r, d : /\ Absorb(r, t, d).row = r.id
                /\ Absorb(r, t, d).action \in {"promoted", "duplicate"}
                /\ r.txn.status = t.status => Absorb(r, t, d).action = "duplicate"
  BY DEF Absorb, Planned
<1>4. ASSUME NEW r \in s.rows, NEW d, p = Absorb(r, t, d), r.txn.status = t.status PROVE Goal
  BY <1>3, <1>4 DEF Fresh
<1>5. ASSUME NEW r \in known, p = Absorb(r, t, base) PROVE Goal
  <2>1. r \in s.rows /\ r.txn \in Incoming /\ r.txn.account = t.account
        /\ r.txn.ext = t.ext /\ t.ext # None
    BY <1>2 DEF FindByExternalId
  <2>2. r.txn.status = t.status
    BY <2>1 DEF IdsTell
  <2>3. QED
    BY <1>4, <1>5, <2>1, <2>2
<1>6. ASSUME NEW r \in same, p = Absorb(r, t, base) PROVE Goal
  <2>1. r \in s.rows /\ r.digest = base
    BY DEF FindByContentHash
  <2>2. ContentOf(r.txn) = ContentOf(t) /\ r.txn \in Incoming
    BY <1>2, <1>0, <2>1
  <2>3. r.txn.status = t.status
    BY <2>2 DEF WindowsTell
  <2>4. QED
    BY <1>4, <1>6, <2>1, <2>3
<1>7. ASSUME same = {}, NEW q \in s.rows PROVE ~SameReport(q.txn, t)
  <2>1. SUFFICES ASSUME SameReport(q.txn, t) PROVE FALSE
    OBVIOUS
  <2>2. ContentOf(q.txn) = ContentOf(t)
    BY <1>2, <2>1 DEF WindowsTell, SameReport
  <2>3. q.digest = base
    BY <1>2, <2>2 DEF DigestOf
  <2>4. PICK r \in twins : TRUE
    BY <2>3, TwinFound
  <2>5. r \in s.rows /\ r.digest = base
    BY <2>4 DEF FindByContentHash
  <2>6. ContentOf(r.txn) = ContentOf(t) /\ r.txn \in Incoming
    BY <1>2, <1>0, <2>5
  <2>7. ~Distinct(r, t)
    BY <2>6 DEF WindowsTell, Distinct
  <2>8. QED
    BY <1>7, <2>4, <2>7
<1>8. ASSUME same = {}, NEW r \in opposite, p = Absorb(r, t, digest) PROVE Goal
  <2>1. r \in s.rows /\ InWindow(r.txn, t)
    BY DEF FindOppositeStatus, InWindow
  <2>2. p.row = r.id /\ p.action \in {"promoted", "duplicate"}
    BY <1>3, <1>8
  <2>3. \A q \in s.rows : q.id = r.id => q = r
    BY <2>1 DEF Unambiguous
  <2>4. \A q \in s.rows : ~SameReport(q.txn, t)
    BY <1>7, <1>8
  <2>5. QED
    BY <2>1, <2>2, <2>3, <2>4 DEF Fresh
<1>9. ASSUME same = {}, opposite = {}, p.action \in {"inserted", "reimported"} PROVE Goal
  <2>1. SUFFICES ASSUME NEW r \in s.rows, InWindow(r.txn, t)
                 PROVE  r.txn.status = t.status /\ Describes[r.txn] # Describes[t]
    BY <1>9 DEF Fresh
  <2>2. r.txn.status = t.status
    BY <1>9, <2>1, OppositeFound
  <2>3. ~SameReport(r.txn, t)
    BY <1>7, <1>9
  <2>4. QED
    BY <2>1, <2>2, <2>3 DEF SameReport
<1>10. /\ Planned("inserted", digest).action = "inserted"
       /\ Planned("suppressed", digest).action = "suppressed"
       /\ \A k : Back(k).action = "reimported"
  BY DEF Planned
<1>11. p.action = "suppressed" => Goal
  BY DEF Fresh
<1> HIDE DEF known, same, opposite, buried, digest, base, Back, Goal
<1>12. Goal
  BY <1>1, <1>5, <1>6, <1>8, <1>9, <1>10, <1>11
<1>13. QED
  BY <1>12 DEF Goal

LEMMA HoldFresh ==
    ASSUME NEW s, NEW t, NEW p \in PlanType, Fresh(s, t, p)
    PROVE  Fresh(s, t, HoldIfProbable(s, t, p))
<1> DEFINE q == HoldIfProbable(s, t, p)
<1>1. q = p \/ q.action \in {"hold", "discarded", "held"}
  BY DEF HoldIfProbable, PlanType
<1>2. QED
  BY <1>1 DEF Fresh

\* Counting: a table holds finitely many rows, and more reports make no fewer
\* movements.
LEMMA RowsFinite ==
    ASSUME NEW s, Sound(s)
    PROVE  IsFiniteSet(s.rows)
<1> DEFINE f == [r \in s.rows |-> r.id]
<1>1. s \in Tables /\ Unambiguous(s)
  BY DEF Sound
<1>2. PICK n \in Nat : \A r \in s.rows : r.id <= n
  BY DEF Sound, Bounded
<1>3. \A r \in s.rows : r.id \in 1..n
  BY <1>1, <1>2 DEF Tables, RowType
<1>4. f \in Injection(s.rows, 1..n)
  BY <1>1, <1>3 DEF Injection, IsInjective, Unambiguous
<1>5. IsFiniteSet(1..n)
  BY FS_Interval
<1>6. QED
  BY <1>4, <1>5, FS_Injection

LEMMA MovementsGrow ==
    ASSUME NEW R, NEW Q, R \subseteq Q, IsFiniteSet(Q), NEW t
    PROVE  /\ IsFiniteSet(MovementsIn(Q, t))
           /\ Cardinality(MovementsIn(R, t)) <= Cardinality(MovementsIn(Q, t))
<1> DEFINE D == {v \in Q : InWindow(v, t)}
           f == [u \in D |-> Describes[u]]
<1>1. IsFiniteSet(D)
  BY FS_Subset
<1>2. f \in Surjection(D, MovementsIn(Q, t))
  BY DEF Surjection, MovementsIn
<1>3. IsFiniteSet(MovementsIn(Q, t))
  BY <1>1, <1>2, FS_Surjection
<1>4. MovementsIn(R, t) \in SUBSET MovementsIn(Q, t)
  BY DEF MovementsIn
<1>5. QED
  BY <1>3, <1>4, FS_Subset

\* Rows that were rows of the window before are no more than they were.
LEMMA RowsShrink ==
    ASSUME NEW s, NEW z, Sound(s), Sound(z), NEW t,
           \A q \in z.rows : \E r \in s.rows :
              q.id = r.id /\ (InWindow(q.txn, t) => InWindow(r.txn, t))
    PROVE  /\ Cardinality(RowsIn(z, t)) \in Nat /\ Cardinality(RowsIn(s, t)) \in Nat
           /\ Cardinality(RowsIn(z, t)) <= Cardinality(RowsIn(s, t))
<1> DEFINE f == [q \in RowsIn(z, t) |-> CHOOSE r \in RowsIn(s, t) : q.id = r.id]
<1>1. \A q \in RowsIn(z, t) : \E r \in RowsIn(s, t) : q.id = r.id
  BY DEF RowsIn
<1>2. \A q \in RowsIn(z, t) : f[q] \in RowsIn(s, t) /\ q.id = f[q].id
  BY <1>1
<1>3. \A q, r \in RowsIn(z, t) : q.id = r.id => q = r
  BY DEF RowsIn, Sound, Unambiguous
<1>4. f \in Injection(RowsIn(z, t), RowsIn(s, t))
  BY <1>2, <1>3 DEF Injection, IsInjective
<1>5. IsFiniteSet(RowsIn(s, t)) /\ IsFiniteSet(RowsIn(z, t))
  BY RowsFinite, FS_Subset DEF RowsIn
<1>6. QED
  BY <1>4, <1>5, FS_Injection, FS_CardinalityType

\* In a window whose rows have one status each is of a movement of its own.
LEMMA RowsCounted ==
    ASSUME WindowsTell, NEW z \in Tables, NEW R \in SUBSET Incoming, IsFiniteSet(R),
           NEW t \in Incoming, \A r \in z.rows : r.txn \in R,
           \A q, r \in z.rows : SameReport(q.txn, r.txn) => q = r,
           \A q, r \in RowsIn(z, t) : q.txn.status = r.txn.status
    PROVE  Cardinality(RowsIn(z, t)) <= Cardinality(MovementsIn(R, t))
<1> DEFINE f == [r \in RowsIn(z, t) |-> Describes[r.txn]]
<1>1. \A r \in RowsIn(z, t) : Describes[r.txn] \in MovementsIn(R, t)
  BY DEF RowsIn, MovementsIn
<1>2. ASSUME NEW q \in RowsIn(z, t), NEW r \in RowsIn(z, t), Describes[q.txn] = Describes[r.txn]
      PROVE  q = r
  <2>1. /\ q \in z.rows /\ r \in z.rows /\ q.txn \in Incoming /\ r.txn \in Incoming
        /\ InWindow(q.txn, t) /\ InWindow(r.txn, t)
    BY DEF RowsIn
  <2>2. InWindow(t, r.txn)
    BY <2>1, WindowSymmetric
  <2>3. InWindow(q.txn, r.txn)
    BY <2>1, <2>2 DEF WindowsTell
  <2>4. QED
    BY <1>2, <2>1, <2>3 DEF SameReport
<1>3. f \in Injection(RowsIn(z, t), MovementsIn(R, t))
  BY <1>1, <1>2 DEF Injection, IsInjective
<1>4. IsFiniteSet(MovementsIn(R, t))
  BY MovementsGrow
<1>5. QED
  BY <1>3, <1>4, FS_Injection

\* What a plan leaves in the rows: one more, one rewritten, or nothing new.
LEMMA WrittenRows ==
    ASSUME NEW s \in Tables, NEW t, NEW occ, NEW p, p.action \in Writes
    PROVE  LET z == Written(s, t, occ, p)
           IN  \/ /\ p.action \in {"inserted", "reimported"}
                  /\ \E new : z.rows = s.rows \cup {new} /\ new.txn = t
               \/ /\ p.action = "promoted"
                  /\ \A q \in z.rows : \E r \in s.rows :
                        q.id = r.id /\ q.txn = (IF r.id = p.row THEN t ELSE r.txn)
               \/ z.rows = s.rows
<1> DEFINE z == Written(s, t, occ, p)
<1>1. ASSUME NEW note
      PROVE  \E new : InsertRow(s, t, p.digest, note).rows = s.rows \cup {new} /\ new.txn = t
  <2> DEFINE new == [id |-> NextId(s.rows), txn |-> t, digest |-> p.digest, note |-> note]
  <2>1. InsertRow(s, t, p.digest, note).rows = s.rows \cup {new} /\ new.txn = t
    BY DEF InsertRow, Tables
  <2>2. QED
    BY <2>1
<1>2. CASE p.action = "inserted"
  BY <1>1, <1>2 DEF Written
<1>3. CASE p.action = "promoted"
  <2> DEFINE Image(r) == IF r.id = p.row THEN [r EXCEPT !.txn = t, !.digest = p.digest] ELSE r
  <2>1. z.rows = {Image(r) : r \in s.rows}
    BY <1>3 DEF Written, PromoteRow, Tables
  <2>2. \A r \in s.rows : /\ Image(r).id = r.id
                          /\ Image(r).txn = (IF r.id = p.row THEN t ELSE r.txn)
    BY DEF Tables, RowType
  <2> HIDE DEF Image
  <2>3. \A q \in z.rows : \E r \in s.rows :
           q.id = r.id /\ q.txn = (IF r.id = p.row THEN t ELSE r.txn)
    BY <2>1, <2>2
  <2>4. QED
    BY <1>3, <2>3
<1>4. CASE p.action = "reimported"
  <2>1. PICK note : z = SetRestored(InsertRow(s, t, p.digest, note), <<t.account, p.grave>>)
    BY <1>4 DEF Written, Reimport
  <2> DEFINE y == InsertRow(s, t, p.digest, note)
  <2>2. y = [s EXCEPT !.rows = y.rows]
    BY DEF InsertRow, Tables
  <2> HIDE DEF y
  <2>3. z.rows = y.rows
    BY <2>1, <2>2 DEF SetRestored, Tables, y
  <2>4. QED
    BY <1>1, <1>4, <2>3 DEF y
<1>5. CASE p.action = "hold"
  BY <1>5 DEF Written, HoldRow, Tables
<1>6. QED
  BY <1>2, <1>3, <1>4, <1>5 DEF Writes

LEMMA CountedGrow ==
    ASSUME NEW s, Sound(s), NEW R, NEW Q, R \subseteq Q, IsFiniteSet(Q), Counted(s, R)
    PROVE  Counted(s, Q)
<1>1. ASSUME NEW t \in Incoming PROVE Cardinality(RowsIn(s, t)) <= Cardinality(MovementsIn(Q, t))
  <2>1. /\ Cardinality(MovementsIn(R, t)) <= Cardinality(MovementsIn(Q, t))
        /\ Cardinality(MovementsIn(R, t)) \in Nat /\ Cardinality(MovementsIn(Q, t)) \in Nat
    BY MovementsGrow, FS_CardinalityType DEF Counted
  <2>2. Cardinality(RowsIn(s, t)) \in Nat
    BY RowsShrink
  <2>3. Cardinality(RowsIn(s, t)) <= Cardinality(MovementsIn(R, t))
    BY DEF Counted
  <2>4. QED
    BY <2>1, <2>2, <2>3
<1>2. QED
  BY <1>1 DEF Counted

LEMMA CountedFrom ==
    ASSUME NEW s, NEW z, Sound(s), Sound(z), From(s, z), NEW R, Counted(s, R)
    PROVE  Counted(z, R)
<1>1. \A q \in z.rows : \E r \in s.rows : q.id = r.id /\ q.txn = r.txn
  BY DEF From, SameMovement
<1>2. \A r \in z.rows : r.txn \in R
  BY <1>1 DEF Counted
<1>3. \A g \in z.graves : g.txn \in R
  BY DEF From, Counted, SameGrave, SameMovement, Grave
<1>4. \A h \in z.held : h.txn \in R
  BY DEF From, Counted, SameHeld
<1>5. ASSUME NEW q \in z.rows, NEW r \in z.rows, SameReport(q.txn, r.txn) PROVE q = r
  <2>1. PICK u \in s.rows : q.id = u.id /\ q.txn = u.txn
    BY <1>1
  <2>2. PICK v \in s.rows : r.id = v.id /\ r.txn = v.txn
    BY <1>1
  <2>3. u = v
    BY <1>5, <2>1, <2>2 DEF Counted
  <2>4. QED
    BY <2>1, <2>2, <2>3 DEF Sound, Unambiguous
<1>6. ASSUME NEW t \in Incoming PROVE Cardinality(RowsIn(z, t)) <= Cardinality(MovementsIn(R, t))
  <2>1. /\ Cardinality(RowsIn(z, t)) \in Nat /\ Cardinality(RowsIn(s, t)) \in Nat
        /\ Cardinality(RowsIn(z, t)) <= Cardinality(RowsIn(s, t))
    BY <1>1, RowsShrink
  <2>2. Cardinality(MovementsIn(R, t)) \in Nat
    BY MovementsGrow, FS_CardinalityType DEF Counted
  <2>3. Cardinality(RowsIn(s, t)) <= Cardinality(MovementsIn(R, t))
    BY DEF Counted
  <2>4. QED
    BY <2>1, <2>2, <2>3
<1>7. QED
  BY <1>2, <1>3, <1>4, <1>5, <1>6 DEF Counted

LEMMA FreshFrom ==
    ASSUME NEW s, NEW z, From(s, z), NEW t, NEW p, Fresh(s, t, p)
    PROVE  Fresh(z, t, p)
BY DEF From, SameMovement, Fresh

LEMMA CountedWritten ==
    ASSUME WindowsTell, NEW s, Sound(s), NEW t \in Incoming, NEW occ, NEW p,
           p.action \in Writes, Fresh(s, t, p), Sound(Written(s, t, occ, p)),
           NEW R \in SUBSET Incoming, t \in R, Counted(s, R)
    PROVE  Counted(Written(s, t, occ, p), R)
<1> DEFINE z == Written(s, t, occ, p)
<1>1. s \in Tables /\ z \in Tables /\ Unambiguous(s) /\ Unambiguous(z)
  BY DEF Sound
<1>2. FromAnd(s, z, t, occ, p)
  BY <1>1, WrittenFrom
<1>3. /\ \A r \in z.rows : r.txn \in R
      /\ \A g \in z.graves : g.txn \in R
      /\ \A h \in z.held : h.txn \in R
  BY <1>2 DEF FromAnd, Counted, SameMovement, SameGrave, SameHeld
<1>4. \/ /\ p.action \in {"inserted", "reimported"}
         /\ \E new : z.rows = s.rows \cup {new} /\ new.txn = t
      \/ /\ p.action = "promoted"
         /\ \A q \in z.rows : \E r \in s.rows :
               q.id = r.id /\ q.txn = (IF r.id = p.row THEN t ELSE r.txn)
      \/ z.rows = s.rows
  BY <1>1, WrittenRows
<1>5. \A r \in s.rows : r.txn \in Incoming
  BY DEF Counted
<1>6. \A q, r \in s.rows : SameReport(q.txn, r.txn) => q = r
  BY DEF Counted
<1>7. \A u \in Incoming : /\ Cardinality(RowsIn(s, u)) <= Cardinality(MovementsIn(R, u))
                          /\ Cardinality(MovementsIn(R, u)) \in Nat
  BY MovementsGrow, FS_CardinalityType DEF Counted
<1> DEFINE Distinguished == \A q, r \in z.rows : SameReport(q.txn, r.txn) => q = r
           Bound(u) == Cardinality(RowsIn(z, u)) <= Cardinality(MovementsIn(R, u))
<1>8. ASSUME NEW u \in Incoming,
             \A q \in z.rows : \E r \in s.rows :
                q.id = r.id /\ (InWindow(q.txn, u) => InWindow(r.txn, u))
      PROVE  Bound(u)
  <2>1. /\ Cardinality(RowsIn(z, u)) \in Nat /\ Cardinality(RowsIn(s, u)) \in Nat
        /\ Cardinality(RowsIn(z, u)) <= Cardinality(RowsIn(s, u))
    BY <1>8, RowsShrink
  <2>2. QED
    BY <1>7, <2>1
<1>9. ASSUME NEW r \in s.rows, ~SameReport(r.txn, t) PROVE ~SameReport(t, r.txn)
  BY <1>5, <1>9, WindowSymmetric DEF SameReport
<1>10. CASE z.rows = s.rows
  <2>1. Distinguished /\ \A u \in Incoming : Bound(u)
    BY <1>6, <1>8, <1>10
  <2>2. QED
    BY <1>3, <2>1 DEF Counted
<1>11. ASSUME p.action \in {"inserted", "reimported"},
              NEW new, z.rows = s.rows \cup {new}, new.txn = t
       PROVE  Distinguished /\ \A u \in Incoming : Bound(u)
  <2>1. \A r \in s.rows : InWindow(r.txn, t) =>
           r.txn.status = t.status /\ Describes[r.txn] # Describes[t]
    BY <1>11 DEF Fresh
  <2>2. \A r \in s.rows : ~SameReport(r.txn, t) /\ ~SameReport(t, r.txn)
    BY <1>9, <2>1 DEF SameReport
  <2>3. Distinguished
    BY <1>6, <1>11, <2>2
  <2>4. ASSUME NEW u \in Incoming, InWindow(t, u) PROVE Bound(u)
    <3>1. \A r \in RowsIn(z, u) : r.txn.status = t.status
      <4> SUFFICES ASSUME NEW r \in RowsIn(z, u), r # new PROVE r.txn.status = t.status
        BY <1>11
      <4>1. r \in s.rows /\ InWindow(r.txn, u) /\ r.txn \in Incoming
        BY <1>5, <1>11 DEF RowsIn
      <4>2. InWindow(u, t)
        BY <2>4, WindowSymmetric
      <4>3. InWindow(r.txn, t)
        BY <4>1, <4>2 DEF WindowsTell
      <4>4. QED
        BY <2>1, <4>1, <4>3
    <3>2. IsFiniteSet(R)
      BY DEF Counted
    <3>3. QED
      BY <1>1, <1>3, <2>3, <3>1, <3>2, RowsCounted
  <2>5. ASSUME NEW u \in Incoming, ~InWindow(t, u) PROVE Bound(u)
    <3>1. RowsIn(z, u) = RowsIn(s, u)
      BY <1>11, <2>5 DEF RowsIn
    <3>2. QED
      BY <1>7, <3>1
  <2>6. QED
    BY <2>3, <2>4, <2>5
<1>12. ASSUME p.action = "promoted",
              \A q \in z.rows : \E r \in s.rows :
                 q.id = r.id /\ q.txn = (IF r.id = p.row THEN t ELSE r.txn)
       PROVE  Distinguished /\ \A u \in Incoming : Bound(u)
  <2>1. \A r \in s.rows : (r.id = p.row => InWindow(r.txn, t)) /\ ~SameReport(r.txn, t)
    BY <1>12 DEF Fresh
  <2>2. ASSUME NEW q \in z.rows, NEW r \in z.rows, SameReport(q.txn, r.txn) PROVE q = r
    <3>1. PICK u \in s.rows : q.id = u.id /\ q.txn = (IF u.id = p.row THEN t ELSE u.txn)
      BY <1>12
    <3>2. PICK v \in s.rows : r.id = v.id /\ r.txn = (IF v.id = p.row THEN t ELSE v.txn)
      BY <1>12
    <3>3. q.id = r.id
      BY <1>6, <1>9, <2>1, <2>2, <3>1, <3>2
    <3>4. QED
      BY <1>1, <3>3 DEF Unambiguous
  <2>3. ASSUME NEW u \in Incoming PROVE Bound(u)
    <3>1. ASSUME NEW r \in s.rows, r.id = p.row, InWindow(t, u) PROVE InWindow(r.txn, u)
      BY <1>5, <2>1, <3>1 DEF WindowsTell
    <3>2. \A q \in z.rows : \E r \in s.rows :
             q.id = r.id /\ (InWindow(q.txn, u) => InWindow(r.txn, u))
      BY <1>12, <3>1
    <3>3. QED
      BY <1>8, <3>2
  <2>4. QED
    BY <2>2, <2>3
<1>13. QED
  BY <1>3, <1>4, <1>10, <1>11, <1>12 DEF Counted

\* What WindowInv says of the one connection there is, after a step.
LEMMA WindowTables ==
    ASSUME OneRecording, NEW w \in Writer, Counted(db', reported'),
           Counted(work', reported' \cup Done(w)'), Brought(job'[w], reported'),
           Carrying(w)' => Fresh(work', Movement(w)', job'[w].plan)
    PROVE  WindowInv'
<1>1. \A v \in Writer : v = w
  BY DEF OneRecording
<1>2. Counted(db, reported)'
  BY DEF Counted, RowsIn, MovementsIn
<1>3. (\A v \in Writer : Counted(work, reported \cup Done(v)))'
  BY <1>1 DEF Counted, RowsIn, MovementsIn
<1>4. (\A v \in Writer : Carrying(v) => Fresh(work, Movement(v), job[v].plan))'
  BY <1>1 DEF Fresh
<1>5. (\A v \in Writer : job[v].kind \in {"restore", "write", "discard"} =>
           \A i \in DOMAIN job[v].seq : job[v].seq[i] \in reported)'
  BY <1>1 DEF Brought
<1>6. QED
  BY <1>2, <1>3, <1>4, <1>5 DEF WindowInv

LEMMA WindowPlan ==
    ASSUME OneRecording, WindowsTell, IdsTell, IInv, AloneInv, FitsInv, NEW w \in Writer,
           PlanMovement(w)
    PROVE  Fresh(work, Movement(w), job'[w].plan)
<1> DEFINE t == Movement(w)
<1>1. job \in [Writer -> JobType] /\ job[w] \in JobType /\ JobFits(job[w])
  BY DEF IInv, TypeOK, FitsInv
<1>2. View(w) = work /\ work \in Tables /\ Unambiguous(work) /\ Fits(work)
  BY AloneView DEF IInv, Sound, FitsInv
<1>3. job[w].pos \in 1..Len(job[w].seq)
  BY <1>1 DEF PlanMovement, Planning, JobType
<1>4. t \in Incoming /\ OccurrenceAt(job[w]) = 1
  BY <1>1, <1>3 DEF JobFits, First, JobType, Movement, OccurrenceAt
<1>5. PICK p \in Plans(work, t, 1, job[w].kind = "restore") :
         job'[w].plan = IF job[w].hold THEN HoldIfProbable(work, t, p) ELSE p
  BY <1>1, <1>2, <1>4 DEF PlanMovement, JobType
<1>6. p \in PlanType
  <2>1. p \in Plans(work, t, OccurrenceAt(job[w]), job[w].kind = "restore")
    BY <1>4, <1>5
  <2>2. OccurrenceAt(job[w]) \in Nat \ {0}
    BY <1>4
  <2>3. QED
    BY <1>2, <1>4, <2>1, <2>2, PlansHold
<1>7. Fresh(work, t, p)
  BY <1>2, <1>4, <1>5, PlanFresh
<1>8. QED
  BY <1>5, <1>6, <1>7, HoldFresh

LEMMA WindowJob ==
    ASSUME OneRecording, WindowsTell, IdsTell, IInv, AloneInv, FitsInv, WindowInv,
           NEW w \in Writer,
           \/ StartBatch(w) \/ StartRestore(w) \/ StartDecision(w)
           \/ PlanMovement(w) \/ Absorbed(w)
    PROVE  WindowInv'
<1>1. UNCHANGED <<db, work, reported>>
  BY DEF StartBatch, StartRestore, StartDecision, Begin, PlanMovement, Absorbed
<1>2. job \in [Writer -> JobType] /\ job[w] \in JobType
  BY DEF IInv, TypeOK
<1>3. Counted(db, reported) /\ Counted(work, reported \cup Done(w)) /\ Sound(work)
      /\ Brought(job[w], reported)
  BY DEF WindowInv, IInv, Brought
<1>4. CASE StartBatch(w) \/ StartRestore(w) \/ StartDecision(w)
  <2>1. job[w].kind = "idle"
    BY <1>4 DEF StartBatch, StartRestore, StartDecision, Begin
  <2>2. lock = None
    BY <2>1, AloneView DEF IInv, LockInv
  <2>3. work = db /\ View(w) = db
    BY <2>2 DEF View, IInv, LockInv
  <2>4. Brought(job'[w], reported)
    <3>1. Holds(View(w), reported)
      BY <1>3, <2>3 DEF Counted, Holds
    <3>2. QED
      BY <1>4, <3>1, BroughtBegins
  <2>5. Done(w)' = {} /\ job'[w].plan = NoPlan
    BY <1>4, DoneBegins
  <2>6. reported \cup {} = reported
    OBVIOUS
  <2>7. QED
    BY <1>1, <1>3, <2>3, <2>4, <2>5, <2>6, WindowTables DEF Carrying
<1>5. CASE Absorbed(w)
  <2>1. Done(w)' = Done(w) \cup {Movement(w)} /\ job'[w].plan = NoPlan
    BY <1>5, DoneGoesOn
  <2>2. job'[w].kind = job[w].kind /\ job'[w].seq = job[w].seq
    BY <1>2, <1>5 DEF Absorbed, JobType
  <2>3. Brought(job'[w], reported)
    BY <1>3, <2>2 DEF Brought
  <2> DEFINE Q == (reported \cup Done(w)) \cup {Movement(w)}
  <2>4. IsFiniteSet(Q)
    BY <1>3, FS_AddElement DEF Counted
  <2>5. Counted(work, Q)
    BY <1>3, <2>4, CountedGrow
  <2>6. Q = reported \cup Done(w)'
    BY <2>1
  <2>7. QED
    BY <1>1, <1>3, <2>1, <2>3, <2>5, <2>6, WindowTables DEF Carrying
<1>6. CASE PlanMovement(w)
  <2>1. job' = [job EXCEPT ![w].plan = job'[w].plan]
    BY <1>6, PlannedTyped
  <2>2. job'[w].kind = job[w].kind /\ job'[w].seq = job[w].seq /\ job'[w].pos = job[w].pos
    BY <1>2, <2>1 DEF JobType
  <2>3. Done(w)' = Done(w) /\ Movement(w)' = Movement(w)
    BY <2>2 DEF Done, Movement
  <2>4. Brought(job'[w], reported)
    BY <1>3, <2>2 DEF Brought
  <2>5. Fresh(work, Movement(w), job'[w].plan)
    BY <1>6, WindowPlan
  <2>6. QED
    BY <1>1, <1>3, <2>3, <2>4, <2>5, WindowTables
<1>7. QED
  BY <1>4, <1>5, <1>6

LEMMA WindowCarryOut ==
    ASSUME OneRecording, WindowsTell, IInv, AloneInv, WindowInv, NEW w \in Writer, CarryOut(w)
    PROVE  WindowInv'
<1> DEFINE t == Movement(w)
           p == job[w].plan
           Q == (reported \cup Done(w)) \cup {t}
<1>1. View(w) = work /\ Sound(work)
  BY AloneView DEF IInv
<1>2. /\ work' = Written(work, t, OccurrenceAt(job[w]), p) /\ p.action \in Writes
      /\ reported' = reported
  BY <1>1 DEF CarryOut
<1>3. t \in Incoming /\ Sound(work') /\ Fresh(work, t, p)
  BY CarriedTyped, CarryOutWrites DEF CarryOut, WindowInv
<1>4. Counted(db, reported) /\ Counted(work, reported \cup Done(w))
  BY DEF WindowInv
<1>5. IsFiniteSet(Q) /\ Q \in SUBSET Incoming
  BY <1>3, <1>4, FS_AddElement, DoneIncoming DEF Counted, IInv, TypeOK
<1>6. Counted(work, Q)
  BY <1>1, <1>4, <1>5, CountedGrow
<1>7. Counted(work', Q)
  BY <1>1, <1>2, <1>3, <1>5, <1>6, CountedWritten
<1>8. Done(w)' = Done(w) \cup {t} /\ job'[w].plan = NoPlan
  BY DoneGoesOn
<1>9. job[w] \in JobType /\ job'[w].kind = job[w].kind /\ job'[w].seq = job[w].seq
  BY DEF CarryOut, IInv, TypeOK, JobType
<1>10. Brought(job[w], reported) /\ Brought(job'[w], reported)
  BY <1>9 DEF Brought, WindowInv
<1>11. Q = reported \cup Done(w)'
  BY <1>8
<1>12. Counted(db', reported)
  <2>1. CASE db' = db
    BY <1>4, <2>1
  <2>2. CASE job[w].kind = "restore" /\ db' = work'
    <3>1. Done(w) \subseteq reported
      BY <1>10, <2>2 DEF Brought, Done
    <3>2. job[w].pos \in DOMAIN job[w].seq
      BY <1>9 DEF CarryOut, IInv, PlanInv, PlanFits, JobType
    <3>3. t \in reported
      BY <1>10, <2>2, <3>2 DEF Brought, Movement
    <3>4. Q = reported
      BY <3>1, <3>3
    <3>5. QED
      BY <1>7, <2>2, <3>4
  <2>3. QED
    BY <2>1, <2>2, CarryOutWrites
<1>13. QED
  BY <1>2, <1>7, <1>8, <1>10, <1>11, <1>12, WindowTables DEF Carrying

LEMMA WindowEnd ==
    ASSUME OneRecording, IInv, IInv', AloneInv, WindowInv, NEW w \in Writer,
           CommitBatch(w) \/ CommitDecision(w) \/ MarkRestored(w) \/ Refuse(w) \/ GiveUp(w)
    PROVE  WindowInv'
<1>1. Done(w)' = {} /\ job'[w].plan = NoPlan
  BY DoneEnds
<1>2. View(w) = work /\ lock \in {None, w} /\ Sound(work) /\ Sound(db)
      /\ (lock = None => work = db)
  BY AloneView DEF IInv, LockInv
<1>3. Counted(db, reported) /\ Counted(work, reported \cup Done(w)) /\ Brought(job[w], reported)
  BY DEF WindowInv, Brought
<1>4. job'[w] = Idle
  BY DEF CommitBatch, CommitDecision, MarkRestored, Refuse, GiveUp, RollBack, IInv, TypeOK
<1>5. \A R : Brought(job'[w], R)
  BY <1>4 DEF Brought, Idle
<1>6. \A R : R \cup {} = R
  OBVIOUS
<1>7. ASSUME db' = work', Counted(db', reported') PROVE WindowInv'
  BY <1>1, <1>5, <1>6, <1>7, WindowTables DEF Carrying
<1>8. CASE CommitBatch(w)
  <2>1. db' = work /\ work' = work /\ reported' = reported \cup Done(w)
    BY <1>2, <1>8, DoneReported DEF CommitBatch
  <2>2. QED
    BY <1>3, <1>7, <2>1
<1>9. CASE CommitDecision(w)
  <2>1. db' = SetDecision(work, job[w].ref, Decided(job[w].kind)) /\ work' = db' /\ reported' = reported
        /\ job[w].kind \in {"write", "discard"}
    BY <1>2, <1>9 DEF CommitDecision
  <2>2. Done(w) \subseteq reported
    BY <1>3, <2>1 DEF Brought, Done
  <2>3. reported \cup Done(w) = reported
    BY <2>2
  <2>4. From(work, db') /\ Sound(db')
    BY <1>2, <2>1, SetDecisionFrom DEF IInv, Sound, Bounded, Unambiguous
  <2>5. Counted(db', reported)
    BY <1>2, <1>3, <2>3, <2>4, CountedFrom
  <2>6. QED
    BY <1>7, <2>1, <2>5
<1>10. CASE MarkRestored(w)
  <2>1. From(db, db') /\ work' = db'
    BY <1>10, MarkRestoredFrom
  <2>2. reported' = reported
    BY <1>10 DEF MarkRestored
  <2>3. Sound(db')
    BY DEF IInv, Sound, Bounded, Unambiguous
  <2>4. Counted(db', reported)
    BY <1>2, <1>3, <2>1, <2>3, CountedFrom
  <2>5. QED
    BY <1>7, <2>1, <2>2, <2>4
<1>11. CASE Refuse(w) \/ GiveUp(w)
  <2>1. db' = db /\ work' = db /\ reported' = reported
    BY <1>2, <1>11 DEF Refuse, GiveUp, RollBack
  <2>2. QED
    BY <1>3, <1>7, <2>1
<1>12. QED
  BY <1>8, <1>9, <1>10, <1>11

LEMMA WindowRequest ==
    ASSUME OneRecording, IInv, IInv', WindowInv,
           DeleteTransaction \/ SetNotes \/ SetReimportDeleted
    PROVE  WindowInv'
<1>1. lock = None /\ work' = db' /\ UNCHANGED <<job, reported>> /\ work = db
  BY RequestTracks DEF IInv, LockInv
<1>2. From(db, db') /\ Sound(db) /\ Sound(db')
  BY RequestFrom DEF IInv, Sound, Bounded, Unambiguous
<1>3. Counted(db', reported')
  BY <1>1, <1>2, CountedFrom DEF WindowInv
<1>4. ASSUME NEW w \in Writer PROVE WindowInv'
  <2>1. Done(w)' = Done(w) /\ Movement(w)' = Movement(w) /\ Carrying(w)' = Carrying(w)
    BY <1>1 DEF Done, Movement, Carrying
  <2>2. Counted(work, reported \cup Done(w)) /\ Brought(job[w], reported)
        /\ (Carrying(w) => Fresh(work, Movement(w), job[w].plan))
    BY DEF WindowInv, Brought
  <2>3. Counted(work', reported \cup Done(w))
    BY <1>1, <1>2, <2>2, CountedFrom
  <2>4. Carrying(w) => Fresh(work', Movement(w), job[w].plan)
    BY <1>1, <1>2, <2>2, FreshFrom
  <2>5. QED
    BY <1>1, <1>3, <2>1, <2>2, <2>3, <2>4, WindowTables
<1>5. CASE Writer = {}
  <2>1. Counted(db, reported)'
    BY <1>3 DEF Counted, RowsIn, MovementsIn
  <2>2. QED
    BY <1>5, <2>1 DEF WindowInv
<1>6. QED
  BY <1>4, <1>5

LEMMA WindowStep ==
    ASSUME OneRecording, WindowsTell, IdsTell, IInv, IInv', AloneInv, FitsInv, WindowInv,
           [Next]_vars
    PROVE  WindowInv'
<1>1. CASE UNCHANGED vars
  <2>1. UNCHANGED <<db, work, job, reported>>
    BY <1>1 DEF vars
  <2>2. \A w \in Writer : /\ Done(w)' = Done(w) /\ Movement(w)' = Movement(w)
                          /\ Carrying(w)' = Carrying(w)
    BY <2>1 DEF Done, Movement, Carrying
  <2>3. Counted(db, reported)'
    BY <2>1 DEF WindowInv, Counted, RowsIn, MovementsIn
  <2>4. (\A w \in Writer : Counted(work, reported \cup Done(w)))'
    BY <2>1, <2>2 DEF WindowInv, Counted, RowsIn, MovementsIn
  <2>5. (\A w \in Writer : Carrying(w) => Fresh(work, Movement(w), job[w].plan))'
    BY <2>1, <2>2 DEF WindowInv, Fresh
  <2>6. (\A w \in Writer : job[w].kind \in {"restore", "write", "discard"} =>
            \A i \in DOMAIN job[w].seq : job[w].seq[i] \in reported)'
    BY <2>1 DEF WindowInv
  <2>7. QED
    BY <2>3, <2>4, <2>5, <2>6 DEF WindowInv
<1>2. ASSUME NEW w \in Writer,
             \/ StartBatch(w) \/ StartRestore(w) \/ StartDecision(w) \/ Progress(w) \/ GiveUp(w)
      PROVE  WindowInv'
  BY <1>2, WindowJob, WindowCarryOut, WindowEnd DEF Progress
<1>3. CASE DeleteTransaction \/ SetNotes \/ SetReimportDeleted
  BY <1>3, WindowRequest
<1>4. QED
  BY <1>1, <1>2, <1>3 DEF Next

\* While one recording runs at a time, the two ingest paths together never leave
\* more rows of one amount in one window of days than the bank and the files
\* reported movements of it: what one path wrote the other recognises, a settled
\* movement takes its pending row, and neither a deletion taken back nor a decision
\* on a held movement writes one again.
THEOREM NoMoreThanReported ==
    ASSUME OneRecording, WindowsTell, IdsTell
    PROVE  Spec => []RowsBoundedByMovements
<1>1. Init => WindowInv
  <2>1. SUFFICES ASSUME Init PROVE WindowInv
    OBVIOUS
  <2>2. \A t, R : RowsIn(EmptyTables, t) = {}
    BY DEF RowsIn, EmptyTables
  <2>3. ASSUME NEW R, R = {} PROVE Counted(EmptyTables, R)
    <3>1. IsFiniteSet(R) /\ Cardinality({}) = 0
      BY <2>3, FS_EmptySet
    <3>2. \A t \in Incoming : Cardinality(MovementsIn(R, t)) \in Nat
      BY <3>1, MovementsGrow, FS_CardinalityType
    <3>3. \A t \in Incoming :
             Cardinality(RowsIn(EmptyTables, t)) <= Cardinality(MovementsIn(R, t))
      <4> SUFFICES ASSUME NEW t \in Incoming
                   PROVE  Cardinality(RowsIn(EmptyTables, t)) <= Cardinality(MovementsIn(R, t))
        OBVIOUS
      <4>1. Cardinality(RowsIn(EmptyTables, t)) = 0
        BY <2>2, <3>1
      <4>2. QED
        BY <3>2, <4>1
    <3>4. EmptyTables.rows = {} /\ EmptyTables.graves = {} /\ EmptyTables.held = {}
      BY DEF EmptyTables
    <3>5. QED
      BY <3>1, <3>3, <3>4 DEF Counted
  <2>4. \A w \in Writer : job[w] = Idle
    BY <2>1 DEF Init
  <2>5. \A w \in Writer : Done(w) = {} /\ ~Carrying(w)
    BY <2>4 DEF Done, Carrying, Idle
  <2>6. \A w \in Writer : job[w].kind \notin {"restore", "write", "discard"}
    BY <2>4 DEF Idle
  <2>7. db = EmptyTables /\ work = EmptyTables /\ reported = {}
    BY <2>1 DEF Init
  <2>8. \A w \in Writer : reported \cup Done(w) = {}
    BY <2>5, <2>7
  <2>9. QED
    BY <2>3, <2>5, <2>6, <2>7, <2>8 DEF WindowInv
<1>2. IInv /\ IInv' /\ AloneInv /\ FitsInv /\ WindowInv /\ [Next]_vars => WindowInv'
  BY WindowStep
<1>3. WindowInv => RowsBoundedByMovements
  BY DEF WindowInv, Counted, RowsBoundedByMovements, RowsIn, MovementsIn
<1>4. QED
  BY <1>1, <1>2, <1>3, AloneAlways, FitsAlways, PTL DEF Spec
=============================================================================
