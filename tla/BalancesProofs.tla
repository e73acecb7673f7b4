--------------------------- MODULE BalancesProofs ---------------------------
(***************************************************************************)
(* Theorems about the check of an account against what its bank declares   *)
(* (module Balances), for any finite set of movements, any amounts and any *)
(* bounds: a figure a person wrote stands, and a check that fails differs  *)
(* by what was deleted and by nothing else.                                *)
(***************************************************************************)
EXTENDS Balances, FiniteSetTheorems, TLAPS

-----------------------------------------------------------------------------
(* Sums: the lemmas of module Sums, about the amounts of movements.        *)

Sums == INSTANCE Sums WITH Element <- Movement, Weight <- Amount

LEMMA AmountsKnown == Sums!Weighted
  BY AmountAssumption DEF Sums!Weighted, IsFiniteSet, Sums!IsFiniteSet

LEMMA SameSum == ASSUME NEW S PROVE Sum(S) = Sums!Sum(S)
  BY DEF Sum, Sums!Sum, MapThenSumSet, MapThenFoldSet, Sums!MapThenSumSet, Sums!MapThenFoldSet

LEMMA SumTyped == ASSUME NEW S \in SUBSET Movement PROVE Sum(S) \in Int
  BY AmountsKnown, SameSum, Sums!SumTyped

LEMMA SumEmpty == Sum({}) = 0
  BY AmountsKnown, SameSum, Sums!SumEmpty

LEMMA SumUnion ==
    ASSUME NEW X \in SUBSET Movement, NEW Y \in SUBSET Movement, X \cap Y = {}
    PROVE  Sum(X \cup Y) = Sum(X) + Sum(Y)
  BY AmountsKnown, SameSum, Sums!SumUnion

-----------------------------------------------------------------------------
(* Types.                                                                  *)

Words == {"anchor:available", "anchor:booked"}
Aligned == [date: Day, source: Words, figure: Int]
RowsTyped ==
    /\ bank \in [Movement -> RowType({"here"})]
    /\ rows \in [Movement -> RowType({"here", "deleted"})]
    /\ \A m \in Movement : rows[m] # Absent => bank[m] # Absent
FiguresTyped ==
    /\ declared \in [Day -> [Source -> Int \cup {None}]]
    /\ said \in [Day -> [Kind -> Int \cup {None}]]
    /\ aligning \in {None} \cup Aligned
JobTyped == job \in Job
OpeningTyped == opening \in Opening \cup {None} /\ folded \in BOOLEAN
TimeTyped == today \in Day /\ acts \in 0..MaxActs /\ syncs \in 0..MaxSyncs
Typed == RowsTyped /\ FiguresTyped /\ JobTyped /\ OpeningTyped /\ TimeTyped

LEMMA TypedIs == Typed <=> TypeOK
  BY DEF Typed, RowsTyped, FiguresTyped, JobTyped, OpeningTyped, TimeTyped, TypeOK, Aligned, Words

LEMMA DayIsNat == Day \subseteq Nat \ {0}
  BY BoundsAssumption DEF Day

\* What the bank has of a movement, and what the ledger has of it.
LEMMA RowFacts ==
    ASSUME RowsTyped, NEW m \in Movement
    PROVE  /\ \/ bank[m] = Absent
              \/ /\ bank[m] \in [state: {"here"}, date: Day, status: {"PDNG", "BOOK"}]
                 /\ bank[m] # Absent
           /\ \/ rows[m] = Absent
              \/ /\ rows[m] \in [state: {"here", "deleted"}, date: Day, status: {"PDNG", "BOOK"}]
                 /\ rows[m] # Absent /\ bank[m] # Absent
<1>1. bank[m] \in RowType({"here"}) /\ rows[m] \in RowType({"here", "deleted"})
  BY DEF RowsTyped
<1>2. rows[m] # Absent => bank[m] # Absent
  BY DEF RowsTyped
<1>3. \A r \in [state: {"here", "deleted"}, date: Day, status: {"PDNG", "BOOK"}] : r # Absent
  BY DEF Absent
<1>4. \A r \in [state: {"here"}, date: Day, status: {"PDNG", "BOOK"}] : r # Absent
  BY DEF Absent
<1>5. QED
  BY <1>1, <1>2, <1>3, <1>4 DEF RowType

LEMMA CountedTyped ==
    ASSUME NEW table, NEW state, NEW kind, NEW day, NEW after
    PROVE  /\ CountedIn(table, state, kind, day, after) \in SUBSET Movement
           /\ Sum(CountedIn(table, state, kind, day, after)) \in Int
<1>1. CountedIn(table, state, kind, day, after) \in SUBSET Movement
  BY DEF CountedIn
<1>2. QED
  BY <1>1, SumTyped

LEMMA FigureTyped ==
    ASSUME NEW day, NEW kind
    PROVE  Figure(day, kind) \in Int /\ Moved(day, kind) \in Int
  BY CountedTyped, AmountAssumption DEF Figure, Moved

LEMMA MinDay ==
    ASSUME NEW D \in SUBSET Day, D # {}
    PROVE  Min(D) \in D /\ \A d \in D : Min(D) <= d
<1>1. D \subseteq Nat
  BY DayIsNat
<1>2. PICK d \in D : \A e \in D : ~(<<e, d>> \in OpToRel(<, Nat))
  BY <1>1, NatLessThanWellFounded, WFMin
<1>3. \A e \in D : ~(e < d)
  BY <1>1, <1>2 DEF OpToRel
<1>4. \A e \in D : d <= e
  BY <1>1, <1>3
<1>5. QED
  BY <1>4 DEF Min

\* The day of an opening is before every row there is up to the day of its figure.
Dates(day) == {rows[m].date : m \in {n \in Movement : rows[n].state = "here" /\ rows[n].date <= day}}
LEMMA OpeningFromTyped ==
    ASSUME RowsTyped, NEW day \in Day, NEW figure \in Int, NEW kind
    PROVE  /\ OpeningFrom(day, figure, kind) \in Opening
           /\ OpeningFrom(day, figure, kind).balance = figure - Moved(day, kind)
           /\ OpeningFrom(day, figure, kind).date <= day
           /\ \A m \in Movement : rows[m].state = "here" /\ rows[m].date <= day
                => rows[m].date > OpeningFrom(day, figure, kind).date
<1> DEFINE o == OpeningFrom(day, figure, kind)
<1>1. o = [balance |-> figure - Moved(day, kind),
           date |-> IF Dates(day) = {} THEN day ELSE Min(Dates(day)) - 1]
  BY DEF OpeningFrom, Dates
<1>2. \A m \in Movement : rows[m].state = "here" => rows[m].date \in Day
  BY RowFacts DEF Absent
<1>3. Dates(day) \in SUBSET Day /\ \A d \in Dates(day) : d <= day
  BY <1>2 DEF Dates
<1>4. \A m \in Movement :
        rows[m].state = "here" /\ rows[m].date <= day => rows[m].date \in Dates(day)
  BY DEF Dates
<1>5. figure - Moved(day, kind) \in Int
  BY FigureTyped
<1>6. day \in Nat
  BY DayIsNat
<1> HIDE DEF o
<1>7. CASE Dates(day) = {}
  BY <1>1, <1>4, <1>5, <1>6, <1>7 DEF Opening, o
<1>8. CASE Dates(day) # {}
  <2>1. Min(Dates(day)) \in Dates(day) /\ \A d \in Dates(day) : Min(Dates(day)) <= d
    BY <1>3, <1>8, MinDay
  <2>2. Min(Dates(day)) \in Nat \ {0} /\ Min(Dates(day)) <= day
    BY <1>3, <2>1, DayIsNat
  <2>3. o = [balance |-> figure - Moved(day, kind), date |-> Min(Dates(day)) - 1]
    BY <1>1, <1>8
  <2>4. o \in Opening /\ o.balance = figure - Moved(day, kind) /\ o.date = Min(Dates(day)) - 1
    BY <1>5, <2>2, <2>3 DEF Opening
  <2>5. \A d \in Dates(day) : d \in Nat /\ d > o.date
    <3>1. \A d \in Dates(day) : d \in Nat /\ Min(Dates(day)) <= d
      BY <1>3, <2>1, DayIsNat
    <3>2. o.date = Min(Dates(day)) - 1 /\ Min(Dates(day)) \in Nat
      BY <2>2, <2>4
    <3>3. \A d \in Nat : Min(Dates(day)) <= d => d > Min(Dates(day)) - 1
      BY <3>2
    <3>4. QED
      BY <3>1, <3>2, <3>3
  <2>6. QED
    BY <1>4, <1>6, <2>2, <2>4, <2>5 DEF o
<1>9. QED
  BY <1>7, <1>8

LEMMA FoldsBoolean ==
    ASSUME NEW day, NEW figure, NEW kind
    PROVE  Folds(day, figure, kind) \in BOOLEAN
  BY Zenon DEF Folds

\* A preferred figure is one the bank declared.
LEMMA NewestTyped ==
    ASSUME FiguresTyped, NEW kind, NEW c \in Newest(kind)
    PROVE  /\ c.date \in Day /\ c.source \in Source /\ KindOf(c.source) = kind
           /\ c.figure \in Int
<1>1. c \in Declarations(kind) /\ c.figure # None
  BY DEF Newest
<1>2. PICK d \in Day, s \in {x \in Source : KindOf(x) = kind} :
        c = [date |-> d, source |-> s, figure |-> declared[d][s]]
  BY <1>1 DEF Declarations
<1>3. declared[d][s] \in Int \cup {None}
  BY DEF FiguresTyped
<1>4. QED
  BY <1>1, <1>2, <1>3

LEMMA PreferredTyped ==
    ASSUME FiguresTyped, NEW c \in Preferred
    PROVE  c.date \in Day /\ c.figure \in Int
<1>1. c \in Newest("booked") \/ c \in Newest("available")
  BY DEF Preferred
<1>2. QED
  BY <1>1, NewestTyped

LEMMA TypedBegins == Init => Typed
<1> SUFFICES ASSUME Init PROVE Typed
  OBVIOUS
<1> USE DEF Init
<1>1. RowsTyped
  BY DEF RowsTyped, RowType
<1>2. FiguresTyped
  BY DEF FiguresTyped
<1>3. JobTyped /\ OpeningTyped
  BY DEF JobTyped, Job, OpeningTyped
<1>4. TimeTyped
  BY BoundsAssumption DEF TimeTyped, Day
<1>5. QED
  BY <1>1, <1>2, <1>3, <1>4 DEF Typed

\* What a sync that is not over keeps.
Busy == [at: {"balances", "anchor", "verify"}, told: SUBSET Told, fresh: BOOLEAN]
LEMMA BusyJob ==
    ASSUME JobTyped, job.at \in {"balances", "anchor", "verify"}
    PROVE  job \in Busy
  BY DEF JobTyped, Job, Idle, Busy

LEMMA FetchTyped == Typed /\ Fetch => Typed'
<1> SUFFICES ASSUME Typed, Fetch PROVE Typed'
  OBVIOUS
<1> USE DEF Fetch, Typed, history
<1>1. RowsTyped'
  <2>1. rows' = [m \in Movement |-> RowAfter(rows[m], bank[m])] /\ bank' = bank
    OBVIOUS
  <2>2. \A m \in Movement : /\ RowAfter(rows[m], bank[m]) \in RowType({"here", "deleted"})
                            /\ RowAfter(rows[m], bank[m]) # Absent => bank[m] # Absent
    BY RowFacts DEF RowAfter, RowType
  <2>3. bank \in [Movement -> RowType({"here"})]
    BY DEF RowsTyped
  <2>4. QED
    BY <2>1, <2>2, <2>3 DEF RowsTyped
<1>2. FiguresTyped' /\ OpeningTyped'
  BY DEF FiguresTyped, OpeningTyped
<1>3. JobTyped'
  BY DEF JobTyped, Job
<1>4. TimeTyped'
  BY BoundsAssumption DEF TimeTyped
<1>5. QED
  BY <1>1, <1>2, <1>3, <1>4

LEMMA RecordBalancesTyped == Typed /\ RecordBalances => Typed'
<1> SUFFICES ASSUME Typed, RecordBalances PROVE Typed'
  OBVIOUS
<1> USE DEF Typed
<1>0. /\ job.at = "balances" /\ UNCHANGED <<today, bank, rows, opening, aligning, bounds, history>>
      /\ job \in Busy
  BY BusyJob DEF RecordBalances
<1>1. PICK types \in Reports \cup {{}}, day \in Day :
        /\ declared' = [declared EXCEPT ![day] = [s \in Source |->
                            IF s \in types THEN Figure(day, KindOf(s)) ELSE @[s]]]
        /\ job' = [job EXCEPT !.at = IF opening = None THEN "anchor" ELSE "verify",
                              !.told = {[date |-> day, source |-> s,
                                         figure |-> Figure(day, KindOf(s))] : s \in types}]
  BY DEF RecordBalances
<1>2. types \subseteq BankSource
  BY <1>1, ReportsAssumption
<1>3. RowsTyped' /\ OpeningTyped' /\ TimeTyped'
  BY <1>0 DEF RowsTyped, OpeningTyped, TimeTyped, bounds, history
<1>4. FiguresTyped'
  <2>1. declared \in [Day -> [Source -> Int \cup {None}]]
    BY DEF FiguresTyped
  <2>2. [s \in Source |-> IF s \in types THEN Figure(day, KindOf(s)) ELSE declared[day][s]]
          \in [Source -> Int \cup {None}]
    BY <2>1, FigureTyped
  <2>3. declared' \in [Day -> [Source -> Int \cup {None}]]
    BY <1>1, <2>1, <2>2
  <2>4. QED
    BY <1>0, <2>3 DEF FiguresTyped, history
<1>5. JobTyped'
  <2> DEFINE told == {[date |-> day, source |-> s, figure |-> Figure(day, KindOf(s))] : s \in types}
  <2>1. told \in SUBSET Told
    BY <1>2, FigureTyped DEF Told
  <2> HIDE DEF told
  <2>2. job' = [job EXCEPT !.at = IF opening = None THEN "anchor" ELSE "verify", !.told = told]
    BY <1>1 DEF told
  <2>3. QED
    BY <1>0, <2>1, <2>2 DEF JobTyped, Job, Busy
<1>6. QED
  BY <1>3, <1>4, <1>5

LEMMA AnchorTyped ==
    ASSUME Typed, NEW day \in Day, NEW figure \in Int, NEW kind, Anchor(day, figure, kind)
    PROVE  OpeningTyped'
  BY OpeningFromTyped, FoldsBoolean DEF Typed, Anchor, OpeningTyped

LEMMA AnchorFirstTyped == Typed /\ AnchorFirstOpening => Typed'
<1> SUFFICES ASSUME Typed, AnchorFirstOpening PROVE Typed'
  OBVIOUS
<1>1. /\ job.at = "anchor" /\ job' = [job EXCEPT !.at = "verify"]
      /\ UNCHANGED <<today, bank, rows, declared, aligning, bounds, said>>
  BY DEF AnchorFirstOpening
<1>2. RowsTyped' /\ FiguresTyped' /\ TimeTyped'
  BY <1>1 DEF Typed, RowsTyped, FiguresTyped, TimeTyped, bounds
<1>3. JobTyped'
  BY <1>1, BusyJob DEF Typed, JobTyped, Job, Busy
<1>4. OpeningTyped'
  <2>1. CASE UNCHANGED <<opening, folded>>
    BY <2>1 DEF Typed, OpeningTyped
  <2>2. CASE \E c \in Preferred : Anchor(c.date, c.figure, KindOf(c.source))
    <3>1. PICK c \in Preferred : Anchor(c.date, c.figure, KindOf(c.source))
      BY <2>2
    <3>2. c.date \in Day /\ c.figure \in Int
      BY PreferredTyped DEF Typed
    <3>3. QED
      BY <3>1, <3>2, AnchorTyped
  <2>3. QED
    BY <2>1, <2>2 DEF AnchorFirstOpening
<1>5. QED
  BY <1>2, <1>3, <1>4 DEF Typed

LEMMA HandWritesTyped ==
    ASSUME Typed, NEW day \in Day, NEW s \in HandSource, NEW figure \in Int,
           HandWrites(day, s, figure)
    PROVE  /\ declared' \in [Day -> [Source -> Int \cup {None}]]
           /\ said' \in [Day -> [Kind -> Int \cup {None}]]
<1>1. declared \in [Day -> [Source -> Int \cup {None}]] /\ said \in [Day -> [Kind -> Int \cup {None}]]
  BY DEF Typed, FiguresTyped
<1>2. declared' = WrittenDown(day, s, figure) /\ said' = [said EXCEPT ![day][KindOf(s)] = figure]
  BY DEF HandWrites
<1>3. declared' \in [Day -> [Source -> Int \cup {None}]]
  <2>1. [x \in Source |-> IF x = s THEN figure
           ELSE IF s \in HandSource /\ x \in HandSource /\ KindOf(x) = KindOf(s) THEN None
           ELSE declared[day][x]] \in [Source -> Int \cup {None}]
    BY <1>1
  <2>2. QED
    BY <1>1, <1>2, <2>1 DEF WrittenDown
<1>4. said' \in [Day -> [Kind -> Int \cup {None}]]
  BY <1>1, <1>2
<1>5. QED
  BY <1>3, <1>4

LEMMA PersonTyped == Typed /\ Person => Typed'
<1> SUFFICES ASSUME Typed, Person PROVE Typed'
  OBVIOUS
<1>1. ASSUME NEW m \in Movement, DeleteTransaction(m) \/ Restore(m) PROVE Typed'
  <2>1. /\ UNCHANGED <<today, bank, opening, declared, aligning, history, syncs>>
        /\ acts < MaxActs /\ acts' = acts + 1
        /\ rows[m].state \in {"here", "deleted"}
        /\ job' = job \/ job' = Unread(job)
    BY <1>1 DEF DeleteTransaction, Restore, ByHand
  <2>2. rows' = [rows EXCEPT ![m].state = "deleted"] \/ rows' = [rows EXCEPT ![m].state = "here"]
    BY <1>1 DEF DeleteTransaction, Restore
  <2>3. rows[m] \in [state: {"here", "deleted"}, date: Day, status: {"PDNG", "BOOK"}]
        /\ bank[m] # Absent
    BY <2>1, RowFacts DEF Typed, Absent
  <2>4. /\ [rows[m] EXCEPT !.state = "deleted"] \in RowType({"here", "deleted"})
        /\ [rows[m] EXCEPT !.state = "here"] \in RowType({"here", "deleted"})
    BY <2>3 DEF RowType
  <2>5. RowsTyped'
    BY <2>1, <2>2, <2>3, <2>4 DEF Typed, RowsTyped
  <2>6. FiguresTyped' /\ OpeningTyped'
    BY <2>1 DEF Typed, FiguresTyped, OpeningTyped, history
  <2>7. TimeTyped'
    BY <2>1, BoundsAssumption DEF Typed, TimeTyped
  <2>8. JobTyped'
    BY <2>1 DEF Typed, JobTyped, Job, Idle, Unread
  <2>9. QED
    BY <2>5, <2>6, <2>7, <2>8 DEF Typed
<1>2. ASSUME NEW day \in Day, NEW slip \in Slip, NEW s \in HandSource, Declare(day, s, slip)
      PROVE  Typed'
  <2>1. /\ UNCHANGED <<today, bank, rows, opening, job, aligning, folded, syncs>>
        /\ acts < MaxActs /\ acts' = acts + 1
        /\ HandWrites(day, s, Figure(day, KindOf(s)) + slip)
    BY <1>2 DEF Declare, ByHand
  <2>2. Figure(day, KindOf(s)) + slip \in Int
    BY FigureTyped, AmountAssumption
  <2>3. FiguresTyped'
    BY <2>1, <2>2, HandWritesTyped DEF Typed, FiguresTyped
  <2>4. RowsTyped' /\ OpeningTyped' /\ JobTyped'
    BY <2>1 DEF Typed, RowsTyped, OpeningTyped, JobTyped
  <2>5. TimeTyped'
    BY <2>1, BoundsAssumption DEF Typed, TimeTyped
  <2>6. QED
    BY <2>3, <2>4, <2>5 DEF Typed
<1>3. ASSUME NEW day \in Day, NEW slip \in Slip, NEW kind \in Kind, SetOpening(day, kind, slip)
      PROVE  Typed'
  <2>1. /\ UNCHANGED <<today, bank, rows, declared, job, said, syncs>>
        /\ acts < MaxActs /\ acts' = acts + 1
        /\ Anchor(day, Figure(day, kind) + slip, kind)
        /\ aligning' = [date |-> day, figure |-> Figure(day, kind) + slip,
                        source |-> IF kind = "booked" THEN "anchor:booked" ELSE "anchor:available"]
    BY <1>3 DEF SetOpening, ByHand
  <2>2. Figure(day, kind) + slip \in Int
    BY FigureTyped, AmountAssumption
  <2>3. OpeningTyped'
    BY <2>1, <2>2, AnchorTyped
  <2>4. FiguresTyped'
    BY <2>1, <2>2 DEF Typed, FiguresTyped, Aligned, Words
  <2>5. RowsTyped' /\ JobTyped'
    BY <2>1 DEF Typed, RowsTyped, JobTyped
  <2>6. TimeTyped'
    BY <2>1, BoundsAssumption DEF Typed, TimeTyped
  <2>7. QED
    BY <2>3, <2>4, <2>5, <2>6 DEF Typed
<1>4. ASSUME RecordAligned PROVE Typed'
  <2>1. /\ UNCHANGED <<today, bank, rows, opening, job, bounds, folded>>
        /\ aligning # None /\ aligning' = None
        /\ HandWrites(aligning.date, aligning.source, aligning.figure)
    BY <1>4 DEF RecordAligned
  <2>2. aligning \in Aligned
    BY <2>1 DEF Typed, FiguresTyped
  <2>3. aligning.date \in Day /\ aligning.source \in HandSource /\ aligning.figure \in Int
    BY <2>2 DEF Aligned, Words, HandSource
  <2>4. FiguresTyped'
    BY <2>1, <2>3, HandWritesTyped DEF FiguresTyped
  <2>5. RowsTyped' /\ OpeningTyped' /\ JobTyped' /\ TimeTyped'
    BY <2>1 DEF Typed, RowsTyped, OpeningTyped, JobTyped, TimeTyped, bounds
  <2>6. QED
    BY <2>4, <2>5 DEF Typed
<1>5. QED
  BY <1>1, <1>2, <1>3, <1>4 DEF Person

\* The bank dates a movement, or dates it again.
LEMMA AppearsTyped ==
    ASSUME Typed, NEW m \in Movement, NEW day \in Day, NEW status \in {"PDNG", "BOOK"},
           Appears(m, day, status)
    PROVE  Typed'
<1>1. /\ UNCHANGED <<today, rows, opening, declared, aligning, bounds, said>>
      /\ bank' = [bank EXCEPT ![m] = [state |-> "here", date |-> day, status |-> status]]
  BY DEF Appears
<1>2. RowsTyped'
  <2>1. [state |-> "here", date |-> day, status |-> status] \in RowType({"here"})
    BY DEF RowType
  <2>2. [state |-> "here", date |-> day, status |-> status] # Absent
    BY DEF Absent
  <2>3. QED
    BY <1>1, <2>1, <2>2 DEF Typed, RowsTyped
<1>3. FiguresTyped' /\ TimeTyped'
  BY <1>1 DEF Typed, FiguresTyped, TimeTyped, bounds
<1>4. OpeningTyped'
  <2>1. (folded \/ (opening # None /\ day <= opening.date)) \in BOOLEAN
    BY Zenon
  <2>2. QED
    BY <1>1, <2>1 DEF Typed, OpeningTyped, Appears
<1>5. JobTyped'
  <2>1. CASE job.at = "idle"
    BY <2>1 DEF Typed, JobTyped, Appears
  <2>2. CASE job.at # "idle"
    <3>1. job \in Busy
      BY <2>2 DEF Typed, JobTyped, Job, Idle, Busy
    <3>2. job' = [job EXCEPT !.fresh = job.fresh /\ job.at # "balances"]
      BY <2>2 DEF Appears
    <3>3. (job.fresh /\ job.at # "balances") \in BOOLEAN
      BY Zenon
    <3>4. job' \in Busy
      BY <3>1, <3>2, <3>3 DEF Busy
    <3>5. QED
      BY <3>4 DEF JobTyped, Job, Busy
  <2>3. QED
    BY <2>1, <2>2
<1>6. QED
  BY <1>2, <1>3, <1>4, <1>5 DEF Typed

\* What the bank does is one movement dated, booked or after it was pending.
LEMMA AppearsHow ==
    ASSUME Typed, NEW m \in Movement, Book(m) \/ Settle(m)
    PROVE  \E day \in Day, status \in {"PDNG", "BOOK"} :
              /\ Appears(m, day, status)
              /\ bank[m] = Absent \/ (bank[m].status = "PDNG" /\ status = "BOOK")
              /\ bank[m] = Absent => today - 1 <= day
<1>1. CASE Book(m)
  <2>1. PICK day \in Day \cap {today - 1, today} :
          Appears(m, day, IF m \in Pending THEN "PDNG" ELSE "BOOK")
    BY <1>1 DEF Book
  <2>2. today - 1 <= day /\ bank[m] = Absent
    BY <1>1, <2>1, DayIsNat DEF Book, Typed, TimeTyped
  <2>3. QED
    BY <2>1, <2>2
<1>2. CASE Settle(m)
  <2>1. bank[m].status = "PDNG"
    BY <1>2 DEF Settle
  <2>2. bank[m] # Absent
    BY <2>1, NoneAssumption DEF Absent
  <2>3. bank[m].date \in Day /\ today \in Day
    BY <2>2, RowFacts DEF Typed, TimeTyped
  <2>4. PICK day \in {bank[m].date, today} : Appears(m, day, "BOOK")
    BY <1>2 DEF Settle
  <2>5. QED
    BY <2>1, <2>2, <2>3, <2>4
<1>3. QED
  BY <1>1, <1>2

LEMMA TypedStep == Typed /\ [Next]_vars => Typed'
<1> SUFFICES ASSUME Typed, [Next]_vars PROVE Typed'
  OBVIOUS
<1>1. CASE Fetch
  BY <1>1, FetchTyped
<1>2. CASE RecordBalances
  BY <1>2, RecordBalancesTyped
<1>3. CASE AnchorFirstOpening
  BY <1>3, AnchorFirstTyped
<1>4. CASE Verify \/ Stop
  <2>1. /\ UNCHANGED <<today, bank, rows, opening, declared, aligning, syncs, history>>
        /\ job' = Idle
        /\ acts' = acts \/ (acts < MaxActs /\ acts' = acts + 1)
    BY <1>4 DEF Verify, Stop, bounds
  <2>2. RowsTyped' /\ FiguresTyped' /\ OpeningTyped' /\ JobTyped'
    BY <2>1 DEF Typed, RowsTyped, FiguresTyped, OpeningTyped, JobTyped, Job, history
  <2>3. TimeTyped'
    BY <2>1, BoundsAssumption DEF Typed, TimeTyped
  <2>4. QED
    BY <2>2, <2>3 DEF Typed
<1>5. CASE Person
  BY <1>5, PersonTyped
<1>6. CASE Tick
  <2>1. /\ UNCHANGED <<bank, rows, opening, declared, job, aligning, bounds, history>>
        /\ today < LastDay /\ today' = today + 1
    BY <1>6 DEF Tick
  <2>2. RowsTyped' /\ FiguresTyped' /\ OpeningTyped' /\ JobTyped'
    BY <2>1 DEF Typed, RowsTyped, FiguresTyped, OpeningTyped, JobTyped, history
  <2>3. TimeTyped'
    BY <2>1, BoundsAssumption DEF Typed, TimeTyped, Day, bounds
  <2>4. QED
    BY <2>2, <2>3 DEF Typed
<1>7. CASE \E m \in Movement : Book(m) \/ Settle(m)
  BY <1>7, AppearsHow, AppearsTyped
<1>8. CASE UNCHANGED vars
  BY <1>8 DEF vars, Typed, RowsTyped, FiguresTyped, OpeningTyped, JobTyped, TimeTyped
<1>9. QED
  BY <1>1, <1>2, <1>3, <1>4, <1>5, <1>6, <1>7, <1>8 DEF Next, Sync

LEMMA AlwaysTyped == Spec => []Typed
  BY TypedBegins, TypedStep, PTL DEF Spec

\* The dates, the figures, the declarations and the state of a sync keep their types,
\* and the ledger has nothing of a movement the bank never had.
THEOREM TypeCorrect == Spec => []TypeOK
  BY AlwaysTyped, TypedIs, PTL

-----------------------------------------------------------------------------
(* What a person declared stands.                                          *)

ByHandOf(kind) == {x \in HandSource : KindOf(x) = kind}
Stands(d, kind) == {declared[d][s] : s \in ByHandOf(kind)} \ {None} = {said[d][kind]} \ {None}
LEMMA StandsIs == DeclarationStands <=> \A d \in Day, kind \in Kind : Stands(d, kind)
  BY DEF DeclarationStands, Stands, ByHandOf

\* It is a person's figures that count: whatever leaves them alone leaves it standing.
LEMMA StandsUnmoved ==
    ASSUME NEW d \in Day, NEW kind \in Kind, Stands(d, kind), said' = said,
           \A s \in HandSource : declared'[d][s] = declared[d][s]
    PROVE  Stands(d, kind)'
  BY DEF Stands, ByHandOf

LEMMA StandsWritten ==
    ASSUME Typed, DeclarationStands, NEW day \in Day, NEW s \in HandSource, NEW figure \in Int,
           HandWrites(day, s, figure)
    PROVE  DeclarationStands'
<1>1. declared \in [Day -> [Source -> Int \cup {None}]] /\ said \in [Day -> [Kind -> Int \cup {None}]]
  BY DEF Typed, FiguresTyped
<1>2. /\ declared' = WrittenDown(day, s, figure) /\ said' = [said EXCEPT ![day][KindOf(s)] = figure]
      /\ KindOf(s) \in Kind
  BY DEF HandWrites, KindOf, Kind
<1>3. SUFFICES ASSUME NEW d \in Day, NEW kind \in Kind PROVE Stands(d, kind)'
  BY StandsIs DEF DeclarationStands, Stands, ByHandOf
<1>4. Stands(d, kind)
  BY StandsIs
<1>5. \A x \in HandSource : declared'[d][x] =
        IF d # day THEN declared[d][x]
        ELSE IF x = s THEN figure ELSE IF KindOf(x) = KindOf(s) THEN None ELSE declared[d][x]
  BY <1>1, <1>2 DEF WrittenDown, Source
<1>6. said'[d][kind] = IF d = day /\ kind = KindOf(s) THEN figure ELSE said[d][kind]
  BY <1>1, <1>2
<1>7. CASE d = day /\ kind = KindOf(s)
  <2>1. \A x \in ByHandOf(kind) : declared'[d][x] = IF x = s THEN figure ELSE None
    BY <1>5, <1>7 DEF ByHandOf
  <2>2. s \in ByHandOf(kind)
    BY <1>7 DEF ByHandOf
  <2>3. {declared'[d][x] : x \in ByHandOf(kind)} \ {None} = {figure} \ {None}
    BY <2>1, <2>2
  <2>4. QED
    BY <1>6, <1>7, <2>3 DEF Stands, ByHandOf
<1>8. CASE ~(d = day /\ kind = KindOf(s))
  <2>1. \A x \in ByHandOf(kind) : declared'[d][x] = declared[d][x]
    BY <1>5, <1>8 DEF ByHandOf
  <2>2. {declared'[d][x] : x \in ByHandOf(kind)} = {declared[d][x] : x \in ByHandOf(kind)}
    BY <2>1
  <2>3. said'[d][kind] = said[d][kind]
    BY <1>6, <1>8
  <2>4. QED
    BY <1>4, <2>2, <2>3 DEF Stands, ByHandOf
<1>9. QED
  BY <1>7, <1>8

LEMMA StandsBegins == Init => DeclarationStands
<1> SUFFICES ASSUME Init, NEW d \in Day, NEW kind \in Kind PROVE Stands(d, kind)
  BY StandsIs
<1>1. said[d][kind] = None /\ \A s \in ByHandOf(kind) : declared[d][s] = None
  BY DEF Init, ByHandOf, Source
<1>2. QED
  BY <1>1 DEF Stands

LEMMA StandsStep == Typed /\ DeclarationStands /\ [Next]_vars => DeclarationStands'
<1> SUFFICES ASSUME Typed, DeclarationStands, [Next]_vars PROVE DeclarationStands'
  OBVIOUS
<1>1. CASE UNCHANGED <<declared, said>>
  BY <1>1 DEF DeclarationStands
<1>2. CASE RecordBalances
  <2>1. PICK types \in Reports \cup {{}}, day \in Day :
          declared' = [declared EXCEPT ![day] = [s \in Source |->
                          IF s \in types THEN Figure(day, KindOf(s)) ELSE @[s]]]
    BY <1>2 DEF RecordBalances
  <2>2. types \subseteq BankSource
    BY <2>1, ReportsAssumption
  <2>3. declared \in [Day -> [Source -> Int \cup {None}]]
    BY DEF Typed, FiguresTyped
  <2>4. \A s \in HandSource : s \in Source /\ s \notin types
    BY <2>2 DEF HandSource, BankSource, Source
  <2>5. \A d \in Day, s \in HandSource : declared'[d][s] = declared[d][s]
    BY <2>1, <2>3, <2>4
  <2>6. said' = said
    BY <1>2 DEF RecordBalances, history
  <2>7. \A d \in Day, kind \in Kind : Stands(d, kind)'
    BY <2>5, <2>6, StandsIs, StandsUnmoved
  <2>8. QED
    BY <2>7 DEF DeclarationStands, Stands, ByHandOf
<1>3. ASSUME NEW day \in Day, NEW slip \in Slip, NEW s \in HandSource, Declare(day, s, slip)
      PROVE  DeclarationStands'
  <2>1. HandWrites(day, s, Figure(day, KindOf(s)) + slip)
    BY <1>3 DEF Declare
  <2>2. Figure(day, KindOf(s)) + slip \in Int
    BY FigureTyped, AmountAssumption
  <2>3. QED
    BY <2>1, <2>2, StandsWritten
<1>4. CASE RecordAligned
  <2>1. aligning \in Aligned /\ HandWrites(aligning.date, aligning.source, aligning.figure)
    BY <1>4 DEF RecordAligned, Typed, FiguresTyped
  <2>2. aligning.date \in Day /\ aligning.source \in HandSource /\ aligning.figure \in Int
    BY <2>1 DEF Aligned, Words, HandSource
  <2>3. QED
    BY <2>1, <2>2, StandsWritten
<1>5. CASE UNCHANGED vars
  BY <1>1, <1>5 DEF vars
<1>6. CASE Fetch \/ AnchorFirstOpening \/ Verify \/ Stop \/ Tick
  <2>1. UNCHANGED <<declared, said>>
    BY <1>6 DEF Fetch, AnchorFirstOpening, Verify, Stop, Tick, history
  <2>2. QED
    BY <1>1, <2>1
<1>7. CASE \E m \in Movement : DeleteTransaction(m) \/ Restore(m)
  BY <1>1, <1>7 DEF DeleteTransaction, Restore, history
<1>8. CASE \E day \in Day, slip \in Slip, kind \in Kind : SetOpening(day, kind, slip)
  BY <1>1, <1>8 DEF SetOpening
<1>9. CASE \E m \in Movement : Book(m) \/ Settle(m)
  BY <1>1, <1>9 DEF Book, Settle, Appears
<1>10. QED
  BY <1>2, <1>3, <1>4, <1>5, <1>6, <1>7, <1>8, <1>9 DEF Next, Sync, Person

\* Of a day and a kind there is one figure a person wrote, and it is the one written
\* last, through whichever route: a declaration, or the alignment of an opening, whose
\* two commits others may come between (record_declared_balance).
THEOREM WordsStand == Spec => []DeclarationStands
<1>1. Init => DeclarationStands
  BY StandsBegins
<1>2. Typed /\ DeclarationStands /\ [Next]_vars => DeclarationStands'
  BY StandsStep
<1>3. QED
  BY <1>1, <1>2, AlwaysTyped, PTL DEF Spec

-----------------------------------------------------------------------------
(* The invariant of the check.                                             *)

\* What a tombstone says its movement was.
Alive(r) == [r EXCEPT !.state = "here"]
\* The bank dates a movement once, and once more when it settles.
Past(x, y) == x = y \/ x = Absent \/ (x.status = "PDNG" /\ y.status = "BOOK")

\* The ledger has what the bank had some day.
RowsPast == \A m \in Movement : rows[m] # Absent => Past(Alive(rows[m]), bank[m])

\* An opening that folds nothing in is what the account held and what the bank, by
\* now, settled up to its date.
Opened == {m \in Movement : bank[m] # Absent /\ bank[m].date <= opening.date}
OpeningHolds ==
    /\ opening.balance = Before + Sum(Opened)
    /\ \A m \in Opened : bank[m].status = "BOOK"
OpeningInv == ~folded /\ opening # None => OpeningHolds

\* B is what the bank had when the sync read it: what the ledger has and what the
\* figures told add up to.
BankPart(B) == \A m \in Movement : Past(B[m], bank[m])
RowPart(B, m) ==
    /\ rows[m] = Absent => B[m] = Absent
    /\ rows[m].state = "here" => rows[m] = B[m]
    /\ rows[m].state = "deleted" => B[m] # Absent /\ Past(Alive(rows[m]), B[m])
RowsPart(B) == \A m \in Movement : RowPart(B, m)
ToldPart(B) ==
    \A c \in job.told :
        c.figure = Before + Sum(CountedIn(B, "here", KindOf(c.source), c.date, 0))
\* Up to the opening the bank has now what it had then.
OpenedThen(B) ==
    \A m \in Movement :
        (B[m] # Absent /\ B[m].date <= opening.date) \/ m \in Opened => B[m] = bank[m]
OpeningPart(B) == ~folded /\ opening # None => OpenedThen(B)
ReadThen(B) ==
    BankPart(B) /\ RowsPart(B) /\ ToldPart(B) /\ OpeningPart(B) /\ (job.at = "balances" => B = bank)
Tables == [Movement -> RowType({"here"})]
Reading == job.at \in {"balances", "anchor", "verify"} /\ job.fresh
ToldInv == Reading => \E B \in Tables : ReadThen(B)

CheckInv == Typed /\ RowsPast /\ OpeningInv /\ ToldInv
\* A row that is there, deleted and restored.
Full == [state: {"here", "deleted"}, date: Day, status: {"PDNG", "BOOK"}]
Live == [state: {"here"}, date: Day, status: {"PDNG", "BOOK"}]

LEMMA RowIs ==
    ASSUME RowsTyped, NEW m \in Movement
    PROVE  /\ bank[m] = Absent \/ bank[m] \in Live
           /\ rows[m] = Absent \/ (rows[m] \in Full /\ bank[m] \in Live)
  BY RowFacts DEF Full, Live

LEMMA TableIs ==
    ASSUME NEW B \in Tables, NEW m \in Movement
    PROVE  B[m] = Absent \/ B[m] \in Live
  BY DEF Tables, RowType, Live

LEMMA AbsentApart ==
    ASSUME NEW r \in Full
    PROVE  r # Absent /\ Absent.state = "absent" /\ Absent.status \notin {"PDNG", "BOOK"} /\ Absent.date = 0
  BY NoneAssumption DEF Full, Absent

LEMMA AliveIs ==
    ASSUME NEW r \in Full
    PROVE  /\ Alive(r) \in Live /\ Alive(r).date = r.date /\ Alive(r).status = r.status
           /\ r.state = "here" => Alive(r) = r
           /\ Alive([r EXCEPT !.state = "deleted"]) = Alive(r)
           /\ Alive([r EXCEPT !.state = "here"]) = Alive(r)
           /\ [r EXCEPT !.state = "deleted"] \in Full /\ [r EXCEPT !.state = "here"] \in Full
           /\ [r EXCEPT !.state = "deleted"].state = "deleted"
           /\ [r EXCEPT !.state = "here"].state = "here"
  BY DEF Full, Live, Alive

LEMMA LiveFull == Live \subseteq Full /\ \A r \in Live : r.state = "here" /\ Alive(r) = r
  BY DEF Full, Live, Alive

LEMMA PastSettled ==
    ASSUME NEW x \in Live, NEW y, Past(x, y), x.status = "BOOK"
    PROVE  y = x
<1>1. x # Absent
  BY LiveFull, AbsentApart
<1>2. QED
  BY <1>1 DEF Past

LEMMA CheckBegins == Init => CheckInv
<1> SUFFICES ASSUME Init PROVE CheckInv
  OBVIOUS
<1>1. Typed
  BY TypedBegins
<1>2. RowsPast
  BY DEF Init, RowsPast
<1>3. OpeningInv /\ ToldInv
  BY DEF Init, OpeningInv, ToldInv, Reading, Idle
<1>4. QED
  BY <1>1, <1>2, <1>3 DEF CheckInv

\* A sync reads what the bank has.
LEMMA CheckFetch == CheckInv /\ Fetch => RowsPast' /\ OpeningInv' /\ ToldInv'
<1> SUFFICES ASSUME CheckInv, Fetch PROVE RowsPast' /\ OpeningInv' /\ ToldInv'
  OBVIOUS
<1>1. /\ rows' = [m \in Movement |-> RowAfter(rows[m], bank[m])]
      /\ job' = [at |-> "balances", told |-> {}, fresh |-> TRUE]
      /\ UNCHANGED <<bank, opening, folded>>
  BY DEF Fetch, history
<1>2. RowsTyped /\ RowsPast /\ OpeningInv
  BY DEF CheckInv, Typed
<1>3. \A m \in Movement :
        rows'[m] = IF rows[m].state = "deleted" THEN rows[m] ELSE bank[m]
  BY <1>1 DEF RowAfter
<1>4. RowsPast'
  <2> SUFFICES ASSUME NEW m \in Movement, rows'[m] # Absent
               PROVE  Past(Alive(rows'[m]), bank[m])
    BY <1>1 DEF RowsPast
  <2>1. CASE rows[m].state = "deleted"
    BY <1>2, <1>3, <2>1 DEF RowsPast
  <2>2. CASE rows[m].state # "deleted"
    <3>1. rows'[m] = bank[m] /\ bank[m] \in Live
      BY <1>2, <1>3, <2>2, RowIs
    <3>2. QED
      BY <3>1, LiveFull DEF Past
  <2>3. QED
    BY <2>1, <2>2
<1>5. OpeningInv'
  BY <1>1, <1>2 DEF OpeningInv, OpeningHolds, Opened
<1>6. ToldInv'
  <2>1. bank \in Tables
    BY <1>2 DEF RowsTyped, Tables
  <2>2. BankPart(bank)' /\ OpeningPart(bank)'
    BY <1>1 DEF BankPart, Past, OpeningPart, OpenedThen
  <2>3. RowsPart(bank)'
    <3> SUFFICES ASSUME NEW m \in Movement PROVE RowPart(bank, m)'
      BY DEF RowsPart
    <3>1. CASE rows[m].state = "deleted"
      <4>1. rows'[m] = rows[m] /\ rows[m] # Absent
        BY <1>3, <3>1 DEF Absent
      <4>2. bank[m] # Absent /\ Past(Alive(rows[m]), bank[m])
        BY <1>2, <4>1 DEF RowsPast, RowsTyped
      <4>3. QED
        BY <1>1, <3>1, <4>1, <4>2 DEF RowPart
    <3>2. CASE rows[m].state # "deleted"
      <4>1. rows'[m] = bank[m]
        BY <1>3, <3>2
      <4>2. bank[m].state # "deleted"
        BY <1>2, RowIs, LiveFull DEF Absent
      <4>3. QED
        BY <1>1, <4>1, <4>2 DEF RowPart
    <3>3. QED
      BY <3>1, <3>2
  <2>4. ToldPart(bank)'
    BY <1>1 DEF ToldPart
  <2>5. ReadThen(bank)'
    BY <1>1, <2>2, <2>3, <2>4 DEF ReadThen
  <2>6. Tables' = Tables
    BY DEF Tables
  <2>7. QED
    BY <1>1, <2>1, <2>5, <2>6 DEF ToldInv
<1>7. QED
  BY <1>4, <1>5, <1>6

\* The figures it is told are the bank's of when it read.
LEMMA CheckRecord == CheckInv /\ RecordBalances => RowsPast' /\ OpeningInv' /\ ToldInv'
<1> SUFFICES ASSUME CheckInv, RecordBalances PROVE RowsPast' /\ OpeningInv' /\ ToldInv'
  OBVIOUS
<1>0. /\ job.at = "balances" /\ UNCHANGED <<today, bank, rows, opening, aligning, bounds, history>>
      /\ job \in Busy
  BY BusyJob DEF RecordBalances, CheckInv, Typed
<1>1. PICK types \in Reports \cup {{}}, day \in Day :
        job' = [job EXCEPT !.at = IF opening = None THEN "anchor" ELSE "verify",
                           !.told = {[date |-> day, source |-> s,
                                      figure |-> Figure(day, KindOf(s))] : s \in types}]
  BY DEF RecordBalances
<1> DEFINE told == {[date |-> day, source |-> s, figure |-> Figure(day, KindOf(s))] : s \in types}
<1>2. job'.told = told /\ job'.fresh = job.fresh /\ job'.at # "balances"
  BY <1>0, <1>1 DEF Busy
<1>3. RowsPast' /\ OpeningInv'
  BY <1>0 DEF CheckInv, RowsPast, OpeningInv, OpeningHolds, Opened, history
<1>4. ASSUME Reading' PROVE \E B \in Tables : ReadThen(B)'
  <2>1. PICK B \in Tables : ReadThen(B)
    BY <1>0, <1>2, <1>4 DEF Reading, CheckInv, ToldInv
  <2>2. B = bank
    BY <1>0, <2>1 DEF ReadThen
  <2>3. BankPart(B)' /\ RowsPart(B)' /\ OpeningPart(B)'
    BY <1>0, <2>1 DEF ReadThen, BankPart, RowsPart, RowPart, OpeningPart, OpenedThen, Opened, history
  <2>4. \A c \in told : c.figure = Before + Sum(CountedIn(B, "here", KindOf(c.source), c.date, 0))
    <3>1. \A s \in types :
            Figure(day, KindOf(s)) = Before + Sum(CountedIn(B, "here", KindOf(s), day, 0))
      BY <2>2 DEF Figure
    <3>2. QED
      BY <3>1
  <2>5. ToldPart(B)'
    BY <1>2, <2>4 DEF ToldPart, CountedIn
  <2>6. ReadThen(B)'
    BY <1>2, <2>3, <2>5 DEF ReadThen
  <2>7. QED
    BY <2>6
<1>5. Tables' = Tables
  BY DEF Tables
<1>6. QED
  BY <1>3, <1>4, <1>5 DEF ToldInv

\* Whatever keeps the tables and the opening keeps what a sync was told.
LEMMA ToldUnmoved ==
    ASSUME ToldInv, UNCHANGED <<bank, rows, opening, folded>>,
           job' = Idle \/ job' = job
    PROVE  ToldInv'
<1>1. SUFFICES ASSUME Reading' PROVE \E B \in Tables : ReadThen(B)'
  <2>1. Tables' = Tables
    BY DEF Tables
  <2>2. QED
    BY <1>1, <2>1 DEF ToldInv
<1>2. job' = job
  BY <1>1 DEF Reading, Idle
<1>3. PICK B \in Tables : ReadThen(B)
  BY <1>1, <1>2 DEF Reading, ToldInv
<1>4. BankPart(B)' /\ RowsPart(B)' /\ OpeningPart(B)'
  BY <1>3 DEF ReadThen, BankPart, RowsPart, RowPart, OpeningPart, OpenedThen, Opened
<1>5. ToldPart(B)' /\ (job'.at = "balances" => B = bank')
  BY <1>2, <1>3 DEF ReadThen, ToldPart, CountedIn
<1>6. QED
  BY <1>4, <1>5 DEF ReadThen

\* An opening that folds nothing in leaves out of it only what was deleted before.
KeptOut(day, figure, kind) == {m \in Movement : Inside(m, day, figure, kind)}
FoldsNothing(day, figure, kind) ==
    /\ figure = Figure(day, kind)
    /\ \A m \in Movement :
         \/ rows[m] = bank[m] \/ Inside(m, day, figure, kind)
         \/ /\ ~(bank[m].date <= day)
            /\ rows[m].state = "absent" \/ ~(rows[m].date <= day)

LEMMA FoldsNothingIs ==
    ASSUME NEW day, NEW figure, NEW kind, ~Folds(day, figure, kind)
    PROVE  FoldsNothing(day, figure, kind)
  BY DEF Folds, FoldsNothing

\* A movement that is inside an opening is deleted and settled, before its date.
LEMMA InsideIs ==
    ASSUME RowsTyped, NEW day \in Day, NEW figure \in Int, NEW kind, NEW m \in Movement,
           Inside(m, day, figure, kind)
    PROVE  /\ bank[m] \in Live /\ bank[m] # Absent
           /\ rows[m] \in Full /\ rows[m].state = "deleted" /\ Alive(rows[m]) = bank[m]
           /\ bank[m].status = "BOOK" /\ bank[m].date <= OpeningFrom(day, figure, kind).date
<1>1. /\ rows[m] = [bank[m] EXCEPT !.state = "deleted"] /\ rows[m].status = "BOOK"
      /\ rows[m].date <= OpeningFrom(day, figure, kind).date
  BY DEF Inside
<1>2. CASE bank[m] = Absent
  <2>1. rows[m] # Absent
    BY <1>1, <1>2 DEF Absent
  <2>2. QED
    BY <1>2, <2>1, RowIs, LiveFull, AbsentApart
<1>3. CASE bank[m] \in Live
  <2>1. bank[m] \in Full /\ bank[m].state = "here" /\ Alive(bank[m]) = bank[m]
    BY <1>3, LiveFull
  <2>2. rows[m] \in Full /\ rows[m].state = "deleted" /\ Alive(rows[m]) = Alive(bank[m])
    BY <1>1, <2>1, AliveIs
  <2>3. Alive(rows[m]).date = rows[m].date /\ Alive(rows[m]).status = rows[m].status
    BY <2>2, AliveIs
  <2>4. bank[m] # Absent
    BY <2>1, AbsentApart
  <2>5. QED
    BY <1>1, <1>3, <2>1, <2>2, <2>3, <2>4
<1>4. QED
  BY <1>2, <1>3, RowIs

\* What the bank dated up to such an opening.
LEMMA InsideAll ==
    ASSUME RowsTyped, NEW day \in Day, NEW figure \in Int, NEW kind,
           FoldsNothing(day, figure, kind),
           NEW m \in Movement, bank[m] # Absent,
           bank[m].date <= OpeningFrom(day, figure, kind).date
    PROVE  Inside(m, day, figure, kind)
<1> DEFINE o == OpeningFrom(day, figure, kind)
<1>1. /\ o \in Opening /\ o.date <= day
      /\ \A n \in Movement : rows[n].state = "here" /\ rows[n].date <= day => rows[n].date > o.date
  BY OpeningFromTyped
<1>2. bank[m] \in Live
  BY RowIs
<1>3. bank[m].date \in Nat /\ o.date \in Nat /\ day \in Nat /\ bank[m].date <= o.date
  BY <1>1, <1>2, DayIsNat DEF Live, Opening
<1>4. bank[m].date <= day
  BY <1>1, <1>3
<1>5. rows[m] # bank[m]
  <2> SUFFICES ASSUME rows[m] = bank[m] PROVE FALSE
    OBVIOUS
  <2>1. rows[m].state = "here" /\ rows[m].date <= day
    BY <1>2, <1>4, LiveFull
  <2>2. rows[m].date > o.date
    BY <1>1, <2>1
  <2>3. QED
    BY <1>3, <2>2
<1>6. QED
  BY <1>4, <1>5 DEF FoldsNothing

\* What the figure counts and the ledger does not is inside the opening.
LEMMA FigureSplit ==
    ASSUME RowsTyped, NEW day \in Day, NEW figure \in Int, NEW kind \in Kind,
           FoldsNothing(day, figure, kind)
    PROVE  Figure(day, kind) = Before + (Moved(day, kind) + Sum(KeptOut(day, figure, kind)))
<1> DEFINE o == OpeningFrom(day, figure, kind)
           ofBank == CountedIn(bank, "here", kind, day, 0)
           ofRows == CountedIn(rows, "here", kind, day, 0)
           out == KeptOut(day, figure, kind)
<1>1. o \in Opening /\ o.date <= day /\ o.date \in Nat /\ day \in Nat
  BY OpeningFromTyped, DayIsNat DEF Opening
<1>2. "BOOK" \in Statuses(kind)
  BY DEF Statuses
<1>3. \A m \in Movement : Inside(m, day, figure, kind) =>
        /\ bank[m].state = "here" /\ bank[m].status = "BOOK"
        /\ bank[m].date \in Nat /\ 0 < bank[m].date /\ bank[m].date <= day
        /\ rows[m].state = "deleted"
  <2> SUFFICES ASSUME NEW m \in Movement, Inside(m, day, figure, kind)
               PROVE  /\ bank[m].state = "here" /\ bank[m].status = "BOOK"
                      /\ bank[m].date \in Nat /\ 0 < bank[m].date /\ bank[m].date <= day
                      /\ rows[m].state = "deleted"
    OBVIOUS
  <2>1. /\ bank[m] \in Live /\ rows[m].state = "deleted"
        /\ bank[m].status = "BOOK" /\ bank[m].date <= o.date
    BY InsideIs
  <2>2. bank[m].date \in Nat /\ 0 < bank[m].date /\ bank[m].state = "here"
    BY <2>1, DayIsNat DEF Live
  <2>3. QED
    BY <1>1, <2>1, <2>2
<1>4. \A m \in Movement : m \in ofBank <=> m \in ofRows \/ m \in out
  <2> SUFFICES ASSUME NEW m \in Movement
               PROVE  m \in ofBank <=> m \in ofRows \/ m \in out
    OBVIOUS
  <2>1. CASE rows[m] = bank[m] /\ ~Inside(m, day, figure, kind)
    BY <2>1 DEF CountedIn, KeptOut
  <2>2. CASE Inside(m, day, figure, kind)
    <3>1. m \in out
      BY <2>2 DEF KeptOut
    <3>2. m \in ofBank
      BY <1>2, <1>3, <2>2 DEF CountedIn
    <3>3. QED
      BY <3>1, <3>2
  <2>3. CASE /\ ~Inside(m, day, figure, kind) /\ ~(bank[m].date <= day)
             /\ rows[m].state = "absent" \/ ~(rows[m].date <= day)
    BY <2>3 DEF CountedIn, KeptOut
  <2>4. QED
    BY <2>1, <2>2, <2>3 DEF FoldsNothing
<1>5. ofRows \cap out = {}
  BY <1>3 DEF CountedIn, KeptOut
<1>6. ofRows \in SUBSET Movement /\ out \in SUBSET Movement /\ ofBank \in SUBSET Movement
  BY DEF CountedIn, KeptOut
<1> HIDE DEF ofBank, ofRows, out
<1>7. ofBank = ofRows \cup out
  BY <1>4, <1>6
<1>8. Sum(ofBank) = Sum(ofRows) + Sum(out)
  BY <1>5, <1>6, <1>7, SumUnion
<1>9. QED
  BY <1>8 DEF Figure, Moved, ofBank, ofRows, out

LEMMA AnchorOpens ==
    ASSUME Typed, NEW day \in Day, NEW figure \in Int, NEW kind \in Kind,
           Anchor(day, figure, kind), bank' = bank
    PROVE  OpeningInv'
<1> DEFINE o == OpeningFrom(day, figure, kind)
<1>1. SUFFICES ASSUME ~folded' PROVE OpeningHolds'
  BY DEF OpeningInv
<1>2. RowsTyped
  BY DEF Typed
<1>3. opening' = o /\ FoldsNothing(day, figure, kind)
  BY <1>1, FoldsNothingIs DEF Anchor
<1>4. o \in Opening /\ o.balance = figure - Moved(day, kind)
  BY <1>2, OpeningFromTyped
<1>5. {m \in Movement : bank[m] # Absent /\ bank[m].date <= o.date} = KeptOut(day, figure, kind)
  <2>1. \A m \in Movement :
          bank[m] # Absent /\ bank[m].date <= o.date => Inside(m, day, figure, kind)
    BY <1>2, <1>3, InsideAll
  <2>2. \A m \in Movement :
          Inside(m, day, figure, kind) => bank[m] # Absent /\ bank[m].date <= o.date
    BY <1>2, InsideIs
  <2>3. QED
    BY <2>1, <2>2 DEF KeptOut
<1> HIDE DEF o
<1>6. Opened' = KeptOut(day, figure, kind)
  BY <1>3, <1>5 DEF Opened
<1>7. \A m \in KeptOut(day, figure, kind) : bank[m].status = "BOOK"
  BY <1>2, InsideIs DEF KeptOut
<1>8. figure = Before + (Moved(day, kind) + Sum(KeptOut(day, figure, kind)))
  BY <1>2, <1>3, FigureSplit DEF FoldsNothing
<1>9. KeptOut(day, figure, kind) \in SUBSET Movement
  BY DEF KeptOut
<1>10. Sum(KeptOut(day, figure, kind)) \in Int /\ Moved(day, kind) \in Int /\ Before \in Int
  BY <1>9, SumTyped, FigureTyped, AmountAssumption
<1>11. opening'.balance = Before + Sum(KeptOut(day, figure, kind))
  BY <1>3, <1>4, <1>8, <1>10
<1>12. QED
  BY <1>6, <1>7, <1>11 DEF OpeningHolds

\* Up to such an opening, what a sync read is what the bank has.
LEMMA AnchorAgrees ==
    ASSUME Typed, NEW day \in Day, NEW figure \in Int, NEW kind \in Kind,
           Anchor(day, figure, kind), bank' = bank,
           NEW B \in Tables, BankPart(B), RowsPart(B)
    PROVE  OpeningPart(B)'
<1> DEFINE o == OpeningFrom(day, figure, kind)
<1>1. SUFFICES ASSUME ~folded' PROVE OpenedThen(B)'
  BY DEF OpeningPart
<1>2. RowsTyped
  BY DEF Typed
<1>3. opening' = o /\ FoldsNothing(day, figure, kind)
  BY <1>1, FoldsNothingIs DEF Anchor
<1>4. o \in Opening /\ o.date <= day /\ o.date \in Nat /\ day \in Nat
  BY <1>2, OpeningFromTyped, DayIsNat DEF Opening
<1>5. ASSUME NEW m \in Movement, Inside(m, day, figure, kind) PROVE B[m] = bank[m]
  <2>1. /\ bank[m] \in Live /\ rows[m].state = "deleted"
        /\ Alive(rows[m]) = bank[m] /\ bank[m].status = "BOOK"
    BY <1>2, <1>5, InsideIs
  <2>2. Past(bank[m], B[m])
    BY <2>1 DEF RowsPart, RowPart
  <2>3. QED
    BY <2>1, <2>2, PastSettled
<1>6. ASSUME NEW m \in Movement, B[m] # Absent, B[m].date <= o.date PROVE B[m] = bank[m]
  <2>1. B[m] \in Live /\ rows[m] \in Full /\ bank[m] \in Live /\ rows[m] # Absent
    BY <1>2, <1>6, RowIs, TableIs DEF RowsPart, RowPart
  <2>2. B[m].date \in Nat /\ B[m].date <= day
    <3>1. B[m].date \in Day
      BY <2>1 DEF Live
    <3>2. B[m].date \in Nat
      BY <3>1, DayIsNat
    <3>3. QED
      BY <1>4, <1>6, <3>2
  <2>3. CASE rows[m] = bank[m]
    <3>1. rows[m].state = "here"
      BY <2>1, <2>3, LiveFull
    <3>2. QED
      BY <2>3, <3>1 DEF RowsPart, RowPart
  <2>4. CASE Inside(m, day, figure, kind)
    BY <1>5, <2>4
  <2>5. CASE ~(rows[m].date <= day)
    <3>1. rows[m].state = "here" \/ rows[m].state = "deleted"
      BY <2>1 DEF Full
    <3>2. rows[m].state # "here"
      BY <2>2, <2>5 DEF RowsPart, RowPart
    <3>3. Past(Alive(rows[m]), B[m]) /\ Past(B[m], bank[m])
      BY <3>1, <3>2 DEF RowsPart, RowPart, BankPart
    <3>4. Alive(rows[m]) \in Live /\ Alive(rows[m]).date = rows[m].date
      BY <2>1, AliveIs
    <3>5. Alive(rows[m]) # B[m]
      BY <2>2, <2>5, <3>4
    <3>6. Alive(rows[m]) # Absent
      BY <3>4, LiveFull, AbsentApart
    <3>7. B[m].status = "BOOK"
      BY <3>3, <3>5, <3>6 DEF Past
    <3>8. QED
      BY <2>1, <3>3, <3>7, PastSettled
  <2>6. rows[m].state # "absent"
    BY <2>1 DEF Full
  <2>7. QED
    BY <1>3, <2>3, <2>4, <2>5, <2>6 DEF FoldsNothing
<1>7. ASSUME NEW m \in Movement, bank[m] # Absent, bank[m].date <= o.date PROVE B[m] = bank[m]
  <2>1. Inside(m, day, figure, kind)
    BY <1>2, <1>3, <1>7, InsideAll
  <2>2. QED
    BY <1>5, <2>1
<1> HIDE DEF o
<1>8. \A m \in Movement :
        (B[m] # Absent /\ B[m].date <= o.date) \/ (bank[m] # Absent /\ bank[m].date <= o.date)
          => B[m] = bank[m]
  BY <1>6, <1>7
<1>9. QED
  BY <1>3, <1>8 DEF OpenedThen, Opened

\* An opening is set by a sync or by hand, and a sync then goes on with what it was told.
LEMMA CheckAnchor ==
    ASSUME CheckInv, NEW day \in Day, NEW figure \in Int, NEW kind \in Kind,
           Anchor(day, figure, kind), bank' = bank, rows' = rows,
           job' = job \/ (job' = [job EXCEPT !.at = "verify"] /\ job.at = "anchor")
    PROVE  RowsPast' /\ OpeningInv' /\ ToldInv'
<1>1. Typed /\ RowsPast /\ ToldInv
  BY DEF CheckInv
<1>2. RowsPast'
  BY <1>1 DEF RowsPast
<1>3. OpeningInv'
  BY <1>1, AnchorOpens
<1>4. ASSUME Reading' PROVE \E B \in Tables : ReadThen(B)'
  <2>1. /\ job.at \in {"balances", "anchor", "verify"} /\ job'.told = job.told
        /\ job'.fresh = job.fresh /\ (job'.at = "balances" => job.at = "balances")
    <3>1. CASE job' = job
      BY <1>4, <3>1 DEF Reading
    <3>2. CASE job' = [job EXCEPT !.at = "verify"] /\ job.at = "anchor"
      BY <1>1, <3>2, BusyJob DEF Typed, Busy
    <3>3. QED
      BY <3>1, <3>2
  <2>2. PICK B \in Tables : ReadThen(B)
    BY <1>1, <1>4, <2>1 DEF Reading, ToldInv
  <2>3. BankPart(B) /\ RowsPart(B)
    BY <2>2 DEF ReadThen
  <2>4. OpeningPart(B)'
    BY <1>1, <2>3, AnchorAgrees
  <2>5. BankPart(B)' /\ RowsPart(B)'
    BY <2>3 DEF BankPart, RowsPart, RowPart
  <2>6. ToldPart(B)' /\ (job'.at = "balances" => B = bank')
    BY <2>1, <2>2 DEF ReadThen, ToldPart, CountedIn
  <2>7. ReadThen(B)'
    BY <2>4, <2>5, <2>6 DEF ReadThen
  <2>8. QED
    BY <2>7
<1>5. Tables' = Tables
  BY DEF Tables
<1>6. QED
  BY <1>2, <1>3, <1>4, <1>5 DEF ToldInv

\* A movement deleted or restored keeps what its row says.
LEMMA CheckByHand ==
    ASSUME CheckInv, NEW m \in Movement, DeleteTransaction(m) \/ Restore(m)
    PROVE  RowsPast' /\ OpeningInv' /\ ToldInv'
<1>1. Typed /\ RowsTyped /\ RowsPast /\ OpeningInv /\ ToldInv
  BY DEF CheckInv, Typed
<1>2. /\ UNCHANGED <<bank, opening, folded>>
      /\ rows[m].state \in {"here", "deleted"}
      /\ rows' = [rows EXCEPT ![m].state = "deleted"] \/ rows' = [rows EXCEPT ![m].state = "here"]
  BY DEF DeleteTransaction, Restore, history
<1>3. rows \in [Movement -> RowType({"here", "deleted"})]
  BY <1>1 DEF RowsTyped
<1>4. rows[m] \in Full /\ rows[m] # Absent /\ rows'[m] \in Full /\ Alive(rows'[m]) = Alive(rows[m])
  <2>1. rows[m] \in Full /\ rows[m] # Absent
    BY <1>1, <1>2, RowIs DEF Absent
  <2>2. \/ rows'[m] = [rows[m] EXCEPT !.state = "deleted"]
        \/ rows'[m] = [rows[m] EXCEPT !.state = "here"]
    BY <1>2, <1>3
  <2>3. QED
    BY <2>1, <2>2, AliveIs
<1>5. \A n \in Movement : n # m => rows'[n] = rows[n]
  BY <1>2, <1>3
<1>6. RowsPast'
  BY <1>1, <1>2, <1>4, <1>5 DEF RowsPast
<1>7. OpeningInv'
  BY <1>1, <1>2 DEF OpeningInv, OpeningHolds, Opened
<1>8. ASSUME Reading' PROVE \E B \in Tables : ReadThen(B)'
  <2>1. DeleteTransaction(m)
    <3>1. CASE Restore(m)
      <4>1. job' = Unread(job)
        BY <3>1 DEF Restore
      <4>2. CASE job.at = "idle"
        BY <1>8, <4>1, <4>2 DEF Unread, Reading
      <4>3. CASE job.at # "idle"
        <5>1. job \in Busy
          BY <1>1, <4>3 DEF Typed, JobTyped, Job, Idle, Busy
        <5>2. job'.fresh = FALSE
          BY <4>1, <4>3, <5>1 DEF Unread, Busy
        <5>3. QED
          BY <1>8, <5>2 DEF Reading
      <4>4. QED
        BY <4>2, <4>3
    <3>2. QED
      BY <3>1
  <2>2. /\ job' = job /\ rows[m].state = "here"
        /\ rows' = [rows EXCEPT ![m].state = "deleted"]
    BY <2>1 DEF DeleteTransaction
  <2>3. PICK B \in Tables : ReadThen(B)
    BY <1>1, <1>8, <2>2 DEF Reading, ToldInv
  <2>4. RowsPart(B)'
    <3> SUFFICES ASSUME NEW n \in Movement PROVE RowPart(B, n)'
      BY DEF RowsPart
    <3>1. RowPart(B, n)
      BY <2>3 DEF ReadThen, RowsPart
    <3>2. CASE n # m
      BY <1>5, <3>1, <3>2 DEF RowPart
    <3>3. CASE n = m
      <4>1. B[m] = rows[m] /\ Alive(rows'[m]) = rows[m]
        BY <1>4, <2>2, <3>1, <3>3, AliveIs DEF RowPart
      <4>2. rows'[m].state = "deleted"
        BY <1>3, <1>4, <2>2, AliveIs
      <4>3. rows'[m] # Absent
        BY <1>4, AbsentApart
      <4>4. QED
        BY <1>4, <3>3, <4>1, <4>2, <4>3 DEF RowPart, Past
    <3>4. QED
      BY <3>2, <3>3
  <2>5. BankPart(B)' /\ OpeningPart(B)'
    BY <1>2, <2>3 DEF ReadThen, BankPart, OpeningPart, OpenedThen, Opened
  <2>6. ToldPart(B)' /\ (job'.at = "balances" => B = bank')
    BY <1>2, <2>2, <2>3 DEF ReadThen, ToldPart, CountedIn
  <2>7. ReadThen(B)'
    BY <2>4, <2>5, <2>6 DEF ReadThen
  <2>8. QED
    BY <2>7
<1>9. Tables' = Tables
  BY DEF Tables
<1>10. QED
  BY <1>6, <1>7, <1>8, <1>9 DEF ToldInv

\* A movement the bank dates, after no opening it would belong to.
LEMMA CheckAppears ==
    ASSUME CheckInv, NEW m \in Movement, NEW day \in Day, NEW status \in {"PDNG", "BOOK"},
           Appears(m, day, status),
           bank[m] = Absent \/ (bank[m].status = "PDNG" /\ status = "BOOK")
    PROVE  RowsPast' /\ OpeningInv' /\ ToldInv'
<1>1. Typed /\ RowsTyped /\ RowsPast /\ OpeningInv /\ ToldInv
  BY DEF CheckInv, Typed
<1> DEFINE new == [state |-> "here", date |-> day, status |-> status]
<1>2. /\ UNCHANGED <<rows, opening>> /\ bank' = [bank EXCEPT ![m] = new]
      /\ folded' = (folded \/ (opening # None /\ day <= opening.date))
  BY DEF Appears
<1>3. bank'[m] = new /\ \A n \in Movement : n # m => bank'[n] = bank[n]
  BY <1>1, <1>2 DEF RowsTyped
<1>4. new.status = status /\ new.date = day
  OBVIOUS
<1> HIDE DEF new
<1>5. Absent.status # "BOOK" /\ Absent.status # "PDNG"
  BY NoneAssumption DEF Absent
<1>6. bank[m].status # "BOOK"
  BY <1>5
<1>7. \A x, n : n \in Movement /\ Past(x, bank[n]) => Past(x, bank'[n])
  <2> SUFFICES ASSUME NEW x, NEW n \in Movement, Past(x, bank[n]) PROVE Past(x, bank'[n])
    OBVIOUS
  <2>1. CASE n # m
    BY <1>3, <2>1
  <2>2. CASE n = m
    BY <1>3, <1>4, <1>5, <1>6, <2>2 DEF Past
  <2>3. QED
    BY <2>1, <2>2
<1>8. RowsPast'
  BY <1>1, <1>2, <1>7 DEF RowsPast
<1>9. ~folded' /\ opening # None =>
        /\ ~folded /\ ~(day <= opening.date) /\ OpeningHolds /\ m \notin Opened
        /\ Opened' = Opened
  <2> SUFFICES ASSUME ~folded', opening # None
               PROVE  /\ ~folded /\ ~(day <= opening.date) /\ OpeningHolds /\ m \notin Opened
                      /\ Opened' = Opened
    OBVIOUS
  <2>1. ~folded /\ ~(day <= opening.date)
    BY <1>2
  <2>2. OpeningHolds
    BY <1>1, <2>1 DEF OpeningInv
  <2>3. m \notin Opened
    BY <1>6, <2>2 DEF OpeningHolds
  <2>4. \A n \in Movement : n \in Opened' <=> n \in Opened
    <3>1. m \notin Opened'
      BY <1>2, <1>3, <1>4, <2>1 DEF Opened
    <3>2. \A n \in Movement : n # m => (n \in Opened' <=> n \in Opened)
      BY <1>2, <1>3 DEF Opened
    <3>3. QED
      BY <2>3, <3>1, <3>2
  <2>5. Opened \subseteq Movement /\ Opened' \subseteq Movement
    BY DEF Opened
  <2>6. QED
    BY <2>1, <2>2, <2>3, <2>4, <2>5
<1>10. OpeningInv'
  <2> SUFFICES ASSUME ~folded', opening' # None PROVE OpeningHolds'
    BY DEF OpeningInv
  <2>1. Opened' = Opened /\ OpeningHolds /\ m \notin Opened
    BY <1>2, <1>9
  <2>2. opening'.balance = Before + Sum(Opened')
    BY <1>2, <2>1 DEF OpeningHolds
  <2>3. \A n \in Opened : n \in Movement /\ n # m
    BY <2>1 DEF Opened
  <2>4. \A n \in Opened : bank'[n].status = "BOOK"
    BY <1>3, <2>1, <2>3 DEF OpeningHolds
  <2>5. QED
    BY <2>1, <2>2, <2>4 DEF OpeningHolds
<1>11. ASSUME Reading' PROVE \E B \in Tables : ReadThen(B)'
  <2>1. /\ job.at \in {"anchor", "verify"} /\ job.fresh
        /\ job'.told = job.told /\ job'.at # "balances"
    <3>1. job.at # "idle"
      BY <1>11 DEF Appears, Reading
    <3>2. job \in Busy
      BY <1>1, <3>1 DEF Typed, JobTyped, Job, Idle, Busy
    <3>3. job' = [job EXCEPT !.fresh = job.fresh /\ job.at # "balances"]
      BY <3>1 DEF Appears
    <3>4. job'.at = job.at /\ job'.told = job.told /\ job'.fresh = (job.fresh /\ job.at # "balances")
      BY <3>2, <3>3 DEF Busy
    <3>5. job.fresh /\ job.at # "balances"
      BY <1>11, <3>4, Zenon DEF Reading
    <3>6. QED
      BY <3>2, <3>4, <3>5 DEF Busy
  <2>2. PICK B \in Tables : ReadThen(B)
    BY <1>1, <2>1 DEF Reading, ToldInv
  <2>3. BankPart(B)'
    BY <1>7, <2>2 DEF ReadThen, BankPart
  <2>4. RowsPart(B)'
    BY <1>2, <2>2 DEF ReadThen, RowsPart, RowPart
  <2>5. ToldPart(B)'
    BY <2>1, <2>2 DEF ReadThen, ToldPart, CountedIn
  <2>6. OpeningPart(B)'
    <3> SUFFICES ASSUME ~folded', opening' # None, NEW n \in Movement,
                        (B[n] # Absent /\ B[n].date <= opening.date) \/ n \in Opened'
                 PROVE  B[n] = bank'[n]
      BY <1>2 DEF OpeningPart, OpenedThen
    <3>1. OpenedThen(B) /\ m \notin Opened /\ Opened' = Opened
      BY <1>2, <1>9, <2>2 DEF ReadThen, OpeningPart
    <3>2. B[n] = bank[n]
      BY <3>1 DEF OpenedThen
    <3>3. n \in Opened
      BY <3>1, <3>2 DEF Opened
    <3>4. QED
      BY <1>3, <3>1, <3>2, <3>3
  <2>7. ReadThen(B)'
    BY <2>1, <2>3, <2>4, <2>5, <2>6 DEF ReadThen
  <2>8. QED
    BY <2>7
<1>12. Tables' = Tables
  BY DEF Tables
<1>13. QED
  BY <1>8, <1>10, <1>11, <1>12 DEF ToldInv

LEMMA CheckStep == CheckInv /\ [Next]_vars => CheckInv'
<1> SUFFICES ASSUME CheckInv, [Next]_vars PROVE CheckInv'
  OBVIOUS
<1>1. Typed /\ Typed' /\ RowsPast /\ OpeningInv /\ ToldInv
  BY TypedStep DEF CheckInv
<1>2. SUFFICES RowsPast' /\ OpeningInv' /\ ToldInv'
  BY <1>1 DEF CheckInv
<1>3. CASE Fetch
  BY <1>3, CheckFetch
<1>4. CASE RecordBalances
  BY <1>4, CheckRecord
<1>5. CASE UNCHANGED <<bank, rows, opening, folded>> /\ (job' = Idle \/ job' = job)
  <2>1. RowsPast' /\ OpeningInv'
    BY <1>1, <1>5 DEF RowsPast, OpeningInv, OpeningHolds, Opened
  <2>2. ToldInv'
    BY <1>1, <1>5, ToldUnmoved
  <2>3. QED
    BY <2>1, <2>2
<1>6. CASE AnchorFirstOpening
  <2>1. CASE \E c \in Preferred : Anchor(c.date, c.figure, KindOf(c.source))
    <3>1. PICK c \in Preferred : Anchor(c.date, c.figure, KindOf(c.source))
      BY <2>1
    <3>2. c.date \in Day /\ c.figure \in Int /\ KindOf(c.source) \in Kind
      BY <1>1, PreferredTyped DEF Typed, KindOf, Kind
    <3>3. UNCHANGED <<bank, rows>> /\ job' = [job EXCEPT !.at = "verify"] /\ job.at = "anchor"
      BY <1>6 DEF AnchorFirstOpening
    <3>4. QED
      BY <3>1, <3>2, <3>3, CheckAnchor
  <2>2. CASE UNCHANGED <<opening, folded>>
    <3>1. /\ UNCHANGED <<bank, rows, opening, folded>> /\ job.at = "anchor"
          /\ job' = [job EXCEPT !.at = "verify"] /\ job \in Busy
      BY <1>1, <1>6, <2>2, BusyJob DEF AnchorFirstOpening, Typed
    <3>2. RowsPast' /\ OpeningInv'
      BY <1>1, <3>1 DEF RowsPast, OpeningInv, OpeningHolds, Opened
    <3>3. job'.told = job.told /\ job'.fresh = job.fresh /\ job'.at = "verify"
      BY <3>1 DEF Busy
    <3>4. ASSUME Reading' PROVE \E B \in Tables : ReadThen(B)'
      <4>1. PICK B \in Tables : ReadThen(B)
        BY <1>1, <3>1, <3>3, <3>4 DEF Reading, ToldInv
      <4>2. BankPart(B)' /\ RowsPart(B)' /\ OpeningPart(B)'
        BY <3>1, <4>1 DEF ReadThen, BankPart, RowsPart, RowPart, OpeningPart, OpenedThen, Opened
      <4>3. ToldPart(B)'
        BY <3>3, <4>1 DEF ReadThen, ToldPart, CountedIn
      <4>4. ReadThen(B)'
        BY <3>3, <4>2, <4>3 DEF ReadThen
      <4>5. QED
        BY <4>4
    <3>5. Tables' = Tables
      BY DEF Tables
    <3>6. QED
      BY <3>2, <3>4, <3>5 DEF ToldInv
  <2>3. QED
    BY <1>6, <2>1, <2>2 DEF AnchorFirstOpening
<1>7. CASE \E m \in Movement : DeleteTransaction(m) \/ Restore(m)
  BY <1>7, CheckByHand
<1>8. ASSUME NEW day \in Day, NEW slip \in Slip, NEW kind \in Kind, SetOpening(day, kind, slip)
      PROVE  RowsPast' /\ OpeningInv' /\ ToldInv'
  <2>1. Anchor(day, Figure(day, kind) + slip, kind) /\ UNCHANGED <<bank, rows, job>>
    BY <1>8 DEF SetOpening
  <2>2. Figure(day, kind) + slip \in Int
    BY FigureTyped, AmountAssumption
  <2>3. QED
    BY <2>1, <2>2, CheckAnchor
<1>9. CASE \E m \in Movement : Book(m) \/ Settle(m)
  BY <1>1, <1>9, AppearsHow, CheckAppears
<1>10. CASE Verify \/ Stop \/ Tick \/ RecordAligned \/ UNCHANGED vars
  <2>1. UNCHANGED <<bank, rows, opening, folded>> /\ (job' = Idle \/ job' = job)
    BY <1>10 DEF Verify, Stop, Tick, RecordAligned, vars, history
  <2>2. QED
    BY <1>5, <2>1
<1>11. CASE \E day \in Day, slip \in Slip, s \in HandSource : Declare(day, s, slip)
  <2>1. UNCHANGED <<bank, rows, opening, folded>> /\ job' = job
    BY <1>11 DEF Declare
  <2>2. QED
    BY <1>5, <2>1
<1>12. QED
  BY <1>3, <1>4, <1>6, <1>7, <1>8, <1>9, <1>10, <1>11 DEF Next, Sync, Person

-----------------------------------------------------------------------------
(* What the invariant says of a check.                                     *)

\* Each movement the sync read is in the ledger, deleted as it is, or in the opening.
LEMMA CheckSplit ==
    ASSUME Typed, NEW B \in Tables, BankPart(B), RowsPart(B), OpenedThen(B), OpeningHolds,
           \A m \in Movement : Current(m), opening \in Opening,
           NEW kind \in Kind, NEW day \in Day, day >= opening.date
    PROVE  Before + Sum(CountedIn(B, "here", kind, day, 0))
             = opening.balance + (Sum(CountedIn(rows, "here", kind, day, opening.date))
                                    + Sum(CountedIn(rows, "deleted", kind, day, opening.date)))
<1> DEFINE all == CountedIn(B, "here", kind, day, 0)
           here == CountedIn(rows, "here", kind, day, opening.date)
           gone == CountedIn(rows, "deleted", kind, day, opening.date)
<1>1. RowsTyped /\ day \in Nat /\ opening.date \in Nat
  BY DayIsNat DEF Typed, Opening
<1>2. "BOOK" \in Statuses(kind)
  BY DEF Statuses
<1>3. ASSUME NEW m \in Movement, rows[m].state = "deleted" PROVE Alive(rows[m]) = B[m]
  <2>1. rows[m] \in Full /\ rows[m] # Absent
    BY <1>1, <1>3, RowIs DEF Absent
  <2>2. Alive(rows[m]) = bank[m] /\ Past(Alive(rows[m]), B[m]) /\ Past(B[m], bank[m])
    BY <1>3 DEF Current, Alive, RowsPart, RowPart, BankPart
  <2>3. Alive(rows[m]) \in Live /\ Alive(rows[m]) # Absent
    BY <2>1, AliveIs, LiveFull, AbsentApart
  <2>4. B[m] # Absent
    BY <1>3 DEF RowsPart, RowPart
  <2>5. QED
    BY <2>2, <2>3, <2>4 DEF Past
<1>4. ASSUME NEW m \in Movement
      PROVE  m \in all <=> m \in Opened \/ m \in here \/ m \in gone
  <2>1. CASE rows[m] = Absent
    <3>1. B[m] = Absent /\ rows[m].state = "absent" /\ B[m].state = "absent"
      BY <2>1 DEF RowsPart, RowPart, Absent
    <3>2. m \notin Opened
      BY <3>1 DEF OpenedThen, Opened
    <3>3. QED
      BY <3>1, <3>2 DEF CountedIn
  <2>2. CASE rows[m] # Absent
    <3>1. rows[m] \in Full
      BY <1>1, <2>2, RowIs
    <3>2. B[m] = Alive(rows[m])
      <4>1. CASE rows[m].state = "here"
        BY <3>1, <4>1, AliveIs DEF RowsPart, RowPart
      <4>2. CASE rows[m].state = "deleted"
        BY <1>3, <4>2
      <4>3. QED
        BY <3>1, <4>1, <4>2 DEF Full
    <3>3. /\ B[m] \in Live /\ B[m].date = rows[m].date /\ B[m].status = rows[m].status
          /\ B[m].state = "here" /\ B[m] # Absent
      <4>1. /\ Alive(rows[m]) \in Live /\ Alive(rows[m]).date = rows[m].date
            /\ Alive(rows[m]).status = rows[m].status
        BY <3>1, AliveIs
      <4>2. B[m] \in Live /\ B[m].date = rows[m].date /\ B[m].status = rows[m].status
        BY <3>2, <4>1
      <4>3. B[m] \in Full /\ B[m].state = "here"
        BY <4>2, LiveFull
      <4>4. B[m] # Absent
        BY <4>3, AbsentApart
      <4>5. QED
        BY <4>2, <4>3, <4>4
    <3>4. B[m].date \in Nat /\ 0 < B[m].date
      <4>1. B[m].date \in Day
        BY <3>3 DEF Live
      <4>2. B[m].date \in Nat \ {0}
        BY <4>1, DayIsNat
      <4>3. \A d \in Nat \ {0} : d \in Nat /\ 0 < d
        OBVIOUS
      <4>4. QED
        BY <4>2, <4>3
    <3>5. rows[m].state = "here" \/ rows[m].state = "deleted"
      BY <3>1 DEF Full
    <3>6. CASE B[m].date <= opening.date
      <4>1. B[m] = bank[m]
        BY <3>3, <3>6 DEF OpenedThen
      <4>2. m \in Opened
        BY <3>3, <3>6, <4>1 DEF Opened
      <4>3. B[m].status = "BOOK" /\ B[m].date <= day
        BY <1>1, <3>4, <3>6, <4>1, <4>2 DEF OpeningHolds
      <4>4. m \in all
        BY <1>2, <3>3, <3>4, <4>3 DEF CountedIn
      <4>5. QED
        BY <4>2, <4>4
    <3>7. CASE opening.date < B[m].date
      <4>1. m \notin Opened
        <5>1. m \in Opened => B[m] = bank[m] /\ bank[m].date <= opening.date
          BY DEF OpenedThen, Opened
        <5>2. QED
          BY <1>1, <3>4, <3>7, <5>1
      <4>2. m \in all <=> B[m].status \in Statuses(kind) /\ B[m].date <= day
        BY <3>3, <3>4 DEF CountedIn
      <4>3. m \in here \/ m \in gone <=> B[m].status \in Statuses(kind) /\ B[m].date <= day
        BY <3>3, <3>5, <3>7 DEF CountedIn
      <4>4. QED
        BY <4>1, <4>2, <4>3
    <3>8. QED
      BY <1>1, <3>4, <3>6, <3>7
  <2>3. QED
    BY <2>1, <2>2
<1>5. ASSUME NEW m \in Opened PROVE m \notin here /\ m \notin gone
  <2>1. m \in Movement /\ B[m] = bank[m] /\ bank[m] # Absent /\ bank[m].date <= opening.date
    BY DEF Opened, OpenedThen
  <2>2. CASE rows[m].state = "here"
    <3>1. rows[m] = B[m]
      BY <2>1, <2>2 DEF RowsPart, RowPart
    <3>2. bank[m].date \in Nat
      BY <1>1, <2>1, RowIs, DayIsNat DEF Live
    <3>3. QED
      BY <1>1, <2>1, <3>1, <3>2 DEF CountedIn
  <2>3. CASE rows[m].state = "deleted"
    <3>1. Alive(rows[m]) = B[m] /\ rows[m] \in Full
      BY <1>1, <1>3, <2>1, <2>3, RowIs DEF Absent
    <3>2. rows[m].date = bank[m].date
      <4>1. Alive(rows[m]).date = rows[m].date
        BY <3>1, AliveIs
      <4>2. QED
        BY <2>1, <3>1, <4>1
    <3>3. bank[m].date \in Nat
      BY <1>1, <2>1, RowIs, DayIsNat DEF Live
    <3>4. QED
      BY <1>1, <2>1, <3>2, <3>3 DEF CountedIn
  <2>4. QED
    BY <2>2, <2>3 DEF CountedIn
<1>6. here \cap gone = {} /\ Opened \cap (here \cup gone) = {}
  BY <1>5 DEF CountedIn
<1>7. /\ all \in SUBSET Movement /\ here \in SUBSET Movement /\ gone \in SUBSET Movement
      /\ Opened \in SUBSET Movement
  BY DEF CountedIn, Opened
<1> HIDE DEF all, here, gone
<1>8. all = Opened \cup (here \cup gone)
  BY <1>4, <1>7
<1>9. Sum(here \cup gone) = Sum(here) + Sum(gone)
  BY <1>6, <1>7, SumUnion
<1>10. here \cup gone \in SUBSET Movement
  BY <1>7
<1>11. Sum(all) = Sum(Opened) + Sum(here \cup gone)
  BY <1>6, <1>7, <1>8, <1>10, SumUnion
<1>12. Sum(here) \in Int /\ Sum(gone) \in Int /\ Sum(Opened) \in Int /\ Before \in Int
  BY <1>7, SumTyped, AmountAssumption
<1>13. opening.balance = Before + Sum(Opened)
  BY DEF OpeningHolds
<1>14. Before + Sum(all) = opening.balance + (Sum(here) + Sum(gone))
  BY <1>9, <1>11, <1>12, <1>13
<1>15. QED
  BY <1>14 DEF all, here, gone

LEMMA CheckExplains == CheckInv => ChecksExplained
<1> SUFFICES ASSUME CheckInv, Undisturbed, \A m \in Movement : Current(m),
                    NEW kind \in Kind, NEW c \in Checked(kind)
             PROVE  Ok(c) \/ Explained(c)
  BY DEF ChecksExplained
<1>1. job.at = "verify" /\ job.fresh /\ ~folded /\ opening # None
  BY DEF Undisturbed
<1>2. Typed /\ OpeningHolds /\ opening \in Opening
  BY <1>1 DEF CheckInv, OpeningInv, Typed, OpeningTyped
<1>3. PICK B \in Tables : ReadThen(B)
  BY <1>1 DEF CheckInv, ToldInv, Reading
<1>4. BankPart(B) /\ RowsPart(B) /\ ToldPart(B) /\ OpenedThen(B)
  BY <1>1, <1>3 DEF ReadThen, OpeningPart
<1>5. c \in Newest(kind) /\ c \in job.told /\ c.date >= opening.date
  BY <1>1 DEF Checked, After
<1>6. c.date \in Day /\ KindOf(c.source) = kind /\ c.figure \in Int
  BY <1>2, <1>5, NewestTyped DEF Typed
<1> DEFINE here == Sum(CountedIn(rows, "here", kind, c.date, opening.date))
           gone == CountedIn(rows, "deleted", kind, c.date, opening.date)
<1>7. c.figure = Before + Sum(CountedIn(B, "here", kind, c.date, 0))
  BY <1>4, <1>5, <1>6 DEF ToldPart
<1>8. c.figure = opening.balance + (here + Sum(gone))
  BY <1>2, <1>4, <1>5, <1>6, <1>7, CheckSplit
<1>9. Difference(c) = c.figure - (opening.balance + here)
  BY <1>1, <1>6 DEF Difference, Balance, After
<1>10. Deleted(c.date, KindOf(c.source)) = gone
  BY <1>1, <1>6 DEF Deleted, After
<1>11. here \in Int /\ Sum(gone) \in Int /\ opening.balance \in Int
  BY <1>2, CountedTyped DEF Opening
<1> HIDE DEF here, gone
<1>12. Difference(c) = Sum(gone)
  BY <1>6, <1>8, <1>9, <1>11
<1>13. CASE gone = {}
  BY <1>12, <1>13, SumEmpty DEF Ok
<1>14. CASE gone # {}
  BY <1>10, <1>12, <1>14 DEF Explained
<1>15. QED
  BY <1>13, <1>14

\* The check of a sync that no movement came between: either figure of the bank is
\* what the ledger computes from its opening, or differs by what a person deleted and
\* by nothing else, for any movements, amounts, statuses and order of deletions and
\* restorations, as long as the tombstones say what the bank says (check_balance,
\* deleted_total).
THEOREM ChecksAreExplained == Spec => []ChecksExplained
<1>1. Spec => []CheckInv
  BY CheckBegins, CheckStep, PTL DEF Spec
<1>2. CheckInv => ChecksExplained
  BY CheckExplains
<1>3. QED
  BY <1>1, <1>2, PTL

=============================================================================
