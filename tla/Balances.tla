------------------------------ MODULE Balances ------------------------------
(***************************************************************************)
(* The check of an account against what its bank declares (the reporting   *)
(* half of amonhen/ledger.py, and the part of a sync in amonhen/sync.py    *)
(* that records the figures and anchors the opening).                      *)
(*                                                                         *)
(* A bank declares two figures, the booked one and the available one,      *)
(* which also counts the pending movements.  The ledger adds what it holds *)
(* to an opening that was derived once from such a figure.  A difference   *)
(* is a gap or a duplicate, unless it is what a person deleted.            *)
(*                                                                         *)
(* One account.  How a movement is recognised is Ingest; here its row is   *)
(* absent, there, or deleted, with the date and status it had by then.     *)
(* Valuations, forecasts and the types nothing reads are not here.         *)
(***************************************************************************)
EXTENDS Integers, FiniteSets, FiniteSetsExt

CONSTANTS
    Movement,
    Amount,         \* signed, of each movement
    Pending,        \* those the bank shows before they settle
    Before,         \* what the account held before its first day
    LastDay,        \* bound: days are 1..LastDay
    Reports,        \* the sets of figures the bank may declare at once
    Slip,           \* how far off a figure a person writes may be
    Act,            \* what a person may do
    MaxActs,        \* bound
    MaxSyncs,       \* bound
    None

Day == 1..LastDay
Kind == {"available", "booked"}
\* BALANCE_TYPES, and the words of a figure a person wrote.
BankSource == {"eb:ITAV", "eb:CLAV", "eb:ITBD", "eb:CLBD"}
HandSource == {"manual:available", "anchor:available", "manual:booked", "anchor:booked"}
Source == BankSource \cup HandSource

ASSUME AmountAssumption ==
    /\ IsFiniteSet(Movement) /\ Amount \in [Movement -> Int]
    /\ Before \in Int /\ Slip \subseteq Int
ASSUME ReportsAssumption == Reports \subseteq SUBSET BankSource
ASSUME NoneAssumption == None \notin Int \cup {"PDNG", "BOOK"}
ASSUME BoundsAssumption == LastDay \in Nat \ {0} /\ MaxActs \in Nat /\ MaxSyncs \in Nat

VARIABLES
    today,
    bank,           \* what the bank has of each movement
    rows,           \* what the ledger has: a row, or a tombstone
    opening,        \* opening_balance and opening_date, or None
    declared,       \* account_balances
    job,            \* the sync
    aligning,       \* the declaration set_opening has still to record
    acts, syncs,
    said,           \* history: the figure a person wrote last, by day and kind
    folded          \* history: the opening holds something it should not, named below

vars == <<today, bank, rows, opening, declared, job, aligning, acts, syncs, said, folded>>
history == <<said, folded>>
bounds == <<acts, syncs>>

Absent == [state |-> "absent", date |-> 0, status |-> None]
RowType(states) == {Absent} \cup [state: states, date: Day, status: {"PDNG", "BOOK"}]
Opening == [balance: Int, date: Nat]
Told == [date: Day, source: BankSource, figure: Int]
Idle == [at |-> "idle"]
Job == {Idle} \cup [at: {"balances", "anchor", "verify"}, told: SUBSET Told, fresh: BOOLEAN]

TypeOK ==
    /\ today \in Day /\ acts \in 0..MaxActs /\ syncs \in 0..MaxSyncs /\ folded \in BOOLEAN
    /\ bank \in [Movement -> RowType({"here"})]
    /\ rows \in [Movement -> RowType({"here", "deleted"})]
    /\ \A m \in Movement : rows[m] # Absent => bank[m] # Absent
    /\ opening \in Opening \cup {None} /\ job \in Job
    /\ aligning \in {None} \cup
         [date: Day, source: {"anchor:available", "anchor:booked"}, figure: Int]
    /\ declared \in [Day -> [Source -> Int \cup {None}]]
    /\ said \in [Day -> [Kind -> Int \cup {None}]]

Init ==
    /\ today = 1
    /\ bank = [m \in Movement |-> Absent] /\ rows = [m \in Movement |-> Absent]
    /\ opening = None
    /\ declared = [d \in Day |-> [s \in Source |-> None]]
    /\ job = Idle /\ aligning = None /\ acts = 0 /\ syncs = 0
    /\ said = [d \in Day |-> [k \in Kind |-> None]] /\ folded = FALSE

-----------------------------------------------------------------------------
(* The figures.                                                            *)

\* balance_kind
KindOf(s) ==
    IF s \in {"eb:ITAV", "eb:CLAV", "manual:available", "anchor:available"}
    THEN "available" ELSE "booked"
Statuses(kind) == IF kind = "booked" THEN {"BOOK"} ELSE {"BOOK", "PDNG"}
\* _source_priority: the interim figure before the closing one, a word after both.
Priority(s) ==
    IF s \in {"eb:ITAV", "eb:ITBD"} THEN 0 ELSE IF s \in {"eb:CLAV", "eb:CLBD"} THEN 1 ELSE 2

Sum(ms) == MapThenSumSet(LAMBDA m : Amount[m], ms)

\* The movements of a table, in a state, that a figure of `kind` counts on a day.
CountedIn(table, state, kind, day, after) ==
    {m \in Movement : /\ table[m].state = state /\ table[m].status \in Statuses(kind)
                      /\ after < table[m].date /\ table[m].date <= day}
\* What the bank declares for a day.
Figure(day, kind) == Before + Sum(CountedIn(bank, "here", kind, day, 0))

\* balance and movement: only what comes after the opening, or everything.
After == IF opening = None THEN 0 ELSE opening.date
Balance(day, kind) ==
    (IF opening = None THEN 0 ELSE opening.balance)
        + Sum(CountedIn(rows, "here", kind, day, After))
Moved(day, kind) == Sum(CountedIn(rows, "here", kind, day, 0))

\* Mutant: what was deleted before the opening is counted too.
DeletedEver(day, kind) == CountedIn(rows, "deleted", kind, day, 0)
\* deleted_total
Deleted(day, kind) == CountedIn(rows, "deleted", kind, day, After)

\* _declaration_order: the newest date, then the bank's own, then the type.
Later(x, y) ==
    \/ x.date > y.date
    \/ /\ x.date = y.date
       /\ \/ x.source \in BankSource /\ y.source \in HandSource
          \/ /\ x.source \in BankSource <=> y.source \in BankSource
             /\ Priority(x.source) < Priority(y.source)
Declarations(kind) ==
    {[date |-> d, source |-> s, figure |-> declared[d][s]] :
        d \in Day, s \in {x \in Source : KindOf(x) = kind}}
Newest(kind) ==
    LET stated == {c \in Declarations(kind) : c.figure # None}
    IN  {c \in stated : \A x \in stated : ~Later(x, c)}

\* check_balance, ok and explained
Difference(c) == c.figure - Balance(c.date, KindOf(c.source))
Ok(c) == Difference(c) = 0
Explained(c) ==
    LET gone == Deleted(c.date, KindOf(c.source))
    IN  gone # {} /\ Difference(c) = Sum(gone)

\* Mutant: the first row is looked for among all there are.
OpeningFromAny(day, figure, kind) ==
    [balance |-> figure - Moved(day, kind), date |-> Min({rows[m].date : m \in Movement}) - 1]
\* opening_from: dated the day before the first row, or the day of the figure.
OpeningFrom(day, figure, kind) ==
    LET dates == {rows[m].date : m \in {n \in Movement : rows[n].state = "here"
                                                          /\ rows[n].date <= day}}
    IN  [balance |-> figure - Moved(day, kind),
         date |-> IF dates = {} THEN day ELSE Min(dates) - 1]

\* A settled movement deleted before any row there is: in the opening, and in no
\* balance nor deletion that is counted from it.
Inside(m, day, figure, kind) ==
    /\ rows[m] = [bank[m] EXCEPT !.state = "deleted"] /\ rows[m].status = "BOOK"
    /\ rows[m].date <= OpeningFrom(day, figure, kind).date
\* Anything else the figure counts and the ledger does not hold as the bank does goes
\* into the opening too: not read yet, deleted, or a slip of the pen.
Folds(day, figure, kind) ==
    \/ figure # Figure(day, kind)
    \/ \E m \in Movement :
        /\ rows[m] # bank[m] /\ ~Inside(m, day, figure, kind)
        /\ \/ bank[m].date <= day
           \/ rows[m].state # "absent" /\ rows[m].date <= day

\* Mutant: a figure of the same kind and day is left beside the new one.
WrittenBeside(day, s, figure) == [declared EXCEPT ![day][s] = figure]
\* record_declared_balance: a person's figure replaces their other one of that kind.
WrittenDown(day, s, figure) ==
    [declared EXCEPT ![day] = [x \in Source |->
        IF x = s THEN figure
        ELSE IF s \in HandSource /\ x \in HandSource /\ KindOf(x) = KindOf(s) THEN None
        ELSE @[x]]]

-----------------------------------------------------------------------------
(* The sync of the account.                                                *)

\* record_batch: new, promoted, known, or kept out by its tombstone.
RowAfter(row, got) == IF row.state = "deleted" THEN row ELSE got

\* fetch_transactions and record_batch.
Fetch ==
    /\ job = Idle /\ syncs < MaxSyncs /\ syncs' = syncs + 1
    /\ rows' = [m \in Movement |-> RowAfter(rows[m], bank[m])]
    /\ job' = [at |-> "balances", told |-> {}, fresh |-> TRUE]
    /\ UNCHANGED <<today, bank, opening, declared, aligning, acts, history>>

\* _record_balances: the bank's figures at best effort, each under its own type, for
\* today or the day before.
RecordBalances ==
    /\ job.at = "balances"
    /\ \E types \in Reports \cup {{}}, day \in Day \cap {today - 1, today} :
         /\ declared' = [declared EXCEPT ![day] = [s \in Source |->
                            IF s \in types THEN Figure(day, KindOf(s)) ELSE @[s]]]
         /\ job' = [job EXCEPT !.at = IF opening = None THEN "anchor" ELSE "verify",
                               !.told = {[date |-> day, source |-> s,
                                          figure |-> Figure(day, KindOf(s))] : s \in types}]
    /\ UNCHANGED <<today, bank, rows, opening, aligning, bounds, history>>

\* _anchor_first_opening: the bank's booked figure, or its available one.
Preferred ==
    LET ofBank(kind) == {c \in Newest(kind) : c.source \in BankSource}
    IN  IF ofBank("booked") # {} THEN ofBank("booked") ELSE ofBank("available")
Anchor(day, figure, kind) ==
    /\ opening' = OpeningFrom(day, figure, kind)
    /\ folded' = Folds(day, figure, kind)

AnchorFirstOpening ==
    /\ job.at = "anchor"
    /\ IF opening # None \/ Preferred = {} THEN UNCHANGED <<opening, folded>>
       ELSE \E c \in Preferred : Anchor(c.date, c.figure, KindOf(c.source))
    /\ job' = [job EXCEPT !.at = "verify"]
    /\ UNCHANGED <<today, bank, rows, declared, aligning, bounds, said>>

\* _declared_balance_mismatch reads and reports.
Verify ==
    /\ job.at = "verify" /\ job' = Idle
    /\ UNCHANGED <<today, bank, rows, opening, declared, aligning, bounds, history>>

\* A stop, or an error of the ledger, ends the sync where it is.
Stop ==
    /\ job # Idle /\ "stop" \in Act /\ acts < MaxActs /\ acts' = acts + 1
    /\ job' = Idle
    /\ UNCHANGED <<syncs, today, bank, rows, opening, declared, aligning, history>>

-----------------------------------------------------------------------------
(* What a person does.                                                     *)

ByHand(kind) == kind \in Act /\ acts < MaxActs /\ acts' = acts + 1 /\ UNCHANGED syncs

DeleteTransaction(m) ==
    /\ ByHand("delete") /\ rows[m].state = "here"
    /\ rows' = [rows EXCEPT ![m].state = "deleted"]
    /\ UNCHANGED <<today, bank, opening, declared, job, aligning, history>>

\* restore_deleted: as the tombstone kept it.
Unread(j) == IF j.at = "idle" THEN j ELSE [j EXCEPT !.fresh = FALSE]
Restore(m) ==
    /\ ByHand("delete") /\ rows[m].state = "deleted"
    /\ rows' = [rows EXCEPT ![m].state = "here"]
    /\ job' = Unread(job)
    /\ UNCHANGED <<today, bank, opening, declared, aligning, history>>

HandWrites(day, s, figure) ==
    /\ declared' = WrittenDown(day, s, figure)
    /\ said' = [said EXCEPT ![day][KindOf(s)] = figure]

Declare(day, s, slip) ==
    /\ ByHand("declare") /\ day <= today /\ s \in {"manual:available", "manual:booked"}
    /\ HandWrites(day, s, Figure(day, KindOf(s)) + slip)
    /\ UNCHANGED <<today, bank, rows, opening, job, aligning, folded>>

\* set_opening: the opening and its declaration, a commit each.
SetOpening(day, kind, slip) ==
    /\ ByHand("align") /\ day <= today /\ aligning = None
    /\ Anchor(day, Figure(day, kind) + slip, kind)
    /\ aligning' = [date |-> day, figure |-> Figure(day, kind) + slip,
                    source |-> IF kind = "booked" THEN "anchor:booked" ELSE "anchor:available"]
    /\ UNCHANGED <<today, bank, rows, declared, job, said>>
RecordAligned ==
    /\ aligning # None /\ aligning' = None
    /\ HandWrites(aligning.date, aligning.source, aligning.figure)
    /\ UNCHANGED <<today, bank, rows, opening, job, bounds, folded>>

-----------------------------------------------------------------------------
(* The bank, and the days.                                                 *)

\* A movement the bank dates on or before the opening is in no balance.
Appears(m, day, status) ==
    /\ bank' = [bank EXCEPT ![m] = [state |-> "here", date |-> day, status |-> status]]
    /\ folded' = (folded \/ (opening # None /\ day <= opening.date))
    /\ job' = IF job.at = "idle" THEN job ELSE [job EXCEPT !.fresh = @ /\ job.at # "balances"]
    /\ UNCHANGED <<today, rows, opening, declared, aligning, bounds, said>>
Book(m) ==
    /\ bank[m] = Absent
    /\ \E day \in Day \cap {today - 1, today} :
         Appears(m, day, IF m \in Pending THEN "PDNG" ELSE "BOOK")
Settle(m) ==
    /\ bank[m].status = "PDNG"
    /\ \E day \in {bank[m].date, today} : Appears(m, day, "BOOK")

Tick ==
    /\ today < LastDay /\ today' = today + 1
    /\ UNCHANGED <<bank, rows, opening, declared, job, aligning, bounds, history>>

Sync == Fetch \/ RecordBalances \/ AnchorFirstOpening \/ Verify
Person ==
    \/ \E m \in Movement : DeleteTransaction(m) \/ Restore(m)
    \/ \E day \in Day, slip \in Slip :
        \/ \E s \in HandSource : Declare(day, s, slip)
        \/ \E kind \in Kind : SetOpening(day, kind, slip)
    \/ RecordAligned

Next ==
    \/ Sync \/ Stop \/ Person \/ Tick
    \/ \E m \in Movement : Book(m) \/ Settle(m)

Spec == Init /\ [][Next]_vars

-----------------------------------------------------------------------------
(* Properties.                                                             *)

\* The figures this sync recorded, with no movement at the bank between its two
\* calls, of a day no earlier than the opening, which was derived from all the bank
\* had by then.
Checked(kind) == {c \in Newest(kind) \cap job.told : c.date >= After}
Undisturbed == job.at = "verify" /\ job.fresh /\ ~folded /\ opening # None

\* A tombstone that says of its movement what the bank says by now.
Current(m) == rows[m].state = "deleted" => [rows[m] EXCEPT !.state = "here"] = bank[m]

\* The assertion of every sync: either figure of the bank is what the ledger
\* computes, or differs by what a person deleted and by nothing else, whatever was
\* pending, settled late, deleted or restored before (check_balance, deleted_total).
ChecksExplained ==
    Undisturbed /\ (\A m \in Movement : Current(m)) =>
        \A kind \in Kind : \A c \in Checked(kind) : Ok(c) \/ Explained(c)

\* "A check that fails for a decision taken by hand is not a defect": the same of
\* every deletion, whatever the bank made of the movement afterwards.
DeletionsExplained ==
    Undisturbed => \A kind \in Kind : \A c \in Checked(kind) : Ok(c) \/ Explained(c)

\* "A corrected declaration was ignored": of a day and a kind there is one figure a
\* person wrote, and it is the one written last, through whichever route
\* (record_declared_balance).
DeclarationStands ==
    \A d \in Day, kind \in Kind :
        {declared[d][s] : s \in {x \in HandSource : KindOf(x) = kind}} \ {None}
            = {said[d][kind]} \ {None}
=============================================================================
