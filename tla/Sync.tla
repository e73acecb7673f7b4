-------------------------------- MODULE Sync --------------------------------
(***************************************************************************)
(* Asking the banks (amonhen/sync.py, the client of                        *)
(* amonhen/providers/enable_banking.py, the loop of `serve` in             *)
(* amonhen/cli.py): the incremental pass over every account, one account   *)
(* over a chosen period, and what a wake-up settles without asking.        *)
(*                                                                         *)
(* One lock per process keeps one of them at a time there; the command     *)
(* line is a process of its own.  Every call to a bank may be answered,    *)
(* refused, rate limited or lost, and a pass may fail or its process stop  *)
(* between any two commits.                                                *)
(*                                                                         *)
(* How a movement becomes a row is Ingest, what links and rules do to it   *)
(* Transfers and Rules: here a row is there or not, the transfer rules     *)
(* were applied to it or not, and it was offered to the matcher or not.    *)
(***************************************************************************)
EXTENDS Integers, Sequences, FiniteSetsExt

CONSTANTS
    Account, Movement,
    AccountOf,      \* the account each movement is of
    Configured,     \* the accounts in the order of accounts.json
    StartDate,      \* start_sync_date of each, None when it has none
    Thread, Loop,   \* who syncs: the scheduled loop, and requests or commands
    ProcessOf,      \* the process each thread belongs to
    LastDay,        \* bound: days are 1..LastDay
    Overlap,        \* SYNC_OVERLAP_DAYS
    Backfill,       \* DEFAULT_BACKFILL_DAYS
    Width,          \* max_window_days
    Periods,        \* the ranges a person asks for
    MaxAsked,       \* bound: passes and periods a person asks for, and rows from elsewhere
    MaxStops,       \* bound: failures and stops
    None

Day == 1..LastDay
RowState == [ruled: BOOLEAN, linked: BOOLEAN]

ASSUME AccountAssumption == AccountOf \in [Movement -> Account] /\ Configured \in Seq(Account)
ASSUME StartAssumption == StartDate \in [Account -> Day \cup {None}]
                             /\ None \notin Day \cup RowState
ASSUME ThreadAssumption == Loop \in Thread
ASSUME WindowAssumption ==
    /\ LastDay \in Nat \ {0}
    /\ Overlap \in Nat /\ Backfill \in Nat /\ Width \in Nat \ {0}
ASSUME BoundsAssumption == MaxAsked \in Nat /\ MaxStops \in Nat
ASSUME PeriodAssumption ==
    /\ Periods \subseteq [account: Account, from: Day, to: Day, preview: BOOLEAN]
    /\ \A p \in Periods : p.from <= p.to

VARIABLES
    today,
    bank,       \* the day each movement is booked on, None until the bank has it
    rows,       \* what the ledger has done with each movement
    others,     \* the newest row of each account that its bank did not report: the other
                \* half of a transfer on a wallet, a line of an imported file
    jobs,       \* what each thread is doing
    limited,    \* settings sync:limited: the accounts a bank refuses to be asked about
    lastRun,    \* setting sync:last_run: None, "recent", or "late" once a pass is due
    asked, stops,
    since,      \* history: the first day the passes have read each account from
    ahead       \* history: the accounts something else wrote newer rows to than a pass read

vars == <<today, bank, rows, others, jobs, limited, lastRun, asked, stops, since, ahead>>
bounds == <<asked, stops>>
history == <<since, ahead>>

Idle == [at |-> "idle"]
Processes == {ProcessOf[t] : t \in Thread}
Window == [from: Day, to: Day, ok: BOOLEAN, got: SUBSET Movement]

TypeOK ==
    /\ today \in Day
    /\ bank \in [Movement -> Day \cup {None}]
    /\ rows \in [Movement -> RowState \cup {None}]
    /\ \A m \in Movement : rows[m] # None => bank[m] # None
    /\ others \in [Account -> Day \cup {None}]
    /\ DOMAIN jobs = Thread
    /\ \A t \in Thread : jobs[t].at = "ask" =>
           jobs[t].width \in 1..Width /\ jobs[t].windows \in Seq(Window)
    /\ limited \subseteq Account
    /\ lastRun \in {None, "recent", "late"}
    /\ asked \in 0..MaxAsked /\ stops \in 0..MaxStops
    /\ since \in [Account -> Day \cup {None}] /\ ahead \subseteq Account

Init ==
    /\ today = 1
    /\ bank = [m \in Movement |-> None] /\ rows = [m \in Movement |-> None]
    /\ others = [a \in Account |-> None]
    /\ jobs = [t \in Thread |-> Idle]
    /\ limited = {} /\ lastRun = None /\ asked = 0 /\ stops = 0
    /\ since = [a \in Account |-> None] /\ ahead = {}

-----------------------------------------------------------------------------
(* The lock, and what a job does next.                                     *)

Become(t, j) == jobs' = [jobs EXCEPT ![t] = j]
Syncing(t) == jobs[t].at \notin {"idle", "woken"}
\* _SYNC_LOCK.acquire(blocking=False)
Acquired(t) == \A u \in Thread : ProcessOf[u] = ProcessOf[t] => ~Syncing(u)

\* Mutant: a wake-up that is not due has nothing to do.
PassOrNothing(todo, asks) ==
    [at |-> IF todo # <<>> THEN "details" ELSE IF asks THEN "link" ELSE "end",
     asks |-> asks, todo |-> todo, day |-> today, from |-> None, told |-> {}, got |-> {}]
\* A pass over the accounts in todo, or none: what a wake-up settles.
Pass(todo, asks) ==
    [at |-> IF todo # <<>> THEN "details" ELSE IF asks THEN "link" ELSE "settle",
     asks |-> asks, todo |-> todo, day |-> today, from |-> None, told |-> {}, got |-> {}]
\* The next account, or what follows the last one.
Onward(j) ==
    IF Len(j.todo) = 1 THEN [j EXCEPT !.at = "link", !.todo = <<>>, !.from = None,
                                      !.told = {}, !.got = {}]
    ELSE [j EXCEPT !.at = "details", !.todo = Tail(@), !.from = None, !.got = {}]

\* Mutant: whatever the batch, every movement there may be.
RecordedAll(ms) ==
    [m \in Movement |-> IF rows[m] = None THEN [ruled |-> FALSE, linked |-> FALSE] ELSE rows[m]]
\* record_batch: what is new of what the bank answered.
Recorded(ms) ==
    [m \in Movement |-> IF m \in ms /\ rows[m] = None
                        THEN [ruled |-> FALSE, linked |-> FALSE] ELSE rows[m]]
\* apply_transfer_rules, over every row there is.
Ruled == [m \in Movement |-> IF rows[m] = None THEN None ELSE [rows[m] EXCEPT !.ruled = TRUE]]
\* link_transfers and link_passthrough_legs from a day on, then categorize.
LinkedFrom(day) ==
    [m \in Movement |-> IF rows[m] # None /\ (day = None \/ bank[m] >= day)
                        THEN [rows[m] EXCEPT !.linked = TRUE] ELSE rows[m]]

-----------------------------------------------------------------------------
(* The incremental pass.                                                   *)

\* The wake-up reads whether a pass is due before it asks for the lock.
Wake ==
    /\ jobs[Loop] = Idle
    /\ Become(Loop, [at |-> "woken", due |-> lastRun # "recent"])
    /\ UNCHANGED <<today, bank, rows, others, limited, lastRun, bounds, history>>

\* A wake-up that finds the lock taken sleeps again: SyncBusy.
Decide ==
    /\ jobs[Loop].at = "woken"
    /\ Become(Loop, IF ~Acquired(Loop) THEN Idle
                    ELSE IF jobs[Loop].due THEN Pass(Configured, TRUE)
                    ELSE Pass(<<>>, FALSE))
    /\ UNCHANGED <<today, bank, rows, others, limited, lastRun, bounds, history>>

Ask(t) ==
    /\ t # Loop /\ jobs[t] = Idle /\ Acquired(t)
    /\ asked < MaxAsked /\ asked' = asked + 1
RunNow(t) ==
    /\ Ask(t)
    /\ Become(t, Pass(Configured, TRUE))
    /\ UNCHANGED <<today, bank, rows, others, limited, lastRun, stops, history>>

\* MAX(date) of the account, whoever wrote the row.
Cursor(a) ==
    LET days == {bank[m] : m \in {n \in Movement : AccountOf[n] = a /\ rows[n] # None}}
                    \cup ({others[a]} \ {None})
    IN  IF days = {} THEN None ELSE Max(days)

\* Mutant: from the newest movement on.
FromCursor(a, day) ==
    IF Cursor(a) = None
    THEN IF StartDate[a] # None THEN StartDate[a] ELSE Max({1, day - Backfill})
    ELSE Max({1, Cursor(a)} \cup ({StartDate[a]} \ {None}))
\* _start_date
From(a, day) ==
    IF Cursor(a) = None
    THEN IF StartDate[a] # None THEN StartDate[a] ELSE Max({1, day - Backfill})
    ELSE Max({1, Cursor(a) - Overlap} \cup ({StartDate[a]} \ {None}))

\* After the details of an account: nothing else is asked when they were refused.
Detailed(j, a, told) ==
    IF a \in told THEN Onward([j EXCEPT !.told = told])
    ELSE [j EXCEPT !.at = "fetch", !.told = told, !.from = From(a, j.day)]

\* _account_record and _start_date: the details are asked once a run, at best effort,
\* and only a rate limit says something about the rest.
Details(t) ==
    LET j == jobs[t]
        a == Head(j.todo)
    IN  /\ j.at = "details"
        /\ \E told \in {j.told, j.told \cup {a}} :
             /\ Become(t, Detailed(j, a, told))
             /\ limited' = limited \cup (told \cap {a})
        /\ UNCHANGED <<today, bank, rows, others, lastRun, bounds, history>>

InBank(a, from, to) == {m \in Movement : AccountOf[m] = a /\ bank[m] # None
                                         /\ from <= bank[m] /\ bank[m] <= to}

\* fetch_transactions: every window of the range, or the first error.
Fetched(t) ==
    LET j == jobs[t]
        a == Head(j.todo)
    IN  /\ j.at = "fetch"
        /\ Become(t, [j EXCEPT !.at = "record", !.got = InBank(a, j.from, j.day)])
        /\ since' = [since EXCEPT ![a] = IF Cursor(a) = None THEN j.from ELSE @]
        /\ UNCHANGED <<today, bank, rows, others, limited, lastRun, bounds, ahead>>

\* A rate limit is remembered; an expired consent or a lost call is only reported.
NotFetched(t) ==
    LET j == jobs[t]
        a == Head(j.todo)
    IN  /\ j.at = "fetch"
        /\ \E refused \in {{}, {a}} :
             /\ Become(t, Onward([j EXCEPT !.told = @ \cup refused]))
             /\ limited' = limited \cup refused
        /\ UNCHANGED <<today, bank, rows, others, lastRun, bounds, history>>

Record(t) ==
    /\ jobs[t].at = "record"
    /\ rows' = Recorded(jobs[t].got)
    /\ Become(t, [jobs[t] EXCEPT !.at = "read"])
    /\ UNCHANGED <<today, bank, others, limited, lastRun, bounds, history>>

\* The balances, which may fail, the anchor and the settings of a read account.
Read(t) ==
    LET j == jobs[t]
    IN  /\ j.at = "read"
        /\ limited' = limited \ {Head(j.todo)}
        /\ Become(t, IF j.got = {} THEN Onward(j) ELSE [j EXCEPT !.at = "rules"])
        /\ UNCHANGED <<today, bank, rows, others, lastRun, bounds, history>>

\* apply_transfer_rules, after each account the bank answered something for.
Rules(t) ==
    /\ jobs[t].at = "rules"
    /\ rows' = Ruled
    /\ Become(t, Onward(jobs[t]))
    /\ UNCHANGED <<today, bank, others, limited, lastRun, bounds, history>>

\* What settle does before linking, with no bank asked.
Settle(t) ==
    /\ jobs[t].at = "settle"
    /\ rows' = Ruled
    /\ Become(t, [jobs[t] EXCEPT !.at = "link"])
    /\ UNCHANGED <<today, bank, others, limited, lastRun, bounds, history>>

\* _earliest_start, of the accounts that have one.
EarliestStart ==
    LET starts == {StartDate[Configured[i]] : i \in DOMAIN Configured} \ {None}
    IN  IF starts = {} THEN None ELSE Min(starts)

\* _link_and_categorize
Link(t) ==
    /\ jobs[t].at = "link"
    /\ rows' = LinkedFrom(EarliestStart)
    /\ Become(t, IF jobs[t].asks THEN [jobs[t] EXCEPT !.at = "end"] ELSE Idle)
    /\ UNCHANGED <<today, bank, others, limited, lastRun, bounds, history>>

End(t) ==
    /\ jobs[t].at = "end"
    /\ lastRun' = "recent"
    /\ Become(t, Idle)
    /\ UNCHANGED <<today, bank, rows, others, limited, bounds, history>>

-----------------------------------------------------------------------------
(* One account over a chosen period.                                       *)

\* _period_entry and run_period: the range ends by today.
AskPeriod(t, p) ==
    /\ Ask(t) /\ p.to <= today
    /\ Become(t, [at |-> "ask", account |-> p.account, from |-> p.from, to |-> p.to,
                  preview |-> p.preview, start |-> p.from, width |-> Width,
                  asked |-> None, windows |-> <<>>])
    /\ UNCHANGED <<today, bank, rows, others, limited, lastRun, stops, history>>

\* fetch_transaction_windows: the window asked next, and the one first asked from here.
WindowEnd(j) == Min({j.start + j.width - 1, j.to})
AskedEnd(j) == IF j.asked = None THEN WindowEnd(j) ELSE j.asked
Report(j, to, ok, got) ==
    Append(j.windows, [from |-> j.start, to |-> to, ok |-> ok, got |-> got])
\* The period goes on from the day after `to`, or is read.
After(j, to, width, windows) ==
    [j EXCEPT !.at = IF to + 1 > j.to THEN "write" ELSE "ask", !.start = to + 1,
              !.width = IF to + 1 > j.to THEN Width ELSE width,
              !.asked = None, !.windows = windows]

WindowRead(j) ==
    After(j, WindowEnd(j), j.width,
          Report(j, WindowEnd(j), TRUE, InBank(j.account, j.start, WindowEnd(j))))
\* A connection lost: the window is reported as it was asked, the width stays.
WindowLost(j) == After(j, WindowEnd(j), j.width, Report(j, WindowEnd(j), FALSE, {}))
\* A range the bank refuses is asked again at half the width, down to one day.
Halved(j) == [j EXCEPT !.width = @ \div 2, !.asked = AskedEnd(j)]
\* Mutant: past the window last asked, at full width again.
NarrowRefused(j) == After(j, WindowEnd(j), Width, Report(j, AskedEnd(j), FALSE, {}))
\* Anything else: the window as first asked has failed, the next one is full again.
WindowRefused(j) == After(j, AskedEnd(j), Width, Report(j, AskedEnd(j), FALSE, {}))
\* A rate limit stops the period there.
PeriodLimited(j) ==
    [j EXCEPT !.at = "write", !.windows = Report(j, AskedEnd(j), FALSE, {}),
              !.width = Width, !.asked = None]

AskWindow(t) ==
    LET j == jobs[t]
    IN  /\ j.at = "ask"
        /\ \/ Become(t, WindowRead(j))
           \/ Become(t, WindowLost(j))
           \/ j.width > 1 /\ Become(t, Halved(j))         \* 400 or 422
           \/ Become(t, WindowRefused(j))
           \/ Become(t, PeriodLimited(j))
           \/ Become(t, Idle)                             \* an expired consent
        /\ UNCHANGED <<today, bank, rows, others, limited, lastRun, bounds, history>>

\* Each window the bank answered is a batch of its own; a preview writes none.
WriteWindow(t) ==
    LET j == jobs[t]
        w == Head(j.windows)
        newer == {m \in w.got : rows[m] = None /\ (Cursor(j.account) = None
                                                   \/ bank[m] > Cursor(j.account))}
    IN  /\ j.at = "write" /\ ~j.preview /\ j.windows # <<>>
        /\ rows' = Recorded(w.got)
        /\ ahead' = IF newer = {} THEN ahead ELSE ahead \cup {j.account}
        /\ Become(t, [j EXCEPT !.windows = Tail(@)])
        /\ UNCHANGED <<today, bank, others, limited, lastRun, bounds, since>>

PeriodWritten(t) ==
    /\ jobs[t].at = "write" /\ (jobs[t].preview \/ jobs[t].windows = <<>>)
    /\ Become(t, IF jobs[t].preview THEN Idle ELSE [at |-> "period rules", from |-> jobs[t].from])
    /\ UNCHANGED <<today, bank, rows, others, limited, lastRun, bounds, history>>

PeriodRules(t) ==
    /\ jobs[t].at = "period rules"
    /\ rows' = Ruled
    /\ Become(t, [jobs[t] EXCEPT !.at = "period link"])
    /\ UNCHANGED <<today, bank, others, limited, lastRun, bounds, history>>

\* From the start of the period, however old.
PeriodLink(t) ==
    /\ jobs[t].at = "period link"
    /\ rows' = LinkedFrom(jobs[t].from)
    /\ Become(t, Idle)
    /\ UNCHANGED <<today, bank, others, limited, lastRun, bounds, history>>

-----------------------------------------------------------------------------
(* The world around.                                                       *)

\* A bank books a movement today, or late by no more than the overlap.
Book(m) ==
    /\ bank[m] = None
    /\ \E d \in Day : today - Overlap <= d /\ d <= today /\ bank' = [bank EXCEPT ![m] = d]
    /\ UNCHANGED <<today, rows, others, jobs, limited, lastRun, bounds, history>>

\* A row of the account from elsewhere, no newer than today: the other half a transfer
\* rule writes on a wallet that does not report its top-ups, or a file imported.
WriteElsewhere(a) ==
    /\ asked < MaxAsked /\ asked' = asked + 1
    /\ \E d \in 1..today :
         LET newer == Cursor(a) = None \/ d > Cursor(a)
         IN  /\ others' = [others EXCEPT ![a] = Max({d} \cup ({@} \ {None}))]
             /\ ahead' = IF newer THEN ahead \cup {a} ELSE ahead
    /\ UNCHANGED <<today, bank, rows, jobs, limited, lastRun, stops, since>>

Tick ==
    /\ today < LastDay /\ today' = today + 1
    /\ UNCHANGED <<bank, rows, others, jobs, limited, lastRun, bounds, history>>

\* The interval passes.
Late ==
    /\ lastRun = "recent" /\ lastRun' = "late"
    /\ UNCHANGED <<today, bank, rows, others, jobs, limited, bounds, history>>

\* Any other exception ends one job, `finally` gives the lock back.
Fail(t) ==
    /\ Syncing(t) /\ stops < MaxStops /\ stops' = stops + 1
    /\ Become(t, Idle)
    /\ UNCHANGED <<today, bank, rows, others, limited, lastRun, asked, history>>

\* A process stops: its jobs are gone, what they committed stays.
Stop(p) ==
    /\ \E t \in Thread : ProcessOf[t] = p /\ jobs[t] # Idle
    /\ stops < MaxStops /\ stops' = stops + 1
    /\ jobs' = [t \in Thread |-> IF ProcessOf[t] = p THEN Idle ELSE jobs[t]]
    /\ UNCHANGED <<today, bank, rows, others, limited, lastRun, asked, history>>

-----------------------------------------------------------------------------
Work(t) ==
    \/ Details(t) \/ Fetched(t) \/ NotFetched(t) \/ Record(t) \/ Read(t) \/ Rules(t)
    \/ Settle(t) \/ Link(t) \/ End(t)
    \/ AskWindow(t) \/ WriteWindow(t) \/ PeriodWritten(t) \/ PeriodRules(t) \/ PeriodLink(t)

Next ==
    \/ Wake \/ Decide
    \/ \E t \in Thread : Work(t) \/ RunNow(t) \/ Fail(t) \/ \E p \in Periods : AskPeriod(t, p)
    \/ \E m \in Movement : Book(m)
    \/ \E a \in Account : WriteElsewhere(a)
    \/ Tick \/ Late \/ \E p \in Processes : Stop(p)

Spec == Init /\ [][Next]_vars
\* The threads go on, and the loop of `serve` outlives every exception: after each
\* sleep it wakes and decides.  Nobody is owed a request, an answer or a new day.
FairSpec ==
    Spec /\ WF_vars(Wake) /\ WF_vars(Decide) /\ \A t \in Thread : WF_vars(Work(t))

-----------------------------------------------------------------------------
(* Properties.                                                             *)

\* What a bank answers holds every movement it booked since the account was first
\* read, but for those the ledger has: no pass leaves a day unread behind its cursor,
\* whatever was refused, lost or stopped before it (_start_date, fetch_transactions).
\* Not of an account that something else wrote a newer row to than a pass had read: a
\* period, an import or a transfer rule took its cursor past days nobody read.
ReadWhole(t) ==
    LET a == Head(jobs[t].todo)
    IN  since'[a] # None =>
        \A m \in InBank(a, since'[a], jobs[t].day) : rows[m] # None \/ m \in jobs'[t].got
NothingMissed ==
    [][\A t \in Thread :
        (jobs[t].at = "fetch" /\ jobs'[t].at = "record" /\ Head(jobs[t].todo) \notin ahead)
        => ReadWhole(t)]_vars

\* The windows of a period follow one another with no day between them and none in
\* two, whatever was refused at which width (fetch_transaction_windows).
WindowsTile ==
    \A t \in Thread : jobs[t].at = "ask" =>
        LET w == jobs[t].windows
        IN  /\ \A i \in DOMAIN w :
                  /\ w[i].from = (IF i = 1 THEN jobs[t].from ELSE w[i - 1].to + 1)
                  /\ w[i].from <= w[i].to
            /\ jobs[t].start = (IF w = <<>> THEN jobs[t].from ELSE w[Len(w)].to + 1)

\* Every movement written is in the end offered to the matcher and the categories,
\* though its pass failed or stopped and no bank ever answers again (settle), unless
\* it is older than every start date, which only a period reaches.
WrittenThenLinked ==
    \A m \in Movement :
        (rows[m] # None /\ (EarliestStart = None \/ bank[m] >= EarliestStart))
        ~> (rows[m] # None /\ rows[m].linked)
=============================================================================
