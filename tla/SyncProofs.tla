----------------------------- MODULE SyncProofs -----------------------------
(***************************************************************************)
(* Theorems about the passes of the sync and the periods (module Sync),    *)
(* for every set of accounts, movements, threads and processes, however    *)
(* the banks answer and wherever a pass stops.                             *)
(***************************************************************************)
EXTENDS Sync, SequenceTheorems, WellFoundedInduction, TLAPS

-----------------------------------------------------------------------------
(* What the jobs look like.                                                *)

PassAt == {"details", "fetch", "record", "read", "rules", "settle", "link", "end"}
AsksAt == {"details", "fetch", "record", "read", "rules"}

\* A pass at an account has one to look at, and knows from where when it asks.
PassJob ==
    {j \in [at: PassAt, asks: BOOLEAN, todo: Seq(Account), day: Day, from: Day \cup {None},
            told: SUBSET Account, got: SUBSET Movement] :
        /\ j.at \in AsksAt => j.todo # <<>>
        /\ j.at = "fetch" => j.from # None /\ Head(j.todo) \notin j.told}

\* Where the next window of a period begins, given those that were reported.
NextStart(j) == IF j.windows = <<>> THEN j.from ELSE j.windows[Len(j.windows)].to + 1

\* The windows reported by now follow one another from the first day of the period.
Tiled(j) ==
    \A i \in DOMAIN j.windows :
        /\ j.windows[i].from = (IF i = 1 THEN j.from ELSE j.windows[i - 1].to + 1)
        /\ j.windows[i].from <= j.windows[i].to

\* A period that asks has days left, and a refused window covers what it will report.
PeriodJob ==
    {j \in [at: {"ask", "write"}, account: Account, from: Day, to: Day, preview: BOOLEAN,
            start: Nat, width: 1..Width, asked: Day \cup {None}, windows: Seq(Window)] :
        j.at = "ask" =>
            /\ Tiled(j) /\ j.start = NextStart(j)
            /\ j.start \in Day /\ j.start <= j.to
            /\ j.asked # None => j.start <= j.asked /\ j.asked <= j.to}

WokenJob == [at: {"woken"}, due: BOOLEAN]
TailJob == [at: {"period rules", "period link"}, from: Day]
Job == {Idle} \cup WokenJob \cup PassJob \cup PeriodJob \cup TailJob

\* One pass, period or settlement at a time in a process (_SYNC_LOCK).
OneAtATime ==
    \A t, u \in Thread :
        (Syncing(t) /\ Syncing(u) /\ ProcessOf[t] = ProcessOf[u]) => t = u

JobsInv == jobs \in [Thread -> Job] /\ OneAtATime

\* What a job was answered, its bank has booked on the account that was asked.
Booked(j) ==
    /\ j \in PassJob => \A m \in j.got : bank[m] # None
    /\ j \in PeriodJob => \A i \in DOMAIN j.windows : \A m \in j.windows[i].got :
           AccountOf[m] = j.account /\ bank[m] # None
BookedInv == \A t \in Thread : Booked(jobs[t])

Sound == TypeOK /\ JobsInv /\ BookedInv

-----------------------------------------------------------------------------
(* What the cursor of an account says of the movements it has not.         *)

Missing(a) == {m \in Movement : AccountOf[m] = a /\ bank[m] # None /\ rows[m] = None}
Days(a) == {bank[m] : m \in {n \in Movement : AccountOf[n] = a /\ rows[n] # None}}
               \cup ({others[a]} \ {None})

\* A first read begins where every other first read of the account does: it has a
\* start date, or nobody else reads it meanwhile.
OneFirstRead ==
    \/ \A a \in Account : StartDate[a] # None
    \/ \A t, u \in Thread : ProcessOf[t] = ProcessOf[u]

\* Behind the cursor nothing is missing but what a bank may still book late.
Behind(a) ==
    /\ (since[a] # None /\ StartDate[a] # None) => since[a] = StartDate[a]
    /\ Cursor(a) # None =>
        /\ since[a] # None
        /\ \A m \in Missing(a) : bank[m] >= since[a] => bank[m] >= Cursor(a) - Overlap

\* What is about to be asked begins before anything missing.
AsksEnough(j, a) ==
    /\ (Cursor(a) = None /\ StartDate[a] # None) => j.from = StartDate[a]
    /\ Cursor(a) # None =>
        \/ j.from <= 1
        \/ j.from <= Cursor(a) - Overlap
        \/ StartDate[a] # None /\ j.from <= StartDate[a]

\* What was answered is of the account and not after the day it was asked on.
GotOf(j, a) == \A m \in j.got : AccountOf[m] = a /\ bank[m] # None /\ bank[m] <= j.day

\* It holds all that was missing, but for what came late.
Answered(j, a) ==
    /\ since[a] # None
    /\ \A m \in Missing(a) \ j.got :
        bank[m] >= since[a] => bank[m] >= j.day - Overlap

PassInv(j) ==
    LET a == Head(j.todo)
    IN  /\ j.at = "fetch" /\ a \notin ahead => AsksEnough(j, a)
        /\ j.at = "record" => GotOf(j, a)
        /\ j.at = "record" /\ a \notin ahead => Answered(j, a)

\* Nothing is dated ahead of its time; the banks' late bookings are the overlap's.
ReadInv ==
    /\ \A m \in Movement : bank[m] # None => bank[m] <= today
    /\ \A a \in Account : others[a] # None => others[a] <= today
    /\ \A t \in Thread : jobs[t] \in PassJob => jobs[t].day <= today
    /\ \A a \in Account \ ahead : Behind(a)
    /\ \A t \in Thread : PassInv(jobs[t])

-----------------------------------------------------------------------------
(* Days and cursors.                                                       *)

LEMMA MaxDay ==
    ASSUME NEW S \in SUBSET Day, S # {}
    PROVE  Max(S) \in S /\ \A y \in S : y <= Max(S)
<1> DEFINE upper == {n \in Nat : \A y \in S : y <= n}
<1>1. S \subseteq Nat /\ LastDay \in upper
  BY WindowAssumption DEF Day
<1>2. PICK m \in upper : \A n \in upper : ~(<<n, m>> \in OpToRel(<, Nat))
  BY <1>1, NatLessThanWellFounded, WFMin
<1>3. \A n \in upper : ~(n < m)
  BY <1>2 DEF OpToRel
<1>4. m \in S
  <2>1. SUFFICES ASSUME m \notin S PROVE FALSE
    OBVIOUS
  <2>2. \A y \in S : y <= m - 1
    BY <1>1, <2>1
  <2>3. PICK y \in S : TRUE
    OBVIOUS
  <2>4. m - 1 \in Nat
    BY <1>1, <2>2, <2>3 DEF Day
  <2>5. QED
    BY <1>3, <2>2, <2>4
<1>5. \E x \in S : \A y \in S : x >= y
  BY <1>1, <1>4
<1>6. QED
  BY <1>1, <1>5 DEF Max

LEMMA MaxOf3 ==
    ASSUME NEW x \in Int, NEW y \in Int, NEW z \in Int
    PROVE  Max({x, y, z}) \in {x, y, z} /\ \A w \in {x, y, z} : w <= Max({x, y, z})
<1>1. \E w \in {x, y, z} : \A v \in {x, y, z} : w >= v
  OBVIOUS
<1>2. QED
  BY <1>1 DEF Max

LEMMA CursorFacts ==
    ASSUME TypeOK, NEW a \in Account
    PROVE  /\ Cursor(a) = None <=> Days(a) = {}
           /\ Cursor(a) # None => /\ Cursor(a) \in Days(a) /\ Cursor(a) \in Day
                                  /\ \A d \in Days(a) : d <= Cursor(a)
<1>1. Days(a) \in SUBSET Day
  BY DEF TypeOK, Days
<1>2. Cursor(a) = IF Days(a) = {} THEN None ELSE Max(Days(a))
  BY DEF Cursor, Days
<1>3. QED
  BY <1>1, <1>2, MaxDay, StartAssumption

\* The same of the state after a step.
LEMMA CursorFactsNext ==
    ASSUME TypeOK', NEW a \in Account
    PROVE  /\ Cursor(a)' = None <=> Days(a)' = {}
           /\ Cursor(a)' # None => /\ Cursor(a)' \in Days(a)' /\ Cursor(a)' \in Day
                                   /\ \A d \in Days(a)' : d <= Cursor(a)'
<1>1. Days(a)' \in SUBSET Day
  BY DEF TypeOK, Days
<1>2. Cursor(a)' = IF Days(a)' = {} THEN None ELSE Max(Days(a)')
  BY DEF Cursor, Days
<1>3. QED
  BY <1>1, <1>2, MaxDay, StartAssumption

LEMMA FromFacts ==
    ASSUME TypeOK, NEW a \in Account, NEW day \in Day
    PROVE  /\ From(a, day) \in Day
           /\ (Cursor(a) = None /\ StartDate[a] # None) => From(a, day) = StartDate[a]
           /\ Cursor(a) # None =>
               \/ From(a, day) <= 1
               \/ From(a, day) <= Cursor(a) - Overlap
               \/ StartDate[a] # None /\ From(a, day) <= StartDate[a]
<1>1. /\ StartDate[a] \in Day \cup {None}
      /\ Day \subseteq Int /\ 1 \in Day /\ \A d \in Day : 1 <= d
      /\ \A n \in Int : (1 <= n /\ \E d \in Day : n <= d) => n \in Day
      /\ Overlap \in Nat /\ Backfill \in Nat
  BY StartAssumption, WindowAssumption DEF Day
<1>2. CASE Cursor(a) = None
  <2>1. CASE StartDate[a] # None
    BY <1>1, <1>2, <2>1 DEF From
  <2>2. CASE StartDate[a] = None
    <3>1. /\ Max({1, day - Backfill, 1}) \in {1, day - Backfill, 1}
          /\ 1 <= Max({1, day - Backfill, 1})
      BY <1>1, MaxOf3
    <3>2. From(a, day) = Max({1, day - Backfill, 1})
      <4>1. {1, day - Backfill} = {1, day - Backfill, 1}
        OBVIOUS
      <4>2. QED
        BY <1>2, <2>2, <4>1 DEF From
    <3>3. QED
      BY <1>1, <1>2, <2>2, <3>1, <3>2
  <2>3. QED
    BY <2>1, <2>2
<1>3. CASE Cursor(a) # None
  <2>0. Cursor(a) \in Day
    BY <1>3, CursorFacts
  <2>1. Cursor(a) - Overlap \in Int /\ Cursor(a) - Overlap <= Cursor(a)
    BY <2>0, WindowAssumption DEF Day
  <2>2. ASSUME NEW s \in Day,
               {1, Cursor(a) - Overlap} \cup ({StartDate[a]} \ {None})
                   = {1, Cursor(a) - Overlap, s},
               s = 1 \/ s = StartDate[a]
        PROVE  /\ From(a, day) \in Day
               /\ \/ From(a, day) <= 1
                  \/ From(a, day) <= Cursor(a) - Overlap
                  \/ StartDate[a] # None /\ From(a, day) <= StartDate[a]
    <3>1. /\ Max({1, Cursor(a) - Overlap, s}) \in {1, Cursor(a) - Overlap, s}
          /\ 1 <= Max({1, Cursor(a) - Overlap, s})
      BY <1>1, <2>1, MaxOf3
    <3>2. From(a, day) = Max({1, Cursor(a) - Overlap, s})
      BY <1>3, <2>2 DEF From
    <3>3. s # None
      BY StartAssumption
    <3>4. From(a, day) \in {1, Cursor(a) - Overlap, s} /\ 1 <= From(a, day)
      BY <3>1, <3>2
    <3>5. From(a, day) \in Day
      BY <1>1, <2>0, <2>1, <3>4
    <3>6. CASE From(a, day) = s /\ s = StartDate[a]
      BY <1>1, <3>3, <3>5, <3>6
    <3>7. CASE From(a, day) \in {1, Cursor(a) - Overlap}
      BY <1>1, <2>1, <3>5, <3>7
    <3>8. QED
      BY <2>2, <3>4, <3>5, <3>6, <3>7
  <2>3. CASE StartDate[a] = None
    <3>1. {1, Cursor(a) - Overlap} \cup ({StartDate[a]} \ {None})
            = {1, Cursor(a) - Overlap, 1}
      BY <2>3
    <3>2. QED
      BY <1>1, <1>3, <2>2, <3>1
  <2>4. CASE StartDate[a] # None
    <3>1. {1, Cursor(a) - Overlap} \cup ({StartDate[a]} \ {None})
            = {1, Cursor(a) - Overlap, StartDate[a]}
      BY <2>4
    <3>2. StartDate[a] \in Day
      BY <1>1, <2>4
    <3>3. QED
      BY <1>3, <2>2, <3>1, <3>2
  <2>5. QED
    BY <2>3, <2>4
<1>4. QED
  BY <1>2, <1>3

-----------------------------------------------------------------------------
(* What a job becomes.                                                     *)

\* Where a job is says what it looks like.
LEMMA AtKinds ==
    ASSUME NEW j \in Job
    PROVE  /\ j.at \in PassAt => j \in PassJob
           /\ j.at \in {"ask", "write"} => j \in PeriodJob
           /\ j.at \in {"period rules", "period link"} => j \in TailJob
           /\ j.at = "woken" => j \in WokenJob
           /\ j.at = "idle" => j = Idle
<1>1. /\ Idle.at = "idle"
      /\ \A k \in WokenJob : k.at = "woken"
      /\ \A k \in PassJob : k.at \in PassAt
      /\ \A k \in PeriodJob : k.at \in {"ask", "write"}
      /\ \A k \in TailJob : k.at \in {"period rules", "period link"}
  BY DEF Idle, WokenJob, PassJob, PeriodJob, TailJob
<1>2. QED
  BY <1>1 DEF Job, PassAt

LEMMA BecomeStep ==
    ASSUME JobsInv, NEW t \in Thread, NEW x \in Job, Become(t, x),
           Syncing(t) \/ x.at \in {"idle", "woken"} \/ Acquired(t)
    PROVE  JobsInv'
<1>1. jobs' \in [Thread -> Job]
  BY DEF JobsInv, Become
<1>2. OneAtATime'
  BY DEF JobsInv, Become, OneAtATime, Syncing, Acquired
<1>3. QED
  BY <1>1, <1>2 DEF JobsInv

LEMMA PassTyped ==
    ASSUME TypeOK, NEW todo \in Seq(Account), NEW asks \in BOOLEAN
    PROVE  Pass(todo, asks) \in PassJob /\ Pass(todo, asks).at \notin {"fetch", "record"}
BY DEF TypeOK, Pass, PassJob, PassAt, AsksAt

LEMMA OnwardTyped ==
    ASSUME NEW j \in PassJob, j.todo # <<>>
    PROVE  /\ Onward(j) \in PassJob /\ Onward(j).at \notin {"fetch", "record"}
           /\ Onward(j).day = j.day
<1>1. CASE Len(j.todo) = 1
  <2>1. Onward(j) = [j EXCEPT !.at = "link", !.todo = <<>>, !.from = None, !.told = {}, !.got = {}]
    BY <1>1 DEF Onward
  <2>2. <<>> \in Seq(Account)
    OBVIOUS
  <2>3. QED
    BY <2>1, <2>2 DEF PassJob, PassAt, AsksAt
<1>2. CASE Len(j.todo) # 1
  <2>0. j.todo \in Seq(Account)
    BY DEF PassJob
  <2>1. Tail(j.todo) \in Seq(Account) /\ Tail(j.todo) # <<>>
    <3>1. Len(j.todo) \in Nat \ {0} /\ Tail(j.todo) \in Seq(Account)
          /\ Len(Tail(j.todo)) = Len(j.todo) - 1
      BY <2>0, HeadTailProperties, EmptySeq
    <3>2. Len(Tail(j.todo)) # 0
      BY <1>2, <3>1
    <3>3. QED
      BY <3>1, <3>2, EmptySeq
  <2>2. QED
    BY <1>2, <2>1 DEF Onward, PassJob, PassAt, AsksAt
<1>3. QED
  BY <1>1, <1>2

LEMMA HeadTyped ==
    ASSUME NEW j \in PassJob, j.at \in AsksAt
    PROVE  j.todo # <<>> /\ Head(j.todo) \in Account
BY DEF PassJob

LEMMA MinOf2 ==
    ASSUME NEW x \in Int, NEW y \in Int
    PROVE  Min({x, y}) \in {x, y} /\ Min({x, y}) <= x /\ Min({x, y}) <= y
<1>1. \E w \in {x, y} : \A v \in {x, y} : v >= w
  OBVIOUS
<1>2. QED
  BY <1>1 DEF Min

\* What is asked next, and what was first asked from here, are within the period.
LEMMA EndsTyped ==
    ASSUME NEW j \in PeriodJob, j.at = "ask"
    PROVE  /\ WindowEnd(j) \in Day /\ j.start <= WindowEnd(j) /\ WindowEnd(j) <= j.to
           /\ AskedEnd(j) \in Day /\ j.start <= AskedEnd(j) /\ AskedEnd(j) <= j.to
<1>1. /\ j.start \in Day /\ j.start <= j.to /\ j.to \in Day /\ j.width \in 1..Width
      /\ j.asked \in Day \cup {None}
      /\ j.asked # None => j.start <= j.asked /\ j.asked <= j.to
  BY DEF PeriodJob
<1>2. /\ Min({j.start + j.width - 1, j.to}) \in {j.start + j.width - 1, j.to}
      /\ Min({j.start + j.width - 1, j.to}) <= j.to
  <2>1. j.start + j.width - 1 \in Int /\ j.to \in Int
    BY <1>1, WindowAssumption DEF Day
  <2>2. QED
    BY <2>1, MinOf2
<1>3. WindowEnd(j) \in Day /\ j.start <= WindowEnd(j) /\ WindowEnd(j) <= j.to
  BY <1>1, <1>2, WindowAssumption DEF WindowEnd, Day
<1>4. QED
  BY <1>1, <1>3 DEF AskedEnd

LEMMA ReportTiles ==
    ASSUME NEW j \in PeriodJob, j.at = "ask", NEW to \in Day, j.start <= to,
           NEW ok \in BOOLEAN, NEW got \in SUBSET Movement
    PROVE  LET w == Report(j, to, ok, got)
           IN  /\ w \in Seq(Window) /\ w # <<>> /\ w[Len(w)].to = to
               /\ \A i \in DOMAIN w :
                   /\ w[i].from = (IF i = 1 THEN j.from ELSE w[i - 1].to + 1)
                   /\ w[i].from <= w[i].to
<1> DEFINE v == j.windows
           x == [from |-> j.start, to |-> to, ok |-> ok, got |-> got]
           w == Report(j, to, ok, got)
<1>1. v \in Seq(Window) /\ j.start \in Day /\ Tiled(j) /\ j.start = NextStart(j)
  BY DEF PeriodJob
<1>2. x \in Window
  BY <1>1 DEF Window
<1>3. /\ w \in Seq(Window) /\ Len(w) = Len(v) + 1 /\ w[Len(w)] = x
      /\ \A i \in 1..Len(v) : w[i] = v[i]
  BY <1>1, <1>2 DEF Report
<1>4. Len(v) \in Nat /\ DOMAIN v = 1..Len(v) /\ DOMAIN w = 1..Len(w)
  BY <1>1, <1>3
<1>5. ASSUME NEW i \in 1..Len(w)
      PROVE  /\ w[i].from = (IF i = 1 THEN j.from ELSE w[i - 1].to + 1)
             /\ w[i].from <= w[i].to
  <2>1. CASE i \in 1..Len(v)
    <3>1. i # 1 => i - 1 \in 1..Len(v)
      BY <1>4, <2>1
    <3>2. QED
      BY <1>1, <1>3, <1>4, <2>1, <3>1 DEF Tiled
  <2>2. CASE i = Len(w)
    <3>1. w[i].from = j.start /\ w[i].to = to
      BY <1>3, <2>2
    <3>2. CASE v = <<>>
      BY <1>1, <1>3, <2>2, <3>1, <3>2 DEF NextStart
    <3>3. CASE v # <<>>
      <4>1. Len(v) \in 1..Len(v) /\ i - 1 = Len(v) /\ i # 1
        BY <1>1, <1>3, <1>4, <2>2, <3>3, EmptySeq
      <4>2. QED
        BY <1>1, <1>3, <3>1, <3>3, <4>1 DEF NextStart
    <3>4. QED
      BY <3>2, <3>3
  <2>3. QED
    BY <1>3, <1>4, <2>1, <2>2
<1>6. w # <<>> /\ w[Len(w)].to = to
  BY <1>3, <1>4
<1>7. QED
  BY <1>3, <1>4, <1>5, <1>6

LEMMA AfterTyped ==
    ASSUME NEW j \in PeriodJob, j.at = "ask", NEW to \in Day, j.start <= to, to <= j.to,
           NEW width \in 1..Width, NEW ok \in BOOLEAN, NEW got \in SUBSET Movement
    PROVE  /\ After(j, to, width, Report(j, to, ok, got)) \in PeriodJob
           /\ [j EXCEPT !.at = "write", !.windows = Report(j, to, ok, got),
                        !.width = Width, !.asked = None] \in PeriodJob
<1> DEFINE w == Report(j, to, ok, got)
           k == After(j, to, width, w)
<1>1. /\ w \in Seq(Window) /\ w # <<>> /\ w[Len(w)].to = to
      /\ \A i \in DOMAIN w :
           /\ w[i].from = (IF i = 1 THEN j.from ELSE w[i - 1].to + 1)
           /\ w[i].from <= w[i].to
  BY ReportTiles
<1> HIDE DEF w
<1>2. Width \in 1..Width /\ to + 1 \in Nat /\ (to + 1 <= j.to => to + 1 \in Day)
  BY WindowAssumption DEF Day, PeriodJob
<1>3. k \in [at: {"ask", "write"}, account: Account, from: Day, to: Day, preview: BOOLEAN,
             start: Nat, width: 1..Width, asked: Day \cup {None}, windows: Seq(Window)]
  BY <1>1, <1>2 DEF After, PeriodJob
<1>4. k.at = "ask" => to + 1 <= j.to
  BY DEF After, PeriodJob, Day
<1>5. k.windows = w /\ k.from = j.from /\ k.to = j.to /\ k.start = to + 1 /\ k.asked = None
  BY DEF After, PeriodJob
<1>6. k.at = "ask" => Tiled(k) /\ k.start = NextStart(k)
  BY <1>1, <1>5 DEF Tiled, NextStart
<1>7. k \in PeriodJob
  BY <1>2, <1>3, <1>4, <1>5, <1>6 DEF PeriodJob
<1>8. QED
  BY <1>1, <1>2, <1>7 DEF PeriodJob, w

LEMMA HalvedTyped ==
    ASSUME NEW j \in PeriodJob, j.at = "ask", j.width > 1
    PROVE  Halved(j) \in PeriodJob
<1>1. AskedEnd(j) \in Day /\ j.start <= AskedEnd(j) /\ AskedEnd(j) <= j.to
  BY EndsTyped
<1>2. j.width \div 2 \in 1..Width
  BY WindowAssumption DEF PeriodJob
<1>3. Tiled(Halved(j)) <=> Tiled(j)
  BY DEF Tiled, Halved, PeriodJob
<1>4. NextStart(Halved(j)) = NextStart(j)
  BY DEF NextStart, Halved, PeriodJob
<1>5. AskedEnd(j) # None
  BY <1>1, StartAssumption
<1>6. QED
  BY <1>1, <1>2, <1>3, <1>4, <1>5 DEF Halved, PeriodJob

-----------------------------------------------------------------------------
(* Every step keeps the types, one job at a time, and answers that are of  *)
(* the account asked.                                                      *)

\* TypeOK of everything but the jobs.
StoreOK ==
    /\ today \in Day
    /\ bank \in [Movement -> Day \cup {None}]
    /\ rows \in [Movement -> RowState \cup {None}]
    /\ \A m \in Movement : rows[m] # None => bank[m] # None
    /\ others \in [Account -> Day \cup {None}]
    /\ limited \subseteq Account
    /\ lastRun \in {None, "recent", "late"}
    /\ asked \in 0..MaxAsked /\ stops \in 0..MaxStops
    /\ since \in [Account -> Day \cup {None}] /\ ahead \subseteq Account

LEMMA StoreTyped == TypeOK => StoreOK
BY DEF TypeOK, StoreOK

LEMMA JobsTyped ==
    ASSUME StoreOK, jobs \in [Thread -> Job] PROVE TypeOK
<1>1. \A t \in Thread : jobs[t].at = "ask" => jobs[t] \in PeriodJob
  BY AtKinds
<1>2. \A t \in Thread : jobs[t].at = "ask" =>
           jobs[t].width \in 1..Width /\ jobs[t].windows \in Seq(Window)
  BY <1>1 DEF PeriodJob
<1>3. QED
  BY <1>2 DEF StoreOK, TypeOK

LEMMA JobsTypedNext ==
    ASSUME StoreOK', jobs' \in [Thread -> Job] PROVE TypeOK'
<1>1. \A t \in Thread : jobs'[t].at = "ask" => jobs'[t] \in PeriodJob
  BY AtKinds
<1>2. \A t \in Thread : jobs'[t].at = "ask" =>
           jobs'[t].width \in 1..Width /\ jobs'[t].windows \in Seq(Window)
  BY <1>1 DEF PeriodJob
<1>3. QED
  BY <1>2 DEF StoreOK, TypeOK

\* A thread goes on with its job, or takes the lock to begin one.
LEMMA SoundBecome ==
    ASSUME Sound, NEW t \in Thread, NEW x \in Job, Become(t, x),
           Syncing(t) \/ x.at \in {"idle", "woken"} \/ Acquired(t),
           Booked(x), StoreOK', UNCHANGED bank
    PROVE  Sound'
<1>1. JobsInv'
  BY BecomeStep DEF Sound
<1>2. TypeOK'
  BY <1>1, JobsTypedNext DEF JobsInv
<1>3. BookedInv'
  <2>1. \A u \in Thread : jobs'[u] = x \/ jobs'[u] = jobs[u]
    BY DEF Become, Sound, JobsInv
  <2>2. SUFFICES ASSUME NEW u \in Thread PROVE Booked(jobs[u])'
    BY DEF BookedInv
  <2>3. CASE jobs'[u] = x
    BY <2>3 DEF Booked
  <2>4. CASE jobs'[u] = jobs[u]
    <3>1. Booked(jobs[u])
      BY DEF Sound, BookedInv
    <3>2. QED
      BY <2>4, <3>1 DEF Booked
  <2>5. QED
    BY <2>1, <2>3, <2>4
<1>4. QED
  BY <1>1, <1>2, <1>3 DEF Sound

\* No job is changed.
LEMMA SoundStays ==
    ASSUME Sound, StoreOK', UNCHANGED jobs,
           \A m \in Movement : bank[m] # None => bank'[m] = bank[m]
    PROVE  Sound'
<1>1. JobsInv'
  BY DEF Sound, JobsInv, OneAtATime, Syncing
<1>2. TypeOK'
  BY <1>1, JobsTypedNext DEF JobsInv
<1>3. BookedInv'
  <2>1. SUFFICES ASSUME NEW t \in Thread PROVE Booked(jobs[t])'
    BY DEF BookedInv
  <2>2. jobs[t] \in Job /\ jobs'[t] = jobs[t] /\ Booked(jobs[t])
    BY DEF Sound, JobsInv, BookedInv
  <2>3. jobs[t] \in PassJob => \A m \in jobs[t].got : m \in Movement
    BY DEF PassJob
  <2>4. jobs[t] \in PeriodJob =>
            \A i \in DOMAIN jobs[t].windows : \A m \in jobs[t].windows[i].got : m \in Movement
    <3>1. SUFFICES ASSUME jobs[t] \in PeriodJob, NEW i \in DOMAIN jobs[t].windows
                   PROVE  jobs[t].windows[i].got \subseteq Movement
      OBVIOUS
    <3>2. jobs[t].windows \in Seq(Window)
      BY <3>1 DEF PeriodJob
    <3>3. jobs[t].windows[i] \in Window
      BY <3>2
    <3>4. QED
      BY <3>3 DEF Window
  <2>5. QED
    BY <2>2, <2>3, <2>4 DEF Booked
<1>4. QED
  BY <1>1, <1>2, <1>3 DEF Sound

\* A job that was answered nothing.
LEMMA NothingBooked ==
    ASSUME NEW j \in Job, j \in PassJob => j.got = {}, j \notin PeriodJob
    PROVE  Booked(j)
BY DEF Booked

LEMMA SimpleJobs ==
    /\ Idle \in Job /\ Idle.at = "idle" /\ Booked(Idle)
    /\ \A d \in BOOLEAN : [at |-> "woken", due |-> d] \in Job
                          /\ Booked([at |-> "woken", due |-> d])
    /\ \A d \in Day, w \in {"period rules", "period link"} :
           [at |-> w, from |-> d] \in Job /\ Booked([at |-> w, from |-> d])
BY DEF Job, Idle, WokenJob, TailJob, Booked, PassJob, PeriodJob, PassAt

\* The job of a thread, known by where it is.
LEMMA JobOf ==
    ASSUME Sound, NEW t \in Thread
    PROVE  /\ jobs[t] \in Job /\ Booked(jobs[t])
           /\ Syncing(t) <=> jobs[t].at \notin {"idle", "woken"}
           /\ jobs[t].at \in PassAt => jobs[t] \in PassJob
           /\ jobs[t].at \in {"ask", "write"} => jobs[t] \in PeriodJob
           /\ jobs[t].at \in {"period rules", "period link"} => jobs[t] \in TailJob
BY AtKinds DEF Sound, JobsInv, BookedInv, Syncing

-----------------------------------------------------------------------------
(* What a step writes into the ledger.                                     *)

LEMMA RowsWritten ==
    ASSUME StoreOK
    PROVE  /\ \A ms : (\A m \in ms : bank[m] # None) =>
                 /\ Recorded(ms) \in [Movement -> RowState \cup {None}]
                 /\ \A m \in Movement : Recorded(ms)[m] # None => bank[m] # None
           /\ Ruled \in [Movement -> RowState \cup {None}]
           /\ \A m \in Movement : Ruled[m] # None => bank[m] # None
           /\ \A day : /\ LinkedFrom(day) \in [Movement -> RowState \cup {None}]
                       /\ \A m \in Movement : LinkedFrom(day)[m] # None => bank[m] # None
<1>1. /\ rows \in [Movement -> RowState \cup {None}]
      /\ \A m \in Movement : rows[m] # None => bank[m] # None
  BY DEF StoreOK
<1>2. \A m \in Movement : rows[m] # None => rows[m] \in RowState
  BY <1>1
<1>3. /\ \A r \in RowState : [r EXCEPT !.ruled = TRUE] \in RowState
      /\ \A r \in RowState : [r EXCEPT !.linked = TRUE] \in RowState
      /\ [ruled |-> FALSE, linked |-> FALSE] \in RowState
  BY DEF RowState
<1>4. ASSUME NEW ms, \A m \in ms : bank[m] # None
      PROVE  /\ Recorded(ms) \in [Movement -> RowState \cup {None}]
             /\ \A m \in Movement : Recorded(ms)[m] # None => bank[m] # None
  <2>1. Recorded(ms) \in [Movement -> RowState \cup {None}]
    BY <1>1, <1>3 DEF Recorded
  <2>2. QED
    BY <1>1, <1>4, <2>1 DEF Recorded
<1>5. Ruled \in [Movement -> RowState \cup {None}]
  BY <1>1, <1>2, <1>3 DEF Ruled
<1>6. \A m \in Movement : Ruled[m] # None => bank[m] # None
  BY <1>1 DEF Ruled
<1>7. ASSUME NEW day
      PROVE  /\ LinkedFrom(day) \in [Movement -> RowState \cup {None}]
             /\ \A m \in Movement : LinkedFrom(day)[m] # None => bank[m] # None
  <2>1. LinkedFrom(day) \in [Movement -> RowState \cup {None}]
    BY <1>1, <1>2, <1>3 DEF LinkedFrom
  <2>2. QED
    BY <1>1, <2>1 DEF LinkedFrom
<1>8. QED
  BY <1>4, <1>5, <1>6, <1>7

\* What a bank answers is of the account asked, booked and within the range.
LEMMA InBankFacts ==
    ASSUME NEW a, NEW from, NEW to
    PROVE  /\ InBank(a, from, to) \in SUBSET Movement
           /\ \A m \in InBank(a, from, to) : AccountOf[m] = a /\ bank[m] # None
BY DEF InBank

\* A pass job goes on: with the answers it has, or none.
LEMMA PassBooked ==
    ASSUME NEW j \in PassJob, \A m \in j.got : bank[m] # None
    PROVE  Booked(j) /\ j \in Job
<1>1. j.at \in PassAt
  BY DEF PassJob
<1>2. j \notin PeriodJob
  BY <1>1 DEF PeriodJob, PassAt
<1>3. QED
  BY <1>2 DEF Booked, Job

LEMMA OnwardBooked ==
    ASSUME NEW j \in PassJob, j.todo # <<>>
    PROVE  Onward(j) \in Job /\ Booked(Onward(j))
<1>1. Onward(j).got = {}
  BY DEF Onward, PassJob
<1>2. QED
  BY <1>1, OnwardTyped, PassBooked

LEMMA PassesSound ==
    ASSUME Sound, NEW todo \in Seq(Account), NEW asks \in BOOLEAN
    PROVE  Pass(todo, asks) \in Job /\ Booked(Pass(todo, asks))
<1>1. Pass(todo, asks) \in PassJob
  BY PassTyped DEF Sound
<1>2. Pass(todo, asks).got = {}
  BY DEF Pass
<1>3. QED
  BY <1>1, <1>2, PassBooked

-----------------------------------------------------------------------------
(* Every action of a thread keeps what is sound.                           *)

\* What most steps of a job leave as it is.
LEMMA StoreKept ==
    ASSUME StoreOK, UNCHANGED <<today, bank, rows, lastRun, since, ahead, others>>,
           limited' \subseteq Account, asked' \in 0..MaxAsked, stops' \in 0..MaxStops
    PROVE  StoreOK'
BY DEF StoreOK

\* The ledger is written, and nothing else but the jobs.
LEMMA StoreWritten ==
    ASSUME StoreOK, UNCHANGED <<today, bank, others, limited, lastRun, asked, stops, since>>,
           rows' \in [Movement -> RowState \cup {None}],
           \A m \in Movement : rows'[m] # None => bank[m] # None,
           ahead' \subseteq Account
    PROVE  StoreOK'
BY DEF StoreOK

LEMMA WakeSound == ASSUME Sound, Wake PROVE Sound'
<1>1. StoreOK'
  BY StoreTyped, StoreKept DEF Wake, bounds, history, Sound, StoreOK
<1>2. Loop \in Thread /\ Become(Loop, [at |-> "woken", due |-> lastRun # "recent"])
  BY ThreadAssumption DEF Wake
<1>3. (lastRun # "recent") \in BOOLEAN /\ UNCHANGED bank
  BY DEF Wake
<1>4. QED
  BY <1>1, <1>2, <1>3, SoundBecome, SimpleJobs

LEMMA DecideSound == ASSUME Sound, Decide PROVE Sound'
<1>1. StoreOK' /\ UNCHANGED bank
  BY StoreTyped, StoreKept DEF Decide, bounds, history, Sound, StoreOK
<1>2. Loop \in Thread /\ Configured \in Seq(Account) /\ <<>> \in Seq(Account)
  BY ThreadAssumption, AccountAssumption
<1>3. CASE ~Acquired(Loop)
  <2>1. Become(Loop, Idle)
    BY <1>3 DEF Decide
  <2>2. QED
    BY <1>1, <1>2, <2>1, SoundBecome, SimpleJobs
<1>4. CASE Acquired(Loop) /\ jobs[Loop].due
  <2>1. Become(Loop, Pass(Configured, TRUE))
    BY <1>4 DEF Decide
  <2>2. QED
    BY <1>1, <1>2, <1>4, <2>1, SoundBecome, PassesSound
<1>5. CASE Acquired(Loop) /\ ~jobs[Loop].due
  <2>1. Become(Loop, Pass(<<>>, FALSE))
    BY <1>5 DEF Decide
  <2>2. QED
    BY <1>1, <1>2, <1>5, <2>1, SoundBecome, PassesSound
<1>6. QED
  BY <1>3, <1>4, <1>5

LEMMA AskCounted ==
    ASSUME StoreOK, NEW t \in Thread, Ask(t) PROVE asked' \in 0..MaxAsked
<1>1. asked \in 0..MaxAsked /\ asked < MaxAsked /\ asked' = asked + 1
  BY DEF Ask, StoreOK
<1>2. QED
  BY <1>1, BoundsAssumption

LEMMA RunNowSound == ASSUME Sound, NEW t \in Thread, RunNow(t) PROVE Sound'
<1>1. Ask(t) /\ Become(t, Pass(Configured, TRUE)) /\ Acquired(t) /\ UNCHANGED bank
  BY DEF RunNow, Ask
<1>2. StoreOK'
  BY <1>1, StoreTyped, AskCounted, StoreKept DEF RunNow, history, Sound, StoreOK
<1>3. QED
  BY <1>1, <1>2, AccountAssumption, SoundBecome, PassesSound

LEMMA DetailsSound == ASSUME Sound, NEW t \in Thread, Details(t) PROVE Sound'
<1> DEFINE j == jobs[t]
           a == Head(j.todo)
<1>1. /\ j.at = "details" /\ j \in PassJob /\ Syncing(t) /\ Booked(j)
      /\ j.todo # <<>> /\ a \in Account
  BY JobOf, HeadTyped DEF Details, PassAt, AsksAt
<1>2. PICK told \in {j.told, j.told \cup {a}} :
          Become(t, Detailed(j, a, told)) /\ limited' = limited \cup (told \cap {a})
  BY DEF Details
<1>3. told \subseteq Account
  BY <1>1, <1>2 DEF PassJob
<1>4. StoreOK' /\ UNCHANGED bank
  BY <1>1, <1>2, StoreTyped, StoreKept DEF Details, bounds, history, Sound, StoreOK
<1>5. Detailed(j, a, told) \in Job /\ Booked(Detailed(j, a, told))
  <2>1. \A m \in j.got : bank[m] # None
    BY <1>1 DEF Booked
  <2>2. CASE a \in told
    <3>1. [j EXCEPT !.told = told] \in PassJob /\ [j EXCEPT !.told = told].todo = j.todo
      BY <1>1, <1>3 DEF PassJob, PassAt, AsksAt
    <3>2. QED
      BY <1>1, <2>2, <3>1, OnwardBooked DEF Detailed
  <2>3. CASE a \notin told
    <3>1. From(a, j.day) \in Day
      BY <1>1, FromFacts DEF Sound, PassJob
    <3>2. From(a, j.day) # None
      BY <3>1, StartAssumption
    <3>3. Detailed(j, a, told)
            = [j EXCEPT !.at = "fetch", !.told = told, !.from = From(a, j.day)]
      BY <2>3 DEF Detailed
    <3>4. Detailed(j, a, told) \in PassJob /\ Detailed(j, a, told).got = j.got
      BY <1>1, <1>3, <2>3, <3>1, <3>2, <3>3 DEF PassJob, PassAt, AsksAt
    <3>5. QED
      BY <2>1, <3>4, PassBooked
  <2>4. QED
    BY <2>2, <2>3
<1>6. QED
  BY <1>1, <1>2, <1>4, <1>5, SoundBecome

LEMMA FetchedSound == ASSUME Sound, NEW t \in Thread, Fetched(t) PROVE Sound'
<1> DEFINE j == jobs[t]
           a == Head(j.todo)
           x == [j EXCEPT !.at = "record", !.got = InBank(a, j.from, j.day)]
<1>1. /\ j.at = "fetch" /\ j \in PassJob /\ Syncing(t) /\ j.todo # <<>> /\ a \in Account
  BY JobOf, HeadTyped DEF Fetched, PassAt, AsksAt
<1>2. Become(t, x) /\ UNCHANGED bank
  BY DEF Fetched
<1>3. x \in PassJob /\ \A m \in x.got : bank[m] # None
  <2>1. \A got \in SUBSET Movement : /\ [j EXCEPT !.at = "record", !.got = got] \in PassJob
                                    /\ [j EXCEPT !.at = "record", !.got = got].got = got
    BY <1>1 DEF PassJob, PassAt, AsksAt
  <2>2. DEFINE got == InBank(a, j.from, j.day)
  <2>3. got \in SUBSET Movement /\ \A m \in got : bank[m] # None
    BY InBankFacts
  <2>4. HIDE DEF got
  <2>5. x = [j EXCEPT !.at = "record", !.got = got]
    BY DEF got
  <2>6. QED
    BY <2>1, <2>3, <2>5
<1>4. x \in Job /\ Booked(x)
  <2>1. \A k \in PassJob : (\A m \in k.got : bank[m] # None) => Booked(k) /\ k \in Job
    BY PassBooked
  <2>2. QED
    BY <1>3, <2>1
<1>5. j.from \in Day
  BY <1>1 DEF PassJob
<1>6. StoreOK'
  BY <1>1, <1>5, StoreTyped DEF Fetched, bounds, Sound, StoreOK
<1>7. QED
  BY <1>1, <1>2, <1>4, <1>6, SoundBecome

LEMMA NotFetchedSound == ASSUME Sound, NEW t \in Thread, NotFetched(t) PROVE Sound'
<1> DEFINE j == jobs[t]
           a == Head(j.todo)
<1>1. /\ j.at = "fetch" /\ j \in PassJob /\ Syncing(t) /\ j.todo # <<>> /\ a \in Account
  BY JobOf, HeadTyped DEF NotFetched, PassAt, AsksAt
<1>2. PICK refused \in {{}, {a}} :
          Become(t, Onward([j EXCEPT !.told = @ \cup refused])) /\ limited' = limited \cup refused
  BY DEF NotFetched
<1>3. StoreOK' /\ UNCHANGED bank
  BY <1>1, <1>2, StoreTyped, StoreKept DEF NotFetched, bounds, history, Sound, StoreOK
<1> DEFINE k == [j EXCEPT !.told = @ \cup refused]
<1>4. Onward(k) \in Job /\ Booked(Onward(k))
  <2>1. CASE Len(j.todo) = 1
    <3>1. Onward(k) = [j EXCEPT !.at = "link", !.todo = <<>>, !.from = None,
                                !.told = {}, !.got = {}]
      BY <1>1, <2>1 DEF Onward, PassJob
    <3>2. Onward(j) = [j EXCEPT !.at = "link", !.todo = <<>>, !.from = None,
                                !.told = {}, !.got = {}]
      BY <2>1 DEF Onward
    <3>3. QED
      BY <1>1, <3>1, <3>2, OnwardBooked
  <2>2. CASE Len(j.todo) # 1
    <3>1. [j EXCEPT !.at = "details"] \in PassJob /\ [j EXCEPT !.at = "details"].todo = j.todo
      BY <1>1 DEF PassJob, PassAt, AsksAt
    <3>2. [j EXCEPT !.at = "details", !.told = @ \cup refused] \in PassJob
      BY <1>1, <1>2, <3>1 DEF PassJob, PassAt, AsksAt
    <3>3. Onward(k) = Onward([j EXCEPT !.at = "details", !.told = @ \cup refused])
      BY <1>1, <2>2 DEF Onward, PassJob
    <3>4. QED
      BY <1>1, <3>2, <3>3, OnwardBooked DEF PassJob
  <2>3. QED
    BY <2>1, <2>2
<1>5. QED
  BY <1>1, <1>2, <1>3, <1>4, SoundBecome

LEMMA RecordSound == ASSUME Sound, NEW t \in Thread, Record(t) PROVE Sound'
<1> DEFINE j == jobs[t]
           x == [j EXCEPT !.at = "read"]
<1>1. j.at = "record" /\ j \in PassJob /\ Syncing(t) /\ Booked(j)
  BY JobOf DEF Record, PassAt
<1>2. Become(t, x) /\ rows' = Recorded(j.got) /\ UNCHANGED bank
  BY DEF Record
<1>3. j.got \subseteq Movement /\ \A m \in j.got : bank[m] # None
  BY <1>1 DEF PassJob, Booked
<1>4. x \in PassJob /\ x.got = j.got
  BY <1>1 DEF PassJob, PassAt, AsksAt
<1>5. x \in Job /\ Booked(x)
  BY <1>3, <1>4, PassBooked
<1>6. StoreOK'
  <2>1. /\ rows' \in [Movement -> RowState \cup {None}]
        /\ \A m \in Movement : rows'[m] # None => bank[m] # None
    BY <1>2, <1>3, RowsWritten, StoreTyped DEF Sound
  <2>2. QED
    BY <2>1, StoreTyped, StoreWritten DEF Record, bounds, history, Sound, StoreOK
<1>7. QED
  BY <1>1, <1>2, <1>5, <1>6, SoundBecome

LEMMA ReadSound == ASSUME Sound, NEW t \in Thread, Read(t) PROVE Sound'
<1> DEFINE j == jobs[t]
<1>1. j.at = "read" /\ j \in PassJob /\ Syncing(t) /\ Booked(j) /\ j.todo # <<>>
  BY JobOf, HeadTyped DEF Read, PassAt, AsksAt
<1>2. UNCHANGED bank /\ limited' \subseteq limited
  BY DEF Read
<1>3. StoreOK'
  BY <1>2, StoreTyped, StoreKept DEF Read, bounds, history, Sound, StoreOK
<1>4. CASE j.got = {}
  <2>1. Become(t, Onward(j))
    BY <1>4 DEF Read
  <2>2. QED
    BY <1>1, <1>2, <1>3, <2>1, OnwardBooked, SoundBecome
<1>5. CASE j.got # {}
  <2>1. Become(t, [j EXCEPT !.at = "rules"])
    BY <1>5 DEF Read
  <2>2. [j EXCEPT !.at = "rules"] \in PassJob /\ [j EXCEPT !.at = "rules"].got = j.got
    BY <1>1 DEF PassJob, PassAt, AsksAt
  <2>3. [j EXCEPT !.at = "rules"] \in Job /\ Booked([j EXCEPT !.at = "rules"])
    BY <1>1, <2>2, PassBooked DEF Booked
  <2>4. QED
    BY <1>1, <1>2, <1>3, <2>1, <2>3, SoundBecome
<1>6. QED
  BY <1>4, <1>5

\* The steps that link, or apply the rules to, what the ledger has.
LEMMA SettledSound ==
    ASSUME Sound, NEW t \in Thread, Syncing(t), NEW x \in Job, Booked(x), Become(t, x),
           rows' = Ruled \/ \E day : rows' = LinkedFrom(day),
           UNCHANGED <<today, bank, others, limited, lastRun, bounds, history>>
    PROVE  Sound'
<1>1. /\ rows' \in [Movement -> RowState \cup {None}]
      /\ \A m \in Movement : rows'[m] # None => bank[m] # None
  BY RowsWritten, StoreTyped DEF Sound
<1>2. StoreOK' /\ UNCHANGED bank
  BY <1>1, StoreTyped, StoreWritten DEF bounds, history, Sound, StoreOK
<1>3. QED
  BY <1>2, SoundBecome

LEMMA RulesSound == ASSUME Sound, NEW t \in Thread, Rules(t) PROVE Sound'
<1>1. /\ jobs[t].at = "rules" /\ jobs[t] \in PassJob /\ Syncing(t) /\ jobs[t].todo # <<>>
  BY JobOf, HeadTyped DEF Rules, PassAt, AsksAt
<1>2. QED
  BY <1>1, OnwardBooked, SettledSound DEF Rules

LEMMA SettleSound == ASSUME Sound, NEW t \in Thread, Settle(t) PROVE Sound'
<1> DEFINE x == [jobs[t] EXCEPT !.at = "link"]
<1>1. jobs[t].at = "settle" /\ jobs[t] \in PassJob /\ Syncing(t) /\ Booked(jobs[t])
  BY JobOf DEF Settle, PassAt
<1>2. x \in PassJob /\ x.got = jobs[t].got
  BY <1>1 DEF PassJob, PassAt, AsksAt
<1>3. x \in Job /\ Booked(x)
  BY <1>1, <1>2, PassBooked DEF Booked
<1>4. QED
  BY <1>1, <1>3, SettledSound DEF Settle

LEMMA LinkSound == ASSUME Sound, NEW t \in Thread, Link(t) PROVE Sound'
<1> DEFINE x == [jobs[t] EXCEPT !.at = "end"]
<1>1. jobs[t].at = "link" /\ jobs[t] \in PassJob /\ Syncing(t) /\ Booked(jobs[t])
  BY JobOf DEF Link, PassAt
<1>2. x \in PassJob /\ x.got = jobs[t].got
  BY <1>1 DEF PassJob, PassAt, AsksAt
<1>3. x \in Job /\ Booked(x)
  BY <1>1, <1>2, PassBooked DEF Booked
<1>4. Become(t, x) \/ Become(t, Idle)
  BY DEF Link
<1>5. QED
  BY <1>1, <1>3, <1>4, SimpleJobs, SettledSound DEF Link

LEMMA EndSound == ASSUME Sound, NEW t \in Thread, End(t) PROVE Sound'
<1>1. Syncing(t) /\ Become(t, Idle) /\ UNCHANGED bank
  BY DEF End, Syncing
<1>2. StoreOK'
  BY StoreTyped DEF End, bounds, history, Sound, StoreOK
<1>3. QED
  BY <1>1, <1>2, SimpleJobs, SoundBecome

-----------------------------------------------------------------------------
(* The same of the periods.                                                *)

LEMMA PeriodBooked ==
    ASSUME NEW j \in PeriodJob,
           \A i \in DOMAIN j.windows : \A m \in j.windows[i].got :
               AccountOf[m] = j.account /\ bank[m] # None
    PROVE  Booked(j) /\ j \in Job
<1>1. j.at \in {"ask", "write"}
  BY DEF PeriodJob
<1>2. j \notin PassJob
  BY <1>1 DEF PassJob, PassAt
<1>3. QED
  BY <1>2 DEF Booked, Job

LEMMA AskPeriodSound ==
    ASSUME Sound, NEW t \in Thread, NEW p \in Periods, AskPeriod(t, p) PROVE Sound'
<1> DEFINE x == [at |-> "ask", account |-> p.account, from |-> p.from, to |-> p.to,
                 preview |-> p.preview, start |-> p.from, width |-> Width,
                 asked |-> None, windows |-> <<>>]
<1>1. Ask(t) /\ Acquired(t) /\ Become(t, x) /\ UNCHANGED bank
  BY DEF AskPeriod, Ask
<1>2. p.account \in Account /\ p.from \in Day /\ p.to \in Day /\ p.preview \in BOOLEAN
      /\ p.from <= p.to
  BY PeriodAssumption
<1>3. p.from \in Nat /\ Width \in 1..Width
  BY <1>2, WindowAssumption DEF Day
<1>4. <<>> \in Seq(Window) /\ DOMAIN <<>> = {}
  OBVIOUS
<1>5. x \in PeriodJob
  BY <1>2, <1>3, <1>4 DEF PeriodJob, Tiled, NextStart
<1>6. x \in Job /\ Booked(x)
  BY <1>4, <1>5, PeriodBooked
<1>7. StoreOK'
  BY <1>1, StoreTyped, AskCounted, StoreKept DEF AskPeriod, history, Sound, StoreOK
<1>8. QED
  BY <1>1, <1>6, <1>7, SoundBecome

\* One more window is reported, whatever the job does next.
LEMMA ReportBooked ==
    ASSUME NEW j \in PeriodJob, Booked(j), NEW to, NEW ok,
           NEW got, \A m \in got : AccountOf[m] = j.account /\ bank[m] # None,
           NEW k \in PeriodJob, k.windows = Report(j, to, ok, got), k.account = j.account,
           Report(j, to, ok, got) \in Seq(Window)
    PROVE  Booked(k) /\ k \in Job
<1> DEFINE v == j.windows
           w == Report(j, to, ok, got)
<1>1. /\ v \in Seq(Window)
      /\ \A i \in DOMAIN v : \A m \in v[i].got : AccountOf[m] = j.account /\ bank[m] # None
  BY DEF Booked, PeriodJob
<1>2. /\ Len(w) = Len(v) + 1 /\ w[Len(w)].got = got
      /\ \A i \in 1..Len(v) : w[i] = v[i]
      /\ DOMAIN w = 1..Len(w) /\ DOMAIN v = 1..Len(v) /\ Len(v) \in Nat
  BY <1>1 DEF Report
<1>3. ASSUME NEW i \in DOMAIN w
      PROVE  \A m \in w[i].got : AccountOf[m] = j.account /\ bank[m] # None
  <2>1. CASE i \in 1..Len(v)
    BY <1>1, <1>2, <2>1
  <2>2. CASE i = Len(w)
    BY <1>2, <2>2
  <2>3. QED
    BY <1>2, <1>3, <2>1, <2>2
<1>4. QED
  BY <1>3, PeriodBooked

LEMMA AskedSound ==
    ASSUME Sound, NEW t \in Thread, jobs[t] \in PeriodJob, jobs[t].at = "ask",
           NEW to \in Day, jobs[t].start <= to, to <= jobs[t].to, NEW width \in 1..Width,
           NEW ok \in BOOLEAN, NEW got \in SUBSET Movement,
           \A m \in got : AccountOf[m] = jobs[t].account /\ bank[m] # None,
           NEW x, \/ x = After(jobs[t], to, width, Report(jobs[t], to, ok, got))
                  \/ x = [jobs[t] EXCEPT !.at = "write", !.windows = Report(jobs[t], to, ok, got),
                                         !.width = Width, !.asked = None]
    PROVE  x \in Job /\ Booked(x)
<1> DEFINE j == jobs[t]
<1>1. x \in PeriodJob
  <2>1. /\ After(j, to, width, Report(j, to, ok, got)) \in PeriodJob
        /\ [j EXCEPT !.at = "write", !.windows = Report(j, to, ok, got),
                     !.width = Width, !.asked = None] \in PeriodJob
    BY AfterTyped
  <2>2. QED
    BY <2>1
<1>2. x.windows = Report(j, to, ok, got) /\ x.account = j.account
  BY DEF After, PeriodJob
<1>3. Report(j, to, ok, got) \in Seq(Window)
  BY ReportTiles
<1>4. Booked(j)
  BY JobOf
<1>5. QED
  BY <1>1, <1>2, <1>3, <1>4, ReportBooked

LEMMA AskWindowSound == ASSUME Sound, NEW t \in Thread, AskWindow(t) PROVE Sound'
<1> DEFINE j == jobs[t]
<1>1. j.at = "ask" /\ j \in PeriodJob /\ Syncing(t) /\ Booked(j)
  BY JobOf DEF AskWindow
<1>2. /\ WindowEnd(j) \in Day /\ j.start <= WindowEnd(j) /\ WindowEnd(j) <= j.to
      /\ AskedEnd(j) \in Day /\ j.start <= AskedEnd(j) /\ AskedEnd(j) <= j.to
  BY <1>1, EndsTyped
<1>3. j.width \in 1..Width /\ Width \in 1..Width
  BY <1>1, WindowAssumption DEF PeriodJob
<1>4. {} \subseteq Movement /\ TRUE \in BOOLEAN /\ FALSE \in BOOLEAN
  OBVIOUS
<1>5. StoreOK' /\ UNCHANGED bank
  BY StoreTyped, StoreKept DEF AskWindow, bounds, history, Sound, StoreOK
<1>6. WindowRead(j) \in Job /\ Booked(WindowRead(j))
  <2> DEFINE got == InBank(j.account, j.start, WindowEnd(j))
  <2>1. got \subseteq Movement /\ \A m \in got : AccountOf[m] = j.account /\ bank[m] # None
    BY InBankFacts
  <2>2. WindowRead(j) = After(j, WindowEnd(j), j.width, Report(j, WindowEnd(j), TRUE, got))
    BY DEF WindowRead
  <2> HIDE DEF got
  <2>3. QED
    BY <1>1, <1>2, <1>3, <1>4, <2>1, <2>2, AskedSound
<1>7. WindowLost(j) \in Job /\ Booked(WindowLost(j))
  <2>1. WindowLost(j) = After(j, WindowEnd(j), j.width, Report(j, WindowEnd(j), FALSE, {}))
    BY DEF WindowLost
  <2>2. QED
    BY <1>1, <1>2, <1>3, <1>4, <2>1, AskedSound
<1>8. WindowRefused(j) \in Job /\ Booked(WindowRefused(j))
  <2>1. WindowRefused(j) = After(j, AskedEnd(j), Width, Report(j, AskedEnd(j), FALSE, {}))
    BY DEF WindowRefused
  <2>2. QED
    BY <1>1, <1>2, <1>3, <1>4, <2>1, AskedSound
<1>9. PeriodLimited(j) \in Job /\ Booked(PeriodLimited(j))
  <2>1. PeriodLimited(j) = [j EXCEPT !.at = "write",
                                     !.windows = Report(j, AskedEnd(j), FALSE, {}),
                                     !.width = Width, !.asked = None]
    BY DEF PeriodLimited
  <2>2. QED
    BY <1>1, <1>2, <1>3, <1>4, <2>1, AskedSound
<1>10. j.width > 1 => Halved(j) \in Job /\ Booked(Halved(j))
  <2>1. j.width > 1 => Halved(j) \in PeriodJob
    BY <1>1, HalvedTyped
  <2>2. Halved(j).windows = j.windows /\ Halved(j).account = j.account
    BY <1>1 DEF Halved, PeriodJob
  <2>3. QED
    BY <1>1, <2>1, <2>2, PeriodBooked DEF Booked
<1>11. \/ Become(t, WindowRead(j)) \/ Become(t, WindowLost(j))
       \/ j.width > 1 /\ Become(t, Halved(j))
       \/ Become(t, WindowRefused(j)) \/ Become(t, PeriodLimited(j)) \/ Become(t, Idle)
  BY DEF AskWindow
<1>12. QED
  BY <1>1, <1>5, <1>6, <1>7, <1>8, <1>9, <1>10, <1>11, SimpleJobs, SoundBecome

LEMMA WriteWindowSound == ASSUME Sound, NEW t \in Thread, WriteWindow(t) PROVE Sound'
<1> DEFINE j == jobs[t]
           w == Head(j.windows)
           x == [j EXCEPT !.windows = Tail(@)]
<1>1. j.at = "write" /\ j \in PeriodJob /\ Syncing(t) /\ Booked(j) /\ j.windows # <<>>
  BY JobOf DEF WriteWindow
<1>2. Become(t, x) /\ rows' = Recorded(w.got) /\ UNCHANGED bank
  BY DEF WriteWindow
<1>3. j.windows \in Seq(Window) /\ j.account \in Account
  BY <1>1 DEF PeriodJob
<1>4. /\ Len(j.windows) \in Nat \ {0} /\ DOMAIN j.windows = 1..Len(j.windows)
      /\ w = j.windows[1] /\ Tail(j.windows) \in Seq(Window)
      /\ DOMAIN Tail(j.windows) = 1..(Len(j.windows) - 1)
      /\ \A i \in 1..(Len(j.windows) - 1) : Tail(j.windows)[i] = j.windows[i + 1]
  BY <1>1, <1>3, EmptySeq
<1>5. \A i \in DOMAIN j.windows : \A m \in j.windows[i].got :
          AccountOf[m] = j.account /\ bank[m] # None
  BY <1>1 DEF Booked
<1>6. \A m \in w.got : bank[m] # None
  BY <1>4, <1>5
<1>7. x \in PeriodJob /\ x.windows = Tail(j.windows) /\ x.account = j.account
  BY <1>1, <1>4 DEF PeriodJob
<1>8. \A i \in DOMAIN x.windows : \A m \in x.windows[i].got :
          AccountOf[m] = x.account /\ bank[m] # None
  BY <1>4, <1>5, <1>7
<1>9. x \in Job /\ Booked(x)
  BY <1>7, <1>8, PeriodBooked
<1>10. StoreOK'
  <2>1. /\ rows' \in [Movement -> RowState \cup {None}]
        /\ \A m \in Movement : rows'[m] # None => bank[m] # None
    BY <1>2, <1>6, RowsWritten, StoreTyped DEF Sound
  <2>2. ahead' \subseteq Account
    BY <1>3, StoreTyped DEF WriteWindow, Sound, StoreOK
  <2>3. QED
    BY <2>1, <2>2, StoreTyped, StoreWritten DEF WriteWindow, bounds, Sound, StoreOK
<1>11. QED
  BY <1>1, <1>2, <1>9, <1>10, SoundBecome

LEMMA PeriodWrittenSound == ASSUME Sound, NEW t \in Thread, PeriodWritten(t) PROVE Sound'
<1>1. jobs[t].at = "write" /\ jobs[t] \in PeriodJob /\ Syncing(t)
  BY JobOf DEF PeriodWritten
<1>2. jobs[t].from \in Day
  BY <1>1 DEF PeriodJob
<1>3. Become(t, Idle) \/ Become(t, [at |-> "period rules", from |-> jobs[t].from])
  BY DEF PeriodWritten
<1>4. StoreOK' /\ UNCHANGED bank
  BY StoreTyped, StoreKept DEF PeriodWritten, bounds, history, Sound, StoreOK
<1>5. QED
  BY <1>1, <1>2, <1>3, <1>4, SimpleJobs, SoundBecome

LEMMA PeriodRulesSound == ASSUME Sound, NEW t \in Thread, PeriodRules(t) PROVE Sound'
<1> DEFINE x == [jobs[t] EXCEPT !.at = "period link"]
<1>1. jobs[t].at = "period rules" /\ jobs[t] \in TailJob /\ Syncing(t)
  BY JobOf DEF PeriodRules
<1>2. x \in TailJob /\ x.at = "period link"
  BY <1>1 DEF TailJob
<1>3. x \in Job /\ Booked(x)
  BY <1>2 DEF Job, Booked, PassJob, PeriodJob, PassAt
<1>4. QED
  BY <1>1, <1>3, SettledSound DEF PeriodRules

LEMMA PeriodLinkSound == ASSUME Sound, NEW t \in Thread, PeriodLink(t) PROVE Sound'
<1>1. Syncing(t)
  BY DEF PeriodLink, Syncing
<1>2. QED
  BY <1>1, SimpleJobs, SettledSound DEF PeriodLink

-----------------------------------------------------------------------------
(* What happens around the passes, and every step together.                *)

LEMMA BookSound == ASSUME Sound, NEW m \in Movement, Book(m) PROVE Sound'
<1>1. PICK d \in Day : bank' = [bank EXCEPT ![m] = d]
  BY DEF Book
<1>2. bank \in [Movement -> Day \cup {None}] /\ bank[m] = None /\ d # None
  BY StartAssumption, StoreTyped DEF Book, Sound, StoreOK
<1>3. \A n \in Movement : bank[n] # None => bank'[n] = bank[n]
  BY <1>1, <1>2
<1>4. bank' \in [Movement -> Day \cup {None}]
  BY <1>1, <1>2
<1>5. StoreOK'
  BY <1>2, <1>3, <1>4, StoreTyped DEF Book, bounds, history, Sound, StoreOK
<1>6. UNCHANGED jobs
  BY DEF Book
<1>7. QED
  BY <1>3, <1>5, <1>6, SoundStays

\* The newest of a row from elsewhere and those before it.
LEMMA NewestElsewhere ==
    ASSUME StoreOK, NEW a \in Account, NEW d \in Day,
           others' = [others EXCEPT ![a] = Max({d} \cup ({@} \ {None}))]
    PROVE  /\ others' \in [Account -> Day \cup {None}]
           /\ others'[a] \in {d, others[a]} /\ others'[a] \in Day /\ d <= others'[a]
           /\ others[a] # None => others[a] <= others'[a]
           /\ \A b \in Account \ {a} : others'[b] = others[b]
<1> DEFINE S == {d} \cup ({others[a]} \ {None})
<1>1. others \in [Account -> Day \cup {None}]
  BY DEF StoreOK
<1>2. S \in SUBSET Day /\ S # {} /\ d \in S /\ (others[a] # None => others[a] \in S)
  BY <1>1
<1>3. Max(S) \in S /\ \A y \in S : y <= Max(S)
  BY <1>2, MaxDay
<1>4. others' = [others EXCEPT ![a] = Max(S)]
  OBVIOUS
<1>5. S \subseteq {d, others[a]}
  OBVIOUS
<1> HIDE DEF S
<1>6. QED
  BY <1>1, <1>2, <1>3, <1>4, <1>5

LEMMA ElsewhereSound ==
    ASSUME Sound, NEW a \in Account, WriteElsewhere(a) PROVE Sound'
<1>1. PICK d \in 1..today :
          others' = [others EXCEPT ![a] = Max({d} \cup ({@} \ {None}))]
  BY DEF WriteElsewhere
<1>2. d \in Day
  BY <1>1, WindowAssumption, StoreTyped DEF Sound, StoreOK, Day
<1>3. others' \in [Account -> Day \cup {None}]
  BY <1>1, <1>2, NewestElsewhere, StoreTyped DEF Sound
<1>4. asked' \in 0..MaxAsked
  BY BoundsAssumption, StoreTyped DEF WriteElsewhere, Sound, StoreOK
<1>5. ahead' \subseteq Account
  BY StoreTyped DEF WriteElsewhere, Sound, StoreOK
<1>6. StoreOK'
  BY <1>3, <1>4, <1>5, StoreTyped DEF WriteElsewhere, Sound, StoreOK
<1>7. UNCHANGED <<jobs, bank>>
  BY DEF WriteElsewhere
<1>8. QED
  BY <1>6, <1>7, SoundStays

LEMMA TickSound == ASSUME Sound, Tick PROVE Sound'
<1>1. today \in Day /\ today < LastDay /\ today' = today + 1
  BY StoreTyped DEF Tick, Sound, StoreOK
<1>2. today' \in Day
  BY <1>1, WindowAssumption DEF Day
<1>3. StoreOK'
  BY <1>2, StoreTyped DEF Tick, bounds, history, Sound, StoreOK
<1>4. UNCHANGED <<jobs, bank>>
  BY DEF Tick
<1>5. QED
  BY <1>3, <1>4, SoundStays

LEMMA LateSound == ASSUME Sound, Late PROVE Sound'
<1>1. StoreOK'
  BY StoreTyped DEF Late, bounds, history, Sound, StoreOK
<1>2. UNCHANGED <<jobs, bank>>
  BY DEF Late
<1>3. QED
  BY <1>1, <1>2, SoundStays

LEMMA StopCounted ==
    ASSUME StoreOK, stops < MaxStops, stops' = stops + 1 PROVE stops' \in 0..MaxStops
BY BoundsAssumption DEF StoreOK

LEMMA FailSound == ASSUME Sound, NEW t \in Thread, Fail(t) PROVE Sound'
<1>1. Become(t, Idle) /\ UNCHANGED bank
  BY DEF Fail
<1>2. StoreOK'
  BY StoreTyped, StopCounted, StoreKept DEF Fail, history, Sound, StoreOK
<1>3. QED
  BY <1>1, <1>2, SimpleJobs, SoundBecome

LEMMA StopSound == ASSUME Sound, NEW p \in Processes, Stop(p) PROVE Sound'
<1>1. /\ jobs' = [t \in Thread |-> IF ProcessOf[t] = p THEN Idle ELSE jobs[t]]
      /\ UNCHANGED bank
  BY DEF Stop
<1>2. StoreOK'
  BY StoreTyped, StopCounted, StoreKept DEF Stop, history, Sound, StoreOK
<1>3. \A t \in Thread : jobs'[t] = Idle \/ jobs'[t] = jobs[t]
  BY <1>1
<1>4. Idle \in Job /\ Idle.at = "idle" /\ Booked(Idle)
  BY SimpleJobs
<1>5. jobs' \in [Thread -> Job]
  BY <1>1, <1>4 DEF Sound, JobsInv
<1>6. OneAtATime'
  <2>1. \A t \in Thread : Syncing(t)' => Syncing(t)
    BY <1>3, <1>4 DEF Syncing
  <2>2. QED
    BY <2>1 DEF Sound, JobsInv, OneAtATime
<1>7. TypeOK'
  BY <1>2, <1>5, JobsTypedNext
<1>8. BookedInv'
  <2>1. SUFFICES ASSUME NEW t \in Thread PROVE Booked(jobs[t])'
    BY DEF BookedInv
  <2>2. Booked(jobs[t])
    BY DEF Sound, BookedInv
  <2>3. QED
    BY <1>1, <1>3, <1>4, <2>2 DEF Booked
<1>9. QED
  BY <1>5, <1>6, <1>7, <1>8 DEF Sound, JobsInv

LEMMA SoundStutters == ASSUME Sound, UNCHANGED vars PROVE Sound'
<1>1. StoreOK'
  BY StoreTyped DEF vars, Sound, StoreOK
<1>2. QED
  BY <1>1, SoundStays DEF vars

LEMMA WorkSound == ASSUME Sound, NEW t \in Thread, Work(t) PROVE Sound'
BY DetailsSound, FetchedSound, NotFetchedSound, RecordSound, ReadSound, RulesSound,
   SettleSound, LinkSound, EndSound, AskWindowSound, WriteWindowSound, PeriodWrittenSound,
   PeriodRulesSound, PeriodLinkSound DEF Work

LEMMA NextSound == ASSUME Sound, [Next]_vars PROVE Sound'
<1>1. CASE Wake \/ Decide \/ Tick \/ Late
  BY <1>1, WakeSound, DecideSound, TickSound, LateSound
<1>2. CASE \E t \in Thread :
              Work(t) \/ RunNow(t) \/ Fail(t) \/ \E p \in Periods : AskPeriod(t, p)
  BY <1>2, WorkSound, RunNowSound, FailSound, AskPeriodSound
<1>3. CASE \/ \E m \in Movement : Book(m)
           \/ \E a \in Account : WriteElsewhere(a)
           \/ \E p \in Processes : Stop(p)
  BY <1>3, BookSound, ElsewhereSound, StopSound
<1>4. CASE UNCHANGED vars
  BY <1>4, SoundStutters
<1>5. QED
  BY <1>1, <1>2, <1>3, <1>4 DEF Next

LEMMA InitSound == Init => Sound
<1>1. SUFFICES ASSUME Init PROVE Sound
  OBVIOUS
<1>2. StoreOK
  <2>1. 1 \in Day /\ 0 \in 0..MaxAsked /\ 0 \in 0..MaxStops
    BY WindowAssumption, BoundsAssumption DEF Day
  <2>2. /\ bank = [m \in Movement |-> None] /\ rows = [m \in Movement |-> None]
        /\ others = [a \in Account |-> None]
        /\ since = [a \in Account |-> None] /\ ahead = {} /\ limited = {} /\ lastRun = None
        /\ today = 1 /\ asked = 0 /\ stops = 0
    BY <1>1 DEF Init
  <2>3. QED
    BY <2>1, <2>2 DEF StoreOK
<1>3. jobs = [t \in Thread |-> Idle] /\ Idle \in Job /\ Idle.at = "idle" /\ Booked(Idle)
  <2>1. jobs = [t \in Thread |-> Idle]
    BY <1>1 DEF Init
  <2>2. QED
    BY <2>1, SimpleJobs
<1>4. jobs \in [Thread -> Job] /\ OneAtATime
  BY <1>3 DEF OneAtATime, Syncing
<1>5. TypeOK
  BY <1>2, <1>4, JobsTyped
<1>6. BookedInv
  BY <1>3 DEF BookedInv
<1>7. QED
  BY <1>4, <1>5, <1>6 DEF Sound, JobsInv

LEMMA Sounds == Spec => []Sound
BY InitSound, NextSound, PTL DEF Spec

-----------------------------------------------------------------------------
(* The theorems about the jobs.                                            *)

\* Types, for every choice of accounts, threads and processes: above all, that the
\* ledger holds nothing its bank has not booked, and that a period always knows what
\* it asks next.
THEOREM TypeCorrect == Spec => []TypeOK
<1>1. Sound => TypeOK
  BY DEF Sound
<1>2. QED
  BY <1>1, Sounds, PTL

\* No two of a process's threads are ever in a pass, a period or a settlement at once
\* (_SYNC_LOCK, taken before anything is asked and given back by every way out).
THEOREM LockHolds == Spec => []OneAtATime
<1>1. Sound => OneAtATime
  BY DEF Sound, JobsInv
<1>2. QED
  BY <1>1, Sounds, PTL

\* The windows of a period follow one another, whatever widths it halved through
\* (fetch_transaction_windows).
THEOREM WindowsFollow == Spec => []WindowsTile
<1>1. Sound => WindowsTile
  <2>1. SUFFICES ASSUME Sound, NEW t \in Thread, jobs[t].at = "ask"
                 PROVE  Tiled(jobs[t]) /\ jobs[t].start = NextStart(jobs[t])
    BY DEF WindowsTile, Tiled, NextStart
  <2>2. jobs[t] \in PeriodJob
    BY <2>1, JobOf
  <2>3. QED
    BY <2>1, <2>2 DEF PeriodJob
<1>2. QED
  BY <1>1, Sounds, PTL

-----------------------------------------------------------------------------
(* What a step does to what is missing.                                    *)

\* The two accounts of a movement, the ledger's and the bank's, move forward only.
LEMMA CursorGrows ==
    ASSUME TypeOK, TypeOK', UNCHANGED <<bank, others>>, NEW a \in Account,
           \A m \in Movement : rows[m] # None => rows'[m] # None
    PROVE  /\ Missing(a)' \subseteq Missing(a)
           /\ Cursor(a) # None => Cursor(a)' # None /\ Cursor(a) <= Cursor(a)'
<1>1. Missing(a)' \subseteq Missing(a) /\ Days(a) \subseteq Days(a)'
  BY DEF Missing, Days
<1>2. QED
  BY <1>1, CursorFacts, CursorFactsNext

\* A step that neither adds a movement to the ledger nor to a bank says nothing new.
LEMMA Untouched ==
    ASSUME UNCHANGED <<bank, since, ahead, others>>,
           \A m \in Movement : rows[m] = None <=> rows'[m] = None
    PROVE  /\ \A a \in Account : Behind(a) => Behind(a)'
           /\ \A k : PassInv(k) => PassInv(k)'
<1>1. \A a : Missing(a)' = Missing(a) /\ Days(a)' = Days(a)
  BY DEF Missing, Days
<1>2. \A a : Cursor(a)' = Cursor(a)
  <2>1. \A a : Cursor(a) = IF Days(a) = {} THEN None ELSE Max(Days(a))
    BY DEF Cursor, Days
  <2>2. \A a : Cursor(a)' = IF Days(a)' = {} THEN None ELSE Max(Days(a)')
    BY DEF Cursor, Days
  <2>3. QED
    BY <1>1, <2>1, <2>2
<1>3. \A k, a : /\ AsksEnough(k, a) => AsksEnough(k, a)'
                /\ GotOf(k, a) => GotOf(k, a)'
                /\ Answered(k, a) => Answered(k, a)'
  BY <1>1, <1>2 DEF AsksEnough, GotOf, Answered
<1>4. \A k : PassInv(k) => PassInv(k)'
  BY <1>3 DEF PassInv
<1>5. \A a \in Account : Behind(a) => Behind(a)'
  BY <1>1, <1>2 DEF Behind
<1>6. QED
  BY <1>4, <1>5

\* One thread's step, when it leaves the other jobs what they rely on.
LEMMA ReadBecome ==
    ASSUME Sound, ReadInv, NEW t \in Thread, NEW x, Become(t, x), UNCHANGED <<today, bank, others>>,
           x \in PassJob => x.day <= today, PassInv(x)',
           \A u \in Thread \ {t} : \A k : (k = jobs[u] /\ PassInv(k)) => PassInv(k)',
           \A a \in Account \ ahead' : Behind(a)'
    PROVE  ReadInv'
<1>1. jobs'[t] = x /\ \A u \in Thread \ {t} : jobs'[u] = jobs[u]
  BY DEF Become, Sound, JobsInv
<1>2. ASSUME NEW u \in Thread PROVE PassInv(jobs[u])'
  <2>1. CASE u = t
    BY <1>1, <2>1 DEF PassInv, AsksEnough, GotOf, Answered
  <2>2. CASE u # t
    <3>1. PICK k : k = jobs[u]
      OBVIOUS
    <3>2. PassInv(k)
      BY <3>1 DEF ReadInv
    <3>3. PassInv(k)'
      BY <2>2, <3>1, <3>2
    <3>4. QED
      BY <1>1, <2>2, <3>1, <3>3 DEF PassInv, AsksEnough, GotOf, Answered
  <2>3. QED
    BY <2>1, <2>2
<1>3. \A u \in Thread : jobs'[u] \in PassJob => jobs'[u].day <= today
  BY <1>1 DEF ReadInv
<1>4. QED
  BY <1>2, <1>3 DEF ReadInv

\* The steps that ask no bank for movements and add none to the ledger.
LEMMA QuietStep ==
    ASSUME Sound, ReadInv, NEW t \in Thread, NEW x, Become(t, x),
           UNCHANGED <<today, bank, since, ahead, others>>,
           \A m \in Movement : rows[m] = None <=> rows'[m] = None,
           x \in PassJob => x.day <= today, PassInv(x)
    PROVE  ReadInv'
<1>1. PassInv(x)'
  BY Untouched
<1>2. \A u \in Thread \ {t} : \A k : (k = jobs[u] /\ PassInv(k)) => PassInv(k)'
  BY Untouched
<1>3. \A a \in Account \ ahead' : Behind(a)'
  BY Untouched DEF ReadInv
<1>4. QED
  BY <1>1, <1>2, <1>3, ReadBecome

\* A job that is neither about to ask nor about to record.
LEMMA NothingAnswered == ASSUME NEW x, x.at \notin {"fetch", "record"} PROVE PassInv(x)
BY DEF PassInv

LEMMA QuietJob ==
    ASSUME Sound, ReadInv, NEW t \in Thread, NEW x, Become(t, x),
           UNCHANGED <<today, bank, since, ahead, others>>,
           \A m \in Movement : rows[m] = None <=> rows'[m] = None,
           x.at \notin {"fetch", "record"}, x \in PassJob => x.day <= today
    PROVE  ReadInv'
BY NothingAnswered, QuietStep

LEMMA RowsQuiet ==
    ASSUME StoreOK, rows' = rows \/ rows' = Ruled \/ \E day : rows' = LinkedFrom(day)
    PROVE  \A m \in Movement : rows[m] = None <=> rows'[m] = None
<1>1. \A m \in Movement : rows[m] # None => rows[m] \in RowState
  BY DEF StoreOK
<1>2. \A r \in RowState : /\ [r EXCEPT !.ruled = TRUE] \in RowState
                          /\ [r EXCEPT !.linked = TRUE] \in RowState
  BY DEF RowState
<1>3. \A r \in RowState : r # None
  BY StartAssumption
<1>4. CASE rows' = Ruled
  BY <1>1, <1>2, <1>3, <1>4 DEF Ruled
<1>5. CASE \E day : rows' = LinkedFrom(day)
  BY <1>1, <1>2, <1>3, <1>5 DEF LinkedFrom
<1>6. QED
  BY <1>4, <1>5

LEMMA NotPass == ASSUME NEW x, x.at \notin PassAt PROVE x \notin PassJob
BY DEF PassJob

\* A step of a thread that ends its job or goes on to a period's.
LEMMA OtherJob ==
    ASSUME Sound, ReadInv, NEW t \in Thread, NEW x, Become(t, x), x.at \notin PassAt,
           UNCHANGED <<today, bank, since, ahead, others>>,
           rows' = rows \/ rows' = Ruled \/ \E day : rows' = LinkedFrom(day)
    PROVE  ReadInv'
<1>1. x.at \notin {"fetch", "record"} /\ x \notin PassJob
  BY NotPass DEF PassAt
<1>2. \A m \in Movement : rows[m] = None <=> rows'[m] = None
  BY RowsQuiet, StoreTyped DEF Sound
<1>3. QED
  BY <1>1, <1>2, QuietJob

\* A step of a pass that goes on with it.
LEMMA SamePass ==
    ASSUME Sound, ReadInv, NEW t \in Thread, jobs[t] \in PassJob, NEW x, Become(t, x),
           x.at \notin {"fetch", "record"}, x.day = jobs[t].day,
           UNCHANGED <<today, bank, since, ahead, others>>,
           rows' = rows \/ rows' = Ruled \/ \E day : rows' = LinkedFrom(day)
    PROVE  ReadInv'
<1>1. x.day <= today
  BY DEF ReadInv
<1>2. \A m \in Movement : rows[m] = None <=> rows'[m] = None
  BY RowsQuiet, StoreTyped DEF Sound
<1>3. QED
  BY <1>1, <1>2, QuietJob

LEMMA WakeRead == ASSUME Sound, ReadInv, Wake PROVE ReadInv'
<1>1. Become(Loop, [at |-> "woken", due |-> lastRun # "recent"]) /\ Loop \in Thread
  BY ThreadAssumption DEF Wake
<1>2. QED
  BY <1>1, OtherJob DEF Wake, history, PassAt

\* A pass that begins has today for its day.
LEMMA PassRead ==
    ASSUME Sound, ReadInv, NEW t \in Thread, NEW todo \in Seq(Account), NEW asks \in BOOLEAN,
           Become(t, Pass(todo, asks)), UNCHANGED <<today, bank, rows, since, ahead, others>>
    PROVE  ReadInv'
<1>1. Pass(todo, asks).day = today /\ today <= today
  BY StoreTyped DEF Pass, Sound, StoreOK, Day
<1>2. Pass(todo, asks).at \notin {"fetch", "record"}
  BY PassTyped DEF Sound
<1>3. QED
  BY <1>1, <1>2, QuietJob

LEMMA DecideRead == ASSUME Sound, ReadInv, Decide PROVE ReadInv'
<1>1. /\ Loop \in Thread /\ Configured \in Seq(Account) /\ <<>> \in Seq(Account)
      /\ UNCHANGED <<today, bank, rows, since, ahead, others>>
  BY ThreadAssumption, AccountAssumption DEF Decide, history
<1>2. CASE Become(Loop, Idle)
  BY <1>1, <1>2, OtherJob DEF Idle, PassAt
<1>3. CASE Become(Loop, Pass(Configured, TRUE))
  BY <1>1, <1>3, PassRead
<1>4. CASE Become(Loop, Pass(<<>>, FALSE))
  BY <1>1, <1>4, PassRead
<1>5. QED
  BY <1>2, <1>3, <1>4 DEF Decide

LEMMA RunNowRead == ASSUME Sound, ReadInv, NEW t \in Thread, RunNow(t) PROVE ReadInv'
BY AccountAssumption, PassRead DEF RunNow, history

LEMMA DetailsRead == ASSUME Sound, ReadInv, NEW t \in Thread, Details(t) PROVE ReadInv'
<1> DEFINE j == jobs[t]
           a == Head(j.todo)
<1>1. /\ j.at = "details" /\ j \in PassJob /\ j.todo # <<>> /\ a \in Account
      /\ UNCHANGED <<today, bank, rows, since, ahead, others>>
  BY JobOf, HeadTyped DEF Details, PassAt, AsksAt, history
<1>2. PICK told \in {j.told, j.told \cup {a}} : Become(t, Detailed(j, a, told))
  BY DEF Details
<1>3. j.day <= today /\ j.day \in Day
  BY <1>1 DEF ReadInv, PassJob
<1>4. CASE a \in told
  <2> DEFINE k == [j EXCEPT !.told = told]
  <2>1. k \in PassJob /\ k.todo # <<>> /\ k.day = j.day
    BY <1>1, <1>2 DEF PassJob, PassAt, AsksAt
  <2>2. Detailed(j, a, told) = Onward(k)
    BY <1>4 DEF Detailed
  <2>3. Onward(k).at \notin {"fetch", "record"} /\ Onward(k).day = j.day
    BY <2>1, OnwardTyped
  <2>4. QED
    BY <1>1, <1>2, <2>2, <2>3, SamePass
<1>5. CASE a \notin told
  <2> DEFINE x == [j EXCEPT !.at = "fetch", !.told = told, !.from = From(a, j.day)]
  <2>1. Become(t, x)
    BY <1>2, <1>5 DEF Detailed
  <2>2. /\ x.at = "fetch" /\ x.todo = j.todo /\ x.day = j.day
        /\ x.from = From(a, j.day)
    BY <1>1 DEF PassJob
  <2>3. AsksEnough(x, a)
    BY <1>1, <1>3, <2>2, FromFacts DEF AsksEnough, Sound
  <2>4. PassInv(x)
    BY <2>2, <2>3 DEF PassInv
  <2>5. QED
    BY <1>1, <1>3, <2>1, <2>2, <2>4, QuietStep
<1>6. QED
  BY <1>4, <1>5

LEMMA NotFetchedRead == ASSUME Sound, ReadInv, NEW t \in Thread, NotFetched(t) PROVE ReadInv'
<1> DEFINE j == jobs[t]
           a == Head(j.todo)
<1>1. j.at = "fetch" /\ j \in PassJob /\ UNCHANGED <<today, bank, rows, since, ahead, others>>
  BY JobOf DEF NotFetched, PassAt, history
<1>2. PICK refused \in {{}, {a}} : Become(t, Onward([j EXCEPT !.told = @ \cup refused]))
  BY DEF NotFetched
<1>3. /\ Onward([j EXCEPT !.told = @ \cup refused]).at \in {"link", "details"}
      /\ Onward([j EXCEPT !.told = @ \cup refused]).day = j.day
  BY <1>1 DEF Onward, PassJob
<1>4. QED
  BY <1>1, <1>2, <1>3, SamePass

LEMMA ReadRead == ASSUME Sound, ReadInv, NEW t \in Thread, Read(t) PROVE ReadInv'
<1> DEFINE j == jobs[t]
<1>1. /\ j.at = "read" /\ j \in PassJob /\ j.todo # <<>>
      /\ UNCHANGED <<today, bank, rows, since, ahead, others>>
  BY JobOf, HeadTyped DEF Read, PassAt, AsksAt, history
<1>2. CASE Become(t, Onward(j))
  BY <1>1, <1>2, OnwardTyped, SamePass
<1>3. CASE Become(t, [j EXCEPT !.at = "rules"])
  <2>1. [j EXCEPT !.at = "rules"].at = "rules" /\ [j EXCEPT !.at = "rules"].day = j.day
    BY <1>1 DEF PassJob
  <2>2. QED
    BY <1>1, <1>3, <2>1, SamePass
<1>4. QED
  BY <1>2, <1>3 DEF Read

LEMMA RulesRead == ASSUME Sound, ReadInv, NEW t \in Thread, Rules(t) PROVE ReadInv'
<1>1. jobs[t].at = "rules" /\ jobs[t] \in PassJob /\ jobs[t].todo # <<>>
  BY JobOf, HeadTyped DEF Rules, PassAt, AsksAt
<1>2. QED
  BY <1>1, OnwardTyped, SamePass DEF Rules, history

LEMMA SettleRead == ASSUME Sound, ReadInv, NEW t \in Thread, Settle(t) PROVE ReadInv'
<1> DEFINE x == [jobs[t] EXCEPT !.at = "link"]
<1>1. jobs[t].at = "settle" /\ jobs[t] \in PassJob
  BY JobOf DEF Settle, PassAt
<1>2. x.at = "link" /\ x.day = jobs[t].day
  BY <1>1 DEF PassJob
<1>3. QED
  BY <1>1, <1>2, SamePass DEF Settle, history

LEMMA LinkRead == ASSUME Sound, ReadInv, NEW t \in Thread, Link(t) PROVE ReadInv'
<1> DEFINE x == [jobs[t] EXCEPT !.at = "end"]
<1>1. jobs[t].at = "link" /\ jobs[t] \in PassJob
  BY JobOf DEF Link, PassAt
<1>2. rows' = LinkedFrom(EarliestStart) /\ UNCHANGED <<today, bank, since, ahead, others>>
  BY DEF Link, history
<1>3. CASE Become(t, x)
  <2>1. x.at = "end" /\ x.day = jobs[t].day
    BY <1>1 DEF PassJob
  <2>2. QED
    BY <1>1, <1>2, <1>3, <2>1, SamePass
<1>4. CASE Become(t, Idle)
  BY <1>2, <1>4, OtherJob DEF Idle, PassAt
<1>5. QED
  BY <1>3, <1>4 DEF Link

\* A job ends, or goes on with a period.
LEMMA EndRead == ASSUME Sound, ReadInv, NEW t \in Thread, End(t) \/ Fail(t) PROVE ReadInv'
<1>1. Become(t, Idle) /\ UNCHANGED <<today, bank, rows, since, ahead, others>>
  BY DEF End, Fail, history
<1>2. QED
  BY <1>1, OtherJob DEF Idle, PassAt

LEMMA AskPeriodRead ==
    ASSUME Sound, ReadInv, NEW t \in Thread, NEW p \in Periods, AskPeriod(t, p)
    PROVE  ReadInv'
<1> DEFINE x == [at |-> "ask", account |-> p.account, from |-> p.from, to |-> p.to,
                 preview |-> p.preview, start |-> p.from, width |-> Width,
                 asked |-> None, windows |-> <<>>]
<1>1. Become(t, x) /\ UNCHANGED <<today, bank, rows, since, ahead, others>>
  BY DEF AskPeriod, history
<1>2. x.at \notin PassAt
  BY DEF PassAt
<1>3. QED
  BY <1>1, <1>2, OtherJob

LEMMA AskWindowRead == ASSUME Sound, ReadInv, NEW t \in Thread, AskWindow(t) PROVE ReadInv'
<1> DEFINE j == jobs[t]
<1>1. j.at = "ask" /\ j \in PeriodJob /\ UNCHANGED <<today, bank, rows, since, ahead, others>>
  BY JobOf DEF AskWindow, history
<1>2. \A to, width, w : After(j, to, width, w).at \in {"ask", "write"}
  BY <1>1 DEF After, PeriodJob
<1>3. Halved(j).at = "ask" /\ PeriodLimited(j).at = "write" /\ Idle.at = "idle"
  BY <1>1 DEF Halved, PeriodLimited, PeriodJob, Idle
<1>4. PICK x : Become(t, x) /\ x.at \in {"ask", "write", "idle"}
  <2>1. /\ WindowRead(j).at \in {"ask", "write"} /\ WindowLost(j).at \in {"ask", "write"}
        /\ WindowRefused(j).at \in {"ask", "write"}
    BY <1>2 DEF WindowRead, WindowLost, WindowRefused
  <2>2. \/ Become(t, WindowRead(j)) \/ Become(t, WindowLost(j)) \/ Become(t, Halved(j))
        \/ Become(t, WindowRefused(j)) \/ Become(t, PeriodLimited(j)) \/ Become(t, Idle)
    BY DEF AskWindow
  <2>3. QED
    BY <1>3, <2>1, <2>2
<1>5. QED
  BY <1>1, <1>4, OtherJob DEF PassAt

LEMMA PeriodWrittenRead ==
    ASSUME Sound, ReadInv, NEW t \in Thread, PeriodWritten(t) PROVE ReadInv'
<1>1. /\ UNCHANGED <<today, bank, rows, since, ahead, others>>
      /\ \/ Become(t, Idle)
         \/ Become(t, [at |-> "period rules", from |-> jobs[t].from])
  BY DEF PeriodWritten, history
<1>2. QED
  BY <1>1, OtherJob DEF Idle, PassAt

LEMMA PeriodRulesRead ==
    ASSUME Sound, ReadInv, NEW t \in Thread, PeriodRules(t) \/ PeriodLink(t) PROVE ReadInv'
<1>1. CASE PeriodRules(t)
  <2>1. jobs[t].at = "period rules" /\ jobs[t] \in TailJob
    BY <1>1, JobOf DEF PeriodRules
  <2>2. [jobs[t] EXCEPT !.at = "period link"].at = "period link"
    BY <2>1 DEF TailJob
  <2>3. QED
    BY <1>1, <2>2, OtherJob DEF PeriodRules, PassAt, history
<1>2. CASE PeriodLink(t)
  BY <1>2, OtherJob DEF PeriodLink, Idle, PassAt, history
<1>3. QED
  BY <1>1, <1>2

LEMMA StopRead == ASSUME Sound, ReadInv, NEW p \in Processes, Stop(p) PROVE ReadInv'
<1>1. /\ \A t \in Thread : jobs'[t] = Idle \/ jobs'[t] = jobs[t]
      /\ UNCHANGED <<today, bank, rows, since, ahead, others>>
  BY DEF Stop, history
<1>2. Idle.at \notin {"fetch", "record"} /\ Idle \notin PassJob
  BY NotPass DEF Idle, PassAt
<1>3. \A m \in Movement : rows[m] = None <=> rows'[m] = None
  BY <1>1
<1>4. ASSUME NEW t \in Thread PROVE PassInv(jobs[t])'
  <2>1. PICK k : k = jobs'[t]
    OBVIOUS
  <2>2. PassInv(k)
    <3>1. CASE k = Idle
      BY <1>2, <3>1, NothingAnswered
    <3>2. CASE k = jobs[t]
      BY <3>2 DEF ReadInv
    <3>3. QED
      BY <1>1, <2>1, <3>1, <3>2
  <2>3. PassInv(k)'
    BY <1>1, <1>3, <2>2, Untouched
  <2>4. QED
    BY <2>1, <2>3 DEF PassInv, AsksEnough, GotOf, Answered
<1>5. \A a \in Account \ ahead' : Behind(a)'
  BY <1>1, <1>3, Untouched DEF ReadInv
<1>6. QED
  BY <1>1, <1>2, <1>4, <1>5 DEF ReadInv

\* No job and no movement is touched.
LEMMA StillRead ==
    ASSUME Sound, ReadInv, UNCHANGED <<bank, rows, jobs, since, ahead, others>>,
           \A d \in Int : d <= today => d <= today'
    PROVE  ReadInv'
<1>1. ASSUME NEW t \in Thread PROVE PassInv(jobs[t])'
  <2>1. PICK k : k = jobs[t]
    OBVIOUS
  <2>2. PassInv(k)'
    BY <2>1, Untouched DEF ReadInv
  <2>3. QED
    BY <2>1, <2>2 DEF PassInv, AsksEnough, GotOf, Answered
<1>2. \A a \in Account \ ahead' : Behind(a)'
  BY Untouched DEF ReadInv
<1>3. /\ \A m \in Movement : bank[m] # None => bank[m] \in Int
      /\ \A t \in Thread : jobs[t] \in PassJob => jobs[t].day \in Int
      /\ \A a \in Account : others[a] # None => others[a] \in Int
  BY StoreTyped DEF Sound, StoreOK, Day, PassJob
<1>4. QED
  BY <1>1, <1>2, <1>3 DEF ReadInv

LEMMA TickRead == ASSUME Sound, ReadInv, Tick PROVE ReadInv'
<1>1. today \in Int /\ today' = today + 1
  BY StoreTyped DEF Tick, Sound, StoreOK, Day
<1>2. QED
  BY <1>1, StillRead DEF Tick, history

LEMMA LateRead == ASSUME Sound, ReadInv, Late \/ UNCHANGED vars PROVE ReadInv'
BY StillRead DEF Late, vars, history

-----------------------------------------------------------------------------
(* The steps that read, record and book.                                   *)

\* Two threads at once in a pass: then the first reads begin at the start dates.
LEMMA TwoThenDated ==
    ASSUME Sound, OneFirstRead, NEW t \in Thread, NEW u \in Thread, t # u,
           Syncing(t), Syncing(u)
    PROVE  \A a \in Account : StartDate[a] # None
BY DEF Sound, JobsInv, OneAtATime, OneFirstRead

\* What is asked begins at or before whatever is missing.
LEMMA AskedFromBefore ==
    ASSUME Sound, ReadInv, NEW t \in Thread, Fetched(t), Head(jobs[t].todo) \notin ahead
    PROVE  LET a == Head(jobs[t].todo)
           IN  /\ since'[a] # None
               /\ \A m \in Missing(a) : bank[m] >= since'[a] => bank[m] >= jobs[t].from
<1> DEFINE j == jobs[t]
           a == Head(j.todo)
<1>1. /\ j.at = "fetch" /\ j \in PassJob /\ a \in Account /\ j.from \in Day
  BY JobOf, HeadTyped DEF Fetched, PassAt, AsksAt, PassJob
<1>2. /\ since' = [since EXCEPT ![a] = IF Cursor(a) = None THEN j.from ELSE @]
      /\ since \in [Account -> Day \cup {None}]
  BY StoreTyped DEF Fetched, Sound, StoreOK
<1>3. AsksEnough(j, a) /\ Behind(a)
  BY <1>1 DEF ReadInv, PassInv
<1>4. \A m \in Missing(a) : bank[m] \in Day
  BY StoreTyped DEF Missing, Sound, StoreOK
<1>5. CASE Cursor(a) = None
  <2>1. since'[a] = j.from /\ j.from # None
    BY <1>1, <1>2, <1>5, StartAssumption
  <2>2. QED
    BY <2>1
<1>6. CASE Cursor(a) # None
  <2>1. since'[a] = since[a] /\ since[a] # None /\ since[a] \in Day
    BY <1>1, <1>2, <1>3, <1>6 DEF Behind
  <2>2. Cursor(a) \in Day
    BY <1>1, <1>6, CursorFacts DEF Sound
  <2>3. ASSUME NEW m \in Missing(a), bank[m] >= since[a]
        PROVE  bank[m] >= j.from
    <3>1. bank[m] >= Cursor(a) - Overlap /\ bank[m] \in Day
      BY <1>3, <1>4, <1>6, <2>3 DEF Behind
    <3>2. CASE j.from <= 1
      BY <1>1, <3>1, <3>2 DEF Day
    <3>3. CASE j.from <= Cursor(a) - Overlap
      BY <1>1, <2>2, <3>1, <3>3, WindowAssumption DEF Day
    <3>4. CASE StartDate[a] # None /\ j.from <= StartDate[a]
      <4>1. since[a] = StartDate[a]
        BY <1>3, <2>1, <3>4 DEF Behind
      <4>2. QED
        BY <1>1, <2>1, <2>3, <3>1, <3>4, <4>1 DEF Day
    <3>5. QED
      BY <1>3, <1>6, <3>2, <3>3, <3>4 DEF AsksEnough
  <2>4. QED
    BY <2>1, <2>3
<1>7. QED
  BY <1>5, <1>6

LEMMA FetchedRead ==
    ASSUME Sound, ReadInv, OneFirstRead, NEW t \in Thread, Fetched(t) PROVE ReadInv'
<1>a. PICK a : a = Head(jobs[t].todo)
  OBVIOUS
<1> DEFINE j == jobs[t]
           got == InBank(a, j.from, j.day)
<1>x. PICK x : x = [j EXCEPT !.at = "record", !.got = got]
  OBVIOUS
<1>1. /\ j.at = "fetch" /\ j \in PassJob /\ a \in Account /\ j.from \in Day /\ j.day \in Day
      /\ Syncing(t) /\ j.day <= today
  BY <1>a, JobOf, HeadTyped DEF Fetched, PassAt, AsksAt, PassJob, ReadInv
<1>2. Become(t, x) /\ UNCHANGED <<today, bank, rows, others, ahead>>
  BY <1>a, <1>x DEF Fetched
<1>3. since' = [since EXCEPT ![a] = IF Cursor(a) = None THEN j.from ELSE @]
      /\ since \in [Account -> Day \cup {None}]
  BY <1>a, StoreTyped DEF Fetched, Sound, StoreOK
<1>4. /\ x.at = "record" /\ Head(x.todo) = a /\ x.day = j.day /\ x.got = got
  BY <1>1, <1>a, <1>x DEF PassJob
<1>5. \A b : Cursor(b)' = Cursor(b) /\ Missing(b)' = Missing(b)
  BY <1>2 DEF Cursor, Missing
<1>6. ASSUME NEW b \in Account, b # a \/ Cursor(b) # None \/ since[b] = j.from
      PROVE  since'[b] = since[b]
  BY <1>3, <1>6
<1>7. a \notin ahead => AsksEnough(j, a) /\ Behind(a)
  BY <1>1, <1>a DEF ReadInv, PassInv
<1>8. PassInv(x)'
  <2>1. GotOf(x, a)'
    <3>1. \A m \in got : AccountOf[m] = a /\ bank[m] # None /\ bank[m] <= j.day
      BY DEF InBank
    <3>2. QED
      BY <1>2, <1>4, <3>1 DEF GotOf
  <2>2. a \notin ahead => Answered(x, a)'
    <3>1. SUFFICES ASSUME a \notin ahead PROVE Answered(x, a)'
      OBVIOUS
    <3>2. /\ since'[a] # None
          /\ \A m \in Missing(a) : bank[m] >= since'[a] => bank[m] >= j.from
      BY <1>a, <3>1, AskedFromBefore
    <3>3. ASSUME NEW m \in Missing(a) \ got, bank[m] >= since'[a]
          PROVE  bank[m] >= j.day - Overlap
      <4>1. bank[m] >= j.from /\ bank[m] \in Day
        BY <3>2, <3>3, StoreTyped DEF Missing, Sound, StoreOK
      <4>2. ~(bank[m] <= j.day)
        BY <3>3, <4>1 DEF Missing, InBank, Day
      <4>3. QED
        BY <1>1, <4>1, <4>2, WindowAssumption DEF Day
    <3>4. QED
      BY <1>2, <1>4, <1>5, <3>2, <3>3 DEF Answered
  <2>3. QED
    BY <1>2, <1>4, <2>1, <2>2 DEF PassInv
<1>9. ASSUME NEW u \in Thread \ {t}, NEW k, k = jobs[u], PassInv(k) PROVE PassInv(k)'
  <2> DEFINE b == Head(k.todo)
  <2>1. \A c : (AsksEnough(k, c) => AsksEnough(k, c)') /\ (GotOf(k, c) => GotOf(k, c)')
    BY <1>2, <1>5 DEF AsksEnough, GotOf
  <2>2. ASSUME k.at = "record", b \notin ahead, Answered(k, b) PROVE Answered(k, b)'
    <3>1. k \in PassJob /\ Syncing(u) /\ b \in Account
      BY <1>9, <2>2, JobOf, HeadTyped DEF PassAt, AsksAt
    <3>2. since[b] # None
      BY <2>2 DEF Answered
    <3>3. since'[b] = since[b]
      <4>1. CASE b = a /\ Cursor(a) = None
        <5>1. StartDate[a] # None
          BY <1>1, <1>9, <3>1, TwoThenDated
        <5>2. since[a] = StartDate[a] /\ j.from = StartDate[a]
          BY <1>7, <2>2, <3>2, <4>1, <5>1 DEF AsksEnough, Behind
        <5>3. QED
          BY <1>6, <3>1, <4>1, <5>2
      <4>2. QED
        BY <1>6, <3>1, <4>1
    <3>4. QED
      BY <1>2, <1>5, <2>2, <3>3 DEF Answered
  <2>3. QED
    BY <1>2, <1>9, <2>1, <2>2 DEF PassInv
<1>10. ASSUME NEW b \in Account \ ahead' PROVE Behind(b)'
  <2>1. Behind(b) /\ b \notin ahead
    BY <1>2, <1>10 DEF ReadInv
  <2>2. CASE b = a /\ Cursor(a) = None
    <3>1. since'[a] = j.from
      BY <1>1, <1>3, <2>2
    <3>2. StartDate[a] # None => j.from = StartDate[a]
      BY <1>7, <2>1, <2>2 DEF AsksEnough
    <3>3. QED
      BY <1>5, <2>2, <3>1, <3>2 DEF Behind
  <2>3. CASE b # a \/ Cursor(b) # None
    BY <1>2, <1>5, <1>6, <1>10, <2>1, <2>3 DEF Behind
  <2>4. QED
    BY <2>2, <2>3
<1>11. x \in PassJob => x.day <= today
  BY <1>1, <1>4
<1>12. QED
  BY <1>2, <1>8, <1>9, <1>10, <1>11, ReadBecome

\* Movements reach the ledger and no account's cursor moves.
LEMMA SameCursor ==
    ASSUME TypeOK, TypeOK', UNCHANGED <<bank, since>>, NEW b \in Account,
           \A m \in Movement : rows[m] # None => rows'[m] # None, Cursor(b)' = Cursor(b)
    PROVE  /\ Behind(b) => Behind(b)'
           /\ \A k : AsksEnough(k, b) => AsksEnough(k, b)'
           /\ \A k : Answered(k, b) => Answered(k, b)'
<1>1. Missing(b)' \subseteq Missing(b)
  BY DEF Missing
<1>2. QED
  BY <1>1 DEF Behind, AsksEnough, Answered

\* What is recorded is in the ledger then, and nothing leaves it.
LEMMA RecordedRows ==
    ASSUME StoreOK, NEW ms \in SUBSET Movement, rows' = Recorded(ms)
    PROVE  /\ \A m \in Movement : rows[m] # None => rows'[m] # None
           /\ \A m \in ms : rows'[m] # None
           /\ \A m \in Movement \ ms : rows'[m] = rows[m]
<1>1. [ruled |-> FALSE, linked |-> FALSE] # None
  <2>1. [ruled |-> FALSE, linked |-> FALSE] \in RowState
    BY DEF RowState
  <2>2. QED
    BY <2>1, StartAssumption
<1>2. QED
  BY <1>1 DEF Recorded

\* A batch of one account moves that account's cursor only.
LEMMA OthersCursor ==
    ASSUME UNCHANGED <<bank, others>>, NEW a \in Account, NEW b \in Account, b # a,
           \A m \in Movement : AccountOf[m] # a => rows'[m] = rows[m]
    PROVE  Cursor(b)' = Cursor(b)
<1>1. Days(b)' = Days(b)
  BY DEF Days
<1>2. Cursor(b) = IF Days(b) = {} THEN None ELSE Max(Days(b))
  BY DEF Cursor, Days
<1>3. Cursor(b)' = IF Days(b)' = {} THEN None ELSE Max(Days(b)')
  BY DEF Cursor, Days
<1>4. QED
  BY <1>1, <1>2, <1>3

LEMMA RecordRead ==
    ASSUME Sound, Sound', ReadInv, OneFirstRead, NEW t \in Thread, Record(t) PROVE ReadInv'
<1>a. PICK a : a = Head(jobs[t].todo)
  OBVIOUS
<1> DEFINE j == jobs[t]
<1>x. PICK x : x = [j EXCEPT !.at = "read"]
  OBVIOUS
<1>1. /\ j.at = "record" /\ j \in PassJob /\ a \in Account /\ j.day \in Day
      /\ Syncing(t) /\ j.day <= today
  BY <1>a, JobOf, HeadTyped DEF Record, PassAt, AsksAt, PassJob, ReadInv
<1>2. Become(t, x) /\ rows' = Recorded(j.got) /\ UNCHANGED <<today, bank, since, ahead, others>>
  BY <1>a, <1>x DEF Record, history
<1>3. /\ \A m \in Movement : rows[m] # None => rows'[m] # None
      /\ \A m \in j.got : rows'[m] # None
      /\ \A m \in Movement \ j.got : rows'[m] = rows[m]
  BY <1>1, <1>2, RecordedRows, StoreTyped DEF Sound, PassJob
<1>4. \A m \in j.got : m \in Movement /\ AccountOf[m] = a /\ bank[m] # None /\ bank[m] <= j.day
  BY <1>1, <1>a DEF ReadInv, PassInv, GotOf, PassJob
<1>5. a \notin ahead => Answered(j, a) /\ Behind(a)
  BY <1>1, <1>a DEF ReadInv, PassInv
<1>6. \A b \in Account \ {a} : Cursor(b)' = Cursor(b)
  BY <1>1, <1>2, <1>3, <1>4, OthersCursor
<1>7. TypeOK /\ TypeOK'
  BY DEF Sound
<1>8. \A b \in Account : /\ Missing(b)' \subseteq Missing(b)
                         /\ Cursor(b) # None => Cursor(b)' # None /\ Cursor(b) <= Cursor(b)'
  BY <1>2, <1>3, <1>7, CursorGrows
<1>9. a \notin ahead => Behind(a)'
  <2>1. SUFFICES ASSUME a \notin ahead, Cursor(a)' # None
                 PROVE  \A m \in Missing(a)' : bank[m] >= since[a] => bank[m] >= Cursor(a)' - Overlap
    BY <1>2, <1>5 DEF Behind, Answered
  <2>2. Cursor(a)' \in Days(a)' /\ Cursor(a)' \in Day
    BY <1>1, <1>7, <2>1, CursorFactsNext
  <2>3. (\E n \in j.got : bank[n] = Cursor(a)') \/ Cursor(a)' \in Days(a)
    BY <1>2, <1>3, <2>2 DEF Days
  <2>4. SUFFICES ASSUME NEW m \in Missing(a)', bank[m] >= since[a]
                 PROVE  bank[m] >= Cursor(a)' - Overlap
    OBVIOUS
  <2>5. m \in Missing(a) \ j.got /\ bank[m] \in Day
    BY <1>2, <1>3, <1>7, <1>8, <1>1, <2>4 DEF Missing, TypeOK
  <2>6. ASSUME NEW n \in j.got, bank[n] = Cursor(a)' PROVE bank[m] >= Cursor(a)' - Overlap
    <3>1. bank[m] >= j.day - Overlap
      BY <1>5, <2>1, <2>4, <2>5 DEF Answered
    <3>2. bank[n] <= j.day
      BY <1>4, <2>6
    <3>3. QED
      BY <1>1, <2>2, <2>5, <2>6, <3>1, <3>2, WindowAssumption DEF Day
  <2>7. CASE Cursor(a)' \in Days(a)
    <3>1. Cursor(a) \in Day /\ Cursor(a) # None /\ Cursor(a)' <= Cursor(a)
      BY <1>1, <1>7, <2>7, CursorFacts
    <3>2. bank[m] >= Cursor(a) - Overlap
      BY <1>5, <2>1, <2>4, <2>5, <3>1 DEF Behind
    <3>3. QED
      BY <2>2, <2>5, <3>1, <3>2, WindowAssumption DEF Day
  <2>8. QED
    BY <2>3, <2>6, <2>7
<1>10. \A b \in Account \ ahead' : Behind(b)'
  <2>1. \A b \in Account \ {a} : Behind(b) => Behind(b)'
    BY <1>2, <1>3, <1>6, <1>7, SameCursor
  <2>2. QED
    BY <1>2, <1>9, <2>1 DEF ReadInv
<1>11. ASSUME NEW u \in Thread \ {t}, NEW k, k = jobs[u], PassInv(k) PROVE PassInv(k)'
  <2> DEFINE b == Head(k.todo)
  <2>1. GotOf(k, b) => GotOf(k, b)'
    BY <1>2 DEF GotOf
  <2>2. ASSUME k.at = "fetch", AsksEnough(k, b) PROVE AsksEnough(k, b)'
    <3>1. k \in PassJob /\ Syncing(u) /\ b \in Account /\ k.from \in Day
      BY <1>11, <2>2, JobOf, HeadTyped DEF PassAt, AsksAt, PassJob
    <3>2. CASE Cursor(b)' = None
      BY <1>8, <2>2, <3>1, <3>2 DEF AsksEnough
    <3>3. CASE Cursor(b)' # None /\ Cursor(b) # None
      <4>1. Cursor(b) \in Day /\ Cursor(b)' \in Day /\ Cursor(b) <= Cursor(b)'
        BY <1>7, <1>8, <3>1, <3>3, CursorFacts, CursorFactsNext
      <4>2. k.from <= Cursor(b) - Overlap => k.from <= Cursor(b)' - Overlap
        BY <3>1, <4>1, WindowAssumption DEF Day
      <4>3. QED
        BY <2>2, <3>3, <4>2 DEF AsksEnough
    <3>4. CASE Cursor(b)' # None /\ Cursor(b) = None
      <4>1. b = a
        BY <1>6, <3>1, <3>4
      <4>2. StartDate[b] # None
        BY <1>1, <1>11, <3>1, TwoThenDated
      <4>3. k.from = StartDate[b]
        BY <2>2, <3>4, <4>2 DEF AsksEnough
      <4>4. QED
        BY <3>1, <3>4, <4>2, <4>3 DEF AsksEnough, Day
    <3>5. QED
      BY <3>2, <3>3, <3>4
  <2>3. ASSUME k.at = "record", Answered(k, b) PROVE Answered(k, b)'
    <3>1. b \in Account
      BY <1>11, <2>3, JobOf, HeadTyped DEF PassAt, AsksAt
    <3>2. QED
      BY <1>2, <1>8, <2>3, <3>1 DEF Answered
  <2>4. QED
    BY <1>2, <1>11, <2>1, <2>2, <2>3 DEF PassInv
<1>12. x.at = "read" /\ (x \in PassJob => x.day <= today)
  BY <1>1, <1>x DEF PassJob
<1>13. PassInv(x)'
  BY <1>12 DEF PassInv
<1>14. QED
  BY <1>2, <1>10, <1>11, <1>12, <1>13, ReadBecome

\* A period writes behind the cursor, or is known to have written ahead of it.
LEMMA WriteWindowRead ==
    ASSUME Sound, Sound', ReadInv, NEW t \in Thread, WriteWindow(t) PROVE ReadInv'
<1> DEFINE j == jobs[t]
           got == Head(j.windows).got
<1>a. PICK a : a = j.account
  OBVIOUS
<1>x. PICK x : x = [j EXCEPT !.windows = Tail(@)]
  OBVIOUS
<1>1. j.at = "write" /\ j \in PeriodJob /\ Booked(j) /\ a \in Account
  BY <1>a, JobOf DEF WriteWindow, PeriodJob
<1>2. Become(t, x) /\ rows' = Recorded(got) /\ UNCHANGED <<today, bank, others, since>>
  BY <1>x DEF WriteWindow
<1>3. got \in SUBSET Movement /\ \A m \in got : AccountOf[m] = a /\ bank[m] # None
  <2>1. j.windows \in Seq(Window) /\ j.windows # <<>>
    BY <1>1 DEF PeriodJob, WriteWindow
  <2>2. 1 \in DOMAIN j.windows /\ Head(j.windows) = j.windows[1] /\ j.windows[1] \in Window
    BY <2>1, EmptySeq
  <2>3. QED
    BY <1>1, <1>a, <2>2 DEF Booked, Window
<1>4. /\ \A m \in Movement : rows[m] # None => rows'[m] # None
      /\ \A m \in got : rows'[m] # None
      /\ \A m \in Movement \ got : rows'[m] = rows[m]
  BY <1>2, <1>3, RecordedRows, StoreTyped DEF Sound
<1> DEFINE newer == {m \in got : rows[m] = None /\ (Cursor(a) = None \/ bank[m] > Cursor(a))}
<1>5. ahead' = IF newer = {} THEN ahead ELSE ahead \cup {a}
  BY <1>a DEF WriteWindow
<1>6. TypeOK /\ TypeOK'
  BY DEF Sound
<1>7. ASSUME NEW b \in Account \ ahead' PROVE Cursor(b)' = Cursor(b) /\ b \notin ahead
  <2>1. CASE b # a
    BY <1>1, <1>2, <1>3, <1>4, <1>5, <1>7, <2>1, OthersCursor
  <2>2. CASE b = a
    <3>1. newer = {} /\ b \notin ahead
      BY <1>5, <1>7, <2>2
    <3> HIDE DEF got
    <3>2. CASE Cursor(a) = None
      <4>1. \A m \in Movement : rows[m] # None <=> rows'[m] # None
        BY <1>3, <1>4, <3>1, <3>2
      <4>2. Days(a)' = Days(a)
        BY <1>2, <4>1 DEF Days
      <4>3. Cursor(a)' = None
        BY <1>1, <1>6, <3>2, <4>2, CursorFacts, CursorFactsNext
      <4>4. QED
        BY <2>2, <3>1, <3>2, <4>3
    <3>3. CASE Cursor(a) # None
      <4>1. /\ Cursor(a) \in Days(a) /\ Cursor(a) \in Day /\ \A d \in Days(a) : d <= Cursor(a)
        BY <1>1, <1>6, <3>3, CursorFacts
      <4>2. Cursor(a)' # None /\ Cursor(a) <= Cursor(a)'
        BY <1>1, <1>2, <1>4, <1>6, <3>3, CursorGrows
      <4>3. Cursor(a)' \in Days(a)' /\ Cursor(a)' \in Day
        BY <1>1, <1>6, <4>2, CursorFactsNext
      <4>4. \/ Cursor(a)' \in Days(a)
            \/ \E m \in got : rows[m] = None /\ bank[m] = Cursor(a)'
        BY <1>2, <1>4, <4>3 DEF Days
      <4>5. Cursor(a)' <= Cursor(a)
        <5>1. CASE Cursor(a)' \in Days(a)
          BY <4>1, <5>1
        <5>2. ASSUME NEW m \in got, rows[m] = None, bank[m] = Cursor(a)'
              PROVE  Cursor(a)' <= Cursor(a)
          <6>1. ~(bank[m] > Cursor(a))
            BY <3>1, <5>2
          <6>2. QED
            BY <4>1, <4>3, <5>2, <6>1 DEF Day
        <5>3. QED
          BY <4>4, <5>1, <5>2
      <4>6. QED
        BY <2>2, <3>1, <4>1, <4>2, <4>3, <4>5 DEF Day
    <3>4. QED
      BY <3>2, <3>3
  <2>3. QED
    BY <2>1, <2>2
<1> HIDE DEF got, newer
<1>8. \A b \in Account \ ahead' : /\ Behind(b) => Behind(b)'
                                  /\ \A k : AsksEnough(k, b) => AsksEnough(k, b)'
                                  /\ \A k : Answered(k, b) => Answered(k, b)'
  BY <1>2, <1>4, <1>6, <1>7, SameCursor
<1>9. \A b \in Account \ ahead' : Behind(b)'
  BY <1>7, <1>8 DEF ReadInv
<1>10. ASSUME NEW u \in Thread \ {t}, NEW k, k = jobs[u], PassInv(k) PROVE PassInv(k)'
  <2> DEFINE b == Head(k.todo)
  <2>1. GotOf(k, b) => GotOf(k, b)'
    BY <1>2 DEF GotOf
  <2>2. k.at \in {"fetch", "record"} => b \in Account
    BY <1>10, JobOf, HeadTyped DEF PassAt, AsksAt
  <2>3. QED
    BY <1>7, <1>8, <1>10, <2>1, <2>2 DEF PassInv
<1>11. x.at = "write"
  BY <1>1, <1>x DEF PeriodJob
<1>12. PassInv(x)' /\ x \notin PassJob
  BY <1>11 DEF PassInv, PassJob, PassAt
<1>13. QED
  BY <1>2, <1>9, <1>10, <1>12, ReadBecome

\* A row from elsewhere is behind the cursor, or is known to be ahead of it.
LEMMA ElsewhereRead ==
    ASSUME Sound, Sound', ReadInv, NEW a \in Account, WriteElsewhere(a) PROVE ReadInv'
<1>1. PICK d \in 1..today :
        /\ others' = [others EXCEPT ![a] = Max({d} \cup ({@} \ {None}))]
        /\ ahead' = IF Cursor(a) = None \/ d > Cursor(a) THEN ahead \cup {a} ELSE ahead
  BY DEF WriteElsewhere
<1>2. TypeOK /\ TypeOK' /\ today \in Day /\ d \in Day /\ UNCHANGED <<today, bank, rows, jobs, since>>
  <2>1. TypeOK /\ TypeOK' /\ today \in Day
    BY StoreTyped DEF Sound, StoreOK
  <2>2. d \in Day
    BY <1>1, <2>1, WindowAssumption DEF Day
  <2>3. QED
    BY <2>1, <2>2 DEF WriteElsewhere
<1>3. /\ others'[a] \in {d, others[a]} /\ others'[a] \in Day /\ d <= others'[a]
      /\ others[a] # None => others[a] <= others'[a]
      /\ \A b \in Account \ {a} : others'[b] = others[b]
  BY <1>1, <1>2, NewestElsewhere, StoreTyped DEF Sound
<1>4. ASSUME NEW b \in Account \ ahead' PROVE Cursor(b)' = Cursor(b) /\ b \notin ahead
  <2>1. Cursor(b)' = IF Days(b)' = {} THEN None ELSE Max(Days(b)')
    BY DEF Cursor, Days
  <2>2. Cursor(b) = IF Days(b) = {} THEN None ELSE Max(Days(b))
    BY DEF Cursor, Days
  <2>3. CASE b # a
    <3>1. Days(b)' = Days(b)
      BY <1>2, <1>3, <2>3 DEF Days
    <3>2. QED
      BY <1>1, <1>4, <2>1, <2>2, <3>1
  <2>4. CASE b = a
    <3>1. Cursor(a) # None /\ ~(d > Cursor(a)) /\ b \notin ahead
      BY <1>1, <1>4, <2>4
    <3>2. /\ Cursor(a) \in Days(a) /\ Cursor(a) \in Day /\ \A e \in Days(a) : e <= Cursor(a)
      BY <1>2, <3>1, CursorFacts
    <3>3. others'[a] <= Cursor(a)
      <4>1. CASE others'[a] = d
        BY <1>2, <3>1, <3>2, <4>1 DEF Day
      <4>2. CASE others'[a] = others[a]
        BY <1>3, <3>2, <4>2, StartAssumption DEF Days
      <4>3. QED
        BY <1>3, <4>1, <4>2
    <3>4. Cursor(a) \in Days(a)'
      <4>1. CASE Cursor(a) = others[a]
        <5>1. others'[a] = Cursor(a)
          BY <1>3, <3>1, <3>2, <3>3, <4>1 DEF Day
        <5>2. QED
          BY <3>1, <5>1 DEF Days
      <4>2. CASE Cursor(a) # others[a]
        BY <1>2, <3>2, <4>2 DEF Days
      <4>3. QED
        BY <4>1, <4>2
    <3>5. \A e \in Days(a)' : e <= Cursor(a)
      BY <1>2, <3>2, <3>3 DEF Days
    <3>6. Cursor(a)' \in Days(a)' /\ Cursor(a)' \in Day /\ Cursor(a) <= Cursor(a)'
      BY <1>2, <3>4, CursorFactsNext
    <3>7. QED
      BY <2>4, <3>1, <3>2, <3>5, <3>6 DEF Day
  <2>5. QED
    BY <2>3, <2>4
<1>5. \A b \in Account \ ahead' : /\ Behind(b) => Behind(b)'
                                  /\ \A k : AsksEnough(k, b) => AsksEnough(k, b)'
                                  /\ \A k : Answered(k, b) => Answered(k, b)'
  BY <1>2, <1>4, SameCursor
<1>6. \A b \in Account \ ahead' : Behind(b)'
  BY <1>4, <1>5 DEF ReadInv
<1>7. ASSUME NEW t \in Thread PROVE PassInv(jobs[t])'
  <2>1. PICK k : k = jobs[t]
    OBVIOUS
  <2> DEFINE b == Head(k.todo)
  <2>2. PassInv(k)
    BY <2>1 DEF ReadInv
  <2>3. GotOf(k, b) => GotOf(k, b)'
    BY <1>2 DEF GotOf
  <2>4. k.at \in {"fetch", "record"} => b \in Account
    BY <2>1, JobOf, HeadTyped DEF PassAt, AsksAt
  <2>5. PassInv(k)'
    BY <1>4, <1>5, <2>2, <2>3, <2>4 DEF PassInv
  <2>6. QED
    BY <1>2, <2>1, <2>5 DEF PassInv, AsksEnough, GotOf, Answered
<1>8. \A b \in Account : others'[b] # None => others'[b] <= today
  BY <1>2, <1>3 DEF ReadInv, Day
<1>9. QED
  BY <1>2, <1>6, <1>7, <1>8 DEF ReadInv

\* A bank books late by no more than the overlap.
LEMMA BookRead ==
    ASSUME Sound, Sound', ReadInv, NEW n \in Movement, Book(n) PROVE ReadInv'
<1>1. PICK d \in Day : today - Overlap <= d /\ d <= today /\ bank' = [bank EXCEPT ![n] = d]
  BY DEF Book
<1>2. /\ UNCHANGED <<today, rows, jobs, since, ahead, others>> /\ bank[n] = None
      /\ bank \in [Movement -> Day \cup {None}] /\ rows[n] = None /\ today \in Day /\ d # None
  BY StartAssumption, StoreTyped DEF Book, history, Sound, StoreOK
<1>3. /\ bank'[n] = d /\ \A m \in Movement \ {n} : bank'[m] = bank[m]
      /\ \A m \in Movement : bank[m] # None => bank'[m] = bank[m]
  BY <1>1, <1>2
<1>4. ASSUME NEW a \in Account
      PROVE  /\ Cursor(a)' = Cursor(a)
             /\ \A m \in Missing(a)' \ Missing(a) : m = n
             /\ \A m \in Missing(a) : bank'[m] = bank[m]
             /\ Cursor(a) # None => Cursor(a) \in Day /\ Cursor(a) <= today
  <2>1. Days(a)' = Days(a)
    BY <1>2, <1>3 DEF Days
  <2>2. Cursor(a) = IF Days(a) = {} THEN None ELSE Max(Days(a))
    BY DEF Cursor, Days
  <2>3. Cursor(a)' = IF Days(a)' = {} THEN None ELSE Max(Days(a)')
    BY DEF Cursor, Days
  <2>4. Cursor(a)' = Cursor(a)
    BY <2>1, <2>2, <2>3
  <2>5. /\ \A m \in Missing(a)' \ Missing(a) : m = n
        /\ \A m \in Missing(a) : bank'[m] = bank[m]
    BY <1>2, <1>3 DEF Missing
  <2>6. Cursor(a) # None => Cursor(a) \in Day /\ Cursor(a) <= today
    <3>1. \A e \in Days(a) : e <= today
      BY <1>4, <1>2, StoreTyped DEF Days, ReadInv, Sound, StoreOK
    <3>2. QED
      BY <3>1, CursorFacts DEF Sound
  <2>7. QED
    BY <2>4, <2>5, <2>6
<1>5. ASSUME NEW a \in Account \ ahead' PROVE Behind(a)'
  <2>1. Behind(a)
    BY <1>2, <1>5 DEF ReadInv
  <2>2. Cursor(a) # None => d >= Cursor(a) - Overlap
    BY <1>1, <1>2, <1>4, WindowAssumption DEF Day
  <2>3. ASSUME Cursor(a) # None, NEW m \in Missing(a)', bank'[m] >= since[a]
        PROVE  bank'[m] >= Cursor(a) - Overlap
    <3>1. CASE m \in Missing(a)
      BY <1>4, <2>1, <2>3, <3>1 DEF Behind
    <3>2. CASE m = n
      BY <1>3, <2>2, <2>3, <3>2
    <3>3. QED
      BY <1>4, <2>3, <3>1, <3>2
  <2>4. QED
    BY <1>2, <1>4, <2>1, <2>3 DEF Behind
<1>6. ASSUME NEW t \in Thread PROVE PassInv(jobs[t])'
  <2>1. PICK k : k = jobs[t]
    OBVIOUS
  <2> DEFINE b == Head(k.todo)
  <2>2. PassInv(k) /\ (k \in PassJob => k.day <= today)
    BY <2>1 DEF ReadInv
  <2>3. ASSUME k.at = "fetch", AsksEnough(k, b) PROVE AsksEnough(k, b)'
    <3>1. b \in Account
      BY <2>1, <2>3, JobOf, HeadTyped DEF PassAt, AsksAt
    <3>2. QED
      BY <1>4, <2>3, <3>1 DEF AsksEnough
  <2>4. ASSUME k.at = "record", GotOf(k, b) PROVE GotOf(k, b)'
    <3>1. k.got \subseteq Movement
      BY <2>1, <2>4, JobOf DEF PassAt, PassJob
    <3>2. QED
      BY <1>3, <2>4, <3>1 DEF GotOf
  <2>5. ASSUME k.at = "record", Answered(k, b) PROVE Answered(k, b)'
    <3>1. b \in Account /\ k \in PassJob /\ k.day \in Day /\ k.day <= today
      BY <2>1, <2>2, <2>5, JobOf, HeadTyped DEF PassAt, AsksAt, PassJob
    <3>2. d >= k.day - Overlap
      BY <1>1, <1>2, <3>1, WindowAssumption DEF Day
    <3>3. ASSUME NEW m \in Missing(b)' \ k.got, bank'[m] >= since[b]
          PROVE  bank'[m] >= k.day - Overlap
      <4>1. CASE m \in Missing(b)
        BY <1>4, <2>5, <3>1, <3>3, <4>1 DEF Answered
      <4>2. CASE m = n
        BY <1>3, <3>2, <4>2
      <4>3. QED
        BY <1>4, <3>1, <3>3, <4>1, <4>2
    <3>4. QED
      BY <1>2, <2>5, <3>3 DEF Answered
  <2>6. PassInv(k)'
    BY <1>2, <2>2, <2>3, <2>4, <2>5 DEF PassInv
  <2>7. QED
    BY <1>2, <2>1, <2>6 DEF PassInv, AsksEnough, GotOf, Answered
<1>7. \A m \in Movement : bank'[m] # None => bank'[m] <= today
  BY <1>1, <1>2, <1>3 DEF ReadInv
<1>8. QED
  BY <1>2, <1>5, <1>6, <1>7 DEF ReadInv

LEMMA WorkRead ==
    ASSUME Sound, Sound', ReadInv, OneFirstRead, NEW t \in Thread, Work(t) PROVE ReadInv'
BY DetailsRead, FetchedRead, NotFetchedRead, RecordRead, ReadRead, RulesRead, SettleRead,
   LinkRead, EndRead, AskWindowRead, WriteWindowRead, PeriodWrittenRead, PeriodRulesRead
   DEF Work

LEMMA NextRead ==
    ASSUME Sound, Sound', ReadInv, OneFirstRead, [Next]_vars PROVE ReadInv'
<1>1. CASE Wake \/ Decide \/ Tick \/ Late \/ UNCHANGED vars
  BY <1>1, WakeRead, DecideRead, TickRead, LateRead
<1>2. CASE \E t \in Thread :
              Work(t) \/ RunNow(t) \/ Fail(t) \/ \E p \in Periods : AskPeriod(t, p)
  BY <1>2, WorkRead, RunNowRead, EndRead, AskPeriodRead
<1>3. CASE \/ \E m \in Movement : Book(m)
           \/ \E a \in Account : WriteElsewhere(a)
           \/ \E p \in Processes : Stop(p)
  BY <1>3, BookRead, ElsewhereRead, StopRead
<1>4. QED
  BY <1>1, <1>2, <1>3 DEF Next

LEMMA InitRead == ASSUME Init PROVE ReadInv
<1>1. /\ \A m \in Movement : bank[m] = None /\ rows[m] = None
      /\ \A t \in Thread : jobs[t] = Idle
      /\ \A a \in Account : since[a] = None /\ others[a] = None
  BY DEF Init
<1>2. \A a \in Account : Cursor(a) = None
  <2>1. \A a \in Account : Days(a) = {}
    BY <1>1 DEF Days
  <2>2. QED
    BY <2>1, CursorFacts, InitSound DEF Sound
<1>3. \A a \in Account : Behind(a)
  BY <1>1, <1>2 DEF Behind
<1>4. Idle.at \notin {"fetch", "record"} /\ Idle \notin PassJob
  BY NotPass DEF Idle, PassAt
<1>5. \A t \in Thread : PassInv(jobs[t])
  BY <1>1, <1>4, NothingAnswered
<1>6. QED
  BY <1>1, <1>3, <1>4, <1>5 DEF ReadInv

\* Only a bank's answer makes a job that asks one that records.
LEMMA FetchedOnly ==
    ASSUME Sound, [Next]_vars, NEW t \in Thread,
           jobs[t].at = "fetch", jobs'[t].at = "record"
    PROVE  Fetched(t)
<1>1. \A u \in Thread \ {t} : \A x : Become(u, x) => jobs'[t] = jobs[t]
  BY DEF Become, Sound, JobsInv
<1>2. \A x : Become(t, x) => jobs'[t] = x
  BY DEF Become, Sound, JobsInv
<1>3. jobs[t] # Idle /\ jobs'[t] # Idle /\ jobs'[t] # jobs[t]
  BY DEF Idle
<1>4. CASE Wake \/ Decide
  <2>1. \E x : Become(Loop, x)
    BY <1>4 DEF Wake, Decide
  <2>2. Loop \in Thread /\ t # Loop
    BY <1>3, <1>4, ThreadAssumption DEF Wake, Decide
  <2>3. QED
    BY <1>1, <1>3, <2>1, <2>2
<1>5. CASE \/ Tick \/ Late \/ UNCHANGED vars \/ \E m \in Movement : Book(m)
           \/ \E a \in Account : WriteElsewhere(a)
  BY <1>3, <1>5 DEF Tick, Late, vars, Book, WriteElsewhere
<1>6. CASE \E p \in Processes : Stop(p)
  <2>1. jobs'[t] = Idle \/ jobs'[t] = jobs[t]
    BY <1>6 DEF Stop
  <2>2. QED
    BY <1>3, <2>1
<1>7. ASSUME NEW u \in Thread, RunNow(u) \/ Fail(u) \/ \E p \in Periods : AskPeriod(u, p)
      PROVE  FALSE
  <2>1. CASE Fail(u)
    BY <1>1, <1>2, <1>3, <2>1 DEF Fail
  <2>2. CASE RunNow(u) \/ \E p \in Periods : AskPeriod(u, p)
    <3>1. jobs[u] = Idle /\ \E x : Become(u, x)
      BY <2>2 DEF RunNow, AskPeriod, Ask
    <3>2. QED
      BY <1>1, <1>3, <3>1
  <2>3. QED
    BY <1>7, <2>1, <2>2
<1>8. ASSUME NEW u \in Thread, Work(u) PROVE Fetched(t)
  <2>1. CASE u # t
    <3>1. \E x : Become(u, x)
      BY <1>8 DEF Work, Details, Fetched, NotFetched, Record, Read, Rules, Settle, Link, End,
                  AskWindow, WriteWindow, PeriodWritten, PeriodRules, PeriodLink
    <3>2. QED
      BY <1>1, <1>3, <2>1, <3>1
  <2>2. CASE u = t
    <3>1. Fetched(t) \/ NotFetched(t)
      BY <1>8, <2>2 DEF Work, Details, Record, Read, Rules, Settle, Link, End,
                        AskWindow, WriteWindow, PeriodWritten, PeriodRules, PeriodLink
    <3>2. ~NotFetched(t)
      <4>1. SUFFICES ASSUME NotFetched(t) PROVE FALSE
        OBVIOUS
      <4>2. PICK refused : Become(t, Onward([jobs[t] EXCEPT !.told = @ \cup refused]))
        BY <4>1 DEF NotFetched
      <4>3. jobs[t] \in PassJob
        BY JobOf DEF PassAt
      <4>4. Onward([jobs[t] EXCEPT !.told = @ \cup refused]).at \in {"link", "details"}
        BY <4>3 DEF Onward, PassJob
      <4>5. QED
        BY <1>2, <4>2, <4>4
    <3>3. QED
      BY <3>1, <3>2
  <2>3. QED
    BY <2>1, <2>2
<1>9. QED
  BY <1>4, <1>5, <1>6, <1>7, <1>8 DEF Next

\* What is answered holds everything since the account was first read that the ledger
\* has not, when the first reads of an account cannot begin at different days: it has
\* a start date, or one process does all the syncing.
THEOREM NothingIsMissed ==
    ASSUME OneFirstRead PROVE Spec => NothingMissed
<1>1. ASSUME Sound, ReadInv, [Next]_vars, NEW t \in Thread,
             jobs[t].at = "fetch", jobs'[t].at = "record", Head(jobs[t].todo) \notin ahead
      PROVE  LET a == Head(jobs[t].todo)
             IN  since'[a] # None => \A m \in InBank(a, since'[a], jobs[t].day) :
                     rows[m] # None \/ m \in jobs'[t].got
  <2> DEFINE j == jobs[t]
             a == Head(j.todo)
  <2>1. Fetched(t)
    BY <1>1, FetchedOnly
  <2>2. jobs'[t].got = InBank(a, j.from, j.day)
    <3>1. j \in PassJob
      BY <1>1, JobOf DEF PassAt
    <3>2. jobs'[t] = [j EXCEPT !.at = "record", !.got = InBank(a, j.from, j.day)]
      BY <1>1, <2>1 DEF Fetched, Become, Sound, JobsInv
    <3>3. QED
      BY <3>1, <3>2 DEF PassJob
  <2>3. \A m \in Missing(a) : bank[m] >= since'[a] => bank[m] >= j.from
    BY <1>1, <2>1, AskedFromBefore
  <2>4. ASSUME NEW m \in InBank(a, since'[a], j.day), since'[a] # None, rows[m] = None
        PROVE  m \in InBank(a, j.from, j.day)
    <3>1. /\ m \in Movement /\ AccountOf[m] = a /\ bank[m] # None
          /\ since'[a] <= bank[m] /\ bank[m] <= j.day
      BY <2>4 DEF InBank
    <3>2. m \in Missing(a) /\ bank[m] \in Day
      BY <1>1, <2>4, <3>1, StoreTyped DEF Missing, Sound, StoreOK
    <3>3. since'[a] \in Day /\ j.from \in Day
      <4>1. j \in PassJob /\ a \in Account
        BY <1>1, JobOf, HeadTyped DEF PassAt, AsksAt
      <4>2. Sound'
        BY <1>1, NextSound
      <4>3. j.from \in Day
        BY <1>1, <4>1 DEF PassJob
      <4>4. since'[a] \in Day
        BY <2>4, <4>1, <4>2 DEF Sound, TypeOK
      <4>5. QED
        BY <4>3, <4>4
    <3>4. bank[m] >= j.from
      BY <2>3, <3>1, <3>2, <3>3 DEF Day
    <3>5. QED
      BY <3>1, <3>2, <3>3, <3>4 DEF InBank, Day
  <2>5. QED
    BY <2>2, <2>4
<1>2. Sound /\ ReadInv /\ [Next]_vars =>
        [\A t \in Thread :
          (jobs[t].at = "fetch" /\ jobs'[t].at = "record" /\ Head(jobs[t].todo) \notin ahead)
          => LET a == Head(jobs[t].todo)
             IN  since'[a] # None =>
                 \A m \in InBank(a, since'[a], jobs[t].day) :
                     rows[m] # None \/ m \in jobs'[t].got]_vars
  BY <1>1
<1>3. Init => ReadInv
  BY InitRead
<1>4. Sound /\ Sound' /\ ReadInv /\ [Next]_vars => ReadInv'
  BY NextRead
<1>5. QED
  BY <1>2, <1>3, <1>4, Sounds, PTL DEF Spec, NothingMissed, ReadWhole

=============================================================================
