# A verification project for amonhen

amonhen is a personal-finance server: it reads the movements of bank accounts through a PSD2
aggregator (Enable Banking) or from export files, keeps them in one SQLite file, decides which
movements are two halves of one transfer, applies the rules and the decisions of a person, and
reports on what is left. Several processes and threads share the file: the scheduler and the
request threads of the server, and the command line.

This directory holds TLA+ modules that model the parts of it whose steps interact, TLC
configurations that check them on small instances, and proofs of the main results for every
instance. `PROJECT.json` says, for every definition, which lines of the source it stands for.

    tlc -config MCIngest_one.cfg MCIngest          # any run: <module>_<run>.cfg
    tlapm IngestProofs.tla                         # the proofs: <component>Proofs, and Sums

## 1. Inventory

| component | source | state it keeps | operations that change it | who calls it |
|---|---|---|---|---|
| deduplication and ingest | `ledger.py` 417-967, `dedup.py`, `models.py` | tables `transactions`, `deleted_transactions`, `held_transactions`, `accounts.reimport_deleted` | `record`, `record_batch`, `decide_held`, `delete_transaction(s)`, `restore_deleted`, `set_notes`, `set_reimport_deleted`, `delete_account` | sync, period sync, file import, routes, command line |
| transfer links | `transfers.py`, `ledger.py` 1276-1663 | `postings` (the side that is not the real account), `transfer_links` | `link_transfers`, `link_passthrough_legs`, `set_category`, `set_splits`, `set_transfer_review`, `mark_transfer_pair`, `mark_passthrough`, `unlink_transfer` | sync after the fetch, routes |
| matching | `matching.py` | none | `max_weight_matching` (Hungarian algorithm) | transfer links |
| rules | `merchants.py` | `rules`, and what they write: categories, tags, deletions, destinations, mirrors | `apply_rule_changes`, `apply_transfer_rules`, `categorize`, `accept_merchant` | sync, routes of the rules |
| sync service | `sync.py` | `_SYNC_LOCK` (per process), settings `sync:last_run`, last read and rate limit per account | `run`, `settle`, `run_period` | scheduler, routes, command line |
| bank client | `providers/enable_banking.py`, `eb_normalize.py` | the width of the windows of one request | `fetch_transactions`, `fetch_transaction_windows` | sync service |
| balances and declared-balance check | `ledger.py` 1664-2010, `metrics.py` | recorded balances, the opening of an account | recording a balance, `anchor_opening`, `check_balance` | sync service, routes |
| deferred commits | `db.py` 274-319 | a nesting counter per connection | `deferred_commits`, `__exit__`, `commit` | every batch |
| schema and migrations | `db.py` 341-640 | the schema itself | `initialize` | every process that starts |
| configuration document | `config.py` | one JSON file, `_DOCUMENT_LOCK` (per process) | the `_editing` operations | setup routes, command line |
| consent flow | `api.py` 510-650 | one setting, `PENDING_OAUTH` | start, callback | setup page, the bank's redirect |
| backups | `backup.py` | a directory of snapshots | `make_snapshot`, `_prune` | scheduler, command line |
| budgets | `budgets.py` | budget amounts per month, `budget_items` | `set_default`, `set_month_override`, the item operations | routes |
| suggestions | `suggestions.py`, `classifier.py`, `llm.py` | `merchant_suggestions` | `record_suggestion`, `decide_suggestion` | sync, routes |
| review queue | `web/src/useReviewQueue.ts` | an optimistic copy of the queue in the browser | categorize, reload | a person |
| metrics, anomalies, file adapters, command line, shell tools | | none of their own | | |

How they interact. A pass of the sync service takes `_SYNC_LOCK`, and for each account asks
the bank client for what follows the newest movement, hands it to `record_batch`, records the
balances and applies the transfer rules; then `link_transfers`, `link_passthrough_legs` and
`categorize` run over the whole ledger. Requests of a person open a connection of their own
and run meanwhile: only SQLite's write lock and the extent of each commit order them. The
browser reloads its lists after each answer.

What is hard, and what makes each component correct:

* **Ingest.** The bank reports one movement twice, authorised and then settled, under
  another id, date and wording, and an export reports it a third time without an id. `_plan`
  reads in autocommit, `_carry_out` writes later. Correct: no settled movement is lost or
  rewritten, none is counted twice, a deletion stays, a note stays with its movement,
  a batch is there whole or not at all whoever writes beside it.
* **Transfer links.** A pass reads its candidates once and commits pair by pair; a request
  reads its guards once and commits statement by statement. Correct: a leg is on the clearing
  account exactly while it is in one live link, the account nets to zero, a person's "no"
  stands, a pass ends.
* **Rules.** Correct: what a person decided is not overwritten by a rule that is added,
  changed or removed; a mirror exists exactly while its rule wants it, once.
* **Sync service.** A pass is many commits and any of them may be the last. Correct: the cursor
  never moves past a day the bank was not asked for; what a stop leaves, `settle` repairs; the
  transfer rules see a movement before the matcher does.
* **Balances.** Two figures per day, rows that are deleted, restored or settle on another day,
  and an opening derived once from all of it. Correct: a difference that deletions explain is
  recognised, and only that; a person's last word on a figure is the one that counts.
* **Bank client.** Correct: the windows of a period cover every day of it once.
* **Configuration and consent.** The file is shared by threads and edited under a lock; an
  account is in the file and in the ledger, and no transaction spans the two. Correct: no edit
  is lost, one entry is one account, what a person named stays named.
* **Migrations and backups.** A script commits statement by statement, and every process that
  opens the ledger runs it. Correct: no row is lost, a folder that looks like a snapshot is one.
* **Deferred commits.** Correct: all or nothing, across an error.

Every hazard is listed in `PROJECT.json` at its line, with the properties that cover it.

## 2. Modules and plan

| order | module | what it is | status |
|---|---|---|---|
| 1 | `Dedup` | the decision about one movement, as a function of the tables | done |
| 1 | `Ingest` (extends `Dedup`) | the connections that write, the requests of a person | done |
| 1 | `IngestProofs` | theorems about `Ingest` | done |
| 2 | `Transfers` | links, postings, the pass and the requests | done |
| 2 | `TransfersProofs` | theorems about `Transfers` | done |
| 3 | `Rules` | rule changes, the four phases, mirrors, human decisions | done |
| 4 | `Sync` | the lock, the passes, windows, limits, stops and `settle` | done |
| 5 | `Document` | what the configuration document promises | done |
| 5 | `Setup` (implements `Document`) | threads, consents, file and ledger in turn | done |
| 6 | `Balances` | figures, openings and the declared check | done |
| 7 | `Storage` | migrations by several openers, snapshots and pruning | done |
| 8 | `SetupProofs` | `Setup` implements `Document`, entries stay apart, syncs mend names | done |
| 9 | `SyncProofs` | nothing is missed, the windows of a period tile it | done |
| 10 | `StorageProofs`, `RulesProofs` | no rebuild destroys a row; sides, tags and mirrors follow | done |
| 10 | `BalancesProofs`, `Sums` | a difference is what was deleted; sums over finite sets | done |
| 11 | `IngestProofs` | what settled is accounted for, restores keep their key, no more rows than movements, from what a bank may say of a payment | done |
| | `Matching` | the Hungarian algorithm against its definition | not built |
| | `DeferredCommits` | the nesting counter shown to implement an atomic batch | not built |
| | `ReviewQueue` | reloads of the browser's queue that arrive out of order | not built |

`Ingest`, `Transfers` and `Rules` each hold the tables they write and take what the others do
to a row as an action of the world around (a movement arrives, settles, is deleted, is paired);
`Sync` is the order in which a pass calls the three, with a row reduced to how far it got.
`Setup` and `Balances` do the same with a sync, `Storage` with whoever writes.

## 3. What is modelled

### `Dedup` and `Ingest`

`Dedup` is `Ledger._plan`: `Plans` makes the lookups in the code's order (bank id, content
hash, opposite status within three days, tombstone) and returns the plans SQLite may choose
from; `HoldIfProbable` is the hold of a period sync. A movement keeps the columns some decision
compares; an amount is in cents; a SHA-256 digest is the tuple it is computed from, with the
suffixes `:r<n>` and `:<external id>` as fields of their own; `normalize_description` is an
idempotent map on the wordings. SQLite's `LIMIT 1` without a total order is a choice.

`Ingest` is what connections do with it. `db` is the committed file, `work` what the one open
transaction sees, `lock` who holds it. A recording is planned movement by movement
(`PlanMovement`, which reads `work` if the connection holds the lock and `db` if not), written
(`CarryOut`, which takes the lock at the first row it writes) and committed at its end
(`CommitBatch`, `CommitDecision`); the constraints of the schema refuse a write (`Refuse`), and
a crash, an exception or SQLite's five seconds of waiting end a recording anywhere (`GiveUp`):
both roll back. `restore_deleted` is a recording of one movement and a second commit
(`MarkRestored`). A decision about a probable duplicate, to write it or to keep it out, is read
in autocommit and committed later without another look (`StartDecision`, `CommitDecision`).
`reported` is a history: the reports committed batches brought. Row ids are one more than the
highest, as `INTEGER PRIMARY KEY` without `AUTOINCREMENT` gives them, so a deleted row's id is
used again. Requests that are one commit (`DeleteTransaction`, `SetNotes`, `SetReimportDeleted`)
are one step.

Not in it: tags of a deleted movement (they travel as the note does), the account operations,
the batched deletion, and a power cut that loses committed transactions
(`synchronous = NORMAL`), which loses whole commits from the end and so is a state the model
was in before.

### `Transfers`

`side` is the posting of a movement that is not on its real account: a category, `split`, the
clearing account, a destination. `links` is `transfer_links`. The pass reads a maximum-weight
matching of the candidates (`StartPass`; which one, if several weigh the same, is the solver's
choice), links pair by pair (`LinkNext`), then per declared label reads its legs and moves them
one by one (`ReadDeclared`, `MoveNext`); a leg deleted meanwhile is a `KeyError` that ends the
pass (`AbortPass`), and any other failure ends it anywhere (`AbandonPass`). A request checks
its guards and puts its statements into `req` (`Ask`); `Commit` commits the next of them, which
is what each `with self.conn` of the code does, and `CutShort` is the server stopping between
two. Movements arrive (`Insert`), pending ones settle (`Settle`: `_replace_postings` drops the
side a person chose and leaves the link), `Delete` rejects the pair and removes the leg.

The evidence for a pair (`Score`) is the code's, over what the bank printed on each leg; the
declared labels are given by the legs they match. `Total` adds the amounts of a set of legs:
`transfer_amount_total` on the legs the clearing account holds (`Cleared`).

Not in it: the pairs a transfer rule writes (mirrors), which belong to `Rules`; two open
requests at once; a deleted leg that is restored, which gets a new id; the suggestions a
declaration dismisses.

### `Rules`

`rules` is the table, `book` what the rules and the person write on a movement: the side that is
not the real account, whether the matcher paired it, its mirrors, the tags of a person and of
the rules. `Winner` is `matching_rule` (length of the text, number of conditions, alphabet);
`Wrote` is what one phase does to one movement; `Applied` the phases in the order of
`apply_rule_changes`. An edit is `OpenSet` or `OpenRemove` (the guards, the rules as they were),
`Store` (the statement and its commit), `Begin` (`after = self.rules()`), then per phase
`ReadRows` and, at the first phase with something to write, `Write`, which takes the lock and
runs to the commit. Until that first write the phases read in autocommit and other workers and
the person commit between them; a movement that is gone by then raises and the whole transaction
is undone, unless all there was to do to it was to take tags away, which asks nothing (`Takes`).
`TransfersFirst` is `apply_transfer_rules` as a sync calls it, ahead of the pairing, and
`Categorize` what ends it. A text is a name with a length and a place in the alphabet; what it
is found in is a fact about each movement. `AppliedTo` is what the phases left to do make of one
movement (`Turn` is one of them): `OnePassIsEnough` applies it twice.

Not in it: the review of a pair a rule wrote, the proposals of the language model, the order of
two mirrors, a category deleted or merged, the trash.

### `Sync`

One record per thread says where its job is. The incremental pass is, per account, `Details`
(what the bank says of the account, once a run and at best effort), `Fetched` or `NotFetched`,
`Record`, `Read` (the settings), `Rules`; then `Link` and `End`. `settle` is the same without a
bank. `run_period` is `AskWindow` until the range is read, a batch per window (`WriteWindow`),
`PeriodRules` and `PeriodLink`. A call to a bank may be answered, refused (400 or 422, which
halves the window), limited (which is remembered), lost, or end the consent. `Wake` reads
whether a pass is due and `Decide` takes the lock of the process without waiting. An account
that holds nothing is asked from its start date, or from `Backfill` days before the day of the
pass; any other from `Overlap` days before its newest row (`From`), which is not kept anywhere
but read each time (`Cursor`). That row need not be the bank's: a file imported, or the other
half a transfer rule writes on a wallet that does not report its top-ups, moves the cursor as
well (`WriteElsewhere`, of which only the newest date per account is kept, `others`). `Fail`
ends one job by an exception, `Stop` all the jobs of a process; both keep what was committed. A
row is absent, or knows whether the transfer rules and the matcher have had it.

Not in it: the seconds of the backoff, pages of one window, what a payload becomes, and rows
deleted from the ledger, which move the cursor back to days a pass has read before.

### `Document` and `Setup`

`Document` is the abstract specification: a document of entries, changed by one whole edit at a
time (`Save`, `Rename`, `Remove`). `Setup` is the code: a thread takes `_DOCUMENT_LOCK` and
reads (`Read`), replaces the file and gives the lock back (`Replace`); an exception skips the
write. Around it are what the routes do before and after: the consent of a bank saves one entry
per account, one edit each (`Answer`), a rename asks the ledger, edits the file and renames in
the ledger (`Rename`, `Relabel`), a deletion leaves the ledger first and then drops the entries
of that name (`Delete`, `Disconnect`). A sync goes by the file as it was when it began and calls
`ensure_account` per entry (`Ensured`: by uid, by name when that row has no uid and whatever its
type, or a new row with a number). A row of the ledger is a real account or a category
(`AddCategory`, `RenameCategory`), a virtual account being for this what a category is; only a
real one is renamed after its entry (`Relabelled`). A stop forgets the threads and the lock and
keeps both stores. A name is a base and the numbers `unique_name` appends. `Declared`, the
documents a server may start from, are ones the program wrote: their entries have names of their
own. `synced` is a history: the document the last syncs went by and how many of them, counted to
the number of accounts, nothing else touched the ledger's accounts between.

### `Balances`

One account. `bank` is what the bank has, `rows` what the ledger has: a row, or a tombstone with
the date and status of the moment of deletion. `Figure` is what the bank declares, `Balance` what
the ledger computes (`balance`, `movement`), `Deleted` the tombstones it counts
(`deleted_total`), `Newest` the declaration a check reads (`_declaration_order`). A sync is
`Fetch`, `RecordBalances`, `AnchorFirstOpening` and `Verify`, each its own commit; a person
deletes, restores, declares a figure or sets the opening, which is two commits (`SetOpening`,
`RecordAligned`).

### `Storage`

`now` and `legacy` are each rebuilt table and its `_legacy` twin: a form and the rows. Opening is
`Schema`, `AddColumn` and `Mark` (the income flag, which leaves a transaction open), then per
rebuild `Check`, `Rename`, `Create`, `Fill`, `Drop`, each a commit of `executescript`, and the
commit of `Opened`. `Rebuilds` lists the rebuilds of `initialize` in their order, the table of
rules twice; `Check` goes past the ones the table's form does not need (`UpToDate`). A statement
whose table is missing, or there already, is an error that ends the opening. `StartBackup`,
`CopyDatabase`, `Describe`, `Name`, `List`, `RemoveFile`, `RemoveFolder` are `make_snapshot` and
`_prune`, with the folder being written apart from those under a final name; `EndBackup` may
come before all is removed, since `rmtree` ignores what it cannot remove. The clock of the
names ticks and may be set back.

Not in it: the rebuild of `budgets`, which gives every row a new month and would do so again if a
second opener ran it on the new form; and the transactions that `_migrate_rules` and
`_drop_obsolete` leave open as the income flag does.

## 4. What the runs check

| run | bounds | distinct states | what it shows |
|---|---|---|---|
| `MCIngest_one` | one connection, 5 reports of 2 payments, 5 batches, 4 recordings, 3 requests | 262,418 | plans, notes, settled movements, answers and restores, across pending, settled, exported, deleted, restored and held |
| `MCIngest_two` | two connections, one payment in 3 reports, 3 recordings, 1 request | 18,692 | with stale plans, refused batches and stops, a batch is there whole or not at all, and every recording ends |
| `MCTransfers_three` | three legs of one amount on three accounts, one declared label, 3 requests | 197,331 | pairs and clearing account agree between requests, a "no" stands, a pass ends |
| `MCRules_two` | two workers, one movement, six rules a person may write, beside the one there is or in place of one of two, one edit, one act or stop | 721,861 | sides, mirrors and tags follow the rules that are left; a person's category and tags survive |
| `MCSync_one` | one account, two movements, three days, the loop and one request or row from elsewhere, one failure or stop | 443,948 | no movement is missed, windows tile, what is written is linked in the end |
| `MCSetup_two` | two accounts of a bank, two names, two logins, two threads and the sync, two requests, one stop | 854,385 | no edit is lost, entries stay apart, curated names stay, a uid keeps its account, as many whole syncs as there are accounts mend the names of real accounts |
| `MCBalances_two` | two movements, one of them pending at first, two days, two syncs, two acts | 2,910,628 | either figure of the bank is what the ledger computes, or what was deleted; the last declaration stands |
| `MCStorage_two` | two processes, the rules and one more rebuilt table, one row, two backups, two seconds, one stop | 7,209,220 | no rebuild destroys a row, a snapshot is whole, a run keeps what it wrote |
| `MCIngest_deleted`, `MCTransfers_settled`, `MCTransfers_freed`, `MCBalances_deleted` | as above, the first on fewer batches | | one finding each (section 6) |

Why the bounds are enough.

* `Ingest`: two payments of one amount are the least for which a settled report can take the
  wrong pending row; four recordings let a payment be authorised, settled, exported and
  restored, three requests let a person delete, note and delete again in between. Two
  connections are all the write lock can order: a third one would wait behind either.
* `Transfers`: three legs are the least for which a leg has two possible partners, which is
  what a rejected and then replaced pair needs.
* `Rules`: movements meet only in a worker's reading of them all, so one that changes between a
  phase's reading and its writing stands for any. It says both texts, so rules compete; it
  arrives pending, so a mirror must wait; the two destinations, by hand and virtual, are the two
  ways to record one. One edit beside a pass that categorizes, and one act or stop, place an
  act, a settlement or a pass between any two steps of an edit.
* `Sync`: two movements are what a cursor needs to be ahead of one and behind another. With an
  overlap of one day, a backfill of two and three days, the bank's late bookings fall on every
  side of the cursor; four-day windows halve twice, down to a day. The two threads share the
  lock of one process; a second process is allowed by the module and not in this instance.
* `Setup`: the second account is what a name can collide with, the second login what a late
  callback can disturb, and the third actor, the sync, is always there.
* `Balances`: the amounts -1 and -3 give every subset of the movements its own sum, so a
  difference cannot be explained by the wrong one. A movement settles on either day, before,
  between and after the two syncs, and two acts delete and restore, or delete and align.
* `Storage`: every rebuild is the same script on another table, and the rules are the table
  with two; two openers are the least that meet, two seconds the least for a second snapshot,
  and keeping one makes each run prune. That of the others an older one is not kept where a
  newer is pruned takes a third snapshot, and rests on the proof.

The constants that begin with `Max` or `Last`, and the ids of `Rules` and `Setup`, bound the
instances and model nothing. Deadlock is not checked because a bounded run ends when its
requests, days and stops are used up.

Some invariants are stated up to named disturbances: what a reader should know can go wrong, with
TLC finding no other way.

* `Transfers`, `torn`: a pass and a request at work on one leg (`Raced`), a pending leg paired by
  hand that settles (`SettlesPaired`), an answer to a link already rejected (`AnswersRejected`),
  a deletion that frees the leg of another pair (`FreesPaired`), a request `CutShort`.
* `Rules`, `torn`: an edit stopped or failed between its two transactions (`HalfDone`), rules
  read before another edit (`StaleRules`), a movement written on that changed since it was read
  (`StaleRows`). `waited`, which only `SidesFollow` takes into account: the rule a recorded
  transfer waited for to move it elsewhere went, or another decides (section 6).
* `Sync`, `ahead`: a period, a file or a transfer rule that wrote a row newer than the last pass
  has read, which moves the cursor past days nobody asked for.
* `Ingest`, in `RestoreKeepsIdentity`: no row has the id of the movement restored, and another
  movement of its amount waits in the window in the other status (`TakenForTwin`).
* `Setup`, in `SyncMends`: the row that has the uid is a category, which nothing renames.
* `Balances`, `folded`: an opening derived while the figure counted what the ledger did not hold
  as the bank does (`Folds`), or a movement that appears dated before it. `fresh`: the bank
  booked something between the two calls of one sync.
* `Storage`, `disturbed`: a rebuild cut short or met by another opener, two backups that overlap,
  a pruning that ended before all was removed.

Fairness. `EveryJobEnds` (`Ingest`) assumes weak fairness of each connection's `Progress`,
`PassEnds` (`Transfers`) of `PassStep`: threads and processes are scheduled by the operating
system and nothing in the code waits for a person. `WrittenThenLinked` (`Sync`) assumes weak
fairness of each thread's `Work` and of the loop's `Wake` and `Decide`: the loop of `serve`
catches every exception of a pass and sleeps again. Requests, failures, stops and new days are
owed to nobody; a bank may refuse for ever. What bounds the property are `MaxAsked` and
`MaxStops`: with requests for ever the loop could find the lock taken each time.

Refinement. `DocumentEdits` is `D!Spec` with `D == INSTANCE Document WITH doc <- file`: each
`Replace` is one edit of the abstract document, or none if it was refused, and every other step
leaves it alone.

Each property also has, in `PROJECT.json`, a mutated definition of the code it depends on; TLC
finds the property violated under that mutation, so none of them holds by construction.

## 5. What is proved

Each component's theorems are in a module of their own, for every value of the constants and
without the bounds of the runs (a `Max` constant is any number). What is assumed of the constants
are the named `ASSUME`s of the modules, which TLC evaluates on every run: that the constants are
of their types, `None` is none of the values it stands beside, the accounts of a bank, the
movements of an account, the legs and the rules are finitely many, and that what the program is
started on is something it wrote (rules `set_rule` let through, a document whose names differ).
The theorems that need a hypothesis more have it in their statement, and it is named below.

| module | theorem | states | what it says |
|---|---|---|---|
| `IngestProofs` | `TypeCorrect` | `TypeOK` | the tables, the open transaction and the recordings are well-typed |
| | `NoHalfBatch` | `BatchesWhole` | however many connections record at once and wherever they are cut off, no row, tombstone or held movement is of a report no committed batch brought |
| | `NotesAreKept` | `NotesKept` | with one recording connection, a note stays on a row of its movement or goes to the trash with it, and a restore hands it back to that movement |
| | `AnswersStand` | `DecidedOnce` | with one recording connection, a probable duplicate is asked about once, and its movement and the answer stay |
| | `PlansAreCurrent` | `PlanStillHolds` | with one recording connection, what was planned still holds when it is written |
| | `SettledIsKept` | `SettledKept` | with one recording connection, no recording rewrites or removes a settled movement |
| | `RestoresUnderItsKey` | `RestoreKeepsIdentity` | however many connections record, a movement is restored under the key it was deleted by, or answered by a row of the same movement, but for `TakenForTwin` |
| | `SettledIsAccounted` | `SettledAccounted` | with one recording connection, no settled movement the bank reported under an id is lost, whatever becomes of its row |
| | `NoMoreThanReported` | `RowsBoundedByMovements` | with one recording connection, the two ingest paths never leave more rows in a window of days than movements were reported of it |
| `TransfersProofs` | `TypeCorrect` | `TypeOK` | the tables, the pass and the open request are well-typed |
| | `NoStands` | `RejectionStands` | a rejected row stays until a person's next request, with every disturbance and race of section 4 allowed |
| | `PairsStayCleared` | `PairsCleared` | until a disturbance, a leg is on the clearing account, between requests, exactly while it is in a live link, and in one at most |
| | `ClearingStaysNet` | `ClearingNets` | until a disturbance, the clearing account nets to zero between requests |
| `SyncProofs` | `TypeCorrect`, `LockHolds` | `TypeOK` | types; one pass, period or settlement at a time in a process |
| | `WindowsFollow` | `WindowsTile` | the windows of a period follow one another, whatever widths it halved through |
| | `NothingIsMissed` | `NothingMissed` | of an account nothing has written ahead of the passes, every answer of a bank holds all it has booked since the account was first read that the ledger has not |
| `SetupProofs` | `TypeCorrect` | `TypeOK` | types |
| | `DocumentRefined` | `DocumentEdits` | `Setup` implements `Document`, step by step |
| | `NamesApart` | `EntriesApart` | no two entries have one name |
| | `CurationKept` | `CuratedKept` | only an entry's own rename changes its name or a start a person chose |
| | `RowsOfUids` | `UidKeepsRow` | a bank's account keeps its account of the ledger |
| | `SyncsMend` | `SyncMends` | as many undisturbed syncs as there are accounts mend every name that can be; not that of a category |
| `StorageProofs` | `TypeCorrect` | `TypeOK` | types |
| | `NoRowLost` | `RowsKept` | no rebuild destroys a row; until one is cut short or met, every row is in its table |
| | `SnapshotsAreWhole` | `SnapshotsWhole` | a folder under its final name is a whole snapshot, until two runs overlap or a pruning is cut short |
| | `OwnIsKept` | `OwnSnapshotKept` | unless two runs overlap, a run keeps its own snapshot, and of the others the newest, whatever the clock did |
| `RulesProofs` | `TypeCorrect` | `TypeOK` | types, and every rule is one `set_rule` lets through |
| | `MirrorStandsAlone` | `OneMirror` | until a disturbance, a movement has one mirror at most |
| | `SidesAreExplained` | `SidesFollow` | until a disturbance, once nobody applies the rules, the sides nobody chose are those the rules name |
| | `TagsAreClaimed` | `TagsFollow` | likewise the tags |
| | `ChoicesStand` | `ChoiceStands` | until a disturbance, a job leaves a category a person chose, unless a rule of before names that same category for the movement, or a transfer or deletion rule now decides it |
| | `PersonalTagsKept` | `PersonalTagsStand` | until a disturbance, which a stale reading of the tags is, no job takes a person's tag or makes it a rule's |
| | `OnePass` | `OnePassIsEnough` | until a disturbance, of movements nobody chose a side of: applying the same rules again changes nothing |
| `BalancesProofs` | `TypeCorrect` | `TypeOK` | types, and the ledger has nothing the bank never had |
| | `WordsStand` | `DeclarationStands` | of a day and a kind, a person's last figure is the one that stands |
| | `ChecksAreExplained` | `ChecksExplained` | a check that fails differs by what was deleted and by nothing else |

Every disturbance of section 4 is in these statements as it is in the runs; the proofs are that
there is no other.

### The arguments

**Ingest.** None of these is inductive alone: a row is written from a plan made earlier,
possibly by another connection's leave. `IInv` is `TypeOK` with: both images of the tables are
sound (ids bounded from above, and no two of one id or key); with no open transaction the images
are the same, and only a batch or a decision keeps one open (`LockInv`); what an open
transaction sees keeps every note and every tombstone of the file (`WorkInv`); and a plan being
carried out names a row and a tombstone that were there (`PlanInv`). Per table operation one
lemma says what it preserves (`InsertRowSound`, `PromoteRowSound`, ...), per action one lemma
says that it preserves `IInv`, and `InvAlways` combines them. A fresh id above all others exists
because the ids are bounded, which the well-foundedness of `<` on the naturals gives
(`NextIdFresh`). `NoHalfBatch` adds `WholeInv`: what either image holds, and what a restore or a
request is about, is of a batch that committed, but for what the open transaction has itself
done so far.

The other theorems, but for `RestoresUnderItsKey`, assume `OneRecording`, that there is one
recording connection; with two they are false, since two can plan, or answer, the same movement.
`AloneInv` then adds that the open transaction has not lost a settled row and that plans still
hold. For `AnswersStand`, `HeldInv` says that an open transaction has every held movement as it
is committed, and `PendingInv` that the one a request has read as pending still is. For
`NotesAreKept`, `NoteInv` says that a row of the open transaction is still its movement or what
it settled as, that a plan promotes a row of its own movement by the id or the window, and that
the row a restore is about to hand a note to is of the movement restored.

Three of these claims are about what the reports are of, and `_plan` has nothing but the reports to
tell two payments by. Their theorems name what they ask of the reports; the five conditions are the
last definitions of `Ingest`, and TLC finds them true of the reports of `MCIngest_one`
(`CardAssumption`). `OnceEach`: no batch has a movement twice without ids. `DifferentPaths`: of
one content, the reports of one path all have an id or all have none. `ReportsTell`: an id is of
one movement, and so is a content, where ids do not tell it apart. `IdsTell`: an id is of one
movement in one status on one path. `WindowsTell`: the payments of one amount come in windows
apart from each other; in a window a payment has one content in each status, a content one
status and at most one id, and no batch has a content twice. The conditions are sufficient, and
none of them can be left out whole: the claim is then false of the code, and TLC finds the reports
that show it in instances of one to five:

| claim | without | what happens |
|---|---|---|
| `RestoreKeepsIdentity` | `OnceEach` | two movements alike in one batch are `:r1` and `:r2`; with both deleted, the second, restored, comes back as `:r1` |
| `RestoreKeepsIdentity` | `ReportsTell` | the bank reports a payment without an id, a file another one of the same words under an id: restored, the first is a duplicate of the second |
| `SettledAccounted` | `DifferentPaths` | a movement the bank first reports without an id absorbs the same with one, and the id is not kept |
| `SettledAccounted` | `IdsTell` | the tombstone of a pending payment has another settled one suppressed as its twin; restored, settled under the same id and deleted again, it is overwritten and explains that one no more |
| `RowsBoundedByMovements` | `IdsTell` | a file's row settles another payment's pending row; the pending row whose id stayed then settles beside it, and the other payment comes in as a third row |
| `RowsBoundedByMovements` | `WindowsTell` | pending rows on days 1 and 5: a payment settled on day 4 takes the older one, whose it is not, and keeps its own beside it |
| `SettledAccounted`, `RowsBoundedByMovements` | `OneRecording` | two plans made from one state of the tables: the second promotes a row the first has settled, or inserts what the other path has inserted |

`FitsInv`, which holds with any number of connections, says that a row's digest and a tombstone's
key are made of its own movement and of nothing else; `TablesStep` says that every table a step
leaves comes from one there was (`From`), or from it and the plan carried out (`FromAnd`), and
`RestoresUnderItsKey` follows from what `_plan` may find (`RestorePlan`). For
`SettledIsAccounted`, `AccountInv` says that everything reported, and of an open batch everything
it is done with (`Done`), is accounted for, and so is a movement about to be left unwritten
(`PlanAccounts`, `HoldAccounts`); `Tracks` is what each step does to rows, tombstones and holds,
and `TrackedAccounted` that it keeps what accounts for a movement, even where a tombstone is
replaced by one of the same key (`SameKeySame`). `NoMoreThanReported` counts. `WindowInv` has the
bound itself for both images of the tables, that of one movement one row is in a status, and
that what is restored or decided was reported before. A row is inserted only where all rows of
its window have its status and none its movement (`Fresh`, `PlanFresh`), so that rows map to
movements one to one (`RowsCounted`); a promotion rewrites a row of the window, and every other
step leaves rows that were rows (`RowsShrink`).

**Transfers.** `PairsCleared` speaks of the states between requests, so it is not inductive: a
step of the pass may fall between two commits of a request, and the pass writes what it read long
before. `UntornInv` says what holds in between: every leg the open request does not name is sound
(`SoundInv`); a link joins two movements that are there, and two movements have one row
(`LinksInv`); of the legs no request has met since the pass read, a pair to be linked still has
no row and a leg to be moved no live link (`PassInv`); and what is left of the open request is
one of nine shapes, each with what its next commit will find (`ReqInv`: `VerdictLeft`,
`RejectLeft`, `DeleteLeft`, ...). `CommitStep` shows that each shape becomes the next one or the
empty request, `RequestStep` that each guard establishes the first shape of its request,
`LinkStep` and `MoveStep` that a pass that raced nothing writes on legs no request names. The
proof assumes of a matching only that its pairs are disjoint edges. For `ClearingNets`,
`OppositeInv` says that two legs of a link, of a pair to be linked and of a request to link are
of opposite amounts; the cleared legs are then in pairs, by `PairsCleared`, and `SumPaired` adds
them to zero.

**Sums.** `MapThenSumSet` folds over a set in an order that CHOOSE fixes. `Sums` proves, of a
finite set with integer weights, that the order does not matter: a sum exists and is the only
one (`SumExists`, `SumsAgree`, by taking a smallest set that fails, with no induction schema),
it may be taken apart at any element (`SumRemove`) and over disjoint sets (`SumUnion`), and
pairs of opposite weight cancel (`SumPaired`). `Balances` and `Transfers` instantiate it.

**Sync.** `Sound` adds to the types which jobs there are (`JobsInv`, with the one lock of a
process: `OneAtATime`) and that what a job was answered is booked (`BookedInv`); a period that
asks has reported windows that follow one another from its first day, which is `WindowsTile`.
For `NothingMissed`, `ReadInv` says where the newest movement of an account, which is all the
cursor there is, stands to what is missing (of rows from elsewhere, `others`, only one the
passes have not yet read up to can move the cursor, which sets `ahead`): behind it nothing is
missing but what a bank may still book within the overlap (`Behind`), a pass about to ask asks
from before that (`AsksEnough`), and what it was answered is all of it (`Answered`), all three
while another process may write between. `NothingIsMissed` assumes `OneFirstRead`: every account
has a start date, or one process does all the syncing. Without it the statement is false, which
TLC shows: two processes whose first reads of an account are days apart begin at different days,
and what the ledger holds of the later one hides the days only the earlier one was to ask.

**Setup.** `Sound` has the jobs by their shapes, `LockInv` (who is about to replace the file
holds the lock, and the file is still as it was read), `LedgerInv` (one row per uid and per
name) and `FileInv` (the file is a document whose names differ). `EditedFacts` says what one
edit makes of such a document, with `NumberedFresh` for the name it numbers: among one name more
than are taken, one is free (by the pigeonhole). Every step that changes the file is a `Replace`
of the document it read, hence an edit of the abstract one. For `SyncMends`, `MendInv` measures
the syncs: an entry is settled if its account has its name or another account keeps it from it.
A sync leaves each entry it asks for settled, a category's counting as such, or a name was given
up since; and a name is given up only by an account that takes the one it should have
(`MendStep`), so the entries that are right (`Right`), of which there are no more than accounts,
grow by one with each sync until all are settled.

**Storage.** `ScriptInv`: whoever is in the script of a table has it renamed and is alone in it,
and at its last statement has copied every row; with `NothingDestroyed` it is inductive, since
the rename fails while a renamed table is there. `UnderWay` adds that, until one was cut short, a
renamed table is of a rebuild under way. `SnapInv` says, until two runs overlap, what a run at
work has: a whole folder to name, a folder it has named, and a list to prune that does not hold
its own.

**Rules.** `SidesFollow` and `TagsFollow` speak of states where no job is at work; `Inv` says
what holds during the jobs: a side or a tag no rule explains is one that an edit under way is still
going to change (`Due`, `TagsDue`), by the rules it read before and after and by the rows it has
read. `OnceAndAgain` is about one movement and no state: what the four phases leave, the four
phases leave alone. It needs, as the code does, that of all candidates one wins
(`Narrower` is a strict total order on rule ids, which are finitely many naturals).

**Balances.** `CheckInv`: the ledger has what the bank had some day (`RowsPast`); an opening that
folds nothing in is what the account held and the bank settled up to its date (`OpeningInv`);
and between the reading of a sync and its check there is a table of what the bank had, from which
the figures told were computed and of which the rows are a part (`ToldInv`). What the ledger
computes and what the bank declared are then two sums over sets that differ by the deleted rows.

### What is only model-checked

* The liveness properties `EveryJobEnds`, `PassEnds` and `WrittenThenLinked`: fairness and
  ENABLED are beyond this prover.

Every invariant and every action property the passing runs check is stated by a theorem.

With a second recording connection `PlanStillHolds`, `SettledKept`, `SettledAccounted`,
`RowsBoundedByMovements`, `NotesKept` and `DecidedOnce` are false; `BatchesWhole` and
`RestoreKeepsIdentity` are what remains, proved for any number of connections.

No module declares a RECURSIVE operator, so that all of them can be proved about.

## 6. Where the code and its words differ

Shown by a run:

* **A settled movement that was deleted comes back** (`MCIngest_deleted`). `_plan` looks for a
  pending twin before the tombstone. With another pending payment of the same amount within
  three days, the next sync promotes *that* row under the deleted movement's identity: the
  deletion is undone and the pending payment disappears into it.
* **A paired pending leg settles** (`MCTransfers_settled`). The promotion replaces its
  postings and keeps its confirmed link: the clearing account no longer nets to zero.
* **Deleting a leg frees its former partner from a newer pair** (`MCTransfers_freed`).
  `delete_transaction` rejects the link `transfer_link` returns even when it is rejected
  already, and rejecting points both legs at Uncategorized.
* **A deletion stops explaining the difference** (`MCBalances_deleted`). A pending movement is
  deleted and then settles: its tombstone keeps the status and date of the deletion, so the
  booked figure differs by an amount `deleted_total` does not count, and the check reports a
  defect the code says a deletion is not.

Read in the code while modelling, without a run of their own:

* Restoring the second of two identical movements does nothing: the tombstone does not keep
  the occurrence, so it is planned as the first of its kind and found to be a duplicate of the
  row still there (`ledger.py:895`).
* With pending payments of one amount four days apart, a payment that settles in between takes
  the pending row of the earlier date, which `ORDER BY date LIMIT 1` finds first and which may be
  the other payment's; its own pending row stays (`_find_opposite_status`, `ledger.py:672`).
  Found when `RowsBoundedByMovements` was to be proved.
* The matcher does not leave out split movements, which `_linkable_leg` refuses to a person
  (`transfers.py:173`).
* A category a person chose that is also a rule's is taken for the rule's: removing the rule
  empties it (`merchants.py`, `_apply_categories`). `ChoiceStands` says so by what it excludes.
* Restoring a settled movement while another payment of its amount is pending within three days
  settles that other payment's row: `restore_deleted` plans as a sync does, and the twin is looked
  for in the other status (`ledger.py:895`), where line 880 says "the row it restores is the one
  whose deletion this is". `RestoreKeepsIdentity` names the case (`TakenForTwin`).
* Of two requests that both read a probable duplicate as pending, the second to commit replaces
  the first one's answer (`ledger.py:604`; the UPDATE does not look again), and a movement that
  was written may say "discarded"; `api.py:1950` says "The decision is final". `DecidedOnce` is
  checked and proved over one connection for that reason.
* A stop between the two commits of a restore loses its note: the restore asked for again is
  answered as a duplicate, hands no note over and marks the tombstone (`ledger.py:896`).
* A restored row that is deleted before `_mark_restored`, and whose id the next recording of
  another connection takes, has its note written on that other movement (`ledger.py:945`).
* A tag a person writes between a job's reading of the tags and its writing is taken away with
  the rule's (`merchants.py:854`: `remove_tag` asks nothing), where `db.py:152` says "a tag a
  person wrote stays". `PersonalTagsStand` holds until such a reading.
* A category of the name of a bank's new account is adopted by its uid, since the lookup by name
  asks no type (`ledger.py:317`), and never renamed, since only a real account is
  (`ledger.py:351`). `SyncMends` leaves it out by name.
* The cursor is the newest date of any row (`sync.py:526`). A period over the last days moves it,
  where `sync.py:208` says "The incremental cursor is untouched": if the pass before failed, the
  days in between are never asked for. A row an import or a transfer rule writes does the same.
  `NothingMissed` speaks of accounts nothing has written ahead of the passes (`ahead`).
* A pass applies the transfer rules after an account that fetched something (`sync.py:313`).
  What a stopped pass had written is then linked by a pass that fetches nothing, before any
  transfer rule saw it, where `merchants.py:605` says "a leg the matcher paired is no rule's to
  move".
* Movements of a period older than every start date are linked by that period only; if it stops
  in between, `settle` begins later than they are (`sync.py:176`, `sync.py:533`).
* `delete_account` of the API leaves the ledger before the document: a stop in between leaves the
  entry connected and the next sync makes the account anew; and it drops the entries by name,
  which need not be the account's entry (`api.py:1113`).
* A rebuild cut short leaves its rows in the `_legacy` table: the next opener finds the new
  form and looks no further; a second opener that comes between sees an empty table
  (`db.py:381`). A stop between the income column and the commit leaves no category flagged
  (`db.py:577`).
* A pruning cut short, or by a file `rmtree` cannot remove and says nothing of, leaves half a
  snapshot under its final name, and two backups that keep
  one each may prune one another (`backup.py`, `_prune`).
* The end of a callback clears whatever login is pending by then (`api.py:625`).
* A recorded transfer may outlive its rules. A rule recorded a pending movement as a transfer to
  a virtual account; the rule's destination is then edited to an account kept by hand, which is
  not recorded until the movement is booked, so the old half stays (`_apply_transfers`,
  `merchants.py:794`); the rule is then removed, and the old half is not let go either, since
  what is let go is what the rules *before* this edit named (`merchants.py:809`). The comment at
  `merchants.py:496` says that "a movement no remaining rule explains goes back to the queue — a
  transfer the rule recorded as well", and `src/README.md:168` that "the list and the ledger
  never disagree". Found when `SidesFollow` was to be proved; `waited` names it.

## 7. What is not modelled

Listed per component, with the reason, in `PROJECT.json`. In short:

* metrics, anomalies, file adapters and payload normalization compute values from their input
  and have no state whose order matters;
* budgets are single statements and sums; the classifier and the language model propose and a
  person decides;
* the Hungarian algorithm: `Transfers` uses its contract;
* the nesting of deferred commits: `Ingest` and `Rules` have the transaction itself;
* the review queue of the browser, screens, styles, shell tools and deployment.

`Matching`, `DeferredCommits` and `ReviewQueue` would be the next modules; section 2 lists them
as not built.
