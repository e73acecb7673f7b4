------------------------------- MODULE Rules -------------------------------
(***************************************************************************)
(* What the rules do to the movements (amonhen/merchants.py and the        *)
(* operations of amonhen/ledger.py it calls).                              *)
(*                                                                         *)
(* A rule is a text with its conditions and one action.  Several workers   *)
(* apply the rules at once: requests that write or remove a rule, and the  *)
(* passes of the sync and of `categorize`, which change none.  An edit     *)
(* commits the rule first and applies it in a second transaction, so a     *)
(* stop in between leaves a rule that was never applied.                   *)
(*                                                                         *)
(* apply_rule_changes is one transaction of four phases (deferred_commits),*)
(* but its lock is taken by its first write: until then each phase reads   *)
(* the movements and other workers may still commit; from the first write  *)
(* on nothing comes between.                                               *)
(*                                                                         *)
(* The review of a pair a rule wrote, the proposals of the language model  *)
(* and the trash are not here; a category is known by its name.            *)
(***************************************************************************)
EXTENDS Integers, Sequences, FiniteSetsExt, Functions

CONSTANTS
    Movement,
    Facts,          \* what the bank said of each movement
    Account,        \* the real accounts
    Hand,           \* those no bank reports in full: a mirror may be written there
    Destination,    \* virtual accounts
    Category, Tag,
    Pattern,        \* a rule's text and conditions
    Written,        \* the rules a person tries to write: [pattern, action, target]
    RuleId,
    Start,          \* the rules there are when the first movement arrives
    Worker, Editor, \* who applies the rules, and who of them may change one
    Act,            \* what a person or the matcher may do to one movement
    MaxEdits,       \* bound: edits of the rules
    MaxActs,        \* bound: acts, and jobs cut short
    None

Uncategorized == "Uncategorized"
Split == "split"
Clearing == "Transfer clearing"
Action == {"category", "delete", "transfer", "tag"}     \* ACTIONS

ASSUME FactsAssumption ==
    Facts \in [Movement -> [account: Account, says: SUBSET STRING, size: Nat,
                            status: {"PDNG", "BOOK"}]]
\* `order` is the alphabetical place of the text, `length` what it is counted on.
ASSUME PatternAssumption ==
    \A k \in Pattern :
        /\ k.text \in STRING /\ k.length \in Nat /\ k.order \in Nat
        /\ k.account \in Account \cup {None}
        /\ k.least \in Nat \cup {None} /\ k.most \in Nat \cup {None}
ASSUME WrittenAssumption ==
    Written \subseteq [pattern: Pattern, action: Action,
                       target: Category \cup Tag \cup Account \cup Destination \cup {None}]
ASSUME NamesAssumption ==
    /\ Uncategorized \in Category /\ Hand \subseteq Account
    /\ Category \cap (Destination \cup Account) = {} /\ Destination \cap Account = {}
    /\ {Split, Clearing, None} \cap (Category \cup Destination \cup Account) = {}
    /\ None \notin {Split, Clearing}
ASSUME WorkersAssumption ==
    Editor \subseteq Worker /\ RuleId \subseteq Nat /\ IsFiniteSet(RuleId)
ASSUME BoundsAssumption == MaxEdits \in Nat /\ MaxActs \in Nat

VARIABLES
    rules,      \* the table of rules
    book,       \* the movements: status, side, pair, mirrors and tags
    names,      \* the category accounts there are
    jobs,       \* what each worker is doing
    edits, acts,
    chosen,     \* history: movements whose side a person wrote last
    torn,       \* history: one of the disturbances named below happened
    waited      \* history: the rule a transfer waited for went or changed

vars == <<rules, book, names, jobs, edits, acts, chosen, torn, waited>>
counters == <<edits, acts>>

Body == [pattern: Pattern, action: Action,
         target: Category \cup Tag \cup Account \cup Destination \cup {None}]
ASSUME AbsentAssumption == None \notin Body
RuleTable == [RuleId -> Body \cup {None}]
Side == Category \cup Destination \cup {Split, Clearing, None}
Row == {b \in [status: {"absent", "PDNG", "BOOK", "deleted"}, side: Side, paired: BOOLEAN,
                mirrors: Seq(Hand), personal: SUBSET Tag, ruled: SUBSET Tag] :
            b.personal \cap b.ruled = {}}
Phase == {"delete", "transfer", "category", "tag"}
Job == [stage: {"idle", "store", "begin", "read", "write", "paired"}, edit: BOOLEAN,
        todo: Seq(Phase), rid: RuleId \cup {None}, body: Body \cup {None},
        before: RuleTable \cup {None}, after: RuleTable \cup {None},
        rows: [Movement -> Row] \cup {None}]

TypeOK ==
    /\ rules \in RuleTable /\ book \in [Movement -> Row]
    /\ names \subseteq Category /\ Uncategorized \in names
    /\ jobs \in [Worker -> Job]
    /\ edits \in 0..MaxEdits /\ acts \in 0..MaxActs
    /\ chosen \subseteq Movement /\ torn \in BOOLEAN /\ waited \in BOOLEAN

-----------------------------------------------------------------------------
(* Which rule decides.                                                     *)

\* _matches: the text, then every condition that is set.
Matches(k, m) ==
    /\ k.text \in Facts[m].says
    /\ k.account \in {None, Facts[m].account}
    /\ k.least # None => Facts[m].size >= k.least
    /\ k.most # None => Facts[m].size <= k.most

\* _candidate_rules, among the rules of one action
Candidates(R, m, action) ==
    {r \in RuleId : R[r] # None /\ R[r].action = action /\ Matches(R[r].pattern, m)}

Conditions(k) ==
    Cardinality({f \in {"account", "least", "most"} : k[f] # None})

Narrower(R, r, s) ==
    LET k == R[r].pattern
        l == R[s].pattern
    IN  \/ k.length > l.length
        \/ /\ k.length = l.length
           /\ \/ Conditions(k) > Conditions(l)
              \/ /\ Conditions(k) = Conditions(l)
                 /\ k.order < l.order \/ (k.order = l.order /\ r < s)

\* matching_rule: the target of the narrowest candidate, as a set.
Winner(R, m, action) ==
    {R[r].target : r \in {s \in Candidates(R, m, action) :
        \A t \in Candidates(R, m, action) : t = s \/ Narrower(R, s, t)}}
Targets(R, m, action) == {R[r].target : r \in Candidates(R, m, action)}

Identity(b) == <<b.pattern, IF b.action = "tag" THEN b.target ELSE None>>
Same(R, b) == {r \in RuleId : R[r] # None /\ Identity(R[r]) = Identity(b)}

\* checked: a deletion loses its target, everything else is refused.
Writable(b) ==
    /\ \/ b.action = "category" /\ b.target \in Category \ {Uncategorized}
       \/ b.action = "tag" /\ b.target \in Tag
       \/ b.action = "transfer" /\ b.target \in Destination
       \/ b.action = "transfer" /\ b.target \in Hand /\ b.pattern.account # b.target
       \/ b.action = "delete" /\ b.target = None
    /\ (b.pattern.least # None /\ b.pattern.most # None)
           => b.pattern.least <= b.pattern.most

\* The table holds nothing set_rule would have refused.
ASSUME StartAssumption ==
    \A R \in Start :
        /\ R \in [RuleId -> Body \cup {None}]
        /\ \A r \in RuleId : R[r] = None \/ Writable(R[r])

-----------------------------------------------------------------------------
(* What one phase writes on a movement `c`, having read it as `r`.         *)

Present(b) == b.status \in {"PDNG", "BOOK"}
Mirrored(b) == b.mirrors # <<>>
Linked(b) == b.paired \/ Mirrored(b)
Virtual(b) == b.side \in Destination \cup {Clearing}
Decidable(b) == ~Linked(b) /\ b.side # Split                       \* _decidable

\* delete_transaction: mirrors and links go with the row.
Gone(status) == [status |-> status, side |-> None, paired |-> FALSE, mirrors |-> <<>>,
                 personal |-> {}, ruled |-> {}]

\* drop_mirror
DropMirror(c) == [c EXCEPT !.mirrors = <<>>, !.side = Uncategorized]
\* mirror_transfer: nothing asks whether a mirror is there already.
MirrorOn(c, a) == [c EXCEPT !.mirrors = Append(@, a), !.side = Clearing]
\* move_to_virtual_account, set_category
PointAt(c, s) == [c EXCEPT !.side = s]

Deleted(A, m, r, c) == IF Winner(A, m, "delete") # {} THEN Gone("deleted") ELSE c

\* The account of a mirror, whichever comes first, or else the virtual side.
Current(r) ==
    IF Mirrored(r) THEN Head(r.mirrors)
    ELSE IF Virtual(r) THEN r.side ELSE None

\* A mirror waits for the bank to settle, and is never on the movement's own account.
Recordable(m, r, t) ==
    t \in Account => r.status = "BOOK" /\ t # Facts[m].account

\* Mutant: a new mirror is written and the old one is left.
RecordBeside(r, c, t) == IF t \in Account THEN MirrorOn(c, t) ELSE PointAt(c, t)
RecordTo(r, c, t) ==
    LET d == IF Mirrored(r) THEN DropMirror(c) ELSE c
    IN  IF t \in Account THEN MirrorOn(d, t) ELSE PointAt(d, t)

\* Mutant: what a rule that is gone had recorded stays recorded.
HoldOn(r, c) == c
LetGo(r, c) == IF Mirrored(r) THEN DropMirror(c) ELSE PointAt(c, Uncategorized)

\* _apply_transfers
Transferred(B, A, m, r, c) ==
    IF ~(Decidable(r) \/ Mirrored(r)) THEN c
    ELSE IF Winner(A, m, "transfer") # {}
    THEN LET t == CHOOSE x \in Winner(A, m, "transfer") : TRUE
         IN  IF t # Current(r) /\ Recordable(m, r, t) THEN RecordTo(r, c, t) ELSE c
    ELSE IF Current(r) \in Targets(B, m, "transfer") THEN LetGo(r, c) ELSE c

Theirs(B, m, s) == s \in Targets(B, m, "category")
\* Mutant: whatever category it carries.
AnyCategory(B, m, s) == s \in Category
\* Empty, or the work of a rule there was before.
RulesToDecide(B, m, s) == s = Uncategorized \/ Theirs(B, m, s)

Wanted(A, m) ==
    IF Winner(A, m, "category") = {} THEN Uncategorized
    ELSE CHOOSE x \in Winner(A, m, "category") : TRUE

\* _apply_categories
Categorized(B, A, m, r, c) ==
    IF /\ Decidable(r) /\ r.side \in Category
       /\ RulesToDecide(B, m, r.side) /\ Wanted(A, m) # r.side
    THEN PointAt(c, Wanted(A, m)) ELSE c

\* Mutant: a tag no rule claims any more stays.
TaggedMore(A, m, r, c) == [c EXCEPT !.ruled = @ \cup (Targets(A, m, "tag") \ c.personal)]
\* Mutant: a rule's tag takes over a person's.
TaggedOver(A, m, r, c) ==
    [c EXCEPT !.personal = @ \ Targets(A, m, "tag"), !.ruled = Targets(A, m, "tag")]
\* _apply_tags: add_tag leaves a person's tag a person's (MIN(by_rule)).
Tagged(A, m, r, c) ==
    LET wanted == Targets(A, m, "tag") \ r.personal
        dropped == r.ruled \ wanted
    IN  [c EXCEPT !.personal = @ \ dropped,
                  !.ruled = (@ \ dropped) \cup ((wanted \ r.ruled) \ c.personal)]

Wrote(p, B, A, m, r, c) ==
    IF ~Present(r) THEN c
    ELSE CASE p = "delete"   -> Deleted(A, m, r, c)
           [] p = "transfer" -> Transferred(B, A, m, r, c)
           [] p = "category" -> Categorized(B, A, m, r, c)
           [] p = "tag"      -> Tagged(A, m, r, c)

\* One phase over every movement that was there when it read.
After(p, B, A, rows, now) ==
    [m \in Movement |-> Wrote(p, B, A, m, rows[m], now[m])]
Touches(p, B, A, rows) ==
    {m \in Movement : Wrote(p, B, A, m, rows[m], rows[m]) # rows[m]}

\* Mutant: the categories are written before the transfers let go.
CategoriesFirst == <<"delete", "category", "transfer", "tag">>
\* apply_rule_changes: deletions, transfers, categories, tags.
Phases == <<"delete", "transfer", "category", "tag">>

\* The whole of the phases `todo` on what `c` holds, in their order, nothing between them.
Turn(p, todo, B, A, m, c) == IF p \in Range(todo) THEN Wrote(p, B, A, m, c, c) ELSE c
AppliedTo(m, todo, B, A, c) ==
    LET one == Turn(Phases[1], todo, B, A, m, c)
        two == Turn(Phases[2], todo, B, A, m, one)
        three == Turn(Phases[3], todo, B, A, m, two)
    IN  Turn(Phases[4], todo, B, A, m, three)
Applied(todo, B, A, b) == [m \in Movement |-> AppliedTo(m, todo, B, A, b[m])]

-----------------------------------------------------------------------------
(* The ways the rules are known to lose track of a movement.  What is      *)
(* stated below holds until one of them happens: there is no other way.    *)

\* An edit stops, or fails, after the rule was committed.
\* A category renamed under it is one its rules no longer name.
HalfDone(j) == j.edit /\ j.stage \in {"begin", "read", "write"}
\* The rules read before an edit, or applied, are no longer the rules.
StaleRules(R) == R # rules
\* A movement is written on that changed since it was read.
StaleRows(j) ==
    \E m \in Touches(Head(j.todo), j.before, j.after, j.rows) : j.rows[m] # book[m]

\* A leg stays recorded elsewhere while the rule that claims it may not be written yet.
Waits(R, m, b) ==
    /\ Present(b) /\ Current(b) # None
    /\ \E x \in Winner(R, m, "transfer") : x # Current(b) /\ ~Recordable(m, b, x)
\* Going from the rules R to S, the rule such a leg waits for goes, or another decides.
WaitedFor(R, S) ==
    \E m \in Movement \ chosen :
        Waits(R, m, book[m]) /\ Winner(S, m, "transfer") # Winner(R, m, "transfer")

Idle == [stage |-> "idle", edit |-> FALSE, todo |-> <<>>, rid |-> None, body |-> None,
         before |-> None, after |-> None, rows |-> None]
Quiet == \A w \in Worker : jobs[w] = Idle

\* A ledger that holds rules and no movement yet.
Init ==
    /\ rules \in Start
    /\ book = [m \in Movement |-> Gone("absent")]
    /\ names = {Uncategorized} \cup {rules[r].target : r \in
                   {s \in RuleId : rules[s] # None /\ rules[s].action = "category"}}
    /\ jobs = [w \in Worker |-> Idle]
    /\ edits = 0 /\ acts = 0 /\ chosen = {} /\ torn = FALSE /\ waited = FALSE

-----------------------------------------------------------------------------
(* Writing and removing a rule.                                            *)

Become(w, j) == jobs' = [jobs EXCEPT ![w] = j]

\* set_rule up to its commit: refused, or the rules there were and the row to change.
OpenSet(w, rid, b) ==
    /\ w \in Editor /\ jobs[w] = Idle /\ edits < MaxEdits
    /\ Writable(b) /\ (rid # None => rules[rid] # None)
    /\ edits' = edits + 1
    /\ names' = IF b.action = "category" THEN names \cup {b.target} ELSE names
    /\ \E row \in IF rid = None /\ Same(rules, b) # {} THEN Same(rules, b) ELSE {rid} :
         Become(w, [Idle EXCEPT !.stage = "store", !.edit = TRUE, !.todo = Phases,
                                !.rid = row, !.body = b, !.before = rules])
    /\ UNCHANGED <<rules, book, acts, chosen, torn, waited>>

\* remove
OpenRemove(w, rid) ==
    /\ w \in Editor /\ jobs[w] = Idle /\ edits < MaxEdits
    /\ rules[rid] # None
    /\ edits' = edits + 1
    /\ Become(w, [Idle EXCEPT !.stage = "store", !.edit = TRUE, !.todo = Phases,
                              !.rid = rid, !.before = rules])
    /\ UNCHANGED <<rules, book, names, acts, chosen, torn, waited>>

\* The row the statement writes: a new one, or the one named if it is still there.
RowsFor(j) ==
    IF j.rid = None THEN {CHOOSE r \in RuleId : rules[r] = None}
    ELSE {j.rid} \cap {r \in RuleId : rules[r] # None}

\* rules_identity refuses a second rule of one text, conditions and, for a tag, tag.
Store(w) ==
    LET j == jobs[w]
    IN  /\ j.stage = "store"
        /\ j.rid = None => \E r \in RuleId : rules[r] = None       \* bound on RuleId
        /\ IF j.body # None /\ Same(rules, j.body) \ RowsFor(j) # {} /\ RowsFor(j) # {}
           THEN Become(w, Idle) /\ UNCHANGED <<rules, torn, waited>>
           ELSE /\ rules' = [r \in RuleId |-> IF r \in RowsFor(j) THEN j.body ELSE rules[r]]
                /\ Become(w, [j EXCEPT !.stage = "begin", !.rid = None, !.body = None])
                /\ torn' = (torn \/ StaleRules(j.before))
                /\ waited' = (waited \/ WaitedFor(rules, rules'))
        /\ UNCHANGED <<book, names, counters, chosen>>

Begin(w) ==
    /\ jobs[w].stage = "begin"
    /\ Become(w, [jobs[w] EXCEPT !.stage = "read", !.after = rules])
    /\ UNCHANGED <<rules, book, names, counters, chosen, torn, waited>>

\* A job that changes no rule.
Pass(w, todo) ==
    /\ Become(w, [Idle EXCEPT !.stage = "read", !.todo = todo,
                              !.before = rules, !.after = rules])
    /\ UNCHANGED <<rules, book, names, counters, chosen, torn, waited>>

\* apply_transfer_rules, ahead of the pairing; a sync categorizes at its end.
TransfersFirst(w) == jobs[w] = Idle /\ Pass(w, <<"transfer">>)
Paired == [Idle EXCEPT !.stage = "paired"]
Categorize(w) == jobs[w] \in {Idle, Paired} /\ Pass(w, Phases)
Finished(j) == IF j.todo = <<"transfer">> /\ ~j.edit THEN Paired ELSE Idle

\* _movement_rows: a phase that finds nothing to write leaves the lock untaken.
ReadRows(w) ==
    LET j == jobs[w]
    IN  /\ j.stage = "read"
        /\ Become(w, IF Touches(Head(j.todo), j.before, j.after, book) # {}
                     THEN [j EXCEPT !.stage = "write", !.rows = book]
                     ELSE IF Len(j.todo) = 1 THEN Finished(j)
                     ELSE [j EXCEPT !.todo = Tail(@)])
        /\ UNCHANGED <<rules, book, names, counters, chosen, torn, waited>>

\* remove_tag asks nothing of a movement that is gone; every other write does.
Takes(j, m) ==
    Head(j.todo) = "tag" => Targets(j.after, m, "tag") \subseteq j.rows[m].personal \cup j.rows[m].ruled
\* A movement to write on is gone: it raises, and the whole transaction is undone.
Missing(j) ==
    \E m \in Touches(Head(j.todo), j.before, j.after, j.rows) : ~Present(book[m]) /\ ~Takes(j, m)

\* The first write, the phases that follow it and the commit.
Carried(j) ==
    Applied(Tail(j.todo), j.before, j.after,
            After(Head(j.todo), j.before, j.after, j.rows, book))

Write(w) ==
    LET j == jobs[w]
    IN  /\ j.stage = "write"
        /\ IF Missing(j)
           THEN /\ torn' = (torn \/ HalfDone(j))
                /\ Become(w, Idle) /\ UNCHANGED <<book, names, chosen>>
           ELSE /\ book' = Carried(j)
                /\ Become(w, Finished(j))
                /\ names' = names \cup ({book'[m].side : m \in Movement} \cap Category)
                /\ chosen' = {m \in chosen : book'[m].side = book[m].side}
                /\ torn' = (torn \/ StaleRules(j.after) \/ StaleRows(j))
        /\ UNCHANGED <<rules, counters, waited>>

\* The process stops: what was committed stays.
Stop(w) ==
    /\ jobs[w] # Idle /\ acts < MaxActs /\ acts' = acts + 1
    /\ Become(w, Idle)
    /\ torn' = (torn \/ HalfDone(jobs[w]))
    /\ UNCHANGED <<rules, book, names, edits, chosen, waited>>

-----------------------------------------------------------------------------
(* What a person, the bank and the matcher do meanwhile.                   *)

Set(m, b) == book' = [book EXCEPT ![m] = b]
Elsewhere == UNCHANGED <<rules, jobs, edits, torn, waited>>

Arrive(m) ==
    /\ book[m].status = "absent"
    /\ Set(m, [Gone(Facts[m].status) EXCEPT !.side = Uncategorized])
    /\ UNCHANGED <<names, acts, chosen>> /\ Elsewhere

\* _promote: the postings of the pending row are dropped.
Settle(m) ==
    /\ book[m].status = "PDNG"
    /\ Set(m, [book[m] EXCEPT !.status = "BOOK", !.side = Uncategorized])
    /\ chosen' = chosen \ {m}
    /\ UNCHANGED <<names, acts>> /\ Elsewhere

ByHand(kind, m) ==
    /\ kind \in Act /\ acts < MaxActs /\ acts' = acts + 1
    /\ Present(book[m]) /\ Elsewhere

\* The routes refuse a leg of a transfer.
Choose(m, s) ==
    /\ ByHand("choose", m) /\ ~Virtual(book[m])
    /\ Set(m, PointAt(book[m], s))
    /\ chosen' = IF s = Uncategorized THEN chosen \ {m} ELSE chosen \cup {m}
    /\ names' = names \cup ({s} \cap Category)

Passthrough(m, d) ==
    /\ ByHand("passthrough", m) /\ ~Linked(book[m])
    /\ Set(m, PointAt(book[m], d))
    /\ chosen' = chosen \cup {m} /\ UNCHANGED names

\* unlink_transfer refuses the pair a rule wrote; a pair is rejected whole.
Unlink(m) ==
    /\ ByHand("unlink", m) /\ Virtual(book[m]) /\ ~Mirrored(book[m])
    /\ Set(m, [book[m] EXCEPT !.paired = FALSE, !.side = Uncategorized])
    /\ chosen' = chosen \ {m} /\ UNCHANGED names

\* link_transfer_pair, from the matcher: a booked leg with no link.
Pair(m) ==
    /\ ByHand("pair", m) /\ book[m].status = "BOOK" /\ ~Linked(book[m])
    /\ Set(m, [book[m] EXCEPT !.paired = TRUE, !.side = Clearing])
    /\ chosen' = chosen \cup {m} /\ UNCHANGED names

\* Mutant: a tag the rules wrote stays theirs.
RetaggedBeside(b, T) == [b EXCEPT !.personal = T]
\* set_tags: exactly these, and all a person's.
Retagged(b, T) == [b EXCEPT !.personal = T, !.ruled = {}]
SetTags(m, T) ==
    /\ ByHand("tag", m)
    /\ Set(m, Retagged(book[m], T))
    /\ UNCHANGED <<names, chosen>>

Delete(m) ==
    /\ ByHand("delete", m)
    /\ Set(m, Gone("deleted"))
    /\ chosen' = chosen \ {m} /\ UNCHANGED names

RulesWithoutTag(t) ==
    [r \in RuleId |-> IF rules[r] # None /\ rules[r].action = "tag" /\ rules[r].target = t
                      THEN None ELSE rules[r]]
\* delete_tag: the rules and the tag in one commit.
DeleteTag(t) ==
    /\ "tag" \in Act /\ acts < MaxActs /\ acts' = acts + 1
    /\ rules' = RulesWithoutTag(t)
    /\ book' = [m \in Movement |-> [book[m] EXCEPT !.personal = @ \ {t}, !.ruled = @ \ {t}]]
    /\ UNCHANGED <<names, jobs, edits, chosen, torn, waited>>

RulesRenamed(c, d) ==
    [r \in RuleId |-> IF rules[r] # None /\ rules[r].action = "category" /\ rules[r].target = c
                      THEN [rules[r] EXCEPT !.target = d] ELSE rules[r]]
\* rename_category: the account and every rule that names it, in one commit.
Rename(c, d) ==
    /\ "rename" \in Act /\ acts < MaxActs /\ acts' = acts + 1
    /\ c \in names \ {Uncategorized} /\ d \in Category \ names
    /\ names' = (names \ {c}) \cup {d}
    /\ rules' = RulesRenamed(c, d)
    /\ book' = [m \in Movement |-> IF book[m].side = c THEN PointAt(book[m], d) ELSE book[m]]
    /\ torn' = (torn \/ \E w \in Worker : HalfDone(jobs[w]))
    /\ UNCHANGED <<jobs, edits, chosen, waited>>

-----------------------------------------------------------------------------
Work(w) == Store(w) \/ Begin(w) \/ ReadRows(w) \/ Write(w)

Edit ==
    \E w \in Editor :
        \/ \E b \in Written, rid \in RuleId \cup {None} : OpenSet(w, rid, b)
        \/ \E rid \in RuleId : OpenRemove(w, rid)

Person ==
    \/ \E m \in Movement :
        \/ \E s \in Category \cup {Split} : Choose(m, s)
        \/ \E d \in Destination : Passthrough(m, d)
        \/ \E T \in SUBSET Tag : SetTags(m, T)
        \/ Unlink(m) \/ Pair(m) \/ Delete(m)
    \/ \E t \in Tag : DeleteTag(t)
    \/ \E c, d \in Category : Rename(c, d)

Next ==
    \/ Edit \/ Person
    \/ \E w \in Worker : Categorize(w) \/ TransfersFirst(w) \/ Work(w) \/ Stop(w)
    \/ \E m \in Movement : Arrive(m) \/ Settle(m)

Spec == Init /\ [][Next]_vars

-----------------------------------------------------------------------------
(* Properties.                                                             *)

TransferExplained(R, m, b) ==
    Present(b) /\ Current(b) # None =>
        LET t == Winner(R, m, "transfer")
        IN  t # {} /\ \A x \in t : x = Current(b) \/ ~Recordable(m, b, x)
CategoryExplained(R, m, b) ==
    Present(b) /\ b.side \in Category \ {Uncategorized} =>
        Winner(R, m, "category") = {b.side}

\* "A movement no remaining rule explains goes back to the queue -- a transfer the
\* rule recorded as well" (remove): once the jobs are over, a category no person chose
\* is the one the deciding rule names, and a transfer is where its deciding rule says or
\* waits for what may not be written yet. But a transfer that waited for a rule which
\* then went or changed stays where it was (_apply_transfers, _apply_categories).
SidesFollow ==
    Quiet /\ ~torn =>
        \A m \in Movement \ chosen :
            /\ CategoryExplained(rules, m, book[m])
            /\ waited \/ TransferExplained(rules, m, book[m])

\* "Writing a second one would count the money twice": a movement has at most one
\* other half, and is a paired leg exactly while it has it.
OneMirror ==
    ~torn => \A m \in Movement :
        /\ Len(book[m].mirrors) <= 1
        /\ Mirrored(book[m]) => book[m].side = Clearing /\ ~book[m].paired

\* A tag the rules wrote is claimed by a rule once the jobs are over.
TagsFollow ==
    Quiet /\ ~torn => \A m \in Movement : book[m].ruled \subseteq Targets(rules, m, "tag")

\* One pass is enough: what the four phases leave, in their order, is what applying
\* the same rules again would leave.  (A person's own choice may yet be a rule's, and
\* so may a side that a disturbance, or an edit still under way, leaves unexplained.)
OnePassIsEnough ==
    ~torn => \A w \in Worker :
        LET j == jobs[w]
        IN  /\ j.stage = "read" /\ Len(j.todo) = Len(Phases) /\ ~StaleRules(j.after)
            /\ \A v \in Worker \ {w} : ~HalfDone(jobs[v])
            => \A m \in Movement \ chosen :
                LET once == AppliedTo(m, Phases, j.before, j.after, book[m])
                IN  AppliedTo(m, Phases, j.after, j.after, once) = once

\* A category no rule that a job knows of would assign is a person's: no job
\* changes it, short of deleting the movement or recording it as a transfer.
ChoiceStands ==
    [][\A w \in Worker, m \in chosen :
        (/\ jobs[w].stage = "write" /\ jobs'[w] # jobs[w] /\ ~torn'
         /\ book[m].side \in Category
         /\ ~Theirs(jobs[w].before, m, book[m].side)
         /\ Winner(jobs[w].after, m, "transfer") = {}
         /\ Winner(jobs[w].after, m, "delete") = {})
        => book'[m].side = book[m].side]_vars

\* No job takes a person's tag away, and none turns it into a rule's, while no
\* disturbance has happened (_apply_tags, add_tag).
PersonalTagsStand ==
    [][\A m \in Movement :
        book'[m].personal # book[m].personal /\ Present(book'[m]) /\ ~torn' => acts' # acts]_vars
=============================================================================
