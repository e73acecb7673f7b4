----------------------------- MODULE Transfers -----------------------------
(***************************************************************************)
(* Which movements are the two legs of one transfer, and where the other   *)
(* side of each movement is posted (amonhen/transfers.py and the transfer  *)
(* operations of amonhen/ledger.py, as the routes of amonhen/api.py call   *)
(* them).                                                                  *)
(*                                                                         *)
(* Two actors write: the pass of a sync (link_transfers, then              *)
(* link_passthrough_legs), which reads what it will write once and then    *)
(* commits one leg or pair at a time, and a person's request, which reads  *)
(* its guards once and then commits one statement at a time.  A request of *)
(* several statements is not one transaction: each `with self.conn` block  *)
(* commits at its own end.                                                 *)
(*                                                                         *)
(* The legs a transfer rule writes itself (mirrors, method "rule") are not *)
(* here; neither is a deleted leg that is restored, which gets a new id.   *)
(***************************************************************************)
EXTENDS Integers, Sequences, FiniteSets, SequencesExt, FiniteSetsExt

CONSTANTS
    Leg,            \* movement ids
    Account, Iban,  \* the real accounts, and those whose own IBAN is known
    Facts,          \* what the bank said of each leg
    Category,       \* category accounts, Uncategorized among them
    Declarations,   \* the labels the configuration declares passthrough, in order
    Destination,    \* the virtual accounts money is recorded into
    Arrivals,       \* the status a leg may arrive with: <<leg, status>>
    Since,          \* earliest_start: the first day the matcher looks at
    MaxGap,         \* settings.TRANSFER_MAX_GAP_DAYS
    MaxRequests,    \* bound: requests of a person
    None

\* Where the other side of a movement is posted, category accounts apart.
Uncategorized == "Uncategorized"
Split == "split"
Clearing == "Transfer clearing"

\* `names` is the counterparty account the bank printed on the leg: the IBAN of
\* an account, of somebody else ("third"), or some other identifier ("label").
ASSUME LegAssumption == Leg \subseteq Nat /\ IsFiniteSet(Leg)
ASSUME FactsAssumption ==
    Facts \in [Leg -> [account: Account, date: Nat, amount: Int,
                       names: Account \cup {"third", "label", None}]]
ASSUME SideAssumption ==
    /\ Uncategorized \in Category
    /\ {Split, Clearing, None} \cap (Category \cup Destination) = {}
    /\ Category \cap Destination = {} /\ None # Clearing
ASSUME NamesAssumption ==
    {"third", "label", None} \cap Account = {} /\ None \notin {"third", "label"}
ASSUME DeclarationsAssumption ==
    Declarations \in Seq([to: Destination, legs: SUBSET Leg, incoming: BOOLEAN])
ASSUME ArrivalsAssumption == Arrivals \subseteq Leg \X {"PDNG", "BOOK"}
ASSUME GapAssumption == MaxGap \in Nat /\ Since \in Nat /\ Iban \subseteq Account

VARIABLES
    status, side,           \* transactions, and the side of their postings that is not real
    links,                  \* transfer_links
    pass, pairs, turn, legs,\* the pass: the pairs and the declared legs still to write
    req,                    \* the statements the open request has still to commit
    asked,                  \* how many requests a person made
    touched,                \* history: legs a request or a promotion met since the pass read
    torn                    \* history: one of the disturbances named below happened

vars == <<status, side, links, pass, pairs, turn, legs, req, asked, touched, torn>>
passVars == <<pass, pairs, turn, legs>>

Verdict == {"open", "confirmed", "rejected"}   \* confirmed_by_human 0, 1, -1
Side == Category \cup Destination \cup {Split, Clearing}
Statement ==
    [do: {"verdict"}, a: Leg, b: Leg, to: {"confirmed", "rejected"}]
    \cup [do: {"side"}, a: Leg, b: Leg, to: Side]
    \cup [do: {"link", "remove"}, a: Leg, b: Leg, to: {None}]

TypeOK ==
    /\ status \in [Leg -> {"absent", "PDNG", "BOOK", "deleted"}]
    /\ side \in [Leg -> Side \cup {None}]
    /\ links \subseteq [a: Leg, b: Leg, verdict: Verdict]
    /\ \A k \in links : \A m \in links : k.a = m.a /\ k.b = m.b => k = m
    /\ pass \in {"idle", "linking", "moving"}
    /\ pairs \subseteq Leg \X Leg /\ legs \subseteq Leg
    /\ turn \in 0..Len(Declarations) /\ (legs # {} => turn # 0)
    /\ req \in Seq(Statement)
    /\ asked \in Nat /\ touched \subseteq Leg /\ torn \in BOOLEAN

-----------------------------------------------------------------------------
(* Queries.                                                                *)

Present(l) == status[l] \in {"PDNG", "BOOK"}
Virtual(l) == side[l] \in Destination \cup {Clearing}           \* is_transfer
Rows(l) == {k \in links : l \in {k.a, k.b}}
Live(l) == {k \in Rows(l) : k.verdict # "rejected"}             \* _live_link
RowsOf(a, b) == {k \in links : {k.a, k.b} = {a, b}}

\* Mutant: the lowest leg_a, live or rejected.
AnyTransferLink(l) == {k \in Rows(l) : \A m \in Rows(l) : k.a <= m.a}
\* transfer_link: a live row before a rejected one, then the lowest leg_a.
TransferLink(l) ==
    LET best == IF Live(l) # {} THEN Live(l) ELSE Rows(l)
    IN  {k \in best : \A m \in best : k.a <= m.a}

-----------------------------------------------------------------------------
(* The evidence for a pair.                                                *)

Days(a, b) ==
    LET d == Facts[a].date - Facts[b].date IN IF d < 0 THEN -d ELSE d

\* Only an IBAN is evidence of which account a leg names.
Contradicts(a, b) ==
    /\ Facts[a].names \in Account \cup {"third"}
    /\ Facts[b].account \in Iban
    /\ Facts[a].names # Facts[b].account
Corroborates(a, b) ==
    Facts[b].account \in Iban /\ Facts[a].names = Facts[b].account
NamesOne(a, b) == (Facts[a].names = None) # (Facts[b].names = None)

Evidence(a, b) ==
    CASE Corroborates(a, b) /\ Corroborates(b, a) -> 100
      [] Corroborates(a, b) # Corroborates(b, a)  -> 80
      [] OTHER -> IF Facts[a].names # None THEN 100 ELSE 50

\* _score against the matcher's own gap: 0 is not a pair.
Score(a, b) ==
    IF \/ Facts[a].account = Facts[b].account
       \/ Days(a, b) > MaxGap
       \/ Contradicts(a, b) \/ Contradicts(b, a)
       \/ NamesOne(a, b) /\ ~Corroborates(a, b) /\ ~Corroborates(b, a)
    THEN 0
    ELSE Max({Evidence(a, b) - 10 * Days(a, b), 1})

\* _candidates: booked, in the window, and without any link row, rejected or not.
Candidates ==
    {l \in Leg : /\ status[l] = "BOOK" /\ Facts[l].amount # 0
                 /\ Facts[l].date >= Since /\ Rows(l) = {}}
Edges ==
    {e \in Candidates \X Candidates :
        /\ Facts[e[1]].amount < 0 /\ Facts[e[1]].amount + Facts[e[2]].amount = 0
        /\ Score(e[1], e[2]) > 0}
Matchings ==
    {M \in SUBSET Edges :
        \A e, f \in M : e = f \/ {e[1], e[2]} \cap {f[1], f[2]} = {}}
TotalWeight(M) == MapThenSumSet(LAMBDA e : Score(e[1], e[2]), M)

\* _best_pairs: a maximum-weight matching (which one, the solver decides).
BestPairs ==
    {M \in Matchings : \A N \in Matchings : TotalWeight(N) <= TotalWeight(M)}

\* What link_passthrough_legs selects for one declaration.
Declared(d) ==
    {l \in d.legs : /\ status[l] = "BOOK" /\ (d.incoming => Facts[l].amount > 0)
                    /\ ~Virtual(l) /\ Live(l) = {}}

-----------------------------------------------------------------------------
(* Statements: what one commit writes.                                     *)

\* Mutant: INSERT OR REPLACE instead of INSERT OR IGNORE.
WithLinkReplaced(a, b) ==
    {k \in links : <<k.a, k.b>> # <<a, b>>} \cup {[a |-> a, b |-> b, verdict |-> "open"]}
\* Mutant: a row is inserted whether or not the pair has one.
WithSecondLink(a, b) == links \cup {[a |-> a, b |-> b, verdict |-> "open"]}
WithLink(a, b) ==
    IF \E k \in links : <<k.a, k.b>> = <<a, b>> THEN links
    ELSE links \cup {[a |-> a, b |-> b, verdict |-> "open"]}

SetSide(S, to) == side' = [l \in Leg |-> IF l \in S THEN to ELSE side[l]]

\* link_transfer_pair: both legs cleared and the link written in one commit.
LinkPair(a, b) ==
    /\ SetSide({a, b}, Clearing)
    /\ links' = WithLink(a, b)
    /\ UNCHANGED status

\* set_transfer_review's UPDATE, in either order of the legs.
WithVerdict(a, b, v) ==
    {IF k \in RowsOf(a, b) THEN [k EXCEPT !.verdict = v] ELSE k : k \in links}

VerdictOn(a, b, v) == [do |-> "verdict", a |-> a, b |-> b, to |-> v]
LinkOf(a, b) == [do |-> "link", a |-> a, b |-> b, to |-> None]
SideOf(l, to) == [do |-> "side", a |-> l, b |-> l, to |-> to]
RemovalOf(l) == [do |-> "remove", a |-> l, b |-> l, to |-> None]

\* set_transfer_review: the verdict, then the two categories one by one.
RejectStatements(a, b) ==
    <<VerdictOn(a, b, "rejected"), SideOf(a, Uncategorized), SideOf(b, Uncategorized)>>

LegsOf(stmts) == UNION {{s.a, s.b} : s \in ToSet(stmts)}

-----------------------------------------------------------------------------
(* The ways clearing is known to be disturbed.  The invariants below hold  *)
(* until one of them happens: there is no other way.                       *)

\* A pass and a request at work on one leg: each wrote on what the other changed.
Raced(S) == S \cap touched # {}

\* A promotion rewrites the postings of a pending leg that was paired by hand.
SettlesPaired(l) == Live(l) # {} \/ l \in LegsOf(req)

\* A review that answers a link already rejected (an old page).
AnswersRejected(a, b) == \E k \in RowsOf(a, b) : k.verdict = "rejected"

\* Deleting a leg gives its rejected former partner a category, paired anew or not.
FreesPaired(s) == s.do = "side" /\ Last(req).do = "remove" /\ Live(s.a) # {}

-----------------------------------------------------------------------------
Init ==
    /\ status = [l \in Leg |-> "absent"] /\ side = [l \in Leg |-> None]
    /\ links = {} /\ pass = "idle" /\ pairs = {} /\ turn = 0 /\ legs = {}
    /\ req = <<>> /\ asked = 0 /\ touched = {} /\ torn = FALSE

\* record: a leg arrives on Uncategorized.
Insert(l, st) ==
    /\ status[l] = "absent" /\ <<l, st>> \in Arrivals
    /\ status' = [status EXCEPT ![l] = st]
    /\ SetSide({l}, Uncategorized)
    /\ UNCHANGED <<links, passVars, req, asked, touched, torn>>

\* _promote: _replace_postings drops every posting of the pending row; its links stay.
Settle(l) ==
    /\ status[l] = "PDNG"
    /\ status' = [status EXCEPT ![l] = "BOOK"]
    /\ SetSide({l}, Uncategorized)
    /\ torn' = (torn \/ SettlesPaired(l))
    /\ UNCHANGED <<links, passVars, req, asked, touched>>

-----------------------------------------------------------------------------
(* The pass.                                                               *)

StartPass ==
    /\ pass = "idle"
    /\ pass' = "linking"
    /\ pairs' \in BestPairs
    /\ touched' = LegsOf(req)
    /\ UNCHANGED <<status, side, links, turn, legs, req, asked, torn>>

\* Pairs are linked in the order of their ids; a leg deleted meanwhile is a
\* KeyError, which ends the pass.
NextPair(e) ==
    e \in pairs /\ \A f \in pairs : e[1] < f[1] \/ (e[1] = f[1] /\ e[2] <= f[2])

EndPass ==
    /\ pass' = "idle" /\ pairs' = {} /\ turn' = 0 /\ legs' = {} /\ touched' = {}

\* Mutant: a pair whose leg is gone is tried again.
RetryPass == UNCHANGED <<passVars, touched>>
AbortPass == EndPass

LinkNext ==
    /\ pass = "linking"
    /\ \E e \in pairs :
        /\ NextPair(e)
        /\ IF Present(e[1]) /\ Present(e[2])
           THEN /\ LinkPair(e[1], e[2])
                /\ torn' = (torn \/ Raced({e[1], e[2]}))
                /\ pairs' = pairs \ {e}
                /\ UNCHANGED <<pass, turn, legs, req, asked, touched>>
           ELSE AbortPass /\ UNCHANGED <<status, side, links, req, asked, torn>>

\* The legs of one label are read and moved before the next label is read.
ReadDeclared ==
    /\ \/ pass = "linking" /\ pairs = {}
       \/ pass = "moving" /\ legs = {}
    /\ turn < Len(Declarations)
    /\ pass' = "moving" /\ turn' = turn + 1
    /\ legs' = Declared(Declarations[turn'])
    /\ touched' = LegsOf(req)
    /\ UNCHANGED <<status, side, links, pairs, req, asked, torn>>

\* The legs of one declaration come in date order, which changes nothing here.
MoveNext ==
    /\ pass = "moving"
    /\ \E l \in legs :
        IF Present(l)
        THEN /\ SetSide({l}, Declarations[turn].to)
             /\ torn' = (torn \/ Raced({l}))
             /\ legs' = legs \ {l}
             /\ UNCHANGED <<status, links, pass, pairs, turn, req, asked, touched>>
        ELSE AbortPass /\ UNCHANGED <<status, side, links, req, asked, torn>>

FinishPass ==
    /\ pass # "idle" /\ pairs = {} /\ legs = {} /\ turn = Len(Declarations)
    /\ EndPass
    /\ UNCHANGED <<status, side, links, req, asked, torn>>

\* A crash, or an error elsewhere in the run: what was committed stays.
AbandonPass ==
    /\ pass # "idle"
    /\ EndPass
    /\ UNCHANGED <<status, side, links, req, asked, torn>>

-----------------------------------------------------------------------------
(* A person's requests: the guard, and the statements that follow it.      *)

Ask(stmts) ==
    /\ req = <<>> /\ asked < MaxRequests
    /\ req' = stmts /\ asked' = asked + 1
    /\ touched' = IF pass = "idle" THEN {} ELSE touched \cup LegsOf(stmts)
    /\ UNCHANGED <<status, side, links, passVars>>

\* The category and the split routes refuse a leg of a transfer.
Categorize(l, c) ==
    /\ Present(l) /\ ~Virtual(l)
    /\ Ask(<<SideOf(l, c)>>)
    /\ UNCHANGED torn

Confirm(a, b) ==
    /\ RowsOf(a, b) # {}
    /\ Ask(<<VerdictOn(a, b, "confirmed")>>)
    /\ torn' = (torn \/ AnswersRejected(a, b))

Reject(a, b) ==
    /\ RowsOf(a, b) # {}
    /\ Ask(RejectStatements(a, b))
    /\ torn' = (torn \/ AnswersRejected(a, b))

\* mark_transfer_pair: a row of the same two legs is used again.
Linkable(l) == Present(l) /\ ~Virtual(l) /\ side[l] # Split
Pair(a, b) ==
    /\ Linkable(a) /\ Linkable(b)
    /\ Facts[a].account # Facts[b].account
    /\ Facts[a].amount + Facts[b].amount = 0
    /\ \/ /\ RowsOf(a, b) = {}
          /\ Ask(<<LinkOf(a, b), VerdictOn(a, b, "confirmed")>>)
       \/ \E k \in RowsOf(a, b) :
             Ask(<<LinkOf(k.a, k.b), VerdictOn(k.a, k.b, "confirmed")>>)
    /\ UNCHANGED torn

\* mark_passthrough
Passthrough(l, d) ==
    /\ Present(l) /\ Live(l) = {}
    /\ Ask(<<SideOf(l, d)>>)
    /\ UNCHANGED torn

\* unlink_transfer: the pair is rejected, a lone leg goes back to Uncategorized.
Unlink(l) ==
    /\ Present(l) /\ Virtual(l)
    /\ \/ Live(l) = {} /\ Ask(<<SideOf(l, Uncategorized)>>)
       \/ \E k \in TransferLink(l) :
             Live(l) # {} /\ Ask(RejectStatements(k.a, k.b))
    /\ UNCHANGED torn

\* Mutant: the leg is deleted and its pair is left as it is.
DeleteAlone(l) == {<<RemovalOf(l)>>}
DeleteStatements(l) ==
    IF Rows(l) = {} THEN {<<RemovalOf(l)>>}
    ELSE {Append(RejectStatements(k.a, k.b), RemovalOf(l)) : k \in TransferLink(l)}

\* delete_transaction
Delete(l) ==
    /\ Present(l)
    /\ \E stmts \in DeleteStatements(l) : Ask(stmts)
    /\ UNCHANGED torn

\* The next statement of the open request is committed.
Commit ==
    /\ req # <<>>
    /\ req' = Tail(req)
    /\ LET s == Head(req)
       IN  /\ torn' = (torn \/ FreesPaired(s))
           /\ CASE s.do = "link"    -> LinkPair(s.a, s.b)
                [] s.do = "side"    -> /\ SetSide({s.a}, s.to)
                                       /\ UNCHANGED <<status, links>>
                [] s.do = "verdict" ->
                     /\ links' = WithVerdict(s.a, s.b, s.to)
                     /\ UNCHANGED <<status, side>>
                [] s.do = "remove"  -> /\ status' = [status EXCEPT ![s.a] = "deleted"]
                                       /\ SetSide({s.a}, None)
                                       /\ links' = links \ Rows(s.a)
    /\ UNCHANGED <<passVars, asked, touched>>

\* The server stops between two commits of a request.
CutShort ==
    /\ req # <<>>
    /\ req' = <<>>
    /\ torn' = TRUE
    /\ UNCHANGED <<status, side, links, passVars, asked, touched>>

-----------------------------------------------------------------------------
PassStep == StartPass \/ LinkNext \/ ReadDeclared \/ MoveNext \/ FinishPass

Request ==
    \/ \E l \in Leg, c \in Category \cup {Split} : Categorize(l, c)
    \/ \E a, b \in Leg : Confirm(a, b) \/ Reject(a, b) \/ Pair(a, b)
    \/ \E l \in Leg, d \in Destination : Passthrough(l, d)
    \/ \E l \in Leg : Unlink(l) \/ Delete(l)

Next ==
    \/ \E l \in Leg, st \in {"PDNG", "BOOK"} : Insert(l, st)
    \/ \E l \in Leg : Settle(l)
    \/ PassStep \/ AbandonPass
    \/ Request \/ Commit \/ CutShort

Spec == Init /\ [][Next]_vars

\* The thread of a pass runs whatever the person does.
FairSpec == Spec /\ WF_vars(PassStep)

-----------------------------------------------------------------------------
(* Properties.                                                             *)

Quiet == req = <<>> /\ ~torn
Cleared == {l \in Leg : side[l] = Clearing}

\* No half of a pair counts as spending and no leg is hidden without a partner:
\* between requests the legs on the clearing account are those of the live
\* links, each leg of one link (link_transfer_pair, set_transfer_review).
PairsCleared ==
    Quiet => \A l \in Leg :
        /\ Cardinality(Live(l)) <= 1
        /\ l \in Cleared <=> Live(l) # {}

\* transfer_amount_total
Amount == [l \in Leg |-> Facts[l].amount]
Total(S) == MapThenSumSet(LAMBDA l : Amount[l], S)

\* No money is lost between accounts: between requests the clearing account nets to
\* zero, whatever was paired, rejected or deleted before (transfer_amount_total).
ClearingNets == Quiet => Total(Cleared) = 0

\* A person's "no" to a pair outlives every pass: only another request of a
\* person changes or removes a rejected row (INSERT OR IGNORE, _candidates).
RejectionStands ==
    [][\A k \in links : k.verdict = "rejected" /\ req = <<>> => k \in links']_vars

\* A pass ends, whatever is deleted or paired while it runs.
PassEnds == pass # "idle" ~> pass = "idle"

-----------------------------------------------------------------------------
(* What the documentation says and the code does not do.                   *)

\* "The clearing account must always net to zero", when no request is open.
ClearingAlwaysNets == req = <<>> => Total(Cleared) = 0

\* "For everything else a rejected leg is free": deleting a leg changes nothing
\* of a pair it is not part of.
DeletionKeepsOtherPairs ==
    [][\A k \in links :
        (/\ k.verdict # "rejected" /\ ~torn
         /\ req # <<>> /\ Last(req).do = "remove" /\ Last(req).a \notin {k.a, k.b})
        => (req' # req => side'[k.a] = side[k.a] /\ side'[k.b] = side[k.b])]_vars
=============================================================================
