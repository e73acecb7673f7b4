-------------------------- MODULE TransfersProofs --------------------------
(***************************************************************************)
(* Theorems about the links between movements (module Transfers), for      *)
(* every set of legs, whatever the bank said of them, and any number of    *)
(* requests.                                                               *)
(***************************************************************************)
EXTENDS Transfers, FiniteSetTheorems, SequenceTheorems, TLAPS

-----------------------------------------------------------------------------
(* Types.                                                                  *)

\* A statement names legs.
LEMMA LegsOfTyped ==
    ASSUME NEW stmts \in Seq(Statement)
    PROVE  LegsOf(stmts) \subseteq Leg
BY DEF LegsOf, ToSet, Statement

LEMMA StatementsTyped ==
    ASSUME NEW a \in Leg, NEW b \in Leg
    PROVE  /\ \A v \in {"confirmed", "rejected"} : VerdictOn(a, b, v) \in Statement
           /\ \A c \in Side : SideOf(a, c) \in Statement
           /\ LinkOf(a, b) \in Statement
           /\ RemovalOf(a) \in Statement
BY DEF VerdictOn, SideOf, LinkOf, RemovalOf, Statement

LEMMA RejectTyped ==
    ASSUME NEW a \in Leg, NEW b \in Leg
    PROVE  RejectStatements(a, b) \in Seq(Statement)
BY StatementsTyped, SideAssumption DEF RejectStatements, Side

LEMMA LinksTyped ==
    ASSUME TypeOK, NEW a \in Leg, NEW b \in Leg
    PROVE  LET z == WithLink(a, b)
           IN  /\ z \subseteq [a: Leg, b: Leg, verdict: Verdict]
               /\ \A k \in z : \A m \in z : k.a = m.a /\ k.b = m.b => k = m
<1> DEFINE new == [a |-> a, b |-> b, verdict |-> "open"]
<1>1. new \in [a: Leg, b: Leg, verdict: Verdict]
  BY DEF Verdict
<1>2. CASE \E k \in links : <<k.a, k.b>> = <<a, b>>
  BY <1>2 DEF WithLink, TypeOK
<1>3. CASE ~\E k \in links : <<k.a, k.b>> = <<a, b>>
  BY <1>1, <1>3 DEF WithLink, TypeOK
<1>4. QED
  BY <1>2, <1>3

LEMMA SidesTyped ==
    ASSUME TypeOK, NEW S, NEW to \in Side \cup {None}, SetSide(S, to)
    PROVE  side' \in [Leg -> Side \cup {None}]
BY DEF SetSide, TypeOK

LEMMA AskStep ==
    ASSUME TypeOK, NEW stmts \in Seq(Statement), Ask(stmts), torn' \in BOOLEAN
    PROVE  TypeOK'
<1>1. LegsOf(stmts) \subseteq Leg
  BY LegsOfTyped
<1>2. QED
  BY <1>1 DEF TypeOK, Ask, passVars

LEMMA TornTyped ==
    ASSUME TypeOK, NEW p \in BOOLEAN, torn' = (torn \/ p)
    PROVE  torn' \in BOOLEAN
BY DEF TypeOK

LEMMA ElementTyped == ASSUME NEW S, NEW q \in Seq(S), NEW i \in 1..Len(q) PROVE q[i] \in S
OBVIOUS

LEMMA DeclarationTyped ==
    ASSUME NEW i \in 1..Len(Declarations)
    PROVE  /\ Declarations[i].to \in Destination
           /\ Declarations[i].legs \subseteq Leg
<1> DEFINE D == [to: Destination, legs: SUBSET Leg, incoming: BOOLEAN]
<1>1. Declarations \in Seq(D)
  BY DeclarationsAssumption
<1> HIDE DEF D
<1>2. Declarations[i] \in D
  BY <1>1, ElementTyped
<1>3. QED
  BY <1>2 DEF D

LEMMA PairsTyped == BestPairs \subseteq SUBSET (Leg \X Leg)
<1>1. Candidates \subseteq Leg
  BY DEF Candidates
<1>2. Edges \subseteq Leg \X Leg
  BY <1>1 DEF Edges
<1>3. QED
  BY <1>2 DEF BestPairs, Matchings

LEMMA EndTyped == ASSUME TypeOK, EndPass, UNCHANGED <<status, side, links, req, asked, torn>>
                  PROVE TypeOK'
BY DEF TypeOK, EndPass

LEMMA PassTyped == ASSUME TypeOK, PassStep PROVE TypeOK'
<1>1. CASE StartPass
  <2>1. pairs' \subseteq Leg \X Leg
    BY <1>1, PairsTyped DEF StartPass
  <2>2. LegsOf(req) \subseteq Leg
    BY LegsOfTyped DEF TypeOK
  <2>3. QED
    BY <1>1, <2>1, <2>2 DEF StartPass, TypeOK
<1>2. CASE LinkNext
  <2>1. PICK e \in pairs :
           \/ /\ LinkPair(e[1], e[2])
              /\ torn' = (torn \/ Raced({e[1], e[2]}))
              /\ pairs' = pairs \ {e}
              /\ UNCHANGED <<pass, turn, legs, req, asked, touched>>
           \/ AbortPass /\ UNCHANGED <<status, side, links, req, asked, torn>>
    BY <1>2 DEF LinkNext
  <2>2. e[1] \in Leg /\ e[2] \in Leg
    BY DEF TypeOK
  <2>3. CASE AbortPass /\ UNCHANGED <<status, side, links, req, asked, torn>>
    BY <2>3, EndTyped DEF AbortPass
  <2>4. CASE /\ LinkPair(e[1], e[2])
             /\ torn' = (torn \/ Raced({e[1], e[2]}))
             /\ pairs' = pairs \ {e}
             /\ UNCHANGED <<pass, turn, legs, req, asked, touched>>
    <3>1. side' \in [Leg -> Side \cup {None}]
      BY <2>4, SidesTyped DEF LinkPair, Side
    <3>2. torn' \in BOOLEAN
      BY <2>4, TornTyped DEF Raced
    <3>3. links' = WithLink(e[1], e[2]) /\ status' = status
      BY <2>4 DEF LinkPair
    <3>4. QED
      BY <2>2, <2>4, <3>1, <3>2, <3>3, LinksTyped DEF TypeOK
  <2>5. QED
    BY <2>1, <2>3, <2>4
<1>3. CASE ReadDeclared
  <2>1. turn' \in 1..Len(Declarations)
    BY <1>3, DeclarationsAssumption DEF ReadDeclared, TypeOK
  <2>2. Declarations[turn'].legs \subseteq Leg
    BY <2>1, DeclarationTyped
  <2>3. legs' \subseteq Leg
    BY <1>3, <2>2 DEF ReadDeclared, Declared
  <2>4. LegsOf(req) \subseteq Leg
    BY LegsOfTyped DEF TypeOK
  <2>5. QED
    BY <1>3, <2>1, <2>3, <2>4 DEF ReadDeclared, TypeOK
<1>4. CASE MoveNext
  <2>1. PICK l \in legs :
           \/ /\ SetSide({l}, Declarations[turn].to)
              /\ torn' = (torn \/ Raced({l}))
              /\ legs' = legs \ {l}
              /\ UNCHANGED <<status, links, pass, pairs, turn, req, asked, touched>>
           \/ AbortPass /\ UNCHANGED <<status, side, links, req, asked, torn>>
    BY <1>4 DEF MoveNext
  <2>2. CASE AbortPass /\ UNCHANGED <<status, side, links, req, asked, torn>>
    BY <2>2, EndTyped DEF AbortPass
  <2>3. CASE /\ SetSide({l}, Declarations[turn].to)
             /\ torn' = (torn \/ Raced({l}))
             /\ legs' = legs \ {l}
             /\ UNCHANGED <<status, links, pass, pairs, turn, req, asked, touched>>
    <3>1. Declarations[turn].to \in Destination
      BY DeclarationTyped, DeclarationsAssumption DEF TypeOK
    <3>2. Declarations[turn].to \in Side \cup {None}
      BY <3>1 DEF Side
    <3>3. side' \in [Leg -> Side \cup {None}]
      BY <2>3, <3>2, SidesTyped
    <3>4. QED
      BY <2>3, <3>3 DEF TypeOK
  <2>4. QED
    BY <2>1, <2>2, <2>3
<1>5. CASE FinishPass
  BY <1>5, EndTyped DEF FinishPass
<1>6. QED
  BY <1>1, <1>2, <1>3, <1>4, <1>5 DEF PassStep

\* What a leg's removal is preceded by.
LEMMA DeleteTyped ==
    ASSUME TypeOK, NEW l \in Leg, NEW stmts \in DeleteStatements(l)
    PROVE  stmts \in Seq(Statement)
<1>1. CASE Rows(l) = {}
  <2>1. stmts = <<RemovalOf(l)>>
    BY <1>1 DEF DeleteStatements
  <2>2. RemovalOf(l) \in Statement
    BY StatementsTyped
  <2>3. QED
    BY <2>1, <2>2
<1>2. CASE Rows(l) # {}
  <2>1. PICK k \in TransferLink(l) : stmts = Append(RejectStatements(k.a, k.b), RemovalOf(l))
    BY <1>2 DEF DeleteStatements
  <2>2. k.a \in Leg /\ k.b \in Leg
    BY DEF TransferLink, Live, Rows, TypeOK
  <2>3. QED
    BY <2>1, <2>2, RejectTyped, StatementsTyped
<1>3. QED
  BY <1>1, <1>2

\* A request never opens with anything but legs and sides.
LEMMA RequestTyped == ASSUME TypeOK, Request PROVE TypeOK'
<1>1. UNCHANGED torn => torn' \in BOOLEAN
  BY DEF TypeOK
<1>2. ASSUME NEW l \in Leg, NEW c \in Category \cup {Split}, Categorize(l, c) PROVE TypeOK'
  <2>1. <<SideOf(l, c)>> \in Seq(Statement)
    BY StatementsTyped DEF Side
  <2>2. QED
    BY <1>1, <1>2, <2>1, AskStep DEF Categorize
<1>3. ASSUME NEW a \in Leg, NEW b \in Leg, Confirm(a, b) PROVE TypeOK'
  <2>1. <<VerdictOn(a, b, "confirmed")>> \in Seq(Statement)
    BY StatementsTyped
  <2>2. torn' \in BOOLEAN
    BY <1>3, TornTyped DEF Confirm, AnswersRejected
  <2>3. QED
    BY <1>3, <2>1, <2>2, AskStep DEF Confirm
<1>4. ASSUME NEW a \in Leg, NEW b \in Leg, Reject(a, b) PROVE TypeOK'
  <2>1. torn' \in BOOLEAN
    BY <1>4, TornTyped DEF Reject, AnswersRejected
  <2>2. QED
    BY <1>4, <2>1, RejectTyped, AskStep DEF Reject
<1>5. ASSUME NEW a \in Leg, NEW b \in Leg, Pair(a, b) PROVE TypeOK'
  <2>1. PICK x \in Leg, y \in Leg : Ask(<<LinkOf(x, y), VerdictOn(x, y, "confirmed")>>)
    <3>1. \A k \in RowsOf(a, b) : k.a \in Leg /\ k.b \in Leg
      BY DEF RowsOf, TypeOK
    <3>2. QED
      BY <1>5, <3>1 DEF Pair
  <2>2. <<LinkOf(x, y), VerdictOn(x, y, "confirmed")>> \in Seq(Statement)
    BY StatementsTyped
  <2>3. QED
    BY <1>1, <1>5, <2>1, <2>2, AskStep DEF Pair
<1>6. ASSUME NEW l \in Leg, NEW d \in Destination, Passthrough(l, d) PROVE TypeOK'
  <2>1. <<SideOf(l, d)>> \in Seq(Statement)
    BY StatementsTyped DEF Side
  <2>2. QED
    BY <1>1, <1>6, <2>1, AskStep DEF Passthrough
<1>7. ASSUME NEW l \in Leg, Unlink(l) PROVE TypeOK'
  <2>1. <<SideOf(l, Uncategorized)>> \in Seq(Statement)
    BY StatementsTyped, SideAssumption DEF Side
  <2>2. \A k \in TransferLink(l) : RejectStatements(k.a, k.b) \in Seq(Statement)
    BY RejectTyped DEF TransferLink, Live, Rows, TypeOK
  <2>3. QED
    BY <1>1, <1>7, <2>1, <2>2, AskStep DEF Unlink
<1>8. ASSUME NEW l \in Leg, Delete(l) PROVE TypeOK'
  BY <1>1, <1>8, DeleteTyped, AskStep DEF Delete
<1>9. QED
  BY <1>2, <1>3, <1>4, <1>5, <1>6, <1>7, <1>8 DEF Request

LEMMA VerdictTyped ==
    ASSUME TypeOK, NEW a \in Leg, NEW b \in Leg, NEW v \in Verdict
    PROVE  LET z == WithVerdict(a, b, v)
           IN  /\ z \subseteq [a: Leg, b: Leg, verdict: Verdict]
               /\ \A k \in z : \A m \in z : k.a = m.a /\ k.b = m.b => k = m
<1> DEFINE After(k) == IF k \in RowsOf(a, b) THEN [k EXCEPT !.verdict = v] ELSE k
<1>1. \A k \in links : /\ After(k) \in [a: Leg, b: Leg, verdict: Verdict]
                       /\ After(k).a = k.a /\ After(k).b = k.b
  BY DEF TypeOK
<1>2. QED
  BY <1>1 DEF TypeOK, WithVerdict

LEMMA CommitTyped == ASSUME TypeOK, Commit PROVE TypeOK'
<1> DEFINE s == Head(req)
<1>1. req # <<>> /\ s \in Statement /\ Tail(req) \in Seq(Statement)
  BY DEF Commit, TypeOK
<1>2. s.a \in Leg /\ s.b \in Leg
  BY <1>1 DEF Statement
<1>3. torn' \in BOOLEAN
  <2>1. torn' = (torn \/ FreesPaired(s))
    BY DEF Commit
  <2>2. QED
    BY <2>1, TornTyped DEF FreesPaired
<1>4. status' \in [Leg -> {"absent", "PDNG", "BOOK", "deleted"}]
      /\ side' \in [Leg -> Side \cup {None}]
      /\ links' \subseteq [a: Leg, b: Leg, verdict: Verdict]
      /\ \A k \in links' : \A m \in links' : k.a = m.a /\ k.b = m.b => k = m
  <2>1. CASE s.do = "link"
    <3>1. LinkPair(s.a, s.b)
      BY <2>1 DEF Commit
    <3>2. side' \in [Leg -> Side \cup {None}]
      BY <3>1, SidesTyped DEF LinkPair, Side
    <3>3. QED
      BY <1>2, <3>1, <3>2, LinksTyped DEF LinkPair, TypeOK
  <2>2. CASE s.do = "side"
    <3>1. SetSide({s.a}, s.to) /\ UNCHANGED <<status, links>>
      BY <2>2 DEF Commit
    <3>2. s.to \in Side
      BY <1>1, <2>2 DEF Statement
    <3>3. side' \in [Leg -> Side \cup {None}]
      BY <3>1, <3>2, SidesTyped
    <3>4. QED
      BY <3>1, <3>3 DEF TypeOK
  <2>3. CASE s.do = "verdict"
    <3>1. s.to \in Verdict
      BY <1>1, <2>3 DEF Statement, Verdict
    <3>2. /\ links' = WithVerdict(s.a, s.b, s.to)
          /\ UNCHANGED <<status, side>>
      BY <2>3 DEF Commit
    <3>3. QED
      BY <1>2, <3>1, <3>2, VerdictTyped DEF TypeOK
  <2>4. CASE s.do = "remove"
    <3>1. /\ status' = [status EXCEPT ![s.a] = "deleted"]
          /\ SetSide({s.a}, None)
          /\ links' = links \ Rows(s.a)
      BY <2>4 DEF Commit
    <3>2. side' \in [Leg -> Side \cup {None}]
      BY <3>1, SidesTyped
    <3>3. QED
      BY <1>2, <3>1, <3>2 DEF TypeOK
  <2>5. QED
    BY <1>1, <2>1, <2>2, <2>3, <2>4 DEF Statement
<1>5. QED
  BY <1>1, <1>3, <1>4 DEF Commit, TypeOK, passVars

LEMMA TypeStep == ASSUME TypeOK, [Next]_vars PROVE TypeOK'
<1>1. CASE UNCHANGED vars
  BY <1>1 DEF vars, TypeOK
<1>2. ASSUME NEW l \in Leg, NEW st \in {"PDNG", "BOOK"}, Insert(l, st) PROVE TypeOK'
  <2>1. side' \in [Leg -> Side \cup {None}]
    BY <1>2, SidesTyped, SideAssumption DEF Insert, Side
  <2>2. QED
    BY <1>2, <2>1 DEF Insert, TypeOK, passVars
<1>3. ASSUME NEW l \in Leg, Settle(l) PROVE TypeOK'
  <2>1. side' \in [Leg -> Side \cup {None}]
    BY <1>3, SidesTyped, SideAssumption DEF Settle, Side
  <2>2. torn' \in BOOLEAN
    BY <1>3, TornTyped DEF Settle, SettlesPaired
  <2>3. QED
    BY <1>3, <2>1, <2>2 DEF Settle, TypeOK, passVars
<1>4. CASE AbandonPass
  BY <1>4, EndTyped DEF AbandonPass
<1>5. CASE CutShort
  BY <1>5 DEF CutShort, TypeOK, passVars
<1>6. QED
  BY <1>1, <1>2, <1>3, <1>4, <1>5, PassTyped, RequestTyped, CommitTyped DEF Next

\* Whatever the interleaving, the tables, the pass and the open request keep
\* their types, and a pair has one row.
THEOREM TypeCorrect == Spec => []TypeOK
<1>1. Init => TypeOK
  <2>1. Len(Declarations) \in Nat
    BY DeclarationsAssumption
  <2>2. 0 \in 0..Len(Declarations)
    BY <2>1
  <2>3. <<>> \in Seq(Statement)
    OBVIOUS
  <2>4. SUFFICES ASSUME Init PROVE TypeOK
    OBVIOUS
  <2>5. status \in [Leg -> {"absent", "PDNG", "BOOK", "deleted"}]
    BY <2>4 DEF Init
  <2>6. side \in [Leg -> Side \cup {None}]
    BY <2>4 DEF Init
  <2>7. torn \in BOOLEAN /\ asked \in Nat /\ req \in Seq(Statement)
    BY <2>3, <2>4 DEF Init
  <2>8. /\ turn \in 0..Len(Declarations) /\ legs = {} /\ links = {}
        /\ pairs = {} /\ touched = {} /\ pass = "idle"
    BY <2>2, <2>4 DEF Init
  <2>9. QED
    BY <2>5, <2>6, <2>7, <2>8 DEF TypeOK
<1>2. QED
  BY <1>1, TypeStep, PTL DEF Spec

-----------------------------------------------------------------------------
(* A person's no.                                                          *)

\* No pass, however it races a request, changes or removes a rejected row: only
\* a person's next request does.
THEOREM NoStands == Spec => RejectionStands
<1>1. ASSUME [Next]_vars, req = <<>>
      PROVE  links \subseteq links'
  <2>1. \A a, b : LinkPair(a, b) => links \subseteq links'
    BY DEF LinkPair, WithLink
  <2>2. CASE PassStep
    BY <2>1, <2>2 DEF PassStep, StartPass, LinkNext, ReadDeclared, MoveNext, FinishPass,
       AbortPass, EndPass
  <2>3. CASE Request
    BY <2>3 DEF Request, Categorize, Confirm, Reject, Pair, Passthrough, Unlink, Delete, Ask
  <2>4. QED
    BY <1>1, <2>2, <2>3 DEF Next, vars, Insert, Settle, AbandonPass, Commit, CutShort
<1>2. [Next]_vars => [\A k \in links : k.verdict = "rejected" /\ req = <<>> => k \in links']_vars
  BY <1>1
<1>3. QED
  BY <1>2, PTL DEF Spec, RejectionStands

-----------------------------------------------------------------------------
(* The clearing account: what holds until one of the named disturbances.   *)

\* A leg no statement is pending for is cleared exactly while it is in a link
\* that is not rejected, and there is one such link at most.
SoundLeg(l) ==
    /\ \A k, m \in Live(l) : k = m
    /\ side[l] = Clearing <=> Live(l) # {}
SoundInv == \A l \in Leg \ LegsOf(req) : SoundLeg(l)

\* A link joins two movements of the ledger, and two movements have one link,
\* whichever of them came first.
LinksInv ==
    /\ \A k \in links : k.a # k.b /\ Present(k.a) /\ Present(k.b)
    /\ \A k, m \in links : {k.a, k.b} = {m.a, m.b} => k = m

\* What the pass read is still so of the legs no request has met since.
PassInv ==
    /\ pass # "idle" => LegsOf(req) \subseteq touched
    /\ pass = "linking" => \A e \in pairs :
          /\ e[1] # e[2]
          /\ \A f \in pairs : e = f \/ {e[1], e[2]} \cap {f[1], f[2]} = {}
          /\ \A l \in {e[1], e[2]} \ touched : Rows(l) = {}
    /\ pass = "moving" => \A l \in legs \ touched : Live(l) = {}

\* What is left of each request, and what its first statement finds.  `l` is
\* the leg that a deletion removes at its end.
SideLeft(l, c) == req = <<SideOf(l, c)>> /\ c # Clearing /\ Live(l) = {}
VerdictLeft(a, b) ==
    /\ req = <<VerdictOn(a, b, "confirmed")>>
    /\ RowsOf(a, b) # {} /\ Live(a) \cup Live(b) \subseteq RowsOf(a, b)
    /\ side[a] = Clearing /\ side[b] = Clearing
LinkLeft(a, b) ==
    /\ req = <<LinkOf(a, b), VerdictOn(a, b, "confirmed")>>
    /\ Live(a) = {} /\ Live(b) = {} /\ \A k \in RowsOf(a, b) : k.a = a
RejectLeft(a, b) ==
    req = RejectStatements(a, b) /\ Live(a) \cup Live(b) \subseteq RowsOf(a, b)
SidesLeft(a, b) ==
    /\ req = <<SideOf(a, Uncategorized), SideOf(b, Uncategorized)>>
    /\ Live(a) = {} /\ Live(b) = {}
DeleteLeft(a, b, l) ==
    /\ req = Append(RejectStatements(a, b), RemovalOf(l))
    /\ l \in {a, b} /\ Live(l) \subseteq RowsOf(a, b)
FreesLeft(a, b, l) ==
    /\ req = <<SideOf(a, Uncategorized), SideOf(b, Uncategorized), RemovalOf(l)>>
    /\ Live(l) = {}
FreeLeft(b, l) ==
    req = <<SideOf(b, Uncategorized), RemovalOf(l)>> /\ Live(l) = {}
RemovalLeft(l) == req = <<RemovalOf(l)>> /\ Live(l) = {}

ReqInv ==
    /\ \A l \in LegsOf(req) : Present(l)
    /\ \/ req = <<>>
       \/ \E l \in Leg : RemovalLeft(l) \/ \E c \in Side : SideLeft(l, c)
       \/ \E a, b \in Leg : /\ a # b
                            /\ \/ VerdictLeft(a, b) \/ LinkLeft(a, b)
                               \/ RejectLeft(a, b) \/ SidesLeft(a, b)
       \/ \E a, b, l \in Leg : a # b /\ (DeleteLeft(a, b, l) \/ FreesLeft(a, b, l))
       \/ \E b, l \in Leg : FreeLeft(b, l)

Undisturbed == SoundInv /\ LinksInv /\ PassInv /\ ReqInv
UntornInv == ~torn => Undisturbed

-----------------------------------------------------------------------------
(* Reading a request from its front.                                       *)

LEMMA NothingLeft == LegsOf(<<>>) = {}
BY DEF LegsOf, ToSet

LEMMA OneLeft ==
    ASSUME NEW w
    PROVE  /\ Head(<<w>>) = w /\ Tail(<<w>>) = <<>> /\ Last(<<w>>) = w
           /\ LegsOf(<<w>>) = {w.a, w.b}
<1>1. ToSet(<<w>>) = {w}
  BY DEF ToSet
<1>2. QED
  BY <1>1 DEF LegsOf, Last

LEMMA TwoLeft ==
    ASSUME NEW w, NEW x
    PROVE  /\ Head(<<w, x>>) = w /\ Tail(<<w, x>>) = <<x>> /\ Last(<<w, x>>) = x
           /\ LegsOf(<<w, x>>) = {w.a, w.b, x.a, x.b}
<1>1. ToSet(<<w, x>>) = {w, x}
  BY DEF ToSet
<1>2. LegsOf(<<w, x>>) = {w.a, w.b, x.a, x.b}
  BY <1>1 DEF LegsOf
<1>3. QED
  BY <1>2 DEF Last

LEMMA ThreeLeft ==
    ASSUME NEW w, NEW x, NEW y
    PROVE  /\ Head(<<w, x, y>>) = w /\ Tail(<<w, x, y>>) = <<x, y>> /\ Last(<<w, x, y>>) = y
           /\ LegsOf(<<w, x, y>>) = {w.a, w.b, x.a, x.b, y.a, y.b}
<1>1. ToSet(<<w, x, y>>) = {w, x, y}
  BY DEF ToSet
<1>2. LegsOf(<<w, x, y>>) = {w.a, w.b, x.a, x.b, y.a, y.b}
  BY <1>1 DEF LegsOf
<1>3. QED
  BY <1>2 DEF Last

LEMMA FourLeft ==
    ASSUME NEW w, NEW x, NEW y, NEW z
    PROVE  /\ Head(<<w, x, y, z>>) = w /\ Tail(<<w, x, y, z>>) = <<x, y, z>>
           /\ Last(<<w, x, y, z>>) = z
           /\ LegsOf(<<w, x, y, z>>) = {w.a, w.b, x.a, x.b, y.a, y.b, z.a, z.b}
<1>1. ToSet(<<w, x, y, z>>) = {w, x, y, z}
  BY DEF ToSet
<1>2. LegsOf(<<w, x, y, z>>) = {w.a, w.b, x.a, x.b, y.a, y.b, z.a, z.b}
  BY <1>1 DEF LegsOf
<1>3. QED
  BY <1>2 DEF Last

LEMMA AppendFourth ==
    ASSUME NEW w, NEW x, NEW y, NEW z
    PROVE  Append(<<w, x, y>>, z) = <<w, x, y, z>>
<1> DEFINE p == Append(<<w, x, y>>, z)
           q == <<w, x, y, z>>
           S == {w, x, y, z}
<1>1. <<w, x, y>> \in Seq(S) /\ q \in Seq(S) /\ Len(<<w, x, y>>) = 3 /\ Len(q) = 4
  OBVIOUS
<1>2. p \in Seq(S) /\ Len(p) = 4
  BY <1>1
<1>3. \A i \in 1..4 : p[i] = q[i]
  BY <1>1
<1> HIDE DEF p, q, S
<1>4. p = q
  BY <1>1, <1>2, <1>3, SeqEqual
<1>5. QED
  BY <1>4 DEF p, q

-----------------------------------------------------------------------------
(* What each statement does to the links of a leg.                         *)

\* A leg that a statement does not name keeps its links and its side.
LEMMA WithLinkElsewhere ==
    ASSUME NEW a, NEW b, links' = WithLink(a, b), NEW l, l \notin {a, b}
    PROVE  Rows(l)' = Rows(l) /\ Live(l)' = Live(l)
BY DEF WithLink, Rows, Live

LEMMA WithVerdictElsewhere ==
    ASSUME NEW a, NEW b, NEW v, links' = WithVerdict(a, b, v), NEW l, l \notin {a, b}
    PROVE  Rows(l)' = Rows(l) /\ Live(l)' = Live(l)
<1>1. \A k \in RowsOf(a, b) : l \notin {k.a, k.b}
  BY DEF RowsOf
<1>2. \A k \in RowsOf(a, b) : [k EXCEPT !.verdict = v].a = k.a /\ [k EXCEPT !.verdict = v].b = k.b
  OBVIOUS
<1>3. Rows(l)' = Rows(l)
  BY <1>1, <1>2 DEF WithVerdict, Rows
<1>4. QED
  BY <1>3 DEF Live

LEMMA RemovalElsewhere ==
    ASSUME NEW x, links' = links \ Rows(x), Live(x) = {}, NEW l
    PROVE  Rows(l)' \subseteq Rows(l) /\ Live(l)' = Live(l)
BY DEF Rows, Live

LEMMA SideOfLegs ==
    ASSUME TypeOK, NEW S, NEW to, SetSide(S, to), NEW l \in Leg
    PROVE  side'[l] = IF l \in S THEN to ELSE side[l]
BY DEF SetSide

\* The two legs of a new or a renewed pair are in no other live link.
LEMMA LinkPairLinks ==
    ASSUME TypeOK, LinksInv, NEW a \in Leg, NEW b \in Leg, a # b, Present(a), Present(b),
           LinkPair(a, b), Live(a) = {}, Live(b) = {}, \A k \in RowsOf(a, b) : k.a = a
    PROVE  /\ LinksInv'
           /\ RowsOf(a, b)' # {} /\ Live(a)' \cup Live(b)' \subseteq RowsOf(a, b)'
           /\ side'[a] = Clearing /\ side'[b] = Clearing
           /\ RowsOf(a, b) = {} => SoundLeg(a)' /\ SoundLeg(b)'
<1> DEFINE new == [a |-> a, b |-> b, verdict |-> "open"]
<1>1. links' = WithLink(a, b) /\ SetSide({a, b}, Clearing) /\ status' = status
  BY DEF LinkPair
<1>2. side'[a] = Clearing /\ side'[b] = Clearing
  BY <1>1, SideOfLegs
<1>3. CASE \E k \in links : <<k.a, k.b>> = <<a, b>>
  <2>1. links' = links
    BY <1>1, <1>3 DEF WithLink
  <2>2. PICK k \in links : k.a = a /\ k.b = b
    BY <1>3
  <2>3. k \in RowsOf(a, b)
    BY <2>2 DEF RowsOf
  <2>4. QED
    BY <1>1, <1>2, <2>1, <2>3 DEF LinksInv, Present, RowsOf, Live, Rows
<1>4. CASE ~\E k \in links : <<k.a, k.b>> = <<a, b>>
  <2>1. links' = links \cup {new}
    BY <1>1, <1>4 DEF WithLink
  <2>2. RowsOf(a, b) = {}
    <3>1. SUFFICES ASSUME NEW k \in RowsOf(a, b) PROVE FALSE
      OBVIOUS
    <3>2. k \in links /\ {k.a, k.b} = {a, b} /\ k.a = a
      BY DEF RowsOf
    <3>3. k.b = b
      BY <3>2
    <3>4. QED
      BY <1>4, <3>2, <3>3
  <2>3. new.a = a /\ new.b = b /\ new.verdict = "open"
    OBVIOUS
  <2>4. LinksInv'
    <3>1. \A k \in links' : k.a # k.b /\ Present(k.a)' /\ Present(k.b)'
      BY <1>1, <2>1, <2>3 DEF LinksInv, Present
    <3>2. \A k, m \in links' : {k.a, k.b} = {m.a, m.b} => k = m
      BY <2>1, <2>2, <2>3 DEF LinksInv, RowsOf
    <3>3. QED
      BY <3>1, <3>2 DEF LinksInv
  <2>5. Live(a)' = {new} /\ Live(b)' = {new}
    BY <2>1, <2>3 DEF Live, Rows
  <2>6. new \in RowsOf(a, b)'
    BY <2>1, <2>3 DEF RowsOf
  <2>7. QED
    BY <1>2, <2>4, <2>5, <2>6 DEF SoundLeg
<1>5. QED
  BY <1>3, <1>4

\* A verdict changes none of the links but those of the pair.
LEMMA VerdictLinks ==
    ASSUME TypeOK, LinksInv, NEW a \in Leg, NEW b \in Leg, NEW v \in {"confirmed", "rejected"},
           links' = WithVerdict(a, b, v), status' = status
    PROVE  /\ LinksInv'
           /\ v = "rejected" => /\ Live(a)' = Live(a) \ RowsOf(a, b)
                                /\ Live(b)' = Live(b) \ RowsOf(a, b)
           /\ (/\ v = "confirmed" /\ RowsOf(a, b) # {}
               /\ Live(a) \cup Live(b) \subseteq RowsOf(a, b))
              => \E k : Live(a)' = {k} /\ Live(b)' = {k}
<1> DEFINE After(k) == IF k \in RowsOf(a, b) THEN [k EXCEPT !.verdict = v] ELSE k
<1>1. \A k \in links : After(k).a = k.a /\ After(k).b = k.b
  BY DEF TypeOK
<1>2. \A k \in RowsOf(a, b) : k \in links /\ {k.a, k.b} = {a, b} /\ After(k).verdict = v
  BY DEF RowsOf, TypeOK
<1>3. links' = {After(k) : k \in links}
  BY DEF WithVerdict
<1>4. LinksInv'
  <2> DEFINE there(l) == status'[l] \in {"PDNG", "BOOK"}
  <2>1. \A k \in links : After(k).a # After(k).b /\ there(After(k).a) /\ there(After(k).b)
    <3> HIDE DEF After
    <3>1. QED
      BY <1>1 DEF LinksInv, Present
  <2>2. \A k, m \in links :
           {After(k).a, After(k).b} = {After(m).a, After(m).b} => After(k) = After(m)
    <3> HIDE DEF After
    <3>1. QED
      BY <1>1 DEF LinksInv
  <2> HIDE DEF After
  <2>3. QED
    BY <1>3, <2>1, <2>2 DEF LinksInv, Present
<1>5. ASSUME v = "rejected", NEW l \in {a, b} PROVE Live(l)' = Live(l) \ RowsOf(a, b)
  <2>1. \A k \in links : k \notin RowsOf(a, b) => After(k) = k
    OBVIOUS
  <2>2. \A k \in RowsOf(a, b) : After(k).verdict = "rejected"
    BY <1>2, <1>5
  <2> HIDE DEF After
  <2>3. Live(l)' \subseteq Live(l) \ RowsOf(a, b)
    BY <1>3, <2>1, <2>2 DEF Live, Rows
  <2>4. Live(l) \ RowsOf(a, b) \subseteq Live(l)'
    BY <1>3, <2>1 DEF Live, Rows
  <2>5. QED
    BY <2>3, <2>4
<1>6. ASSUME v = "confirmed", RowsOf(a, b) # {}, Live(a) \cup Live(b) \subseteq RowsOf(a, b)
      PROVE  \E k : Live(a)' = {k} /\ Live(b)' = {k}
  <2>1. PICK k \in RowsOf(a, b) : \A m \in RowsOf(a, b) : m = k
    BY <1>6 DEF RowsOf, LinksInv
  <2>2. After(k) \in links' /\ a \in {After(k).a, After(k).b} /\ b \in {After(k).a, After(k).b}
    BY <1>1, <1>2, <1>3, <2>1
  <2>3. ASSUME NEW l \in {a, b} PROVE Live(l)' = {After(k)}
    <3>1. After(k) \in Live(l)'
      BY <1>2, <1>6, <2>1, <2>2 DEF Live, Rows
    <3>2. ASSUME NEW m \in links, After(m) \in Live(l)' PROVE m = k
      <4>1. l \in {m.a, m.b} /\ After(m).verdict # "rejected"
        BY <1>1, <3>2 DEF Live, Rows
      <4>2. m \in RowsOf(a, b)
        BY <1>6, <4>1 DEF Live, Rows
      <4>3. QED
        BY <2>1, <4>2
    <3>3. \A n \in Live(l)' : \E m \in links : n = After(m)
      <4> HIDE DEF After
      <4>1. QED
        BY <1>3 DEF Live, Rows
    <3> HIDE DEF After
    <3>4. QED
      BY <3>1, <3>2, <3>3
  <2>4. QED
    BY <2>3
<1>7. QED
  BY <1>4, <1>5, <1>6

-----------------------------------------------------------------------------
(* The next statement of a request.                                        *)

\* What the pass read is not disturbed by a change of legs it knows are touched.
LEMMA PassFrame ==
    ASSUME TypeOK, PassInv, UNCHANGED <<passVars, touched>>, LegsOf(req') \subseteq LegsOf(req),
           \A x \in Leg \ LegsOf(req) :
              /\ Rows(x) = {} => Rows(x)' = {}
              /\ Live(x)' = Live(x)
    PROVE  PassInv'
<1>1. pass' = pass /\ pairs' = pairs /\ legs' = legs /\ touched' = touched
  BY DEF passVars
<1>2. pass # "idle" => LegsOf(req) \subseteq touched
  BY DEF PassInv
<1>3. (pass # "idle" => LegsOf(req) \subseteq touched)'
  BY <1>1, <1>2
<1>4. ASSUME pass = "linking", NEW e \in pairs, NEW l \in {e[1], e[2]} \ touched
      PROVE  Rows(l)' = {}
  <2>1. l \in Leg
    BY DEF TypeOK
  <2>2. l \notin LegsOf(req) /\ Rows(l) = {}
    BY <1>2, <1>4 DEF PassInv
  <2>3. QED
    BY <2>1, <2>2
<1>5. ASSUME pass = "moving", NEW l \in legs \ touched PROVE Live(l)' = {}
  <2>1. l \in Leg
    BY DEF TypeOK
  <2>2. l \notin LegsOf(req) /\ Live(l) = {}
    BY <1>2, <1>5 DEF PassInv
  <2>3. QED
    BY <2>1, <2>2
<1>6. QED
  BY <1>1, <1>3, <1>4, <1>5 DEF PassInv

\* A statement changes nothing of the legs it does not name.
LEMMA CommitElsewhere ==
    ASSUME TypeOK, SoundInv, PassInv, Commit, NEW s \in Statement, NEW rest,
           Head(req) = s, Tail(req) = rest,
           s.a \in LegsOf(req), s.b \in LegsOf(req), LegsOf(rest) \subseteq LegsOf(req),
           s.do = "remove" => Live(s.a) = {}
    PROVE  /\ PassInv' /\ req' = rest
           /\ \A x \in Leg \ {s.a, s.b} :
                 /\ Live(x)' = Live(x) /\ side'[x] = side[x]
                 /\ SoundLeg(x) => SoundLeg(x)'
           /\ \A x \in Leg \ LegsOf(req) : SoundLeg(x)'
<1>1. ASSUME NEW x \in Leg \ {s.a, s.b}
      PROVE  /\ Live(x)' = Live(x) /\ side'[x] = side[x]
             /\ Rows(x) = {} => Rows(x)' = {}
  <2>1. CASE s.do = "link"
    <3>1. links' = WithLink(s.a, s.b) /\ SetSide({s.a, s.b}, Clearing)
      BY <2>1 DEF Commit, LinkPair
    <3>2. QED
      BY <3>1, WithLinkElsewhere, SideOfLegs
  <2>2. CASE s.do = "side"
    <3>1. links' = links /\ SetSide({s.a}, s.to)
      BY <2>2 DEF Commit
    <3>2. QED
      BY <3>1, SideOfLegs DEF Rows, Live
  <2>3. CASE s.do = "verdict"
    <3>1. links' = WithVerdict(s.a, s.b, s.to) /\ side' = side
      BY <2>3 DEF Commit
    <3>2. QED
      BY <3>1, WithVerdictElsewhere
  <2>4. CASE s.do = "remove"
    <3>1. links' = links \ Rows(s.a) /\ SetSide({s.a}, None)
      BY <2>4 DEF Commit
    <3>2. Rows(x)' \subseteq Rows(x) /\ Live(x)' = Live(x)
      BY <2>4, <3>1, RemovalElsewhere
    <3>3. QED
      BY <3>1, <3>2, SideOfLegs
  <2>5. QED
    BY <2>1, <2>2, <2>3, <2>4 DEF Statement
<1>2. \A x \in Leg \ {s.a, s.b} : SoundLeg(x) => SoundLeg(x)'
  BY <1>1 DEF SoundLeg
<1>3. req' = rest /\ UNCHANGED <<passVars, touched>>
  BY DEF Commit
<1>4. LegsOf(req') \subseteq LegsOf(req)
  BY <1>3
<1>5. PassInv'
  BY <1>1, <1>3, <1>4, PassFrame
<1>6. \A x \in Leg \ LegsOf(req) : SoundLeg(x)'
  BY <1>2 DEF SoundInv
<1>7. QED
  BY <1>1, <1>2, <1>3, <1>5, <1>6

\* A leg gets its category, which it can only keep if it is in no live link: a
\* deletion that meets one is a disturbance.
LEMMA CommitSide ==
    ASSUME TypeOK, Undisturbed, Commit, ~torn', NEW l \in Leg, NEW c \in Side, NEW rest,
           Head(req) = SideOf(l, c), Tail(req) = rest, LegsOf(req) = {l} \cup LegsOf(rest),
           c # Clearing, Live(l) = {} \/ Last(req).do = "remove"
    PROVE  /\ SoundInv' /\ LinksInv' /\ PassInv' /\ req' = rest
           /\ \A x \in LegsOf(rest) : Present(x)'
           /\ \A x : Live(x)' = Live(x)
           /\ Live(l) = {}
<1> DEFINE s == SideOf(l, c)
<1>1. s \in Statement /\ s.do = "side" /\ s.a = l /\ s.b = l /\ s.to = c
  BY StatementsTyped DEF SideOf
<1> HIDE DEF s
<1>2. torn' = (torn \/ FreesPaired(s)) /\ SetSide({l}, c) /\ UNCHANGED <<status, links>>
  BY <1>1 DEF Commit, s
<1>3. Live(l) = {}
  BY <1>1, <1>2 DEF FreesPaired
<1>4. \A x : Live(x)' = Live(x)
  BY <1>2 DEF Live, Rows
<1>5. LinksInv'
  BY <1>2 DEF Undisturbed, LinksInv, Present
<1>6. /\ PassInv' /\ req' = rest
      /\ \A x \in Leg \ LegsOf(req) : SoundLeg(x)'
  BY <1>1, CommitElsewhere DEF Undisturbed, s
<1>7. SoundLeg(l)'
  BY <1>2, <1>3, <1>4, SideOfLegs DEF SoundLeg
<1>8. SoundInv'
  BY <1>6, <1>7 DEF SoundInv
<1>9. \A x \in LegsOf(rest) : Present(x)'
  BY <1>2 DEF Undisturbed, ReqInv, Present
<1>10. QED
  BY <1>3, <1>4, <1>5, <1>6, <1>8, <1>9

\* A refusal takes the pair's link from both legs, which are to get a category.
LEMMA CommitReject ==
    ASSUME TypeOK, Undisturbed, Commit, NEW a \in Leg, NEW b \in Leg, NEW rest,
           Head(req) = VerdictOn(a, b, "rejected"), Tail(req) = rest,
           LegsOf(req) = LegsOf(rest), a \in LegsOf(rest), b \in LegsOf(rest)
    PROVE  /\ SoundInv' /\ LinksInv' /\ PassInv' /\ req' = rest
           /\ \A x \in LegsOf(rest) : Present(x)'
           /\ \A x \in {a, b} : Live(x)' = Live(x) \ RowsOf(a, b)
<1> DEFINE s == VerdictOn(a, b, "rejected")
<1>1. s \in Statement /\ s.do = "verdict" /\ s.a = a /\ s.b = b /\ s.to = "rejected"
  BY StatementsTyped DEF VerdictOn
<1> HIDE DEF s
<1>2. links' = WithVerdict(a, b, "rejected") /\ status' = status
  BY <1>1 DEF Commit, s
<1>3. LinksInv' /\ \A x \in {a, b} : Live(x)' = Live(x) \ RowsOf(a, b)
  BY <1>2, VerdictLinks DEF Undisturbed
<1>4. /\ PassInv' /\ req' = rest
      /\ \A x \in Leg \ LegsOf(req) : SoundLeg(x)'
  BY <1>1, CommitElsewhere DEF Undisturbed, s
<1>5. SoundInv'
  BY <1>4 DEF SoundInv
<1>6. \A x \in LegsOf(rest) : Present(x)'
  BY <1>2 DEF Undisturbed, ReqInv, Present
<1>7. QED
  BY <1>3, <1>4, <1>5, <1>6

\* A confirmation closes a request: the pair is live on both of its legs.
LEMMA CommitConfirm ==
    ASSUME TypeOK, Undisturbed, Commit, NEW a \in Leg, NEW b \in Leg, VerdictLeft(a, b)
    PROVE  Undisturbed'
<1> DEFINE s == VerdictOn(a, b, "confirmed")
<1>1. s \in Statement /\ s.do = "verdict" /\ s.a = a /\ s.b = b /\ s.to = "confirmed"
  BY StatementsTyped DEF VerdictOn
<1>2. Head(req) = s /\ Tail(req) = <<>> /\ LegsOf(<<>>) = {} /\ LegsOf(req) = {a, b}
  BY <1>1, OneLeft, NothingLeft DEF VerdictLeft
<1> HIDE DEF s
<1>3. links' = WithVerdict(a, b, "confirmed") /\ status' = status /\ side' = side
  BY <1>1, <1>2 DEF Commit
<1>4. LinksInv' /\ \E k : Live(a)' = {k} /\ Live(b)' = {k}
  BY <1>3, VerdictLinks DEF Undisturbed, VerdictLeft
<1>5. SoundLeg(a)' /\ SoundLeg(b)'
  BY <1>3, <1>4 DEF SoundLeg, VerdictLeft
<1>6. /\ PassInv' /\ req' = <<>>
      /\ \A x \in Leg \ LegsOf(req) : SoundLeg(x)'
  BY <1>1, <1>2, CommitElsewhere DEF Undisturbed
<1>7. SoundInv'
  BY <1>2, <1>5, <1>6 DEF SoundInv
<1>8. ReqInv'
  BY <1>2, <1>6 DEF ReqInv
<1>9. QED
  BY <1>4, <1>6, <1>7, <1>8 DEF Undisturbed

\* A pair a person makes is linked, and then confirmed.
LEMMA CommitLink ==
    ASSUME TypeOK, Undisturbed, Commit, NEW a \in Leg, NEW b \in Leg, a # b, LinkLeft(a, b)
    PROVE  Undisturbed'
<1> DEFINE s    == LinkOf(a, b)
           rest == <<VerdictOn(a, b, "confirmed")>>
<1>1. s \in Statement /\ s.do = "link" /\ s.a = a /\ s.b = b
  BY StatementsTyped DEF LinkOf
<1>2. /\ Head(req) = s /\ Tail(req) = rest /\ LegsOf(rest) = {a, b} /\ LegsOf(req) = {a, b}
  <2>1. VerdictOn(a, b, "confirmed").a = a /\ VerdictOn(a, b, "confirmed").b = b
    BY DEF VerdictOn
  <2>2. QED
    BY <1>1, <2>1, OneLeft, TwoLeft DEF LinkLeft
<1> HIDE DEF s
<1>3. LinkPair(a, b)
  BY <1>1, <1>2 DEF Commit
<1>4. Present(a) /\ Present(b)
  BY <1>2 DEF Undisturbed, ReqInv
<1>5. /\ LinksInv' /\ side'[a] = Clearing /\ side'[b] = Clearing
      /\ RowsOf(a, b)' # {} /\ Live(a)' \cup Live(b)' \subseteq RowsOf(a, b)'
  BY <1>3, <1>4, LinkPairLinks DEF Undisturbed, LinkLeft
<1>6. /\ PassInv' /\ req' = rest
      /\ \A x \in Leg \ LegsOf(req) : SoundLeg(x)'
  BY <1>1, <1>2, CommitElsewhere DEF Undisturbed
<1>7. SoundInv'
  BY <1>2, <1>6 DEF SoundInv
<1>8. VerdictLeft(a, b)'
  BY <1>5, <1>6 DEF VerdictLeft
<1>9. \A x \in LegsOf(rest) : Present(x)'
  BY <1>2, <1>3, <1>4 DEF LinkPair, Present
<1>10. QED
  BY <1>5, <1>6, <1>7, <1>8, <1>9 DEF Undisturbed, ReqInv

\* A leg is removed once it is in no live link: no other leg loses its own.
LEMMA CommitRemoval ==
    ASSUME TypeOK, Undisturbed, Commit, NEW l \in Leg, RemovalLeft(l)
    PROVE  Undisturbed'
<1> DEFINE s == RemovalOf(l)
<1>1. s \in Statement /\ s.do = "remove" /\ s.a = l /\ s.b = l
  BY StatementsTyped DEF RemovalOf
<1>2. Head(req) = s /\ Tail(req) = <<>> /\ LegsOf(<<>>) = {} /\ LegsOf(req) = {l}
  BY <1>1, OneLeft, NothingLeft DEF RemovalLeft
<1> HIDE DEF s
<1>3. /\ status' = [status EXCEPT ![l] = "deleted"]
      /\ SetSide({l}, None)
      /\ links' = links \ Rows(l)
  BY <1>1, <1>2 DEF Commit
<1>4. LinksInv'
  <2>1. \A k \in links' : k \in links /\ k.a # l /\ k.b # l
    BY <1>3 DEF Rows
  <2>2. \A k \in links : k.a \in Leg /\ k.b \in Leg
    BY DEF TypeOK
  <2>3. \A x \in Leg : x # l => status'[x] = status[x]
    BY <1>3 DEF TypeOK
  <2>4. QED
    BY <2>1, <2>2, <2>3 DEF Undisturbed, LinksInv, Present
<1>5. SoundLeg(l)'
  <2>1. side'[l] = None
    BY <1>3, SideOfLegs
  <2>2. Live(l)' = {}
    BY <1>3 DEF Live, Rows
  <2>3. QED
    BY <2>1, <2>2, SideAssumption DEF SoundLeg
<1>6. /\ PassInv' /\ req' = <<>>
      /\ \A x \in Leg \ LegsOf(req) : SoundLeg(x)'
  BY <1>1, <1>2, CommitElsewhere DEF Undisturbed, RemovalLeft
<1>7. SoundInv'
  BY <1>2, <1>5, <1>6 DEF SoundInv
<1>8. ReqInv'
  BY <1>2, <1>6 DEF ReqInv
<1>9. QED
  BY <1>4, <1>6, <1>7, <1>8 DEF Undisturbed

LEMMA StatementFields ==
    ASSUME NEW a, NEW b, NEW v
    PROVE  /\ VerdictOn(a, b, v).a = a /\ VerdictOn(a, b, v).b = b
           /\ SideOf(a, v).a = a /\ SideOf(a, v).b = a
           /\ RemovalOf(a).a = a /\ RemovalOf(a).b = a /\ RemovalOf(a).do = "remove"
BY DEF VerdictOn, SideOf, RemovalOf

LEMMA UncategorizedSide == Uncategorized \in Side /\ Uncategorized # Clearing
BY SideAssumption DEF Side

\* The same of the open request, legs instead of statements.
LEMMA FreesRead ==
    ASSUME NEW a, NEW b, NEW l, NEW U,
           req = <<SideOf(a, U), SideOf(b, U), RemovalOf(l)>>
    PROVE  /\ Head(req) = SideOf(a, U) /\ Tail(req) = <<SideOf(b, U), RemovalOf(l)>>
           /\ Last(req).do = "remove"
           /\ LegsOf(<<SideOf(b, U), RemovalOf(l)>>) = {b, l} /\ LegsOf(req) = {a, b, l}
<1> DEFINE w == SideOf(a, U)
           x == SideOf(b, U)
           y == RemovalOf(l)
<1>1. w.a = a /\ w.b = a /\ x.a = b /\ x.b = b /\ y.a = l /\ y.b = l /\ y.do = "remove"
  BY StatementFields
<1>2. req = <<w, x, y>>
  OBVIOUS
<1> HIDE DEF w, x, y
<1>3. Head(req) = w /\ Tail(req) = <<x, y>> /\ Last(req) = y
  BY <1>2, ThreeLeft
<1>4. LegsOf(<<x, y>>) = {b, l}
  <2>1. ToSet(<<x, y>>) = {x, y}
    BY DEF ToSet
  <2>2. QED
    BY <1>1, <2>1 DEF LegsOf
<1>5. LegsOf(req) = {a, b, l}
  <2>1. ToSet(req) = {w, x, y}
    BY <1>2 DEF ToSet
  <2>2. QED
    BY <1>1, <2>1 DEF LegsOf
<1>6. QED
  BY <1>1, <1>3, <1>4, <1>5 DEF w, x, y

LEMMA RejectRead ==
    ASSUME NEW a, NEW b, NEW U,
           req = <<VerdictOn(a, b, "rejected"), SideOf(a, U), SideOf(b, U)>>
    PROVE  /\ Head(req) = VerdictOn(a, b, "rejected")
           /\ Tail(req) = <<SideOf(a, U), SideOf(b, U)>>
           /\ LegsOf(<<SideOf(a, U), SideOf(b, U)>>) = {a, b} /\ LegsOf(req) = {a, b}
<1> DEFINE w == VerdictOn(a, b, "rejected")
           x == SideOf(a, U)
           y == SideOf(b, U)
<1>1. w.a = a /\ w.b = b /\ x.a = a /\ x.b = a /\ y.a = b /\ y.b = b
  BY StatementFields
<1>2. req = <<w, x, y>>
  OBVIOUS
<1> HIDE DEF w, x, y
<1>3. Head(req) = w /\ Tail(req) = <<x, y>>
  BY <1>2, ThreeLeft
<1>4. LegsOf(<<x, y>>) = {a, b}
  <2>1. ToSet(<<x, y>>) = {x, y}
    BY DEF ToSet
  <2>2. QED
    BY <1>1, <2>1 DEF LegsOf
<1>5. LegsOf(req) = {a, b}
  <2>1. ToSet(req) = {w, x, y}
    BY <1>2 DEF ToSet
  <2>2. QED
    BY <1>1, <2>1 DEF LegsOf
<1>6. QED
  BY <1>3, <1>4, <1>5 DEF w, x, y

LEMMA DeleteRead ==
    ASSUME NEW a, NEW b, NEW l \in {a, b}, NEW U,
           req = <<VerdictOn(a, b, "rejected"), SideOf(a, U), SideOf(b, U), RemovalOf(l)>>
    PROVE  /\ Head(req) = VerdictOn(a, b, "rejected")
           /\ Tail(req) = <<SideOf(a, U), SideOf(b, U), RemovalOf(l)>>
           /\ LegsOf(<<SideOf(a, U), SideOf(b, U), RemovalOf(l)>>) = {a, b}
           /\ LegsOf(req) = {a, b}
<1> DEFINE w == VerdictOn(a, b, "rejected")
           x == SideOf(a, U)
           y == SideOf(b, U)
           z == RemovalOf(l)
<1>1. /\ w.a = a /\ w.b = b /\ x.a = a /\ x.b = a /\ y.a = b /\ y.b = b
      /\ z.a = l /\ z.b = l
  BY StatementFields
<1>2. req = <<w, x, y, z>>
  OBVIOUS
<1> HIDE DEF w, x, y, z
<1>3. Head(req) = w /\ Tail(req) = <<x, y, z>>
  BY <1>2, FourLeft
<1>4. LegsOf(<<x, y, z>>) = {a, b}
  <2>1. ToSet(<<x, y, z>>) = {x, y, z}
    BY DEF ToSet
  <2>2. QED
    BY <1>1, <2>1 DEF LegsOf
<1>5. LegsOf(req) = {a, b}
  <2>1. ToSet(req) = {w, x, y, z}
    BY <1>2 DEF ToSet
  <2>2. QED
    BY <1>1, <2>1 DEF LegsOf
<1>6. QED
  BY <1>3, <1>4, <1>5 DEF w, x, y, z

\* However far a request has got, its next statement disturbs nothing.
LEMMA CommitStep ==
    ASSUME TypeOK, Undisturbed, Commit, ~torn'
    PROVE  Undisturbed'
<1> DEFINE U == Uncategorized
<1>1. req # <<>>
  BY DEF Commit
<1>2. ASSUME NEW l \in Leg, RemovalLeft(l) PROVE Undisturbed'
  BY <1>2, CommitRemoval
<1>3. ASSUME NEW l \in Leg, NEW c \in Side, SideLeft(l, c) PROVE Undisturbed'
  <2>1. /\ Head(req) = SideOf(l, c) /\ Tail(req) = <<>> /\ LegsOf(<<>>) = {}
        /\ LegsOf(req) = {l} \cup LegsOf(<<>>)
    BY <1>3, OneLeft, NothingLeft, StatementFields DEF SideLeft
  <2>2. SoundInv' /\ LinksInv' /\ PassInv' /\ req' = <<>>
    BY <1>3, <2>1, CommitSide DEF SideLeft
  <2>3. ReqInv'
    BY <2>1, <2>2 DEF ReqInv
  <2>4. QED
    BY <2>2, <2>3 DEF Undisturbed
<1>4. ASSUME NEW a \in Leg, NEW b \in Leg, a # b, SidesLeft(a, b) PROVE Undisturbed'
  <2> DEFINE rest == <<SideOf(b, U)>>
  <2>1. Head(req) = SideOf(a, U) /\ Tail(req) = rest /\ LegsOf(rest) = {b} /\ LegsOf(req) = {a, b}
    BY <1>4, OneLeft, TwoLeft, StatementFields DEF SidesLeft
  <2>2. /\ SoundInv' /\ LinksInv' /\ PassInv' /\ req' = rest
        /\ \A x \in LegsOf(rest) : Present(x)'
        /\ \A x : Live(x)' = Live(x)
    BY <1>4, <2>1, CommitSide, UncategorizedSide DEF SidesLeft
  <2>3. SideLeft(b, U)'
    BY <1>4, <2>2, UncategorizedSide DEF SidesLeft, SideLeft
  <2>4. QED
    BY <2>2, <2>3, UncategorizedSide DEF Undisturbed, ReqInv
<1>5. ASSUME NEW a \in Leg, NEW b \in Leg, NEW l \in Leg, FreesLeft(a, b, l) PROVE Undisturbed'
  <2> DEFINE rest == <<SideOf(b, U), RemovalOf(l)>>
  <2>1. /\ Head(req) = SideOf(a, U) /\ Tail(req) = rest /\ Last(req).do = "remove"
        /\ LegsOf(rest) = {b, l} /\ LegsOf(req) = {a, b, l}
    BY <1>5, FreesRead DEF FreesLeft
  <2>2. /\ SoundInv' /\ LinksInv' /\ PassInv' /\ req' = rest
        /\ \A x \in LegsOf(rest) : Present(x)'
        /\ \A x : Live(x)' = Live(x)
    <3>1. LegsOf(req) = {a} \cup LegsOf(rest)
      BY <2>1
    <3> HIDE DEF rest
    <3>2. QED
      BY <2>1, <3>1, CommitSide, UncategorizedSide
  <2>3. FreeLeft(b, l)'
    BY <1>5, <2>2 DEF FreesLeft, FreeLeft
  <2>4. QED
    BY <2>2, <2>3 DEF Undisturbed, ReqInv
<1>6. ASSUME NEW b \in Leg, NEW l \in Leg, FreeLeft(b, l) PROVE Undisturbed'
  <2> DEFINE rest == <<RemovalOf(l)>>
  <2>1. /\ Head(req) = SideOf(b, U) /\ Tail(req) = rest /\ Last(req).do = "remove"
        /\ LegsOf(rest) = {l} /\ LegsOf(req) = {b, l}
    BY <1>6, OneLeft, TwoLeft, StatementFields DEF FreeLeft
  <2>2. /\ SoundInv' /\ LinksInv' /\ PassInv' /\ req' = rest
        /\ \A x \in LegsOf(rest) : Present(x)'
        /\ \A x : Live(x)' = Live(x)
    <3>1. LegsOf(req) = {b} \cup LegsOf(rest)
      BY <2>1
    <3> HIDE DEF rest
    <3>2. QED
      BY <2>1, <3>1, CommitSide, UncategorizedSide
  <2>3. RemovalLeft(l)'
    BY <1>6, <2>2 DEF FreeLeft, RemovalLeft
  <2>4. QED
    BY <2>2, <2>3 DEF Undisturbed, ReqInv
<1>7. ASSUME NEW a \in Leg, NEW b \in Leg, a # b, RejectLeft(a, b) PROVE Undisturbed'
  <2> DEFINE rest == <<SideOf(a, U), SideOf(b, U)>>
  <2>1. /\ Head(req) = VerdictOn(a, b, "rejected") /\ Tail(req) = rest
        /\ LegsOf(rest) = {a, b} /\ LegsOf(req) = {a, b}
    BY <1>7, RejectRead DEF RejectLeft, RejectStatements
  <2>2. /\ SoundInv' /\ LinksInv' /\ PassInv' /\ req' = rest
        /\ \A x \in LegsOf(rest) : Present(x)'
        /\ \A x \in {a, b} : Live(x)' = Live(x) \ RowsOf(a, b)
    BY <2>1, CommitReject
  <2>3. SidesLeft(a, b)'
    BY <1>7, <2>2 DEF RejectLeft, SidesLeft
  <2>4. QED
    BY <1>7, <2>2, <2>3 DEF Undisturbed, ReqInv
<1>8. ASSUME NEW a \in Leg, NEW b \in Leg, NEW l \in Leg, a # b, DeleteLeft(a, b, l)
      PROVE  Undisturbed'
  <2> DEFINE rest == <<SideOf(a, U), SideOf(b, U), RemovalOf(l)>>
  <2>1. req = <<VerdictOn(a, b, "rejected"), SideOf(a, U), SideOf(b, U), RemovalOf(l)>>
    BY <1>8, AppendFourth DEF DeleteLeft, RejectStatements
  <2>2. /\ Head(req) = VerdictOn(a, b, "rejected") /\ Tail(req) = rest
        /\ LegsOf(rest) = {a, b} /\ LegsOf(req) = {a, b}
    BY <1>8, <2>1, DeleteRead DEF DeleteLeft
  <2>3. /\ SoundInv' /\ LinksInv' /\ PassInv' /\ req' = rest
        /\ \A x \in LegsOf(rest) : Present(x)'
        /\ \A x \in {a, b} : Live(x)' = Live(x) \ RowsOf(a, b)
    BY <2>2, CommitReject
  <2>4. FreesLeft(a, b, l)'
    BY <1>8, <2>3 DEF DeleteLeft, FreesLeft
  <2>5. QED
    BY <1>8, <2>3, <2>4 DEF Undisturbed, ReqInv
<1>9. ASSUME NEW a \in Leg, NEW b \in Leg, a # b, VerdictLeft(a, b) \/ LinkLeft(a, b)
      PROVE  Undisturbed'
  BY <1>9, CommitConfirm, CommitLink
<1>10. QED
  BY <1>1, <1>2, <1>3, <1>4, <1>5, <1>6, <1>7, <1>8, <1>9 DEF Undisturbed, ReqInv

-----------------------------------------------------------------------------
(* A new request.                                                          *)

LEMMA SideLegs == ASSUME NEW a, NEW v PROVE LegsOf(<<SideOf(a, v)>>) = {a}
BY OneLeft, StatementFields

LEMMA RemovalLegs == ASSUME NEW a PROVE LegsOf(<<RemovalOf(a)>>) = {a}
BY OneLeft, StatementFields

LEMMA VerdictLegs == ASSUME NEW a, NEW b, NEW v PROVE LegsOf(<<VerdictOn(a, b, v)>>) = {a, b}
BY OneLeft, StatementFields

LEMMA SidesLegs ==
    ASSUME NEW a, NEW b, NEW v
    PROVE  LegsOf(<<SideOf(a, v), SideOf(b, v)>>) = {a, b}
<1> DEFINE w == SideOf(a, v)
           x == SideOf(b, v)
<1>1. w.a = a /\ w.b = a /\ x.a = b /\ x.b = b
  BY StatementFields
<1> HIDE DEF w, x
<1>2. ToSet(<<w, x>>) = {w, x}
  BY DEF ToSet
<1>3. LegsOf(<<w, x>>) = {a, b}
  BY <1>1, <1>2 DEF LegsOf
<1>4. QED
  BY <1>3 DEF w, x

LEMMA FreeLegs ==
    ASSUME NEW b, NEW l, NEW v
    PROVE  LegsOf(<<SideOf(b, v), RemovalOf(l)>>) = {b, l}
<1> DEFINE w == SideOf(b, v)
           x == RemovalOf(l)
<1>1. w.a = b /\ w.b = b /\ x.a = l /\ x.b = l
  BY StatementFields
<1> HIDE DEF w, x
<1>2. ToSet(<<w, x>>) = {w, x}
  BY DEF ToSet
<1>3. LegsOf(<<w, x>>) = {b, l}
  BY <1>1, <1>2 DEF LegsOf
<1>4. QED
  BY <1>3 DEF w, x

LEMMA PairLegs ==
    ASSUME NEW a, NEW b, NEW v
    PROVE  LegsOf(<<LinkOf(a, b), VerdictOn(a, b, v)>>) = {a, b}
<1> DEFINE w == LinkOf(a, b)
           x == VerdictOn(a, b, v)
<1>1. w.a = a /\ w.b = b /\ x.a = a /\ x.b = b
  BY DEF LinkOf, VerdictOn
<1> HIDE DEF w, x
<1>2. ToSet(<<w, x>>) = {w, x}
  BY DEF ToSet
<1>3. LegsOf(<<w, x>>) = {a, b}
  BY <1>1, <1>2 DEF LegsOf
<1>4. QED
  BY <1>3 DEF w, x

LEMMA RejectLegs ==
    ASSUME NEW a, NEW b
    PROVE  LegsOf(RejectStatements(a, b)) = {a, b}
<1> DEFINE w == VerdictOn(a, b, "rejected")
           x == SideOf(a, Uncategorized)
           y == SideOf(b, Uncategorized)
<1>1. w.a = a /\ w.b = b /\ x.a = a /\ x.b = a /\ y.a = b /\ y.b = b
  BY StatementFields
<1> HIDE DEF w, x, y
<1>2. ToSet(<<w, x, y>>) = {w, x, y}
  BY DEF ToSet
<1>3. LegsOf(<<w, x, y>>) = {a, b}
  BY <1>1, <1>2 DEF LegsOf
<1>4. QED
  BY <1>3 DEF w, x, y, RejectStatements

LEMMA DeleteLegs ==
    ASSUME NEW a, NEW b, NEW l \in {a, b}
    PROVE  LegsOf(Append(RejectStatements(a, b), RemovalOf(l))) = {a, b}
<1> DEFINE w == VerdictOn(a, b, "rejected")
           x == SideOf(a, Uncategorized)
           y == SideOf(b, Uncategorized)
           z == RemovalOf(l)
<1>1. /\ w.a = a /\ w.b = b /\ x.a = a /\ x.b = a /\ y.a = b /\ y.b = b
      /\ z.a = l /\ z.b = l
  BY StatementFields
<1> HIDE DEF w, x, y, z
<1>2. ToSet(<<w, x, y, z>>) = {w, x, y, z}
  BY DEF ToSet
<1>3. LegsOf(<<w, x, y, z>>) = {a, b}
  BY <1>1, <1>2 DEF LegsOf
<1>4. Append(<<w, x, y>>, z) = <<w, x, y, z>>
  BY AppendFourth
<1>5. LegsOf(Append(<<w, x, y>>, z)) = {a, b}
  BY <1>3, <1>4
<1>6. QED
  BY <1>5 DEF w, x, y, z, RejectStatements

\* Opening a request disturbs nothing: the pass learns of its legs.
LEMMA AskFrame ==
    ASSUME TypeOK, Undisturbed, NEW stmts, Ask(stmts)
    PROVE  /\ req = <<>> /\ req' = stmts
           /\ SoundInv' /\ LinksInv' /\ PassInv'
           /\ UNCHANGED <<status, side, links>>
<1>1. /\ req = <<>> /\ req' = stmts /\ UNCHANGED <<status, side, links, passVars>>
      /\ touched' = IF pass = "idle" THEN {} ELSE touched \cup LegsOf(stmts)
  BY DEF Ask
<1>2. SoundInv'
  BY <1>1, NothingLeft DEF Undisturbed, SoundInv, SoundLeg, Live, Rows
<1>3. LinksInv'
  BY <1>1 DEF Undisturbed, LinksInv, Present
<1>4. PassInv'
  <2>1. pass' = pass /\ pairs' = pairs /\ legs' = legs /\ links' = links
    BY <1>1 DEF passVars
  <2>2. pass # "idle" => touched \subseteq touched' /\ LegsOf(req') \subseteq touched'
    BY <1>1
  <2>3. \A x : Rows(x)' = Rows(x) /\ Live(x)' = Live(x)
    BY <2>1 DEF Rows, Live
  <2>4. QED
    BY <2>1, <2>2, <2>3 DEF Undisturbed, PassInv
<1>5. QED
  BY <1>1, <1>2, <1>3, <1>4

\* Between requests the two legs of a live link are in no other one.
LEMMA LivePair ==
    ASSUME TypeOK, Undisturbed, req = <<>>, NEW a \in Leg, NEW b \in Leg,
           NEW k \in RowsOf(a, b), k.verdict # "rejected"
    PROVE  /\ a # b /\ Present(a) /\ Present(b)
           /\ side[a] = Clearing /\ side[b] = Clearing
           /\ Live(a) \cup Live(b) \subseteq RowsOf(a, b)
<1>1. k \in links /\ {k.a, k.b} = {a, b}
  BY DEF RowsOf
<1>2. a # b /\ Present(a) /\ Present(b)
  <2>1. k.a # k.b /\ Present(k.a) /\ Present(k.b)
    BY <1>1 DEF Undisturbed, LinksInv
  <2>2. (a = k.a /\ b = k.b) \/ (a = k.b /\ b = k.a)
    BY <1>1, <2>1
  <2>3. QED
    BY <2>1, <2>2
<1>3. k \in Live(a) /\ k \in Live(b)
  BY <1>1 DEF Live, Rows
<1>4. SoundLeg(a) /\ SoundLeg(b)
  BY NothingLeft DEF Undisturbed, SoundInv
<1>5. QED
  BY <1>2, <1>3, <1>4 DEF SoundLeg

\* What is said of the links of a leg before a request is still so after it.
LEMMA SameLinks ==
    ASSUME UNCHANGED <<status, side, links>>
    PROVE  /\ \A x : Live(x)' = Live(x) /\ (Present(x)' <=> Present(x))
           /\ \A x, y : RowsOf(x, y)' = RowsOf(x, y)
BY DEF Live, Rows, RowsOf, Present

LEMMA AskReject ==
    ASSUME TypeOK, Undisturbed, NEW a \in Leg, NEW b \in Leg, NEW k \in RowsOf(a, b),
           k.verdict # "rejected", Ask(RejectStatements(a, b))
    PROVE  Undisturbed'
<1>1. /\ req = <<>> /\ req' = RejectStatements(a, b)
      /\ SoundInv' /\ LinksInv' /\ PassInv'
      /\ UNCHANGED <<status, side, links>>
  BY AskFrame
<1>2. a # b /\ Present(a) /\ Present(b) /\ Live(a) \cup Live(b) \subseteq RowsOf(a, b)
  BY <1>1, LivePair
<1>3. RejectLeft(a, b)'
  BY <1>1, <1>2, SameLinks DEF RejectLeft
<1>4. \A x \in LegsOf(req') : Present(x)'
  BY <1>1, <1>2, RejectLegs, SameLinks
<1>5. QED
  BY <1>1, <1>2, <1>3, <1>4 DEF Undisturbed, ReqInv

LEMMA AskSide ==
    ASSUME TypeOK, Undisturbed, NEW l \in Leg, NEW c \in Side, c # Clearing,
           Present(l), Live(l) = {}, Ask(<<SideOf(l, c)>>)
    PROVE  Undisturbed'
<1>1. /\ req = <<>> /\ req' = <<SideOf(l, c)>>
      /\ SoundInv' /\ LinksInv' /\ PassInv'
      /\ UNCHANGED <<status, side, links>>
  BY AskFrame
<1>2. SideLeft(l, c)'
  BY <1>1, SameLinks DEF SideLeft
<1>3. \A x \in LegsOf(req') : Present(x)'
  <2>1. LegsOf(<<SideOf(l, c)>>) = {l}
    BY SideLegs
  <2>2. QED
    BY <1>1, <2>1, SameLinks
<1>4. QED
  BY <1>1, <1>2, <1>3 DEF Undisturbed, ReqInv

\* A leg off the clearing account is in no live link.
LEMMA OffClearing ==
    ASSUME Undisturbed, req = <<>>, NEW l \in Leg, ~Virtual(l)
    PROVE  Live(l) = {}
BY NothingLeft DEF Undisturbed, SoundInv, SoundLeg, Virtual

LEMMA ConfirmStep ==
    ASSUME TypeOK, Undisturbed, ~torn', NEW a \in Leg, NEW b \in Leg, Confirm(a, b)
    PROVE  Undisturbed'
<1>1. /\ req = <<>> /\ req' = <<VerdictOn(a, b, "confirmed")>>
      /\ SoundInv' /\ LinksInv' /\ PassInv'
      /\ UNCHANGED <<status, side, links>>
  BY AskFrame DEF Confirm
<1>2. PICK k \in RowsOf(a, b) : k.verdict # "rejected"
  BY DEF Confirm, AnswersRejected
<1>3. /\ a # b /\ Present(a) /\ Present(b) /\ side[a] = Clearing /\ side[b] = Clearing
      /\ Live(a) \cup Live(b) \subseteq RowsOf(a, b)
  BY <1>1, <1>2, LivePair
<1>4. VerdictLeft(a, b)'
  BY <1>1, <1>2, <1>3, SameLinks DEF VerdictLeft
<1>5. \A x \in LegsOf(req') : Present(x)'
  <2>1. LegsOf(<<VerdictOn(a, b, "confirmed")>>) = {a, b}
    BY VerdictLegs
  <2>2. QED
    BY <1>1, <1>3, <2>1, SameLinks
<1>6. QED
  BY <1>1, <1>3, <1>4, <1>5 DEF Undisturbed, ReqInv

LEMMA PairStep ==
    ASSUME TypeOK, Undisturbed, NEW a \in Leg, NEW b \in Leg, Pair(a, b)
    PROVE  Undisturbed'
<1>1. PICK x, y : /\ Ask(<<LinkOf(x, y), VerdictOn(x, y, "confirmed")>>)
                  /\ {x, y} = {a, b}
                  /\ \A k \in RowsOf(a, b) : k.a = x
  <2>1. \A k, m \in RowsOf(a, b) : k = m
    BY DEF RowsOf, Undisturbed, LinksInv
  <2>2. \A k \in RowsOf(a, b) : {k.a, k.b} = {a, b}
    BY DEF RowsOf
  <2>3. QED
    BY <2>1, <2>2 DEF Pair
<1>2. /\ req = <<>> /\ req' = <<LinkOf(x, y), VerdictOn(x, y, "confirmed")>>
      /\ SoundInv' /\ LinksInv' /\ PassInv'
      /\ UNCHANGED <<status, side, links>>
  BY <1>1, AskFrame
<1>3. Live(a) = {} /\ Live(b) = {} /\ Present(a) /\ Present(b)
  BY <1>2, OffClearing DEF Pair, Linkable
<1>4. a # b
  BY DEF Pair
<1>5. x # y /\ x \in Leg /\ y \in Leg /\ x \in {a, b} /\ y \in {a, b}
  BY <1>1, <1>4
<1>6. Live(x) = {} /\ Live(y) = {} /\ Present(x) /\ Present(y)
  BY <1>3, <1>5
<1>7. \A k \in RowsOf(x, y) : k.a = x
  BY <1>1 DEF RowsOf
<1>8. LinkLeft(x, y)'
  <2>1. Live(x)' = {} /\ Live(y)' = {} /\ RowsOf(x, y)' = RowsOf(x, y)
    BY <1>2, <1>6, SameLinks
  <2>2. QED
    BY <1>2, <1>7, <2>1 DEF LinkLeft
<1>9. \A z \in LegsOf(req') : Present(z)'
  BY <1>2, <1>6, PairLegs, SameLinks
<1>10. QED
  BY <1>2, <1>5, <1>8, <1>9 DEF Undisturbed, ReqInv

LEMMA UnlinkStep ==
    ASSUME TypeOK, Undisturbed, NEW l \in Leg, Unlink(l)
    PROVE  Undisturbed'
<1>1. CASE Live(l) = {} /\ Ask(<<SideOf(l, Uncategorized)>>)
  BY <1>1, AskSide, UncategorizedSide DEF Unlink
<1>2. ASSUME NEW k \in TransferLink(l), Live(l) # {}, Ask(RejectStatements(k.a, k.b))
      PROVE  Undisturbed'
  <2>1. k \in links /\ k.verdict # "rejected" /\ k.a \in Leg /\ k.b \in Leg
    BY <1>2 DEF TransferLink, Live, Rows, TypeOK
  <2>2. k \in RowsOf(k.a, k.b)
    BY <2>1 DEF RowsOf
  <2>3. QED
    BY <1>2, <2>1, <2>2, AskReject
<1>3. QED
  BY <1>1, <1>2 DEF Unlink

\* A leg to delete is in no link, or the link it is taken from is its only live one.
LEMMA DeleteStep ==
    ASSUME TypeOK, Undisturbed, NEW l \in Leg, Delete(l)
    PROVE  Undisturbed'
<1>1. PICK stmts \in DeleteStatements(l) : Ask(stmts)
  BY DEF Delete
<1>2. /\ req = <<>> /\ req' = stmts
      /\ SoundInv' /\ LinksInv' /\ PassInv'
      /\ UNCHANGED <<status, side, links>>
  BY <1>1, AskFrame
<1>3. Present(l) /\ SoundLeg(l)
  BY <1>2, NothingLeft DEF Delete, Undisturbed, SoundInv
<1>4. CASE Rows(l) = {}
  <2>1. stmts = <<RemovalOf(l)>> /\ Live(l) = {}
    BY <1>4 DEF DeleteStatements, Live
  <2>2. RemovalLeft(l)'
    BY <1>2, <2>1, SameLinks DEF RemovalLeft
  <2>3. \A x \in LegsOf(req') : Present(x)'
    <3>1. LegsOf(<<RemovalOf(l)>>) = {l}
      BY RemovalLegs
    <3>2. QED
      BY <1>2, <1>3, <2>1, <3>1, SameLinks
  <2>4. QED
    BY <1>2, <2>2, <2>3 DEF Undisturbed, ReqInv
<1>5. CASE Rows(l) # {}
  <2>1. PICK k \in TransferLink(l) : stmts = Append(RejectStatements(k.a, k.b), RemovalOf(l))
    BY <1>5 DEF DeleteStatements
  <2>2. /\ k \in links /\ k.a \in Leg /\ k.b \in Leg /\ l \in {k.a, k.b}
        /\ Live(l) # {} => k \in Live(l)
    BY DEF TransferLink, Live, Rows, TypeOK
  <2>3. k.a # k.b /\ Present(k.a) /\ Present(k.b)
    BY <2>2 DEF Undisturbed, LinksInv
  <2>4. Live(l) \subseteq RowsOf(k.a, k.b)
    <3>1. k \in RowsOf(k.a, k.b)
      BY <2>2 DEF RowsOf
    <3>2. QED
      BY <1>3, <2>2, <3>1 DEF SoundLeg
  <2>5. DeleteLeft(k.a, k.b, l)'
    <3>1. Live(l)' = Live(l) /\ RowsOf(k.a, k.b)' = RowsOf(k.a, k.b)
      BY <1>2, SameLinks
    <3>2. \E x, y \in Leg : x = k.a /\ y = k.b
      BY <2>2
    <3>3. QED
      BY <1>2, <2>1, <2>2, <2>4, <3>1 DEF DeleteLeft
  <2>6. \A x \in LegsOf(req') : Present(x)'
    BY <1>2, <2>1, <2>2, <2>3, DeleteLegs, SameLinks
  <2>7. QED
    BY <1>2, <2>2, <2>3, <2>5, <2>6 DEF Undisturbed, ReqInv
<1>6. QED
  BY <1>4, <1>5

LEMMA RequestStep ==
    ASSUME TypeOK, Undisturbed, ~torn', Request
    PROVE  Undisturbed'
<1>1. ASSUME NEW l \in Leg, NEW c \in Category \cup {Split}, Categorize(l, c) PROVE Undisturbed'
  <2>1. c \in Side /\ c # Clearing
    BY SideAssumption DEF Side, Split, Clearing
  <2>2. Live(l) = {}
    BY <1>1, OffClearing DEF Categorize, Ask
  <2>3. QED
    BY <1>1, <2>1, <2>2, AskSide DEF Categorize
<1>2. ASSUME NEW a \in Leg, NEW b \in Leg, Reject(a, b) PROVE Undisturbed'
  <2>1. PICK k \in RowsOf(a, b) : k.verdict # "rejected"
    BY <1>2 DEF Reject, AnswersRejected
  <2>2. QED
    BY <1>2, <2>1, AskReject DEF Reject
<1>3. ASSUME NEW l \in Leg, NEW d \in Destination, Passthrough(l, d) PROVE Undisturbed'
  <2>1. d \in Side /\ d # Clearing
    BY SideAssumption DEF Side
  <2>2. QED
    BY <1>3, <2>1, AskSide DEF Passthrough
<1>4. QED
  BY <1>1, <1>2, <1>3, ConfirmStep, PairStep, UnlinkStep, DeleteStep DEF Request

-----------------------------------------------------------------------------
(* The pass, and the legs that arrive.                                     *)

\* What is left of a request depends on its own legs only.
LEMMA ReqFrame ==
    ASSUME ReqInv, req' = req,
           \A x \in LegsOf(req) : /\ Live(x)' = Live(x) /\ side'[x] = side[x]
                                  /\ Present(x) => Present(x)'
                                  /\ \A y : RowsOf(x, y)' = RowsOf(x, y)
    PROVE  ReqInv'
<1>1. \A x \in LegsOf(req') : Present(x)'
  BY DEF ReqInv
<1>2. CASE req = <<>>
  BY <1>1, <1>2 DEF ReqInv
<1>3. ASSUME NEW l \in Leg, RemovalLeft(l) PROVE ReqInv'
  <2>1. l \in LegsOf(req)
    BY <1>3, RemovalLegs DEF RemovalLeft
  <2>2. RemovalLeft(l)'
    BY <1>3, <2>1 DEF RemovalLeft
  <2>3. QED
    BY <1>1, <2>2 DEF ReqInv
<1>4. ASSUME NEW l \in Leg, NEW c \in Side, SideLeft(l, c) PROVE ReqInv'
  <2>1. l \in LegsOf(req)
    BY <1>4, SideLegs DEF SideLeft
  <2>2. SideLeft(l, c)'
    BY <1>4, <2>1 DEF SideLeft
  <2>3. QED
    BY <1>1, <2>2 DEF ReqInv
<1>5. ASSUME NEW a \in Leg, NEW b \in Leg, a # b, VerdictLeft(a, b) PROVE ReqInv'
  <2>1. a \in LegsOf(req) /\ b \in LegsOf(req)
    BY <1>5, VerdictLegs DEF VerdictLeft
  <2>2. VerdictLeft(a, b)'
    BY <1>5, <2>1 DEF VerdictLeft
  <2>3. QED
    BY <1>1, <1>5, <2>2 DEF ReqInv
<1>6. ASSUME NEW a \in Leg, NEW b \in Leg, a # b, LinkLeft(a, b) PROVE ReqInv'
  <2>1. a \in LegsOf(req) /\ b \in LegsOf(req)
    BY <1>6, PairLegs DEF LinkLeft
  <2>2. LinkLeft(a, b)'
    BY <1>6, <2>1 DEF LinkLeft
  <2>3. QED
    BY <1>1, <1>6, <2>2 DEF ReqInv
<1>7. ASSUME NEW a \in Leg, NEW b \in Leg, a # b, RejectLeft(a, b) PROVE ReqInv'
  <2>1. a \in LegsOf(req) /\ b \in LegsOf(req)
    BY <1>7, RejectLegs DEF RejectLeft
  <2>2. RejectLeft(a, b)'
    BY <1>7, <2>1 DEF RejectLeft
  <2>3. QED
    BY <1>1, <1>7, <2>2 DEF ReqInv
<1>8. ASSUME NEW a \in Leg, NEW b \in Leg, a # b, SidesLeft(a, b) PROVE ReqInv'
  <2>1. LegsOf(req) = {a, b}
    <3>1. LegsOf(<<SideOf(a, Uncategorized), SideOf(b, Uncategorized)>>) = {a, b}
      BY SidesLegs
    <3>2. QED
      BY <1>8, <3>1 DEF SidesLeft
  <2>2. SidesLeft(a, b)'
    BY <1>8, <2>1 DEF SidesLeft
  <2>3. QED
    BY <1>1, <1>8, <2>2 DEF ReqInv
<1>9. ASSUME NEW a \in Leg, NEW b \in Leg, NEW l \in Leg, a # b, DeleteLeft(a, b, l)
      PROVE  ReqInv'
  <2>1. LegsOf(req) = {a, b} /\ l \in {a, b}
    BY <1>9, DeleteLegs DEF DeleteLeft
  <2>2. DeleteLeft(a, b, l)'
    BY <1>9, <2>1 DEF DeleteLeft
  <2>3. QED
    BY <1>1, <1>9, <2>2 DEF ReqInv
<1>10. ASSUME NEW a \in Leg, NEW b \in Leg, NEW l \in Leg, a # b, FreesLeft(a, b, l)
       PROVE  ReqInv'
  <2>1. LegsOf(req) = {a, b, l}
    BY <1>10, FreesRead DEF FreesLeft
  <2>2. FreesLeft(a, b, l)'
    BY <1>10, <2>1 DEF FreesLeft
  <2>3. QED
    BY <1>1, <1>10, <2>2 DEF ReqInv
<1>11. ASSUME NEW b \in Leg, NEW l \in Leg, FreeLeft(b, l) PROVE ReqInv'
  <2>1. LegsOf(req) = {b, l}
    <3>1. LegsOf(<<SideOf(b, Uncategorized), RemovalOf(l)>>) = {b, l}
      BY FreeLegs
    <3>2. QED
      BY <1>11, <3>1 DEF FreeLeft
  <2>2. FreeLeft(b, l)'
    BY <1>11, <2>1 DEF FreeLeft
  <2>3. QED
    BY <1>1, <2>2 DEF ReqInv
<1>12. QED
  BY <1>2, <1>3, <1>4, <1>5, <1>6, <1>7, <1>8, <1>9, <1>10, <1>11 DEF ReqInv

\* A leg in no live link and in no request may be given any side but clearing.
LEMMA OneLegMoves ==
    ASSUME TypeOK, Undisturbed, NEW l \in Leg, NEW c, c # Clearing, SetSide({l}, c),
           Live(l) = {}, l \notin LegsOf(req), links' = links, req' = req,
           \A x : Present(x) => Present(x)'
    PROVE  SoundInv' /\ LinksInv' /\ ReqInv'
<1>1. \A x : Live(x)' = Live(x) /\ \A y : RowsOf(x, y)' = RowsOf(x, y)
  BY DEF Live, Rows, RowsOf
<1>2. \A x \in Leg : side'[x] = IF x = l THEN c ELSE side[x]
  BY SideOfLegs
<1>3. SoundInv'
  BY <1>1, <1>2 DEF Undisturbed, SoundInv, SoundLeg
<1>4. LinksInv'
  BY DEF Undisturbed, LinksInv
<1>5. \A x \in LegsOf(req) : x \in Leg /\ x # l
  BY LegsOfTyped DEF TypeOK
<1>6. \A x \in LegsOf(req) : side'[x] = side[x]
  BY <1>2, <1>5
<1>7. ReqInv'
  BY <1>1, <1>6, ReqFrame DEF Undisturbed
<1>8. QED
  BY <1>3, <1>4, <1>7

\* The same when nothing of the tables or the request changes.
LEMMA NothingMoves ==
    ASSUME Undisturbed, UNCHANGED <<status, side, links, req>>
    PROVE  SoundInv' /\ LinksInv' /\ ReqInv'
<1>1. \A x : Live(x)' = Live(x) /\ \A y : RowsOf(x, y)' = RowsOf(x, y)
  BY DEF Live, Rows, RowsOf
<1>2. SoundInv'
  BY <1>1 DEF Undisturbed, SoundInv, SoundLeg
<1>3. LinksInv'
  BY DEF Undisturbed, LinksInv, Present
<1>4. ReqInv'
  BY <1>1, ReqFrame DEF Undisturbed, Present
<1>5. QED
  BY <1>2, <1>3, <1>4

LEMMA SamePass ==
    ASSUME PassInv, UNCHANGED <<passVars, touched, req, links>>
    PROVE  PassInv'
BY DEF PassInv, passVars, Rows, Live

LEMMA InsertStep ==
    ASSUME TypeOK, Undisturbed, NEW l \in Leg, NEW st \in {"PDNG", "BOOK"}, Insert(l, st)
    PROVE  Undisturbed'
<1>1. /\ status' = [status EXCEPT ![l] = st] /\ SetSide({l}, Uncategorized)
      /\ UNCHANGED <<links, passVars, req, touched>> /\ ~Present(l)
  BY DEF Insert, Present
<1>2. \A x : Present(x) => Present(x)'
  BY <1>1 DEF Present, TypeOK
<1>3. Live(l) = {} /\ l \notin LegsOf(req)
  BY <1>1 DEF Undisturbed, LinksInv, ReqInv, Live, Rows
<1>4. SoundInv' /\ LinksInv' /\ ReqInv'
  BY <1>1, <1>2, <1>3, OneLegMoves, SideAssumption
<1>5. PassInv'
  BY <1>1, SamePass DEF Undisturbed
<1>6. QED
  BY <1>4, <1>5 DEF Undisturbed

LEMMA SettleStep ==
    ASSUME TypeOK, Undisturbed, ~torn', NEW l \in Leg, Settle(l)
    PROVE  Undisturbed'
<1>1. /\ status' = [status EXCEPT ![l] = "BOOK"] /\ SetSide({l}, Uncategorized)
      /\ UNCHANGED <<links, passVars, req, touched>>
  BY DEF Settle
<1>2. \A x : Present(x) => Present(x)'
  BY <1>1 DEF Present, TypeOK
<1>3. Live(l) = {} /\ l \notin LegsOf(req)
  BY DEF Settle, SettlesPaired
<1>4. SoundInv' /\ LinksInv' /\ ReqInv'
  BY <1>1, <1>2, <1>3, OneLegMoves, SideAssumption
<1>5. PassInv'
  BY <1>1, SamePass DEF Undisturbed
<1>6. QED
  BY <1>4, <1>5 DEF Undisturbed

\* The pairs a pass is to write are disjoint, of two legs each, without a row.
LEMMA StartStep ==
    ASSUME TypeOK, Undisturbed, StartPass
    PROVE  Undisturbed'
<1>1. /\ pass' = "linking" /\ pairs' \in BestPairs /\ touched' = LegsOf(req)
      /\ UNCHANGED <<status, side, links, req>>
  BY DEF StartPass
<1>2. SoundInv' /\ LinksInv' /\ ReqInv'
  BY <1>1, NothingMoves
<1>3. /\ pairs' \subseteq Edges
      /\ \A e, f \in pairs' : e = f \/ {e[1], e[2]} \cap {f[1], f[2]} = {}
  BY <1>1 DEF BestPairs, Matchings
<1>4. ASSUME NEW e \in Edges PROVE e[1] # e[2] /\ Rows(e[1]) = {} /\ Rows(e[2]) = {}
  <2>1. e[1] \in Candidates /\ e[2] \in Candidates
    BY DEF Edges
  <2>2. Facts[e[1]].amount \in Int
    BY <2>1, FactsAssumption DEF Candidates
  <2>3. Facts[e[1]].amount < 0 /\ Facts[e[1]].amount + Facts[e[2]].amount = 0
    BY DEF Edges
  <2>4. e[1] # e[2]
    BY <2>2, <2>3
  <2>5. QED
    BY <2>1, <2>4 DEF Candidates
<1>5. \A x : Rows(x)' = Rows(x)
  BY <1>1 DEF Rows
<1>6. PassInv'
  BY <1>1, <1>3, <1>4, <1>5 DEF PassInv
<1>7. QED
  BY <1>2, <1>6 DEF Undisturbed

LEMMA ReadStep ==
    ASSUME TypeOK, Undisturbed, ReadDeclared
    PROVE  Undisturbed'
<1>1. /\ pass' = "moving" /\ legs' = Declared(Declarations[turn']) /\ touched' = LegsOf(req)
      /\ UNCHANGED <<status, side, links, req>>
  BY DEF ReadDeclared
<1>2. SoundInv' /\ LinksInv' /\ ReqInv'
  BY <1>1, NothingMoves
<1>3. \A l \in legs' : Live(l) = {}
  BY <1>1 DEF Declared
<1>4. \A x : Live(x)' = Live(x)
  BY <1>1 DEF Live, Rows
<1>5. PassInv'
  BY <1>1, <1>3, <1>4 DEF PassInv
<1>6. QED
  BY <1>2, <1>5 DEF Undisturbed

\* The pass ends where it stands.
LEMMA EndStep ==
    ASSUME Undisturbed, EndPass, UNCHANGED <<status, side, links, req>>
    PROVE  Undisturbed'
<1>1. SoundInv' /\ LinksInv' /\ ReqInv'
  BY NothingMoves
<1>2. PassInv'
  BY DEF EndPass, PassInv
<1>3. QED
  BY <1>1, <1>2 DEF Undisturbed

LEMMA MoveStep ==
    ASSUME TypeOK, Undisturbed, ~torn', MoveNext
    PROVE  Undisturbed'
<1>1. PICK l \in legs :
         \/ /\ SetSide({l}, Declarations[turn].to)
            /\ torn' = (torn \/ Raced({l}))
            /\ legs' = legs \ {l}
            /\ UNCHANGED <<status, links, pass, pairs, turn, req, asked, touched>>
         \/ AbortPass /\ UNCHANGED <<status, side, links, req, asked, torn>>
  BY DEF MoveNext
<1>2. CASE AbortPass /\ UNCHANGED <<status, side, links, req, asked, torn>>
  BY <1>2, EndStep DEF AbortPass
<1>3. CASE /\ SetSide({l}, Declarations[turn].to)
           /\ torn' = (torn \/ Raced({l}))
           /\ legs' = legs \ {l}
           /\ UNCHANGED <<status, links, pass, pairs, turn, req, asked, touched>>
  <2>1. l \notin touched /\ pass = "moving" /\ l \in Leg
    BY <1>3 DEF Raced, MoveNext, TypeOK
  <2>2. Live(l) = {} /\ l \notin LegsOf(req)
    BY <2>1 DEF Undisturbed, PassInv
  <2>3. Declarations[turn].to # Clearing
    <3>1. Declarations[turn].to \in Destination
      BY DeclarationTyped, DeclarationsAssumption DEF TypeOK
    <3>2. QED
      BY <3>1, SideAssumption
  <2>4. \A x : Present(x) => Present(x)'
    BY <1>3 DEF Present
  <2>5. SoundInv' /\ LinksInv' /\ ReqInv'
    BY <1>3, <2>1, <2>2, <2>3, <2>4, OneLegMoves
  <2>6. \A x : Live(x)' = Live(x)
    BY <1>3 DEF Live, Rows
  <2>7. PassInv'
    BY <1>3, <2>1, <2>6 DEF Undisturbed, PassInv
  <2>8. QED
    BY <2>5, <2>7 DEF Undisturbed
<1>4. QED
  BY <1>1, <1>2, <1>3

\* A pair that no request has met since the pass read it is still two legs
\* without a row: linking it makes both of them sound, and no other leg changes.
LEMMA LinkStep ==
    ASSUME TypeOK, Undisturbed, ~torn', LinkNext
    PROVE  Undisturbed'
<1>1. PICK e \in pairs :
         \/ /\ LinkPair(e[1], e[2]) /\ Present(e[1]) /\ Present(e[2])
            /\ torn' = (torn \/ Raced({e[1], e[2]}))
            /\ pairs' = pairs \ {e}
            /\ UNCHANGED <<pass, turn, legs, req, asked, touched>>
         \/ AbortPass /\ UNCHANGED <<status, side, links, req, asked, torn>>
  BY DEF LinkNext
<1>2. CASE AbortPass /\ UNCHANGED <<status, side, links, req, asked, torn>>
  BY <1>2, EndStep DEF AbortPass
<1>3. CASE /\ LinkPair(e[1], e[2]) /\ Present(e[1]) /\ Present(e[2])
           /\ torn' = (torn \/ Raced({e[1], e[2]}))
           /\ pairs' = pairs \ {e}
           /\ UNCHANGED <<pass, turn, legs, req, asked, touched>>
  <2>1. PICK a \in Leg, b \in Leg : a = e[1] /\ b = e[2]
    BY DEF TypeOK
  <2>2. /\ LinkPair(a, b) /\ Present(a) /\ Present(b) /\ pass = "linking"
        /\ a \notin touched /\ b \notin touched
    BY <1>3, <2>1 DEF Raced, LinkNext
  <2>3. /\ a # b /\ Rows(a) = {} /\ Rows(b) = {}
        /\ a \notin LegsOf(req) /\ b \notin LegsOf(req)
    BY <2>1, <2>2 DEF Undisturbed, PassInv
  <2>4. Live(a) = {} /\ Live(b) = {} /\ RowsOf(a, b) = {}
    BY <2>3 DEF Live, Rows, RowsOf
  <2>5. LinksInv' /\ SoundLeg(a)' /\ SoundLeg(b)'
    BY <2>2, <2>3, <2>4, LinkPairLinks DEF Undisturbed
  <2>6. links' = WithLink(a, b) /\ SetSide({a, b}, Clearing) /\ status' = status
    BY <2>2 DEF LinkPair
  <2>7. \A x : x \notin {a, b} => /\ Rows(x)' = Rows(x) /\ Live(x)' = Live(x)
                                  /\ \A y : RowsOf(x, y)' = RowsOf(x, y)
    BY <2>6 DEF WithLink, Rows, Live, RowsOf
  <2>8. \A x \in Leg : x \notin {a, b} => side'[x] = side[x]
    BY <2>6, SideOfLegs
  <2>9. SoundInv'
    BY <1>3, <2>5, <2>7, <2>8 DEF Undisturbed, SoundInv, SoundLeg
  <2>10. ReqInv'
    <3>1. \A x \in LegsOf(req) : x \in Leg /\ x \notin {a, b}
      BY <2>3, LegsOfTyped DEF TypeOK
    <3>2. \A x : Present(x) => Present(x)'
      BY <2>6 DEF Present
    <3>3. QED
      BY <1>3, <2>7, <2>8, <3>1, <3>2, ReqFrame DEF Undisturbed
  <2>11. PassInv'
    <3>1. \A f \in pairs' : f \in pairs /\ {a, b} \cap {f[1], f[2]} = {}
      BY <1>3, <2>1, <2>2 DEF Undisturbed, PassInv
    <3>2. \A f \in pairs' : \A l \in {f[1], f[2]} \ touched : Rows(l)' = {}
      BY <2>2, <2>7, <3>1 DEF Undisturbed, PassInv
    <3>3. QED
      BY <1>3, <2>2, <3>1, <3>2 DEF Undisturbed, PassInv
  <2>12. QED
    BY <2>5, <2>9, <2>10, <2>11 DEF Undisturbed
<1>4. QED
  BY <1>1, <1>2, <1>3

-----------------------------------------------------------------------------
(* The clearing account, in the specification.                             *)

LEMMA UntornStep ==
    ASSUME TypeOK, UntornInv, [Next]_vars
    PROVE  UntornInv'
<1>1. SUFFICES ASSUME ~torn' PROVE Undisturbed'
  BY DEF UntornInv
<1>2. ~torn
  BY <1>1 DEF Next, vars, Insert, Settle, PassStep, StartPass, LinkNext, ReadDeclared,
     MoveNext, FinishPass, AbandonPass, Request, Categorize, Confirm, Reject, Pair,
     Passthrough, Unlink, Delete, Commit, CutShort
<1>3. Undisturbed
  BY <1>2 DEF UntornInv
<1>4. CASE UNCHANGED vars
  <2>1. SoundInv' /\ LinksInv' /\ ReqInv'
    BY <1>3, <1>4, NothingMoves DEF vars
  <2>2. PassInv'
    BY <1>3, <1>4, SamePass DEF vars, passVars, Undisturbed
  <2>3. QED
    BY <2>1, <2>2 DEF Undisturbed
<1>5. CASE PassStep
  <2>1. CASE FinishPass
    BY <1>3, <2>1, EndStep DEF FinishPass
  <2>2. QED
    BY <1>1, <1>3, <1>5, <2>1, StartStep, LinkStep, ReadStep, MoveStep DEF PassStep
<1>6. CASE AbandonPass
  BY <1>3, <1>6, EndStep DEF AbandonPass
<1>7. CASE CutShort
  BY <1>1, <1>7 DEF CutShort
<1>8. QED
  BY <1>1, <1>3, <1>4, <1>5, <1>6, <1>7, InsertStep, SettleStep, RequestStep, CommitStep
     DEF Next

\* Until one of the named disturbances happens, every leg no statement is
\* pending for is sound, whatever the passes and the requests do.
THEOREM Untorn == Spec => []UntornInv
<1>1. Init => UntornInv
  <2>1. SUFFICES ASSUME Init PROVE Undisturbed
    BY DEF UntornInv
  <2>2. links = {} /\ req = <<>> /\ pass = "idle" /\ \A l \in Leg : side[l] = None
    BY <2>1 DEF Init
  <2>3. \A l : Live(l) = {}
    BY <2>2 DEF Live, Rows
  <2>4. SoundInv
    BY <2>2, <2>3, SideAssumption DEF SoundInv, SoundLeg
  <2>5. LinksInv /\ PassInv
    BY <2>2 DEF LinksInv, PassInv
  <2>6. ReqInv
    BY <2>2, NothingLeft DEF ReqInv
  <2>7. QED
    BY <2>4, <2>5, <2>6 DEF Undisturbed
<1>2. QED
  BY <1>1, UntornStep, TypeCorrect, PTL DEF Spec

\* Between requests the legs on the clearing account are those of the live
\* links, each leg of one link (link_transfer_pair, set_transfer_review).
THEOREM PairsStayCleared == Spec => []PairsCleared
<1>1. UntornInv => PairsCleared
  <2>1. SUFFICES ASSUME UntornInv, Quiet, NEW l \in Leg
                 PROVE  Cardinality(Live(l)) <= 1 /\ (l \in Cleared <=> Live(l) # {})
    BY DEF PairsCleared
  <2>2. SoundLeg(l)
    BY <2>1, NothingLeft DEF UntornInv, Undisturbed, SoundInv, Quiet
  <2>3. Cardinality(Live(l)) <= 1
    <3>1. CASE Live(l) = {}
      BY <3>1, FS_EmptySet
    <3>2. CASE Live(l) # {}
      <4>1. PICK k : Live(l) = {k}
        BY <2>2, <3>2 DEF SoundLeg
      <4>2. Cardinality({k}) = 1
        BY FS_Singleton
      <4>3. QED
        BY <4>1, <4>2
    <3>3. QED
      BY <3>1, <3>2
  <2>4. QED
    BY <2>2, <2>3 DEF SoundLeg, Cleared
<1>2. QED
  BY <1>1, Untorn, PTL

-----------------------------------------------------------------------------
(* The clearing account nets to zero: whatever is or will be linked are    *)
(* two legs of opposite amounts, whoever paired them, and by PairsCleared  *)
(* the legs on the account are those of the live links, each of one.       *)

Sums == INSTANCE Sums WITH Element <- Leg, Weight <- Amount

LEMMA AmountsKnown == Sums!Weighted
<1>1. Amount \in [Leg -> Int]
  BY FactsAssumption DEF Amount
<1>2. QED
  BY <1>1, LegAssumption DEF Sums!Weighted, IsFiniteSet, Sums!IsFiniteSet

LEMMA SameTotal == ASSUME NEW S PROVE Total(S) = Sums!Sum(S)
  BY DEF Total, Sums!Sum, MapThenSumSet, MapThenFoldSet, Sums!MapThenSumSet, Sums!MapThenFoldSet

Opposite(a, b) == a # b /\ Facts[a].amount + Facts[b].amount = 0
LinksOpposite == \A k \in links : Opposite(k.a, k.b)
PairsOpposite == \A e \in pairs : Opposite(e[1], e[2])
ReqOpposite == \A i \in 1..Len(req) : req[i].do = "link" => Opposite(req[i].a, req[i].b)
OppositeInv == LinksOpposite /\ PairsOpposite /\ ReqOpposite

LEMMA EdgesOpposite ==
    ASSUME NEW M \in BestPairs, NEW e \in M
    PROVE  Opposite(e[1], e[2])
<1>1. e \in Edges
  BY DEF BestPairs, Matchings
<1>2. /\ e[1] \in Leg /\ e[2] \in Leg /\ Facts[e[1]].amount < 0
      /\ Facts[e[1]].amount + Facts[e[2]].amount = 0
  BY <1>1 DEF Edges, Candidates
<1>3. Facts[e[1]].amount \in Int
  BY <1>2, FactsAssumption
<1>4. e[1] # e[2]
  BY <1>2, <1>3
<1>5. QED
  BY <1>2, <1>4 DEF Opposite

LEMMA OppositeBothWays ==
    ASSUME NEW a \in Leg, NEW b \in Leg, Opposite(a, b)
    PROVE  Opposite(b, a)
<1>1. Facts[a].amount \in Int /\ Facts[b].amount \in Int
  BY FactsAssumption
<1>2. QED
  BY <1>1 DEF Opposite

LEMMA LinkPairOpposite ==
    ASSUME LinksOpposite, NEW a, NEW b, Opposite(a, b), LinkPair(a, b)
    PROVE  LinksOpposite'
  BY DEF LinkPair, WithLink, LinksOpposite, Opposite

LEMMA VerdictOpposite ==
    ASSUME TypeOK, LinksOpposite, NEW a, NEW b, NEW v, links' = WithVerdict(a, b, v)
    PROVE  LinksOpposite'
<1> SUFFICES ASSUME NEW k \in links'
             PROVE  Opposite(k.a, k.b)
  BY DEF LinksOpposite
<1>1. PICK m \in links :
        k = IF m \in RowsOf(a, b) THEN [m EXCEPT !.verdict = v] ELSE m
  BY DEF WithVerdict
<1>2. m \in [a: Leg, b: Leg, verdict: Verdict]
  BY DEF TypeOK
<1>3. k.a = m.a /\ k.b = m.b
  BY <1>1, <1>2
<1>4. QED
  BY <1>3 DEF LinksOpposite

LEMMA OneAsked ==
    ASSUME NEW s, req' = <<s>>, s.do # "link"
    PROVE  ReqOpposite'
  BY DEF ReqOpposite

LEMMA RejectAsked ==
    ASSUME NEW a, NEW b, req' = RejectStatements(a, b)
    PROVE  ReqOpposite'
  BY DEF ReqOpposite, RejectStatements, VerdictOn, SideOf

LEMMA DeleteAsked ==
    ASSUME NEW a, NEW b, NEW l, req' = Append(RejectStatements(a, b), RemovalOf(l))
    PROVE  ReqOpposite'
<1> SUFFICES ASSUME NEW i \in 1..Len(req')
             PROVE  req'[i].do # "link"
  BY DEF ReqOpposite
<1>1. req' = <<VerdictOn(a, b, "rejected"), SideOf(a, Uncategorized),
               SideOf(b, Uncategorized), RemovalOf(l)>>
  BY AppendFourth DEF RejectStatements
<1>2. i = 1 \/ i = 2 \/ i = 3 \/ i = 4
  BY <1>1
<1>3. req'[i] \in {VerdictOn(a, b, "rejected"), SideOf(a, Uncategorized),
                   SideOf(b, Uncategorized), RemovalOf(l)}
  BY <1>1, <1>2
<1>4. QED
  BY <1>3 DEF VerdictOn, SideOf, RemovalOf

LEMMA NothingAsked == ASSUME req' = <<>> PROVE ReqOpposite'
  BY DEF ReqOpposite

LEMMA PassOpposite ==
    ASSUME TypeOK, OppositeInv, PassStep \/ AbandonPass
    PROVE  OppositeInv'
<1> USE DEF OppositeInv
<1>1. req' = req
  BY DEF PassStep, StartPass, LinkNext, ReadDeclared, MoveNext, FinishPass, AbandonPass, AbortPass
<1>2. ReqOpposite'
  BY <1>1 DEF ReqOpposite
<1>3. CASE StartPass
  <2>1. PairsOpposite'
    <3>1. pairs' \in BestPairs
      BY <1>3 DEF StartPass
    <3>2. \A e \in pairs' : Opposite(e[1], e[2])
      BY <3>1, EdgesOpposite
    <3>3. QED
      BY <3>2 DEF PairsOpposite, Opposite
  <2>2. LinksOpposite'
    BY <1>3 DEF StartPass, LinksOpposite, Opposite
  <2>3. QED
    BY <1>2, <2>1, <2>2
<1>4. CASE LinkNext
  <2>1. PICK e \in pairs :
          IF Present(e[1]) /\ Present(e[2])
          THEN LinkPair(e[1], e[2]) /\ pairs' = pairs \ {e}
          ELSE pairs' = {} /\ links' = links
    BY <1>4 DEF LinkNext, AbortPass, EndPass
  <2>2. PairsOpposite'
    BY <2>1 DEF PairsOpposite, Opposite
  <2>3. Opposite(e[1], e[2])
    BY DEF PairsOpposite
  <2>4. CASE LinkPair(e[1], e[2])
    BY <1>2, <2>2, <2>3, <2>4, LinkPairOpposite
  <2>5. CASE links' = links
    BY <1>2, <2>2, <2>5 DEF LinksOpposite, Opposite
  <2>6. QED
    BY <2>1, <2>4, <2>5
<1>5. CASE ReadDeclared \/ MoveNext \/ FinishPass \/ AbandonPass
  <2>1. links' = links /\ pairs' \subseteq pairs
    BY <1>5 DEF ReadDeclared, MoveNext, FinishPass, AbandonPass, AbortPass, EndPass, passVars
  <2>2. QED
    BY <1>2, <2>1 DEF LinksOpposite, PairsOpposite, Opposite
<1>6. QED
  BY <1>3, <1>4, <1>5 DEF PassStep

LEMMA RequestOpposite ==
    ASSUME TypeOK, OppositeInv, Request
    PROVE  OppositeInv'
<1> USE DEF OppositeInv
<1>1. links' = links /\ pairs' = pairs
  BY DEF Request, Categorize, Confirm, Reject, Pair, Passthrough, Unlink, Delete, Ask, passVars
<1>2. LinksOpposite' /\ PairsOpposite'
  BY <1>1 DEF LinksOpposite, PairsOpposite, Opposite
<1>3. CASE \E l \in Leg, c \in Category \cup {Split} : Categorize(l, c)
  <2>1. PICK l \in Leg, c \in Category \cup {Split} : req' = <<SideOf(l, c)>>
    BY <1>3 DEF Categorize, Ask
  <2>2. QED
    BY <1>2, <2>1, OneAsked DEF SideOf
<1>4. CASE \E a, b \in Leg : Confirm(a, b)
  <2>1. PICK a \in Leg, b \in Leg : req' = <<VerdictOn(a, b, "confirmed")>>
    BY <1>4 DEF Confirm, Ask
  <2>2. QED
    BY <1>2, <2>1, OneAsked DEF VerdictOn
<1>5. CASE \E a, b \in Leg : Reject(a, b)
  <2>1. PICK a \in Leg, b \in Leg : req' = RejectStatements(a, b)
    BY <1>5 DEF Reject, Ask
  <2>2. QED
    BY <1>2, <2>1, RejectAsked
<1>6. CASE \E a, b \in Leg : Pair(a, b)
  <2>1. PICK a \in Leg, b \in Leg : Pair(a, b)
    BY <1>6
  <2>2. PICK c, d : /\ Opposite(c, d)
                    /\ req' = <<LinkOf(c, d), VerdictOn(c, d, "confirmed")>>
    <3>1. CASE RowsOf(a, b) = {}
      <4>1. Opposite(a, b)
        BY <2>1 DEF Pair, Opposite
      <4>2. req' = <<LinkOf(a, b), VerdictOn(a, b, "confirmed")>>
        BY <2>1, <3>1 DEF Pair, Ask
      <4>3. QED
        BY <4>1, <4>2
    <3>2. CASE RowsOf(a, b) # {}
      <4>1. PICK k \in RowsOf(a, b) : req' = <<LinkOf(k.a, k.b), VerdictOn(k.a, k.b, "confirmed")>>
        BY <2>1, <3>2 DEF Pair, Ask
      <4>2. Opposite(k.a, k.b)
        BY DEF RowsOf, LinksOpposite
      <4>3. QED
        BY <4>1, <4>2
    <3>3. QED
      BY <3>1, <3>2
  <2>3. Opposite(c, d)'
    BY <2>2 DEF Opposite
  <2>4. \A i \in 1..Len(req') : i = 1 \/ i = 2
    BY <2>2
  <2>5. req'[1] = LinkOf(c, d) /\ req'[2] = VerdictOn(c, d, "confirmed")
    BY <2>2
  <2>6. req'[1].a = c /\ req'[1].b = d /\ req'[2].do = "verdict"
    BY <2>5 DEF LinkOf, VerdictOn
  <2>7. ReqOpposite'
    BY <2>3, <2>4, <2>6 DEF ReqOpposite
  <2>8. QED
    BY <1>2, <2>7
<1>7. CASE \E l \in Leg, d \in Destination : Passthrough(l, d)
  <2>1. PICK l \in Leg, d \in Destination : req' = <<SideOf(l, d)>>
    BY <1>7 DEF Passthrough, Ask
  <2>2. QED
    BY <1>2, <2>1, OneAsked DEF SideOf
<1>8. CASE \E l \in Leg : Unlink(l)
  <2>1. PICK l \in Leg : Unlink(l)
    BY <1>8
  <2>2. CASE req' = <<SideOf(l, Uncategorized)>>
    BY <1>2, <2>2, OneAsked DEF SideOf
  <2>3. CASE \E k \in TransferLink(l) : req' = RejectStatements(k.a, k.b)
    BY <1>2, <2>3, RejectAsked
  <2>4. QED
    BY <2>1, <2>2, <2>3 DEF Unlink, Ask
<1>9. CASE \E l \in Leg : Delete(l)
  <2>0. PICK l \in Leg : \E stmts \in DeleteStatements(l) : req' = stmts
    BY <1>9 DEF Delete, Ask
  <2>1. PICK stmts \in DeleteStatements(l) : req' = stmts
    BY <2>0
  <2>2. CASE stmts = <<RemovalOf(l)>>
    BY <1>2, <2>1, <2>2, OneAsked DEF RemovalOf
  <2>3. CASE \E k \in TransferLink(l) : stmts = Append(RejectStatements(k.a, k.b), RemovalOf(l))
    BY <1>2, <2>1, <2>3, DeleteAsked
  <2>4. QED
    BY <2>2, <2>3 DEF DeleteStatements
<1>10. QED
  BY <1>3, <1>4, <1>5, <1>6, <1>7, <1>8, <1>9 DEF Request

LEMMA CommitOpposite ==
    ASSUME TypeOK, OppositeInv, Commit
    PROVE  OppositeInv'
<1> USE DEF OppositeInv
<1> DEFINE s == Head(req)
<1>1. req \in Seq(Statement) /\ req # <<>> /\ req' = Tail(req) /\ pairs' = pairs
  BY DEF Commit, TypeOK, passVars
<1>2. PairsOpposite'
  BY <1>1 DEF PairsOpposite, Opposite
<1>3. s = req[1] /\ 1 \in 1..Len(req)
  BY <1>1
<1>4. \A i \in 1..Len(req') : req'[i] = req[i + 1] /\ i + 1 \in 1..Len(req)
  BY <1>1
<1>5. ReqOpposite'
  BY <1>4 DEF ReqOpposite, Opposite
<1>6. LinksOpposite'
  <2>1. CASE s.do = "link"
    <3>1. LinkPair(s.a, s.b)
      BY <2>1 DEF Commit
    <3>2. Opposite(s.a, s.b)
      BY <1>3, <2>1 DEF ReqOpposite
    <3>3. QED
      BY <3>1, <3>2, LinkPairOpposite
  <2>2. CASE s.do = "verdict"
    <3>1. links' = WithVerdict(s.a, s.b, s.to)
      BY <2>2 DEF Commit
    <3>2. QED
      BY <3>1, VerdictOpposite
  <2>3. CASE s.do = "side"
    <3>1. links' = links
      BY <2>3 DEF Commit
    <3>2. QED
      BY <3>1 DEF LinksOpposite, Opposite
  <2>4. CASE s.do = "remove"
    <3>1. links' = links \ Rows(s.a)
      BY <2>4 DEF Commit
    <3>2. QED
      BY <3>1 DEF LinksOpposite, Opposite
  <2>5. s \in Statement
    BY <1>1
  <2>6. s.do \in {"link", "verdict", "side", "remove"}
    BY <2>5 DEF Statement
  <2>7. QED
    BY <2>1, <2>2, <2>3, <2>4, <2>6
<1>7. QED
  BY <1>2, <1>5, <1>6

LEMMA OppositeStep ==
    ASSUME TypeOK, OppositeInv, [Next]_vars
    PROVE  OppositeInv'
<1>1. CASE (\E l \in Leg, st \in {"PDNG", "BOOK"} : Insert(l, st)) \/ (\E l \in Leg : Settle(l))
  BY <1>1 DEF Insert, Settle, passVars, OppositeInv, LinksOpposite, PairsOpposite, ReqOpposite, Opposite
<1>2. CASE PassStep \/ AbandonPass
  BY <1>2, PassOpposite
<1>3. CASE Request
  BY <1>3, RequestOpposite
<1>4. CASE Commit
  BY <1>4, CommitOpposite
<1>5. CASE CutShort
  <2>1. req' = <<>> /\ links' = links /\ pairs' = pairs
    BY <1>5 DEF CutShort, passVars
  <2>2. QED
    BY <2>1, NothingAsked DEF OppositeInv, LinksOpposite, PairsOpposite, Opposite
<1>6. CASE UNCHANGED vars
  BY <1>6 DEF vars, passVars, OppositeInv, LinksOpposite, PairsOpposite, ReqOpposite, Opposite
<1>7. QED
  BY <1>1, <1>2, <1>3, <1>4, <1>5, <1>6 DEF Next

THEOREM LinkedAreOpposite == Spec => []OppositeInv
<1>1. Init => OppositeInv
  BY DEF Init, OppositeInv, LinksOpposite, PairsOpposite, ReqOpposite
<1>2. QED
  BY <1>1, OppositeStep, TypeCorrect, PTL DEF Spec

\* Between requests the clearing account nets to zero, whatever was paired, rejected
\* or deleted before, until one of the named disturbances happens
\* (transfer_amount_total).
THEOREM ClearingStaysNet == Spec => []ClearingNets
<1>1. TypeOK /\ UntornInv /\ OppositeInv => ClearingNets
  <2> SUFFICES ASSUME TypeOK, UntornInv, OppositeInv, Quiet
               PROVE  Total(Cleared) = 0
    BY DEF ClearingNets
  <2> DEFINE LinkOfLeg(l) == CHOOSE k \in Live(l) : TRUE
             Other(l) == IF LinkOfLeg(l).a = l THEN LinkOfLeg(l).b ELSE LinkOfLeg(l).a
             mate == [l \in Cleared |-> Other(l)]
  <2>1. \A l \in Leg : SoundLeg(l)
    BY NothingLeft DEF UntornInv, Undisturbed, SoundInv, Quiet
  <2>2. ASSUME NEW l \in Cleared
        PROVE  /\ Other(l) \in Cleared /\ Other(l) # l /\ Other(Other(l)) = l
               /\ Amount[l] + Amount[Other(l)] = 0
    <3> DEFINE k == LinkOfLeg(l)
               o == Other(l)
    <3>1. l \in Leg /\ Live(l) # {}
      BY <2>1 DEF Cleared, SoundLeg
    <3>2. k \in Live(l)
      BY <3>1
    <3>3. k \in links /\ k.verdict # "rejected" /\ l \in {k.a, k.b}
      BY <3>2 DEF Live, Rows
    <3>4. k.a \in Leg /\ k.b \in Leg
      BY <3>3 DEF TypeOK
    <3>5. Opposite(k.a, k.b)
      BY <3>3 DEF OppositeInv, LinksOpposite
    <3> HIDE DEF k
    <3>6. /\ o = IF k.a = l THEN k.b ELSE k.a
          /\ o \in Leg /\ o # l /\ o \in {k.a, k.b} /\ Opposite(l, o)
      BY <3>3, <3>4, <3>5, OppositeBothWays DEF Opposite, k
    <3> HIDE DEF o
    <3>7. k \in Live(o)
      BY <3>3, <3>6 DEF Live, Rows
    <3>8. o \in Cleared
      BY <2>1, <3>6, <3>7 DEF SoundLeg, Cleared
    <3>9. LinkOfLeg(o) = k
      BY <2>1, <3>6, <3>7 DEF SoundLeg
    <3> HIDE DEF LinkOfLeg
    <3>10. Other(o) = l
      BY <3>3, <3>6, <3>9
    <3>11. Amount[l] + Amount[o] = 0
      BY <3>1, <3>6 DEF Amount, Opposite
    <3>12. QED
      BY <3>6, <3>8, <3>10, <3>11 DEF o
  <2> HIDE DEF Other
  <2>3. mate \in [Cleared -> Cleared]
    BY <2>2
  <2>4. \A l \in Cleared : /\ mate[l] # l /\ mate[mate[l]] = l
                           /\ Amount[l] + Amount[mate[l]] = 0
    BY <2>2
  <2>5. Cleared \in SUBSET Leg
    BY DEF Cleared
  <2> HIDE DEF mate
  <2>6. Sums!Sum(Cleared) = 0
    BY <2>3, <2>4, <2>5, AmountsKnown, Sums!SumPaired
  <2>7. QED
    BY <2>6, SameTotal
<1>2. QED
  BY <1>1, Untorn, TypeCorrect, LinkedAreOpposite, PTL
=============================================================================
