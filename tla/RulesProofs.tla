---------------------------- MODULE RulesProofs ----------------------------
(***************************************************************************)
(* What is proved of Rules, for every set of movements, rules, workers and *)
(* editors: the types, the one mirror, the tags and the choices a person   *)
(* made, that the sides and the tags follow the rules once the jobs are    *)
(* over, and that one pass is enough.                                      *)
(***************************************************************************)
EXTENDS Rules, FiniteSetTheorems, WellFoundedInduction, TLAPS

-----------------------------------------------------------------------------
(* The rules a table may hold, and which of them decides.                  *)

\* A table of rules that set_rule let through.
Good(R) == R \in RuleTable /\ \A r \in RuleId : R[r] # None => Writable(R[r])

\* What a rule may name: no conversion of the code writes anything else on a movement.
LEMMA TargetsSound ==
    ASSUME NEW R, Good(R), NEW m \in Movement
    PROVE  /\ Targets(R, m, "category") \subseteq Category \ {Uncategorized}
           /\ Targets(R, m, "transfer") \subseteq Destination \cup Hand
           /\ Targets(R, m, "tag") \subseteq Tag
  BY DEF Good, Targets, Candidates, Writable

LEMMA WinnerAmong ==
    ASSUME NEW R, NEW m, NEW action
    PROVE  Winner(R, m, action) \subseteq Targets(R, m, action)
  BY DEF Winner, Targets

LEMMA ConditionsNat ==
    ASSUME NEW k
    PROVE  Conditions(k) \in Nat
<1> DEFINE F == {"account", "least", "most"}
<1>1. IsFiniteSet({"account"}) /\ IsFiniteSet({"account", "least"})
  BY FS_EmptySet, FS_Singleton, FS_AddElement
<1>2. IsFiniteSet(F)
  <2>1. F = {"account", "least"} \cup {"most"}
    OBVIOUS
  <2> QED  BY <1>1, <2>1, FS_AddElement
<1>3. IsFiniteSet({f \in F : k[f] # None})
  BY <1>2, FS_Subset
<1> QED  BY <1>3, FS_CardinalityType DEF Conditions

\* Of two rules at most one is narrower.
LEMMA NarrowerOneWay ==
    ASSUME NEW R \in RuleTable, NEW r \in RuleId, NEW s \in RuleId,
           R[r] # None, R[s] # None, Narrower(R, r, s)
    PROVE  ~Narrower(R, s, r)
<1>1. R[r].pattern \in Pattern /\ R[s].pattern \in Pattern
  BY DEF RuleTable, Body
<1>2. PICK k \in Pattern, l \in Pattern : k = R[r].pattern /\ l = R[s].pattern
  BY <1>1
<1>3. k.length \in Nat /\ l.length \in Nat /\ k.order \in Nat /\ l.order \in Nat
  BY PatternAssumption
<1>4. Conditions(k) \in Nat /\ Conditions(l) \in Nat
  BY ConditionsNat
<1>5. r \in Nat /\ s \in Nat
  BY WorkersAssumption
<1>6. \/ k.length > l.length
      \/ /\ k.length = l.length
         /\ \/ Conditions(k) > Conditions(l)
            \/ /\ Conditions(k) = Conditions(l)
               /\ k.order < l.order \/ (k.order = l.order /\ r < s)
  BY <1>2 DEF Narrower
<1> QED  BY <1>2, <1>3, <1>4, <1>5, <1>6 DEF Narrower

\* At most one rule decides.
LEMMA WinnerOne ==
    ASSUME NEW R \in RuleTable, NEW m, NEW action,
           NEW x \in Winner(R, m, action), NEW y \in Winner(R, m, action)
    PROVE  x = y
<1> DEFINE C == Candidates(R, m, action)
<1>1. PICK r \in C : x = R[r].target /\ \A t \in C : t = r \/ Narrower(R, r, t)
  BY DEF Winner
<1>2. PICK s \in C : y = R[s].target /\ \A t \in C : t = s \/ Narrower(R, s, t)
  BY DEF Winner
<1>3. r \in RuleId /\ s \in RuleId /\ R[r] # None /\ R[s] # None
  BY DEF Candidates
<1>4. r = s \/ (Narrower(R, r, s) /\ Narrower(R, s, r))
  BY <1>1, <1>2
<1> QED  BY <1>1, <1>2, <1>3, <1>4, NarrowerOneWay

\* Being narrower is an order of the rules, and a total one.
LEMMA NarrowerOrder ==
    ASSUME NEW R \in RuleTable, NEW r \in RuleId, NEW s \in RuleId, NEW t \in RuleId,
           R[r] # None, R[s] # None, R[t] # None
    PROVE  /\ Narrower(R, r, s) /\ Narrower(R, s, t) => Narrower(R, r, t)
           /\ r # s => Narrower(R, r, s) \/ Narrower(R, s, r)
<1>1. R[r].pattern \in Pattern /\ R[s].pattern \in Pattern /\ R[t].pattern \in Pattern
  BY DEF RuleTable, Body
<1>2. PICK k \in Pattern, l \in Pattern, h \in Pattern :
        k = R[r].pattern /\ l = R[s].pattern /\ h = R[t].pattern
  BY <1>1
<1>3. k.length \in Nat /\ l.length \in Nat /\ k.order \in Nat /\ l.order \in Nat
      /\ h.length \in Nat /\ h.order \in Nat
  BY PatternAssumption
<1>4. PICK x \in Nat, y \in Nat, z \in Nat :
        x = Conditions(k) /\ y = Conditions(l) /\ z = Conditions(h)
  BY ConditionsNat
<1>5. r \in Nat /\ s \in Nat /\ t \in Nat
  BY WorkersAssumption
<1>6. Narrower(R, r, s) <=>
        \/ k.length > l.length
        \/ k.length = l.length /\ (\/ x > y
                                   \/ x = y /\ (k.order < l.order \/ (k.order = l.order /\ r < s)))
  BY <1>2, <1>4 DEF Narrower
<1>7. Narrower(R, s, t) <=>
        \/ l.length > h.length
        \/ l.length = h.length /\ (\/ y > z
                                   \/ y = z /\ (l.order < h.order \/ (l.order = h.order /\ s < t)))
  BY <1>2, <1>4 DEF Narrower
<1>8. Narrower(R, r, t) <=>
        \/ k.length > h.length
        \/ k.length = h.length /\ (\/ x > z
                                   \/ x = z /\ (k.order < h.order \/ (k.order = h.order /\ r < t)))
  BY <1>2, <1>4 DEF Narrower
<1>9. Narrower(R, s, r) <=>
        \/ l.length > k.length
        \/ l.length = k.length /\ (\/ y > x
                                   \/ y = x /\ (l.order < k.order \/ (l.order = k.order /\ s < r)))
  BY <1>2, <1>4 DEF Narrower
<1>10. Narrower(R, r, s) /\ Narrower(R, s, t) => Narrower(R, r, t)
  BY <1>3, <1>5, <1>6, <1>7, <1>8
<1>11. r # s => Narrower(R, r, s) \/ Narrower(R, s, r)
  BY <1>3, <1>5, <1>6, <1>9
<1> QED  BY <1>10, <1>11

\* Where a rule applies one decides: of the candidates, the one that fewest are narrower than.
LEMMA WinnerExists ==
    ASSUME NEW R \in RuleTable, NEW m, NEW action, Targets(R, m, action) # {}
    PROVE  Winner(R, m, action) # {}
<1> DEFINE C == Candidates(R, m, action)
           Ahead(s) == {t \in C : Narrower(R, t, s)}
           Ranks == {Cardinality(Ahead(s)) : s \in C}
<1>1. IsFiniteSet(C) /\ C \subseteq RuleId /\ \A s \in C : R[s] # None
  <2>1. C \subseteq RuleId /\ \A s \in C : R[s] # None
    BY DEF Candidates
  <2> QED  BY <2>1, WorkersAssumption, FS_Subset
<1>2. C # {}
  BY DEF Targets
<1>3. \A s \in C : IsFiniteSet(Ahead(s)) /\ Cardinality(Ahead(s)) \in Nat
  <2> TAKE s \in C
  <2>1. IsFiniteSet(Ahead(s))
    BY <1>1, FS_Subset
  <2> QED  BY <2>1, FS_CardinalityType
<1>4. Ranks \subseteq Nat /\ Ranks # {}
  BY <1>2, <1>3
<1>5. PICK n \in Ranks : \A i \in Ranks : ~(<<i, n>> \in OpToRel(<, Nat))
  BY <1>4, NatLessThanWellFounded, WFMin
<1>6. PICK s \in C : n = Cardinality(Ahead(s))
  OBVIOUS
<1>7. \A t \in C : t = s \/ Narrower(R, s, t)
  <2> SUFFICES ASSUME NEW t \in C, t # s, ~Narrower(R, s, t) PROVE FALSE
    OBVIOUS
  <2>1. Narrower(R, t, s)
    BY <1>1, NarrowerOrder
  <2>2. Ahead(t) \subseteq Ahead(s)
    BY <1>1, <2>1, NarrowerOrder
  <2>3. t \in Ahead(s) /\ t \notin Ahead(t)
    BY <1>1, <2>1, NarrowerOneWay
  <2> HIDE DEF Ahead, C
  <2>4. /\ Cardinality(Ahead(t)) <= Cardinality(Ahead(s))
        /\ Cardinality(Ahead(s)) = Cardinality(Ahead(t)) => Ahead(s) = Ahead(t)
    BY <1>3, <2>2, FS_Subset
  <2>5. Cardinality(Ahead(t)) < Cardinality(Ahead(s))
    BY <1>3, <2>3, <2>4
  <2>6. Cardinality(Ahead(t)) \in Ranks /\ Cardinality(Ahead(t)) \in Nat /\ n \in Nat
    BY <1>3, <1>4
  <2> HIDE DEF Ranks
  <2>7. <<Cardinality(Ahead(t)), n>> \in OpToRel(<, Nat)
    BY <1>6, <2>5, <2>6 DEF OpToRel
  <2> QED  BY <1>5, <2>6, <2>7
<1> QED  BY <1>7 DEF Winner

-----------------------------------------------------------------------------
(* What the operations write on one movement.                              *)

LEMMA RowFields ==
    ASSUME NEW c \in Row
    PROVE  /\ c.status \in {"absent", "PDNG", "BOOK", "deleted"} /\ c.side \in Side
           /\ c.paired \in BOOLEAN /\ c.mirrors \in Seq(Hand)
           /\ c.personal \subseteq Tag /\ c.ruled \subseteq Tag /\ c.personal \cap c.ruled = {}
  BY DEF Row

LEMMA GoneRow ==
    ASSUME NEW status \in {"absent", "PDNG", "BOOK", "deleted"}
    PROVE  /\ Gone(status) \in Row /\ Gone(status).status = status /\ Gone(status).side = None
           /\ Gone(status).paired = FALSE /\ Gone(status).mirrors = <<>>
           /\ Gone(status).personal = {} /\ Gone(status).ruled = {}
<1>1. <<>> \in Seq(Hand)
  OBVIOUS
<1> QED  BY <1>1 DEF Gone, Row, Side

LEMMA PointRow ==
    ASSUME NEW c \in Row, NEW s \in Side
    PROVE  /\ PointAt(c, s) \in Row /\ PointAt(c, s).status = c.status
           /\ PointAt(c, s).side = s /\ PointAt(c, s).paired = c.paired
           /\ PointAt(c, s).mirrors = c.mirrors
           /\ PointAt(c, s).personal = c.personal /\ PointAt(c, s).ruled = c.ruled
  BY DEF PointAt, Row

LEMMA DropRow ==
    ASSUME NEW c \in Row
    PROVE  /\ DropMirror(c) \in Row /\ DropMirror(c).status = c.status
           /\ DropMirror(c).side = Uncategorized /\ DropMirror(c).paired = c.paired
           /\ DropMirror(c).mirrors = <<>>
           /\ DropMirror(c).personal = c.personal /\ DropMirror(c).ruled = c.ruled
<1>1. <<>> \in Seq(Hand) /\ Uncategorized \in Side
  BY NamesAssumption DEF Side
<1> QED  BY <1>1 DEF DropMirror, Row

LEMMA MirrorRow ==
    ASSUME NEW c \in Row, NEW a \in Hand
    PROVE  /\ MirrorOn(c, a) \in Row /\ MirrorOn(c, a).status = c.status
           /\ MirrorOn(c, a).side = Clearing /\ MirrorOn(c, a).paired = c.paired
           /\ MirrorOn(c, a).mirrors = Append(c.mirrors, a)
           /\ MirrorOn(c, a).personal = c.personal /\ MirrorOn(c, a).ruled = c.ruled
<1>1. Append(c.mirrors, a) \in Seq(Hand) /\ Clearing \in Side
  BY RowFields DEF Side
<1> QED  BY <1>1 DEF MirrorOn, Row

\* The tag phase writes the tags alone.
TagStep(A, m, r, c, d) ==
    LET wanted == Targets(A, m, "tag") \ r.personal
        dropped == r.ruled \ wanted
    IN  /\ d \in Row /\ d.status = c.status /\ d.side = c.side
        /\ d.paired = c.paired /\ d.mirrors = c.mirrors
        /\ d.personal = c.personal \ dropped
        /\ d.ruled = (c.ruled \ dropped) \cup ((wanted \ r.ruled) \ c.personal)

LEMMA TaggedRow ==
    ASSUME NEW A, Good(A), NEW m \in Movement, NEW r \in Row, NEW c \in Row
    PROVE  TagStep(A, m, r, c, Tagged(A, m, r, c))
<1> DEFINE wanted == Targets(A, m, "tag") \ r.personal
           dropped == r.ruled \ wanted
           P == c.personal \ dropped
           U == (c.ruled \ dropped) \cup ((wanted \ r.ruled) \ c.personal)
           d == Tagged(A, m, r, c)
<1>1. wanted \subseteq Tag
  BY TargetsSound
<1>2. P \subseteq Tag /\ U \subseteq Tag /\ P \cap U = {}
  BY <1>1, RowFields
<1>3. d = [c EXCEPT !.personal = P, !.ruled = U]
  BY DEF Tagged, Row
<1> HIDE DEF P, U, d
<1>4. /\ d \in Row /\ d.status = c.status /\ d.side = c.side
      /\ d.paired = c.paired /\ d.mirrors = c.mirrors
      /\ d.personal = P /\ d.ruled = U
  BY <1>2, <1>3 DEF Row
<1>5. TagStep(A, m, r, c, d)
  BY <1>4 DEF P, U, TagStep
<1> QED  BY <1>5 DEF d

-----------------------------------------------------------------------------
(* What a phase writes on one movement is a movement.                      *)

LEMMA RecordedRow ==
    ASSUME NEW r \in Row, NEW c \in Row, NEW t \in Destination \cup Hand
    PROVE  RecordTo(r, c, t) \in Row
<1>1. (IF Mirrored(r) THEN DropMirror(c) ELSE c) \in Row
  BY DropRow
<1>2. PICK d \in Row : d = IF Mirrored(r) THEN DropMirror(c) ELSE c
  BY <1>1
<1>3. RecordTo(r, c, t) = IF t \in Account THEN MirrorOn(d, t) ELSE PointAt(d, t)
  BY <1>2 DEF RecordTo
<1>4. t \in Account => t \in Hand
  BY NamesAssumption
<1>5. t \notin Account => t \in Side
  BY NamesAssumption DEF Side
<1> QED  BY <1>3, <1>4, <1>5, MirrorRow, PointRow

LEMMA LetGoRow ==
    ASSUME NEW r \in Row, NEW c \in Row
    PROVE  LetGo(r, c) \in Row
<1>1. Uncategorized \in Side
  BY NamesAssumption DEF Side
<1> QED  BY <1>1, DropRow, PointRow DEF LetGo

\* The one target of a transfer rule that decides.
LEMMA TransferTarget ==
    ASSUME NEW A, Good(A), NEW m \in Movement, Winner(A, m, "transfer") # {}
    PROVE  LET t == CHOOSE x \in Winner(A, m, "transfer") : TRUE
           IN  /\ t \in Destination \cup Hand /\ Winner(A, m, "transfer") = {t}
               /\ t \in Account => t \in Hand
<1> DEFINE t == CHOOSE x \in Winner(A, m, "transfer") : TRUE
<1>1. t \in Winner(A, m, "transfer")
  OBVIOUS
<1>2. t \in Destination \cup Hand
  BY <1>1, WinnerAmong, TargetsSound
<1>3. Winner(A, m, "transfer") = {t}
  <2>1. A \in RuleTable
    BY DEF Good
  <2> QED  BY <1>1, <2>1, WinnerOne
<1> QED  BY <1>2, <1>3, NamesAssumption

LEMMA WantedSound ==
    ASSUME NEW A, Good(A), NEW m \in Movement
    PROVE  /\ Wanted(A, m) \in Category
           /\ Wanted(A, m) # Uncategorized => Winner(A, m, "category") = {Wanted(A, m)}
<1>1. CASE Winner(A, m, "category") = {}
  BY <1>1, NamesAssumption DEF Wanted
<1>2. CASE Winner(A, m, "category") # {}
  <2>1. Wanted(A, m) \in Winner(A, m, "category")
    BY <1>2 DEF Wanted
  <2>2. Wanted(A, m) \in Category
    BY <2>1, WinnerAmong, TargetsSound
  <2>3. A \in RuleTable
    BY DEF Good
  <2> QED  BY <2>1, <2>2, <2>3, WinnerOne
<1> QED  BY <1>1, <1>2

LEMMA WroteRow ==
    ASSUME NEW p \in Phase, NEW B, NEW A, Good(A), NEW m \in Movement,
           NEW r \in Row, NEW c \in Row
    PROVE  Wrote(p, B, A, m, r, c) \in Row
<1>1. Deleted(A, m, r, c) \in Row
  BY GoneRow DEF Deleted
<1>2. Transferred(B, A, m, r, c) \in Row
  <2>1. CASE Winner(A, m, "transfer") # {}
    BY <2>1, TransferTarget, RecordedRow DEF Transferred
  <2>2. CASE Winner(A, m, "transfer") = {}
    BY <2>2, LetGoRow DEF Transferred
  <2> QED  BY <2>1, <2>2
<1>3. Categorized(B, A, m, r, c) \in Row
  <2>1. Wanted(A, m) \in Side
    BY WantedSound DEF Side
  <2> QED  BY <2>1, PointRow DEF Categorized
<1>4. Tagged(A, m, r, c) \in Row
  <2>1. TagStep(A, m, r, c, Tagged(A, m, r, c))
    BY TaggedRow
  <2> QED  BY <2>1 DEF TagStep
<1> QED  BY <1>1, <1>2, <1>3, <1>4 DEF Wrote, Phase

\* The phases in their order, each as one step.
LEMMA PhasesAre ==
    /\ Phases[1] = "delete" /\ Phases[2] = "transfer"
    /\ Phases[3] = "category" /\ Phases[4] = "tag" /\ Len(Phases) = 4
  BY DEF Phases

LEMMA TurnRow ==
    ASSUME NEW p \in Phase, NEW todo, NEW B, NEW A, Good(A), NEW m \in Movement, NEW c \in Row
    PROVE  Turn(p, todo, B, A, m, c) \in Row
  BY WroteRow DEF Turn

\* AppliedTo, turn by turn: whatever is said of it is said of each turn.
LEMMA InTurns ==
    ASSUME NEW todo, NEW B, NEW A, Good(A), NEW m \in Movement, NEW c \in Row
    PROVE  \E one \in Row, two \in Row, three \in Row, four \in Row :
             /\ one = Turn("delete", todo, B, A, m, c)
             /\ two = Turn("transfer", todo, B, A, m, one)
             /\ three = Turn("category", todo, B, A, m, two)
             /\ four = Turn("tag", todo, B, A, m, three)
             /\ AppliedTo(m, todo, B, A, c) = four
<1>1. PICK one \in Row : one = Turn("delete", todo, B, A, m, c)
  BY TurnRow DEF Phase
<1>2. PICK two \in Row : two = Turn("transfer", todo, B, A, m, one)
  BY TurnRow DEF Phase
<1>3. PICK three \in Row : three = Turn("category", todo, B, A, m, two)
  BY TurnRow DEF Phase
<1>4. PICK four \in Row : four = Turn("tag", todo, B, A, m, three)
  BY TurnRow DEF Phase
<1>5. AppliedTo(m, todo, B, A, c) = four
  BY <1>1, <1>2, <1>3, <1>4, PhasesAre DEF AppliedTo
<1> QED  BY <1>1, <1>2, <1>3, <1>4, <1>5

LEMMA AppliedRow ==
    ASSUME NEW todo, NEW B, NEW A, Good(A), NEW m \in Movement, NEW c \in Row
    PROVE  AppliedTo(m, todo, B, A, c) \in Row
  BY InTurns

-----------------------------------------------------------------------------
(* What a phase writes on a movement as it stands.                         *)

\* One mirror at most; a leg that has it, or is paired, is booked and on the clearing
\* account, and never both.
MirrorSound(b) ==
    /\ Len(b.mirrors) <= 1
    /\ Mirrored(b) => b.side = Clearing /\ b.paired = FALSE /\ b.status = "BOOK"
    /\ b.paired = TRUE => b.side = Clearing /\ b.status = "BOOK"

\* Alike but for the tags.
Alike(b, c) ==
    b.status = c.status /\ b.side = c.side /\ b.paired = c.paired /\ b.mirrors = c.mirrors

LEMMA NamesApart ==
    /\ Uncategorized \in Category /\ Uncategorized \notin Destination
    /\ Uncategorized # Clearing /\ Uncategorized # Split /\ Uncategorized # None
    /\ Clearing \notin Category \cup Destination /\ Split \notin Category \cup Destination
    /\ None \notin Category \cup Destination \cup Hand
    /\ Clearing # None /\ Clearing # Split /\ None # Split
    /\ Category \cap Destination = {} /\ Destination \cap Account = {}
    /\ Hand \subseteq Account
<1>1. Clearing # Split
  BY DEF Clearing, Split
<1> QED  BY <1>1, NamesAssumption

LEMMA OneOf ==
    ASSUME NEW a
    PROVE  /\ Append(<<>>, a) # <<>> /\ Len(Append(<<>>, a)) = 1 /\ Head(Append(<<>>, a)) = a
           /\ Len(<<>>) = 0
  OBVIOUS

\* What a transfer rule records is the leg it names, alone.
LEMMA RecordedIs ==
    ASSUME NEW c \in Row, MirrorSound(c), NEW m \in Movement, Decidable(c) \/ Mirrored(c),
           NEW t \in Destination \cup Hand, t # Current(c), Recordable(m, c, t)
    PROVE  LET d == RecordTo(c, c, t)
           IN  /\ d \in Row /\ MirrorSound(d) /\ Current(d) = t /\ ~Alike(c, d)
               /\ c.paired = FALSE /\ d.paired = FALSE
               /\ d.side \in Destination \cup {Clearing} /\ d.status = c.status
               /\ d.personal = c.personal /\ d.ruled = c.ruled
<1>1. c.paired = FALSE
  BY RowFields DEF Decidable, Linked, MirrorSound
<1>2. PICK b \in Row : b = IF Mirrored(c) THEN DropMirror(c) ELSE c
  BY DropRow
<1>3. /\ b.mirrors = <<>> /\ b.paired = FALSE /\ b.status = c.status
      /\ b.personal = c.personal /\ b.ruled = c.ruled
      /\ Mirrored(c) => b.side = Uncategorized
      /\ ~Mirrored(c) => b.side = c.side
  BY <1>1, <1>2, DropRow DEF Mirrored
<1>4. CASE t \in Account
  <2>1. t \in Hand
    BY <1>4, NamesApart
  <2>2. PICK d \in Row : d = MirrorOn(b, t)
    BY <2>1, MirrorRow
  <2>3. /\ d.mirrors = Append(<<>>, t) /\ d.side = Clearing /\ d.paired = FALSE
        /\ d.status = c.status /\ d.personal = c.personal /\ d.ruled = c.ruled
    BY <1>3, <2>1, <2>2, MirrorRow
  <2>4. Mirrored(d) /\ Current(d) = t /\ Len(d.mirrors) = 1
    BY <2>3, OneOf DEF Mirrored, Current
  <2>5. c.status = "BOOK"
    BY <1>4 DEF Recordable
  <2>6. MirrorSound(d)
    BY <2>3, <2>4, <2>5 DEF MirrorSound
  <2>7. ~Alike(c, d)
    <3>1. SUFFICES ASSUME c.mirrors = d.mirrors PROVE FALSE
      BY DEF Alike
    <3>2. Mirrored(c) /\ Head(c.mirrors) = t
      BY <2>3, <3>1, OneOf DEF Mirrored
    <3> QED  BY <3>2 DEF Current
  <2>8. RecordTo(c, c, t) = d
    BY <1>2, <1>4, <2>2 DEF RecordTo
  <2> QED  BY <1>1, <2>3, <2>4, <2>6, <2>7, <2>8
<1>5. CASE t \notin Account
  <2>1. t \in Destination /\ t \in Side
    BY <1>5, NamesApart DEF Side
  <2>2. PICK d \in Row : d = PointAt(b, t)
    BY <2>1, PointRow
  <2>3. /\ d.mirrors = <<>> /\ d.side = t /\ d.paired = FALSE
        /\ d.status = c.status /\ d.personal = c.personal /\ d.ruled = c.ruled
    BY <1>3, <2>1, <2>2, PointRow
  <2>4. ~Mirrored(d) /\ Current(d) = t
    BY <2>1, <2>3 DEF Mirrored, Current, Virtual
  <2>5. MirrorSound(d)
    BY <2>3, <2>4, OneOf DEF MirrorSound
  <2>6. ~Alike(c, d)
    <3>1. SUFFICES ASSUME c.mirrors = d.mirrors, c.side = d.side PROVE FALSE
      BY DEF Alike
    <3>2. Current(c) = t
      BY <2>1, <2>3, <3>1 DEF Mirrored, Current, Virtual
    <3> QED  BY <3>2
  <2>7. RecordTo(c, c, t) = d
    BY <1>2, <1>5, <2>2 DEF RecordTo
  <2> QED  BY <1>1, <2>1, <2>3, <2>4, <2>5, <2>6, <2>7
<1> QED  BY <1>4, <1>5

\* What a rule lets go of waits for a category, and nothing of it is recorded.
LEMMA LetGoIs ==
    ASSUME NEW c \in Row, MirrorSound(c), Decidable(c) \/ Mirrored(c), Current(c) # None
    PROVE  LET d == LetGo(c, c)
           IN  /\ d \in Row /\ MirrorSound(d) /\ Current(d) = None /\ ~Alike(c, d)
               /\ c.paired = FALSE /\ d.paired = FALSE
               /\ d.side = Uncategorized /\ d.status = c.status
               /\ d.personal = c.personal /\ d.ruled = c.ruled
<1>1. c.paired = FALSE
  BY RowFields DEF Decidable, Linked, MirrorSound
<1>2. Uncategorized \in Side
  BY NamesApart DEF Side
<1>3. PICK d \in Row : d = LetGo(c, c)
  BY LetGoRow
<1>4. /\ d.mirrors = <<>> /\ d.side = Uncategorized /\ d.paired = FALSE /\ d.status = c.status
      /\ d.personal = c.personal /\ d.ruled = c.ruled
  BY <1>1, <1>2, <1>3, DropRow, PointRow DEF LetGo, Mirrored
<1>5. ~Mirrored(d) /\ Current(d) = None
  BY <1>4, NamesApart DEF Mirrored, Current, Virtual
<1>6. MirrorSound(d)
  BY <1>4, <1>5, OneOf DEF MirrorSound
<1>7. c.side \in Destination \cup {Clearing}
  BY DEF Current, MirrorSound, Virtual
<1>8. ~Alike(c, d)
  BY <1>4, <1>7, NamesApart DEF Alike
<1> QED  BY <1>1, <1>3, <1>4, <1>5, <1>6, <1>8

Explained(R, m, b) == TransferExplained(R, m, b) /\ CategoryExplained(R, m, b)

LEMMA AlikeExplained ==
    ASSUME NEW R, NEW m, NEW b, NEW c, Alike(b, c)
    PROVE  /\ TransferExplained(R, m, b) <=> TransferExplained(R, m, c)
           /\ CategoryExplained(R, m, b) <=> CategoryExplained(R, m, c)
           /\ MirrorSound(b) <=> MirrorSound(c)
           /\ Current(b) = Current(c)
           /\ Present(b) <=> Present(c)
<1>1. Current(b) = Current(c) /\ (Mirrored(b) <=> Mirrored(c))
  BY DEF Alike, Current, Mirrored, Virtual
<1>2. Present(b) <=> Present(c)
  BY DEF Alike, Present
<1>3. \A x : Recordable(m, b, x) <=> Recordable(m, c, x)
  BY DEF Alike, Recordable
<1>4. MirrorSound(b) <=> MirrorSound(c)
  BY <1>1 DEF Alike, MirrorSound
<1>5. TransferExplained(R, m, b) <=> TransferExplained(R, m, c)
  BY <1>1, <1>2, <1>3 DEF TransferExplained
<1>6. CategoryExplained(R, m, b) <=> CategoryExplained(R, m, c)
  BY <1>2 DEF CategoryExplained, Alike
<1> QED  BY <1>1, <1>2, <1>4, <1>5, <1>6

\* The transfer phase leaves a movement as it was, or where the deciding rule says.
TransferStep(A, m, c, d) ==
    \/ d = c
    \/ /\ d \in Row /\ MirrorSound(d) /\ ~Alike(c, d) /\ d.status = c.status
       /\ d.side \in Destination \cup {Clearing, Uncategorized}
       /\ d.side = Uncategorized => Current(c) # None
       /\ c.paired = FALSE /\ d.paired = FALSE
       /\ d.personal = c.personal /\ d.ruled = c.ruled
       /\ TransferExplained(A, m, d)

LEMMA TransferNow ==
    ASSUME NEW B, Good(B), NEW A, Good(A), NEW m \in Movement, NEW c \in Row, MirrorSound(c)
    PROVE  TransferStep(A, m, c, Transferred(B, A, m, c, c))
<1> DEFINE d == Transferred(B, A, m, c, c)
<1> SUFFICES TransferStep(A, m, c, d)
  OBVIOUS
<1>1. CASE ~(Decidable(c) \/ Mirrored(c))
  BY <1>1 DEF Transferred, TransferStep
<1>2. CASE (Decidable(c) \/ Mirrored(c)) /\ Winner(A, m, "transfer") # {}
  <2>1. PICK t \in Destination \cup Hand :
          t = (CHOOSE x \in Winner(A, m, "transfer") : TRUE) /\ Winner(A, m, "transfer") = {t}
    BY <1>2, TransferTarget
  <2>2. Transferred(B, A, m, c, c)
          = IF t # Current(c) /\ Recordable(m, c, t) THEN RecordTo(c, c, t) ELSE c
    BY <1>2, <2>1 DEF Transferred
  <2>3. CASE t # Current(c) /\ Recordable(m, c, t)
    <3>1. PICK e \in Row : e = RecordTo(c, c, t)
      BY RecordedRow
    <3>2. /\ MirrorSound(e) /\ Current(e) = t /\ ~Alike(c, e)
          /\ c.paired = FALSE /\ e.paired = FALSE
          /\ e.side \in Destination \cup {Clearing} /\ e.status = c.status
          /\ e.personal = c.personal /\ e.ruled = c.ruled
      BY <1>2, <2>3, <3>1, RecordedIs
    <3>3. TransferExplained(A, m, e)
      BY <2>1, <3>2 DEF TransferExplained
    <3>4. e.side # Uncategorized
      BY <3>2, NamesApart
    <3> QED  BY <2>2, <2>3, <3>1, <3>2, <3>3, <3>4 DEF TransferStep
  <2> QED  BY <2>2, <2>3 DEF TransferStep
<1>3. CASE (Decidable(c) \/ Mirrored(c)) /\ Winner(A, m, "transfer") = {}
  <2>1. Transferred(B, A, m, c, c)
          = IF Current(c) \in Targets(B, m, "transfer") THEN LetGo(c, c) ELSE c
    BY <1>3 DEF Transferred
  <2>2. CASE Current(c) \in Targets(B, m, "transfer")
    <3>1. Current(c) # None
      BY <2>2, TargetsSound, NamesApart
    <3>2. PICK e \in Row : e = LetGo(c, c)
      BY LetGoRow
    <3>3. /\ MirrorSound(e) /\ Current(e) = None /\ ~Alike(c, e)
          /\ c.paired = FALSE /\ e.paired = FALSE
          /\ e.side = Uncategorized /\ e.status = c.status
          /\ e.personal = c.personal /\ e.ruled = c.ruled
      BY <1>3, <3>1, <3>2, LetGoIs
    <3>4. TransferExplained(A, m, e)
      BY <3>3 DEF TransferExplained
    <3> QED  BY <2>1, <2>2, <3>1, <3>2, <3>3, <3>4 DEF TransferStep
  <2> QED  BY <2>1, <2>2 DEF TransferStep
<1> QED  BY <1>1, <1>2, <1>3

\* The category phase leaves a movement as it was, or in the category the rules name.
CategoryStep(A, m, c, d) ==
    \/ d = c
    \/ /\ d \in Row /\ MirrorSound(d) /\ ~Alike(c, d) /\ d.status = c.status
       /\ d.side = Wanted(A, m) /\ d.side \in Category /\ c.side \in Category
       /\ d.side # c.side /\ d.paired = FALSE /\ d.mirrors = <<>>
       /\ d.personal = c.personal /\ d.ruled = c.ruled
       /\ Explained(A, m, d)

LEMMA CategoryNow ==
    ASSUME NEW B, NEW A, Good(A), NEW m \in Movement, NEW c \in Row, MirrorSound(c)
    PROVE  CategoryStep(A, m, c, Categorized(B, A, m, c, c))
<1>1. SUFFICES ASSUME Decidable(c), c.side \in Category, Wanted(A, m) # c.side
               PROVE  CategoryStep(A, m, c, PointAt(c, Wanted(A, m)))
  BY DEF Categorized, CategoryStep
<1>2. Wanted(A, m) \in Category /\ Wanted(A, m) \in Side
  BY WantedSound DEF Side
<1>3. PICK d \in Row : d = PointAt(c, Wanted(A, m))
  BY <1>2, PointRow
<1>4. /\ d.status = c.status /\ d.side = Wanted(A, m) /\ d.paired = c.paired
      /\ d.mirrors = c.mirrors /\ d.personal = c.personal /\ d.ruled = c.ruled
  BY <1>2, <1>3, PointRow
<1>5. d.paired = FALSE /\ d.mirrors = <<>>
  BY <1>1, <1>4, RowFields DEF Decidable, Linked, Mirrored
<1>6. MirrorSound(d)
  BY <1>5, OneOf DEF MirrorSound, Mirrored
<1>7. Current(d) = None
  BY <1>2, <1>4, <1>5, NamesApart DEF Current, Mirrored, Virtual
<1>8. d.side \in Category \ {Uncategorized} => Winner(A, m, "category") = {d.side}
  BY <1>4, WantedSound
<1>9. Explained(A, m, d)
  BY <1>7, <1>8 DEF Explained, TransferExplained, CategoryExplained
<1>10. ~Alike(c, d)
  BY <1>1, <1>4 DEF Alike
<1> QED  BY <1>1, <1>2, <1>3, <1>4, <1>5, <1>6, <1>9, <1>10 DEF CategoryStep

\* A movement no one sees.
Blank(b) == ~Present(b) => b.side = None /\ b.personal = {} /\ b.ruled = {}

\* What a job leaves of a movement `c`, as `d`: alike but for the tags, or explained by
\* the rules it applied, a leg of no pair and no split; a person's tags as they were.
Follows(A, m, c, d) ==
    /\ MirrorSound(d) /\ Blank(d)
    /\ Alike(c, d) \/ (Explained(A, m, d) /\ d.paired = FALSE /\ d.side # Split)
    /\ Present(d) => Present(c) /\ d.personal = c.personal

LEMMA WroteNow ==
    ASSUME NEW p \in Phase, NEW B, Good(B), NEW A, Good(A), NEW m \in Movement,
           NEW c \in Row, MirrorSound(c), Blank(c)
    PROVE  Follows(A, m, c, Wrote(p, B, A, m, c, c))
<1>1. CASE ~Present(c)
  BY <1>1 DEF Wrote, Follows, Alike
<1>2. CASE Present(c) /\ p = "delete"
  <2>1. Wrote(p, B, A, m, c, c) = Deleted(A, m, c, c)
    BY <1>2 DEF Wrote
  <2>2. CASE Winner(A, m, "delete") = {}
    BY <1>2, <2>1, <2>2 DEF Deleted, Follows, Alike
  <2>3. CASE Winner(A, m, "delete") # {}
    <3>1. PICK d \in Row : d = Gone("deleted")
      BY GoneRow
    <3>2. /\ d.status = "deleted" /\ d.side = None /\ d.paired = FALSE /\ d.mirrors = <<>>
          /\ d.personal = {} /\ d.ruled = {}
      BY <3>1, GoneRow
    <3>3. ~Present(d) /\ MirrorSound(d) /\ Blank(d)
      BY <3>2, OneOf DEF Present, MirrorSound, Mirrored, Blank
    <3>4. Explained(A, m, d)
      BY <3>3 DEF Explained, TransferExplained, CategoryExplained
    <3> QED  BY <2>1, <2>3, <3>1, <3>2, <3>3, <3>4, NamesApart DEF Deleted, Follows
  <2> QED  BY <2>2, <2>3
<1>3. CASE Present(c) /\ p = "transfer"
  <2>1. PICK d \in Row : d = Transferred(B, A, m, c, c) /\ d = Wrote(p, B, A, m, c, c)
    BY <1>3, WroteRow DEF Wrote
  <2>2. CASE d = c
    BY <1>3, <2>1, <2>2 DEF Follows, Alike
  <2>3. CASE d # c
    <3>0. TransferStep(A, m, c, Transferred(B, A, m, c, c))
      BY TransferNow
    <3>1. /\ MirrorSound(d) /\ ~Alike(c, d) /\ d.status = c.status
          /\ d.side \in Destination \cup {Clearing, Uncategorized}
          /\ d.personal = c.personal /\ d.paired = FALSE /\ TransferExplained(A, m, d)
      BY <2>1, <2>3, <3>0 DEF TransferStep
    <3>2. Present(d) /\ Blank(d)
      BY <1>3, <3>1 DEF Present, Blank
    <3>3. CategoryExplained(A, m, d) /\ d.side # Split
      BY <3>1, NamesApart DEF CategoryExplained
    <3> QED  BY <1>3, <2>1, <3>1, <3>2, <3>3 DEF Follows, Explained
  <2> QED  BY <2>2, <2>3
<1>4. CASE Present(c) /\ p = "category"
  <2>1. PICK d \in Row : d = Categorized(B, A, m, c, c) /\ d = Wrote(p, B, A, m, c, c)
    BY <1>4, WroteRow DEF Wrote
  <2>2. CASE d = c
    BY <1>4, <2>1, <2>2 DEF Follows, Alike
  <2>3. CASE d # c
    <3>0. CategoryStep(A, m, c, Categorized(B, A, m, c, c))
      BY CategoryNow
    <3>1. /\ MirrorSound(d) /\ d.status = c.status /\ d.side \in Category
          /\ d.paired = FALSE /\ d.personal = c.personal /\ Explained(A, m, d)
      BY <2>1, <2>3, <3>0 DEF CategoryStep
    <3>2. Present(d) /\ Blank(d) /\ d.side # Split
      BY <1>4, <3>1, NamesApart DEF Present, Blank
    <3> QED  BY <1>4, <2>1, <3>1, <3>2 DEF Follows
  <2> QED  BY <2>2, <2>3
<1>5. CASE Present(c) /\ p = "tag"
  <2>1. PICK d \in Row : d = Tagged(A, m, c, c) /\ d = Wrote(p, B, A, m, c, c)
    BY <1>5, WroteRow DEF Wrote
  <2>0. TagStep(A, m, c, c, Tagged(A, m, c, c))
    BY TaggedRow
  <2>2. Alike(c, d) /\ d.personal = c.personal \ (c.ruled \ (Targets(A, m, "tag") \ c.personal))
    BY <2>0, <2>1 DEF Alike, TagStep
  <2>3. d.personal = c.personal
    BY <2>2, RowFields
  <2>4. Present(d) /\ MirrorSound(d)
    BY <1>5, <2>2, AlikeExplained
  <2>5. Blank(d)
    BY <2>4 DEF Blank
  <2> QED  BY <1>5, <2>1, <2>2, <2>3, <2>4, <2>5 DEF Follows
<1> QED  BY <1>1, <1>2, <1>3, <1>4, <1>5 DEF Phase

LEMMA FollowsOn ==
    ASSUME NEW A, NEW m, NEW b, NEW c, NEW d, Follows(A, m, b, c), Follows(A, m, c, d)
    PROVE  Follows(A, m, b, d)
<1>1. MirrorSound(d) /\ Blank(d) /\ (Present(d) => Present(b) /\ d.personal = b.personal)
  BY DEF Follows
<1>2. CASE ~Alike(c, d)
  BY <1>1, <1>2 DEF Follows
<1>3. CASE Alike(c, d) /\ Alike(b, c)
  BY <1>1, <1>3 DEF Follows, Alike
<1>4. CASE Alike(c, d) /\ ~Alike(b, c)
  <2>1. Explained(A, m, d)
    BY <1>4, AlikeExplained DEF Follows, Explained
  <2>2. d.paired = FALSE /\ d.side # Split
    BY <1>4 DEF Follows, Alike
  <2> QED  BY <1>1, <2>1, <2>2 DEF Follows
<1> QED  BY <1>2, <1>3, <1>4

LEMMA TurnNow ==
    ASSUME NEW p \in Phase, NEW todo, NEW B, Good(B), NEW A, Good(A), NEW m \in Movement,
           NEW c \in Row, MirrorSound(c), Blank(c)
    PROVE  Follows(A, m, c, Turn(p, todo, B, A, m, c))
<1>1. Follows(A, m, c, c)
  BY DEF Follows, Alike
<1> QED  BY <1>1, WroteNow DEF Turn

LEMMA AppliedNow ==
    ASSUME NEW todo, NEW B, Good(B), NEW A, Good(A), NEW m \in Movement,
           NEW c \in Row, MirrorSound(c), Blank(c)
    PROVE  Follows(A, m, c, AppliedTo(m, todo, B, A, c))
<1>1. PICK one \in Row, two \in Row, three \in Row, four \in Row :
        /\ one = Turn("delete", todo, B, A, m, c)
        /\ two = Turn("transfer", todo, B, A, m, one)
        /\ three = Turn("category", todo, B, A, m, two)
        /\ four = Turn("tag", todo, B, A, m, three)
        /\ AppliedTo(m, todo, B, A, c) = four
  BY InTurns
<1>2. Follows(A, m, c, one)
  BY <1>1, TurnNow DEF Phase
<1>3. Follows(A, m, one, two)
  <2>1. MirrorSound(one) /\ Blank(one)
    BY <1>2 DEF Follows
  <2> QED  BY <1>1, <2>1, TurnNow DEF Phase
<1>4. Follows(A, m, two, three)
  <2>1. MirrorSound(two) /\ Blank(two)
    BY <1>3 DEF Follows
  <2> QED  BY <1>1, <2>1, TurnNow DEF Phase
<1>5. Follows(A, m, three, four)
  <2>1. MirrorSound(three) /\ Blank(three)
    BY <1>4 DEF Follows
  <2> QED  BY <1>1, <2>1, TurnNow DEF Phase
<1>6. Follows(A, m, c, two)
  BY <1>2, <1>3, FollowsOn
<1>7. Follows(A, m, c, three)
  BY <1>4, <1>6, FollowsOn
<1>8. Follows(A, m, c, four)
  BY <1>5, <1>7, FollowsOn
<1> QED  BY <1>1, <1>8

\* The tags of the rules after one phase: fewer, or those the rules ask for.
LEMMA WroteTags ==
    ASSUME NEW p \in Phase, NEW B, Good(B), NEW A, Good(A), NEW m \in Movement,
           NEW c \in Row, MirrorSound(c), Blank(c)
    PROVE  LET d == Wrote(p, B, A, m, c, c)
           IN  /\ p # "tag" => d.ruled \subseteq c.ruled
               /\ p = "tag" => d.ruled \subseteq Targets(A, m, "tag")
<1>1. CASE ~Present(c)
  BY <1>1 DEF Wrote, Blank
<1>2. CASE Present(c) /\ p = "delete"
  <2>1. Gone("deleted").ruled = {}
    BY GoneRow
  <2> QED  BY <1>2, <2>1 DEF Wrote, Deleted
<1>3. CASE Present(c) /\ p = "transfer"
  <2>1. TransferStep(A, m, c, Transferred(B, A, m, c, c))
    BY TransferNow
  <2> QED  BY <1>3, <2>1 DEF Wrote, TransferStep
<1>4. CASE Present(c) /\ p = "category"
  <2>1. CategoryStep(A, m, c, Categorized(B, A, m, c, c))
    BY CategoryNow
  <2> QED  BY <1>4, <2>1 DEF Wrote, CategoryStep
<1>5. CASE Present(c) /\ p = "tag"
  <2>1. TagStep(A, m, c, c, Tagged(A, m, c, c))
    BY TaggedRow
  <2>2. Tagged(A, m, c, c).ruled \subseteq Targets(A, m, "tag")
    BY <2>1 DEF TagStep
  <2> QED  BY <1>5, <2>2 DEF Wrote
<1> QED  BY <1>1, <1>2, <1>3, <1>4, <1>5 DEF Phase

LEMMA AppliedTags ==
    ASSUME NEW todo, NEW B, Good(B), NEW A, Good(A), NEW m \in Movement,
           NEW c \in Row, MirrorSound(c), Blank(c)
    PROVE  LET d == AppliedTo(m, todo, B, A, c)
           IN  /\ "tag" \in Range(todo) => d.ruled \subseteq Targets(A, m, "tag")
               /\ "tag" \notin Range(todo) => d.ruled \subseteq c.ruled
<1>1. PICK one \in Row, two \in Row, three \in Row, four \in Row :
        /\ one = Turn("delete", todo, B, A, m, c)
        /\ two = Turn("transfer", todo, B, A, m, one)
        /\ three = Turn("category", todo, B, A, m, two)
        /\ four = Turn("tag", todo, B, A, m, three)
        /\ AppliedTo(m, todo, B, A, c) = four
  BY InTurns
<1>2. Follows(A, m, c, one)
  BY <1>1, TurnNow DEF Phase
<1>3. MirrorSound(one) /\ Blank(one)
  BY <1>2 DEF Follows
<1>4. Follows(A, m, one, two)
  BY <1>1, <1>3, TurnNow DEF Phase
<1>5. MirrorSound(two) /\ Blank(two)
  BY <1>4 DEF Follows
<1>6. Follows(A, m, two, three)
  BY <1>1, <1>5, TurnNow DEF Phase
<1>7. MirrorSound(three) /\ Blank(three)
  BY <1>6 DEF Follows
<1>8. CASE "tag" \in Range(todo)
  <2>1. four = Wrote("tag", B, A, m, three, three)
    BY <1>1, <1>8 DEF Turn
  <2>2. Wrote("tag", B, A, m, three, three).ruled \subseteq Targets(A, m, "tag")
    BY <1>7, WroteTags DEF Phase
  <2> QED  BY <1>1, <1>8, <2>1, <2>2
<1>9. CASE "tag" \notin Range(todo)
  <2>1. four = three
    BY <1>1, <1>9 DEF Turn
  <2>2. Wrote("delete", B, A, m, c, c).ruled \subseteq c.ruled
    BY WroteTags DEF Phase
  <2>3. Wrote("transfer", B, A, m, one, one).ruled \subseteq one.ruled
    BY <1>3, WroteTags DEF Phase
  <2>4. Wrote("category", B, A, m, two, two).ruled \subseteq two.ruled
    BY <1>5, WroteTags DEF Phase
  <2>5. one.ruled \subseteq c.ruled /\ two.ruled \subseteq one.ruled
        /\ three.ruled \subseteq two.ruled
    BY <1>1, <2>2, <2>3, <2>4 DEF Turn
  <2> QED  BY <1>1, <1>9, <2>1, <2>5
<1> QED  BY <1>8, <1>9

\* What a phase would leave as it read it, it leaves however it changed since.
LEMMA Untouched ==
    ASSUME NEW p \in Phase, NEW B, Good(B), NEW A, Good(A), NEW m \in Movement,
           NEW r \in Row, MirrorSound(r), Blank(r), NEW c \in Row,
           Wrote(p, B, A, m, r, r) = r
    PROVE  Wrote(p, B, A, m, r, c) = c
<1>1. CASE ~Present(r)
  BY <1>1 DEF Wrote
<1>2. CASE Present(r) /\ p = "delete"
  <2>1. Deleted(A, m, r, r) = r
    BY <1>2 DEF Wrote
  <2>2. Gone("deleted") # r
    <3>1. Gone("deleted").status = "deleted"
      BY GoneRow
    <3> QED  BY <1>2, <3>1 DEF Present
  <2> QED  BY <1>2, <2>1, <2>2 DEF Wrote, Deleted
<1>3. CASE Present(r) /\ p = "transfer"
  <2>1. Transferred(B, A, m, r, r) = r
    BY <1>3 DEF Wrote
  <2>2. CASE ~(Decidable(r) \/ Mirrored(r))
    BY <1>3, <2>2 DEF Wrote, Transferred
  <2>3. CASE (Decidable(r) \/ Mirrored(r)) /\ Winner(A, m, "transfer") # {}
    <3>1. PICK t \in Destination \cup Hand :
            t = CHOOSE x \in Winner(A, m, "transfer") : TRUE
      BY <2>3, TransferTarget
    <3>2. \A x \in Row : Transferred(B, A, m, r, x)
            = IF t # Current(r) /\ Recordable(m, r, t) THEN RecordTo(r, x, t) ELSE x
      BY <2>3, <3>1 DEF Transferred
    <3>3. ~(t # Current(r) /\ Recordable(m, r, t))
      <4>1. SUFFICES ASSUME t # Current(r), Recordable(m, r, t) PROVE FALSE
        OBVIOUS
      <4>2. ~Alike(r, RecordTo(r, r, t))
        BY <2>3, <4>1, RecordedIs
      <4>3. RecordTo(r, r, t) = r
        BY <2>1, <3>2, <4>1
      <4> QED  BY <4>2, <4>3 DEF Alike
    <3>4. Transferred(B, A, m, r, c) = c
      BY <3>2, <3>3
    <3> QED  BY <1>3, <3>4 DEF Wrote
  <2>4. CASE (Decidable(r) \/ Mirrored(r)) /\ Winner(A, m, "transfer") = {}
    <3>1. \A x \in Row : Transferred(B, A, m, r, x)
            = IF Current(r) \in Targets(B, m, "transfer") THEN LetGo(r, x) ELSE x
      BY <2>4 DEF Transferred
    <3>2. Current(r) \notin Targets(B, m, "transfer")
      <4>1. SUFFICES ASSUME Current(r) \in Targets(B, m, "transfer") PROVE FALSE
        OBVIOUS
      <4>2. Current(r) # None
        BY <4>1, TargetsSound, NamesApart
      <4>3. ~Alike(r, LetGo(r, r))
        BY <2>4, <4>2, LetGoIs
      <4>4. LetGo(r, r) = r
        BY <2>1, <3>1, <4>1
      <4> QED  BY <4>3, <4>4 DEF Alike
    <3>3. Transferred(B, A, m, r, c) = c
      BY <3>1, <3>2
    <3> QED  BY <1>3, <3>3 DEF Wrote
  <2> QED  BY <2>2, <2>3, <2>4
<1>4. CASE Present(r) /\ p = "category"
  <2>1. Categorized(B, A, m, r, r) = r
    BY <1>4 DEF Wrote
  <2>2. Wanted(A, m) \in Side
    BY WantedSound DEF Side
  <2>3. Wanted(A, m) # r.side => PointAt(r, Wanted(A, m)) # r
    BY <2>2, PointRow
  <2>4. Categorized(B, A, m, r, c) = c
    BY <2>1, <2>3 DEF Categorized
  <2> QED  BY <1>4, <2>4 DEF Wrote
<1>5. CASE Present(r) /\ p = "tag"
  <2>1. Tagged(A, m, r, r) = r
    BY <1>5 DEF Wrote
  <2>2. TagStep(A, m, r, r, Tagged(A, m, r, r))
    BY TaggedRow
  <2>3. r.ruled \ (Targets(A, m, "tag") \ r.personal) = {}
        /\ ((Targets(A, m, "tag") \ r.personal) \ r.ruled) = {}
    BY <2>1, <2>2, RowFields DEF TagStep
  <2>4. Tagged(A, m, r, c) = [c EXCEPT !.personal = c.personal \ {},
                                       !.ruled = (c.ruled \ {}) \cup ({} \ c.personal)]
    BY <2>3 DEF Tagged, Row
  <2>5. Tagged(A, m, r, c) = [c EXCEPT !.personal = c.personal, !.ruled = c.ruled]
    <3>1. c.personal \ {} = c.personal /\ (c.ruled \ {}) \cup ({} \ c.personal) = c.ruled
      OBVIOUS
    <3> QED  BY <2>4, <3>1
  <2>6. [c EXCEPT !.personal = c.personal, !.ruled = c.ruled] = c
    BY DEF Row
  <2> QED  BY <1>5, <2>5, <2>6 DEF Wrote
<1> QED  BY <1>1, <1>2, <1>3, <1>4, <1>5 DEF Phase

-----------------------------------------------------------------------------
(* The types.                                                              *)

\* What is left to do: the phases from one of them on, or the transfers alone.
Todo == {Phases, <<"transfer", "category", "tag">>, <<"category", "tag">>, <<"tag">>,
         <<"transfer">>}

LEMMA TupleRanges ==
    /\ \A a, b, c : Range(<<a, b, c>>) = {a, b, c}
    /\ \A a, b : Range(<<a, b>>) = {a, b}
    /\ \A a : Range(<<a>>) = {a}
  BY DEF Range

LEMMA NoRange ==
    ASSUME NEW s, s = <<>>
    PROVE  Range(s) = {}
  BY DEF Range

LEMMA TodoFacts ==
    ASSUME NEW t \in Todo
    PROVE  /\ t \in Seq(Phase) /\ t # <<>> /\ Head(t) \in Phase
           /\ Len(t) # 1 => Tail(t) \in Todo \ {<<"transfer">>} /\ Head(t) # "tag"
           /\ Len(t) = 1 => Range(t) = {Head(t)} /\ Tail(t) = <<>>
           /\ Range(t) = {Head(t)} \cup Range(Tail(t)) /\ Head(t) \notin Range(Tail(t))
           /\ "tag" \in Range(t) <=> t # <<"transfer">>
           /\ t = <<"transfer">> => Head(t) = "transfer"
<1>1. CASE t = Phases
  <2>1. t = <<"delete", "transfer", "category", "tag">>
    BY <1>1 DEF Phases
  <2>2. Tail(t) = <<"transfer", "category", "tag">>
    BY <2>1
  <2>3. Range(t) = {"delete", "transfer", "category", "tag"}
    BY <2>1 DEF Range
  <2>4. Range(Tail(t)) = {"transfer", "category", "tag"}
    <3>1. Range(<<"transfer", "category", "tag">>) = {"transfer", "category", "tag"}
      BY TupleRanges
    <3> QED  BY <2>2, <3>1
  <2> QED  BY <2>1, <2>2, <2>3, <2>4 DEF Todo, Phase
<1>2. CASE t = <<"transfer", "category", "tag">>
  <2>2. Tail(t) = <<"category", "tag">>
    BY <1>2
  <2>3. Range(t) = {"transfer", "category", "tag"}
    BY <1>2 DEF Range
  <2>4. Range(Tail(t)) = {"category", "tag"}
    BY <2>2, TupleRanges
  <2> QED  BY <1>2, <2>2, <2>3, <2>4 DEF Todo, Phase
<1>3. CASE t = <<"category", "tag">>
  <2>2. Tail(t) = <<"tag">>
    BY <1>3
  <2>3. Range(t) = {"category", "tag"}
    BY <1>3 DEF Range
  <2>4. Range(Tail(t)) = {"tag"}
    BY <2>2, TupleRanges
  <2> QED  BY <1>3, <2>2, <2>3, <2>4 DEF Todo, Phase
<1>4. CASE t = <<"tag">>
  <2>2. Tail(t) = <<>> /\ Len(t) = 1 /\ Head(t) = "tag"
    BY <1>4
  <2>3. Range(t) = {"tag"}
    BY <1>4 DEF Range
  <2>4. Range(Tail(t)) = {}
    BY <2>2, NoRange
  <2> QED  BY <1>4, <2>2, <2>3, <2>4 DEF Todo, Phase
<1>5. CASE t = <<"transfer">>
  <2>2. Tail(t) = <<>> /\ Len(t) = 1 /\ Head(t) = "transfer"
    BY <1>5
  <2>3. Range(t) = {"transfer"}
    BY <1>5 DEF Range
  <2>4. Range(Tail(t)) = {}
    BY <2>2, NoRange
  <2> QED  BY <1>5, <2>2, <2>3, <2>4 DEF Todo, Phase
<1> QED  BY <1>1, <1>2, <1>3, <1>4, <1>5 DEF Todo

\* What a job holds at each stage.
JobSound(j) ==
    /\ j.stage \in {"store", "begin"} => j.edit = TRUE /\ j.todo = Phases /\ Good(j.before)
    /\ j.stage = "store" => j.body = None \/ Writable(j.body)
    /\ j.stage \in {"read", "write"} =>
        /\ Good(j.before) /\ Good(j.after) /\ j.todo \in Todo
        /\ j.edit = TRUE => j.todo # <<"transfer">>
    /\ j.stage = "write" => j.rows \in [Movement -> Row]

RulesInv == Good(rules)
JobsInv == \A w \in Worker : JobSound(jobs[w])
TypeInv == TypeOK /\ RulesInv /\ JobsInv

LEMMA IdleJob ==
    /\ Idle \in Job /\ JobSound(Idle) /\ Paired \in Job /\ JobSound(Paired)
    /\ Idle.stage = "idle" /\ Paired.stage = "paired"
<1>1. <<>> \in Seq(Phase)
  OBVIOUS
<1>2. Idle \in Job /\ Idle.stage = "idle"
  BY <1>1 DEF Idle, Job
<1>3. Paired \in Job /\ Paired.stage = "paired"
  BY <1>2 DEF Paired, Idle, Job
<1> QED  BY <1>2, <1>3 DEF JobSound

LEMMA Becomes ==
    ASSUME TypeInv, NEW w \in Worker, NEW j, j \in Job, JobSound(j), Become(w, j)
    PROVE  jobs' \in [Worker -> Job] /\ JobsInv'
<1>1. jobs \in [Worker -> Job] /\ \A v \in Worker : JobSound(jobs[v])
  BY DEF TypeInv, TypeOK, JobsInv
<1>2. jobs' = [jobs EXCEPT ![w] = j]
  BY DEF Become
<1>3. jobs' \in [Worker -> Job]
  BY <1>1, <1>2
<1>4. \A v \in Worker : JobSound(jobs'[v])
  BY <1>1, <1>2
<1> QED  BY <1>3, <1>4 DEF JobsInv

LEMMA CarriedRow ==
    ASSUME NEW B, NEW A, Good(A), NEW todo \in Todo, NEW rows \in [Movement -> Row],
           NEW b \in [Movement -> Row]
    PROVE  Applied(Tail(todo), B, A, After(Head(todo), B, A, rows, b)) \in [Movement -> Row]
<1>1. Head(todo) \in Phase
  BY TodoFacts
<1>2. PICK x : x = After(Head(todo), B, A, rows, b)
  OBVIOUS
<1>3. x \in [Movement -> Row]
  BY <1>1, <1>2, WroteRow DEF After
<1>4. \A m \in Movement : AppliedTo(m, Tail(todo), B, A, x[m]) \in Row
  BY <1>3, AppliedRow
<1>5. Applied(Tail(todo), B, A, x) \in [Movement -> Row]
  BY <1>4 DEF Applied
<1> QED  BY <1>2, <1>5

LEMMA BecomesIdle ==
    ASSUME TypeInv, NEW w \in Worker, Become(w, Idle)
    PROVE  jobs' \in [Worker -> Job] /\ JobsInv'
  BY IdleJob, Becomes

LEMMA BoundsHold ==
    ASSUME TypeOK
    PROVE  /\ edits < MaxEdits => edits + 1 \in 0..MaxEdits
           /\ acts < MaxActs => acts + 1 \in 0..MaxActs
<1>1. edits \in 0..MaxEdits /\ acts \in 0..MaxActs
  BY DEF TypeOK
<1> QED  BY <1>1, BoundsAssumption

LEMMA InitTypes == Init => TypeInv
<1> SUFFICES ASSUME Init PROVE TypeInv
  OBVIOUS
<1>1. rules \in RuleTable /\ Good(rules)
  BY StartAssumption DEF Init, Good, RuleTable
<1>2. book \in [Movement -> Row]
  BY GoneRow DEF Init
<1>3. names \subseteq Category /\ Uncategorized \in names
  <2>1. \A r \in RuleId : rules[r] # None /\ rules[r].action = "category"
                            => rules[r].target \in Category
    BY <1>1 DEF Good, Writable
  <2> QED  BY <2>1, NamesApart DEF Init
<1>4. jobs \in [Worker -> Job] /\ JobsInv
  BY IdleJob DEF Init, JobsInv
<1>5. edits \in 0..MaxEdits /\ acts \in 0..MaxActs
  BY BoundsAssumption DEF Init
<1> QED  BY <1>1, <1>2, <1>3, <1>4, <1>5 DEF Init, TypeInv, TypeOK, RulesInv

\* A body a person writes, once checked.
LEMMA SetTypes ==
    ASSUME TypeInv, NEW w \in Worker, NEW rid \in RuleId \cup {None}, NEW b \in Written,
           OpenSet(w, rid, b)
    PROVE  TypeInv'
<1>1. b \in Body /\ Writable(b)
  BY WrittenAssumption DEF OpenSet, Body
<1>2. PICK row \in IF rid = None /\ Same(rules, b) # {} THEN Same(rules, b) ELSE {rid} :
         Become(w, [Idle EXCEPT !.stage = "store", !.edit = TRUE, !.todo = Phases,
                                !.rid = row, !.body = b, !.before = rules])
  BY DEF OpenSet
<1>3. row \in RuleId \cup {None}
  BY <1>2 DEF Same
<1>4. PICK j : j = [Idle EXCEPT !.stage = "store", !.edit = TRUE, !.todo = Phases,
                                !.rid = row, !.body = b, !.before = rules]
  OBVIOUS
<1>5. Phases \in Seq(Phase)
  BY DEF Phases, Phase
<1>6. /\ j.stage = "store" /\ j.edit = TRUE /\ j.todo = Phases /\ j.body = b
      /\ j.before = rules
  BY <1>4 DEF Idle
<1>7. rules \in RuleTable /\ Good(rules)
  BY DEF TypeInv, TypeOK, RulesInv
<1>8. j \in Job
  BY <1>1, <1>3, <1>4, <1>5, <1>7, IdleJob DEF Job, Idle
<1>9. JobSound(j)
  BY <1>1, <1>6, <1>7 DEF JobSound
<1>10. jobs' \in [Worker -> Job] /\ JobsInv'
  BY <1>2, <1>4, <1>8, <1>9, Becomes
<1>11. names' \subseteq Category /\ Uncategorized \in names'
  BY <1>1 DEF OpenSet, TypeInv, TypeOK, Writable
<1>12. edits' \in 0..MaxEdits
  BY BoundsHold DEF OpenSet, TypeInv
<1> QED  BY <1>10, <1>11, <1>12 DEF OpenSet, TypeInv, TypeOK, RulesInv, Good

LEMMA RemoveTypes ==
    ASSUME TypeInv, NEW w \in Worker, NEW rid \in RuleId, OpenRemove(w, rid)
    PROVE  TypeInv'
<1>4. PICK j : j = [Idle EXCEPT !.stage = "store", !.edit = TRUE, !.todo = Phases,
                                !.rid = rid, !.before = rules]
  OBVIOUS
<1>5. Phases \in Seq(Phase)
  BY DEF Phases, Phase
<1>6. /\ j.stage = "store" /\ j.edit = TRUE /\ j.todo = Phases /\ j.body = None
      /\ j.before = rules
  BY <1>4 DEF Idle
<1>7. rules \in RuleTable /\ Good(rules)
  BY DEF TypeInv, TypeOK, RulesInv
<1>8. j \in Job
  BY <1>4, <1>5, <1>7, IdleJob DEF Job, Idle
<1>9. JobSound(j)
  BY <1>6, <1>7 DEF JobSound
<1>10. jobs' \in [Worker -> Job] /\ JobsInv'
  BY <1>4, <1>8, <1>9, Becomes DEF OpenRemove
<1>12. edits' \in 0..MaxEdits
  BY BoundsHold DEF OpenRemove, TypeInv
<1> QED  BY <1>10, <1>12 DEF OpenRemove, TypeInv, TypeOK, RulesInv, Good

LEMMA StoreTypes ==
    ASSUME TypeInv, NEW w \in Worker, Store(w)
    PROVE  TypeInv'
<1>1. jobs[w] \in Job /\ JobSound(jobs[w]) /\ rules \in RuleTable /\ Good(rules)
  BY DEF TypeInv, TypeOK, JobsInv, RulesInv
<1>2. PICK j \in Job : j = jobs[w]
  BY <1>1
<1>3. j.stage = "store" /\ j.edit = TRUE /\ j.todo = Phases /\ Good(j.before)
      /\ (j.body = None \/ Writable(j.body))
  BY <1>1, <1>2 DEF Store, JobSound
<1>4. CASE rules' = rules /\ Become(w, Idle) /\ UNCHANGED <<torn, waited>>
  <2>1. jobs' \in [Worker -> Job] /\ JobsInv'
    BY <1>4, BecomesIdle
  <2> QED  BY <1>4, <2>1 DEF Store, TypeInv, TypeOK, RulesInv, Good, counters
<1>5. CASE /\ rules' = [r \in RuleId |-> IF r \in RowsFor(j) THEN j.body ELSE rules[r]]
           /\ Become(w, [j EXCEPT !.stage = "begin", !.rid = None, !.body = None])
           /\ torn' = (torn \/ StaleRules(j.before))
           /\ waited' = (waited \/ WaitedFor(rules, rules'))
  <2>1. PICK k : k = [j EXCEPT !.stage = "begin", !.rid = None, !.body = None]
    OBVIOUS
  <2>2. k.stage = "begin" /\ k.edit = TRUE /\ k.todo = Phases /\ k.before = j.before
    BY <1>3, <2>1 DEF Job
  <2>3. k \in Job
    BY <2>1 DEF Job
  <2>4. JobSound(k)
    BY <1>3, <2>2 DEF JobSound
  <2>5. jobs' \in [Worker -> Job] /\ JobsInv'
    BY <1>5, <2>1, <2>3, <2>4, Becomes
  <2>6. j.body \in Body \cup {None}
    BY DEF Job
  <2>7. rules' \in RuleTable
    BY <1>1, <1>5, <2>6 DEF RuleTable
  <2>8. \A r \in RuleId : rules'[r] # None => Writable(rules'[r])
    BY <1>1, <1>3, <1>5 DEF Good
  <2>9. RulesInv'
    BY <2>7, <2>8 DEF RulesInv, Good
  <2> QED  BY <1>5, <2>5, <2>7, <2>9 DEF Store, TypeInv, TypeOK, counters
<1> QED  BY <1>2, <1>4, <1>5 DEF Store

LEMMA BeginTypes ==
    ASSUME TypeInv, NEW w \in Worker, Begin(w)
    PROVE  TypeInv'
<1>1. jobs[w] \in Job /\ JobSound(jobs[w]) /\ rules \in RuleTable /\ Good(rules)
  BY DEF TypeInv, TypeOK, JobsInv, RulesInv
<1>2. PICK j \in Job : j = jobs[w]
  BY <1>1
<1>3. j.edit = TRUE /\ j.todo = Phases /\ Good(j.before)
  BY <1>1, <1>2 DEF Begin, JobSound
<1>4. PICK k : k = [j EXCEPT !.stage = "read", !.after = rules]
  OBVIOUS
<1>5. /\ k.stage = "read" /\ k.edit = TRUE /\ k.todo = Phases /\ k.before = j.before
      /\ k.after = rules
  BY <1>3, <1>4 DEF Job
<1>6. k \in Job
  BY <1>1, <1>4 DEF Job
<1>7. Phases \in Todo /\ Phases # <<"transfer">>
  BY DEF Todo, Phases
<1>8. JobSound(k)
  BY <1>1, <1>3, <1>5, <1>7 DEF JobSound
<1>9. jobs' \in [Worker -> Job] /\ JobsInv'
  BY <1>2, <1>4, <1>6, <1>8, Becomes DEF Begin
<1> QED  BY <1>9 DEF Begin, TypeInv, TypeOK, RulesInv, Good, counters

LEMMA PassTypes ==
    ASSUME TypeInv, NEW w \in Worker, NEW todo \in Todo, Pass(w, todo)
    PROVE  TypeInv'
<1>1. rules \in RuleTable /\ Good(rules)
  BY DEF TypeInv, TypeOK, RulesInv
<1>2. PICK k : k = [Idle EXCEPT !.stage = "read", !.todo = todo,
                                !.before = rules, !.after = rules]
  OBVIOUS
<1>3. /\ k.stage = "read" /\ k.edit = FALSE /\ k.todo = todo /\ k.before = rules
      /\ k.after = rules
  BY <1>2 DEF Idle
<1>4. k \in Job
  BY <1>1, <1>2, IdleJob, TodoFacts DEF Job, Idle
<1>5. JobSound(k)
  BY <1>1, <1>3 DEF JobSound
<1>6. jobs' \in [Worker -> Job] /\ JobsInv'
  BY <1>2, <1>4, <1>5, Becomes DEF Pass
<1> QED  BY <1>6 DEF Pass, TypeInv, TypeOK, RulesInv, Good, counters

LEMMA FinishedJob ==
    ASSUME NEW j
    PROVE  Finished(j) \in {Idle, Paired}
  BY DEF Finished

LEMMA ReadTypes ==
    ASSUME TypeInv, NEW w \in Worker, ReadRows(w)
    PROVE  TypeInv'
<1>1. jobs[w] \in Job /\ JobSound(jobs[w]) /\ book \in [Movement -> Row]
  BY DEF TypeInv, TypeOK, JobsInv
<1>2. PICK j \in Job : j = jobs[w]
  BY <1>1
<1>3. /\ j.stage = "read" /\ Good(j.before) /\ Good(j.after) /\ j.todo \in Todo
      /\ j.edit = TRUE => j.todo # <<"transfer">>
  BY <1>1, <1>2 DEF ReadRows, JobSound
<1>4. \/ Become(w, [j EXCEPT !.stage = "write", !.rows = book])
      \/ Become(w, Finished(j))
      \/ Len(j.todo) # 1 /\ Become(w, [j EXCEPT !.todo = Tail(@)])
  BY <1>2 DEF ReadRows
<1>5. CASE Become(w, [j EXCEPT !.stage = "write", !.rows = book])
  <2>1. PICK k : k = [j EXCEPT !.stage = "write", !.rows = book]
    OBVIOUS
  <2>2. /\ k.stage = "write" /\ k.edit = j.edit /\ k.todo = j.todo /\ k.before = j.before
        /\ k.after = j.after /\ k.rows = book
    BY <2>1 DEF Job
  <2>3. k \in Job
    BY <1>1, <2>1 DEF Job
  <2>4. JobSound(k)
    BY <1>1, <1>3, <2>2 DEF JobSound
  <2>5. jobs' \in [Worker -> Job] /\ JobsInv'
    BY <1>5, <2>1, <2>3, <2>4, Becomes
  <2> QED  BY <2>5 DEF ReadRows, TypeInv, TypeOK, RulesInv, Good, counters
<1>6. CASE Become(w, Finished(j))
  <2>1. jobs' \in [Worker -> Job] /\ JobsInv'
    BY <1>6, FinishedJob, IdleJob, Becomes
  <2> QED  BY <2>1 DEF ReadRows, TypeInv, TypeOK, RulesInv, Good, counters
<1>7. CASE Len(j.todo) # 1 /\ Become(w, [j EXCEPT !.todo = Tail(@)])
  <2>1. PICK k : k = [j EXCEPT !.todo = Tail(j.todo)]
    OBVIOUS
  <2>2. /\ k.stage = j.stage /\ k.edit = j.edit /\ k.todo = Tail(j.todo)
        /\ k.before = j.before /\ k.after = j.after
    BY <2>1 DEF Job
  <2>3. Tail(j.todo) \in Todo \ {<<"transfer">>} /\ Tail(j.todo) \in Seq(Phase)
    BY <1>3, <1>7, TodoFacts
  <2>4. k \in Job
    BY <2>1, <2>3 DEF Job
  <2>5. JobSound(k)
    BY <1>3, <2>2, <2>3 DEF JobSound
  <2>6. jobs' \in [Worker -> Job] /\ JobsInv'
    BY <1>7, <2>1, <2>4, <2>5, Becomes
  <2> QED  BY <2>6 DEF ReadRows, TypeInv, TypeOK, RulesInv, Good, counters
<1> QED  BY <1>4, <1>5, <1>6, <1>7

LEMMA WriteTypes ==
    ASSUME TypeInv, NEW w \in Worker, Write(w)
    PROVE  TypeInv'
<1>1. jobs[w] \in Job /\ JobSound(jobs[w]) /\ book \in [Movement -> Row]
  BY DEF TypeInv, TypeOK, JobsInv
<1>2. PICK j \in Job : j = jobs[w]
  BY <1>1
<1>3. /\ j.stage = "write" /\ Good(j.before) /\ Good(j.after) /\ j.todo \in Todo
      /\ j.rows \in [Movement -> Row]
  BY <1>1, <1>2 DEF Write, JobSound
<1>4. CASE Missing(j)
  <2>1. Become(w, Idle) /\ UNCHANGED <<book, names, chosen>>
        /\ torn' = (torn \/ HalfDone(j))
    BY <1>2, <1>4 DEF Write
  <2>2. jobs' \in [Worker -> Job] /\ JobsInv'
    BY <2>1, BecomesIdle
  <2> QED  BY <2>1, <2>2 DEF Write, TypeInv, TypeOK, RulesInv, Good, counters
<1>5. CASE ~Missing(j)
  <2>1. /\ book' = Carried(j) /\ Become(w, Finished(j))
        /\ names' = names \cup ({book'[m].side : m \in Movement} \cap Category)
        /\ chosen' = {m \in chosen : book'[m].side = book[m].side}
        /\ torn' = (torn \/ StaleRules(j.after) \/ StaleRows(j))
    BY <1>2, <1>5 DEF Write
  <2>2. jobs' \in [Worker -> Job] /\ JobsInv'
    BY <2>1, FinishedJob, IdleJob, Becomes
  <2>3. book' \in [Movement -> Row]
    BY <1>1, <1>3, <2>1, CarriedRow DEF Carried
  <2> QED  BY <2>1, <2>2, <2>3 DEF Write, TypeInv, TypeOK, RulesInv, Good, counters
<1> QED  BY <1>4, <1>5

LEMMA StopTypes ==
    ASSUME TypeInv, NEW w \in Worker, Stop(w)
    PROVE  TypeInv'
<1>1. jobs' \in [Worker -> Job] /\ JobsInv'
  BY BecomesIdle DEF Stop
<1>2. acts' \in 0..MaxActs
  BY BoundsHold DEF Stop, TypeInv
<1> QED  BY <1>1, <1>2 DEF Stop, TypeInv, TypeOK, RulesInv, Good

LEMMA SetRow ==
    ASSUME TypeInv, NEW m \in Movement, NEW b \in Row, Set(m, b)
    PROVE  /\ book' \in [Movement -> Row] /\ book'[m] = b
           /\ \A n \in Movement \ {m} : book'[n] = book[n]
  BY DEF Set, TypeInv, TypeOK

\* A step that changes no rule and no job.
LEMMA AsideTypes ==
    ASSUME TypeInv, UNCHANGED <<rules, jobs, edits, torn, waited>>,
           book' \in [Movement -> Row], names' \subseteq Category, Uncategorized \in names',
           acts' \in 0..MaxActs, chosen' \subseteq Movement
    PROVE  TypeInv'
  BY DEF TypeInv, TypeOK, RulesInv, Good, JobsInv, JobSound

LEMMA ArriveTypes ==
    ASSUME TypeInv, NEW m \in Movement, Arrive(m) \/ Settle(m)
    PROVE  TypeInv'
<1>1. CASE Arrive(m)
  <2>1. Facts[m].status \in {"PDNG", "BOOK"}
    BY FactsAssumption
  <2>2. PICK b \in Row : b = [Gone(Facts[m].status) EXCEPT !.side = Uncategorized]
    <3> DEFINE g == Gone(Facts[m].status)
    <3>1. g \in Row
      BY <2>1, GoneRow
    <3> HIDE DEF g
    <3>2. [g EXCEPT !.side = Uncategorized] \in Row
      BY <3>1, NamesApart DEF Row, Side
    <3>3. QED
      BY <3>2 DEF g
  <2>3. book' \in [Movement -> Row]
    BY <1>1, <2>2, SetRow DEF Arrive
  <2> QED  BY <1>1, <2>3, AsideTypes DEF Arrive, Elsewhere, TypeInv, TypeOK
<1>2. CASE Settle(m)
  <2>1. book[m] \in Row
    BY DEF TypeInv, TypeOK
  <2>2. PICK b \in Row : b = [book[m] EXCEPT !.status = "BOOK", !.side = Uncategorized]
    BY <2>1, NamesApart DEF Row, Side
  <2>3. book' \in [Movement -> Row]
    BY <1>2, <2>2, SetRow DEF Settle
  <2>4. chosen' \subseteq Movement
    BY <1>2 DEF Settle, TypeInv, TypeOK
  <2> QED  BY <1>2, <2>3, <2>4, AsideTypes DEF Settle, Elsewhere, TypeInv, TypeOK
<1> QED  BY <1>1, <1>2

LEMMA HandTypes ==
    ASSUME TypeInv, NEW m \in Movement, NEW kind, ByHand(kind, m), NEW b \in Row, Set(m, b),
           names' \subseteq Category, Uncategorized \in names', chosen' \subseteq Movement
    PROVE  TypeInv'
<1>1. book' \in [Movement -> Row]
  BY SetRow
<1>2. acts' \in 0..MaxActs
  BY BoundsHold DEF ByHand, TypeInv
<1> QED  BY <1>1, <1>2, AsideTypes DEF ByHand, Elsewhere

LEMMA PersonTypes ==
    ASSUME TypeInv, NEW m \in Movement,
           \/ \E s \in Category \cup {Split} : Choose(m, s)
           \/ \E d \in Destination : Passthrough(m, d)
           \/ \E T \in SUBSET Tag : SetTags(m, T)
           \/ Unlink(m) \/ Pair(m) \/ Delete(m)
    PROVE  TypeInv'
<1>1. book[m] \in Row /\ names \subseteq Category /\ Uncategorized \in names /\ chosen \subseteq Movement
  BY DEF TypeInv, TypeOK
<1>2. ASSUME NEW s \in Category \cup {Split}, Choose(m, s)  PROVE TypeInv'
  <2>1. s \in Side
    BY DEF Side
  <2>2. PointAt(book[m], s) \in Row
    BY <1>1, <2>1, PointRow
  <2>3. chosen' \subseteq Movement /\ names' \subseteq Category /\ Uncategorized \in names'
    BY <1>1, <1>2 DEF Choose
  <2> QED  BY <1>2, <2>2, <2>3, HandTypes DEF Choose
<1>3. ASSUME NEW d \in Destination, Passthrough(m, d)  PROVE TypeInv'
  <2>1. d \in Side
    BY DEF Side
  <2>2. PointAt(book[m], d) \in Row
    BY <1>1, <2>1, PointRow
  <2>3. chosen' \subseteq Movement /\ names' \subseteq Category /\ Uncategorized \in names'
    BY <1>1, <1>3 DEF Passthrough
  <2> QED  BY <1>3, <2>2, <2>3, HandTypes DEF Passthrough
<1>4. ASSUME NEW T \in SUBSET Tag, SetTags(m, T)  PROVE TypeInv'
  <2>2. Retagged(book[m], T) \in Row
    BY <1>1 DEF Retagged, Row
  <2>3. chosen' \subseteq Movement /\ names' \subseteq Category /\ Uncategorized \in names'
    BY <1>1, <1>4 DEF SetTags
  <2> QED  BY <1>4, <2>2, <2>3, HandTypes DEF SetTags
<1>5. CASE Unlink(m)
  <2>2. PICK b \in Row : b = [book[m] EXCEPT !.paired = FALSE, !.side = Uncategorized]
    BY <1>1, NamesApart DEF Row, Side
  <2>3. chosen' \subseteq Movement /\ names' \subseteq Category /\ Uncategorized \in names'
    BY <1>1, <1>5 DEF Unlink
  <2> QED  BY <1>5, <2>2, <2>3, HandTypes DEF Unlink
<1>6. CASE Pair(m)
  <2>2. PICK b \in Row : b = [book[m] EXCEPT !.paired = TRUE, !.side = Clearing]
    BY <1>1 DEF Row, Side
  <2>3. chosen' \subseteq Movement /\ names' \subseteq Category /\ Uncategorized \in names'
    BY <1>1, <1>6 DEF Pair
  <2> QED  BY <1>6, <2>2, <2>3, HandTypes DEF Pair
<1>7. CASE Delete(m)
  <2>2. Gone("deleted") \in Row
    BY GoneRow
  <2>3. chosen' \subseteq Movement /\ names' \subseteq Category /\ Uncategorized \in names'
    BY <1>1, <1>7 DEF Delete
  <2> QED  BY <1>7, <2>2, <2>3, HandTypes DEF Delete
<1> QED  BY <1>2, <1>3, <1>4, <1>5, <1>6, <1>7

LEMMA DeleteTagTypes ==
    ASSUME TypeInv, NEW t \in Tag, DeleteTag(t)
    PROVE  TypeInv'
<1>1. Good(rules) /\ rules \in RuleTable /\ book \in [Movement -> Row]
  BY DEF TypeInv, TypeOK, RulesInv
<1>2. RulesInv' /\ rules' \in RuleTable
  <2>1. rules' = RulesWithoutTag(t)
    BY DEF DeleteTag
  <2>2. rules' \in RuleTable
    BY <1>1, <2>1 DEF RulesWithoutTag, RuleTable
  <2>3. \A r \in RuleId : rules'[r] # None => Writable(rules'[r])
    BY <1>1, <2>1 DEF RulesWithoutTag, Good
  <2> QED  BY <2>2, <2>3 DEF RulesInv, Good
<1>3. book' \in [Movement -> Row]
  <2>1. \A m \in Movement :
          [book[m] EXCEPT !.personal = @ \ {t}, !.ruled = @ \ {t}] \in Row
    <3> TAKE m \in Movement
    <3>1. PICK b \in Row : b = book[m]
      BY <1>1
    <3>2. PICK P, U : P = b.personal \ {t} /\ U = b.ruled \ {t}
      OBVIOUS
    <3>3. P \subseteq Tag /\ U \subseteq Tag /\ P \cap U = {}
      BY <3>2, RowFields
    <3>4. [b EXCEPT !.personal = P, !.ruled = U] \in Row
      BY <3>3 DEF Row
    <3>5. [b EXCEPT !.personal = @ \ {t}, !.ruled = @ \ {t}] = [b EXCEPT !.personal = P, !.ruled = U]
      BY <3>2 DEF Row
    <3> QED  BY <3>1, <3>4, <3>5
  <2> QED  BY <2>1 DEF DeleteTag
<1>4. acts' \in 0..MaxActs
  BY BoundsHold DEF DeleteTag, TypeInv
<1> QED  BY <1>2, <1>3, <1>4 DEF DeleteTag, TypeInv, TypeOK, JobsInv, JobSound

LEMMA RenamedTable ==
    ASSUME NEW R, Good(R), rules = R, NEW c \in Category, NEW d \in Category \ {Uncategorized}
    PROVE  Good(RulesRenamed(c, d))
<1>1. PICK S : S = RulesRenamed(c, d)
  OBVIOUS
<1>2. S = [r \in RuleId |-> IF R[r] # None /\ R[r].action = "category" /\ R[r].target = c
                            THEN [R[r] EXCEPT !.target = d] ELSE R[r]]
  BY <1>1 DEF RulesRenamed
<1>3. ASSUME NEW r \in RuleId
      PROVE  S[r] \in Body \cup {None} /\ (S[r] # None => Writable(S[r]))
  <2>1. R[r] \in Body \cup {None} /\ (R[r] # None => Writable(R[r]))
    BY DEF Good, RuleTable
  <2>2. CASE ~(R[r] # None /\ R[r].action = "category" /\ R[r].target = c)
    BY <1>2, <2>1, <2>2
  <2>3. CASE R[r] # None /\ R[r].action = "category" /\ R[r].target = c
    <3>1. PICK b \in Body : b = R[r] /\ Writable(b) /\ b.action = "category"
      BY <2>1, <2>3
    <3>2. PICK e : e = [b EXCEPT !.target = d]
      OBVIOUS
    <3>3. e \in Body /\ e.action = "category" /\ e.target = d /\ e.pattern = b.pattern
      BY <3>1, <3>2 DEF Body
    <3>4. Writable(e)
      BY <3>1, <3>3 DEF Writable
    <3>5. S[r] = e
      BY <1>2, <2>3, <3>1, <3>2
    <3> QED  BY <3>3, <3>4, <3>5
  <2> QED  BY <2>2, <2>3
<1>4. S \in RuleTable
  BY <1>2, <1>3 DEF RuleTable
<1> QED  BY <1>1, <1>3, <1>4 DEF Good

LEMMA RenameTypes ==
    ASSUME TypeInv, NEW c \in Category, NEW d \in Category, Rename(c, d)
    PROVE  TypeInv'
<1>1. Good(rules) /\ book \in [Movement -> Row] /\ names \subseteq Category /\ Uncategorized \in names
  BY DEF TypeInv, TypeOK, RulesInv
<1>2. d # Uncategorized /\ c # Uncategorized
  BY <1>1 DEF Rename
<1>3. RulesInv' /\ rules' \in RuleTable
  <2>1. Good(RulesRenamed(c, d))
    BY <1>1, <1>2, RenamedTable
  <2>2. rules' = RulesRenamed(c, d)
    BY DEF Rename
  <2> QED  BY <2>1, <2>2 DEF RulesInv, Good
<1>4. book' \in [Movement -> Row]
  <2>1. d \in Side
    BY DEF Side
  <2>2. \A m \in Movement : PointAt(book[m], d) \in Row
    BY <1>1, <2>1, PointRow
  <2> QED  BY <1>1, <2>2 DEF Rename
<1>5. acts' \in 0..MaxActs
  BY BoundsHold DEF Rename, TypeInv
<1>6. names' \subseteq Category /\ Uncategorized \in names'
  BY <1>1, <1>2 DEF Rename
<1> QED  BY <1>3, <1>4, <1>5, <1>6 DEF Rename, TypeInv, TypeOK, JobsInv, JobSound

\* The steps of Next, one by one.
LEMMA StepCases ==
    ASSUME Next
    PROVE  \/ \E w \in Worker, b \in Written, rid \in RuleId \cup {None} : OpenSet(w, rid, b)
           \/ \E w \in Worker, rid \in RuleId : OpenRemove(w, rid)
           \/ \E m \in Movement :
                \/ \E s \in Category \cup {Split} : Choose(m, s)
                \/ \E d \in Destination : Passthrough(m, d)
                \/ \E T \in SUBSET Tag : SetTags(m, T)
                \/ Unlink(m) \/ Pair(m) \/ Delete(m)
           \/ \E t \in Tag : DeleteTag(t)
           \/ \E c, d \in Category : Rename(c, d)
           \/ \E w \in Worker, todo \in Todo : jobs[w] \in {Idle, Paired} /\ Pass(w, todo)
           \/ \E w \in Worker : Store(w) \/ Begin(w) \/ ReadRows(w) \/ Write(w) \/ Stop(w)
           \/ \E m \in Movement : Arrive(m) \/ Settle(m)
<1>1. CASE Edit
  BY <1>1, WorkersAssumption DEF Edit
<1>2. CASE Person
  BY <1>2 DEF Person
<1>3. CASE \E w \in Worker : Categorize(w) \/ TransfersFirst(w)
  BY <1>3 DEF Categorize, TransfersFirst, Todo
<1> QED  BY <1>1, <1>2, <1>3 DEF Next, Work

LEMMA StepTypes ==
    ASSUME TypeInv, [Next]_vars
    PROVE  TypeInv'
<1>1. CASE UNCHANGED vars
  BY <1>1 DEF vars, TypeInv, TypeOK, RulesInv, Good, JobsInv, JobSound
<1>2. CASE Next
  BY <1>2, StepCases, SetTypes, RemoveTypes, PersonTypes, DeleteTagTypes, RenameTypes,
     PassTypes, StoreTypes, BeginTypes, ReadTypes, WriteTypes, StopTypes, ArriveTypes
<1> QED  BY <1>1, <1>2

\* Whatever the rules, workers and people do, every rule in the table is one set_rule
\* lets through, every movement is on an account there is, and no tag of a movement is
\* both a person's and a rule's (amonhen/merchants.py).
THEOREM TypeCorrect == Spec => []TypeOK
<1>1. Init => TypeInv
  BY InitTypes
<1>2. TypeInv /\ [Next]_vars => TypeInv'
  BY StepTypes
<1>3. TypeInv => TypeOK
  BY DEF TypeInv
<1> QED  BY <1>1, <1>2, <1>3, PTL DEF Spec

-----------------------------------------------------------------------------
(* The invariant: what is true of the movements while jobs are under way.  *)

\* Until something is torn every movement is sound, and so is what a job has read;
\* without a person's choice it is neither a paired leg nor a split.
SoundInv ==
    ~torn =>
        /\ \A m \in Movement : MirrorSound(book[m]) /\ Blank(book[m])
        /\ \A m \in Movement \ chosen : book[m].paired = FALSE /\ book[m].side # Split
        /\ \A w \in Worker : jobs[w].stage = "write" =>
              \A m \in Movement : MirrorSound(jobs[w].rows[m]) /\ Blank(jobs[w].rows[m])

ChosenInv == ~torn => \A m \in chosen : book[m].side \notin {Uncategorized, None}

\* What a rule of the table B may have recorded of a movement that stands as `b`.
Covered(B, m, b) ==
    \/ Current(b) \in Targets(B, m, "transfer")
    \/ b.side \in Category \ {Uncategorized} /\ b.side \in Targets(B, m, "category")

\* The edit `j` will still write on the movement m, which stands as `b`.
Due(j, m, b) ==
    /\ j.edit = TRUE
    /\ \/ j.stage = "begin" /\ Covered(j.before, m, b)
       \/ j.stage = "read" /\ ~Alike(b, AppliedTo(m, j.todo, j.before, j.after, b))
       \/ /\ j.stage = "write"
          /\ \/ ~Alike(j.rows[m],
                       Wrote(Head(j.todo), j.before, j.after, m, j.rows[m], j.rows[m]))
             \/ ~Alike(b, AppliedTo(m, Tail(j.todo), j.before, j.after, b))

Settled(R, m, b) == CategoryExplained(R, m, b) /\ (waited = TRUE \/ TransferExplained(R, m, b))

\* A side no person chose is the rules', or an edit under way is going to change it.
SidesInv ==
    ~torn => \A m \in Movement \ chosen :
        Settled(rules, m, book[m]) \/ \E w \in Worker : Due(jobs[w], m, book[m])

\* The edit `j` has its tags to write, and what it would leave as it is stands anyway:
\* what the rules it applies claim, and what was written after it read.
TagsDue(j) ==
    /\ j.edit = TRUE
    /\ j.stage \in {"begin", "read", "write"}
    /\ j.stage \in {"read", "write"} => \A m \in Movement :
            book[m].ruled \cap Targets(j.after, m, "tag") \subseteq Targets(rules, m, "tag")
    /\ j.stage = "write" => \A m \in Movement :
            book[m].ruled \subseteq j.rows[m].ruled \cup Targets(rules, m, "tag")
TagsInv ==
    ~torn => \/ \A m \in Movement : book[m].ruled \subseteq Targets(rules, m, "tag")
             \/ \E w \in Worker : TagsDue(jobs[w])

Inv == TypeInv /\ SoundInv /\ ChosenInv /\ SidesInv /\ TagsInv

-----------------------------------------------------------------------------
(* The tags of a movement decide nothing about its side.                   *)

LEMMA AlikeReads ==
    ASSUME NEW b, NEW c, Alike(b, c)
    PROVE  /\ Present(b) <=> Present(c)
           /\ Mirrored(b) <=> Mirrored(c)
           /\ Decidable(b) <=> Decidable(c)
           /\ Current(b) = Current(c)
           /\ \A m, t : Recordable(m, b, t) <=> Recordable(m, c, t)
<1>1. Mirrored(b) <=> Mirrored(c)
  BY DEF Alike, Mirrored
<1>2. Present(b) <=> Present(c)
  BY DEF Alike, Present
<1>3. Decidable(b) <=> Decidable(c)
  BY <1>1 DEF Alike, Decidable, Linked
<1>4. Current(b) = Current(c)
  BY <1>1 DEF Alike, Current, Virtual
<1>5. \A m, t : Recordable(m, b, t) <=> Recordable(m, c, t)
  BY DEF Alike, Recordable
<1> QED  BY <1>1, <1>2, <1>3, <1>4, <1>5

LEMMA AlikeDropped ==
    ASSUME NEW b \in Row, NEW c \in Row, Alike(b, c)
    PROVE  Alike(DropMirror(b), DropMirror(c))
<1>1. /\ DropMirror(b).status = b.status /\ DropMirror(b).side = Uncategorized
      /\ DropMirror(b).paired = b.paired /\ DropMirror(b).mirrors = <<>>
  BY DropRow
<1>2. /\ DropMirror(c).status = c.status /\ DropMirror(c).side = Uncategorized
      /\ DropMirror(c).paired = c.paired /\ DropMirror(c).mirrors = <<>>
  BY DropRow
<1> QED  BY <1>1, <1>2 DEF Alike

LEMMA AlikeMirrored ==
    ASSUME NEW b \in Row, NEW c \in Row, Alike(b, c), NEW a \in Hand
    PROVE  Alike(MirrorOn(b, a), MirrorOn(c, a))
<1>1. /\ MirrorOn(b, a).status = b.status /\ MirrorOn(b, a).side = Clearing
      /\ MirrorOn(b, a).paired = b.paired /\ MirrorOn(b, a).mirrors = Append(b.mirrors, a)
  BY MirrorRow
<1>2. /\ MirrorOn(c, a).status = c.status /\ MirrorOn(c, a).side = Clearing
      /\ MirrorOn(c, a).paired = c.paired /\ MirrorOn(c, a).mirrors = Append(c.mirrors, a)
  BY MirrorRow
<1> QED  BY <1>1, <1>2 DEF Alike

LEMMA AlikePointed ==
    ASSUME NEW b \in Row, NEW c \in Row, Alike(b, c), NEW s \in Side
    PROVE  Alike(PointAt(b, s), PointAt(c, s))
<1>1. /\ PointAt(b, s).status = b.status /\ PointAt(b, s).side = s
      /\ PointAt(b, s).paired = b.paired /\ PointAt(b, s).mirrors = b.mirrors
  BY PointRow
<1>2. /\ PointAt(c, s).status = c.status /\ PointAt(c, s).side = s
      /\ PointAt(c, s).paired = c.paired /\ PointAt(c, s).mirrors = c.mirrors
  BY PointRow
<1> QED  BY <1>1, <1>2 DEF Alike

LEMMA AlikeRecorded ==
    ASSUME NEW b \in Row, NEW c \in Row, Alike(b, c), NEW t \in Destination \cup Hand
    PROVE  Alike(RecordTo(b, b, t), RecordTo(c, c, t))
<1>1. PICK x \in Row : x = IF Mirrored(b) THEN DropMirror(b) ELSE b
  BY DropRow
<1>2. PICK y \in Row : y = IF Mirrored(c) THEN DropMirror(c) ELSE c
  BY DropRow
<1>3. Alike(x, y)
  BY <1>1, <1>2, AlikeReads, AlikeDropped
<1>4. RecordTo(b, b, t) = IF t \in Account THEN MirrorOn(x, t) ELSE PointAt(x, t)
  BY <1>1 DEF RecordTo
<1>5. RecordTo(c, c, t) = IF t \in Account THEN MirrorOn(y, t) ELSE PointAt(y, t)
  BY <1>2 DEF RecordTo
<1>6. t \in Account => t \in Hand
  BY NamesApart
<1>7. t \notin Account => t \in Side
  BY NamesApart DEF Side
<1> QED  BY <1>3, <1>4, <1>5, <1>6, <1>7, AlikeMirrored, AlikePointed

LEMMA AlikeLetGo ==
    ASSUME NEW b \in Row, NEW c \in Row, Alike(b, c)
    PROVE  Alike(LetGo(b, b), LetGo(c, c))
<1>1. Uncategorized \in Side
  BY NamesApart DEF Side
<1>2. Mirrored(b) <=> Mirrored(c)
  BY AlikeReads
<1> QED  BY <1>1, <1>2, AlikeDropped, AlikePointed DEF LetGo

LEMMA AlikeWrote ==
    ASSUME NEW p \in Phase, NEW B, NEW A, Good(A), NEW m \in Movement,
           NEW b \in Row, NEW c \in Row, Alike(b, c)
    PROVE  Alike(Wrote(p, B, A, m, b, b), Wrote(p, B, A, m, c, c))
<1>1. Present(b) <=> Present(c)
  BY AlikeReads
<1>2. CASE ~Present(b)
  BY <1>1, <1>2 DEF Wrote
<1>3. CASE Present(b) /\ p = "delete"
  <2>1. Alike(Deleted(A, m, b, b), Deleted(A, m, c, c))
    BY DEF Deleted, Alike
  <2> QED  BY <1>1, <1>3, <2>1 DEF Wrote
<1>4. CASE Present(b) /\ p = "transfer"
  <2>1. Alike(Transferred(B, A, m, b, b), Transferred(B, A, m, c, c))
    <3>1. (Decidable(b) \/ Mirrored(b)) <=> (Decidable(c) \/ Mirrored(c))
      BY AlikeReads
    <3>2. Current(b) = Current(c)
      BY AlikeReads
    <3>3. CASE ~(Decidable(b) \/ Mirrored(b))
      BY <3>1, <3>3 DEF Transferred
    <3>4. CASE (Decidable(b) \/ Mirrored(b)) /\ Winner(A, m, "transfer") # {}
      <4>1. PICK t \in Destination \cup Hand :
              t = CHOOSE x \in Winner(A, m, "transfer") : TRUE
        BY <3>4, TransferTarget
      <4>2. Transferred(B, A, m, b, b)
              = IF t # Current(b) /\ Recordable(m, b, t) THEN RecordTo(b, b, t) ELSE b
        BY <3>4, <4>1 DEF Transferred
      <4>3. Transferred(B, A, m, c, c)
              = IF t # Current(c) /\ Recordable(m, c, t) THEN RecordTo(c, c, t) ELSE c
        BY <3>1, <3>4, <4>1 DEF Transferred
      <4>4. Recordable(m, b, t) <=> Recordable(m, c, t)
        BY AlikeReads
      <4>5. Alike(RecordTo(b, b, t), RecordTo(c, c, t))
        BY AlikeRecorded
      <4> QED  BY <3>2, <4>2, <4>3, <4>4, <4>5
    <3>5. CASE (Decidable(b) \/ Mirrored(b)) /\ Winner(A, m, "transfer") = {}
      <4>2. Transferred(B, A, m, b, b)
              = IF Current(b) \in Targets(B, m, "transfer") THEN LetGo(b, b) ELSE b
        BY <3>5 DEF Transferred
      <4>3. Transferred(B, A, m, c, c)
              = IF Current(c) \in Targets(B, m, "transfer") THEN LetGo(c, c) ELSE c
        BY <3>1, <3>5 DEF Transferred
      <4>5. Alike(LetGo(b, b), LetGo(c, c))
        BY AlikeLetGo
      <4> QED  BY <3>2, <4>2, <4>3, <4>5
    <3> QED  BY <3>3, <3>4, <3>5
  <2> QED  BY <1>1, <1>4, <2>1 DEF Wrote
<1>5. CASE Present(b) /\ p = "category"
  <2>1. Alike(Categorized(B, A, m, b, b), Categorized(B, A, m, c, c))
    <3>1. Decidable(b) <=> Decidable(c)
      BY AlikeReads
    <3>2. b.side = c.side
      BY DEF Alike
    <3>3. Wanted(A, m) \in Side
      BY WantedSound DEF Side
    <3>4. Alike(PointAt(b, Wanted(A, m)), PointAt(c, Wanted(A, m)))
      BY <3>3, AlikePointed
    <3> QED  BY <3>1, <3>2, <3>4 DEF Categorized
  <2> QED  BY <1>1, <1>5, <2>1 DEF Wrote
<1>6. CASE Present(b) /\ p = "tag"
  <2>1. TagStep(A, m, b, b, Tagged(A, m, b, b)) /\ TagStep(A, m, c, c, Tagged(A, m, c, c))
    BY TaggedRow
  <2>2. Alike(Tagged(A, m, b, b), Tagged(A, m, c, c))
    BY <2>1 DEF TagStep, Alike
  <2> QED  BY <1>1, <1>6, <2>2 DEF Wrote
<1> QED  BY <1>2, <1>3, <1>4, <1>5, <1>6 DEF Phase

LEMMA AlikeTurn ==
    ASSUME NEW p \in Phase, NEW todo, NEW B, NEW A, Good(A), NEW m \in Movement,
           NEW b \in Row, NEW c \in Row, Alike(b, c)
    PROVE  Alike(Turn(p, todo, B, A, m, b), Turn(p, todo, B, A, m, c))
  BY AlikeWrote DEF Turn

LEMMA AlikeApplied ==
    ASSUME NEW todo, NEW B, NEW A, Good(A), NEW m \in Movement,
           NEW b \in Row, NEW c \in Row, Alike(b, c)
    PROVE  Alike(AppliedTo(m, todo, B, A, b), AppliedTo(m, todo, B, A, c))
<1>1. PICK one \in Row, two \in Row, three \in Row, four \in Row :
        /\ one = Turn("delete", todo, B, A, m, b)
        /\ two = Turn("transfer", todo, B, A, m, one)
        /\ three = Turn("category", todo, B, A, m, two)
        /\ four = Turn("tag", todo, B, A, m, three)
        /\ AppliedTo(m, todo, B, A, b) = four
  BY InTurns
<1>2. PICK uno \in Row, due \in Row, tre \in Row, quattro \in Row :
        /\ uno = Turn("delete", todo, B, A, m, c)
        /\ due = Turn("transfer", todo, B, A, m, uno)
        /\ tre = Turn("category", todo, B, A, m, due)
        /\ quattro = Turn("tag", todo, B, A, m, tre)
        /\ AppliedTo(m, todo, B, A, c) = quattro
  BY InTurns
<1>3. Alike(one, uno)
  BY <1>1, <1>2, AlikeTurn DEF Phase
<1>4. Alike(two, due)
  BY <1>1, <1>2, <1>3, AlikeTurn DEF Phase
<1>5. Alike(three, tre)
  BY <1>1, <1>2, <1>4, AlikeTurn DEF Phase
<1>6. Alike(four, quattro)
  BY <1>1, <1>2, <1>5, AlikeTurn DEF Phase
<1> QED  BY <1>1, <1>2, <1>6

\* So an edit that is due on a movement is due on it whatever its tags.
LEMMA AlikeDue ==
    ASSUME NEW j, JobSound(j), NEW m \in Movement, NEW b \in Row, NEW c \in Row, Alike(b, c),
           Due(j, m, b)
    PROVE  Due(j, m, c)
<1>1. CASE j.stage = "begin"
  BY <1>1, AlikeReads DEF Due, Covered, Alike
<1>2. CASE j.stage = "read"
  <2>1. Good(j.after) /\ ~Alike(b, AppliedTo(m, j.todo, j.before, j.after, b))
    BY <1>2 DEF JobSound, Due
  <2>2. Alike(AppliedTo(m, j.todo, j.before, j.after, b), AppliedTo(m, j.todo, j.before, j.after, c))
    BY <2>1, AlikeApplied
  <2>3. ~Alike(c, AppliedTo(m, j.todo, j.before, j.after, c))
    BY <2>1, <2>2 DEF Alike
  <2> QED  BY <1>2, <2>3 DEF Due
<1>3. CASE j.stage = "write"
  <2>1. Good(j.after)
    BY <1>3 DEF JobSound
  <2>2. Alike(AppliedTo(m, Tail(j.todo), j.before, j.after, b),
              AppliedTo(m, Tail(j.todo), j.before, j.after, c))
    BY <2>1, AlikeApplied
  <2>3. ~Alike(b, AppliedTo(m, Tail(j.todo), j.before, j.after, b))
          => ~Alike(c, AppliedTo(m, Tail(j.todo), j.before, j.after, c))
    BY <2>2 DEF Alike
  <2> QED  BY <1>3, <2>3 DEF Due
<1> QED  BY <1>1, <1>2, <1>3 DEF Due

-----------------------------------------------------------------------------
(* What is left of the phases, one at a time.                              *)

\* What comes first of what is left came first of all.
LEMMA TodoOrder ==
    ASSUME NEW t \in Todo
    PROVE  /\ "delete" \in Range(t) => Head(t) = "delete"
           /\ "transfer" \in Range(t) => Head(t) \in {"delete", "transfer"}
           /\ "category" \in Range(t) => Head(t) # "tag"
           /\ Len(t) = Len(Phases) => t = Phases
           /\ \A p \in Phase : p \in Range(Phases)
<1>0. Range(Phases) = {"delete", "transfer", "category", "tag"}
  <2>1. Phases = <<"delete", "transfer", "category", "tag">>
    BY DEF Phases
  <2> QED  BY <2>1 DEF Range
<1>1. CASE t = Phases
  <2>1. Head(t) = "delete"
    BY <1>1 DEF Phases
  <2> QED  BY <1>0, <1>1, <2>1 DEF Phase
<1>2. CASE t = <<"transfer", "category", "tag">>
  <2>1. Range(t) = {"transfer", "category", "tag"} /\ Head(t) = "transfer" /\ Len(t) = 3
    BY <1>2, TupleRanges
  <2> QED  BY <1>0, <2>1, PhasesAre DEF Phase
<1>3. CASE t = <<"category", "tag">>
  <2>1. Range(t) = {"category", "tag"} /\ Head(t) = "category" /\ Len(t) = 2
    BY <1>3, TupleRanges
  <2> QED  BY <1>0, <2>1, PhasesAre DEF Phase
<1>4. CASE t = <<"tag">>
  <2>1. Range(t) = {"tag"} /\ Len(t) = 1
    BY <1>4, TupleRanges
  <2> QED  BY <1>0, <2>1, PhasesAre DEF Phase
<1>5. CASE t = <<"transfer">>
  <2>1. Range(t) = {"transfer"} /\ Head(t) = "transfer" /\ Len(t) = 1
    BY <1>5, TupleRanges
  <2> QED  BY <1>0, <2>1, PhasesAre DEF Phase
<1> QED  BY <1>1, <1>2, <1>3, <1>4, <1>5 DEF Todo

\* The first phase, then the rest.
LEMMA HeadFirst ==
    ASSUME NEW t \in Todo, NEW B, NEW A, Good(A), NEW m \in Movement, NEW c \in Row
    PROVE  AppliedTo(m, t, B, A, c)
             = AppliedTo(m, Tail(t), B, A, Wrote(Head(t), B, A, m, c, c))
<1>1. Head(t) \in Phase
  BY TodoFacts
<1>2. PICK x \in Row : x = Wrote(Head(t), B, A, m, c, c)
  BY <1>1, WroteRow
<1>3. PICK one \in Row, two \in Row, three \in Row, four \in Row :
        /\ one = Turn("delete", t, B, A, m, c)
        /\ two = Turn("transfer", t, B, A, m, one)
        /\ three = Turn("category", t, B, A, m, two)
        /\ four = Turn("tag", t, B, A, m, three)
        /\ AppliedTo(m, t, B, A, c) = four
  BY InTurns
<1>4. PICK uno \in Row, due \in Row, tre \in Row, quattro \in Row :
        /\ uno = Turn("delete", Tail(t), B, A, m, x)
        /\ due = Turn("transfer", Tail(t), B, A, m, uno)
        /\ tre = Turn("category", Tail(t), B, A, m, due)
        /\ quattro = Turn("tag", Tail(t), B, A, m, tre)
        /\ AppliedTo(m, Tail(t), B, A, x) = quattro
  BY InTurns
<1>5. Range(t) = {Head(t)} \cup Range(Tail(t)) /\ Head(t) \notin Range(Tail(t))
  BY TodoFacts
<1>6. \A p, d : p # Head(t) => Turn(p, t, B, A, m, d) = Turn(p, Tail(t), B, A, m, d)
  BY <1>5 DEF Turn
<1>7. Turn(Head(t), t, B, A, m, c) = x
  BY <1>2, <1>5 DEF Turn
<1>8. \A p, d : p \notin Range(t) => Turn(p, t, B, A, m, d) = d /\ Turn(p, Tail(t), B, A, m, d) = d
  BY <1>5 DEF Turn
<1>9. \A d : Turn(Head(t), Tail(t), B, A, m, d) = d
  BY <1>5 DEF Turn
<1>10. four = quattro
  <2>1. CASE Head(t) = "delete"
    BY <1>3, <1>4, <1>6, <1>7, <1>9, <2>1
  <2>2. CASE Head(t) = "transfer"
    <3>1. "delete" \notin Range(t)
      BY <2>2, TodoOrder
    <3>2. one = c /\ uno = x
      BY <1>3, <1>4, <1>8, <3>1
    <3> QED  BY <1>3, <1>4, <1>6, <1>7, <1>9, <2>2, <3>2
  <2>3. CASE Head(t) = "category"
    <3>1. "delete" \notin Range(t) /\ "transfer" \notin Range(t)
      BY <2>3, TodoOrder
    <3>2. two = c /\ due = x
      BY <1>3, <1>4, <1>8, <3>1
    <3> QED  BY <1>3, <1>4, <1>6, <1>7, <1>9, <2>3, <3>2
  <2>4. CASE Head(t) = "tag"
    <3>1. "delete" \notin Range(t) /\ "transfer" \notin Range(t) /\ "category" \notin Range(t)
      BY <2>4, TodoOrder
    <3>2. three = c /\ tre = x
      BY <1>3, <1>4, <1>8, <3>1
    <3> QED  BY <1>3, <1>4, <1>6, <1>7, <1>9, <2>4, <3>2
  <2> QED  BY <1>1, <2>1, <2>2, <2>3, <2>4 DEF Phase
<1> QED  BY <1>2, <1>3, <1>4, <1>10

LEMMA NothingLeft ==
    ASSUME NEW s, Range(s) = {}, NEW B, NEW A, Good(A), NEW m \in Movement, NEW c \in Row
    PROVE  AppliedTo(m, s, B, A, c) = c
<1>1. \A p, d : Turn(p, s, B, A, m, d) = d
  BY DEF Turn
<1> QED  BY <1>1, InTurns

\* A phase before the tags changes the side, or nothing.
LEMMA PhaseStays ==
    ASSUME NEW p \in Phase \ {"tag"}, NEW B, Good(B), NEW A, Good(A), NEW m \in Movement,
           NEW c \in Row, MirrorSound(c), Alike(c, Wrote(p, B, A, m, c, c))
    PROVE  Wrote(p, B, A, m, c, c) = c
<1>1. CASE ~Present(c)
  BY <1>1 DEF Wrote
<1>2. CASE Present(c) /\ p = "delete"
  <2>1. Gone("deleted").status = "deleted"
    BY GoneRow
  <2> QED  BY <1>2, <2>1 DEF Wrote, Deleted, Alike, Present
<1>3. CASE Present(c) /\ p = "transfer"
  <2>1. TransferStep(A, m, c, Transferred(B, A, m, c, c))
    BY TransferNow
  <2> QED  BY <1>3, <2>1 DEF Wrote, TransferStep
<1>4. CASE Present(c) /\ p = "category"
  <2>1. CategoryStep(A, m, c, Categorized(B, A, m, c, c))
    BY CategoryNow
  <2> QED  BY <1>4, <2>1 DEF Wrote, CategoryStep
<1> QED  BY <1>1, <1>2, <1>3, <1>4 DEF Phase

\* A change that some turn makes is explained at the end of them.
LEMMA ChangeExplained ==
    ASSUME NEW A, NEW m, NEW c, NEW d, NEW e, Follows(A, m, c, d), ~Alike(c, d), Follows(A, m, d, e)
    PROVE  Explained(A, m, e)
<1>1. Explained(A, m, d)
  BY DEF Follows
<1>2. CASE Alike(d, e)
  BY <1>1, <1>2, AlikeExplained DEF Explained
<1>3. CASE ~Alike(d, e)
  BY <1>3 DEF Follows
<1> QED  BY <1>2, <1>3

\* All the phases leave it where it was: none of them has anything to write, or it ends explained.
LEMMA NoTurn ==
    ASSUME NEW B, Good(B), NEW A, Good(A), NEW m \in Movement,
           NEW c \in Row, MirrorSound(c), Blank(c),
           Alike(c, AppliedTo(m, Phases, B, A, c))
    PROVE  \/ Explained(A, m, c)
           \/ \A p \in Phase \ {"tag"} : Wrote(p, B, A, m, c, c) = c
<1>1. PICK one \in Row, two \in Row, three \in Row, four \in Row :
        /\ one = Turn("delete", Phases, B, A, m, c)
        /\ two = Turn("transfer", Phases, B, A, m, one)
        /\ three = Turn("category", Phases, B, A, m, two)
        /\ four = Turn("tag", Phases, B, A, m, three)
        /\ AppliedTo(m, Phases, B, A, c) = four
  BY InTurns
<1>2. Follows(A, m, c, one)
  BY <1>1, TurnNow DEF Phase
<1>3. Follows(A, m, one, two)
  <2>1. MirrorSound(one) /\ Blank(one)
    BY <1>2 DEF Follows
  <2> QED  BY <1>1, <2>1, TurnNow DEF Phase
<1>4. Follows(A, m, two, three)
  <2>1. MirrorSound(two) /\ Blank(two)
    BY <1>3 DEF Follows
  <2> QED  BY <1>1, <2>1, TurnNow DEF Phase
<1>5. Follows(A, m, three, four)
  <2>1. MirrorSound(three) /\ Blank(three)
    BY <1>4 DEF Follows
  <2> QED  BY <1>1, <2>1, TurnNow DEF Phase
<1>6. Follows(A, m, two, four) /\ Follows(A, m, one, four)
  BY <1>3, <1>4, <1>5, FollowsOn
<1>7. Alike(c, four)
  BY <1>1
<1>8. Explained(A, m, four) => Explained(A, m, c)
  BY <1>7, AlikeExplained DEF Explained
<1>9. CASE ~Alike(c, one) \/ ~Alike(one, two) \/ ~Alike(two, three)
  BY <1>2, <1>3, <1>4, <1>5, <1>6, <1>8, <1>9, ChangeExplained
<1>10. CASE Alike(c, one) /\ Alike(one, two) /\ Alike(two, three)
  <2>0. MirrorSound(one) /\ MirrorSound(two)
    BY <1>2, <1>3 DEF Follows
  <2>t. "delete" \in Range(Phases) /\ "transfer" \in Range(Phases) /\ "category" \in Range(Phases)
    <3>1. Phases \in Todo
      BY DEF Todo
    <3> QED  BY <3>1, TodoOrder DEF Phase
  <2>1. one = Wrote("delete", B, A, m, c, c)
    BY <1>1, <2>t DEF Turn
  <2>2. one = c
    BY <1>10, <2>1, PhaseStays DEF Phase
  <2>3. two = Wrote("transfer", B, A, m, one, one)
    BY <1>1, <2>t DEF Turn
  <2>4. two = one
    BY <1>10, <2>0, <2>3, PhaseStays DEF Phase
  <2>5. three = Wrote("category", B, A, m, two, two)
    BY <1>1, <2>t DEF Turn
  <2>6. three = two
    BY <1>10, <2>0, <2>5, PhaseStays DEF Phase
  <2> QED  BY <2>1, <2>2, <2>3, <2>4, <2>5, <2>6 DEF Phase
<1> QED  BY <1>9, <1>10

\* What the old rules may have recorded, and the new ones leave, the new ones explain.
LEMMA Still ==
    ASSUME NEW B, Good(B), NEW A, Good(A), NEW m \in Movement,
           NEW c \in Row, MirrorSound(c), Blank(c), c.paired = FALSE, c.side # Split,
           Covered(B, m, c), Alike(c, AppliedTo(m, Phases, B, A, c))
    PROVE  Explained(A, m, c)
<1>1. SUFFICES ASSUME Present(c), Wrote("transfer", B, A, m, c, c) = c,
                      Wrote("category", B, A, m, c, c) = c
               PROVE  Explained(A, m, c)
  BY NoTurn DEF Explained, TransferExplained, CategoryExplained, Phase
<1>2. Decidable(c) \/ Mirrored(c)
  BY DEF Decidable, Linked
<1>3. c.side \in Category => ~Mirrored(c) /\ Current(c) = None
  BY NamesApart DEF MirrorSound, Current, Virtual
<1>4. TransferExplained(A, m, c)
  <2>1. SUFFICES ASSUME Current(c) # None PROVE TransferExplained(A, m, c)
    BY DEF TransferExplained
  <2>2. Transferred(B, A, m, c, c) = c
    BY <1>1 DEF Wrote
  <2>3. Current(c) \in Targets(B, m, "transfer")
    BY <1>3, <2>1 DEF Covered
  <2>4. CASE Winner(A, m, "transfer") = {}
    <3>1. LetGo(c, c) = c
      BY <1>2, <2>2, <2>3, <2>4 DEF Transferred
    <3>2. ~Alike(c, LetGo(c, c))
      BY <1>2, <2>1, LetGoIs
    <3> QED  BY <3>1, <3>2 DEF Alike
  <2>5. CASE Winner(A, m, "transfer") # {}
    <3>1. PICK t \in Destination \cup Hand :
            t = (CHOOSE x \in Winner(A, m, "transfer") : TRUE) /\ Winner(A, m, "transfer") = {t}
      BY <2>5, TransferTarget
    <3>2. t # Current(c) /\ Recordable(m, c, t) => RecordTo(c, c, t) = c
      BY <1>2, <2>2, <2>5, <3>1 DEF Transferred
    <3>3. t # Current(c) /\ Recordable(m, c, t) => ~Alike(c, RecordTo(c, c, t))
      BY <1>2, RecordedIs
    <3>4. t = Current(c) \/ ~Recordable(m, c, t)
      BY <3>2, <3>3 DEF Alike
    <3> QED  BY <3>1, <3>4 DEF TransferExplained
  <2> QED  BY <2>4, <2>5
<1>5. CategoryExplained(A, m, c)
  <2>1. SUFFICES ASSUME c.side \in Category \ {Uncategorized}
                 PROVE  Winner(A, m, "category") = {c.side}
    BY DEF CategoryExplained
  <2>2. Current(c) \notin Targets(B, m, "transfer")
    BY <1>3, <2>1, TargetsSound, NamesApart
  <2>3. c.side \in Targets(B, m, "category")
    BY <2>2 DEF Covered
  <2>4. Categorized(B, A, m, c, c) = c
    BY <1>1 DEF Wrote
  <2>5. Decidable(c)
    BY <1>2, <1>3, <2>1
  <2>6. Wanted(A, m) # c.side => PointAt(c, Wanted(A, m)) = c
    BY <2>1, <2>3, <2>4, <2>5 DEF Categorized, RulesToDecide, Theirs
  <2>7. Wanted(A, m) \in Side
    BY WantedSound DEF Side
  <2>8. Wanted(A, m) = c.side
    BY <2>6, <2>7, PointRow
  <2> QED  BY <2>1, <2>8, WantedSound
<1> QED  BY <1>4, <1>5 DEF Explained

-----------------------------------------------------------------------------
(* What a job writes, when what it writes on is as it read it.             *)

\* Of the job `j` about to write, the movement m that stands as `c` and is left as `d`.
WrittenOn(j, m, c, d) ==
    \E x \in Row :
        /\ Follows(j.after, m, c, x) /\ Follows(j.after, m, x, d)
        /\ d = AppliedTo(m, Tail(j.todo), j.before, j.after, x)
        /\ x = c \/ x = Wrote(Head(j.todo), j.before, j.after, m, c, c)
        /\ ~Alike(j.rows[m], Wrote(Head(j.todo), j.before, j.after, m, j.rows[m], j.rows[m]))
             => ~Alike(c, x)
        /\ x = c => Wrote(Head(j.todo), j.before, j.after, m, j.rows[m], j.rows[m]) = j.rows[m]

LEMMA WriteFollows ==
    ASSUME TypeInv, SoundInv, NEW w \in Worker, Write(w), ~torn', ~Missing(jobs[w])
    PROVE  /\ jobs[w].after = rules /\ ~torn
           /\ \A m \in Movement : WrittenOn(jobs[w], m, book[m], book'[m])
<1>1. jobs[w] \in Job /\ JobSound(jobs[w]) /\ book \in [Movement -> Row]
  BY DEF TypeInv, TypeOK, JobsInv
<1>2. PICK j \in Job : j = jobs[w]
  BY <1>1
<1>3. /\ j.stage = "write" /\ Good(j.before) /\ Good(j.after) /\ j.todo \in Todo
      /\ j.rows \in [Movement -> Row]
  BY <1>1, <1>2 DEF Write, JobSound
<1>4. /\ book' = Carried(j) /\ ~torn /\ j.after = rules /\ ~StaleRows(j)
  BY <1>2 DEF Write, StaleRules
<1>5. ASSUME NEW m \in Movement PROVE WrittenOn(j, m, book[m], book'[m])
  <2>0. Head(j.todo) \in Phase
    BY <1>3, TodoFacts
  <2>1. PICK c \in Row, r \in Row : c = book[m] /\ r = j.rows[m]
    BY <1>1, <1>3
  <2>2. MirrorSound(c) /\ Blank(c) /\ MirrorSound(r) /\ Blank(r)
    BY <1>2, <1>3, <1>4, <2>1 DEF SoundInv
  <2>3. PICK x \in Row : x = Wrote(Head(j.todo), j.before, j.after, m, r, c)
    BY <1>3, <2>0, WroteRow
  <2>4. book'[m] = AppliedTo(m, Tail(j.todo), j.before, j.after, x)
    BY <1>4, <2>1, <2>3 DEF Carried, Applied, After
  <2>5. CASE Wrote(Head(j.todo), j.before, j.after, m, r, r) = r
    <3>1. x = c
      BY <1>3, <2>0, <2>2, <2>3, <2>5, Untouched
    <3>2. Follows(j.after, m, c, x)
      BY <2>2, <3>1 DEF Follows, Alike
    <3>3. Follows(j.after, m, x, book'[m])
      BY <1>3, <2>2, <2>4, <3>1, AppliedNow
    <3>4. Alike(r, Wrote(Head(j.todo), j.before, j.after, m, r, r))
      BY <2>5 DEF Alike
    <3> QED  BY <2>1, <2>4, <2>5, <3>1, <3>2, <3>3, <3>4 DEF WrittenOn
  <2>6. CASE Wrote(Head(j.todo), j.before, j.after, m, r, r) # r
    <3>1. m \in Touches(Head(j.todo), j.before, j.after, j.rows)
      BY <2>1, <2>6 DEF Touches
    <3>2. r = c
      BY <1>4, <2>1, <3>1 DEF StaleRows
    <3>3. Follows(j.after, m, c, x)
      BY <1>3, <2>0, <2>2, <2>3, <3>2, WroteNow
    <3>4. Follows(j.after, m, x, book'[m])
      <4>1. MirrorSound(x) /\ Blank(x)
        BY <3>3 DEF Follows
      <4> QED  BY <1>3, <2>4, <4>1, AppliedNow
    <3>5. x = Wrote(Head(j.todo), j.before, j.after, m, c, c) /\ x # c
      BY <2>3, <2>6, <3>2
    <3> QED  BY <2>1, <2>4, <3>2, <3>3, <3>4, <3>5 DEF WrittenOn
  <2> QED  BY <2>5, <2>6
<1> QED  BY <1>2, <1>4, <1>5

\* So a job leaves of a movement what Follows says, and the tags its rules claim.
LEMMA WriteLeaves ==
    ASSUME TypeInv, SoundInv, NEW w \in Worker, Write(w), ~torn', ~Missing(jobs[w]),
           NEW m \in Movement
    PROVE  Follows(rules, m, book[m], book'[m])
  BY WriteFollows, FollowsOn DEF WrittenOn

LEMMA WriteTags ==
    ASSUME TypeInv, SoundInv, NEW w \in Worker, Write(w), ~torn', ~Missing(jobs[w]),
           NEW m \in Movement
    PROVE  /\ book'[m].ruled \subseteq book[m].ruled \cup Targets(rules, m, "tag")
           /\ /\ "tag" \in Range(jobs[w].todo)
              /\ book[m].ruled \subseteq jobs[w].rows[m].ruled \cup Targets(rules, m, "tag")
              => book'[m].ruled \subseteq Targets(rules, m, "tag")
<1>1. jobs[w] \in Job /\ JobSound(jobs[w]) /\ book \in [Movement -> Row]
  BY DEF TypeInv, TypeOK, JobsInv
<1>2. PICK j \in Job : j = jobs[w]
  BY <1>1
<1>3. /\ j.stage = "write" /\ Good(j.before) /\ Good(j.after) /\ j.todo \in Todo
      /\ j.rows \in [Movement -> Row]
  BY <1>1, <1>2 DEF Write, JobSound
<1>4. j.after = rules /\ ~torn /\ WrittenOn(j, m, book[m], book'[m])
  BY <1>2, WriteFollows
<1>5. PICK c \in Row, r \in Row : c = book[m] /\ r = j.rows[m]
  BY <1>1, <1>3
<1>6. MirrorSound(c) /\ Blank(c) /\ MirrorSound(r) /\ Blank(r)
  BY <1>2, <1>3, <1>4, <1>5 DEF SoundInv
<1>7. PICK x \in Row :
        /\ Follows(j.after, m, c, x)
        /\ book'[m] = AppliedTo(m, Tail(j.todo), j.before, j.after, x)
        /\ x = c \/ x = Wrote(Head(j.todo), j.before, j.after, m, c, c)
        /\ x = c => Wrote(Head(j.todo), j.before, j.after, m, r, r) = r
  BY <1>4, <1>5 DEF WrittenOn
<1>8. MirrorSound(x) /\ Blank(x)
  BY <1>7 DEF Follows
<1>9. /\ "tag" \in Range(Tail(j.todo)) => book'[m].ruled \subseteq Targets(rules, m, "tag")
      /\ "tag" \notin Range(Tail(j.todo)) => book'[m].ruled \subseteq x.ruled
  BY <1>3, <1>4, <1>7, <1>8, AppliedTags
<1>10. Head(j.todo) \in Phase /\ Range(j.todo) = {Head(j.todo)} \cup Range(Tail(j.todo))
  BY <1>3, TodoFacts
<1>11. /\ Head(j.todo) # "tag"
             => Wrote(Head(j.todo), j.before, j.after, m, c, c).ruled \subseteq c.ruled
       /\ Head(j.todo) = "tag"
             => /\ Wrote(Head(j.todo), j.before, j.after, m, c, c).ruled \subseteq Targets(rules, m, "tag")
                /\ Wrote(Head(j.todo), j.before, j.after, m, r, r).ruled \subseteq Targets(rules, m, "tag")
  BY <1>3, <1>4, <1>6, <1>10, WroteTags
<1>12. book'[m].ruled \subseteq c.ruled \cup Targets(rules, m, "tag")
  BY <1>7, <1>9, <1>11
<1>13. ASSUME "tag" \in Range(j.todo), c.ruled \subseteq r.ruled \cup Targets(rules, m, "tag")
       PROVE  book'[m].ruled \subseteq Targets(rules, m, "tag")
  <2>1. SUFFICES ASSUME "tag" \notin Range(Tail(j.todo)) PROVE x.ruled \subseteq Targets(rules, m, "tag")
    BY <1>9
  <2>2. Head(j.todo) = "tag"
    BY <1>10, <1>13, <2>1
  <2> QED  BY <1>7, <1>11, <1>13, <2>2
<1> QED  BY <1>2, <1>5, <1>12, <1>13

-----------------------------------------------------------------------------
(* Every step keeps the invariant.                                         *)

Kept == SoundInv /\ ChosenInv /\ SidesInv /\ TagsInv

\* What an edit was due to do on the movements, as another job finds it.
LEMMA DueHere ==
    ASSUME NEW j, NEW m, NEW b, Due(j, m, b)
    PROVE  j.edit = TRUE /\ j.stage \in {"begin", "read", "write"} /\ HalfDone(j)
  BY DEF Due, HalfDone

LEMMA TagsDueHere ==
    ASSUME NEW j, TagsDue(j)
    PROVE  j.edit = TRUE /\ j.stage \in {"begin", "read", "write"} /\ HalfDone(j)
  BY DEF TagsDue, HalfDone

\* A step of one worker's own, that changes neither the rules nor the movements.
LEMMA OwnStep ==
    ASSUME Inv, NEW w \in Worker, NEW k, Become(w, k),
           UNCHANGED <<rules, book, chosen, waited>>, ~torn' => ~torn,
           k.stage = "write" => k.rows = book,
           ~torn' => \A m \in Movement \ chosen :
               Due(jobs[w], m, book[m]) => Settled(rules, m, book[m]) \/ Due(k, m, book[m]),
           ~torn' => (TagsDue(jobs[w]) =>
               \/ TagsDue(k)
               \/ \A m \in Movement : book[m].ruled \subseteq Targets(rules, m, "tag"))
    PROVE  Kept'
<1>1. jobs' = [jobs EXCEPT ![w] = k] /\ jobs \in [Worker -> Job]
  BY DEF Become, Inv, TypeInv, TypeOK
<1>2. jobs'[w] = k /\ \A v \in Worker \ {w} : jobs'[v] = jobs[v]
  BY <1>1
<1>3. SoundInv'
  <2>1. SUFFICES ASSUME ~torn'
                 PROVE  /\ \A m \in Movement : MirrorSound(book[m]) /\ Blank(book[m])
                        /\ \A m \in Movement \ chosen : book[m].paired = FALSE /\ book[m].side # Split
                        /\ \A v \in Worker : jobs'[v].stage = "write" =>
                              \A m \in Movement : MirrorSound(jobs'[v].rows[m]) /\ Blank(jobs'[v].rows[m])
    BY DEF SoundInv
  <2>2. /\ \A m \in Movement : MirrorSound(book[m]) /\ Blank(book[m])
        /\ \A m \in Movement \ chosen : book[m].paired = FALSE /\ book[m].side # Split
        /\ \A v \in Worker : jobs[v].stage = "write" =>
              \A m \in Movement : MirrorSound(jobs[v].rows[m]) /\ Blank(jobs[v].rows[m])
    BY <2>1 DEF Inv, SoundInv
  <2> QED  BY <1>2, <2>2
<1>4. ChosenInv'
  BY DEF Inv, ChosenInv
<1>5. SidesInv'
  <2>1. SUFFICES ASSUME ~torn', NEW m \in Movement \ chosen
                 PROVE  Settled(rules, m, book[m]) \/ \E v \in Worker : Due(jobs'[v], m, book[m])
    BY DEF SidesInv, Settled
  <2>2. Settled(rules, m, book[m]) \/ \E v \in Worker : Due(jobs[v], m, book[m])
    BY <2>1 DEF Inv, SidesInv
  <2> QED  BY <1>2, <2>1, <2>2
<1>6. TagsInv'
  <2>1. SUFFICES ASSUME ~torn'
                 PROVE  \/ \A m \in Movement : book[m].ruled \subseteq Targets(rules, m, "tag")
                        \/ \E v \in Worker : TagsDue(jobs'[v])
    BY DEF TagsInv, TagsDue
  <2>2. \/ \A m \in Movement : book[m].ruled \subseteq Targets(rules, m, "tag")
        \/ \E v \in Worker : TagsDue(jobs[v])
    BY <2>1 DEF Inv, TagsInv
  <2> QED  BY <1>2, <2>1, <2>2
<1> QED  BY <1>3, <1>4, <1>5, <1>6 DEF Kept

\* One that has nothing due: opening an edit, starting a pass, giving up.
LEMMA QuietStep ==
    ASSUME Inv, NEW w \in Worker, NEW k, Become(w, k),
           UNCHANGED <<rules, book, chosen, waited>>, ~torn' => ~torn,
           k.stage # "write", ~torn' => ~HalfDone(jobs[w])
    PROVE  Kept'
<1>1. ~torn' => \A m \in Movement \ chosen : ~Due(jobs[w], m, book[m])
  BY DueHere
<1>2. ~torn' => ~TagsDue(jobs[w])
  BY TagsDueHere
<1> QED  BY <1>1, <1>2, OwnStep

LEMMA OpenKeeps ==
    ASSUME Inv, NEW w \in Worker,
           \/ \E rid \in RuleId \cup {None}, b \in Written : OpenSet(w, rid, b)
           \/ \E rid \in RuleId : OpenRemove(w, rid)
    PROVE  Kept'
<1>1. UNCHANGED <<rules, book, chosen, torn, waited>> /\ jobs[w] = Idle
  BY DEF OpenSet, OpenRemove
<1>2. ~HalfDone(jobs[w])
  BY <1>1 DEF HalfDone, Idle
<1>3. PICK k : Become(w, k) /\ k.stage = "store"
  <2>1. ASSUME NEW rid, NEW b, OpenSet(w, rid, b)
        PROVE  \E k : Become(w, k) /\ k.stage = "store"
    <3>1. PICK row : Become(w, [Idle EXCEPT !.stage = "store", !.edit = TRUE, !.todo = Phases,
                                            !.rid = row, !.body = b, !.before = rules])
      BY <2>1 DEF OpenSet
    <3>2. PICK k : k = [Idle EXCEPT !.stage = "store", !.edit = TRUE, !.todo = Phases,
                                    !.rid = row, !.body = b, !.before = rules]
      OBVIOUS
    <3>3. k.stage = "store"
      BY <3>2 DEF Idle
    <3> QED  BY <3>1, <3>2, <3>3
  <2>2. ASSUME NEW rid, OpenRemove(w, rid)
        PROVE  \E k : Become(w, k) /\ k.stage = "store"
    <3>2. PICK k : k = [Idle EXCEPT !.stage = "store", !.edit = TRUE, !.todo = Phases,
                                    !.rid = rid, !.before = rules]
      OBVIOUS
    <3>3. k.stage = "store"
      BY <3>2 DEF Idle
    <3> QED  BY <2>2, <3>2, <3>3 DEF OpenRemove
  <2> QED  BY <2>1, <2>2
<1> QED  BY <1>1, <1>2, <1>3, QuietStep

LEMMA PassKeeps ==
    ASSUME Inv, NEW w \in Worker, NEW todo, jobs[w] \in {Idle, Paired}, Pass(w, todo)
    PROVE  Kept'
<1>1. ~HalfDone(jobs[w])
  BY DEF HalfDone, Idle, Paired
<1>2. PICK k : k = [Idle EXCEPT !.stage = "read", !.todo = todo,
                                !.before = rules, !.after = rules]
  OBVIOUS
<1>3. k.stage = "read"
  BY <1>2 DEF Idle
<1>4. Become(w, k) /\ UNCHANGED <<rules, book, chosen, torn, waited>>
  BY <1>2 DEF Pass
<1> QED  BY <1>1, <1>3, <1>4, QuietStep

LEMMA StopKeeps ==
    ASSUME Inv, NEW w \in Worker, Stop(w)
    PROVE  Kept'
<1>1. Become(w, Idle) /\ UNCHANGED <<rules, book, chosen, waited>>
  BY DEF Stop
<1>2. torn' = (torn \/ HalfDone(jobs[w]))
  BY DEF Stop
<1>3. ~torn' => ~torn /\ ~HalfDone(jobs[w])
  BY <1>2
<1> QED  BY <1>1, <1>3, IdleJob, QuietStep

LEMMA BeginKeeps ==
    ASSUME Inv, NEW w \in Worker, Begin(w)
    PROVE  Kept'
<1>1. jobs[w] \in Job /\ JobSound(jobs[w]) /\ Good(rules) /\ book \in [Movement -> Row]
  BY DEF Inv, TypeInv, TypeOK, JobsInv, RulesInv
<1>2. PICK j \in Job : j = jobs[w]
  BY <1>1
<1>3. j.edit = TRUE /\ j.todo = Phases /\ Good(j.before) /\ j.stage = "begin"
  BY <1>1, <1>2 DEF Begin, JobSound
<1>4. PICK k : k = [j EXCEPT !.stage = "read", !.after = rules]
  OBVIOUS
<1>5. /\ k.stage = "read" /\ k.edit = TRUE /\ k.todo = Phases /\ k.before = j.before
      /\ k.after = rules
  BY <1>3, <1>4 DEF Job
<1>6. Become(w, k) /\ UNCHANGED <<rules, book, chosen, torn, waited>>
  BY <1>2, <1>4 DEF Begin
<1>7. ASSUME ~torn, NEW m \in Movement \ chosen, Due(j, m, book[m])
      PROVE  Settled(rules, m, book[m]) \/ Due(k, m, book[m])
  <2>1. PICK b \in Row : b = book[m]
    BY <1>1
  <2>2. MirrorSound(b) /\ Blank(b) /\ b.paired = FALSE /\ b.side # Split
    BY <1>7, <2>1 DEF Inv, SoundInv
  <2>3. Covered(j.before, m, b)
    BY <1>3, <1>7, <2>1 DEF Due
  <2>4. CASE Alike(b, AppliedTo(m, Phases, j.before, rules, b))
    <3>1. Explained(rules, m, b)
      BY <1>1, <1>3, <2>2, <2>3, <2>4, Still
    <3> QED  BY <2>1, <3>1 DEF Explained, Settled
  <2>5. CASE ~Alike(b, AppliedTo(m, Phases, j.before, rules, b))
    BY <1>5, <2>1, <2>5 DEF Due
  <2> QED  BY <2>4, <2>5
<1>8. TagsDue(k)
  BY <1>5 DEF TagsDue
<1> QED  BY <1>2, <1>5, <1>6, <1>7, <1>8, OwnStep

LEMMA ReadKeeps ==
    ASSUME Inv, NEW w \in Worker, ReadRows(w)
    PROVE  Kept'
<1>1. jobs[w] \in Job /\ JobSound(jobs[w]) /\ book \in [Movement -> Row]
  BY DEF Inv, TypeInv, TypeOK, JobsInv
<1>2. PICK j \in Job : j = jobs[w]
  BY <1>1
<1>3. /\ j.stage = "read" /\ Good(j.before) /\ Good(j.after) /\ j.todo \in Todo
      /\ j.edit = TRUE => j.todo # <<"transfer">>
  BY <1>1, <1>2 DEF ReadRows, JobSound
<1>4. UNCHANGED <<rules, book, chosen, torn, waited>>
  BY DEF ReadRows
<1>5. Head(j.todo) \in Phase
  BY <1>3, TodoFacts
<1>6. \A m \in Movement :
        AppliedTo(m, j.todo, j.before, j.after, book[m])
          = AppliedTo(m, Tail(j.todo), j.before, j.after,
                      Wrote(Head(j.todo), j.before, j.after, m, book[m], book[m]))
  BY <1>1, <1>3, HeadFirst
<1>7. CASE Touches(Head(j.todo), j.before, j.after, book) # {}
  <2>1. Become(w, [j EXCEPT !.stage = "write", !.rows = book])
    BY <1>2, <1>7 DEF ReadRows
  <2>2. PICK k : k = [j EXCEPT !.stage = "write", !.rows = book]
    OBVIOUS
  <2>3. /\ k.stage = "write" /\ k.edit = j.edit /\ k.todo = j.todo /\ k.before = j.before
        /\ k.after = j.after /\ k.rows = book
    BY <2>2 DEF Job
  <2>4. ASSUME NEW m \in Movement, Due(j, m, book[m]) PROVE Due(k, m, book[m])
    <3>1. PICK b \in Row : b = book[m]
      BY <1>1
    <3>2. PICK x \in Row : x = Wrote(Head(j.todo), j.before, j.after, m, b, b)
      BY <1>3, <1>5, WroteRow
    <3>3. j.edit = TRUE /\ ~Alike(b, AppliedTo(m, Tail(j.todo), j.before, j.after, x))
      BY <1>3, <1>6, <2>4, <3>1, <3>2 DEF Due
    <3>4. CASE ~Alike(b, x)
      BY <2>3, <3>1, <3>2, <3>3, <3>4 DEF Due
    <3>5. CASE Alike(b, x)
      <4>1. Alike(AppliedTo(m, Tail(j.todo), j.before, j.after, b),
                  AppliedTo(m, Tail(j.todo), j.before, j.after, x))
        BY <1>3, <3>5, AlikeApplied
      <4>2. ~Alike(b, AppliedTo(m, Tail(j.todo), j.before, j.after, b))
        BY <3>3, <4>1 DEF Alike
      <4> QED  BY <2>3, <3>1, <3>3, <4>2 DEF Due
    <3> QED  BY <3>4, <3>5
  <2>5. TagsDue(j) => TagsDue(k)
    <3>1. \A m \in Movement : book[m].ruled \subseteq k.rows[m].ruled \cup Targets(rules, m, "tag")
      BY <2>3
    <3> QED  BY <1>3, <2>3, <3>1 DEF TagsDue
  <2> QED  BY <1>2, <1>4, <2>1, <2>2, <2>3, <2>4, <2>5, OwnStep
<1>8. CASE Touches(Head(j.todo), j.before, j.after, book) = {}
  <2>1. \A m \in Movement :
          Wrote(Head(j.todo), j.before, j.after, m, book[m], book[m]) = book[m]
    BY <1>8 DEF Touches
  <2>2. CASE Len(j.todo) = 1
    <3>1. Become(w, Finished(j)) /\ Finished(j).stage # "write"
      BY <1>2, <1>8, <2>2, FinishedJob, IdleJob DEF ReadRows
    <3>2. Range(j.todo) = {Head(j.todo)} /\ Range(Tail(j.todo)) = {}
      BY <1>3, <2>2, TodoFacts, NoRange
    <3>3. ASSUME NEW m \in Movement, Due(j, m, book[m]) PROVE FALSE
      <4>1. AppliedTo(m, Tail(j.todo), j.before, j.after, book[m]) = book[m]
        BY <1>1, <1>3, <3>2, NothingLeft
      <4>2. AppliedTo(m, j.todo, j.before, j.after, book[m]) = book[m]
        BY <1>6, <2>1, <4>1
      <4> QED  BY <1>3, <3>3, <4>2 DEF Due, Alike
    <3>4. ASSUME TagsDue(j), ~torn', NEW m \in Movement
          PROVE  book[m].ruled \subseteq Targets(rules, m, "tag")
      <4>1. Head(j.todo) = "tag"
        BY <1>3, <3>2, <3>4, TodoFacts DEF TagsDue
      <4>2. MirrorSound(book[m]) /\ Blank(book[m])
        BY <1>4, <3>4 DEF Inv, SoundInv
      <4>3. Wrote("tag", j.before, j.after, m, book[m], book[m]) = book[m]
        BY <2>1, <4>1
      <4>4. Wrote("tag", j.before, j.after, m, book[m], book[m]).ruled \subseteq Targets(j.after, m, "tag")
        BY <1>1, <1>3, <4>2, WroteTags DEF Phase
      <4>5. book[m].ruled \cap Targets(j.after, m, "tag") \subseteq Targets(rules, m, "tag")
        BY <1>3, <3>4 DEF TagsDue
      <4> QED  BY <4>3, <4>4, <4>5
    <3> QED  BY <1>2, <1>4, <3>1, <3>3, <3>4, OwnStep
  <2>3. CASE Len(j.todo) # 1
    <3>1. Become(w, [j EXCEPT !.todo = Tail(j.todo)])
      BY <1>2, <1>8, <2>3 DEF ReadRows
    <3>2. PICK k : k = [j EXCEPT !.todo = Tail(j.todo)]
      OBVIOUS
    <3>3. /\ k.stage = "read" /\ k.edit = j.edit /\ k.todo = Tail(j.todo)
          /\ k.before = j.before /\ k.after = j.after
      BY <1>3, <3>2 DEF Job
    <3>4. ASSUME NEW m \in Movement, Due(j, m, book[m]) PROVE Due(k, m, book[m])
      BY <1>3, <1>6, <2>1, <3>3, <3>4 DEF Due
    <3>5. TagsDue(j) => TagsDue(k)
      BY <1>3, <3>3 DEF TagsDue
    <3> QED  BY <1>2, <1>4, <3>1, <3>2, <3>3, <3>4, <3>5, OwnStep
  <2> QED  BY <2>2, <2>3
<1> QED  BY <1>7, <1>8

LEMMA WriteKeeps ==
    ASSUME Inv, NEW w \in Worker, Write(w)
    PROVE  Kept'
<1>1. jobs[w] \in Job /\ JobSound(jobs[w]) /\ book \in [Movement -> Row] /\ Good(rules)
  BY DEF Inv, TypeInv, TypeOK, JobsInv, RulesInv
<1>2. PICK j \in Job : j = jobs[w]
  BY <1>1
<1>3. /\ j.stage = "write" /\ Good(j.before) /\ Good(j.after) /\ j.todo \in Todo
      /\ j.rows \in [Movement -> Row] /\ (j.edit = TRUE => j.todo # <<"transfer">>)
  BY <1>1, <1>2 DEF Write, JobSound
<1>4. CASE Missing(j)
  <2>1. Become(w, Idle) /\ UNCHANGED <<rules, book, chosen, waited>>
    BY <1>2, <1>4 DEF Write
  <2>2. torn' = (torn \/ HalfDone(j))
    BY <1>2, <1>4 DEF Write
  <2>3. ~torn' => ~torn /\ ~HalfDone(j)
    BY <2>2
  <2> QED  BY <1>2, <2>1, <2>3, IdleJob, QuietStep
<1>5. CASE ~Missing(j)
  <2>1. /\ Become(w, Finished(j)) /\ UNCHANGED <<rules, waited>>
        /\ chosen' = {m \in chosen : book'[m].side = book[m].side}
    BY <1>2, <1>5 DEF Write
  <2>2. /\ jobs'[w] = Finished(j) /\ jobs'[w].stage # "write"
        /\ \A v \in Worker \ {w} : jobs'[v] = jobs[v]
    BY <2>1, FinishedJob, IdleJob DEF Become, Inv, TypeInv, TypeOK
  <2>3. ~torn' => /\ j.after = rules /\ ~torn
                  /\ \A m \in Movement : WrittenOn(j, m, book[m], book'[m])
    BY <1>2, <1>5, WriteFollows DEF Inv
  <2>4. ~torn' => \A m \in Movement : Follows(rules, m, book[m], book'[m])
    BY <1>2, <1>5, WriteLeaves DEF Inv
  <2>5. \A m \in Movement : m \in chosen \ chosen' => ~Alike(book[m], book'[m])
    BY <2>1 DEF Alike
  <2>6. SoundInv'
    <3>1. SUFFICES ASSUME ~torn'
                   PROVE  /\ \A m \in Movement : MirrorSound(book'[m]) /\ Blank(book'[m])
                          /\ \A m \in Movement \ chosen' :
                                book'[m].paired = FALSE /\ book'[m].side # Split
                          /\ \A v \in Worker : jobs'[v].stage = "write" =>
                              \A m \in Movement : MirrorSound(jobs'[v].rows[m]) /\ Blank(jobs'[v].rows[m])
      BY DEF SoundInv
    <3>2. /\ \A m \in Movement \ chosen : book[m].paired = FALSE /\ book[m].side # Split
          /\ \A v \in Worker : jobs[v].stage = "write" =>
                \A m \in Movement : MirrorSound(jobs[v].rows[m]) /\ Blank(jobs[v].rows[m])
      BY <2>3, <3>1 DEF Inv, SoundInv
    <3>3. \A m \in Movement : MirrorSound(book'[m]) /\ Blank(book'[m])
      BY <2>4, <3>1 DEF Follows
    <3>4. ASSUME NEW m \in Movement \ chosen'
          PROVE  book'[m].paired = FALSE /\ book'[m].side # Split
      <4>1. CASE ~Alike(book[m], book'[m])
        BY <2>4, <3>1, <4>1 DEF Follows
      <4>2. CASE Alike(book[m], book'[m])
        <5>1. m \notin chosen
          BY <2>5, <3>4, <4>2
        <5> QED  BY <3>2, <4>2, <5>1 DEF Alike
      <4> QED  BY <4>1, <4>2
    <3> QED  BY <2>2, <3>2, <3>3, <3>4
  <2>7. ChosenInv'
    BY <2>1, <2>3 DEF Inv, ChosenInv
  <2>8. SidesInv'
    <3>1. SUFFICES ASSUME ~torn', NEW m \in Movement \ chosen'
                   PROVE  Settled(rules, m, book'[m]) \/ \E v \in Worker : Due(jobs'[v], m, book'[m])
      BY <2>1 DEF SidesInv, Settled
    <3>2. PICK c \in Row : c = book[m]
      BY <1>1
    <3>4. PICK d : d = book'[m]
      OBVIOUS
    <3>5. d \in Row
      BY <3>4, WriteTypes DEF Inv, TypeInv, TypeOK
    <3>6. Follows(rules, m, c, d)
      BY <2>4, <3>1, <3>2, <3>4
    <3>7. CASE ~Alike(c, d)
      BY <3>4, <3>6, <3>7 DEF Follows, Explained, Settled
    <3>8. CASE Alike(c, d)
      <4>1. m \notin chosen
        BY <2>5, <3>1, <3>2, <3>4, <3>8
      <4>2. Settled(rules, m, c) \/ \E v \in Worker : Due(jobs[v], m, c)
        BY <2>3, <3>1, <3>2, <4>1 DEF Inv, SidesInv
      <4>3. CASE Settled(rules, m, c)
        BY <3>4, <3>8, <4>3, AlikeExplained DEF Settled
      <4>4. ASSUME NEW v \in Worker \ {w}, Due(jobs[v], m, c)
            PROVE  Due(jobs'[v], m, book'[m])
        <5>1. JobSound(jobs[v])
          BY DEF Inv, TypeInv, JobsInv
        <5>2. Due(jobs[v], m, d)
          BY <3>5, <3>8, <4>4, <5>1, AlikeDue
        <5> QED  BY <2>2, <3>4, <5>2
      <4>5. CASE Due(j, m, c)
        <5>1. PICK x \in Row :
                /\ Follows(rules, m, c, x) /\ Follows(rules, m, x, d)
                /\ d = AppliedTo(m, Tail(j.todo), j.before, j.after, x)
                /\ ~Alike(j.rows[m], Wrote(Head(j.todo), j.before, j.after, m, j.rows[m], j.rows[m]))
                     => ~Alike(c, x)
          BY <2>3, <3>1, <3>2, <3>4 DEF WrittenOn
        <5>2. ~Alike(c, x)
          <6>1. SUFFICES ASSUME Alike(c, x) PROVE FALSE
            OBVIOUS
          <6>2. ~Alike(c, AppliedTo(m, Tail(j.todo), j.before, j.after, c))
            BY <1>3, <4>5, <5>1, <6>1 DEF Due
          <6>3. Alike(AppliedTo(m, Tail(j.todo), j.before, j.after, c), d)
            BY <1>3, <5>1, <6>1, AlikeApplied
          <6> QED  BY <3>8, <6>2, <6>3 DEF Alike
        <5>3. Explained(rules, m, d)
          BY <5>1, <5>2, ChangeExplained
        <5> QED  BY <3>4, <5>3 DEF Explained, Settled
      <4> QED  BY <1>2, <4>2, <4>3, <4>4, <4>5
    <3> QED  BY <3>7, <3>8
  <2>9. TagsInv'
    <3>1. SUFFICES ASSUME ~torn'
                   PROVE  \/ \A m \in Movement : book'[m].ruled \subseteq Targets(rules, m, "tag")
                          \/ \E v \in Worker : TagsDue(jobs[v])'
      BY <2>1 DEF TagsInv
    <3>2. \/ \A m \in Movement : book[m].ruled \subseteq Targets(rules, m, "tag")
          \/ \E v \in Worker : TagsDue(jobs[v])
      BY <2>3, <3>1 DEF Inv, TagsInv
    <3>3. \A m \in Movement : book'[m].ruled \subseteq book[m].ruled \cup Targets(rules, m, "tag")
      BY <1>2, <1>5, <3>1, WriteTags DEF Inv
    <3>4. CASE \A m \in Movement : book[m].ruled \subseteq Targets(rules, m, "tag")
      BY <3>3, <3>4
    <3>5. ASSUME NEW v \in Worker \ {w}, TagsDue(jobs[v])
          PROVE  TagsDue(jobs[v])'
      <4>1. PICK k : k = jobs[v]
        OBVIOUS
      <4>2. TagsDue(k)' => TagsDue(jobs[v])'
        BY <2>2, <4>1 DEF TagsDue
      <4>3. TagsDue(k)
        BY <3>5, <4>1
      <4>4. k.stage \in {"read", "write"} => \A m \in Movement :
              book'[m].ruled \cap Targets(k.after, m, "tag") \subseteq Targets(rules, m, "tag")
        BY <3>3, <4>3 DEF TagsDue
      <4>5. k.stage = "write" => \A m \in Movement :
              book'[m].ruled \subseteq k.rows[m].ruled \cup Targets(rules, m, "tag")
        BY <3>3, <4>3 DEF TagsDue
      <4>6. TagsDue(k)'
        BY <2>1, <4>3, <4>4, <4>5 DEF TagsDue
      <4> QED  BY <4>2, <4>6
    <3>6. CASE TagsDue(j)
      <4>1. "tag" \in Range(j.todo)
        BY <1>3, <3>6, TodoFacts DEF TagsDue
      <4>2. \A m \in Movement : book[m].ruled \subseteq j.rows[m].ruled \cup Targets(rules, m, "tag")
        BY <1>3, <3>6 DEF TagsDue
      <4>3. \A m \in Movement : book'[m].ruled \subseteq Targets(rules, m, "tag")
        BY <1>2, <1>5, <3>1, <4>1, <4>2, WriteTags DEF Inv
      <4> QED  BY <4>3
    <3> QED  BY <1>2, <3>2, <3>4, <3>5, <3>6
  <2> QED  BY <2>6, <2>7, <2>8, <2>9 DEF Kept
<1> QED  BY <1>4, <1>5

\* What the rules R explain and S do not was recorded by a rule of R, or waited for one.
LEMMA Unsettled ==
    ASSUME NEW R, Good(R), NEW S, NEW m \in Movement \ chosen, book[m] \in Row,
           Settled(R, m, book[m]), WaitedFor(R, S) => waited' = TRUE,
           waited = TRUE => waited' = TRUE
    PROVE  \/ CategoryExplained(S, m, book[m]) /\ (waited' = TRUE \/ TransferExplained(S, m, book[m]))
           \/ Covered(R, m, book[m])
<1>1. PICK b \in Row : b = book[m]
  OBVIOUS
<1>2. CASE ~CategoryExplained(S, m, b)
  <2>1. Present(b) /\ b.side \in Category \ {Uncategorized}
    BY <1>2 DEF CategoryExplained
  <2>2. Winner(R, m, "category") = {b.side}
    BY <1>1, <2>1 DEF Settled, CategoryExplained
  <2>3. b.side \in Targets(R, m, "category")
    BY <2>2, WinnerAmong
  <2> QED  BY <1>1, <2>1, <2>3 DEF Covered
<1>3. CASE ~TransferExplained(S, m, b) /\ waited' # TRUE
  <2>1. Present(b) /\ Current(b) # None
    BY <1>3 DEF TransferExplained
  <2>2. TransferExplained(R, m, b)
    BY <1>1, <1>3 DEF Settled
  <2>3. /\ Winner(R, m, "transfer") # {}
        /\ \A x \in Winner(R, m, "transfer") : x = Current(b) \/ ~Recordable(m, b, x)
    BY <2>1, <2>2 DEF TransferExplained
  <2>4. Winner(R, m, "transfer") # Winner(S, m, "transfer")
    BY <1>3, <2>3 DEF TransferExplained
  <2>5. ~Waits(R, m, b)
    BY <1>1, <1>3, <2>4 DEF WaitedFor
  <2>6. \E x \in Winner(R, m, "transfer") : x = Current(b)
    BY <2>1, <2>3, <2>5 DEF Waits
  <2>7. Current(b) \in Targets(R, m, "transfer")
    BY <2>6, WinnerAmong
  <2> QED  BY <1>1, <2>7 DEF Covered
<1> QED  BY <1>1, <1>2, <1>3

LEMMA StoreKeeps ==
    ASSUME Inv, NEW w \in Worker, Store(w)
    PROVE  Kept'
<1>1. jobs[w] \in Job /\ JobSound(jobs[w]) /\ book \in [Movement -> Row] /\ Good(rules)
  BY DEF Inv, TypeInv, TypeOK, JobsInv, RulesInv
<1>2. PICK j \in Job : j = jobs[w]
  BY <1>1
<1>3. j.stage = "store" /\ j.edit = TRUE /\ j.todo = Phases /\ Good(j.before)
  BY <1>1, <1>2 DEF Store, JobSound
<1>4. UNCHANGED <<book, chosen>>
  BY DEF Store
<1>5. CASE rules' = rules /\ Become(w, Idle) /\ UNCHANGED <<torn, waited>>
  <2>1. ~HalfDone(j)
    BY <1>3 DEF HalfDone
  <2> QED  BY <1>2, <1>4, <1>5, <2>1, IdleJob, QuietStep
<1>6. CASE /\ Become(w, [j EXCEPT !.stage = "begin", !.rid = None, !.body = None])
           /\ torn' = (torn \/ StaleRules(j.before))
           /\ waited' = (waited \/ WaitedFor(rules, rules'))
  <2>1. PICK k : k = [j EXCEPT !.stage = "begin", !.rid = None, !.body = None]
    OBVIOUS
  <2>2. k.stage = "begin" /\ k.edit = TRUE /\ k.before = j.before
    BY <1>3, <2>1 DEF Job
  <2>3. jobs'[w] = k /\ \A v \in Worker \ {w} : jobs'[v] = jobs[v]
    BY <1>6, <2>1 DEF Become, Inv, TypeInv, TypeOK
  <2>4. ~torn' => ~torn /\ j.before = rules
    BY <1>6 DEF StaleRules
  <2>5. SoundInv'
    <3>1. SUFFICES ASSUME ~torn'
                   PROVE  /\ \A m \in Movement : MirrorSound(book[m]) /\ Blank(book[m])
                          /\ \A m \in Movement \ chosen : book[m].paired = FALSE /\ book[m].side # Split
                          /\ \A v \in Worker : jobs'[v].stage = "write" =>
                              \A m \in Movement : MirrorSound(jobs'[v].rows[m]) /\ Blank(jobs'[v].rows[m])
      BY <1>4 DEF SoundInv
    <3> QED  BY <2>2, <2>3, <2>4, <3>1 DEF Inv, SoundInv
  <2>6. ChosenInv'
    BY <1>4, <2>4 DEF Inv, ChosenInv
  <2>7. SidesInv'
    <3>1. SUFFICES ASSUME ~torn', NEW m \in Movement \ chosen
                   PROVE  \/ /\ CategoryExplained(rules', m, book[m])
                             /\ waited' = TRUE \/ TransferExplained(rules', m, book[m])
                          \/ \E v \in Worker : Due(jobs'[v], m, book[m])
      BY <1>4 DEF SidesInv, Settled
    <3>2. CASE Settled(rules, m, book[m])
      <4>1. waited = TRUE => waited' = TRUE
        BY <1>6
      <4>2. WaitedFor(rules, rules') => waited' = TRUE
        BY <1>6
      <4>3. \/ /\ CategoryExplained(rules', m, book[m])
               /\ waited' = TRUE \/ TransferExplained(rules', m, book[m])
            \/ Covered(rules, m, book[m])
        BY <1>1, <3>2, <4>1, <4>2, Unsettled
      <4>4. Covered(rules, m, book[m]) => Due(k, m, book[m])
        BY <2>2, <2>4, <3>1 DEF Due
      <4> QED  BY <2>3, <4>3, <4>4
    <3>3. ASSUME NEW v \in Worker, Due(jobs[v], m, book[m])
          PROVE  Due(jobs'[v], m, book[m])
      <4>1. v # w
        BY <1>2, <1>3, <3>3 DEF Due
      <4> QED  BY <2>3, <3>3, <4>1
    <3> QED  BY <2>4, <3>1, <3>2, <3>3 DEF Inv, SidesInv
  <2>8. TagsInv'
    <3>1. TagsDue(k)'
      BY <2>2 DEF TagsDue
    <3>2. TagsDue(jobs[w])'
      BY <2>3, <3>1 DEF TagsDue
    <3> QED  BY <3>2 DEF TagsInv
  <2> QED  BY <2>5, <2>6, <2>7, <2>8 DEF Kept
<1> QED  BY <1>2, <1>5, <1>6 DEF Store

\* A step that changes one movement, and neither the rules nor a job.
LEMMA OneMovement ==
    ASSUME Inv, NEW m \in Movement, NEW b \in Row, Set(m, b),
           UNCHANGED <<rules, jobs, torn, waited>>, chosen' \ {m} = chosen \ {m},
           chosen' \subseteq Movement,
           ~torn => /\ m \in chosen' => b.side \notin {Uncategorized, None}
                    /\ MirrorSound(b) /\ Blank(b) /\ b.ruled \subseteq book[m].ruled
                    /\ m \notin chosen' =>
                        /\ b.paired = FALSE /\ b.side # Split
                        /\ Settled(rules, m, b) \/ (m \notin chosen /\ Alike(book[m], b))
    PROVE  Kept'
<1>1. /\ book \in [Movement -> Row] /\ book' \in [Movement -> Row] /\ book'[m] = b
      /\ \A n \in Movement \ {m} : book'[n] = book[n]
  BY SetRow DEF Inv, TypeInv, TypeOK
<1>2. SoundInv'
  <2>1. SUFFICES ASSUME ~torn
                 PROVE  /\ \A n \in Movement : MirrorSound(book'[n]) /\ Blank(book'[n])
                        /\ \A n \in Movement \ chosen' :
                              book'[n].paired = FALSE /\ book'[n].side # Split
                        /\ \A v \in Worker : jobs[v].stage = "write" =>
                            \A n \in Movement : MirrorSound(jobs[v].rows[n]) /\ Blank(jobs[v].rows[n])
    BY DEF SoundInv
  <2>2. /\ \A n \in Movement : MirrorSound(book[n]) /\ Blank(book[n])
        /\ \A n \in Movement \ chosen : book[n].paired = FALSE /\ book[n].side # Split
        /\ \A v \in Worker : jobs[v].stage = "write" =>
            \A n \in Movement : MirrorSound(jobs[v].rows[n]) /\ Blank(jobs[v].rows[n])
    BY <2>1 DEF Inv, SoundInv
  <2> QED  BY <1>1, <2>1, <2>2
<1>3. ChosenInv'
  BY <1>1 DEF Inv, ChosenInv
<1>4. SidesInv'
  <2>1. SUFFICES ASSUME ~torn, NEW n \in Movement \ chosen'
                 PROVE  Settled(rules, n, book'[n]) \/ \E v \in Worker : Due(jobs[v], n, book'[n])
    BY DEF SidesInv, Settled
  <2>2. CASE n # m
    BY <1>1, <2>1, <2>2 DEF Inv, SidesInv
  <2>3. CASE n = m /\ Settled(rules, m, b)
    BY <1>1, <2>3
  <2>4. CASE n = m /\ m \notin chosen /\ Alike(book[m], b)
    <3>1. CASE Settled(rules, m, book[m])
      BY <1>1, <2>4, <3>1, AlikeExplained DEF Settled
    <3>2. ASSUME NEW v \in Worker, Due(jobs[v], m, book[m])
          PROVE  Due(jobs[v], m, b)
      <4>1. JobSound(jobs[v]) /\ book[m] \in Row
        BY <1>1 DEF Inv, TypeInv, JobsInv
      <4> QED  BY <2>4, <3>2, <4>1, AlikeDue
    <3> QED  BY <1>1, <2>1, <2>4, <3>1, <3>2 DEF Inv, SidesInv
  <2> QED  BY <2>1, <2>2, <2>3, <2>4
<1>5. TagsInv'
  <2>1. SUFFICES ASSUME ~torn
                 PROVE  \/ \A n \in Movement : book'[n].ruled \subseteq Targets(rules, n, "tag")
                        \/ \E v \in Worker : TagsDue(jobs[v])'
    BY DEF TagsInv
  <2>2. \A n \in Movement : book'[n].ruled \subseteq book[n].ruled
    BY <1>1, <2>1
  <2>3. ASSUME NEW v \in Worker, TagsDue(jobs[v])
        PROVE  TagsDue(jobs[v])'
    BY <2>2, <2>3 DEF TagsDue
  <2> QED  BY <2>1, <2>2, <2>3 DEF Inv, TagsInv
<1> QED  BY <1>2, <1>3, <1>4, <1>5 DEF Kept

\* A movement that waits for a category, and is recorded nowhere, is settled.
LEMMA Undecided ==
    ASSUME NEW b \in Row, b.side = Uncategorized, b.mirrors = <<>>, NEW R, NEW m
    PROVE  Settled(R, m, b) /\ b.side # Split
<1>1. Current(b) = None
  BY NamesApart DEF Current, Mirrored, Virtual
<1> QED  BY <1>1, NamesApart DEF Settled, CategoryExplained, TransferExplained

LEMMA ArriveKeeps ==
    ASSUME Inv, NEW m \in Movement, Arrive(m)
    PROVE  Kept'
<1>1. book[m] \in Row /\ chosen \subseteq Movement
  BY DEF Inv, TypeInv, TypeOK
<1>2. Facts[m].status \in {"PDNG", "BOOK"}
  BY FactsAssumption
<1>3. PICK g \in Row : g = Gone(Facts[m].status)
  BY <1>2, GoneRow
<1>4. PICK b \in Row : b = [g EXCEPT !.side = Uncategorized]
  BY NamesApart DEF Row, Side
<1>5. /\ b.side = Uncategorized /\ b.mirrors = <<>> /\ b.paired = FALSE /\ b.ruled = {}
      /\ b.status = Facts[m].status
  BY <1>2, <1>3, <1>4, GoneRow DEF Row
<1>6. MirrorSound(b) /\ Blank(b)
  BY <1>2, <1>5, OneOf DEF MirrorSound, Mirrored, Blank, Present
<1>7. UNCHANGED <<rules, jobs, torn, waited, chosen>> /\ Set(m, b) /\ book[m].status = "absent"
  BY <1>3, <1>4 DEF Arrive, Elsewhere
<1>8. Settled(rules, m, b) /\ b.side # Split
  BY <1>5, Undecided
<1>9. ~torn => m \notin chosen
  BY <1>7 DEF Inv, SoundInv, ChosenInv, Blank, Present
<1>10. CASE torn
  BY <1>10, <1>7 DEF Kept, SoundInv, ChosenInv, SidesInv, TagsInv
<1>11. CASE ~torn
  BY <1>1, <1>5, <1>6, <1>7, <1>8, <1>9, <1>11, OneMovement
<1> QED  BY <1>10, <1>11

LEMMA SettleKeeps ==
    ASSUME Inv, NEW m \in Movement, Settle(m)
    PROVE  Kept'
<1>1. book[m] \in Row /\ chosen \subseteq Movement
  BY DEF Inv, TypeInv, TypeOK
<1>2. PICK c \in Row : c = book[m]
  BY <1>1
<1>3. PICK b \in Row : b = [c EXCEPT !.status = "BOOK", !.side = Uncategorized]
  BY NamesApart DEF Row, Side
<1>4. /\ b.side = Uncategorized /\ b.mirrors = c.mirrors /\ b.paired = c.paired
      /\ b.ruled = c.ruled /\ b.status = "BOOK"
  BY <1>3 DEF Row
<1>5. /\ UNCHANGED <<rules, jobs, torn, waited>> /\ Set(m, b) /\ c.status = "PDNG"
      /\ chosen' = chosen \ {m}
  BY <1>2, <1>3 DEF Settle, Elsewhere
<1>6. ASSUME ~torn
      PROVE  /\ MirrorSound(b) /\ Blank(b) /\ b.paired = FALSE /\ b.side # Split
             /\ Settled(rules, m, b)
  <2>1. MirrorSound(c)
    BY <1>2, <1>6 DEF Inv, SoundInv
  <2>2. c.mirrors = <<>> /\ c.paired = FALSE
    BY <1>5, <2>1, RowFields DEF MirrorSound, Mirrored
  <2>3. Settled(rules, m, b) /\ b.side # Split
    BY <1>4, <2>2, Undecided
  <2> QED  BY <1>4, <2>2, <2>3, OneOf DEF MirrorSound, Mirrored, Blank, Present
<1> QED  BY <1>1, <1>2, <1>4, <1>5, <1>6, OneMovement

\* What a person or the matcher does to one movement, once it is known what it leaves.
LEMMA ByHandKeeps ==
    ASSUME Inv, NEW m \in Movement, NEW kind, ByHand(kind, m), NEW b \in Row, Set(m, b),
           b.status = book[m].status, b.ruled \subseteq book[m].ruled,
           chosen' = chosen \cup {m} \/ chosen' = chosen \ {m},
           ~torn => MirrorSound(b),
           m \in chosen' => b.side \notin {Uncategorized, None},
           ~torn /\ m \notin chosen' => b.side = Uncategorized /\ b.mirrors = <<>> /\ b.paired = FALSE
    PROVE  Kept'
<1>1. chosen \subseteq Movement
  BY DEF Inv, TypeInv, TypeOK
<1>2. chosen' \subseteq Movement /\ chosen' \ {m} = chosen \ {m}
  BY <1>1
<1>3. UNCHANGED <<rules, jobs, torn, waited>> /\ Present(b)
  BY DEF ByHand, Elsewhere, Present
<1>4. Blank(b)
  BY <1>3 DEF Blank
<1>5. ~torn /\ m \notin chosen' => Settled(rules, m, b) /\ b.side # Split
  BY Undecided
<1> QED  BY <1>2, <1>3, <1>4, <1>5, OneMovement

LEMMA ChooseKeeps ==
    ASSUME Inv, NEW m \in Movement, NEW s \in Category \cup {Split}, Choose(m, s)
    PROVE  Kept'
<1>1. PICK c \in Row : c = book[m]
  BY DEF Inv, TypeInv, TypeOK
<1>2. s \in Side /\ s # None
  BY NamesApart DEF Side
<1>3. PICK b \in Row : b = PointAt(c, s)
  BY <1>2, PointRow
<1>4. /\ b.status = c.status /\ b.side = s /\ b.paired = c.paired /\ b.mirrors = c.mirrors
      /\ b.ruled = c.ruled
  BY <1>2, <1>3, PointRow
<1>5. ~torn => c.paired = FALSE /\ c.mirrors = <<>>
  <2>1. SUFFICES ASSUME ~torn PROVE c.paired = FALSE /\ c.mirrors = <<>>
    OBVIOUS
  <2>2. MirrorSound(c) /\ c.side # Clearing
    BY <1>1, <2>1 DEF Inv, SoundInv, Choose, Virtual
  <2> QED  BY <2>2, RowFields DEF MirrorSound, Mirrored
<1>6. ~torn => MirrorSound(b)
  BY <1>4, <1>5, OneOf DEF MirrorSound, Mirrored
<1>7. ByHand("choose", m) /\ Set(m, b)
  BY <1>1, <1>3 DEF Choose
<1>8. \/ s = Uncategorized /\ chosen' = chosen \ {m}
      \/ s # Uncategorized /\ chosen' = chosen \cup {m}
  BY DEF Choose
<1> QED  BY <1>1, <1>2, <1>4, <1>5, <1>6, <1>7, <1>8, ByHandKeeps

LEMMA PassthroughKeeps ==
    ASSUME Inv, NEW m \in Movement, NEW d \in Destination, Passthrough(m, d)
    PROVE  Kept'
<1>1. PICK c \in Row : c = book[m]
  BY DEF Inv, TypeInv, TypeOK
<1>2. d \in Side /\ d # None /\ d # Uncategorized
  BY NamesApart DEF Side
<1>3. PICK b \in Row : b = PointAt(c, d)
  BY <1>2, PointRow
<1>4. /\ b.status = c.status /\ b.side = d /\ b.paired = c.paired /\ b.mirrors = c.mirrors
      /\ b.ruled = c.ruled
  BY <1>2, <1>3, PointRow
<1>5. c.paired = FALSE /\ c.mirrors = <<>>
  BY <1>1, RowFields DEF Passthrough, Linked, Mirrored
<1>6. MirrorSound(b)
  BY <1>4, <1>5, OneOf DEF MirrorSound, Mirrored
<1>7. ByHand("passthrough", m) /\ Set(m, b) /\ chosen' = chosen \cup {m}
  BY <1>1, <1>3 DEF Passthrough
<1> QED  BY <1>1, <1>2, <1>4, <1>6, <1>7, ByHandKeeps

LEMMA SetTagsKeeps ==
    ASSUME Inv, NEW m \in Movement, NEW T \in SUBSET Tag, SetTags(m, T)
    PROVE  Kept'
<1>1. PICK c \in Row : c = book[m]
  BY DEF Inv, TypeInv, TypeOK
<1>2. PICK b \in Row : b = Retagged(c, T)
  BY DEF Retagged, Row
<1>3. Alike(c, b) /\ b.ruled = {}
  BY <1>2 DEF Retagged, Alike, Row
<1>4. /\ UNCHANGED <<rules, jobs, torn, waited, chosen>> /\ Set(m, b) /\ Present(c)
      /\ chosen \subseteq Movement
  BY <1>1, <1>2 DEF SetTags, ByHand, Elsewhere, Inv, TypeInv, TypeOK
<1>5. Blank(b)
  BY <1>3, <1>4, AlikeReads DEF Blank
<1>6. ~torn => /\ MirrorSound(b)
               /\ m \in chosen => b.side \notin {Uncategorized, None}
               /\ m \notin chosen => b.paired = FALSE /\ b.side # Split
  <2>1. SUFFICES ASSUME ~torn
                 PROVE  /\ MirrorSound(b)
                        /\ m \in chosen => b.side \notin {Uncategorized, None}
                        /\ m \notin chosen => b.paired = FALSE /\ b.side # Split
    OBVIOUS
  <2>2. /\ MirrorSound(c)
        /\ m \in chosen => c.side \notin {Uncategorized, None}
        /\ m \notin chosen => c.paired = FALSE /\ c.side # Split
    BY <1>1, <2>1 DEF Inv, SoundInv, ChosenInv
  <2>3. MirrorSound(b)
    BY <1>3, <2>2, AlikeExplained
  <2> QED  BY <1>3, <2>2, <2>3 DEF Alike
<1> QED  BY <1>1, <1>3, <1>4, <1>5, <1>6, OneMovement

LEMMA UnlinkKeeps ==
    ASSUME Inv, NEW m \in Movement, Unlink(m)
    PROVE  Kept'
<1>1. PICK c \in Row : c = book[m]
  BY DEF Inv, TypeInv, TypeOK
<1>2. PICK b \in Row : b = [c EXCEPT !.paired = FALSE, !.side = Uncategorized]
  BY NamesApart DEF Row, Side
<1>3. /\ b.status = c.status /\ b.side = Uncategorized /\ b.paired = FALSE
      /\ b.mirrors = c.mirrors /\ b.ruled = c.ruled
  BY <1>2 DEF Row
<1>4. ByHand("unlink", m) /\ Set(m, b) /\ chosen' = chosen \ {m} /\ c.mirrors = <<>>
  BY <1>1, <1>2 DEF Unlink, Mirrored
<1>5. MirrorSound(b)
  BY <1>3, <1>4, OneOf DEF MirrorSound, Mirrored
<1> QED  BY <1>1, <1>3, <1>4, <1>5, ByHandKeeps

LEMMA PairKeeps ==
    ASSUME Inv, NEW m \in Movement, Pair(m)
    PROVE  Kept'
<1>1. PICK c \in Row : c = book[m]
  BY DEF Inv, TypeInv, TypeOK
<1>2. PICK b \in Row : b = [c EXCEPT !.paired = TRUE, !.side = Clearing]
  BY DEF Row, Side
<1>3. /\ b.status = c.status /\ b.side = Clearing /\ b.paired = TRUE
      /\ b.mirrors = c.mirrors /\ b.ruled = c.ruled
  BY <1>2 DEF Row
<1>4. /\ ByHand("pair", m) /\ Set(m, b) /\ chosen' = chosen \cup {m} /\ c.mirrors = <<>>
      /\ c.status = "BOOK"
  BY <1>1, <1>2 DEF Pair, Linked, Mirrored
<1>5. MirrorSound(b)
  BY <1>3, <1>4, OneOf DEF MirrorSound, Mirrored
<1> QED  BY <1>1, <1>3, <1>4, <1>5, NamesApart, ByHandKeeps

LEMMA DeleteKeeps ==
    ASSUME Inv, NEW m \in Movement, Delete(m)
    PROVE  Kept'
<1>1. PICK c \in Row : c = book[m]
  BY DEF Inv, TypeInv, TypeOK
<1>2. PICK b \in Row : b = Gone("deleted")
  BY GoneRow
<1>3. /\ b.status = "deleted" /\ b.side = None /\ b.paired = FALSE
      /\ b.mirrors = <<>> /\ b.ruled = {} /\ b.personal = {}
  BY <1>2, GoneRow
<1>4. /\ UNCHANGED <<rules, jobs, torn, waited>> /\ Set(m, b) /\ chosen' = chosen \ {m}
      /\ chosen \subseteq Movement
  BY <1>2 DEF Delete, ByHand, Elsewhere, Inv, TypeInv, TypeOK
<1>5. MirrorSound(b) /\ Blank(b) /\ ~Present(b)
  BY <1>3, OneOf DEF MirrorSound, Mirrored, Blank, Present
<1>6. Settled(rules, m, b)
  BY <1>5 DEF Settled, CategoryExplained, TransferExplained
<1> QED  BY <1>1, <1>3, <1>4, <1>5, <1>6, NamesApart, OneMovement

\* Two tables whose rules of an action are of the same texts and conditions.
LEMMA SameDecide ==
    ASSUME NEW R, NEW S, NEW m, NEW action,
           \A r \in RuleId :
             /\ (R[r] # None /\ R[r].action = action) <=> (S[r] # None /\ S[r].action = action)
             /\ R[r] # None /\ R[r].action = action => R[r].pattern = S[r].pattern
    PROVE  /\ Candidates(S, m, action) = Candidates(R, m, action)
           /\ \A r, t \in Candidates(R, m, action) : Narrower(S, r, t) <=> Narrower(R, r, t)
<1>1. Candidates(S, m, action) = Candidates(R, m, action)
  BY DEF Candidates
<1>2. ASSUME NEW r \in Candidates(R, m, action), NEW t \in Candidates(R, m, action)
      PROVE  Narrower(S, r, t) <=> Narrower(R, r, t)
  <2>1. R[r].pattern = S[r].pattern /\ R[t].pattern = S[t].pattern
    BY DEF Candidates
  <2> QED  BY <2>1 DEF Narrower
<1> QED  BY <1>1, <1>2

\* With the same rules of it they decide the same.
LEMMA SameRules ==
    ASSUME NEW R, NEW S, NEW m, NEW action,
           \A r \in RuleId :
             /\ R[r] # None /\ R[r].action = action => S[r] = R[r]
             /\ S[r] # None /\ S[r].action = action => S[r] = R[r]
    PROVE  Winner(S, m, action) = Winner(R, m, action) /\ Targets(S, m, action) = Targets(R, m, action)
<1>0. \A r \in RuleId :
        /\ (R[r] # None /\ R[r].action = action) <=> (S[r] # None /\ S[r].action = action)
        /\ R[r] # None /\ R[r].action = action => R[r].pattern = S[r].pattern
  OBVIOUS
<1>1. /\ Candidates(S, m, action) = Candidates(R, m, action)
      /\ \A r, t \in Candidates(R, m, action) : Narrower(S, r, t) <=> Narrower(R, r, t)
  BY <1>0, SameDecide
<1>2. \A r \in Candidates(R, m, action) : S[r] = R[r]
  BY DEF Candidates
<1>3. Targets(S, m, action) = Targets(R, m, action)
  BY <1>1, <1>2 DEF Targets
<1>4. Winner(S, m, action) = Winner(R, m, action)
  BY <1>1, <1>2 DEF Winner
<1> QED  BY <1>3, <1>4

LEMMA SettledOn ==
    ASSUME NEW R, NEW S, NEW m, NEW b, NEW c, Alike(b, c), Settled(R, m, b),
           Winner(S, m, "category") = Winner(R, m, "category"),
           Winner(S, m, "transfer") = Winner(R, m, "transfer")
    PROVE  Settled(S, m, c)
<1>1. Settled(S, m, b)
  BY DEF Settled, CategoryExplained, TransferExplained
<1> QED  BY <1>1, AlikeExplained DEF Settled

LEMMA DeleteTagKeeps ==
    ASSUME Inv, NEW t \in Tag, DeleteTag(t)
    PROVE  Kept'
<1>1. book \in [Movement -> Row] /\ Good(rules)
  BY DEF Inv, TypeInv, TypeOK, RulesInv
<1>2. UNCHANGED <<jobs, torn, waited, chosen>>
  BY DEF DeleteTag
<1>3. PICK R, S : R = rules /\ S = rules'
  OBVIOUS
<1>4. S = [r \in RuleId |-> IF R[r] # None /\ R[r].action = "tag" /\ R[r].target = t
                            THEN None ELSE R[r]]
  BY <1>3 DEF DeleteTag, RulesWithoutTag
<1>5. ASSUME NEW m \in Movement
      PROVE  /\ Winner(S, m, "category") = Winner(R, m, "category")
             /\ Winner(S, m, "transfer") = Winner(R, m, "transfer")
  <2>1. ASSUME NEW action \in {"category", "transfer"}
        PROVE  Winner(S, m, action) = Winner(R, m, action)
    <3>1. \A r \in RuleId :
            /\ R[r] # None /\ R[r].action = action => S[r] = R[r]
            /\ S[r] # None /\ S[r].action = action => S[r] = R[r]
      BY <1>4
    <3> QED  BY <3>1, SameRules
  <2> QED  BY <2>1
<1>6. \A m \in Movement : Targets(R, m, "tag") \ {t} \subseteq Targets(S, m, "tag")
  BY <1>4 DEF Targets, Candidates
<1>7. ASSUME NEW m \in Movement
      PROVE  /\ book'[m] \in Row /\ Alike(book[m], book'[m])
             /\ book'[m].ruled = book[m].ruled \ {t}
             /\ book'[m].personal = book[m].personal \ {t}
  <2>1. PICK c \in Row : c = book[m]
    BY <1>1
  <2>2. book'[m] = [c EXCEPT !.personal = c.personal \ {t}, !.ruled = c.ruled \ {t}]
    BY <2>1 DEF DeleteTag
  <2>3. book'[m] \in Row
    BY DeleteTagTypes DEF Inv, TypeInv, TypeOK
  <2>4. /\ book'[m].status = c.status /\ book'[m].side = c.side /\ book'[m].paired = c.paired
        /\ book'[m].mirrors = c.mirrors /\ book'[m].ruled = c.ruled \ {t}
        /\ book'[m].personal = c.personal \ {t}
    BY <2>2 DEF Row
  <2> QED  BY <2>1, <2>3, <2>4 DEF Alike
<1>8. SoundInv'
  <2>1. SUFFICES ASSUME ~torn
                 PROVE  /\ \A n \in Movement : MirrorSound(book'[n]) /\ Blank(book'[n])
                        /\ \A n \in Movement \ chosen :
                              book'[n].paired = FALSE /\ book'[n].side # Split
                        /\ \A v \in Worker : jobs[v].stage = "write" =>
                            \A n \in Movement : MirrorSound(jobs[v].rows[n]) /\ Blank(jobs[v].rows[n])
    BY <1>2 DEF SoundInv
  <2>2. /\ \A n \in Movement : MirrorSound(book[n]) /\ Blank(book[n])
        /\ \A n \in Movement \ chosen : book[n].paired = FALSE /\ book[n].side # Split
        /\ \A v \in Worker : jobs[v].stage = "write" =>
            \A n \in Movement : MirrorSound(jobs[v].rows[n]) /\ Blank(jobs[v].rows[n])
    BY <2>1 DEF Inv, SoundInv
  <2>3. ASSUME NEW n \in Movement PROVE MirrorSound(book'[n]) /\ Blank(book'[n])
    <3>1. MirrorSound(book'[n]) /\ (Present(book'[n]) <=> Present(book[n]))
      BY <1>7, <2>2, AlikeExplained
    <3>2. Blank(book'[n])
      BY <1>7, <2>2, <3>1 DEF Blank, Alike
    <3> QED  BY <3>1, <3>2
  <2>4. \A n \in Movement \ chosen : book'[n].paired = FALSE /\ book'[n].side # Split
    BY <1>7, <2>2 DEF Alike
  <2> QED  BY <2>2, <2>3, <2>4
<1>9. ChosenInv'
  <2>1. \A n \in Movement : book'[n].side = book[n].side
    BY <1>7 DEF Alike
  <2>2. chosen \subseteq Movement
    BY DEF Inv, TypeInv, TypeOK
  <2> QED  BY <1>2, <2>1, <2>2 DEF Inv, ChosenInv
<1>10. SidesInv'
  <2>1. SUFFICES ASSUME ~torn, NEW m \in Movement \ chosen
                 PROVE  Settled(S, m, book'[m]) \/ \E v \in Worker : Due(jobs[v], m, book'[m])
    BY <1>2, <1>3 DEF SidesInv, Settled
  <2>2. CASE Settled(R, m, book[m])
    BY <1>5, <1>7, <2>2, SettledOn
  <2>3. ASSUME NEW v \in Worker, Due(jobs[v], m, book[m])
        PROVE  Due(jobs[v], m, book'[m])
    <3>1. JobSound(jobs[v])
      BY DEF Inv, TypeInv, JobsInv
    <3> QED  BY <1>1, <1>7, <2>3, <3>1, AlikeDue
  <2> QED  BY <1>3, <2>1, <2>2, <2>3 DEF Inv, SidesInv
<1>11. TagsInv'
  <2>1. SUFFICES ASSUME ~torn
                 PROVE  \/ \A m \in Movement : book'[m].ruled \subseteq Targets(S, m, "tag")
                        \/ \E v \in Worker : TagsDue(jobs[v])'
    BY <1>2, <1>3 DEF TagsInv
  <2>2. CASE \A m \in Movement : book[m].ruled \subseteq Targets(R, m, "tag")
    BY <1>6, <1>7, <2>2
  <2>3. ASSUME NEW v \in Worker, TagsDue(jobs[v])
        PROVE  TagsDue(jobs[v])'
    <3>1. PICK k : k = jobs[v]
      OBVIOUS
    <3>2. k.stage \in {"read", "write"} => \A m \in Movement :
            book'[m].ruled \cap Targets(k.after, m, "tag") \subseteq Targets(S, m, "tag")
      BY <1>3, <1>6, <1>7, <2>3, <3>1 DEF TagsDue
    <3>3. k.stage = "write" => \A m \in Movement :
            book'[m].ruled \subseteq k.rows[m].ruled \cup Targets(S, m, "tag")
      BY <1>3, <1>6, <1>7, <2>3, <3>1 DEF TagsDue
    <3> QED  BY <1>2, <1>3, <2>3, <3>1, <3>2, <3>3 DEF TagsDue
  <2> QED  BY <1>3, <2>1, <2>2, <2>3 DEF Inv, TagsInv
<1> QED  BY <1>8, <1>9, <1>10, <1>11 DEF Kept

\* A table with one category renamed: the same rules, and theirs is the new name.
RenamedRules(R, S, c, d) ==
    \A r \in RuleId :
        /\ R[r] # None <=> S[r] # None
        /\ R[r] # None => /\ S[r].action = R[r].action /\ S[r].pattern = R[r].pattern
                          /\ R[r].action # "category" => S[r] = R[r]
                          /\ R[r].action = "category" =>
                               S[r].target = IF R[r].target = c THEN d ELSE R[r].target

LEMMA RenameTable ==
    ASSUME NEW R, Good(R), NEW c \in Category, NEW d \in Category, NEW S,
           S = [r \in RuleId |-> IF R[r] # None /\ R[r].action = "category" /\ R[r].target = c
                                 THEN [R[r] EXCEPT !.target = d] ELSE R[r]]
    PROVE  RenamedRules(R, S, c, d)
<1>1. ASSUME NEW r \in RuleId
      PROVE  /\ R[r] # None <=> S[r] # None
             /\ R[r] # None => /\ S[r].action = R[r].action /\ S[r].pattern = R[r].pattern
                               /\ R[r].action # "category" => S[r] = R[r]
                               /\ R[r].action = "category" =>
                                    S[r].target = IF R[r].target = c THEN d ELSE R[r].target
  <2>1. CASE R[r] # None /\ R[r].action = "category" /\ R[r].target = c
    <3>1. PICK b \in Body : b = R[r] /\ Writable(b) /\ b.action = "category" /\ b.target = c
      BY <2>1 DEF Good, RuleTable
    <3>2. PICK e : e = [b EXCEPT !.target = d]
      OBVIOUS
    <3>3. e.action = "category" /\ e.target = d /\ e.pattern = b.pattern
      BY <3>1, <3>2 DEF Body
    <3>4. S[r] = e
      BY <2>1, <3>1, <3>2
    <3>5. e # None
      BY <3>1, <3>2, AbsentAssumption DEF Body
    <3> QED  BY <2>1, <3>1, <3>3, <3>4, <3>5
  <2>2. CASE ~(R[r] # None /\ R[r].action = "category" /\ R[r].target = c)
    <3>1. S[r] = R[r]
      BY <2>2
    <3> QED  BY <2>2, <3>1
  <2> QED  BY <2>1, <2>2
<1> QED  BY <1>1 DEF RenamedRules

\* What decided decides, under the new name.
LEMMA RenamedDecides ==
    ASSUME NEW R, NEW S, NEW c, NEW d, RenamedRules(R, S, c, d), NEW m
    PROVE  /\ Winner(S, m, "transfer") = Winner(R, m, "transfer")
           /\ Targets(S, m, "tag") = Targets(R, m, "tag")
           /\ \A x : Winner(R, m, "category") = {x}
                => Winner(S, m, "category") = {IF x = c THEN d ELSE x}
<1>1. \A r \in RuleId :
        /\ R[r] # None <=> S[r] # None
        /\ R[r] # None => /\ S[r].action = R[r].action /\ S[r].pattern = R[r].pattern
                          /\ R[r].action # "category" => S[r] = R[r]
                          /\ R[r].action = "category" =>
                               S[r].target = IF R[r].target = c THEN d ELSE R[r].target
  BY DEF RenamedRules
<1>2. Winner(S, m, "transfer") = Winner(R, m, "transfer") /\ Targets(S, m, "tag") = Targets(R, m, "tag")
  <2>1. ASSUME NEW action \in {"transfer", "tag"}
        PROVE  Winner(S, m, action) = Winner(R, m, action) /\ Targets(S, m, action) = Targets(R, m, action)
    <3>1. \A r \in RuleId :
            /\ R[r] # None /\ R[r].action = action => S[r] = R[r]
            /\ S[r] # None /\ S[r].action = action => S[r] = R[r]
      BY <1>1
    <3> QED  BY <3>1, SameRules
  <2> QED  BY <2>1
<1>3. ASSUME NEW x, Winner(R, m, "category") = {x}
      PROVE  Winner(S, m, "category") = {IF x = c THEN d ELSE x}
  <2>1. \A r \in RuleId :
          /\ (R[r] # None /\ R[r].action = "category") <=> (S[r] # None /\ S[r].action = "category")
          /\ R[r] # None /\ R[r].action = "category" => R[r].pattern = S[r].pattern
    BY <1>1
  <2>2. /\ Candidates(S, m, "category") = Candidates(R, m, "category")
        /\ \A r, t \in Candidates(R, m, "category") : Narrower(S, r, t) <=> Narrower(R, r, t)
    BY <2>1, SameDecide
  <2>3. PICK D : D = {s \in Candidates(R, m, "category") :
                        \A t \in Candidates(R, m, "category") : t = s \/ Narrower(R, s, t)}
    OBVIOUS
  <2>4. Winner(R, m, "category") = {R[r].target : r \in D}
    BY <2>3 DEF Winner
  <2>5. D = {s \in Candidates(S, m, "category") :
              \A t \in Candidates(S, m, "category") : t = s \/ Narrower(S, s, t)}
    BY <2>2, <2>3
  <2>6. Winner(S, m, "category") = {S[r].target : r \in D}
    BY <2>5 DEF Winner
  <2>7. \A r \in D : S[r].target = IF R[r].target = c THEN d ELSE R[r].target
    BY <1>1, <2>3 DEF Candidates
  <2>8. (\A r \in D : R[r].target = x) /\ D # {}
    BY <1>3, <2>4
  <2>9. PICK y : y = IF x = c THEN d ELSE x
    OBVIOUS
  <2>10. \A r \in D : S[r].target = y
    BY <2>7, <2>8, <2>9
  <2>11. Winner(S, m, "category") = {y}
    BY <2>6, <2>8, <2>10
  <2> QED  BY <2>9, <2>11
<1> QED  BY <1>2, <1>3

LEMMA RenameKeeps ==
    ASSUME Inv, NEW c \in Category, NEW d \in Category, Rename(c, d)
    PROVE  Kept'
<1>1. book \in [Movement -> Row] /\ Good(rules) /\ names \subseteq Category /\ Uncategorized \in names
  BY DEF Inv, TypeInv, TypeOK, RulesInv
<1>2. UNCHANGED <<jobs, waited, chosen>>
  BY DEF Rename
<1>3. d # Uncategorized /\ c # Uncategorized /\ d # None /\ c # None
  BY <1>1, NamesApart DEF Rename
<1>4. PICK R, S : R = rules /\ S = rules'
  OBVIOUS
<1>5. S = [r \in RuleId |-> IF R[r] # None /\ R[r].action = "category" /\ R[r].target = c
                            THEN [R[r] EXCEPT !.target = d] ELSE R[r]]
  BY <1>4 DEF Rename, RulesRenamed
<1>r. RenamedRules(R, S, c, d)
  BY <1>1, <1>4, <1>5, RenameTable
<1>6. ~torn' => ~torn /\ \A w \in Worker : ~HalfDone(jobs[w])
  BY DEF Rename
<1>7. SUFFICES ASSUME ~torn' PROVE Kept'
  BY DEF Kept, SoundInv, ChosenInv, SidesInv, TagsInv
<1>8. ~torn /\ \A w \in Worker : \A m \in Movement : ~Due(jobs[w], m, book[m]) /\ ~TagsDue(jobs[w])
  BY <1>6, <1>7, DueHere, TagsDueHere
<1>9. ASSUME NEW m \in Movement
      PROVE  /\ MirrorSound(book[m]) /\ Blank(book[m])
             /\ m \notin chosen => book[m].paired = FALSE /\ book[m].side # Split
             /\ m \in chosen => book[m].side \notin {Uncategorized, None}
             /\ m \notin chosen => Settled(R, m, book[m])
  BY <1>4, <1>8 DEF Inv, SoundInv, ChosenInv, SidesInv
<1>10. ASSUME NEW m \in Movement
       PROVE  /\ book'[m].status = book[m].status /\ book'[m].paired = book[m].paired
              /\ book'[m].mirrors = book[m].mirrors /\ book'[m].ruled = book[m].ruled
              /\ book'[m].personal = book[m].personal
              /\ book'[m].side = IF book[m].side = c THEN d ELSE book[m].side
  <2>1. d \in Side
    BY DEF Side
  <2>2. book'[m] = IF book[m].side = c THEN PointAt(book[m], d) ELSE book[m]
    BY DEF Rename
  <2> QED  BY <1>1, <2>1, <2>2, PointRow
<1>11. ASSUME NEW m \in Movement
       PROVE  /\ MirrorSound(book'[m]) /\ Blank(book'[m])
              /\ Present(book'[m]) <=> Present(book[m])
              /\ Current(book'[m]) = Current(book[m])
              /\ \A x : Recordable(m, book'[m], x) <=> Recordable(m, book[m], x)
  <2>1. Present(book'[m]) <=> Present(book[m])
    BY <1>10 DEF Present
  <2>2. \A x : Recordable(m, book'[m], x) <=> Recordable(m, book[m], x)
    BY <1>10 DEF Recordable
  <2>3. Mirrored(book'[m]) <=> Mirrored(book[m])
    BY <1>10 DEF Mirrored
  <2>4. book'[m].side = book[m].side
        \/ (book[m].side \in Category /\ book'[m].side \in Category)
    BY <1>10
  <2>5. book'[m].side = Clearing <=> book[m].side = Clearing
    BY <2>4, NamesApart
  <2>6. MirrorSound(book'[m])
    BY <1>9, <1>10, <2>3, <2>5 DEF MirrorSound
  <2>7. Blank(book'[m])
    BY <1>3, <1>9, <1>10, <2>1 DEF Blank
  <2>8. Virtual(book'[m]) <=> Virtual(book[m])
    BY <2>4, NamesApart DEF Virtual
  <2>9. Virtual(book[m]) => book'[m].side = book[m].side
    BY <1>10, NamesApart DEF Virtual
  <2>10. Current(book'[m]) = Current(book[m])
    BY <1>10, <2>3, <2>8, <2>9 DEF Current
  <2> QED  BY <2>1, <2>2, <2>6, <2>7, <2>10
<1>12. SoundInv'
  <2>1. \A v \in Worker : jobs[v].stage = "write" =>
          \A n \in Movement : MirrorSound(jobs[v].rows[n]) /\ Blank(jobs[v].rows[n])
    BY <1>8 DEF Inv, SoundInv
  <2>2. \A n \in Movement \ chosen : book'[n].paired = FALSE /\ book'[n].side # Split
    BY <1>9, <1>10, NamesApart
  <2> QED  BY <1>2, <1>11, <2>1, <2>2 DEF SoundInv
<1>13. ChosenInv'
  <2>1. chosen \subseteq Movement
    BY DEF Inv, TypeInv, TypeOK
  <2> QED  BY <1>2, <1>3, <1>9, <1>10, <2>1 DEF ChosenInv
<1>14. SidesInv'
  <2>1. SUFFICES ASSUME NEW m \in Movement \ chosen PROVE Settled(S, m, book'[m])
    BY <1>2, <1>4 DEF SidesInv, Settled
  <2>2. /\ Winner(S, m, "transfer") = Winner(R, m, "transfer")
        /\ \A x : Winner(R, m, "category") = {x}
             => Winner(S, m, "category") = {IF x = c THEN d ELSE x}
    BY <1>r, RenamedDecides
  <2>3. Settled(R, m, book[m])
    BY <1>9
  <2>4. TransferExplained(R, m, book[m]) => TransferExplained(S, m, book'[m])
    BY <1>11, <2>2 DEF TransferExplained
  <2>5. CategoryExplained(S, m, book'[m])
    <3>1. SUFFICES ASSUME Present(book'[m]), book'[m].side \in Category \ {Uncategorized}
                   PROVE  Winner(S, m, "category") = {book'[m].side}
      BY DEF CategoryExplained
    <3>2. book[m].side \in Category \ {Uncategorized} /\ Present(book[m])
      BY <1>3, <1>10, <1>11, <3>1
    <3>3. Winner(R, m, "category") = {book[m].side}
      BY <2>3, <3>2 DEF Settled, CategoryExplained
    <3> QED  BY <1>10, <2>2, <3>3
  <2> QED  BY <2>3, <2>4, <2>5 DEF Settled
<1>15. TagsInv'
  <2>1. \A m \in Movement : book'[m].ruled \subseteq Targets(S, m, "tag")
    <3>1. ASSUME NEW m \in Movement PROVE Targets(S, m, "tag") = Targets(R, m, "tag")
      BY <1>r, RenamedDecides
    <3>2. Worker = {} \/ \A m \in Movement : book[m].ruled \subseteq Targets(R, m, "tag")
      BY <1>4, <1>8 DEF Inv, TagsInv
    <3>3. \A m \in Movement : book[m].ruled \subseteq Targets(R, m, "tag")
      BY <1>4, <1>8, <3>2 DEF Inv, TagsInv
    <3> QED  BY <1>10, <3>1, <3>3
  <2> QED  BY <1>4, <2>1 DEF TagsInv
<1> QED  BY <1>12, <1>13, <1>14, <1>15 DEF Kept

LEMMA InitKeeps == Init => Kept
<1> SUFFICES ASSUME Init PROVE Kept
  OBVIOUS
<1>1. PICK b \in Row : b = Gone("absent")
  BY GoneRow
<1>2. /\ b.status = "absent" /\ b.side = None /\ b.paired = FALSE
      /\ b.mirrors = <<>> /\ b.ruled = {} /\ b.personal = {}
  BY <1>1, GoneRow
<1>3. MirrorSound(b) /\ Blank(b) /\ ~Present(b)
  BY <1>2, OneOf DEF MirrorSound, Mirrored, Blank, Present
<1>4. \A m \in Movement : book[m] = b
  BY <1>1 DEF Init
<1>5. \A w \in Worker : jobs[w].stage # "write"
  BY IdleJob DEF Init
<1>6. \A m \in Movement : Settled(rules, m, b)
  BY <1>3 DEF Settled, CategoryExplained, TransferExplained
<1>7. SoundInv
  BY <1>2, <1>3, <1>4, <1>5, NamesApart DEF SoundInv
<1>8. ChosenInv
  BY DEF Init, ChosenInv
<1>9. SidesInv
  BY <1>4, <1>6 DEF SidesInv
<1>10. TagsInv
  BY <1>2, <1>4 DEF TagsInv
<1> QED  BY <1>7, <1>8, <1>9, <1>10 DEF Kept

LEMMA StepKeeps ==
    ASSUME Inv, [Next]_vars
    PROVE  Inv'
<1>1. TypeInv'
  BY StepTypes DEF Inv
<1>2. CASE UNCHANGED vars
  BY <1>2 DEF vars, Inv, TypeInv, TypeOK, RulesInv, Good, JobsInv, JobSound, SoundInv, ChosenInv,
     SidesInv, Settled, TagsInv, TagsDue
<1>3. CASE Next
  <2>1. Kept'
    BY <1>3, StepCases, OpenKeeps, PassKeeps, StoreKeeps, BeginKeeps, ReadKeeps, WriteKeeps,
       StopKeeps, ArriveKeeps, SettleKeeps, ChooseKeeps, PassthroughKeeps, SetTagsKeeps,
       UnlinkKeeps, PairKeeps, DeleteKeeps, DeleteTagKeeps, RenameKeeps
  <2> QED  BY <1>1, <2>1 DEF Kept, Inv
<1> QED  BY <1>2, <1>3

LEMMA Always == Spec => []Inv
<1>1. Init => Inv
  BY InitTypes, InitKeeps DEF Inv, Kept
<1>2. Inv /\ [Next]_vars => Inv'
  BY StepKeeps
<1> QED  BY <1>1, <1>2, PTL DEF Spec

-----------------------------------------------------------------------------
(* What the invariant says.                                                *)

LEMMA QuietNow ==
    ASSUME Quiet
    PROVE  \A w \in Worker : ~TagsDue(jobs[w]) /\ \A m, b : ~Due(jobs[w], m, b)
<1>1. \A w \in Worker : ~HalfDone(jobs[w])
  BY IdleJob DEF Quiet, HalfDone
<1> QED  BY <1>1, DueHere, TagsDueHere

\* A movement has one mirror at most, whoever records it and in whatever order: the
\* transfer phase drops what is there before it writes (_apply_transfers, mirror_transfer).
THEOREM MirrorStandsAlone == Spec => []OneMirror
<1>1. Inv => OneMirror
  BY DEF Inv, SoundInv, MirrorSound, OneMirror
<1> QED  BY <1>1, Always, PTL

\* The tags of the rules are those the rules claim, once nobody is applying them
\* (_apply_tags).
THEOREM TagsAreClaimed == Spec => []TagsFollow
<1>1. Inv => TagsFollow
  <2>1. SUFFICES ASSUME Inv, Quiet, ~torn
                 PROVE  \A m \in Movement : book[m].ruled \subseteq Targets(rules, m, "tag")
    BY DEF TagsFollow
  <2> QED  BY <2>1, QuietNow DEF Inv, TagsInv
<1> QED  BY <1>1, Always, PTL

\* The sides nobody chose are those the rules name, once nobody is applying them
\* (apply_rule_changes).
THEOREM SidesAreExplained == Spec => []SidesFollow
<1>1. Inv => SidesFollow
  <2>1. SUFFICES ASSUME Inv, Quiet, ~torn, NEW m \in Movement \ chosen
                 PROVE  /\ CategoryExplained(rules, m, book[m])
                        /\ waited \/ TransferExplained(rules, m, book[m])
    BY DEF SidesFollow
  <2>2. Settled(rules, m, book[m])
    BY <2>1, QuietNow DEF Inv, SidesInv
  <2> QED  BY <2>2 DEF Settled
<1> QED  BY <1>1, Always, PTL

\* A choice the rules know nothing of, at each phase.
LEMMA ChosenWrote ==
    ASSUME NEW p \in Phase, NEW B, Good(B), NEW A, Good(A), NEW m \in Movement,
           NEW c \in Row, MirrorSound(c), c.side \in Category \ {Uncategorized},
           ~Theirs(B, m, c.side), Winner(A, m, "transfer") = {}, Winner(A, m, "delete") = {}
    PROVE  Wrote(p, B, A, m, c, c).side = c.side
<1>1. Current(c) = None
  BY NamesApart DEF MirrorSound, Current, Virtual
<1>2. Deleted(A, m, c, c) = c
  BY DEF Deleted
<1>3. Transferred(B, A, m, c, c) = c
  <2>1. Current(c) \notin Targets(B, m, "transfer")
    BY <1>1, TargetsSound, NamesApart
  <2> QED  BY <2>1 DEF Transferred
<1>4. Categorized(B, A, m, c, c) = c
  BY DEF Categorized, RulesToDecide
<1>5. Tagged(A, m, c, c).side = c.side
  <2>1. TagStep(A, m, c, c, Tagged(A, m, c, c))
    BY TaggedRow
  <2> QED  BY <2>1 DEF TagStep
<1> QED  BY <1>2, <1>3, <1>4, <1>5 DEF Wrote, Phase

LEMMA ChosenApplied ==
    ASSUME NEW todo, NEW B, Good(B), NEW A, Good(A), NEW m \in Movement,
           NEW c \in Row, MirrorSound(c), Blank(c), c.side \in Category \ {Uncategorized},
           ~Theirs(B, m, c.side), Winner(A, m, "transfer") = {}, Winner(A, m, "delete") = {}
    PROVE  AppliedTo(m, todo, B, A, c).side = c.side
<1>1. PICK one \in Row, two \in Row, three \in Row, four \in Row :
        /\ one = Turn("delete", todo, B, A, m, c)
        /\ two = Turn("transfer", todo, B, A, m, one)
        /\ three = Turn("category", todo, B, A, m, two)
        /\ four = Turn("tag", todo, B, A, m, three)
        /\ AppliedTo(m, todo, B, A, c) = four
  BY InTurns
<1>2. MirrorSound(one) /\ Blank(one) /\ one.side = c.side
  <2>1. Follows(A, m, c, one)
    BY <1>1, TurnNow DEF Phase
  <2>2. Wrote("delete", B, A, m, c, c).side = c.side
    BY ChosenWrote DEF Phase
  <2> QED  BY <1>1, <2>1, <2>2 DEF Follows, Turn
<1>3. MirrorSound(two) /\ Blank(two) /\ two.side = c.side
  <2>1. Follows(A, m, one, two)
    BY <1>1, <1>2, TurnNow DEF Phase
  <2>2. Wrote("transfer", B, A, m, one, one).side = one.side
    BY <1>2, ChosenWrote DEF Phase
  <2> QED  BY <1>1, <1>2, <2>1, <2>2 DEF Follows, Turn
<1>4. MirrorSound(three) /\ Blank(three) /\ three.side = c.side
  <2>1. Follows(A, m, two, three)
    BY <1>1, <1>3, TurnNow DEF Phase
  <2>2. Wrote("category", B, A, m, two, two).side = two.side
    BY <1>3, ChosenWrote DEF Phase
  <2> QED  BY <1>1, <1>3, <2>1, <2>2 DEF Follows, Turn
<1>5. four.side = c.side
  <2>2. Wrote("tag", B, A, m, three, three).side = three.side
    BY <1>4, ChosenWrote DEF Phase
  <2> QED  BY <1>1, <1>4, <2>2 DEF Turn
<1> QED  BY <1>1, <1>5

\* Whose job a step is: no one else's changes.
LEMMA WhoseStep ==
    ASSUME TypeInv, Next, NEW w \in Worker, jobs[w].stage = "write", jobs'[w] # jobs[w]
    PROVE  Write(w) \/ Stop(w)
<1>0. jobs \in [Worker -> Job] /\ jobs[w] # Idle /\ jobs[w] # Paired
  BY IdleJob DEF TypeInv, TypeOK
<1>1. \A v, k : Become(v, k) => v = w
  BY <1>0 DEF Become
<1>2. \A v, rid, b : ~OpenSet(v, rid, b)
  BY <1>0, <1>1 DEF OpenSet
<1>3. \A v, rid : ~OpenRemove(v, rid)
  BY <1>0, <1>1 DEF OpenRemove
<1>4. \A v, todo : jobs[v] \in {Idle, Paired} => ~Pass(v, todo)
  BY <1>0, <1>1 DEF Pass
<1>5. \A v : ~Store(v) /\ ~Begin(v) /\ ~ReadRows(v)
  BY <1>1 DEF Store, Begin, ReadRows
<1>6. \A v : Write(v) \/ Stop(v) => v = w
  BY <1>1 DEF Write, Stop
<1>7. jobs' # jobs
  OBVIOUS
<1>8. \A m : ~Arrive(m) /\ ~Settle(m) /\ ~Unlink(m) /\ ~Pair(m) /\ ~Delete(m)
  BY <1>7 DEF Arrive, Settle, Unlink, Pair, Delete, ByHand, Elsewhere
<1>9. \A m, s : ~Choose(m, s) /\ ~Passthrough(m, s) /\ ~SetTags(m, s)
  BY <1>7 DEF Choose, Passthrough, SetTags, ByHand, Elsewhere
<1>10. \A t, d : ~DeleteTag(t) /\ ~Rename(t, d)
  BY <1>7 DEF DeleteTag, Rename
<1> QED  BY <1>2, <1>3, <1>4, <1>5, <1>6, <1>8, <1>9, <1>10, StepCases

\* A person's category outlives every job whose rules would not assign it
\* (_apply_categories).
THEOREM ChoicesStand == Spec => ChoiceStands
<1>1. ASSUME Inv, [Next]_vars, NEW w \in Worker, NEW m \in chosen,
             jobs[w].stage = "write", jobs'[w] # jobs[w], ~torn',
             book[m].side \in Category, ~Theirs(jobs[w].before, m, book[m].side),
             Winner(jobs[w].after, m, "transfer") = {}, Winner(jobs[w].after, m, "delete") = {}
      PROVE  book'[m].side = book[m].side
  <2>1. Write(w) \/ Stop(w)
    BY <1>1, WhoseStep DEF Inv, vars
  <2>2. CASE Stop(w) \/ Missing(jobs[w])
    <3>1. book' = book
      BY <2>1, <2>2 DEF Stop, Write
    <3> QED  BY <3>1
  <2>3. CASE Write(w) /\ ~Missing(jobs[w])
    <3>1. jobs[w] \in Job /\ JobSound(jobs[w]) /\ book \in [Movement -> Row] /\ m \in Movement
      BY <1>1 DEF Inv, TypeInv, TypeOK, JobsInv
    <3>2. PICK j \in Job, c \in Row : j = jobs[w] /\ c = book[m]
      BY <3>1
    <3>3. Good(j.before) /\ Good(j.after) /\ j.todo \in Todo
      BY <1>1, <3>1, <3>2 DEF JobSound
    <3>4. ~torn /\ WrittenOn(j, m, c, book'[m])
      BY <1>1, <2>3, <3>1, <3>2, WriteFollows DEF Inv
    <3>5. MirrorSound(c) /\ Blank(c) /\ c.side # Uncategorized
      BY <1>1, <3>1, <3>2, <3>4 DEF Inv, SoundInv, ChosenInv
    <3>6. PICK x \in Row :
            /\ Follows(j.after, m, c, x)
            /\ book'[m] = AppliedTo(m, Tail(j.todo), j.before, j.after, x)
            /\ x = c \/ x = Wrote(Head(j.todo), j.before, j.after, m, c, c)
      BY <3>4 DEF WrittenOn
    <3>7. Head(j.todo) \in Phase
      BY <3>3, TodoFacts
    <3>8. x.side = c.side
      BY <1>1, <3>1, <3>2, <3>3, <3>5, <3>6, <3>7, ChosenWrote
    <3>9. MirrorSound(x) /\ Blank(x)
      BY <3>6 DEF Follows
    <3>10. AppliedTo(m, Tail(j.todo), j.before, j.after, x).side = x.side
      BY <1>1, <3>1, <3>2, <3>3, <3>5, <3>8, <3>9, ChosenApplied
    <3> QED  BY <3>2, <3>6, <3>8, <3>10
  <2> QED  BY <2>1, <2>2, <2>3
<1>2. Inv /\ [Next]_vars =>
        [\A w \in Worker, m \in chosen :
          (/\ jobs[w].stage = "write" /\ jobs'[w] # jobs[w] /\ ~torn'
           /\ book[m].side \in Category
           /\ ~Theirs(jobs[w].before, m, book[m].side)
           /\ Winner(jobs[w].after, m, "transfer") = {}
           /\ Winner(jobs[w].after, m, "delete") = {})
          => book'[m].side = book[m].side]_vars
  BY <1>1
<1> QED  BY <1>2, Always, PTL DEF Spec, ChoiceStands

\* No job touches the tags a person put on a movement (_apply_tags, add_tag).
THEOREM PersonalTagsKept == Spec => PersonalTagsStand
<1>1. ASSUME Inv, Next, NEW m \in Movement,
             book'[m].personal # book[m].personal, Present(book'[m]), ~torn'
      PROVE  acts' # acts
  <2>0. acts \in Nat
    BY <1>1, BoundsAssumption DEF Inv, TypeInv, TypeOK
  <2>1. \A v, rid, b : ~OpenSet(v, rid, b)
    BY <1>1 DEF OpenSet
  <2>2. \A v, rid : ~OpenRemove(v, rid)
    BY <1>1 DEF OpenRemove
  <2>3. \A v, todo : ~Pass(v, todo)
    BY <1>1 DEF Pass
  <2>4. \A v : ~Store(v) /\ ~Begin(v) /\ ~ReadRows(v)
    BY <1>1 DEF Store, Begin, ReadRows
  <2>5. ASSUME NEW w \in Worker, Write(w) PROVE FALSE
    <3>1. CASE Missing(jobs[w])
      BY <1>1, <2>5, <3>1 DEF Write
    <3>2. CASE ~Missing(jobs[w])
      <4>1. Follows(rules, m, book[m], book'[m])
        BY <1>1, <2>5, <3>2, WriteLeaves DEF Inv
      <4> QED  BY <1>1, <4>1 DEF Follows
    <3> QED  BY <3>1, <3>2
  <2>6. \A v : Stop(v) => acts' # acts
    BY <2>0 DEF Stop
  <2>7. ASSUME NEW n \in Movement, Arrive(n) PROVE FALSE
    <3>1. Facts[n].status \in {"PDNG", "BOOK"}
      BY FactsAssumption
    <3>2. PICK g \in Row : g = Gone(Facts[n].status) /\ g.personal = {}
      BY <3>1, GoneRow
    <3>3. PICK b \in Row : b = [g EXCEPT !.side = Uncategorized]
      BY <3>2, NamesApart DEF Row, Side
    <3>9. b.personal = {}
      BY <3>2, <3>3 DEF Row
    <3>4. Set(n, b) /\ torn' = torn /\ book[n].status = "absent"
      BY <2>7, <3>2, <3>3 DEF Arrive, Elsewhere
    <3>5. book'[n] = b /\ \A k \in Movement \ {n} : book'[k] = book[k]
      BY <1>1, <3>4, SetRow DEF Inv
    <3>6. book[n].personal = {}
      BY <1>1, <3>4 DEF Inv, SoundInv, Blank, Present
    <3> QED  BY <1>1, <3>5, <3>6, <3>9
  <2>8. ASSUME NEW n \in Movement, Settle(n) PROVE FALSE
    <3>1. PICK c \in Row : c = book[n]
      BY <1>1 DEF Inv, TypeInv, TypeOK
    <3>2. PICK b \in Row : b = [c EXCEPT !.status = "BOOK", !.side = Uncategorized]
      BY <3>1, NamesApart DEF Row, Side
    <3>9. b.personal = c.personal
      BY <3>2 DEF Row
    <3>3. Set(n, b)
      BY <2>8, <3>1, <3>2 DEF Settle
    <3>4. book'[n] = b /\ \A k \in Movement \ {n} : book'[k] = book[k]
      BY <1>1, <3>3, SetRow DEF Inv
    <3> QED  BY <1>1, <3>1, <3>4, <3>9
  <2>9. \A n : Unlink(n) \/ Pair(n) \/ Delete(n) => acts' # acts
    BY <2>0 DEF Unlink, Pair, Delete, ByHand
  <2>10. \A n, s : Choose(n, s) \/ Passthrough(n, s) \/ SetTags(n, s) => acts' # acts
    BY <2>0 DEF Choose, Passthrough, SetTags, ByHand
  <2>11. \A t : DeleteTag(t) => acts' # acts
    <3>1. \A t : DeleteTag(t) => acts' = acts + 1
      BY Zenon DEF DeleteTag
    <3> QED  BY <2>0, <3>1
  <2>12. \A c, d : Rename(c, d) => acts' # acts
    BY <2>0 DEF Rename
  <2> QED  BY <1>1, <2>1, <2>2, <2>3, <2>4, <2>5, <2>6, <2>7, <2>8, <2>9, <2>10, <2>11, <2>12,
           StepCases
<1>2. Inv /\ [Next]_vars =>
        [\A m \in Movement :
          book'[m].personal # book[m].personal /\ Present(book'[m]) /\ ~torn' => acts' # acts]_vars
  BY <1>1
<1> QED  BY <1>2, Always, PTL DEF Spec, PersonalTagsStand

-----------------------------------------------------------------------------
(* One pass is enough.                                                     *)

\* The transfer phase, run on `b`, has nothing to record.
Recorded(A, m, b) ==
    Decidable(b) \/ Mirrored(b) =>
        \A x \in Winner(A, m, "transfer") : x = Current(b) \/ ~Recordable(m, b, x)
\* The category phase has nothing to decide.
Decided(A, m, b) ==
    Decidable(b) /\ b.side \in Category /\ RulesToDecide(A, m, b.side) => Wanted(A, m) = b.side

LEMMA TransferRecords ==
    ASSUME NEW B, Good(B), NEW A, Good(A), NEW m \in Movement, NEW c \in Row, MirrorSound(c)
    PROVE  Recorded(A, m, Transferred(B, A, m, c, c))
<1>1. CASE ~(Decidable(c) \/ Mirrored(c))
  BY <1>1 DEF Transferred, Recorded
<1>2. CASE (Decidable(c) \/ Mirrored(c)) /\ Winner(A, m, "transfer") # {}
  <2>1. PICK t \in Destination \cup Hand :
          t = (CHOOSE x \in Winner(A, m, "transfer") : TRUE) /\ Winner(A, m, "transfer") = {t}
    BY <1>2, TransferTarget
  <2>2. Transferred(B, A, m, c, c)
          = IF t # Current(c) /\ Recordable(m, c, t) THEN RecordTo(c, c, t) ELSE c
    BY <1>2, <2>1 DEF Transferred
  <2>3. CASE t # Current(c) /\ Recordable(m, c, t)
    <3>1. Current(RecordTo(c, c, t)) = t
      BY <1>2, <2>3, RecordedIs
    <3> QED  BY <2>1, <2>2, <2>3, <3>1 DEF Recorded
  <2>4. CASE ~(t # Current(c) /\ Recordable(m, c, t))
    BY <2>1, <2>2, <2>4 DEF Recorded
  <2> QED  BY <2>3, <2>4
<1>3. CASE Winner(A, m, "transfer") = {}
  BY <1>3 DEF Recorded
<1> QED  BY <1>1, <1>2, <1>3

LEMMA RecordedStays ==
    ASSUME NEW A, Good(A), NEW m \in Movement, NEW b \in Row, Recorded(A, m, b)
    PROVE  Transferred(A, A, m, b, b) = b
<1>1. CASE ~(Decidable(b) \/ Mirrored(b))
  BY <1>1 DEF Transferred
<1>2. CASE (Decidable(b) \/ Mirrored(b)) /\ Winner(A, m, "transfer") # {}
  BY <1>2, TransferTarget DEF Transferred, Recorded
<1>3. CASE (Decidable(b) \/ Mirrored(b)) /\ Winner(A, m, "transfer") = {}
  <2>1. Targets(A, m, "transfer") = {}
    BY <1>3, WinnerExists DEF Good
  <2> QED  BY <1>3, <2>1 DEF Transferred
<1> QED  BY <1>1, <1>2, <1>3

LEMMA TaggedOnce ==
    ASSUME NEW A, Good(A), NEW m \in Movement, NEW c \in Row, NEW d \in Row,
           d = Tagged(A, m, c, c)
    PROVE  Tagged(A, m, d, d) = d
<1>1. TagStep(A, m, c, c, Tagged(A, m, c, c)) /\ TagStep(A, m, d, d, Tagged(A, m, d, d))
  BY TaggedRow
<1>2. c.personal \cap c.ruled = {} /\ d.personal \cap d.ruled = {}
  BY RowFields
<1>3. /\ d.personal = c.personal /\ d.ruled = Targets(A, m, "tag") \ c.personal
  BY <1>1, <1>2 DEF TagStep
<1>4. PICK e \in Row : e = Tagged(A, m, d, d)
  BY TaggedRow DEF TagStep
<1>5. /\ e.status = d.status /\ e.side = d.side /\ e.paired = d.paired /\ e.mirrors = d.mirrors
      /\ e.personal = d.personal /\ e.ruled = d.ruled
  BY <1>1, <1>2, <1>3, <1>4 DEF TagStep
<1>6. e = d
  BY <1>5 DEF Row
<1> QED  BY <1>4, <1>6

\* What a pass leaves, a pass of the same rules leaves as it is; unless a category that
\* no rule explains was there, and a rule it had not heard of then names.
LEMMA Again ==
    ASSUME NEW B, Good(B), NEW A, Good(A), NEW m \in Movement,
           NEW c \in Row, MirrorSound(c), Blank(c),
           CategoryExplained(A, m, c) \/ ~Alike(c, AppliedTo(m, Phases, B, A, c)),
           NEW p \in Phase
    PROVE  Wrote(p, A, A, m, AppliedTo(m, Phases, B, A, c), AppliedTo(m, Phases, B, A, c))
             = AppliedTo(m, Phases, B, A, c)
<1>1. PICK one \in Row, two \in Row, three \in Row, four \in Row :
        /\ one = Turn("delete", Phases, B, A, m, c)
        /\ two = Turn("transfer", Phases, B, A, m, one)
        /\ three = Turn("category", Phases, B, A, m, two)
        /\ four = Turn("tag", Phases, B, A, m, three)
        /\ AppliedTo(m, Phases, B, A, c) = four
  BY InTurns
<1>2. /\ "delete" \in Range(Phases) /\ "transfer" \in Range(Phases)
      /\ "category" \in Range(Phases) /\ "tag" \in Range(Phases)
  <2>1. Phases \in Todo
    BY DEF Todo
  <2> QED  BY <2>1, TodoOrder DEF Phase
<1>3. /\ one = Wrote("delete", B, A, m, c, c) /\ two = Wrote("transfer", B, A, m, one, one)
      /\ three = Wrote("category", B, A, m, two, two) /\ four = Wrote("tag", B, A, m, three, three)
  BY <1>1, <1>2 DEF Turn
<1>4. SUFFICES Wrote(p, A, A, m, four, four) = four
  BY <1>1
<1>5. CASE ~Present(one)
  <2>1. two = one /\ three = one /\ four = one
    BY <1>3, <1>5 DEF Wrote
  <2> QED  BY <1>5, <2>1 DEF Wrote
<1>6. CASE Present(one)
  <2>1. Follows(A, m, c, one)
    BY <1>1, TurnNow DEF Phase
  <2>2. Present(c)
    BY <1>6, <2>1 DEF Follows
  <2>3. Winner(A, m, "delete") = {} /\ one = c
    <3>1. Gone("deleted").status = "deleted"
      BY GoneRow
    <3> QED  BY <1>3, <1>6, <2>2, <3>1 DEF Wrote, Deleted, Present
  <2>4. two = Transferred(B, A, m, c, c)
    BY <1>3, <1>6, <2>3 DEF Wrote
  <2>5. TransferStep(A, m, c, two) /\ Recorded(A, m, two)
    BY <2>4, TransferNow, TransferRecords
  <2>6. MirrorSound(two) /\ Present(two)
    BY <2>2, <2>5 DEF TransferStep, Present
  <2>7. three = Categorized(B, A, m, two, two)
    BY <1>3, <2>6 DEF Wrote
  <2>8. CategoryStep(A, m, two, three)
    BY <2>6, <2>7, CategoryNow
  <2>9. Present(three)
    BY <2>6, <2>8 DEF CategoryStep, Present
  <2>10. four = Tagged(A, m, three, three)
    BY <1>3, <2>9 DEF Wrote
  <2>11. Alike(three, four)
    <3>1. TagStep(A, m, three, three, Tagged(A, m, three, three))
      BY TaggedRow
    <3> QED  BY <2>10, <3>1 DEF TagStep, Alike
  <2>12. Present(four)
    BY <2>9, <2>11, AlikeReads
  <2>13. Recorded(A, m, three)
    <3>1. SUFFICES ASSUME three # two PROVE Recorded(A, m, three)
      BY <2>5
    <3>2. /\ two.side \in Category /\ three.side \in Category /\ three.status = two.status
          /\ MirrorSound(three)
      BY <2>8, <3>1 DEF CategoryStep
    <3>3. Decidable(two) /\ Current(two) = None /\ Current(three) = None
      BY <2>6, <3>2, NamesApart, RowFields DEF MirrorSound, Current, Virtual, Decidable, Linked
    <3>4. \A x \in Winner(A, m, "transfer") : x # None /\ ~Recordable(m, two, x)
      BY <2>5, <3>3, WinnerAmong, TargetsSound, NamesApart DEF Recorded
    <3>5. \A x : Recordable(m, three, x) <=> Recordable(m, two, x)
      BY <3>2 DEF Recordable
    <3> QED  BY <3>4, <3>5 DEF Recorded
  <2>14. Recorded(A, m, four)
    BY <2>11, <2>13, AlikeReads DEF Recorded
  <2>15. Decided(A, m, three)
    <3>1. CASE three # two
      BY <2>8, <3>1 DEF CategoryStep, Decided
    <3>2. CASE three = two
      <4>1. SUFFICES ASSUME Decidable(two), two.side \in Category, RulesToDecide(A, m, two.side),
                            Wanted(A, m) # two.side
                     PROVE  FALSE
        BY <3>2 DEF Decided
      <4>2. Wanted(A, m) \in Side
        BY WantedSound DEF Side
      <4>3. PointAt(two, Wanted(A, m)) # two
        BY <4>1, <4>2, PointRow
      <4>4. ~RulesToDecide(B, m, two.side)
        BY <2>7, <3>2, <4>1, <4>3 DEF Categorized
      <4>5. two.side # Uncategorized
        BY <4>4 DEF RulesToDecide
      <4>6. two = c
        BY <2>5, <4>1, <4>5, NamesApart DEF TransferStep
      <4>7. CategoryExplained(A, m, c)
        BY <1>1, <2>11, <3>2, <4>6
      <4>8. Winner(A, m, "category") = {two.side}
        BY <2>2, <4>1, <4>5, <4>6, <4>7 DEF CategoryExplained
      <4> QED  BY <4>1, <4>8 DEF Wanted
    <3> QED  BY <3>1, <3>2
  <2>16. Decided(A, m, four)
    BY <2>11, <2>15, AlikeReads DEF Decided, Alike
  <2>17. CASE p = "delete"
    BY <2>3, <2>17 DEF Wrote, Deleted
  <2>18. CASE p = "transfer"
    BY <2>14, <2>18, RecordedStays DEF Wrote
  <2>19. CASE p = "category"
    BY <2>16, <2>19 DEF Wrote, Categorized, Decided
  <2>20. CASE p = "tag"
    BY <2>10, <2>20, TaggedOnce DEF Wrote
  <2> QED  BY <2>17, <2>18, <2>19, <2>20 DEF Phase
<1> QED  BY <1>5, <1>6

LEMMA OnceAndAgain ==
    ASSUME NEW B, Good(B), NEW A, Good(A), NEW m \in Movement,
           NEW c \in Row, MirrorSound(c), Blank(c),
           CategoryExplained(A, m, c) \/ ~Alike(c, AppliedTo(m, Phases, B, A, c))
    PROVE  AppliedTo(m, Phases, A, A, AppliedTo(m, Phases, B, A, c)) = AppliedTo(m, Phases, B, A, c)
<1>1. PICK d \in Row : d = AppliedTo(m, Phases, B, A, c)
  BY AppliedRow
<1>2. \A p \in Phase : Wrote(p, A, A, m, d, d) = d
  BY <1>1, Again
<1>3. \A p \in Phase : Turn(p, Phases, A, A, m, d) = d
  BY <1>2 DEF Turn
<1>4. AppliedTo(m, Phases, A, A, d) = d
  BY <1>3, InTurns DEF Phase
<1> QED  BY <1>1, <1>4

\* The four phases leave, in their order and with nothing between them, what applying
\* the same rules again would leave (apply_rule_changes).
THEOREM OnePass == Spec => []OnePassIsEnough
<1>1. Inv => OnePassIsEnough
  <2>1. SUFFICES ASSUME Inv, ~torn, NEW w \in Worker, jobs[w].stage = "read",
                        Len(jobs[w].todo) = Len(Phases), ~StaleRules(jobs[w].after),
                        \A v \in Worker \ {w} : ~HalfDone(jobs[v]),
                        NEW m \in Movement \ chosen
                 PROVE  AppliedTo(m, Phases, jobs[w].after, jobs[w].after,
                                  AppliedTo(m, Phases, jobs[w].before, jobs[w].after, book[m]))
                          = AppliedTo(m, Phases, jobs[w].before, jobs[w].after, book[m])
    BY DEF OnePassIsEnough
  <2>2. jobs[w] \in Job /\ JobSound(jobs[w]) /\ book[m] \in Row
    BY <2>1 DEF Inv, TypeInv, TypeOK, JobsInv
  <2>3. PICK j \in Job, c \in Row : j = jobs[w] /\ c = book[m]
    BY <2>2
  <2>4. Good(j.before) /\ Good(j.after) /\ j.todo \in Todo /\ j.stage = "read"
    BY <2>1, <2>2, <2>3 DEF JobSound
  <2>5. j.todo = Phases /\ j.after = rules
    BY <2>1, <2>3, <2>4, TodoOrder DEF StaleRules
  <2>6. MirrorSound(c) /\ Blank(c)
    BY <2>1, <2>3 DEF Inv, SoundInv
  <2>7. Settled(rules, m, c) \/ Due(j, m, c)
    <3>1. \A v \in Worker \ {w} : ~Due(jobs[v], m, c)
      BY <2>1, DueHere
    <3> QED  BY <2>1, <2>3, <3>1 DEF Inv, SidesInv
  <2>8. CategoryExplained(j.after, m, c) \/ ~Alike(c, AppliedTo(m, Phases, j.before, j.after, c))
    BY <2>4, <2>5, <2>7 DEF Settled, Due
  <2> QED  BY <2>3, <2>4, <2>6, <2>8, OnceAndAgain
<1> QED  BY <1>1, Always, PTL

=============================================================================
