---------------------------- MODULE SetupProofs ----------------------------
(***************************************************************************)
(* Theorems about connecting and naming accounts (module Setup), for every *)
(* set of accounts, names and threads: the document changes by whole edits *)
(* (module Document), and a bank's account keeps its account of the ledger. *)
(***************************************************************************)
EXTENDS Setup, FiniteSetTheorems, SequenceTheorems, WellFoundedInduction, TLAPS

Doc == [Uid -> D!Entry \cup {None}]

\* No two of the connected accounts have one name.
Apart(d) == \A u, v \in D!Connected(d) : u # v => d[u].name # d[v].name

-----------------------------------------------------------------------------
(* Names.                                                                  *)

\* The operators Document has of the library are the library's.
LEMMA SameOperators ==
    /\ \A S : D!Cardinality(S) = Cardinality(S)
    /\ \A S : D!Min(S) = Min(S)
<1>1. ASSUME NEW S PROVE D!Cardinality(S) = Cardinality(S)
  BY DEF D!Cardinality, Cardinality
<1>2. ASSUME NEW S PROVE D!Min(S) = Min(S)
  BY DEF D!Min, Min
<1>3. QED
  BY <1>1, <1>2

\* A set of numbers from 1 that is not empty has a least one.
LEMMA MinFrom ==
    ASSUME NEW n \in Nat, NEW S \in SUBSET (1..n), S # {}
    PROVE  Min(S) \in S
<1>1. S \subseteq Nat
  OBVIOUS
<1>2. PICK m \in S : \A k \in S : ~(<<k, m>> \in OpToRel(<, Nat))
  BY <1>1, NatLessThanWellFounded, WFMin
<1>3. \A k \in S : ~(k < m)
  BY <1>1, <1>2 DEF OpToRel
<1>4. \E x \in S : \A y \in S : x <= y
  BY <1>1, <1>3
<1>5. QED
  BY <1>4 DEF Min

\* Among as many numbered names as there are taken ones and one more, one is free.
LEMMA NumberedFresh ==
    ASSUME NEW name \in D!Name, NEW taken, IsFiniteSet(taken)
    PROVE  D!Numbered(name, taken) \in D!Name \ taken
<1> DEFINE With(k) == IF k = 1 THEN name ELSE [name EXCEPT !.numbers = Append(@, k)]
           n == Cardinality(taken)
           free == {k \in 1..(n + 1) : With(k) \notin taken}
<1>1. n \in Nat
  BY FS_CardinalityType
<1>2. \A k \in 1..(n + 1) : With(k) \in D!Name
  <2>1. name.numbers \in Seq(Nat)
    BY DEF D!Name
  <2>2. \A k \in 1..(n + 1) : Append(name.numbers, k) \in Seq(Nat)
    BY <1>1, <2>1
  <2>3. \A s \in Seq(Nat) : [name EXCEPT !.numbers = s] \in D!Name
    BY DEF D!Name
  <2>4. QED
    BY <2>2, <2>3
<1>3. \A k, l \in 1..(n + 1) : k # l => With(k) # With(l)
  <2>1. SUFFICES ASSUME NEW k \in 1..(n + 1), NEW l \in 1..(n + 1), k # l
                 PROVE  With(k) # With(l)
    OBVIOUS
  <2>2. name.numbers \in Seq(Nat)
    BY DEF D!Name
  <2>3. \A j \in 1..(n + 1) : /\ Append(name.numbers, j) # name.numbers
                              /\ Append(name.numbers, j)[Len(name.numbers) + 1] = j
    BY <1>1, <2>2
  <2>4. Append(name.numbers, k) # Append(name.numbers, l)
    BY <2>1, <2>3
  <2>5. \A s : [name EXCEPT !.numbers = s].numbers = s
    BY DEF D!Name
  <2>6. \A j \in 1..(n + 1) :
            With(j).numbers = IF j = 1 THEN name.numbers ELSE Append(name.numbers, j)
    BY <2>5
  <2> HIDE DEF With
  <2>7. With(k).numbers # With(l).numbers
    BY <2>1, <2>3, <2>4, <2>6
  <2>8. QED
    BY <2>7
<1> HIDE DEF With
<1>4. free # {}
  <2>1. SUFFICES ASSUME free = {} PROVE FALSE
    OBVIOUS
  <2> DEFINE f == [k \in 1..(n + 1) |-> With(k)]
  <2>2. f \in [1..(n + 1) -> taken] /\ \A k \in 1..(n + 1) : f[k] = With(k)
    BY <2>1
  <2>3. IsFiniteSet(1..(n + 1)) /\ Cardinality(1..(n + 1)) = n + 1
    BY <1>1, FS_Interval
  <2> HIDE DEF f
  <2>4. \E k, l \in 1..(n + 1) : k # l /\ f[k] = f[l]
    BY <1>1, <2>2, <2>3, FS_PigeonHole
  <2>5. QED
    BY <1>3, <2>2, <2>4
<1>5. Min(free) \in free
  <2>1. n + 1 \in Nat /\ free \in SUBSET (1..(n + 1))
    BY <1>1
  <2> HIDE DEF free
  <2>2. QED
    BY <1>4, <2>1, MinFrom
<1>6. D!Numbered(name, taken) = With(Min(free))
  BY SameOperators DEF D!Numbered, With
<1>7. QED
  BY <1>2, <1>5, <1>6

-----------------------------------------------------------------------------
(* The edits of the document.                                              *)

PlainName == {D!Plain(b) : b \in Base}
Edit ==
    [do: {"save"}, uid: Uid, session: Session, name: PlainName]
        \cup [do: {"rename"}, uid: Uid, name: PlainName, start: {"chosen", None}]
        \cup [do: {"remove"}, uid: Uid]

LEMMA PlainNames == PlainName \subseteq D!Name
<1>1. <<>> \in Seq(Nat)
  OBVIOUS
<1>2. \A b \in Base : D!Plain(b) \in D!Name
  BY <1>1 DEF D!Plain, D!Name
<1>3. QED
  BY <1>2 DEF PlainName

LEMMA EditKinds ==
    ASSUME NEW e \in Edit
    PROVE  /\ e.uid \in Uid /\ e.do \in {"save", "rename", "remove"}
           /\ e.do = "save" => e.session \in Session /\ e.name \in PlainName
           /\ e.do = "rename" => e.name \in PlainName /\ e.start \in {"chosen", None}
BY DEF Edit

\* The names taken in a document are finitely many.
LEMMA TakenFinite ==
    ASSUME NEW d \in Doc PROVE IsFiniteSet(D!Taken(d))
<1> DEFINE S == D!Connected(d)
           f == [u \in S |-> d[u].name]
<1>1. IsFiniteSet(S)
  BY UidAssumption, FS_Subset DEF D!Connected
<1>2. f \in Surjection(S, D!Taken(d))
  BY DEF Surjection, D!Taken
<1>3. QED
  BY <1>1, <1>2, FS_Surjection

LEMMA SavedFacts ==
    ASSUME NEW d \in Doc, Apart(d), NEW u \in Uid, NEW s \in Session, NEW n \in PlainName
    PROVE  /\ D!Saved(d, u, s, n) \in Doc /\ Apart(D!Saved(d, u, s, n))
           /\ \A v \in Uid \ {u} : D!Saved(d, u, s, n)[v] = d[v]
           /\ d[u] # None => /\ D!Saved(d, u, s, n)[u].name = d[u].name
                             /\ d[u].start # None => D!Saved(d, u, s, n)[u].start = d[u].start
<1> DEFINE saved == D!Saved(d, u, s, n)
<1>0. /\ \A e \in D!Entry : e # None
      /\ "consent" \in {"consent", "chosen", None}
      /\ \A v \in Uid : v \in D!Connected(d) <=> d[v] # None
      /\ \A v \in Uid : d[v] # None => d[v] \in D!Entry
  BY DeclaredAssumption DEF Doc, D!Connected
<1>1. CASE u \in D!Connected(d)
  <2> DEFINE x == [d[u] EXCEPT !.session = s, !.start = IF @ = None THEN "consent" ELSE @]
  <2>1. x \in D!Entry /\ x.name = d[u].name /\ (d[u].start # None => x.start = d[u].start)
    BY <1>0, <1>1 DEF D!Entry
  <2>2. saved = [d EXCEPT ![u] = x]
    BY <1>1 DEF D!Saved, Doc
  <2>3. QED
    BY <1>0, <1>1, <2>1, <2>2 DEF Doc, Apart, D!Connected
<1>2. CASE u \notin D!Connected(d)
  <2> DEFINE m == D!Numbered(n, D!Taken(d))
             x == [session |-> s, name |-> m, start |-> "consent"]
  <2>1. m \in D!Name \ D!Taken(d)
    BY TakenFinite, NumberedFresh, PlainNames
  <2>2. saved = [d EXCEPT ![u] = x]
    BY <1>2 DEF D!Saved
  <2> HIDE DEF m
  <2>3. x \in D!Entry /\ x.name = m
    BY <2>1 DEF D!Entry
  <2>4. saved \in Doc /\ \A v \in Uid \ {u} : saved[v] = d[v]
    BY <2>2, <2>3 DEF Doc
  <2>5. saved[u].name = m
    BY <2>2, <2>3 DEF Doc
  <2>6. \A v \in D!Connected(d) : d[v].name # m
    BY <2>1 DEF D!Taken
  <2> HIDE DEF saved
  <2>7. Apart(saved)
    <3>1. \A v \in D!Connected(saved) : v = u \/ v \in D!Connected(d)
      BY <1>0, <2>4 DEF D!Connected
    <3>2. \A v \in D!Connected(d) : v # u /\ v \in Uid
      BY <1>2 DEF D!Connected
    <3>3. QED
      BY <2>4, <2>5, <2>6, <3>1, <3>2 DEF Apart
  <2>8. QED
    BY <1>0, <1>2, <2>4, <2>7 DEF saved
<1>3. QED
  BY <1>1, <1>2

LEMMA RenamedFacts ==
    ASSUME NEW d \in Doc, Apart(d), NEW u \in Uid, NEW n \in PlainName,
           NEW start \in {"chosen", None}, D!Renamable(d, u, n)
    PROVE  /\ D!Renamed(d, u, n, start) \in Doc /\ Apart(D!Renamed(d, u, n, start))
           /\ \A v \in Uid \ {u} : D!Renamed(d, u, n, start)[v] = d[v]
<1> DEFINE new == D!Renamed(d, u, n, start)
           x == [d[u] EXCEPT !.name = n, !.start = start]
<1>1. /\ d[u] \in D!Entry /\ n \in D!Name /\ \A e \in D!Entry : e # None
      /\ \A v \in D!Connected(d) \ {u} : d[v].name # n
  BY DeclaredAssumption, PlainNames DEF Doc, D!Renamable, D!Connected
<1>2. x \in D!Entry /\ x.name = n
  BY <1>1 DEF D!Entry
<1>3. new = [d EXCEPT ![u] = x]
  BY DEF D!Renamed, Doc
<1>4. new \in Doc /\ new[u].name = n /\ \A v \in Uid \ {u} : new[v] = d[v]
  BY <1>2, <1>3 DEF Doc
<1> HIDE DEF new
<1>5. Apart(new)
  <2>1. \A v \in D!Connected(new) : v = u \/ v \in D!Connected(d) \ {u}
    BY <1>4 DEF D!Connected
  <2>2. QED
    BY <1>1, <1>4, <2>1 DEF Apart, D!Connected
<1>6. QED
  BY <1>4, <1>5 DEF new

LEMMA RemovedFacts ==
    ASSUME NEW d \in Doc, Apart(d), NEW u \in Uid
    PROVE  /\ D!Removed(d, u) \in Doc /\ Apart(D!Removed(d, u))
           /\ D!Removed(d, u)[u] = None
           /\ \A v \in Uid \ {u} : D!Removed(d, u)[v] = d[v]
BY DEF D!Removed, Doc, Apart, D!Connected

\* An edit keeps the names apart, and is one of Document's or changes nothing.
LEMMA EditedFacts ==
    ASSUME NEW d \in Doc, Apart(d), NEW e \in Edit
    PROVE  /\ D!Edited(d, e) \in Doc /\ Apart(D!Edited(d, e))
           /\ \A v \in Uid \ {e.uid} : D!Edited(d, e)[v] = d[v]
           /\ \/ e.do = "save" /\ D!Edited(d, e) = D!Saved(d, e.uid, e.session, e.name)
              \/ /\ e.do = "rename" /\ D!Renamable(d, e.uid, e.name)
                 /\ D!Edited(d, e) = D!Renamed(d, e.uid, e.name, e.start)
              \/ e.do = "rename" /\ D!Edited(d, e) = d
              \/ e.do = "remove" /\ D!Edited(d, e) = D!Removed(d, e.uid)
<1>1. e.uid \in Uid
  BY EditKinds
<1>2. CASE e.do = "save"
  <2>1. D!Edited(d, e) = D!Saved(d, e.uid, e.session, e.name)
    BY <1>2 DEF D!Edited
  <2>2. e.session \in Session /\ e.name \in PlainName
    BY <1>2, EditKinds
  <2>3. QED
    BY <1>1, <1>2, <2>1, <2>2, SavedFacts
<1>3. CASE e.do = "rename" /\ D!Renamable(d, e.uid, e.name)
  <2>1. D!Edited(d, e) = D!Renamed(d, e.uid, e.name, e.start)
    BY <1>3 DEF D!Edited
  <2>2. e.name \in PlainName /\ e.start \in {"chosen", None}
    BY <1>3, EditKinds
  <2>3. QED
    BY <1>1, <1>3, <2>1, <2>2, RenamedFacts
<1>4. CASE e.do = "rename" /\ ~D!Renamable(d, e.uid, e.name)
  <2>1. D!Edited(d, e) = d
    BY <1>4 DEF D!Edited
  <2>2. QED
    BY <1>4, <2>1
<1>5. CASE e.do = "remove"
  <2>1. D!Edited(d, e) = D!Removed(d, e.uid)
    BY <1>5 DEF D!Edited
  <2>2. QED
    BY <1>1, <1>5, <2>1, RemovedFacts
<1>6. QED
  BY <1>2, <1>3, <1>4, <1>5, EditKinds

-----------------------------------------------------------------------------
(* The jobs, the lock and the ledger.                                      *)

\* What a request does after its edits, and the jobs there are.
EndJob == {Idle} \cup [at: {"forget"}] \cup [at: {"relabel"}, row: Row, name: PlainName]
EditJob == [at: {"edit"}, todo: Seq(Edit) \ {<<>>}, next: EndJob]
ReplaceJob == [at: {"replace"}, todo: Seq(Edit) \ {<<>>}, next: EndJob, copy: Doc]
CredentialJob ==
    [at: {"credentials"}, steps: Seq({"id", "key"}) \ {<<>>}, app: Application]
AnswerJob == [at: {"answer"}, session: Session]
DropJob == [at: {"disconnect"}, name: D!Name, uid: Uid \cup {None}]
ThreadJob == EndJob \cup EditJob \cup ReplaceJob \cup CredentialJob \cup AnswerJob \cup DropJob
SyncJob == {j \in [at: {"sync"}, config: Doc, todo: SUBSET Uid] :
                j.todo \subseteq D!Connected(j.config)}

JobsInv ==
    /\ DOMAIN threads = Actor /\ threads["sync"] \in {Idle} \cup SyncJob
    /\ \A t \in Thread : threads[t] \in ThreadJob

\* Who is about to replace the file holds the lock, and the file is as it was read.
LockInv == \A t \in Actor : threads[t].at = "replace" => lock = t /\ threads[t].copy = file

\* A bank's account has at most one account of the ledger, and a name is of one
\* account of the ledger; the ids have an end.
LedgerInv ==
    /\ accounts \in [Row -> Account \cup {None}]
    /\ \E n \in Nat : \A r \in Used : r <= n
    /\ \A u \in Uid : \A r, s \in Of(u) : r = s
    /\ \A r, s \in Used : accounts[r].name = accounts[s].name => r = s

LoginInv ==
    /\ credentials \in [id: Application \cup {None}, key: Application \cup {None}]
    /\ pending \in Session \cup {None}
    /\ issued \in [started: SUBSET Session, answered: SUBSET Session]
    /\ lock \in Actor \cup {None}
    /\ asked \in 0..MaxRequests /\ stops \in 0..MaxStops

FileInv == file \in Doc /\ Apart(file)

Sound == FileInv /\ JobsInv /\ LockInv /\ LedgerInv /\ LoginInv

LEMMA SoundTyped == Sound => TypeOK
<1>1. SUFFICES ASSUME Sound PROVE TypeOK
  OBVIOUS
<1>2. \A u \in Uid : file[u] = None \/
           /\ file[u].session \in Session /\ file[u].name \in D!Name
           /\ file[u].start \in {"consent", "chosen", None}
  BY <1>1 DEF Sound, FileInv, Doc, D!Entry
<1>3. \A r \in Used : accounts[r].uid \in Uid \cup {None} /\ accounts[r].name \in D!Name
                    /\ accounts[r].type \in {"real", "category"}
  BY <1>1 DEF Sound, LedgerInv, Used, Account
<1>4. QED
  BY <1>1, <1>2, <1>3 DEF Sound, JobsInv, LoginInv, TypeOK

-----------------------------------------------------------------------------
(* Sets of account ids, and how the ledger's accounts change.              *)

\* A set of numbers that is not empty and has an end has a greatest one.
LEMMA MaxBounded ==
    ASSUME NEW S \in SUBSET Nat, S # {}, NEW n \in Nat, \A r \in S : r <= n
    PROVE  Max(S) \in S /\ \A r \in S : r <= Max(S)
<1> DEFINE B == {b \in Nat : \A r \in S : r <= b}
<1>1. n \in B /\ B \subseteq Nat
  OBVIOUS
<1>2. PICK m \in B : \A k \in B : ~(<<k, m>> \in OpToRel(<, Nat))
  BY <1>1, NatLessThanWellFounded, WFMin
<1>3. \A k \in B : ~(k < m)
  BY <1>1, <1>2 DEF OpToRel
<1>4. m \in S
  <2>1. SUFFICES ASSUME m \notin S PROVE FALSE
    OBVIOUS
  <2>2. \A r \in S : r < m
    BY <2>1
  <2>3. PICK r \in S : r < m
    BY <2>2
  <2>4. m - 1 \in Nat /\ \A k \in S : k <= m - 1
    BY <2>2, <2>3
  <2>5. QED
    BY <1>3, <2>4
<1>5. \E x \in S : \A y \in S : x >= y
  BY <1>4
<1>6. Max(S) \in S /\ \A y \in S : Max(S) >= y
  BY <1>5 DEF Max
<1>7. QED
  BY <1>6

\* The accounts in use are finitely many, and so are their names; the next id is free.
LEMMA LedgerFacts ==
    ASSUME LedgerInv
    PROVE  /\ IsFiniteSet(Names) /\ NextRow \notin Used
           /\ Used \subseteq Nat
<1>1. Used \subseteq Nat
  BY RowAssumption DEF Used
<1>2. PICK n \in Nat : \A r \in Used : r <= n
  BY DEF LedgerInv
<1>3. IsFiniteSet(Used)
  BY <1>1, <1>2, FS_BoundedSetOfNaturals
<1>4. IsFiniteSet(Names)
  <2> DEFINE f == [r \in Used |-> accounts[r].name]
  <2>1. f \in Surjection(Used, Names)
    BY DEF Surjection, Names
  <2>2. QED
    BY <1>3, <2>1, FS_Surjection
<1>5. NextRow \notin Used
  <2>1. CASE Used = {}
    BY <2>1
  <2>2. CASE Used # {}
    <3>1. Max(Used) \in Used /\ \A r \in Used : r <= Max(Used)
      BY <1>1, <1>2, <2>2, MaxBounded
    <3>2. NextRow = Max(Used) + 1
      BY <2>2 DEF NextRow
    <3>3. Max(Used) \in Nat
      BY <1>1, <3>1
    <3> DEFINE m == Max(Used)
    <3> HIDE DEF m
    <3>4. m \in Nat /\ NextRow = m + 1 /\ \A r \in Used : r <= m
      BY <3>1, <3>2, <3>3 DEF m
    <3>5. QED
      BY <1>1, <3>4
  <2>3. QED
    BY <2>1, <2>2
<1>6. QED
  BY <1>1, <1>4, <1>5

\* An account of the ledger is put in a row that no other row of its uid or of its
\* name is beside.
LEMMA PutKeeps ==
    ASSUME LedgerInv, NEW r \in Row, NEW a \in Account \cup {None}, PutRow(r, a),
           \A s \in Used \ {r} : a # None => /\ accounts[s].name # a.name
                                             /\ a.uid \in Uid => accounts[s].uid # a.uid
    PROVE  LedgerInv'
<1>1. /\ accounts' \in [Row -> Account \cup {None}] /\ accounts'[r] = a
      /\ \A s \in Row \ {r} : accounts'[s] = accounts[s]
  BY DEF LedgerInv, PutRow
<1>2. PICK n \in Nat : \A s \in Used : s <= n
  BY DEF LedgerInv
<1>3. /\ \A s \in Used' \ {r} : s \in Used /\ accounts'[s] = accounts[s]
      /\ r \in Used' => a # None
      /\ Used' \subseteq Row
  BY <1>1 DEF Used
<1>4. \E k \in Nat : \A s \in Used' : s <= k
  <2>1. r \in Nat /\ \A s \in Used' : s \in Nat
    BY RowAssumption DEF Used
  <2>2. CASE r <= n
    BY <1>2, <1>3, <2>2
  <2>3. CASE n < r
    <3>1. \A s \in Used' : s <= r
      BY <1>2, <1>3, <2>1, <2>3
    <3>2. QED
      BY <2>1, <3>1
  <2>4. QED
    BY <2>1, <2>2, <2>3
<1>5. \A u \in Uid : \A s, q \in Of(u) : s = q
  BY DEF LedgerInv
<1>6. \A s, q \in Used : accounts[s].name = accounts[q].name => s = q
  BY DEF LedgerInv
<1>7. ASSUME NEW u \in Uid, NEW s \in Of(u)', NEW q \in Of(u)' PROVE s = q
  <2>1. s \in Used' /\ q \in Used' /\ accounts'[s].uid = u /\ accounts'[q].uid = u
    BY DEF Of
  <2>2. \A k \in Used \ {r} : a # None /\ a.uid \in Uid => accounts[k].uid # a.uid
    OBVIOUS
  <2>3. QED
    BY <1>1, <1>3, <1>5, <2>1, <2>2 DEF Of
<1>8. \A s, q \in Used' : accounts'[s].name = accounts'[q].name => s = q
  BY <1>1, <1>3, <1>6
<1>9. (\A u \in Uid : \A s, q \in Of(u) : s = q)'
  BY <1>7
<1>10. QED
  BY <1>1, <1>4, <1>8, <1>9 DEF LedgerInv

\* A new name for an account leaves it the uid it has.
LEMMA RelabelledFacts ==
    ASSUME LedgerInv, NEW r \in Used, NEW n \in D!Name
    PROVE  /\ Relabelled(r, n) \in [Row -> Account \cup {None}]
           /\ \A s \in Row : /\ Relabelled(r, n)[s] = None <=> accounts[s] = None
                             /\ s \in Used => Relabelled(r, n)[s].uid = accounts[s].uid
           /\ \/ Relabelled(r, n) = accounts
              \/ /\ \A s \in Used \ {r} : accounts[s].name # n
                 /\ \A s \in Row \ {r} : Relabelled(r, n)[s] = accounts[s]
                 /\ Relabelled(r, n)[r].name = n
<1>1. r \in Row /\ accounts \in [Row -> Account \cup {None}] /\ accounts[r] \in Account
  BY DEF LedgerInv, Used
<1> DEFINE a == [accounts[r] EXCEPT !.name = n]
<1>2. a \in Account /\ a.uid = accounts[r].uid /\ accounts[r] # None /\ a # None /\ a.name = n
  BY <1>1, DeclaredAssumption DEF Account
<1>3. \/ Relabelled(r, n) = accounts
      \/ Called(n) \ {r} = {} /\ Relabelled(r, n) = [accounts EXCEPT ![r] = a]
  BY <1>1 DEF Relabelled
<1> HIDE DEF a
<1>4. CASE Relabelled(r, n) = accounts
  BY <1>1, <1>4
<1>5. CASE Called(n) \ {r} = {} /\ Relabelled(r, n) = [accounts EXCEPT ![r] = a]
  <2>1. \A s \in Used \ {r} : accounts[s].name # n
    BY <1>5 DEF Called
  <2>2. QED
    BY <1>1, <1>2, <1>5, <2>1
<1>6. QED
  BY <1>3, <1>4, <1>5

LEMMA RelabelledKeeps ==
    ASSUME LedgerInv, NEW r \in Used, NEW n \in D!Name, accounts' = Relabelled(r, n)
    PROVE  LedgerInv'
<1>1. /\ accounts' \in [Row -> Account \cup {None}]
      /\ \A s \in Row : /\ accounts'[s] = None <=> accounts[s] = None
                        /\ s \in Used => accounts'[s].uid = accounts[s].uid
      /\ \/ accounts' = accounts
         \/ /\ \A s \in Used \ {r} : accounts[s].name # n
            /\ \A s \in Row \ {r} : accounts'[s] = accounts[s]
            /\ accounts'[r].name = n
  BY RelabelledFacts
<1>2. Used' = Used
  BY <1>1 DEF Used
<1>3. \A u \in Uid : Of(u)' = Of(u)
  BY <1>1, <1>2 DEF Of, Used
<1>4. \A s, q \in Used' : accounts'[s].name = accounts'[q].name => s = q
  BY <1>1, <1>2 DEF LedgerInv, Used
<1>5. QED
  BY <1>1, <1>2, <1>3, <1>4 DEF LedgerInv

\* What ensure_account does keeps each uid's account its own.
LEMMA EnsuredFacts ==
    ASSUME LedgerInv, NEW u \in Uid, NEW n \in D!Name, Ensured(u, n)
    PROVE  /\ LedgerInv'
           /\ \A v \in Uid : \A r \in Of(v) :
                /\ accounts'[r] # None => accounts'[r].uid = v
                /\ \A s \in Row \ {r} : accounts'[s] # None => accounts'[s].uid # v
<1>0. /\ accounts \in [Row -> Account \cup {None}] /\ \A a \in Account : a # None
      /\ \A r \in Used : r \in Row /\ accounts[r] \in Account
      /\ \A v \in Uid : v # None /\ \A r, s \in Of(v) : r = s
  BY DeclaredAssumption, UidAssumption DEF LedgerInv, Used
<1>1. CASE \E r \in Of(u) : accounts' = Relabelled(r, n)
  <2>1. PICK q \in Of(u) : accounts' = Relabelled(q, n)
    BY <1>1
  <2>2. q \in Used
    BY DEF Of
  <2>3. LedgerInv'
    BY <2>1, <2>2, RelabelledKeeps
  <2>4. \A s \in Row : /\ accounts'[s] = None <=> accounts[s] = None
                       /\ s \in Used => accounts'[s].uid = accounts[s].uid
    BY <2>1, <2>2, RelabelledFacts
  <2>5. QED
    BY <1>0, <2>3, <2>4 DEF Of, Used
<1>2. ASSUME Of(u) = {}, NEW r \in Row, NEW a \in Account, a.uid = u, PutRow(r, a),
             r \in Used => accounts[r].uid = None,
             \A s \in Used \ {r} : accounts[s].name # a.name
      PROVE  /\ LedgerInv'
             /\ \A v \in Uid : \A q \in Of(v) :
                  /\ accounts'[q] # None => accounts'[q].uid = v
                  /\ \A s \in Row \ {q} : accounts'[s] # None => accounts'[s].uid # v
  <2>1. LedgerInv'
    <3>1. \A s \in Used : accounts[s].uid # u
      BY <1>2 DEF Of
    <3>2. QED
      BY <1>2, <3>1, PutKeeps
  <2>2. accounts' = [accounts EXCEPT ![r] = a]
    BY <1>2 DEF PutRow
  <2>3. ASSUME NEW v \in Uid, NEW q \in Of(v)
        PROVE  /\ accounts'[q] # None => accounts'[q].uid = v
               /\ \A s \in Row \ {q} : accounts'[s] # None => accounts'[s].uid # v
    <3>1. q \in Used /\ accounts[q].uid = v /\ v # u
      BY <1>2 DEF Of
    <3>2. q # r
      BY <1>0, <1>2, <3>1
    <3>3. \A s \in Row : s # r => accounts'[s] = accounts[s]
      BY <1>0, <2>2
    <3>4. accounts'[r] = a
      BY <1>0, <2>2
    <3>5. ASSUME NEW s \in Row \ {q}, accounts'[s] # None PROVE accounts'[s].uid # v
      <4>1. CASE s = r
        BY <1>2, <3>1, <3>4, <4>1
      <4>2. CASE s # r
        BY <1>0, <3>1, <3>3, <3>5, <4>2 DEF Of, Used
      <4>3. QED
        BY <4>1, <4>2
    <3>6. QED
      BY <1>0, <3>1, <3>2, <3>3, <3>5
  <2>4. QED
    BY <2>1, <2>3
<1>3. CASE Of(u) = {} /\ \E r \in Called(n) : accounts[r].uid = None
  <2>1. PICK r \in Called(n) : PutRow(r, [accounts[r] EXCEPT !.uid = u])
    BY <1>3 DEF Ensured
  <2>2. /\ r \in Used /\ r \in Row /\ accounts[r].name = n /\ accounts[r].uid = None
        /\ \A s \in Used \ {r} : accounts[s].name # n
    BY <1>0, <1>3 DEF Called, LedgerInv
  <2> DEFINE a == [accounts[r] EXCEPT !.uid = u]
  <2>3. a \in Account /\ a.uid = u /\ a.name = n
    BY <1>0, <2>2 DEF Account
  <2>4. PutRow(r, a)
    BY <2>1
  <2> HIDE DEF a
  <2>5. QED
    BY <1>2, <1>3, <2>2, <2>3, <2>4
<1>4. CASE Of(u) = {} /\ ~\E r \in Called(n) : accounts[r].uid = None
  <2> DEFINE m == D!Numbered(n, Names)
             a == [name |-> m, uid |-> u, type |-> "real"]
  <2>1. NextRow \in Row /\ PutRow(NextRow, a)
    BY <1>4 DEF Ensured
  <2>2. m \in D!Name \ Names
    BY LedgerFacts, NumberedFresh
  <2> HIDE DEF m
  <2>3. a \in Account /\ a.uid = u /\ \A s \in Used : accounts[s].name # a.name
    BY <2>2 DEF Account, Names
  <2> HIDE DEF a
  <2>4. NextRow \notin Used
    BY LedgerFacts
  <2>5. QED
    BY <1>2, <1>4, <2>1, <2>3, <2>4
<1>5. QED
  BY <1>1, <1>3, <1>4 DEF Ensured

-----------------------------------------------------------------------------
(* What the threads do.                                                    *)

LEMMA ReadyJobs ==
    /\ Idle \in EndJob /\ [at |-> "forget"] \in EndJob
    /\ \A j \in EndJob : j.at # "replace"
    /\ \A todo \in Seq(Edit), j \in EndJob : /\ Editing(todo, j) \in ThreadJob
                                             /\ Editing(todo, j).at # "replace"
<1>1. Idle \in EndJob /\ [at |-> "forget"] \in EndJob /\ \A j \in EndJob : j.at # "replace"
  BY DEF EndJob, Idle
<1>2. ASSUME NEW todo \in Seq(Edit), NEW j \in EndJob
      PROVE  Editing(todo, j) \in ThreadJob /\ Editing(todo, j).at # "replace"
  <2>1. CASE todo = <<>>
    BY <1>1, <2>1 DEF Editing, ThreadJob
  <2>2. CASE todo # <<>>
    <3>1. [at |-> "edit", todo |-> todo, next |-> j] \in EditJob
      BY <2>2 DEF EditJob
    <3>2. QED
      BY <2>2, <3>1 DEF Editing, ThreadJob
  <2>3. QED
    BY <2>1, <2>2
<1>3. QED
  BY <1>1, <1>2

\* A thread goes on with a job that is not to replace the file, and the file stays.
LEMMA BecomeKeeps ==
    ASSUME FileInv, JobsInv, LockInv, NEW t \in Thread, NEW j \in ThreadJob,
           j.at # "replace", Become(t, j), UNCHANGED <<file, lock>>
    PROVE  FileInv' /\ JobsInv' /\ LockInv'
<1>1. threads' = [threads EXCEPT ![t] = j] /\ DOMAIN threads = Actor /\ t \in Actor
  BY DEF Become, JobsInv, Actor
<1>2. threads'[t] = j /\ DOMAIN threads' = Actor /\ \A a \in Actor \ {t} : threads'[a] = threads[a]
  BY <1>1
<1>3. t # "sync"
  BY ThreadAssumption
<1>4. JobsInv'
  BY <1>2, <1>3 DEF JobsInv, Actor
<1>5. LockInv'
  BY <1>2 DEF LockInv
<1>6. QED
  BY <1>4, <1>5 DEF FileInv

\* The sync does, too.
LEMMA SyncBecomeKeeps ==
    ASSUME FileInv, JobsInv, LockInv, NEW j \in {Idle} \cup SyncJob,
           Become("sync", j), UNCHANGED <<file, lock>>
    PROVE  FileInv' /\ JobsInv' /\ LockInv'
<1>1. threads' = [threads EXCEPT !["sync"] = j] /\ DOMAIN threads = Actor /\ "sync" \in Actor
  BY DEF Become, JobsInv, Actor
<1>2. /\ threads'["sync"] = j /\ DOMAIN threads' = Actor
      /\ \A a \in Actor \ {"sync"} : threads'[a] = threads[a]
  BY <1>1
<1>3. "sync" \notin Thread /\ j.at # "replace"
  BY ThreadAssumption DEF Idle, SyncJob
<1>4. JobsInv'
  BY <1>2, <1>3 DEF JobsInv, Actor
<1>5. LockInv'
  BY <1>2, <1>3 DEF LockInv
<1>6. QED
  BY <1>4, <1>5 DEF FileInv

\* Which job a thread has is told by where it is.
LEMMA JobAt ==
    ASSUME NEW j \in ThreadJob
    PROVE  /\ j.at = "edit" => j \in EditJob
           /\ j.at = "replace" => j \in ReplaceJob
           /\ j.at = "credentials" => j \in CredentialJob
           /\ j.at = "answer" => j \in AnswerJob
           /\ j.at = "disconnect" => j \in DropJob
           /\ j.at = "relabel" => j.row \in Row /\ j.name \in PlainName
BY DEF ThreadJob, EndJob, EditJob, ReplaceJob, CredentialJob, AnswerJob, DropJob, Idle

LEMMA InitSound == Init => Sound
<1>1. SUFFICES ASSUME Init PROVE Sound
  OBVIOUS
<1>2. FileInv
  BY <1>1, DeclaredAssumption DEF Init, D!Init, FileInv, Doc, Apart
<1>3. JobsInv
  BY <1>1, ReadyJobs DEF Init, JobsInv, ThreadJob, Actor
<1>4. LockInv
  BY <1>1 DEF Init, LockInv, Idle
<1>5. LedgerInv
  <2>1. accounts = [r \in Row |-> None] /\ Used = {}
    BY <1>1 DEF Init, Used
  <2>2. QED
    BY <2>1 DEF LedgerInv, Of
<1>6. LoginInv
  BY <1>1, BoundsAssumption DEF Init, LoginInv
<1>7. QED
  BY <1>2, <1>3, <1>4, <1>5, <1>6 DEF Sound

LEMMA ReadKeeps ==
    ASSUME Sound, NEW t \in Thread, Read(t) PROVE Sound'
<1>1. JobsInv /\ FileInv /\ LockInv /\ threads[t] \in ThreadJob
  BY DEF Sound, JobsInv
<1>2. threads[t] \in EditJob /\ lock = None /\ lock' = t
  BY <1>1, JobAt DEF Read, Free
<1> DEFINE j == [at |-> "replace", todo |-> threads[t].todo, next |-> threads[t].next,
                 copy |-> file]
<1>3. j \in ReplaceJob /\ j.copy = file
  BY <1>1, <1>2 DEF EditJob, ReplaceJob, FileInv
<1>4. Become(t, j) /\ UNCHANGED <<file, credentials, accounts, pending, issued, asked, stops>>
  BY DEF Read, login, bounds
<1> HIDE DEF j
<1>5. /\ threads'[t] = j /\ DOMAIN threads' = Actor
      /\ \A a \in Actor \ {t} : threads'[a] = threads[a]
  BY <1>1, <1>4 DEF Become, JobsInv, Actor
<1>6. t # "sync" /\ t \in Actor /\ t # None
  BY ThreadAssumption DEF Actor
<1>7. JobsInv'
  BY <1>1, <1>3, <1>5, <1>6 DEF JobsInv, Actor, ThreadJob
<1>8. \A a \in Actor : threads[a].at # "replace"
  BY <1>1, <1>2, ThreadAssumption DEF LockInv, Actor
<1>9. LockInv'
  BY <1>2, <1>3, <1>4, <1>5, <1>8 DEF LockInv
<1>10. FileInv' /\ LedgerInv'
  BY <1>4 DEF Sound, FileInv, LedgerInv, Used, Of
<1>11. LoginInv'
  BY <1>2, <1>4, <1>6 DEF Sound, LoginInv
<1>12. QED
  BY <1>7, <1>9, <1>10, <1>11 DEF Sound

\* Who replaces the file does it with one edit of the file there is.
LEMMA ReplaceFacts ==
    ASSUME Sound, NEW t \in Thread, Replace(t)
    PROVE  /\ Head(threads[t].todo) \in Edit
           /\ file' = D!Edited(file, Head(threads[t].todo))
           /\ threads[t].at = "replace"
<1>1. threads[t] \in ReplaceJob /\ threads[t].copy = file
  BY JobAt DEF Sound, JobsInv, LockInv, Replace, Actor
<1>2. threads[t].todo \in Seq(Edit) \ {<<>>}
  BY <1>1 DEF ReplaceJob
<1>3. Head(threads[t].todo) \in Edit
  BY <1>2
<1>4. QED
  BY <1>1, <1>3 DEF Replace

LEMMA ReplaceKeeps ==
    ASSUME Sound, NEW t \in Thread, Replace(t) PROVE Sound'
<1>1. JobsInv /\ FileInv /\ LockInv /\ threads[t] \in ThreadJob
  BY DEF Sound, JobsInv
<1>2. FileInv'
  <2>1. file \in Doc /\ Apart(file)
    BY <1>1 DEF FileInv
  <2>2. D!Edited(file, Head(threads[t].todo)) \in Doc
        /\ Apart(D!Edited(file, Head(threads[t].todo)))
    BY <2>1, ReplaceFacts, EditedFacts
  <2>3. QED
    BY <2>2, ReplaceFacts DEF FileInv, Apart
<1>3. threads[t] \in ReplaceJob /\ t \in Actor /\ t # "sync"
  BY <1>1, JobAt, ThreadAssumption DEF Replace, Actor
<1>4. PICK j \in ThreadJob : Become(t, j) /\ j.at # "replace"
  <2>1. Idle \in ThreadJob /\ Idle.at # "replace"
    BY ReadyJobs DEF ThreadJob
  <2>2. threads[t].todo \in Seq(Edit) \ {<<>>} /\ threads[t].next \in EndJob
    BY <1>3 DEF ReplaceJob
  <2>3. Tail(threads[t].todo) \in Seq(Edit)
    BY <2>2
  <2>4. /\ Editing(Tail(threads[t].todo), threads[t].next) \in ThreadJob
        /\ Editing(Tail(threads[t].todo), threads[t].next).at # "replace"
    BY <2>2, <2>3, ReadyJobs
  <2>5. QED
    BY <2>1, <2>4 DEF Replace
<1>5. /\ threads'[t] = j /\ DOMAIN threads' = Actor
      /\ \A a \in Actor \ {t} : threads'[a] = threads[a]
  BY <1>1, <1>4 DEF Become, JobsInv, Actor
<1>6. JobsInv'
  BY <1>1, <1>3, <1>5 DEF JobsInv, Actor
<1>7. LockInv'
  <2>1. lock = t
    BY <1>1, <1>3 DEF LockInv, Replace
  <2>2. \A a \in Actor \ {t} : threads[a].at # "replace"
    BY <1>1, <2>1 DEF LockInv
  <2>3. QED
    BY <1>4, <1>5, <2>2 DEF LockInv
<1>8. LedgerInv' /\ LoginInv'
  BY DEF Replace, login, bounds, Sound, LedgerInv, Used, Of, LoginInv
<1>9. QED
  BY <1>2, <1>6, <1>7, <1>8 DEF Sound

\* Something is left of a sequence of more than one element.
LEMMA TailLeft ==
    ASSUME NEW S, NEW s \in Seq(S), s # <<>>, Len(s) # 1
    PROVE  Tail(s) \in Seq(S) \ {<<>>}
<1>1. Len(s) \in Nat \ {0}
  BY EmptySeq
<1>2. Len(s) > 1
  <2>1. \A n \in Nat \ {0} : n # 1 => n > 1
    OBVIOUS
  <2>2. QED
    BY <1>1, <2>1, Zenon
<1>3. Tail(s) \in Seq(S) /\ Len(Tail(s)) = Len(s) - 1
  BY <1>2
<1>4. Len(<<>>) = 0
  OBVIOUS
<1>5. Len(Tail(s)) # 0
  BY <1>1, <1>2, <1>3
<1>6. QED
  BY <1>3, <1>4, <1>5

LEMMA SaveCredentialKeeps ==
    ASSUME Sound, NEW t \in Thread, SaveCredential(t) PROVE Sound'
<1>1. JobsInv /\ FileInv /\ LockInv /\ threads[t] \in ThreadJob
  BY DEF Sound, JobsInv
<1>2. threads[t] \in CredentialJob
  BY <1>1, JobAt DEF SaveCredential
<1>3. PICK k : k = threads[t]
  OBVIOUS
<1>4. k.steps \in Seq({"id", "key"}) \ {<<>>} /\ k.app \in Application
  BY <1>2, <1>3 DEF CredentialJob
<1>5. PICK j \in ThreadJob : Become(t, j) /\ j.at # "replace"
  <2>1. Idle \in ThreadJob /\ Idle.at # "replace"
    BY ReadyJobs DEF ThreadJob
  <2>2. CASE Len(k.steps) = 1
    BY <1>3, <2>1, <2>2 DEF SaveCredential
  <2>3. CASE Len(k.steps) # 1
    <3>1. Tail(k.steps) \in Seq({"id", "key"}) \ {<<>>}
      BY <1>4, <2>3, TailLeft
    <3>2. [k EXCEPT !.steps = Tail(@)] \in CredentialJob
      BY <1>2, <1>3, <3>1 DEF CredentialJob
    <3>3. [k EXCEPT !.steps = Tail(@)].at # "replace"
      BY <3>2 DEF CredentialJob
    <3>4. QED
      BY <1>3, <2>3, <3>2, <3>3 DEF SaveCredential, ThreadJob
  <2>4. QED
    BY <2>2, <2>3
<1>6. FileInv' /\ JobsInv' /\ LockInv'
  BY <1>1, <1>5, BecomeKeeps DEF SaveCredential
<1>7. LedgerInv'
  BY DEF SaveCredential, Sound, LedgerInv, Used, Of
<1>8. LoginInv'
  <2>1. credentials' = [credentials EXCEPT ![Head(k.steps)] = k.app]
    BY <1>3 DEF SaveCredential
  <2>2. Head(k.steps) \in {"id", "key"}
    BY <1>4
  <2>3. credentials \in [id: Application \cup {None}, key: Application \cup {None}]
    BY DEF Sound, LoginInv
  <2>4. credentials' \in [id: Application \cup {None}, key: Application \cup {None}]
    BY <1>4, <2>1, <2>2, <2>3
  <2>5. QED
    BY <2>4 DEF SaveCredential, login, bounds, Sound, LoginInv
<1>9. QED
  BY <1>6, <1>7, <1>8 DEF Sound

LEMMA AnswerKeeps ==
    ASSUME Sound, NEW t \in Thread, Answer(t) PROVE Sound'
<1>1. JobsInv /\ FileInv /\ LockInv /\ threads[t] \in ThreadJob
  BY DEF Sound, JobsInv
<1>2. threads[t] \in AnswerJob
  BY <1>1, JobAt DEF Answer
<1>3. PICK s : s = threads[t].session
  OBVIOUS
<1>4. s \in Session
  BY <1>2, <1>3 DEF AnswerJob
<1>5. PICK j \in ThreadJob : Become(t, j) /\ j.at # "replace"
  <2>1. Idle \in ThreadJob /\ Idle.at # "replace"
    BY ReadyJobs DEF ThreadJob
  <2>2. CASE s \in issued.answered
    BY <1>3, <2>1, <2>2 DEF Answer
  <2>3. CASE s \notin issued.answered
    <3>1. PICK shared \in Consents, b \in Base :
             Become(t, Editing([i \in DOMAIN shared |-> [do |-> "save", uid |-> shared[i],
                                   session |-> s, name |-> D!Plain(b)]], [at |-> "forget"]))
      BY <1>3, <2>3 DEF Answer
    <3> DEFINE todo == [i \in DOMAIN shared |-> [do |-> "save", uid |-> shared[i],
                                   session |-> s, name |-> D!Plain(b)]]
    <3>2. shared \in Seq(Uid)
      BY ConsentsAssumption
    <3>3. \A u \in Uid : [do |-> "save", uid |-> u, session |-> s, name |-> D!Plain(b)] \in Edit
      BY <1>4 DEF Edit, PlainName
    <3>4. todo \in Seq(Edit)
      <4>1. Len(shared) \in Nat /\ DOMAIN shared = 1..Len(shared)
            /\ \A i \in 1..Len(shared) : shared[i] \in Uid
        BY <3>2
      <4>2. todo \in [1..Len(shared) -> Edit]
        BY <3>3, <4>1
      <4> HIDE DEF todo
      <4>3. QED
        BY <4>1, <4>2, SeqDef
    <3> HIDE DEF todo
    <3>5. QED
      BY <3>1, <3>4, ReadyJobs DEF todo
  <2>4. QED
    BY <2>2, <2>3
<1>6. FileInv' /\ JobsInv' /\ LockInv'
  BY <1>1, <1>5, BecomeKeeps DEF Answer
<1>7. LedgerInv'
  BY DEF Answer, Sound, LedgerInv, Used, Of
<1>8. LoginInv'
  <2>1. issued' = issued \/ issued' = [issued EXCEPT !.answered = @ \cup {s}]
    BY <1>3 DEF Answer, login
  <2>2. issued' \in [started: SUBSET Session, answered: SUBSET Session]
    BY <1>4, <2>1 DEF Sound, LoginInv
  <2>3. QED
    BY <2>2 DEF Answer, login, bounds, Sound, LoginInv
<1>9. QED
  BY <1>6, <1>7, <1>8 DEF Sound

LEMMA ForgetKeeps ==
    ASSUME Sound, NEW t \in Thread, Forget(t) PROVE Sound'
<1>1. FileInv /\ JobsInv /\ LockInv /\ Idle \in ThreadJob /\ Idle.at # "replace"
  BY ReadyJobs DEF Sound, ThreadJob
<1>2. FileInv' /\ JobsInv' /\ LockInv'
  BY <1>1, BecomeKeeps DEF Forget
<1>3. QED
  BY <1>2 DEF Forget, bounds, Sound, LedgerInv, Used, Of, LoginInv

LEMMA RelabelKeeps ==
    ASSUME Sound, NEW t \in Thread, Relabel(t) PROVE Sound'
<1>1. FileInv /\ JobsInv /\ LockInv /\ Idle \in ThreadJob /\ Idle.at # "replace"
  BY ReadyJobs DEF Sound, ThreadJob
<1>2. FileInv' /\ JobsInv' /\ LockInv'
  BY <1>1, BecomeKeeps DEF Relabel
<1>3. threads[t].name \in D!Name
  BY JobAt, PlainNames DEF Sound, JobsInv, Relabel
<1>4. LedgerInv'
  <2>1. CASE threads[t].row \in Used
    BY <1>3, <2>1, RelabelledKeeps DEF Sound, Relabel
  <2>2. CASE threads[t].row \notin Used
    BY <2>2 DEF Sound, Relabel, LedgerInv, Used, Of
  <2>3. QED
    BY <2>1, <2>2
<1>5. QED
  BY <1>2, <1>4 DEF Relabel, login, bounds, Sound, LoginInv

LEMMA DisconnectKeeps ==
    ASSUME Sound, NEW t \in Thread, Disconnect(t) PROVE Sound'
<1>1. FileInv /\ JobsInv /\ LockInv
  BY DEF Sound
<1> DEFINE drop == EntriesToDrop(threads[t].name, threads[t].uid)
<1>2. PICK order \in [1..Cardinality(drop) -> drop] :
          Become(t, Editing([i \in DOMAIN order |-> [do |-> "remove", uid |-> order[i]]], Idle))
  BY DEF Disconnect
<1>3. drop \subseteq Uid /\ Cardinality(drop) \in Nat
  <2>1. drop \subseteq Uid
    BY DEF EntriesToDrop, D!Connected
  <2> HIDE DEF drop
  <2>2. QED
    BY <2>1, UidAssumption, FS_Subset, FS_CardinalityType
<1> DEFINE todo == [i \in DOMAIN order |-> [do |-> "remove", uid |-> order[i]]]
<1> HIDE DEF drop
<1>4. todo \in Seq(Edit)
  <2>1. \A u \in Uid : [do |-> "remove", uid |-> u] \in Edit
    BY DEF Edit
  <2>2. todo \in [1..Cardinality(drop) -> Edit]
    BY <1>2, <1>3, <2>1
  <2> HIDE DEF todo
  <2>3. QED
    BY <1>3, <2>2, SeqDef
<1>5. Become(t, Editing(todo, Idle))
  BY <1>2
<1> HIDE DEF todo
<1>6. FileInv' /\ JobsInv' /\ LockInv'
  BY <1>1, <1>4, <1>5, ReadyJobs, BecomeKeeps DEF Disconnect
<1>7. QED
  BY <1>6 DEF Disconnect, login, bounds, Sound, LedgerInv, Used, Of, LoginInv

LEMMA AskedTyped ==
    ASSUME Sound, NEW t \in Thread, NEW kind, Ask(kind, t)
    PROVE  asked' \in 0..MaxRequests /\ stops' \in 0..MaxStops
BY BoundsAssumption DEF Sound, LoginInv, Ask

LEMMA PersonKeeps ==
    ASSUME Sound, NEW t \in Thread, Person(t) PROVE Sound'
<1>1. FileInv /\ JobsInv /\ LockInv /\ LedgerInv
  BY DEF Sound
<1>2. ASSUME NEW a \in Application, AskCredentials(t, a) PROVE Sound'
  <2>1. PICK steps \in {CredentialSteps, <<"id">>} :
            Become(t, [at |-> "credentials", steps |-> steps, app |-> a])
    BY <1>2 DEF AskCredentials
  <2>2. steps \in Seq({"id", "key"}) \ {<<>>}
    <3>1. <<"id">> \in Seq({"id", "key"}) /\ <<"id">> # <<>>
      OBVIOUS
    <3>2. <<"id", "key">> \in Seq({"id", "key"}) /\ <<"id", "key">> # <<>>
      OBVIOUS
    <3>3. QED
      BY <3>1, <3>2 DEF CredentialSteps
  <2> DEFINE j == [at |-> "credentials", steps |-> steps, app |-> a]
  <2>3. j \in ThreadJob /\ j.at # "replace"
    BY <2>2 DEF ThreadJob, CredentialJob
  <2>4. Become(t, j)
    BY <2>1
  <2> HIDE DEF j
  <2>5. FileInv' /\ JobsInv' /\ LockInv'
    BY <1>1, <1>2, <2>3, <2>4, BecomeKeeps DEF AskCredentials
  <2>6. asked' \in 0..MaxRequests /\ stops' \in 0..MaxStops
    BY <1>2, AskedTyped DEF AskCredentials
  <2>7. QED
    BY <1>2, <2>5, <2>6 DEF AskCredentials, login, Sound, LedgerInv, Used, Of, LoginInv
<1>3. ASSUME NEW s \in Session, Connect(t, s) PROVE Sound'
  <2>1. FileInv' /\ JobsInv' /\ LockInv' /\ LedgerInv'
    BY <1>1, <1>3 DEF Connect, FileInv, JobsInv, LockInv, LedgerInv, Used, Of
  <2>2. asked' \in 0..MaxRequests /\ stops' \in 0..MaxStops
    BY <1>3, AskedTyped DEF Connect
  <2>3. pending' \in Session \cup {None}
        /\ issued' \in [started: SUBSET Session, answered: SUBSET Session]
    BY <1>3 DEF Connect, Sound, LoginInv
  <2>4. QED
    BY <1>3, <2>1, <2>2, <2>3 DEF Connect, Sound, LoginInv
<1>4. ASSUME NEW s \in Session, Callback(t, s) PROVE Sound'
  <2> DEFINE j == [at |-> "answer", session |-> s]
  <2>1. j \in ThreadJob /\ j.at # "replace"
    BY DEF ThreadJob, AnswerJob
  <2>2. Become(t, j)
    BY <1>4 DEF Callback
  <2> HIDE DEF j
  <2>3. FileInv' /\ JobsInv' /\ LockInv'
    BY <1>1, <1>4, <2>1, <2>2, BecomeKeeps DEF Callback
  <2>4. QED
    BY <1>4, <2>3 DEF Callback, login, bounds, Sound, LedgerInv, Used, Of, LoginInv
<1>5. ASSUME NEW u \in Uid, NEW b \in Base, NEW start \in {"chosen", None},
             Rename(t, u, b, start)
      PROVE  Sound'
  <2> DEFINE e == [do |-> "rename", uid |-> u, name |-> D!Plain(b), start |-> start]
             next == IF Of(u) = {} THEN Idle
                     ELSE [at |-> "relabel", row |-> Max(Of(u)), name |-> D!Plain(b)]
  <2>1. <<e>> \in Seq(Edit)
    <3>1. e \in Edit
      BY DEF Edit, PlainName
    <3> HIDE DEF e
    <3>2. QED
      BY <3>1
  <2>2. next \in EndJob
    <3>1. CASE Of(u) = {}
      BY <3>1, ReadyJobs
    <3>2. CASE Of(u) # {}
      <4>1. PICK r \in Of(u) : Of(u) = {r}
        BY <1>1, <3>2 DEF LedgerInv
      <4>2. r \in Row /\ r \in Nat
        BY RowAssumption DEF Of, Used
      <4>3. Max({r}) = r
        BY <4>2 DEF Max
      <4>4. D!Plain(b) \in PlainName /\ Max(Of(u)) = r
        BY <4>1, <4>3 DEF PlainName
      <4>5. QED
        BY <3>2, <4>2, <4>4 DEF EndJob
    <3>3. QED
      BY <3>1, <3>2
  <2>3. Become(t, Editing(<<e>>, next))
    BY <1>5 DEF Rename
  <2> HIDE DEF e, next
  <2>4. FileInv' /\ JobsInv' /\ LockInv'
    BY <1>1, <1>5, <2>1, <2>2, <2>3, ReadyJobs, BecomeKeeps DEF Rename
  <2>5. asked' \in 0..MaxRequests /\ stops' \in 0..MaxStops
    BY <1>5, AskedTyped DEF Rename
  <2>6. QED
    BY <1>5, <2>4, <2>5 DEF Rename, login, Sound, LedgerInv, Used, Of, LoginInv
<1>6. ASSUME NEW u \in Uid, Remove(t, u) PROVE Sound'
  <2> DEFINE e == [do |-> "remove", uid |-> u]
  <2>1. e \in Edit /\ Become(t, Editing(<<e>>, Idle))
    BY <1>6 DEF Edit, Remove
  <2> HIDE DEF e
  <2>2. <<e>> \in Seq(Edit)
    BY <2>1
  <2>3. FileInv' /\ JobsInv' /\ LockInv'
    BY <1>1, <1>6, <2>1, <2>2, ReadyJobs, BecomeKeeps DEF Remove
  <2>4. asked' \in 0..MaxRequests /\ stops' \in 0..MaxStops
    BY <1>6, AskedTyped DEF Remove
  <2>5. QED
    BY <1>6, <2>3, <2>4 DEF Remove, login, Sound, LedgerInv, Used, Of, LoginInv
<1>7. ASSUME NEW b \in Base, AddByHand(t, b) PROVE Sound'
  <2>1. FileInv' /\ JobsInv' /\ LockInv'
    BY <1>1, <1>7 DEF AddByHand, FileInv, JobsInv, LockInv
  <2> DEFINE a == [name |-> D!Plain(b), uid |-> None, type |-> "real"]
  <2>2. /\ a \in Account /\ a.uid \notin Uid
        /\ NextRow \in Row /\ PutRow(NextRow, a)
        /\ \A s \in Used : accounts[s].name # a.name
    BY <1>7, PlainNames, UidAssumption DEF AddByHand, Account, PlainName, Called
  <2> HIDE DEF a
  <2>3. LedgerInv'
    BY <1>1, <2>2, PutKeeps
  <2>4. asked' \in 0..MaxRequests /\ stops' \in 0..MaxStops
    BY <1>7, AskedTyped DEF AddByHand
  <2>5. QED
    BY <1>7, <2>1, <2>3, <2>4 DEF AddByHand, login, Sound, LoginInv
<1>8. ASSUME NEW r \in Row, Delete(t, r) PROVE Sound'
  <2> DEFINE j == [at |-> "disconnect", name |-> accounts[r].name, uid |-> accounts[r].uid]
  <2>1. accounts[r] \in Account
    BY <1>1, <1>8 DEF Delete, LedgerInv, Used
  <2>2. j \in ThreadJob /\ j.at # "replace"
    BY <2>1 DEF ThreadJob, DropJob, Account
  <2>3. Become(t, j)
    BY <1>8 DEF Delete
  <2> HIDE DEF j
  <2>4. FileInv' /\ JobsInv' /\ LockInv'
    BY <1>1, <1>8, <2>2, <2>3, BecomeKeeps DEF Delete
  <2>5. LedgerInv'
    BY <1>1, <1>8, PutKeeps DEF Delete
  <2>6. asked' \in 0..MaxRequests /\ stops' \in 0..MaxStops
    BY <1>8, AskedTyped DEF Delete
  <2>7. QED
    BY <1>8, <2>4, <2>5, <2>6 DEF Delete, login, Sound, LoginInv
<1>9. QED
  BY <1>2, <1>3, <1>4, <1>5, <1>6, <1>7, <1>8 DEF Person

\* What the sync has of the document is a whole document, and it asks of its entries.
LEMMA SyncJobFacts ==
    ASSUME Sound, threads["sync"].at = "sync"
    PROVE  /\ threads["sync"] \in SyncJob
           /\ \A u \in threads["sync"].todo : u \in Uid
                   /\ threads["sync"].config[u].name \in D!Name
<1>1. threads["sync"] \in SyncJob
  BY DEF Sound, JobsInv, Idle
<1>2. PICK j : j = threads["sync"]
  OBVIOUS
<1>3. ASSUME NEW u \in j.todo PROVE u \in Uid /\ j.config[u].name \in D!Name
  <2>1. j.config \in Doc /\ u \in D!Connected(j.config) /\ u \in Uid
    BY <1>1, <1>2 DEF SyncJob
  <2>2. j.config[u] \in D!Entry
    BY <2>1 DEF Doc, D!Connected
  <2>3. QED
    BY <2>1, <2>2 DEF D!Entry
<1>4. QED
  BY <1>1, <1>2, <1>3

LEMMA SyncKeeps ==
    ASSUME Sound, StartSync \/ EndSync \/ \E u \in Uid : SyncAccount(u) PROVE Sound'
<1>1. FileInv /\ JobsInv /\ LockInv /\ LedgerInv
  BY DEF Sound
<1>2. CASE StartSync
  <2> DEFINE j == [at |-> "sync", config |-> file, todo |-> D!Connected(file)]
  <2>1. j \in SyncJob
    BY <1>1 DEF SyncJob, FileInv, D!Connected
  <2>2. Become("sync", j)
    BY <1>2 DEF StartSync
  <2> HIDE DEF j
  <2>3. FileInv' /\ JobsInv' /\ LockInv'
    BY <1>1, <1>2, <2>1, <2>2, SyncBecomeKeeps DEF StartSync
  <2>4. QED
    BY <1>2, <2>3 DEF StartSync, login, bounds, Sound, LedgerInv, Used, Of, LoginInv
<1>3. CASE EndSync
  <2>1. FileInv' /\ JobsInv' /\ LockInv'
    BY <1>1, <1>3, SyncBecomeKeeps DEF EndSync
  <2>2. QED
    BY <1>3, <2>1 DEF EndSync, login, bounds, Sound, LedgerInv, Used, Of, LoginInv
<1>4. ASSUME NEW u \in Uid, SyncAccount(u) PROVE Sound'
  <2>1. PICK k : k = threads["sync"]
    OBVIOUS
  <2>2. k.at = "sync" /\ u \in k.todo /\ Ensured(u, k.config[u].name)
        /\ Become("sync", [k EXCEPT !.todo = @ \ {u}])
    BY <1>4, <2>1 DEF SyncAccount
  <2>3. k \in SyncJob /\ k.config[u].name \in D!Name
    BY <2>1, <2>2, SyncJobFacts
  <2>4. [k EXCEPT !.todo = @ \ {u}] \in SyncJob
    BY <2>3 DEF SyncJob
  <2>5. FileInv' /\ JobsInv' /\ LockInv'
    BY <1>1, <1>4, <2>2, <2>4, SyncBecomeKeeps DEF SyncAccount
  <2>6. LedgerInv'
    BY <1>1, <2>2, <2>3, EnsuredFacts
  <2>7. QED
    BY <1>4, <2>5, <2>6 DEF SyncAccount, login, bounds, Sound, LoginInv
<1>5. QED
  BY <1>2, <1>3, <1>4

\* A category of a free name, or a free name for one.
LEMMA CategoryPuts ==
    ASSUME LedgerInv, NEW b \in Base,
           AddCategory(b) \/ \E r \in Row : RenameCategory(r, b)
    PROVE  \E r \in Row, a \in Account :
             /\ PutRow(r, a) /\ \A s \in Used \ {r} : accounts[s].name # a.name
             /\ \/ a.uid = None /\ r \notin Used
                \/ r \in Used /\ a.uid = accounts[r].uid
<1>1. D!Plain(b) \in D!Name
  BY PlainNames DEF PlainName
<1>2. CASE AddCategory(b)
  <2> DEFINE a == [name |-> D!Plain(b), uid |-> None, type |-> "category"]
  <2>1. a \in Account /\ a.uid = None /\ a.name = D!Plain(b)
    BY <1>1 DEF Account
  <2>2. NextRow \in Row /\ PutRow(NextRow, a) /\ \A s \in Used : accounts[s].name # D!Plain(b)
    BY <1>2 DEF AddCategory, Called
  <2> HIDE DEF a
  <2>3. QED
    BY <2>1, <2>2, LedgerFacts
<1>3. ASSUME NEW r \in Row, RenameCategory(r, b)
      PROVE  \E a \in Account :
               /\ PutRow(r, a) /\ \A s \in Used \ {r} : accounts[s].name # a.name
               /\ r \in Used /\ a.uid = accounts[r].uid
  <2> DEFINE a == [accounts[r] EXCEPT !.name = D!Plain(b)]
  <2>1. r \in Used /\ PutRow(r, a) /\ \A s \in Used \ {r} : accounts[s].name # D!Plain(b)
    BY <1>3 DEF RenameCategory, Called
  <2>2. accounts[r] \in Account
    BY <2>1 DEF LedgerInv, Used
  <2>3. a \in Account /\ a.uid = accounts[r].uid /\ a.name = D!Plain(b)
    BY <1>1, <2>2 DEF Account
  <2> HIDE DEF a
  <2>4. QED
    BY <2>1, <2>3
<1>4. QED
  BY <1>2, <1>3

LEMMA CategoryKeeps ==
    ASSUME Sound, NEW b \in Base, AddCategory(b) \/ \E r \in Row : RenameCategory(r, b)
    PROVE  Sound'
<1>1. FileInv /\ JobsInv /\ LockInv /\ LedgerInv /\ LoginInv
  BY DEF Sound
<1>2. /\ UNCHANGED <<file, credentials, lock, login, threads, stops>>
      /\ asked < MaxRequests /\ asked' = asked + 1
  BY DEF AddCategory, RenameCategory
<1>3. FileInv' /\ JobsInv' /\ LockInv'
  BY <1>1, <1>2 DEF FileInv, JobsInv, LockInv
<1>4. PICK r \in Row, a \in Account :
             /\ PutRow(r, a) /\ \A s \in Used \ {r} : accounts[s].name # a.name
             /\ \/ a.uid = None /\ r \notin Used
                \/ r \in Used /\ a.uid = accounts[r].uid
  BY <1>1, CategoryPuts
<1>5. a.uid \in Uid => \A s \in Used \ {r} : accounts[s].uid # a.uid
  BY <1>1, <1>4, UidAssumption DEF LedgerInv, Of, Used
<1>6. LedgerInv'
  BY <1>1, <1>4, <1>5, PutKeeps
<1>7. LoginInv'
  BY <1>1, <1>2, BoundsAssumption DEF LoginInv, login
<1>8. QED
  BY <1>3, <1>6, <1>7 DEF Sound

LEMMA StopKeeps == ASSUME Sound, Stop PROVE Sound'
<1>1. threads' = [t \in Actor |-> Idle] /\ lock' = None
  BY DEF Stop
<1>2. JobsInv'
  BY <1>1, ReadyJobs DEF JobsInv, ThreadJob, Actor
<1>3. LockInv'
  BY <1>1 DEF LockInv, Idle
<1>4. FileInv' /\ LedgerInv'
  BY DEF Stop, Sound, FileInv, LedgerInv, Used, Of
<1>5. LoginInv'
  BY BoundsAssumption DEF Stop, login, Sound, LoginInv
<1>6. QED
  BY <1>2, <1>3, <1>4, <1>5 DEF Sound

LEMMA StepSound == ASSUME Sound, [Next]_vars PROVE Sound'
<1>1. ASSUME NEW t \in Thread, Serve(t) PROVE Sound'
  BY <1>1, ReadKeeps, ReplaceKeeps, SaveCredentialKeeps, AnswerKeeps, ForgetKeeps,
     RelabelKeeps, DisconnectKeeps DEF Serve
<1>2. CASE UNCHANGED vars
  BY <1>2 DEF vars, Sound, FileInv, JobsInv, LockInv, LedgerInv, LoginInv, Used, Of
<1>3. QED
  BY <1>1, <1>2, PersonKeeps, SyncKeeps, CategoryKeeps, StopKeeps DEF Next

LEMMA Invariance == Spec => []Sound
BY InitSound, StepSound, PTL DEF Spec

-----------------------------------------------------------------------------
(* Theorems.                                                               *)

\* Every variable keeps its type (the document, the ledger's accounts, the logins and
\* what the threads do), whatever the requests and wherever the process stops.
THEOREM TypeCorrect == Spec => []TypeOK
<1>1. Sound => TypeOK
  BY SoundTyped
<1>2. QED
  BY <1>1, Invariance, PTL

\* No two entries of accounts.json ever have one name: the document is read and written
\* under the lock, so the name is still free when it is written (unique_name).
THEOREM NamesApart == Spec => []EntriesApart
<1>1. Sound => EntriesApart
  BY DEF Sound, FileInv, Apart, EntriesApart
<1>2. QED
  BY <1>1, Invariance, PTL

\* Only a thread that replaces the file changes it.
LEMMA OnlyReplace ==
    ASSUME Sound, [Next]_vars, file' # file PROVE \E t \in Thread : Replace(t)
BY DEF Next, vars, Person, Serve, Read, SaveCredential, Answer, Forget, Relabel, Disconnect,
       AskCredentials, Connect, Callback, Rename, Remove, AddByHand, Delete, AddCategory,
       RenameCategory, StartSync, EndSync, SyncAccount, Stop

\* The threads together do to accounts.json what one editor would do, one whole edit
\* after another: the file refines module Document (_editing).
THEOREM DocumentRefined == Spec => DocumentEdits
<1>1. Init => D!Init
  BY DEF Init
<1>2. ASSUME Sound, [Next]_vars PROVE [D!Next]_file
  <2>1. CASE file' = file
    BY <2>1
  <2>2. CASE file' # file
    <3>1. PICK t \in Thread : Replace(t)
      BY <1>2, <2>2, OnlyReplace
    <3>2. PICK e \in Edit : file' = D!Edited(file, e)
      BY <1>2, <3>1, ReplaceFacts
    <3>3. file \in Doc /\ Apart(file) /\ e.uid \in Uid
      BY <1>2, EditKinds DEF Sound, FileInv
    <3>4. CASE e.do = "save" /\ file' = D!Saved(file, e.uid, e.session, e.name)
      <4>1. e.session \in Session /\ \E b \in Base : e.name = D!Plain(b)
        BY <3>4, EditKinds DEF PlainName
      <4>2. D!Save
        BY <3>3, <3>4, <4>1 DEF D!Save
      <4>3. QED
        BY <4>2 DEF D!Next
    <3>5. CASE /\ e.do = "rename" /\ D!Renamable(file, e.uid, e.name)
               /\ file' = D!Renamed(file, e.uid, e.name, e.start)
      <4>1. e.start \in {"chosen", None} /\ \E b \in Base : e.name = D!Plain(b)
        BY <3>5, EditKinds DEF PlainName
      <4>2. D!Rename
        BY <3>3, <3>5, <4>1 DEF D!Rename
      <4>3. QED
        BY <4>2 DEF D!Next
    <3>6. CASE file' = D!Removed(file, e.uid)
      BY <3>3, <3>6 DEF D!Next, D!Remove
    <3>7. QED
      BY <2>2, <3>2, <3>3, <3>4, <3>5, <3>6, EditedFacts
  <2>3. QED
    BY <2>1, <2>2
<1>3. QED
  BY <1>1, <1>2, Invariance, PTL DEF Spec, DocumentEdits, D!Spec

\* A consent keeps what a person decided: the name of an entry, and the start a person
\* chose, are only changed by that entry's own rename (save_account).
THEOREM CurationKept == Spec => CuratedKept
<1> DEFINE Kept ==
        \A u \in D!Connected(file) :
            (/\ file'[u] # None
             /\ \/ file'[u].name # file[u].name
                \/ file[u].start = "chosen" /\ file'[u].start # "chosen")
            => \E t \in Thread : threads[t].at = "replace"
                                 /\ Head(threads[t].todo).do = "rename"
                                 /\ Head(threads[t].todo).uid = u
<1>1. ASSUME Sound, [Next]_vars PROVE Kept
  <2>1. CASE file' = file
    BY <2>1
  <2>2. CASE file' # file
    <3>1. PICK t \in Thread : Replace(t)
      BY <1>1, <2>2, OnlyReplace
    <3>2. PICK e \in Edit : /\ e = Head(threads[t].todo)
                            /\ file' = D!Edited(file, e) /\ threads[t].at = "replace"
      BY <1>1, <3>1, ReplaceFacts
    <3>3. file \in Doc /\ Apart(file) /\ e.uid \in Uid
      BY <1>1, EditKinds DEF Sound, FileInv
    <3>4. ASSUME NEW u \in D!Connected(file), file'[u] # None,
                 \/ file'[u].name # file[u].name
                 \/ file[u].start = "chosen" /\ file'[u].start # "chosen"
          PROVE  e.do = "rename" /\ e.uid = u
      <4>1. u \in Uid /\ file[u] # None /\ "chosen" # None
        BY UidAssumption DEF D!Connected
      <4>2. e.uid = u
        BY <3>2, <3>3, <3>4, <4>1, EditedFacts
      <4>3. CASE e.do = "save" /\ file' = D!Saved(file, e.uid, e.session, e.name)
        <5>1. e.session \in Session /\ e.name \in PlainName
          BY <4>3, EditKinds
        <5>2. QED
          BY <3>3, <3>4, <4>1, <4>2, <4>3, <5>1, SavedFacts
      <4>4. CASE e.do = "remove" /\ file' = D!Removed(file, e.uid)
        BY <3>3, <3>4, <4>2, <4>4, RemovedFacts
      <4>5. QED
        BY <3>2, <3>3, <4>2, <4>3, <4>4, EditedFacts
    <3>5. QED
      BY <3>2, <3>4
  <2>3. QED
    BY <2>1, <2>2
<1>2. [Next]_vars /\ Sound => [Kept]_vars
  BY <1>1
<1>3. QED
  BY <1>2, Invariance, PTL DEF Spec, CuratedKept

\* A new account of no bank's leaves every bank account its own.
LEMMA NewKept ==
    ASSUME LedgerInv, \A u \in Uid : u # None, NEW n \in Row, n \notin Used,
           accounts'[n].uid = None, \A s \in Row \ {n} : accounts'[s] = accounts[s]
    PROVE  \A u \in Uid : \A r \in Of(u) :
             /\ accounts'[r] # None => accounts'[r].uid = u
             /\ \A s \in Row \ {r} : accounts'[s] # None => accounts'[s].uid # u
<1>1. ASSUME NEW u \in Uid, NEW r \in Of(u)
      PROVE  /\ accounts'[r] # None => accounts'[r].uid = u
             /\ \A s \in Row \ {r} : accounts'[s] # None => accounts'[s].uid # u
  <2>1. /\ r \in Row /\ accounts[r].uid = u /\ \A s \in Of(u) : s = r
        /\ r \in Used /\ r # n
    BY DEF Of, Used, LedgerInv
  <2>2. QED
    BY <2>1 DEF Of, Used
<1>2. QED
  BY <1>1

\* The account of the ledger a bank's account has stays its own, and no other account
\* of the ledger comes to hold its movements (ensure_account, rename_account).
THEOREM RowsOfUids == Spec => UidKeepsRow
<1> DEFINE Kept ==
        \A u \in Uid : \A r \in Of(u) :
            /\ accounts'[r] # None => accounts'[r].uid = u
            /\ \A s \in Row \ {r} : accounts'[s] # None => accounts'[s].uid # u
<1>1. ASSUME Sound, [Next]_vars PROVE Kept
  <2>1. LedgerInv /\ \A u \in Uid : u # None
    BY <1>1, UidAssumption DEF Sound
  <2>2. CASE \A s \in Row : accounts'[s] # None =>
                 s \in Used /\ accounts'[s].uid = accounts[s].uid
    <3>1. ASSUME NEW u \in Uid, NEW r \in Of(u)
          PROVE  /\ accounts'[r] # None => accounts'[r].uid = u
                 /\ \A s \in Row \ {r} : accounts'[s] # None => accounts'[s].uid # u
      <4>1. r \in Row /\ accounts[r].uid = u /\ \A s \in Of(u) : s = r
        BY <2>1 DEF Of, Used, LedgerInv
      <4>2. QED
        BY <2>2, <4>1 DEF Of
    <3>2. QED
      BY <3>1
  <2>3. ASSUME NEW u \in Uid, SyncAccount(u) PROVE Kept
    <3>1. PICK n : n = threads["sync"].config[u].name
      OBVIOUS
    <3>2. n \in D!Name /\ Ensured(u, n)
      BY <1>1, <2>3, <3>1, SyncJobFacts DEF SyncAccount
    <3>3. QED
      BY <2>1, <3>2, EnsuredFacts
  <2>4. ASSUME NEW t \in Thread, Relabel(t) PROVE Kept
    <3>1. threads[t].name \in D!Name
      BY <1>1, <2>4, JobAt, PlainNames DEF Sound, JobsInv, Relabel
    <3>2. CASE threads[t].row \in Used
      <4>1. accounts' = Relabelled(threads[t].row, threads[t].name)
        BY <2>4, <3>2 DEF Relabel
      <4>2. \A s \in Row : /\ accounts'[s] = None <=> accounts[s] = None
                           /\ s \in Used => accounts'[s].uid = accounts[s].uid
        BY <2>1, <3>1, <3>2, <4>1, RelabelledFacts
      <4>3. QED
        BY <2>2, <4>2 DEF Used
    <3>3. CASE threads[t].row \notin Used
      BY <2>2, <2>4, <3>3 DEF Relabel, Used
    <3>4. QED
      BY <3>2, <3>3
  <2>5. ASSUME NEW t \in Thread, NEW b \in Base, AddByHand(t, b) PROVE Kept
    <3>1. PICK a : a.uid = None /\ PutRow(NextRow, a)
      BY <2>5 DEF AddByHand
    <3>2. NextRow \notin Used /\ NextRow \in Row
      BY <2>1, <2>5, LedgerFacts DEF AddByHand
    <3>3. accounts'[NextRow].uid = None /\ \A s \in Row \ {NextRow} : accounts'[s] = accounts[s]
      BY <2>1, <3>1, <3>2 DEF PutRow, LedgerInv
    <3>4. QED
      BY <2>1, <3>2, <3>3, NewKept
  <2>8. ASSUME NEW b \in Base, AddCategory(b) \/ \E r \in Row : RenameCategory(r, b)
        PROVE  Kept
    <3>1. PICK r \in Row, a \in Account :
             /\ PutRow(r, a) /\ \A s \in Used \ {r} : accounts[s].name # a.name
             /\ \/ a.uid = None /\ r \notin Used
                \/ r \in Used /\ a.uid = accounts[r].uid
      BY <2>1, <2>8, CategoryPuts
    <3>2. accounts'[r] = a /\ \A s \in Row \ {r} : accounts'[s] = accounts[s]
      BY <2>1, <3>1 DEF PutRow, LedgerInv
    <3>3. CASE a.uid = None /\ r \notin Used
      BY <2>1, <3>2, <3>3, NewKept
    <3>4. CASE r \in Used /\ a.uid = accounts[r].uid
      BY <2>2, <3>2, <3>4 DEF Used
    <3>5. QED
      BY <3>1, <3>3, <3>4
  <2>6. ASSUME NEW t \in Thread, NEW r \in Row, Delete(t, r) PROVE Kept
    <3>1. accounts' = [accounts EXCEPT ![r] = None] /\ accounts \in [Row -> Account \cup {None}]
      BY <2>1, <2>6 DEF Delete, PutRow, LedgerInv
    <3>2. QED
      BY <2>2, <3>1 DEF Used
  <2>7. CASE accounts' = accounts
    BY <2>2, <2>7 DEF Used
  <2> HIDE DEF Kept
  <2>9. QED
    BY <1>1, <2>3, <2>4, <2>5, <2>6, <2>7, <2>8
    DEF Next, vars, Person, Serve, Read, Replace, SaveCredential, Answer, Forget, Disconnect,
        AskCredentials, Connect, Callback, Rename, Remove, StartSync, EndSync, Stop
<1>2. [Next]_vars /\ Sound => [Kept]_vars
  BY <1>1
<1>3. QED
  BY <1>2, Invariance, PTL DEF Spec, UidKeepsRow

-----------------------------------------------------------------------------
(* What whole syncs mend.                                                  *)

\* The entries of the document c whose account has the name the entry has.
Right(c) ==
    {u \in D!Connected(c) : Of(u) # {} /\ \A r \in Of(u) : accounts[r].name = c[u].name}

\* An entry's account has the entry's name, unless another account has that name or it is
\* a category, which no sync renames.
Settled(c, v) ==
    /\ Of(v) # {}
    /\ \A r \in Of(v) : \/ accounts[r].name = c[v].name \/ Called(c[v].name) \ {r} # {}
                        \/ accounts[r].type # "real"

AllSettled(c) == \A v \in D!Connected(c) : Settled(c, v)

\* A sync that has the entries of `todo` to ask for: an entry it asked for is settled,
\* or a later one was put right, which none is twice.
MidPass(c, p, todo) ==
    /\ AllSettled(c) \/ Cardinality(Right(c)) >= p - 1
    /\ \A v \in D!Connected(c) \ todo :
           Settled(c, v) \/ (Of(v) # {} /\ Cardinality(Right(c)) >= p)

BetweenPasses(c, p) ==
    AllSettled(c) \/ /\ \A v \in D!Connected(c) : Of(v) # {}
                     /\ Cardinality(Right(c)) >= p

MendInv ==
    /\ synced \in [config: Doc, passes: Nat]
    /\ threads["sync"].at = "sync" => threads["sync"].config = synced.config
    /\ synced.passes >= 1 =>
           /\ threads["sync"].at = "sync" =>
                  MidPass(synced.config, synced.passes, threads["sync"].todo)
           /\ threads["sync"].at = "idle" => BetweenPasses(synced.config, synced.passes)

\* A name that is free is given as it is.
LEMMA NumberedFree ==
    ASSUME NEW name \in D!Name, NEW taken, IsFiniteSet(taken), name \notin taken
    PROVE  D!Numbered(name, taken) = name
<1> DEFINE With(k) == IF k = 1 THEN name ELSE [name EXCEPT !.numbers = Append(@, k)]
           n == Cardinality(taken)
           free == {k \in 1..(n + 1) : With(k) \notin taken}
<1>1. n \in Nat
  BY FS_CardinalityType
<1>2. 1 \in free /\ free \subseteq Nat
  BY <1>1
<1>3. Min(free) = 1
  <2>1. \A k \in free : 1 <= k
    BY <1>1
  <2> HIDE DEF free
  <2>2. \A x \in free : (\A y \in free : x <= y) => x = 1
    BY <1>2, <2>1
  <2>3. QED
    BY <1>2, <2>1, <2>2 DEF Min
<1>4. D!Numbered(name, taken) = With(Min(free))
  BY SameOperators DEF D!Numbered
<1>5. QED
  BY <1>3, <1>4

\* The sync asks for one entry: what is right stays right, every entry keeps its account,
\* and a name another account may wait for is given up only to put the entry right.
LEMMA MendStep ==
    ASSUME LedgerInv, NEW c \in Doc, NEW u \in D!Connected(c), Ensured(u, c[u].name)
    PROVE  /\ Right(c) \subseteq Right(c)'
           /\ \A v \in D!Connected(c) : Of(v) # {} => Of(v)' # {}
           /\ \/ u \in Right(c)' \ Right(c)
              \/ Settled(c, u)' /\ \A v \in D!Connected(c) : Settled(c, v) => Settled(c, v)'
<1> DEFINE n == c[u].name
<1>0. /\ accounts \in [Row -> Account \cup {None}] /\ \A a \in Account : a # None
      /\ \A r \in Used : r \in Row /\ accounts[r] \in Account
      /\ \A v \in Uid : v # None /\ \A r, s \in Of(v) : r = s
      /\ D!Connected(c) \subseteq Uid /\ u \in Uid
      /\ \A v \in Uid : Of(v) \subseteq Used
  BY DeclaredAssumption, UidAssumption DEF LedgerInv, Used, Of, D!Connected
<1>1. n \in D!Name
  BY DEF Doc, D!Connected, D!Entry
<1> HIDE DEF n
\* The account there is takes the name, or leaves everything as it is.
<1>2. CASE \E r \in Of(u) : accounts' = Relabelled(r, n)
  <2>1. PICK q \in Of(u) : accounts' = Relabelled(q, n)
    BY <1>2
  <2>2. q \in Used /\ q \in Row /\ accounts[q].uid = u
    BY <1>0 DEF Of
  <2>3. CASE Called(n) \ {q} # {} \/ accounts[q].type # "real"
    <3>1. accounts' = accounts
      BY <2>1, <2>3 DEF Relabelled
    <3>2. /\ \A v \in Uid : Of(v)' = Of(v)
          /\ \A m : Called(m)' = Called(m)
      BY <3>1 DEF Of, Used, Called
    <3>3. Settled(c, u)
      BY <1>0, <2>1, <2>3 DEF Settled, n
    <3>4. Right(c)' = Right(c)
      BY <1>0, <3>1, <3>2 DEF Right
    <3>5. \A v \in D!Connected(c) : Settled(c, v) => Settled(c, v)'
      BY <1>0, <3>1, <3>2 DEF Settled
    <3>6. QED
      BY <1>0, <3>2, <3>3, <3>4, <3>5
  <2>4. CASE Called(n) \ {q} = {} /\ accounts[q].type = "real"
    <3> DEFINE a == [accounts[q] EXCEPT !.name = n]
    <3>1. accounts' = [accounts EXCEPT ![q] = a]
      BY <1>0, <2>1, <2>2, <2>4 DEF Relabelled
    <3>2. a \in Account /\ a.name = n /\ a.uid = u
      BY <1>0, <1>1, <2>2 DEF Account
    <3> HIDE DEF a
    <3>3. /\ accounts'[q] = a /\ \A s \in Row \ {q} : accounts'[s] = accounts[s]
      BY <1>0, <2>2, <3>1
    <3>4. Used' = Used
      BY <1>0, <2>2, <3>2, <3>3 DEF Used
    <3>5. \A v \in Uid : Of(v)' = Of(v)
      BY <1>0, <2>2, <3>2, <3>3, <3>4 DEF Of
    <3>6. u \in Right(c)'
      <4>1. \A r \in Of(u)' : r = q
        BY <1>0, <2>1, <3>5
      <4>2. Of(u)' # {}
        BY <1>0, <2>1, <3>5
      <4>3. QED
        BY <3>2, <3>3, <4>1, <4>2 DEF Right, n
    <3>7. Right(c) \subseteq Right(c)'
      <4>1. ASSUME NEW v \in Right(c), v # u PROVE v \in Right(c)'
        <5>1. v \in D!Connected(c) /\ Of(v)' # {} /\ Of(v)' = Of(v)
          BY <1>0, <3>5 DEF Right
        <5>2. \A r \in Of(v) : r # q /\ r \in Row /\ accounts[r].name = c[v].name
          BY <1>0, <2>2, <4>1 DEF Of, Right
        <5>3. QED
          BY <3>3, <5>1, <5>2 DEF Right
      <4>2. QED
        BY <3>6, <4>1
    <3>8. CASE u \in Right(c)
      \* Nothing changed, then.
      <4>1. accounts[q].name = n
        BY <2>1, <3>8 DEF Right, n
      <4>2. a = accounts[q]
        BY <1>0, <2>2, <4>1 DEF a, Account
      <4>3. accounts' = accounts
        BY <1>0, <2>2, <3>1, <4>2
      <4>4. \A m : Called(m)' = Called(m)
        BY <4>3 DEF Called, Used
      <4>5. \A v \in D!Connected(c) : Settled(c, v) => Settled(c, v)'
        BY <1>0, <3>5, <4>3, <4>4 DEF Settled
      <4>6. Settled(c, u)
        BY <3>8 DEF Settled, Right
      <4>7. QED
        BY <1>0, <3>5, <3>7, <4>5, <4>6
    <3>9. QED
      BY <1>0, <3>5, <3>6, <3>7, <3>8
  <2>5. QED
    BY <2>3, <2>4
\* An account of none is taken, or a new one is made: no name is given up.
<1>3. ASSUME Of(u) = {}, NEW r \in Row, NEW a \in Account, a.uid = u, PutRow(r, a),
             r \in Used => accounts[r].uid = None /\ a.name = accounts[r].name,
             a.name = n \/ Called(n) # {}
      PROVE  /\ Right(c) \subseteq Right(c)'
             /\ \A v \in D!Connected(c) : Of(v) # {} => Of(v)' # {}
             /\ Settled(c, u)' /\ \A v \in D!Connected(c) : Settled(c, v) => Settled(c, v)'
  <2>1. accounts'[r] = a /\ \A s \in Row \ {r} : accounts'[s] = accounts[s]
    BY <1>0, <1>3 DEF PutRow
  <2>2. Used' = Used \cup {r}
    BY <1>0, <1>3, <2>1 DEF Used
  <2>3. Of(u)' = {r}
    BY <1>0, <1>3, <2>1, <2>2 DEF Of
  <2>4. \A v \in Uid \ {u} : Of(v)' = Of(v)
    BY <1>0, <1>3, <2>1, <2>2 DEF Of
  <2>5. \A m : Called(m) \subseteq Called(m)'
    BY <1>0, <1>3, <2>1, <2>2 DEF Called
  <2>6. \A v \in Uid \ {u} : \A s \in Of(v) : accounts'[s].name = accounts[s].name
                                            /\ accounts'[s].type = accounts[s].type
    <3>1. ASSUME NEW v \in Uid \ {u}, NEW s \in Of(v)
          PROVE  accounts'[s].name = accounts[s].name /\ accounts'[s].type = accounts[s].type
      <4>1. s \in Row /\ s # r
        BY <1>0, <1>3 DEF Of
      <4>2. QED
        BY <2>1, <4>1
    <3>2. QED
      BY <3>1
  <2>7. Right(c) \subseteq Right(c)'
    <3>1. ASSUME NEW v \in Right(c) PROVE v \in Right(c)'
      <4>1. v \in Uid \ {u} /\ v \in D!Connected(c)
        BY <1>0, <1>3 DEF Right
      <4>2. QED
        BY <2>4, <2>6, <4>1 DEF Right
    <3>2. QED
      BY <3>1
  <2>8. Settled(c, u)'
    <3>1. a.name = n \/ Called(n)' \ {r} # {}
      <4>1. CASE a.name # n
        <5>1. PICK s \in Called(n) : TRUE
          BY <1>3, <4>1
        <5>2. s # r
          BY <1>3, <4>1 DEF Called
        <5>3. QED
          BY <2>5, <5>1, <5>2
      <4>2. QED
        BY <4>1
    <3>2. QED
      BY <2>1, <2>3, <3>1 DEF Settled, n
  <2>9. ASSUME NEW v \in D!Connected(c), Settled(c, v) PROVE Settled(c, v)'
    <3>1. v \in Uid \ {u}
      BY <1>0, <1>3, <2>9 DEF Settled
    <3>2. Of(v)' = Of(v) /\ Of(v) # {}
      BY <2>4, <2>9, <3>1 DEF Settled
    <3>3. ASSUME NEW s \in Of(v)
          PROVE  \/ accounts'[s].name = c[v].name \/ Called(c[v].name)' \ {s} # {}
                 \/ accounts'[s].type # "real"
      <4>1. \/ accounts[s].name = c[v].name \/ Called(c[v].name) \ {s} # {}
            \/ accounts[s].type # "real"
        BY <2>9 DEF Settled
      <4>2. accounts'[s].name = accounts[s].name /\ accounts'[s].type = accounts[s].type
        BY <2>6, <3>1
      <4>3. Called(c[v].name) \subseteq Called(c[v].name)'
        BY <2>5
      <4>4. QED
        BY <4>1, <4>2, <4>3
    <3>4. QED
      BY <3>2, <3>3 DEF Settled
  <2>10. \A v \in D!Connected(c) : Of(v) # {} => Of(v)' # {}
    BY <1>0, <1>3, <2>4
  <2>11. QED
    BY <2>7, <2>8, <2>9, <2>10
<1>4. CASE /\ Of(u) = {} /\ \E r \in Called(n) : accounts[r].uid = None
           /\ \E r \in Called(n) : PutRow(r, [accounts[r] EXCEPT !.uid = u])
  <2>1. PICK r \in Called(n) : PutRow(r, [accounts[r] EXCEPT !.uid = u])
    BY <1>4
  <2>2. r \in Row /\ r \in Used /\ accounts[r] \in Account /\ accounts[r].name = n
    BY <1>0 DEF Called
  <2>3. accounts[r].uid = None
    <3>1. PICK s \in Called(n) : accounts[s].uid = None
      BY <1>4
    <3>2. s = r
      BY <2>2, <3>1 DEF LedgerInv, Called
    <3>3. QED
      BY <3>1, <3>2
  <2> DEFINE a == [accounts[r] EXCEPT !.uid = u]
  <2>4. a \in Account /\ a.uid = u /\ a.name = accounts[r].name /\ PutRow(r, a)
    BY <1>0, <2>1, <2>2 DEF Account
  <2> HIDE DEF a
  <2>5. QED
    BY <1>3, <1>4, <2>2, <2>3, <2>4
<1>5. CASE /\ Of(u) = {} /\ NextRow \in Row
           /\ PutRow(NextRow, [name |-> D!Numbered(n, Names), uid |-> u, type |-> "real"])
  <2> DEFINE m == D!Numbered(n, Names)
             a == [name |-> m, uid |-> u, type |-> "real"]
  <2>1. IsFiniteSet(Names) /\ NextRow \notin Used
    BY LedgerFacts
  <2>2. m \in D!Name
    BY <1>1, <2>1, NumberedFresh
  <2>3. m = n \/ Called(n) # {}
    <3>1. CASE n \notin Names
      BY <1>1, <2>1, <3>1, NumberedFree
    <3>2. CASE n \in Names
      BY <3>2 DEF Names, Called
    <3>3. QED
      BY <3>1, <3>2
  <2> HIDE DEF m
  <2>4. a \in Account /\ a.uid = u /\ a.name = m /\ PutRow(NextRow, a)
    BY <1>0, <1>5, <2>2 DEF Account, m
  <2> HIDE DEF a
  <2>5. QED
    BY <1>3, <1>5, <2>1, <2>3, <2>4
<1>6. Ensured(u, n)
  BY DEF n
<1>7. QED
  BY <1>2, <1>4, <1>5, <1>6 DEF Ensured

\* An entry that is settled is left as it is.
LEMMA SettledStill ==
    ASSUME LedgerInv, NEW c \in Doc, NEW u \in D!Connected(c), Settled(c, u),
           Ensured(u, c[u].name)
    PROVE  accounts' = accounts
<1>1. PICK r \in Of(u) : accounts' = Relabelled(r, c[u].name)
  BY DEF Ensured, Settled
<1>2. r \in Row /\ accounts \in [Row -> Account \cup {None}] /\ accounts[r] \in Account
  BY DEF LedgerInv, Of, Used
<1>3. CASE accounts[r].name = c[u].name
  <2>1. [accounts EXCEPT ![r].name = c[u].name] = accounts
    BY <1>2, <1>3 DEF Account
  <2>2. QED
    BY <1>1, <2>1 DEF Relabelled
<1>4. CASE Called(c[u].name) \ {r} # {} \/ accounts[r].type # "real"
  BY <1>1, <1>4 DEF Relabelled
<1>5. QED
  BY <1>3, <1>4 DEF Settled

\* How many entries are right, a number no greater than that of the accounts.
LEMMA RightCounts ==
    ASSUME NEW c \in Doc
    PROVE  /\ IsFiniteSet(Right(c)) /\ Cardinality(Right(c)) \in Nat
           /\ Right(c) \subseteq Uid /\ Cardinality(Right(c)) <= Cardinality(Uid)
           /\ Cardinality(Uid) \in Nat
<1>1. Right(c) \subseteq Uid
  BY DEF Right, D!Connected
<1>2. QED
  BY <1>1, UidAssumption, FS_Subset, FS_CardinalityType

\* What the sync is at, and what it went by, are as they were.
LEMMA MendSame ==
    ASSUME MendInv, UNCHANGED <<accounts, synced>>, threads'["sync"] = threads["sync"]
    PROVE  MendInv'
<1>1. \A S : Of(S)' = Of(S) /\ Called(S)' = Called(S)
  BY DEF Of, Called, Used
<1>2. \A c : Right(c)' = Right(c) /\ AllSettled(c)' = AllSettled(c)
  BY <1>1 DEF Right, AllSettled, Settled
<1>3. \A c, v : Settled(c, v)' = Settled(c, v)
  BY <1>1 DEF Settled
<1>4. QED
  BY <1>1, <1>2, <1>3 DEF MendInv, MidPass, BetweenPasses

\* Somebody else touched the accounts: the syncs are counted anew.
LEMMA MendDisturbed ==
    ASSUME Sound, MendInv, Disturbed,
           \/ threads'["sync"] = threads["sync"]
           \/ threads'["sync"] = Idle
    PROVE  MendInv'
<1>1. /\ synced' \in [config: Doc, passes: Nat]
      /\ synced'.config = synced.config /\ synced'.passes = 0
  BY DEF Disturbed, MendInv
<1>2. threads'["sync"].at = "sync" => threads'["sync"].config = synced'.config
  BY <1>1 DEF MendInv, Idle
<1>3. QED
  BY <1>1, <1>2 DEF MendInv

LEMMA MendStart == ASSUME Sound, MendInv, StartSync PROVE MendInv'
<1>1. PICK c \in Doc : c = file
  BY DEF Sound, FileInv
<1>2. PICK p \in Nat : p = synced'.passes
  <2>1. Cardinality(Uid) \in Nat
    BY UidAssumption, FS_CardinalityType
  <2>2. synced.passes + 1 \in Nat
    BY DEF MendInv
  <2>3. ASSUME NEW a \in Nat, NEW b \in Nat PROVE Min({a, b}) \in Nat
    <3>1. \E x \in {a, b} : \A y \in {a, b} : x <= y
      BY <2>3
    <3>2. Min({a, b}) \in {a, b}
      BY <3>1 DEF Min
    <3>3. QED
      BY <3>2
  <2>4. Min({synced.passes + 1, Cardinality(Uid)}) \in Nat
    BY <2>1, <2>2, <2>3
  <2> DEFINE m == Min({synced.passes + 1, Cardinality(Uid)})
  <2> HIDE DEF m
  <2>5. synced'.passes = IF synced.config # file THEN 1 ELSE m
    BY DEF StartSync, m
  <2>6. m \in Nat
    BY <2>4 DEF m
  <2>7. QED
    BY <2>5, <2>6
<1>3. /\ synced' = [config |-> c, passes |-> p]
      /\ p = IF synced.config # c THEN 1 ELSE Min({synced.passes + 1, Cardinality(Uid)})
  BY <1>1, <1>2 DEF StartSync
<1>4. threads'["sync"] = [at |-> "sync", config |-> c, todo |-> D!Connected(c)]
  BY <1>1 DEF StartSync, Become, Sound, JobsInv, Actor
<1>5. /\ IsFiniteSet(Right(c)) /\ Cardinality(Right(c)) \in Nat
      /\ Cardinality(Right(c)) <= Cardinality(Uid) /\ Cardinality(Uid) \in Nat
  BY RightCounts
<1>6. p >= 1 => AllSettled(c) \/ Cardinality(Right(c)) >= p - 1
  <2>1. CASE synced.config # c
    BY <1>3, <1>5, <2>1
  <2>2. CASE synced.config = c
    <3>1. PICK q \in Nat : q = synced.passes
      BY DEF MendInv
    <3>2. p <= q + 1
      <4>1. ASSUME NEW a \in Nat, NEW b \in Nat PROVE Min({a, b}) <= a
        <5>1. \E x \in {a, b} : \A y \in {a, b} : x <= y
          BY <4>1
        <5>2. \A y \in {a, b} : Min({a, b}) <= y
          BY <5>1 DEF Min
        <5>3. QED
          BY <5>2
      <4>2. p = Min({q + 1, Cardinality(Uid)}) /\ q + 1 \in Nat
        BY <1>3, <2>2, <3>1
      <4>3. QED
        BY <1>5, <4>1, <4>2
    <3>3. CASE q = 0
      BY <1>5, <3>2, <3>3
    <3>4. CASE q >= 1
      <4>1. BetweenPasses(c, q)
        BY <2>2, <3>1, <3>4 DEF MendInv, StartSync, Idle
      <4>2. QED
        BY <1>5, <3>2, <4>1 DEF BetweenPasses
    <3>5. QED
      BY <3>1, <3>3, <3>4
  <2>3. QED
    BY <2>1, <2>2
<1>7. accounts' = accounts
  BY DEF StartSync
<1>8. Right(c)' = Right(c) /\ AllSettled(c)' = AllSettled(c)
  BY <1>7 DEF Right, AllSettled, Settled, Of, Called, Used
<1>9. p >= 1 => MidPass(c, p, D!Connected(c))'
  BY <1>6, <1>8 DEF MidPass
<1>10. synced' \in [config: Doc, passes: Nat] /\ synced'.config = c /\ synced'.passes = p
  BY <1>3
<1>11. /\ threads'["sync"].at = "sync" /\ threads'["sync"].config = c
       /\ threads'["sync"].todo = D!Connected(c)
  BY <1>4
<1>12. QED
  BY <1>9, <1>10, <1>11 DEF MendInv

LEMMA MendAccount ==
    ASSUME Sound, MendInv, NEW u \in Uid, SyncAccount(u) PROVE MendInv'
<1>1. PICK j \in SyncJob : j = threads["sync"]
  BY SyncJobFacts DEF SyncAccount
<1>2. PICK c \in Doc : c = j.config
  BY <1>1 DEF SyncJob
<1>3. PICK p \in Nat : p = synced.passes
  BY DEF MendInv
<1>4. /\ j.at = "sync" /\ synced.config = c /\ synced' = synced
      /\ u \in j.todo /\ j.todo \subseteq D!Connected(c) /\ u \in D!Connected(c)
      /\ Ensured(u, c[u].name)
  BY <1>1, <1>2 DEF SyncAccount, SyncJob, MendInv
<1>5. /\ threads'["sync"].at = "sync" /\ threads'["sync"].config = c
      /\ threads'["sync"].todo = j.todo \ {u}
  <2>1. threads'["sync"] = [j EXCEPT !.todo = @ \ {u}]
    BY <1>1 DEF SyncAccount, Become, Sound, JobsInv, Actor
  <2>2. QED
    BY <1>1, <1>2, <2>1 DEF SyncJob
<1>6. LedgerInv
  BY DEF Sound
<1>7. p >= 1 => MidPass(c, p, j.todo \ {u})'
  <2>1. SUFFICES ASSUME p >= 1 PROVE MidPass(c, p, j.todo \ {u})'
    OBVIOUS
  <2>2. MidPass(c, p, j.todo)
    BY <1>1, <1>3, <1>4, <2>1 DEF MendInv
  <2>3. /\ Right(c) \subseteq Right(c)'
        /\ \A v \in D!Connected(c) : Of(v) # {} => Of(v)' # {}
        /\ \/ u \in Right(c)' \ Right(c)
           \/ Settled(c, u)' /\ \A v \in D!Connected(c) : Settled(c, v) => Settled(c, v)'
    BY <1>4, <1>6, MendStep
  <2>4. /\ IsFiniteSet(Right(c)) /\ Cardinality(Right(c)) \in Nat
        /\ IsFiniteSet(Right(c)') /\ Cardinality(Right(c)') \in Nat
        /\ Cardinality(Right(c)) <= Cardinality(Right(c)')
    <3>1. Right(c)' \subseteq Uid
      BY DEF Right, D!Connected
    <3>2. QED
      BY <2>3, <3>1, RightCounts, UidAssumption, FS_Subset, FS_CardinalityType
  <2>5. CASE AllSettled(c)
    <3>1. accounts' = accounts
      BY <1>4, <1>6, <2>5, SettledStill DEF AllSettled
    <3>2. \A v \in D!Connected(c) : Settled(c, v)'
      BY <2>5, <3>1 DEF AllSettled, Settled, Of, Called, Used
    <3>3. QED
      BY <3>2 DEF MidPass, AllSettled
  <2>6. CASE ~AllSettled(c) /\ u \in Right(c)' \ Right(c)
    <3>1. Cardinality(Right(c)) >= p - 1
      BY <2>2, <2>6 DEF MidPass
    <3>2. Cardinality(Right(c)') >= p
      <4>1. Right(c) \cup {u} \subseteq Right(c)'
        BY <2>3, <2>6
      <4>2. Cardinality(Right(c) \cup {u}) = Cardinality(Right(c)) + 1
        BY <2>4, <2>6, FS_AddElement
      <4>3. Cardinality(Right(c) \cup {u}) <= Cardinality(Right(c)')
        BY <2>4, <4>1, FS_Subset
      <4>4. QED
        BY <2>4, <3>1, <4>2, <4>3
    <3>3. Of(u)' # {}
      BY <2>6 DEF Right
    <3>4. \A v \in D!Connected(c) \ (j.todo \ {u}) : Of(v)' # {}
      BY <2>2, <2>3, <3>3 DEF MidPass, Settled
    <3>5. QED
      BY <2>4, <3>2, <3>4 DEF MidPass
  <2>7. CASE /\ ~AllSettled(c) /\ Settled(c, u)'
             /\ \A v \in D!Connected(c) : Settled(c, v) => Settled(c, v)'
    <3>1. Cardinality(Right(c)') >= p - 1
      BY <2>2, <2>4, <2>7 DEF MidPass
    <3>2. ASSUME NEW v \in D!Connected(c) \ (j.todo \ {u})
          PROVE  Settled(c, v)' \/ (Of(v)' # {} /\ Cardinality(Right(c)') >= p)
      <4>1. CASE v = u
        BY <2>7, <4>1
      <4>2. CASE Settled(c, v)
        BY <2>7, <4>2
      <4>3. CASE Of(v) # {} /\ Cardinality(Right(c)) >= p
        BY <2>3, <2>4, <4>3
      <4>4. QED
        BY <2>2, <4>1, <4>2, <4>3 DEF MidPass
    <3>3. QED
      BY <3>1, <3>2 DEF MidPass
  <2>8. QED
    BY <2>3, <2>5, <2>6, <2>7
<1>8. synced' \in [config: Doc, passes: Nat] /\ synced'.config = c /\ synced'.passes = p
  BY <1>3, <1>4 DEF MendInv
<1>9. QED
  BY <1>5, <1>7, <1>8 DEF MendInv

LEMMA MendEnd == ASSUME Sound, MendInv, EndSync PROVE MendInv'
<1>1. PICK c \in Doc : c = synced.config
  BY DEF MendInv
<1>2. PICK p \in Nat : p = synced.passes
  BY DEF MendInv
<1>3. accounts' = accounts /\ synced' = synced /\ threads'["sync"] = Idle
  BY DEF EndSync, Become, Sound, JobsInv, Actor
<1>4. p >= 1 => BetweenPasses(c, p)
  <2>1. SUFFICES ASSUME p >= 1 PROVE BetweenPasses(c, p)
    OBVIOUS
  <2>2. MidPass(c, p, {})
    BY <1>1, <1>2, <2>1 DEF MendInv, EndSync
  <2>3. QED
    BY <2>2 DEF MidPass, BetweenPasses, AllSettled, Settled
<1>5. p >= 1 => BetweenPasses(c, p)'
  BY <1>3, <1>4 DEF BetweenPasses, AllSettled, Right, Settled, Of, Called, Used
<1>6. QED
  BY <1>1, <1>2, <1>3, <1>5 DEF MendInv, Idle

\* A thread's own step leaves the sync where it is.
LEMMA ThreadStays ==
    ASSUME Sound, NEW t \in Thread, Person(t) \/ Serve(t)
    PROVE  threads'["sync"] = threads["sync"]
<1>1. ASSUME NEW j, Become(t, j) PROVE threads'["sync"] = threads["sync"]
  BY <1>1, ThreadAssumption DEF Become, Sound, JobsInv, Actor
<1>2. QED
  BY <1>1 DEF Person, Serve, Read, Replace, SaveCredential, Answer, Forget, Relabel,
     Disconnect, AskCredentials, Connect, Callback, Rename, Remove, AddByHand, Delete

LEMMA StepMends == ASSUME Sound, MendInv, [Next]_vars PROVE MendInv'
<1>1. ASSUME NEW t \in Thread, Person(t) \/ Serve(t) PROVE MendInv'
  <2>1. threads'["sync"] = threads["sync"]
    BY <1>1, ThreadStays
  <2>2. Disturbed \/ UNCHANGED <<accounts, synced>>
    BY <1>1 DEF Person, Serve, Read, Replace, SaveCredential, Answer, Forget, Relabel,
       Disconnect, AskCredentials, Connect, Callback, Rename, Remove, AddByHand, Delete
  <2>3. QED
    BY <2>1, <2>2, MendSame, MendDisturbed
<1>2. CASE Stop
  <2>1. threads'["sync"] = Idle
    BY <1>2 DEF Stop, Actor
  <2>2. CASE threads["sync"] = Idle
    BY <1>2, <2>1, <2>2, MendSame DEF Stop
  <2>3. CASE threads["sync"] # Idle
    BY <1>2, <2>1, <2>3, MendDisturbed DEF Stop
  <2>4. QED
    BY <2>2, <2>3
<1>3. CASE UNCHANGED vars
  BY <1>3, MendSame DEF vars
<1>4. ASSUME NEW b \in Base, AddCategory(b) \/ \E r \in Row : RenameCategory(r, b)
      PROVE  MendInv'
  BY <1>4, MendDisturbed DEF AddCategory, RenameCategory
<1>5. QED
  BY <1>1, <1>2, <1>3, <1>4, MendStart, MendAccount, MendEnd DEF Next

\* As many undisturbed syncs as there are accounts leave every entry of accounts.json
\* with its account of the ledger, under the entry's name unless another account has
\* that name or the account is a category the entry took over: each sync that is not
\* yet the last puts one more name right.
THEOREM SyncsMend == Spec => []SyncMends
<1>1. ASSUME Init PROVE MendInv
  <2>1. file \in Doc
    BY <1>1, InitSound DEF Sound, FileInv
  <2>2. synced = [config |-> file, passes |-> 0] /\ threads["sync"] = Idle
    BY <1>1 DEF Init, Actor
  <2>3. QED
    BY <2>1, <2>2 DEF MendInv, Idle
<1>2. ASSUME Sound, MendInv PROVE SyncMends
  <2>1. SUFFICES ASSUME threads["sync"] = Idle, synced.passes = Cardinality(Uid),
                        synced.config = file
                 PROVE  AllSettled(file)
    BY <2>1 DEF SyncMends, Synced, AllSettled, Settled
  <2>2. PICK c \in Doc : c = file
    BY <1>2 DEF Sound, FileInv
  <2>3. /\ IsFiniteSet(Right(c)) /\ Cardinality(Right(c)) \in Nat /\ Right(c) \subseteq Uid
        /\ Cardinality(Right(c)) <= Cardinality(Uid) /\ Cardinality(Uid) \in Nat
    BY RightCounts
  <2>4. CASE Cardinality(Uid) = 0
    <3>1. Uid = {}
      BY <2>4, UidAssumption, FS_EmptySet
    <3>2. QED
      BY <3>1 DEF AllSettled, D!Connected
  <2>5. CASE Cardinality(Uid) >= 1
    <3>1. BetweenPasses(c, Cardinality(Uid))
      BY <1>2, <2>1, <2>2, <2>5 DEF MendInv, Idle
    <3>2. CASE AllSettled(c)
      BY <2>2, <3>2
    <3>3. CASE Cardinality(Right(c)) >= Cardinality(Uid)
      <4>1. Right(c) = Uid
        BY <2>3, <3>3, UidAssumption, FS_Subset
      <4>2. QED
        BY <2>2, <4>1 DEF AllSettled, Settled, Right, D!Connected
    <3>4. QED
      BY <3>1, <3>2, <3>3 DEF BetweenPasses
  <2>6. QED
    BY <2>3, <2>4, <2>5
<1>3. QED
  BY <1>1, <1>2, StepMends, Invariance, PTL DEF Spec

=============================================================================
