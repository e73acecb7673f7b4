------------------------------ MODULE Document ------------------------------
(***************************************************************************)
(* What the configuration document promises (amonhen/config.py): the file  *)
(* that names the connected accounts changes by one whole edit at a time,  *)
(* and an edit that is refused leaves it exactly as it was.                *)
(*                                                                         *)
(* An entry is known by the uid the bank gives its account.  A name is a   *)
(* base and the numbers that keep it apart: "Conto", "Conto 2".            *)
(***************************************************************************)
EXTENDS Integers, Sequences, FiniteSetsExt

CONSTANTS
    Uid,            \* the accounts a bank may share
    Base,           \* what a person or a bank calls an account
    Session,        \* the sessions consents open
    None,
    Declared        \* documents to start from

VARIABLE doc        \* what is declared of each account, None when nothing is

Name == [base: Base, numbers: Seq(Nat)]
Plain(b) == [base |-> b, numbers |-> <<>>]

\* `start` is start_sync_date: the day of a consent, a person's choice, or nothing.
Entry == [session: Session, name: Name, start: {"consent", "chosen", None}]

Connected(d) == {u \in Uid : d[u] # None}
Taken(d) == {d[u].name : u \in Connected(d)}

\* Mutant: a name is taken as it comes.
AsItComes(name, taken) == name
\* unique_name, and the numbering of ensure_account: the first one not taken.
Numbered(name, taken) ==
    LET With(k) == IF k = 1 THEN name ELSE [name EXCEPT !.numbers = Append(@, k)]
    IN  With(Min({k \in 1..(Cardinality(taken) + 1) : With(k) \notin taken}))

\* Mutant: what the consent says replaces what a person decided.
Overwritten(d, u, s, n) ==
    [d EXCEPT ![u] = [session |-> s, name |-> n, start |-> "consent"]]
\* save_account: a known uid takes the new session and keeps its name and start.
Saved(d, u, s, n) ==
    IF u \in Connected(d)
    THEN [d EXCEPT ![u].session = s,
                   ![u].start = IF @ = None THEN "consent" ELSE @]
    ELSE [d EXCEPT ![u] = [session |-> s, name |-> Numbered(n, Taken(d)),
                           start |-> "consent"]]

\* rename_account refuses an uid it does not hold and a name another entry has.
Renamable(d, u, n) == u \in Connected(d) /\ \A v \in Connected(d) \ {u} : d[v].name # n
Renamed(d, u, n, start) == [d EXCEPT ![u].name = n, ![u].start = start]

\* Mutant: the consent is withdrawn and the entry stays.
Withdrawn(d, u) == IF d[u] = None THEN d ELSE [d EXCEPT ![u].session = None]
\* remove_account
Removed(d, u) == [d EXCEPT ![u] = None]

\* What one edit makes of the document it reads; refused, it changes nothing.
Edited(d, e) ==
    CASE e.do = "save"   -> Saved(d, e.uid, e.session, e.name)
      [] e.do = "rename" -> IF Renamable(d, e.uid, e.name)
                            THEN Renamed(d, e.uid, e.name, e.start) ELSE d
      [] e.do = "remove" -> Removed(d, e.uid)

Init == doc \in Declared

Save == \E u \in Uid, s \in Session, b \in Base : doc' = Saved(doc, u, s, Plain(b))
Rename ==
    \E u \in Uid, b \in Base, start \in {"chosen", None} :
        Renamable(doc, u, Plain(b)) /\ doc' = Renamed(doc, u, Plain(b), start)
Remove == \E u \in Uid : doc' = Removed(doc, u)

Next == Save \/ Rename \/ Remove
Spec == Init /\ [][Next]_doc
=============================================================================
