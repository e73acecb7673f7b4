------------------------------- MODULE Setup -------------------------------
(***************************************************************************)
(* Connecting, naming and dropping accounts (amonhen/config.py, the setup  *)
(* and consent routes of amonhen/api.py) and the ledger's own list of      *)
(* accounts that must follow (Ledger.ensure_account, rename_account,       *)
(* delete_account).                                                        *)
(*                                                                         *)
(* Requests run in threads of one server process, beside the scheduled     *)
(* sync.  They share the document, which is edited under a lock and read   *)
(* without one, and the accounts of the ledger, which no lock protects: a  *)
(* request that touches both is several steps.  A stop of the process      *)
(* keeps the file and the ledger and forgets the rest.                     *)
(*                                                                         *)
(* Opening, movements and balances of an account are not here: an account  *)
(* of the ledger is a name, a type and the uid of the bank's account it    *)
(* holds.  Categories and virtual accounts are rows of the same table, and *)
(* their names are looked up with the others.                              *)
(***************************************************************************)
EXTENDS Integers, Sequences, FiniteSetsExt, Functions, TLC

CONSTANTS
    Uid, Base, Session, None, Declared,     \* of Document
    Consents,       \* what the bank shares: the uids, in the order it lists them
    Thread,         \* who serves the requests
    Row,            \* ids of the ledger's accounts
    Application,    \* application ids, each with the key that belongs to it
    Request,        \* the kinds of request a person makes
    MaxRequests, MaxStops   \* bounds: requests, and stops of the process

ASSUME UidAssumption ==
    None \notin Uid \cup Session \cup {"consent", "chosen"} /\ IsFiniteSet(Uid)
ASSUME ThreadAssumption == "sync" \notin Thread /\ None \notin Thread \cup {"sync"}
ASSUME RowAssumption == Row \subseteq Nat
ASSUME ConsentsAssumption == Consents \subseteq Seq(Uid)
ASSUME ApplicationAssumption == None \notin Application
ASSUME BoundsAssumption == MaxRequests \in Nat /\ MaxStops \in Nat

VARIABLES
    file,           \* the accounts of accounts.json
    credentials,    \* its application id, and the application the key on disk is of
    lock,           \* who is editing the document
    accounts,       \* the ledger's accounts: a name and a uid
    pending,        \* PENDING_OAUTH: the login waiting for its answer
    issued,         \* the logins started, and the ones the bank has answered
    threads,        \* what each thread is doing
    asked, stops,
    synced          \* history: the document the last syncs went by, and how many of
                    \* them (no more than accounts) nothing else touched the accounts between

vars == <<file, credentials, lock, accounts, pending, issued, threads, asked, stops,
          synced>>
login == <<pending, issued>>
bounds == <<asked, stops>>

D == INSTANCE Document WITH doc <- file

\* An account of the ledger; a uid of None is an account no bank reports.  One that is
\* not real is a category, or a virtual account, which is like a category nobody renames.
Account == [name: D!Name, uid: Uid \cup {None}, type: {"real", "category"}]

\* A document to start from is one the program has written.
ASSUME DeclaredAssumption ==
    /\ None \notin D!Entry /\ None \notin Account
    /\ Declared \subseteq [Uid -> D!Entry \cup {None}]
    /\ \A d \in Declared : \A u, v \in D!Connected(d) : u # v => d[u].name # d[v].name

Idle == [at |-> "idle"]
Actor == Thread \cup {"sync"}

Used == {r \in Row : accounts[r] # None}
Of(u) == {r \in Used : accounts[r].uid = u}
Called(n) == {r \in Used : accounts[r].name = n}
Names == {accounts[r].name : r \in Used}

TypeOK ==
    /\ \A u \in Uid : file[u] = None \/
           /\ file[u].session \in Session /\ file[u].name \in D!Name
           /\ file[u].start \in {"consent", "chosen", None}
    /\ credentials \in [id: Application \cup {None}, key: Application \cup {None}]
    /\ lock \in Actor \cup {None}
    /\ \A r \in Used : accounts[r].uid \in Uid \cup {None} /\ accounts[r].name \in D!Name
                       /\ accounts[r].type \in {"real", "category"}
    /\ pending \in Session \cup {None}
    /\ issued \in [started: SUBSET Session, answered: SUBSET Session]
    /\ DOMAIN threads = Actor
    /\ asked \in 0..MaxRequests /\ stops \in 0..MaxStops

\* A server with its credentials, or one nothing was told yet.
Init ==
    /\ D!Init
    /\ credentials \in {[id |-> a, key |-> a] : a \in {None} \cup Application}
    /\ lock = None /\ accounts = [r \in Row |-> None]
    /\ pending = None /\ issued = [started |-> {}, answered |-> {}]
    /\ threads = [t \in Actor |-> Idle]
    /\ asked = 0 /\ stops = 0
    /\ synced = [config |-> file, passes |-> 0]

-----------------------------------------------------------------------------
(* The document: one edit is a read under the lock and an os.replace.      *)

Disturbed == synced' = [synced EXCEPT !.passes = 0]

Become(t, j) == threads' = [threads EXCEPT ![t] = j]
\* The edits a thread has to make, one lock each, and what it does after them.
Editing(todo, next) ==
    IF todo = <<>> THEN next ELSE [at |-> "edit", todo |-> todo, next |-> next]

\* Mutant: the lock is not there.
Unlocked(t) == TRUE
Free(t) == lock = None
Read(t) ==
    /\ threads[t].at = "edit" /\ Free(t)
    /\ lock' = t
    /\ Become(t, [at |-> "replace", todo |-> threads[t].todo, next |-> threads[t].next,
                  copy |-> file])
    /\ UNCHANGED <<file, credentials, accounts, login, bounds, synced>>

\* _editing: an exception skips the write, and ends the request.
Refused(e, d) ==
    \/ e.do = "rename" /\ ~D!Renamable(d, e.uid, e.name)
    \/ e.do = "remove" /\ d[e.uid] = None
Replace(t) ==
    LET e == Head(threads[t].todo)
        copy == threads[t].copy
    IN  /\ threads[t].at = "replace"
        /\ lock' = None
        /\ file' = D!Edited(copy, e)
        /\ Become(t, IF Refused(e, copy) THEN Idle
                     ELSE Editing(Tail(threads[t].todo), threads[t].next))
        /\ UNCHANGED <<credentials, accounts, login, bounds, synced>>

\* The key after the id it is for.
CredentialSteps == <<"id", "key">>

\* save_credentials: the application id is an edit of the document, the key a file.
SaveCredential(t) ==
    /\ threads[t].at = "credentials"
    /\ LET step == Head(threads[t].steps)
       IN  /\ step = "id" => Free(t)
           /\ credentials' = [credentials EXCEPT ![step] = threads[t].app]
    /\ Become(t, IF Len(threads[t].steps) = 1 THEN Idle
                 ELSE [threads[t] EXCEPT !.steps = Tail(@)])
    /\ UNCHANGED <<file, lock, accounts, login, bounds, synced>>

-----------------------------------------------------------------------------
(* The ledger's accounts.                                                  *)

NextRow == IF Used = {} THEN 1 ELSE Max(Used) + 1
PutRow(r, a) == accounts' = [accounts EXCEPT ![r] = a]

\* Mutant: an account keeps the name it first had.
FirstName(r, n) == accounts
\* rename_account of the ledger: only a real account, and no name any other account holds.
Relabelled(r, n) ==
    IF accounts[r].type = "real" /\ Called(n) \ {r} = {}
    THEN [accounts EXCEPT ![r].name = n] ELSE accounts

\* Mutant: the name is looked up before the uid.
EnsuredByName(u, n) ==
    IF Called(n) # {} THEN accounts' = [r \in Row |-> IF r \in Called(n)
                                 THEN [accounts[r] EXCEPT !.uid = u] ELSE accounts[r]]
    ELSE NextRow \in Row /\ PutRow(NextRow, [name |-> n, uid |-> u, type |-> "real"])
\* ensure_account: by uid; by name when the row has no uid, whatever its type; a new row,
\* numbered.
Ensured(u, n) ==
    IF Of(u) # {} THEN \E r \in Of(u) : accounts' = Relabelled(r, n)
    ELSE IF \E r \in Called(n) : accounts[r].uid = None
    THEN \E r \in Called(n) : PutRow(r, [accounts[r] EXCEPT !.uid = u])
    ELSE /\ NextRow \in Row                                     \* bound on Row
         /\ PutRow(NextRow, [name |-> D!Numbered(n, Names), uid |-> u, type |-> "real"])

-----------------------------------------------------------------------------
(* The sync goes by the document as it was when it began.                  *)

StartSync ==
    /\ threads["sync"] = Idle
    /\ Become("sync", [at |-> "sync", config |-> file, todo |-> D!Connected(file)])
    /\ synced' = [config |-> file,
                  passes |-> IF synced.config # file THEN 1
                             ELSE Min({synced.passes + 1, Cardinality(Uid)})]
    /\ UNCHANGED <<file, credentials, lock, accounts, login, bounds>>

SyncAccount(u) ==
    LET j == threads["sync"]
    IN  /\ j.at = "sync" /\ u \in j.todo
        /\ Ensured(u, j.config[u].name)
        /\ Become("sync", [j EXCEPT !.todo = @ \ {u}])
        /\ UNCHANGED <<file, credentials, lock, login, bounds, synced>>

EndSync ==
    /\ threads["sync"].at = "sync" /\ threads["sync"].todo = {}
    /\ Become("sync", Idle)
    /\ UNCHANGED <<file, credentials, lock, accounts, login, bounds, synced>>

-----------------------------------------------------------------------------
(* Requests.                                                               *)

Ask(kind, t) ==
    /\ kind \in Request /\ asked < MaxRequests /\ asked' = asked + 1
    /\ threads[t] = Idle /\ UNCHANGED stops

\* The key may be left as it is.
AskCredentials(t, a) ==
    /\ Ask("credentials", t)
    /\ \E steps \in {CredentialSteps, <<"id">>} :
         Become(t, [at |-> "credentials", steps |-> steps, app |-> a])
    /\ UNCHANGED <<file, credentials, lock, accounts, login, synced>>

\* start_authorization: one login is remembered, the last started.
Connect(t, s) ==
    /\ Ask("connect", t)
    /\ None \notin {credentials.id, credentials.key}            \* credentials_or_409
    /\ s \notin issued.started
    /\ pending' = s
    /\ issued' = [issued EXCEPT !.started = @ \cup {s}]
    /\ UNCHANGED <<file, credentials, lock, accounts, threads, synced>>

\* The browser comes back, more than once if it is reloaded.
Callback(t, s) ==
    /\ threads[t] = Idle /\ s \in issued.started
    /\ pending = s
    /\ Become(t, [at |-> "answer", session |-> s])
    /\ UNCHANGED <<file, credentials, lock, accounts, login, bounds, synced>>

\* complete_auth: the bank answers a code once; then one save_account per account.
Answer(t) ==
    /\ threads[t].at = "answer"
    /\ LET s == threads[t].session
           Save(u, b) == [do |-> "save", uid |-> u, session |-> s, name |-> D!Plain(b)]
       IN  IF s \in issued.answered THEN Become(t, Idle) /\ UNCHANGED login
           ELSE /\ issued' = [issued EXCEPT !.answered = @ \cup {s}]
                /\ \E shared \in Consents, b \in Base :
                     Become(t, Editing([i \in DOMAIN shared |-> Save(shared[i], b)],
                                       [at |-> "forget"]))
                /\ UNCHANGED pending
    /\ UNCHANGED <<file, credentials, lock, accounts, bounds, synced>>

\* Whatever login is pending by now.
Forget(t) ==
    /\ threads[t].at = "forget"
    /\ pending' = None
    /\ Become(t, Idle)
    /\ UNCHANGED <<file, credentials, lock, accounts, issued, bounds, synced>>

\* rename_configured_account: the ledger is asked, the document edited, the ledger renamed.
Rename(t, u, b, start) ==
    /\ Ask("rename", t)
    /\ Called(D!Plain(b)) \subseteq Of(u)
    /\ LET e == [do |-> "rename", uid |-> u, name |-> D!Plain(b), start |-> start]
       IN  Become(t, Editing(<<e>>, IF Of(u) = {} THEN Idle
                                    ELSE [at |-> "relabel", row |-> Max(Of(u)),
                                          name |-> D!Plain(b)]))
    /\ UNCHANGED <<file, credentials, lock, accounts, login, synced>>

\* An account that is gone, or a name taken meanwhile, is an error after the edit.
Relabel(t) ==
    /\ threads[t].at = "relabel"
    /\ accounts' = IF threads[t].row \in Used
                   THEN Relabelled(threads[t].row, threads[t].name) ELSE accounts
    /\ Disturbed
    /\ Become(t, Idle)
    /\ UNCHANGED <<file, credentials, lock, login, bounds>>

Remove(t, u) ==
    /\ Ask("remove", t)
    /\ Become(t, Editing(<<[do |-> "remove", uid |-> u]>>, Idle))
    /\ UNCHANGED <<file, credentials, lock, accounts, login, synced>>

\* add_account: by hand, a name the ledger does not know yet.
AddByHand(t, b) ==
    /\ Ask("add", t)
    /\ Called(D!Plain(b)) = {} /\ NextRow \in Row               \* bound on Row
    /\ PutRow(NextRow, [name |-> D!Plain(b), uid |-> None, type |-> "real"])
    /\ Disturbed
    /\ UNCHANGED <<file, credentials, lock, login, threads>>

\* category, transfer_account: one a person or a rule names, where the name is free.
AddCategory(b) ==
    /\ "category" \in Request /\ asked < MaxRequests /\ asked' = asked + 1
    /\ Called(D!Plain(b)) = {} /\ NextRow \in Row               \* bound on Row
    /\ PutRow(NextRow, [name |-> D!Plain(b), uid |-> None, type |-> "category"])
    /\ Disturbed
    /\ UNCHANGED <<file, credentials, lock, login, threads, stops>>

\* rename_category
RenameCategory(r, b) ==
    /\ "rename_category" \in Request /\ asked < MaxRequests /\ asked' = asked + 1
    /\ r \in Used /\ accounts[r].type = "category"
    /\ Called(D!Plain(b)) \subseteq {r}
    /\ PutRow(r, [accounts[r] EXCEPT !.name = D!Plain(b)])
    /\ Disturbed
    /\ UNCHANGED <<file, credentials, lock, login, threads, stops>>

\* delete_account: a real one, out of the ledger first, then out of the document.
Delete(t, r) ==
    /\ Ask("delete", t)
    /\ r \in Used /\ accounts[r].type = "real"
    /\ PutRow(r, None)
    /\ Disturbed
    /\ Become(t, [at |-> "disconnect", name |-> accounts[r].name, uid |-> accounts[r].uid])
    /\ UNCHANGED <<file, credentials, lock, login>>

\* Every entry of the document that has the name the deleted account had.
EntriesToDrop(n, u) == {v \in D!Connected(file) : file[v].name = n}
Disconnect(t) ==
    /\ threads[t].at = "disconnect"
    /\ LET drop == EntriesToDrop(threads[t].name, threads[t].uid)
       IN  \E order \in {q \in [1..Cardinality(drop) -> drop] :
                            {q[i] : i \in DOMAIN q} = drop} :
             Become(t, Editing([i \in DOMAIN order |-> [do |-> "remove", uid |-> order[i]]],
                               Idle))
    /\ UNCHANGED <<file, credentials, lock, accounts, login, bounds, synced>>

\* The process stops and starts again: files and ledger stay.
Stop ==
    /\ stops < MaxStops /\ stops' = stops + 1
    /\ \E t \in Actor : threads[t] # Idle
    /\ threads' = [t \in Actor |-> Idle] /\ lock' = None
    /\ IF threads["sync"] = Idle THEN UNCHANGED synced ELSE Disturbed
    /\ UNCHANGED <<file, credentials, accounts, login, asked>>

-----------------------------------------------------------------------------
Serve(t) ==
    \/ Read(t) \/ Replace(t) \/ SaveCredential(t)
    \/ Answer(t) \/ Forget(t) \/ Relabel(t) \/ Disconnect(t)

Person(t) ==
    \/ \E a \in Application : AskCredentials(t, a)
    \/ \E s \in Session : Connect(t, s) \/ Callback(t, s)
    \/ \E u \in Uid, b \in Base, start \in {"chosen", None} : Rename(t, u, b, start)
    \/ \E u \in Uid : Remove(t, u)
    \/ \E b \in Base : AddByHand(t, b)
    \/ \E r \in Row : Delete(t, r)

Next ==
    \/ \E t \in Thread : Person(t) \/ Serve(t)
    \/ \E b \in Base : AddCategory(b) \/ \E r \in Row : RenameCategory(r, b)
    \/ StartSync \/ EndSync \/ \E u \in Uid : SyncAccount(u)
    \/ Stop

Spec == Init /\ [][Next]_vars

-----------------------------------------------------------------------------
(* Properties.                                                             *)

\* However the edits of several threads interleave, and wherever the process stops,
\* the file goes from one whole edit to the next and none is lost (_editing).
DocumentEdits == D!Spec

\* Two entries never share a name, which would be one account of the ledger for
\* both (unique_name, rename_account).
EntriesApart ==
    \A u, v \in D!Connected(file) : u # v => file[u].name # file[v].name

\* "The name and start date a person curated are kept": no consent changes the name
\* of an entry, nor a start a person chose; only a rename of that entry does.
CuratedKept ==
    [][\A u \in D!Connected(file) :
        (/\ file'[u] # None
         /\ \/ file'[u].name # file[u].name
            \/ file[u].start = "chosen" /\ file'[u].start # "chosen")
        => \E t \in Thread : threads[t].at = "replace" /\ Head(threads[t].todo).do = "rename"
                              /\ Head(threads[t].todo).uid = u]_vars

\* The movements of one bank account go to one account of the ledger, and no other
\* account's movements join them, whatever either is called (ensure_account).
UidKeepsRow ==
    [][\A u \in Uid : \A r \in Of(u) :
        /\ accounts'[r] # None => accounts'[r].uid = u
        /\ \A s \in Row \ {r} : accounts'[s] # None => accounts'[s].uid # u]_vars

\* As many whole syncs as there are accounts leave every entry with its account, under
\* the entry's name unless another account has that name or the account is a category
\* that had it first: what a failed or a late rename left is mended, one sync for each
\* account that waits for another's name.
Synced == threads["sync"] = Idle /\ synced.passes = Cardinality(Uid) /\ synced.config = file
SyncMends ==
    Synced => \A u \in D!Connected(file) : Of(u) # {} /\
        \A r \in Of(u) : \/ accounts[r].name = file[u].name
                        \/ Called(file[u].name) \ {r} # {} \/ accounts[r].type # "real"
=============================================================================
