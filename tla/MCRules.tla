------------------------------ MODULE MCRules ------------------------------
(***************************************************************************)
(* A small instance of Rules: one movement of a bank account, an account   *)
(* added by hand, and two texts, one within the other.                     *)
(***************************************************************************)
EXTENDS Rules

Fact(account, says, size, status) ==
    [account |-> account, says |-> says, size |-> size, status |-> status]
Text(text, length, order, account, least, most) ==
    [text |-> text, length |-> length, order |-> order,
     account |-> account, least |-> least, most |-> most]
Rule(pattern, action, target) ==
    [pattern |-> pattern, action |-> action, target |-> target]

\* The first movement holds the longer text too, and arrives pending.
OneFact == <<Fact("bank", {"amazon", "amazon prime"}, 5, "PDNG")>>
Broad == Text("amazon", 6, 1, None, None, None)
Prime == Text("amazon prime", 12, 2, None, None, None)
Small == Text("amazon", 6, 1, None, None, 10)
Patterns == {Broad, Prime, Small}

Shop == Rule(Broad, "category", "shop")
Films == Rule(Prime, "category", "films")
Deposit == Rule(Broad, "transfer", "deposit")
Wallet == Rule(Prime, "transfer", "wallet")
Home == Rule(Small, "tag", "home")
Trash == Rule(Broad, "delete", None)

SixWritten == {Shop, Films, Deposit, Wallet, Home, Trash}
Starts == {<<Home, None>>, <<Deposit, Films>>}
=============================================================================
