------------------------------- MODULE MCSync -------------------------------
(***************************************************************************)
(* A small instance of Sync: one account with two movements, three days,   *)
(* and a period over all of them or over one.                              *)
(***************************************************************************)
EXTENDS Sync

BothOfA == [m \in Movement |-> "a"]
Alone == <<"a">>
NoStart == [a \in Account |-> None]
Threads == [t \in Thread |-> IF t = "cli" THEN "cli" ELSE "server"]

WholeRange == {[account |-> "a", from |-> 1, to |-> LastDay, preview |-> FALSE],
               [account |-> "a", from |-> 2, to |-> 2, preview |-> TRUE]}
=============================================================================
