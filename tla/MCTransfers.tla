---------------------------- MODULE MCTransfers ----------------------------
(***************************************************************************)
(* Small instances of Transfers: one amount moves between three accounts.  *)
(***************************************************************************)
EXTENDS Transfers

Fact(account, date, amount, names) ==
    [account |-> account, date |-> date, amount |-> amount, names |-> names]

\* Leg 1 left account A and either of 2 and 3 could be its other half; 3 may
\* arrive pending.  Leg 2 prints a name the passthrough declaration matches.
ThreeFacts ==
    <<Fact("A", 1, -5, None), Fact("B", 2, 5, None), Fact("C", 1, 5, None)>>
ThreeDeclarations == <<[to |-> "deposit", legs |-> {2}, incoming |-> TRUE]>>
ThreeArrivals == {<<1, "BOOK">>, <<2, "BOOK">>, <<3, "BOOK">>, <<3, "PDNG">>}

\* The same legs, all booked.
BookedArrivals == {<<1, "BOOK">>, <<2, "BOOK">>, <<3, "BOOK">>}
=============================================================================
