------------------------------ MODULE MCSetup ------------------------------
(***************************************************************************)
(* Small instances of Setup: a bank that shares one account or two.        *)
(***************************************************************************)
EXTENDS Setup

Shared == {<<"u1">>, <<"u1", "u2">>}
\* A name of the instance.
Chosen == CHOOSE b \in Base : TRUE
Empty == [u \in Uid |-> None]
\* One account a person named and dated.
Curated == [Empty EXCEPT !["u1"] =
    [session |-> "s2", name |-> [base |-> Chosen, numbers |-> <<>>], start |-> "chosen"]]
Installed == {Empty, Curated}
=============================================================================
