------------------------------ MODULE MCStorage ------------------------------
EXTENDS Storage

\* The first release's tables, and a ledger that is up to date.
MCFormer == {[t \in Table |-> 0], [t \in Table |-> Present(t)]}
MCRows == {{}, {"r"}}
=============================================================================
