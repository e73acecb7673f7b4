----------------------------- MODULE MCBalances -----------------------------
EXTENDS Balances

\* Two card payments of different amounts, so that no sum hides another.
MCAmount == [m \in Movement |-> IF m = "p" THEN -1 ELSE -3]
\* A bank that declares both figures, or neither when its call fails.
MCReports == {{"eb:ITAV", "eb:ITBD"}}
=============================================================================
