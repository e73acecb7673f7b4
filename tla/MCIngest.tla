----------------------------- MODULE MCIngest -----------------------------
(***************************************************************************)
(* Small instances of Ingest.  Two card payments of one amount, X and Y,   *)
(* as the bank reports them (authorised, then settled under another id, on *)
(* another day and in other words) and as the bank's export has X.         *)
(***************************************************************************)
EXTENDS Ingest

MCNormalize == [auth |-> "auth", cafe |-> "cafe", CAFE |-> "cafe", bar |-> "bar"]

Report(date, text, status, source, ext) ==
    [account |-> "card", date |-> date, amount |-> -250, text |-> text,
     status |-> status, source |-> source, ext |-> ext]

XPending == Report(1, "auth", "PDNG", "psd2", "p1")
YPending == Report(2, "auth", "PDNG", "psd2", "p2")
XBooked  == Report(3, "cafe", "BOOK", "psd2", "b1")
YBooked  == Report(3, "bar",  "BOOK", "psd2", "b2")
XInFile  == Report(3, "CAFE", "BOOK", "import", None)

CardIncoming == {XPending, YPending, XBooked, YBooked, XInFile}
CardDescribes ==
    [t \in CardIncoming |-> IF t \in {YPending, YBooked} THEN "Y" ELSE "X"]

Sync(seq)   == [seq |-> seq, hold |-> FALSE]
Period(seq) == [seq |-> seq, hold |-> TRUE]
CardBatches ==
    {Sync(<<YPending, XPending>>), Sync(<<YPending, XBooked>>), Sync(<<YBooked, XBooked>>),
     Sync(<<XInFile>>), Period(<<XBooked, YBooked>>)}

\* These reports are such as the theorems speak of.
ASSUME CardAssumption ==
    Incoming = CardIncoming => OnceEach /\ DifferentPaths /\ ReportsTell /\ IdsTell /\ WindowsTell

\* The same two payments, seen by the daily sync alone.
SyncBatches ==
    {Sync(<<XPending, YPending>>), Sync(<<XBooked, YPending>>)}

\* One payment, which keeps its id when it settles, and a file imported during
\* a sync.
XAuthorised == [XPending EXCEPT !.ext = "b1"]
RaceIncoming == {XAuthorised, XBooked, YBooked, XInFile}
RaceDescribes == [t \in RaceIncoming |-> IF t = YBooked THEN "Y" ELSE "X"]
RaceBatches ==
    {Sync(<<XAuthorised>>), Sync(<<YBooked, XBooked>>), Sync(<<XInFile>>), Period(<<XBooked>>)}
=============================================================================
