----------------------------- MODULE Reconcile ------------------------------
(***************************************************************************)
(* Reconciliation (reconcile.go): the postings of one account in a window  *)
(* of ledger dates against a record from outside, paired by reference and  *)
(* nothing else.  The result is a report; nothing is written.  The window  *)
(* is that of the API (two instants) or of the command (two days).         *)
(***************************************************************************)
EXTENDS History

CONSTANTS
    Files,    \* external records: sequences of entries, as a caller hands them in
    DayLength \* microseconds in a day

ASSUME FilesAssumption ==
    /\ \A file \in Files : file \in Seq([reference : STRING, amount : Int, currency : STRING])
    /\ DayLength \in Nat \ {0}

\* The column can hold only so late a date.
ASSUME LastInstantAssumption == \E last \in Instants : \A at \in Instants : at =< last

-----------------------------------------------------------------------------
(* The window.                                                             *)

DayStart(day) == day * DayLength

\* Mutant: the end of a day is the start of the next.
DayEndMidnight(day) == DayStart(day) + DayLength

\* A bare day as the end of a window: its last microsecond.
DayEnd(day) == DayStart(day) + DayLength - 1

\* The transfers dated in [from, to].
Window(from, to) ==
    {k \in DOMAIN history : history[k].posted_at >= from /\ history[k].posted_at =< to}

-----------------------------------------------------------------------------
(* The two sides.                                                          *)

\* Transfers of the window with a posting on account a, one line per reference.
LedgerSide(a, from, to) == {k \in Window(from, to) : a \in Touched(history[k])}

LineAmount(k, a) == Normalise(Delta(history[k], a), a)

\* A file is refused whole if an entry has no reference or another currency, or
\* if a reference appears twice.
Accepts(file, a) ==
    /\ \A i \in DOMAIN file :
          file[i].reference # "" /\ file[i].currency = Chart[a].currency
    /\ IsInjective([i \in DOMAIN file |-> file[i].reference])

-----------------------------------------------------------------------------
(* The report: buckets of transfers, of entries, and of pairs of both.     *)

LedgerTotal(side, a) ==
    SumTo([k \in DOMAIN history |-> IF k \in side THEN LineAmount(k, a) ELSE 0],
          Len(history))

ExternalTotal(file) == SumTo([i \in DOMAIN file |-> file[i].amount], Len(file))

\* A line and an entry with the same reference.
Pairs(side, file) ==
    {p \in side \X (DOMAIN file) : history[p[1]].reference = file[p[2]].reference}

\* Mutant: the loop does not take a paired line off the ledger side.
ReportKeepsPaired(a, from, to, file) ==
    LET side  == LedgerSide(a, from, to)
        pairs == Pairs(side, file)
    IN [matched           |-> {p \in pairs : LineAmount(p[1], a) = file[p[2]].amount},
        amountMismatch    |-> {p \in pairs : LineAmount(p[1], a) # file[p[2]].amount},
        missingInLedger   |-> DOMAIN file \ {p[2] : p \in pairs},
        missingExternally |-> side,
        difference        |-> LedgerTotal(side, a) - ExternalTotal(file)]

Report(a, from, to, file) ==
    LET side  == LedgerSide(a, from, to)
        pairs == Pairs(side, file)
    IN [matched           |-> {p \in pairs : LineAmount(p[1], a) = file[p[2]].amount},
        amountMismatch    |-> {p \in pairs : LineAmount(p[1], a) # file[p[2]].amount},
        missingInLedger   |-> DOMAIN file \ {p[2] : p \in pairs},
        missingExternally |-> side \ {p[1] : p \in pairs},
        difference        |-> LedgerTotal(side, a) - ExternalTotal(file)]

\* Mutant: amounts that differ do not count.
CleanIfPaired(r) == r.missingInLedger = {} /\ r.missingExternally = {}

Clean(r) ==
    r.amountMismatch = {} /\ r.missingInLedger = {} /\ r.missingExternally = {}

-----------------------------------------------------------------------------
(* Properties, of every report on every file the engine accepts, for every *)
(* account and window.                                                     *)

Days == 0 .. (CHOOSE at \in Instants : \A other \in Instants : other =< at) \div DayLength

\* Windows of the API, which refuses one that ends before it starts, and of
\* the command, which does not.
Windows ==
    {w \in Instants \X Instants : w[1] =< w[2]}
        \cup {<<DayStart(d), DayEnd(e)>> : d, e \in Days}

OfEveryReport(P(_, _, _, _, _)) ==
    \A a \in Accounts, w \in Windows, file \in Files :
        Accepts(file, a) => P(a, w[1], w[2], file, Report(a, w[1], w[2], file))

\* "Every entry lands in exactly one bucket": the buckets split the lines of
\* the file, and they split the ledger's side of the window.
OneBucket ==
    OfEveryReport(LAMBDA a, from, to, file, r :
        LET paired == r.matched \cup r.amountMismatch IN
        /\ r.matched \cap r.amountMismatch = {}
        /\ Cardinality(paired) + Cardinality(r.missingInLedger) = Len(file)
        /\ Cardinality(paired) + Cardinality(r.missingExternally)
             = Cardinality(LedgerSide(a, from, to))
        /\ {p[2] : p \in paired} \cup r.missingInLedger = DOMAIN file
        /\ {p[1] : p \in paired} \cup r.missingExternally = LedgerSide(a, from, to))

\* A clean report is an agreement: the file says, entry for entry, what the
\* ledger says of that account and window, so the totals agree as well and the
\* external total is how far the account's balance moved over the window.
CleanMeansAgreement ==
    OfEveryReport(LAMBDA a, from, to, file, r :
        Clean(r) =>
            /\ r.difference = 0
            /\ {<<file[i].reference, file[i].amount>> : i \in DOMAIN file}
                 = {<<history[k].reference, LineAmount(k, a)>> : k \in LedgerSide(a, from, to)}
            /\ from =< to =>
                 ExternalTotal(file) = BalanceAsOf(a, to) - BalanceAsOf(a, from - 1))

\* Reconciling day by day covers every transfer once: no instant falls between
\* two days, and none into both.
DaysPartition ==
    \A k \in DOMAIN history :
        Cardinality({day \in Days : k \in Window(DayStart(day), DayEnd(day))}) = 1

=============================================================================
