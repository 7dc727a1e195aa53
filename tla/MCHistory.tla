----------------------------- MODULE MCHistory ------------------------------
(***************************************************************************)
(* Instances of the queries and of reconciliation for TLC: 1 is debit      *)
(* normal, 2 and 3 credit normal.  The first transfer touches account 2    *)
(* twice and the third moves nothing on it.                                *)
(***************************************************************************)
EXTENDS Reconcile

Leg(d, a, n) == [account |-> a, amount |-> n, currency |-> "TRY", dir |-> d]
Entry(ref, n, c) == [reference |-> ref, amount |-> n, currency |-> c]

MCChart ==
    [a \in Accounts |-> [currency |-> "TRY", debitNormal |-> a = 1, allowNegative |-> TRUE]]

MCRequests == {
    [reference |-> "sale", reverses |-> 0,
     postings |-> <<Leg("debit", 1, 3), Leg("credit", 2, 1), Leg("credit", 2, 2)>>],
    [reference |-> "payout", reverses |-> 0,
     postings |-> <<Leg("debit", 2, 1), Leg("credit", 3, 1)>>],
    [reference |-> "wash", reverses |-> 0,
     postings |-> <<Leg("debit", 2, 2), Leg("credit", 2, 2)>>] }

\* Every file of at most two entries: right, wrong and unknown ones, an entry
\* in another currency, an entry without a reference.
Entries == { Entry("sale", 3, "TRY"), Entry("sale", 2, "TRY"), Entry("payout", -1, "TRY"),
             Entry("wash", 0, "TRY"), Entry("fee", 1, "TRY"), Entry("sale", 3, "USD"),
             Entry("", 1, "TRY") }
MCFiles == {<< >>} \cup {<<e>> : e \in Entries} \cup {<<e, f>> : e, f \in Entries}

None == {}
=============================================================================
