------------------------------ MODULE MCAudit -------------------------------
(***************************************************************************)
(* Instances of the verification pass for TLC: 1 is debit normal, 2 and 3  *)
(* credit normal, 3 guarded; the last transfer moves no balance.           *)
(***************************************************************************)
EXTENDS Audit

Leg(d, a, n) == [account |-> a, amount |-> n, currency |-> "TRY", dir |-> d]

MCChart ==
    [a \in Accounts |->
        [currency |-> "TRY", debitNormal |-> a = 1, allowNegative |-> a # 3]]

MCRequests == {
    [reference |-> "sale", reverses |-> 0,
     postings |-> <<Leg("debit", 1, 3), Leg("credit", 2, 1), Leg("credit", 2, 2)>>],
    [reference |-> "payout", reverses |-> 0,
     postings |-> <<Leg("debit", 2, 1), Leg("credit", 3, 1)>>],
    [reference |-> "fee", reverses |-> 0,
     postings |-> <<Leg("debit", 3, 1), Leg("credit", 2, 1)>>],
    [reference |-> "wash", reverses |-> 0,
     postings |-> <<Leg("debit", 2, 2), Leg("credit", 2, 2)>>] }

None == {}
=============================================================================
