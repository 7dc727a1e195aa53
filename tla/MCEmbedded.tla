----------------------------- MODULE MCEmbedded -----------------------------
(***************************************************************************)
(* Instances of the embedded mode for TLC: 1 is the company's own account, *)
(* 2 a guarded wallet.                                                     *)
(***************************************************************************)
EXTENDS Embedded, TLC

Leg(d, a, n) == [account |-> a, amount |-> n, currency |-> "TRY", dir |-> d]
Pay(ref, from, to, n) ==
    [reference |-> ref, reverses |-> 0,
     postings |-> <<Leg("debit", from, n), Leg("credit", to, n)>>]
HoldOf(ref, a, n, e) ==
    [reference |-> ref, account |-> a, amount |-> n, currency |-> "TRY", expires |-> e]

MCChart ==
    [a \in Accounts |->
        [currency |-> "TRY", debitNormal |-> a = 1, allowNegative |-> a = 1]]

\* A top-up, which can be undone, reserved and captured.
Posts == { Pay("topup", 1, 2, 1) }
Undos == { "undo" }
Holds == { HoldOf(1, 2, 1, TRUE) }
Captures == { <<1, Pay("cap", 2, 1, 1)>> }

\* Callers that all roll back on an error at READ COMMITTED, or that all go on
\* and one of which is at REPEATABLE READ.
MCPrograms ==
    {[careless |-> {}, snapshots |-> {}]} \cup
    {[careless |-> Callers, snapshots |-> {c}] : c \in Callers}

CallerSymmetry == Permutations(Callers)
=============================================================================
