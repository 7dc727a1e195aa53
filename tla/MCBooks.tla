------------------------------ MODULE MCBooks -------------------------------
(***************************************************************************)
(* A small ledger for TLC: a float account the company may overdraw, two   *)
(* guarded customer wallets, one of them opened late, and an account in    *)
(* another currency.                                                       *)
(***************************************************************************)
EXTENDS Books, TLC

Leg(d, a, n) == [account |-> a, amount |-> n, currency |-> "TRY", dir |-> d]
Pay(ref, from, to, n) ==
    [reference |-> ref, reverses |-> 0,
     postings |-> <<Leg("debit", from, n), Leg("credit", to, n)>>]

MCChart ==
    <<[currency |-> "TRY", debitNormal |-> TRUE,  allowNegative |-> TRUE],
      [currency |-> "TRY", debitNormal |-> FALSE, allowNegative |-> FALSE],
      [currency |-> "TRY", debitNormal |-> FALSE, allowNegative |-> FALSE],
      [currency |-> "EUR", debitNormal |-> TRUE,  allowNegative |-> TRUE]>>

\* Account 1 is an asset, so debiting it and crediting a wallet is a top-up.
MCRequests ==
    { Pay("topup", 1, 2, 2),
      Pay("move", 2, 3, 1),
      \* three legs, one account twice: the wallet keeps 1 of 2
      [reference |-> "split", reverses |-> 0,
       postings |-> <<Leg("debit", 1, 2), Leg("credit", 3, 2), Leg("debit", 3, 1),
                      Leg("credit", 1, 1)>>],
      \* not balanced, wrong currency for the account, no reference, unknown account,
      \* unknown direction
      [reference |-> "skew", reverses |-> 0,
       postings |-> <<Leg("debit", 1, 2), Leg("credit", 2, 1)>>],
      Pay("fx", 4, 1, 1),
      Pay("", 1, 2, 1),
      Pay("ghost", 1, 9, 1),
      [reference |-> "typo", reverses |-> 0,
       postings |-> <<Leg("sideways", 1, 1), Leg("credit", 2, 1)>>] }

MCHoldRequests ==
    { [reference |-> 1, account |-> 2, amount |-> 2, currency |-> "TRY", expires |-> TRUE],
      [reference |-> 2, account |-> 2, amount |-> 1, currency |-> "TRY", expires |-> FALSE],
      [reference |-> 2, account |-> 3, amount |-> 1, currency |-> "TRY", expires |-> TRUE],
      [reference |-> 0, account |-> 2, amount |-> 1, currency |-> "TRY", expires |-> FALSE] }

MCCaptureRequests ==
    { <<1, Pay("capA", 2, 1, 1)>>,   \* part of the hold
      <<2, Pay("capB", 2, 3, 1)>>,   \* draws on 2, pays 3
      <<1, Pay("capB", 2, 3, 1)>>,   \* the same transfer against another hold
      <<2, Pay("big", 2, 1, 2)>>,    \* more than hold 2 reserves
      <<2, Pay("move", 2, 3, 1)>> }  \* a reference a plain post may have used
MCReversalRefs == {"undo", "redo"}
=============================================================================
