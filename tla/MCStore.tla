------------------------------ MODULE MCStore -------------------------------
(***************************************************************************)
(* Instances of the concurrent engine for TLC.                             *)
(***************************************************************************)
EXTENDS Store, TLC

Leg(d, a, n) == [account |-> a, amount |-> n, currency |-> "TRY", dir |-> d]
Pay(ref, from, to, n) ==
    [reference |-> ref, reverses |-> 0,
     postings |-> <<Leg("debit", from, n), Leg("credit", to, n)>>]
HoldOf(ref, a, n, e) ==
    [reference |-> ref, account |-> a, amount |-> n, currency |-> "TRY", expires |-> e]

\* 1 and 4 are the company's own accounts, 2 and 3 are guarded customer wallets.
MCChart ==
    [a \in Accounts |->
        [currency |-> "TRY", debitNormal |-> a \in {1, 4}, allowNegative |-> a \in {1, 4}]]

\* Posts that compete for the same money, two of them with no account in common,
\* which meet only at the chain, and two reversals that compete for the same
\* transfer or undo one another.  Wallet 3 is opened late and archived any time.
PostRequests == { Pay("topup", 1, 2, 1), Pay("spend", 2, 3, 1), Pay("grant", 4, 3, 1) }
PostReversals == {"undo", "redo"}

\* Holds, captures, releases and the sweep over one funded wallet.
HoldTopups == { Pay("topup", 1, 2, 2), Pay("spend", 2, 1, 1) }
HoldHolds == { HoldOf(1, 2, 1, TRUE), HoldOf(2, 2, 2, TRUE), HoldOf(2, 1, 1, FALSE) }
HoldCaptures == { <<1, Pay("cap", 2, 1, 1)>>, <<2, Pay("cap", 2, 1, 1)>> }

\* One wallet, one post, one hold that lapses, one capture.
LiveRequests == { Pay("topup", 1, 2, 1) }
LiveHolds == { HoldOf(1, 2, 1, TRUE), HoldOf(2, 1, 1, FALSE) }
LiveCaptures == { <<1, Pay("cap", 2, 1, 1)>> }

None == {}
SessionSymmetry == Permutations(Sessions)
=============================================================================
