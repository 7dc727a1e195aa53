------------------------------- MODULE Verify -------------------------------
(***************************************************************************)
(* The verification pass of verify.go: four checks, each over one snapshot *)
(* of the tables, that re-derive the ledger from its postings.  A check is *)
(* the set of problems it would append to the report.                      *)
(***************************************************************************)
EXTENDS LedgerData

\* The sum-zero rule over stored rows.
CheckTransfersBalance(trs) ==
    {kc \in (1 .. Len(trs)) \X Currencies : Net(trs[kc[1]], kc[2]) # 0}

\* The sum of all postings on account a.
PostingsTotal(trs, a) ==
    SumTo([k \in 1 .. Len(trs) |-> Delta(trs[k], a)], Len(trs))

\* Mutant: the balance is taken on the account's normal side.
CheckNormalBalances(bal, trs) ==
    {a \in Accounts : Normalise(bal[a], a) # PostingsTotal(trs, a)}

\* The materialised balance against the sum of postings.
CheckBalancesMatchPostings(bal, trs) ==
    {a \in Accounts : bal[a] # PostingsTotal(trs, a)}

\* The stored balances of one currency's accounts, added up.
TrialBalance(accs, bal, c) ==
    SumTo([a \in Accounts |->
              IF accs[a] # "none" /\ Chart[a].currency = c THEN bal[a] ELSE 0],
          NumAccounts)

CheckTrialBalance(accs, bal) ==
    {c \in Currencies : TrialBalance(accs, bal, c) # 0}

\* Mutant: the links are followed, the digests are not recomputed.
CheckLinks(trs) ==
    {k \in 1 .. Len(trs) : trs[k].prev # (IF k = 1 THEN NoHash ELSE trs[k - 1].hash)}

\* Rows in id order: each must carry the stored hash of the one before, and a
\* hash that describes its own contents.
CheckChain(trs) ==
    {k \in 1 .. Len(trs) :
        \/ trs[k].prev # (IF k = 1 THEN NoHash ELSE trs[k - 1].hash)
        \/ trs[k].hash # ChainDigest(trs[k].prev, Content(trs[k]))}

=============================================================================
