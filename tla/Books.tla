------------------------------- MODULE Books --------------------------------
(***************************************************************************)
(* What the ledger promises, one operation at a time: the tables as a      *)
(* caller sees them, with every operation of ledger.Ledger a single atomic *)
(* step that either happens entirely or leaves no trace.  Module Store     *)
(* runs the same operations statement by statement, concurrently, and is   *)
(* checked to implement this specification.                                *)
(***************************************************************************)
EXTENDS Verify

VARIABLES
    accounts,   \* [Accounts -> {"none", "open", "archived"}]
    transfers,  \* the transfers table in id order; the id is the index
    balances,   \* account_balances, debit-positive; 0 until the first posting
    holds       \* [HoldRefs -> HoldRow]

vars == <<accounts, transfers, balances, holds>>

TypeOK ==
    /\ accounts \in [Accounts -> {"none", "open", "archived"}]
    /\ transfers \in Seq(RowType)
    /\ balances \in [Accounts -> Int]
    /\ holds \in [HoldRefs -> HoldRow]

Init ==
    /\ accounts = [a \in Accounts |-> IF a \in InitiallyOpen THEN "open" ELSE "none"]
    /\ transfers = << >>
    /\ balances = [a \in Accounts |-> 0]
    /\ holds = [h \in HoldRefs |-> NoHold]

-----------------------------------------------------------------------------
(* Accounts *)

CreateAccount(a) ==
    /\ accounts[a] = "none"
    /\ accounts' = [accounts EXCEPT ![a] = "open"]
    /\ UNCHANGED <<transfers, balances, holds>>

Archive(a) ==
    /\ accounts[a] # "none"
    /\ accounts' = [accounts EXCEPT ![a] = "archived"]
    /\ UNCHANGED <<transfers, balances, holds>>

-----------------------------------------------------------------------------
(* Transfers *)

\* Mutant: ORDER BY id LIMIT 1 finds the first row.
HeadHash == IF transfers = << >> THEN NoHash ELSE transfers[1].hash

\* The hash the next row is chained to.
TailHash == IF transfers = << >> THEN NoHash ELSE transfers[Len(transfers)].hash

\* The transfer t is appended, drawing on hold excludeHold if that is not 0,
\* provided that it passes every check.
Write(t, excludeHold) ==
    /\ transfers' = Append(transfers, Row(t, TailHash))
    /\ Validate(t)
    /\ AccountsAccept(accounts, t)
    /\ Unused(transfers, t)
    /\ Covered(balances, holds, t, excludeHold)
    /\ balances' = ApplyBalances(balances, t)
    /\ UNCHANGED accounts

Post(t) == Write(t, 0) /\ UNCHANGED holds

\* The transfer with id k is undone by its mirror image.
Reverse(k, newReference) ==
    /\ Write(Reversal(transfers[k], k, newReference), 0)
    /\ UNCHANGED holds

-----------------------------------------------------------------------------
(* Holds *)

PlaceHold(r) ==
    /\ r.reference # 0 /\ r.amount > 0
    /\ r.account \in Accounts /\ accounts[r.account] = "open"
    /\ Chart[r.account].currency = r.currency
    /\ ~ Chart[r.account].allowNegative
         => AvailableLocked(balances, holds, r.account, 0) >= r.amount
    /\ holds[r.reference].status = "none"
    /\ holds' = [holds EXCEPT ![r.reference] = NewHold(r)]
    /\ UNCHANGED <<accounts, transfers, balances>>

Capture(h, t) ==
    /\ holds[h].status = "active"
    /\ Draws(t, holds[h].account, holds[h].amount)
    /\ Write(t, h)
    /\ holds' = [holds EXCEPT ![h].status = "captured",
                              ![h].transfer = Len(transfers) + 1]

Release(h) ==
    /\ holds[h].status = "active"
    /\ holds' = [holds EXCEPT ![h].status = "released"]
    /\ UNCHANGED <<accounts, transfers, balances>>

\* Any set of holds that carry an expiry lapses together.
Expire(H) ==
    /\ \A h \in H : holds[h].status = "active" /\ holds[h].expires
    /\ holds' = [h \in HoldRefs |->
                    IF h \in H THEN [holds[h] EXCEPT !.status = "expired"]
                    ELSE holds[h]]
    /\ UNCHANGED <<accounts, transfers, balances>>

-----------------------------------------------------------------------------
Next ==
    \/ \E a \in Accounts : CreateAccount(a)
    \/ \E a \in Accounts : Archive(a)
    \/ \E t \in Requests : Post(t)
    \/ \E k \in DOMAIN transfers, ref \in ReversalRefs : Reverse(k, ref)
    \/ \E r \in HoldRequests : PlaceHold(r)
    \/ \E c \in CaptureRequests : Capture(c[1], c[2])
    \/ \E h \in HoldRefs : Release(h)
    \/ \E H \in SUBSET HoldRefs : Expire(H)

Spec == Init /\ [][Next]_vars

-----------------------------------------------------------------------------
(* Properties *)

\* The overdraft guard: the available balance of an account that may not go
\* negative (its balance less every active hold) never is, whatever mix of
\* posts, reversals, holds, captures, releases and expiries got it there.
GuardHolds ==
    \A a \in Accounts :
        ~ Chart[a].allowNegative => AvailableLocked(balances, holds, a, 0) >= 0

\* Sum zero: verify finds no transfer, reversals included, and no currency
\* that fails to net to zero over the accounts that exist.
SumZero ==
    /\ CheckTransfersBalance(transfers) = {}
    /\ CheckTrialBalance(accounts, balances) = {}

\* The materialised balances never drift from the postings.
BalancesMatchPostings == CheckBalancesMatchPostings(balances, transfers) = {}

\* Verify can walk the hash chain from the first row to the last.
ChainIntact == CheckChain(transfers) = {}

\* A reversal undoes an earlier transfer on every account, and no transfer is
\* undone twice.
ReversalsCancel ==
    \A k \in DOMAIN transfers :
        LET j == transfers[k].reverses IN
        j # 0 =>
            /\ j < k
            /\ \A a \in Accounts : Delta(transfers[k], a) = -Delta(transfers[j], a)
            /\ \A m \in DOMAIN transfers : transfers[m].reverses = j => m = k

\* A captured hold points at the transfer that settled it: one of its own, an
\* ordinary one, which drew on the held account at least 1 and at most the
\* amount reserved.
CapturesSettle ==
    \A h \in HoldRefs :
        /\ (holds[h].status = "captured") <=> (holds[h].transfer # 0)
        /\ holds[h].status = "captured" =>
             /\ holds[h].transfer \in DOMAIN transfers
             /\ transfers[holds[h].transfer].reverses = 0
             /\ Spent(transfers[holds[h].transfer], holds[h].account) \in 1 .. holds[h].amount
             /\ \A g \in HoldRefs : holds[g].transfer = holds[h].transfer => g = h

\* An archived account is closed for good: no operation moves its balance,
\* reserves on it or reopens it.
ArchivedIsFrozen ==
    [][\A a \in Accounts :
          accounts[a] = "archived" =>
              /\ accounts'[a] = "archived"
              /\ balances'[a] = balances[a]
              /\ Held(holds', a, 0) =< Held(holds, a, 0)]_vars

=============================================================================
