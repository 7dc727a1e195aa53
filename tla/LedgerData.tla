----------------------------- MODULE LedgerData -----------------------------
(***************************************************************************)
(* The vocabulary of the ledger: accounts, postings, transfers, holds, and *)
(* the pure functions package ledger computes on them (transfer.go,        *)
(* account.go, chain.go and the arithmetic of store.go and hold.go).       *)
(* Amounts are mathematical integers here: every sum the engine forms is   *)
(* assumed to fit an int64.  Transfer64 does without that assumption.      *)
(***************************************************************************)
EXTENDS Sums, Sequences

CONSTANTS
    NumAccounts,      \* account ids are 1 .. NumAccounts, in text order
    NumHolds,         \* hold references are 1 .. NumHolds
    Currencies,       \* the currency codes in use
    Chart,            \* what CreateAccount is told about each account
    InitiallyOpen,    \* accounts created before the behaviour starts
    Requests,         \* transfers callers ask Post to write
    HoldRequests,     \* holds callers ask for
    CaptureRequests,  \* <<hold, transfer>> pairs callers ask to capture
    ReversalRefs      \* references callers give to reversing transfers

Accounts == 1 .. NumAccounts
HoldRefs == 1 .. NumHolds

Directions == {"debit", "credit"}

\* A leg as a caller may write it (account 0 is the empty id) and as it is stored.
RawPosting == [account : Nat, amount : Int, currency : STRING,
               dir : Directions \cup STRING]
Posting == [account : Accounts, amount : Int, currency : Currencies,
            dir : Directions]

\* What the caller of Post supplies; reverses is 0 except in a reversal.
RawTransfer == [reference : STRING, postings : Seq(RawPosting), reverses : Nat]
Transfer == [reference : STRING, postings : Seq(Posting), reverses : Nat]

HoldRequest == [reference : HoldRefs \cup {0}, account : Nat, amount : Int,
                currency : STRING, expires : BOOLEAN]

ASSUME BoundsAssumption ==
    NumAccounts \in Nat /\ NumHolds \in Nat /\ Currencies \subseteq STRING

ASSUME ChartAssumption ==
    /\ Chart \in [Accounts -> [currency : Currencies, debitNormal : BOOLEAN,
                               allowNegative : BOOLEAN]]
    /\ InitiallyOpen \subseteq Accounts

ASSUME RequestsAssumption ==
    /\ \A t \in Requests : t \in RawTransfer /\ t.reverses = 0
    /\ \A r \in HoldRequests : r \in HoldRequest
    /\ \A c \in CaptureRequests :
          c \in HoldRefs \X RawTransfer /\ c[2].reverses = 0
    /\ ReversalRefs \subseteq STRING

-----------------------------------------------------------------------------
(* Transfers *)

\* The amount as it moves a balance in debit-positive terms.
Signed(p) == IF p.dir = "credit" THEN -p.amount ELSE p.amount

\* Debit minus credit of a transfer in one currency.
Net(t, c) ==
    SumTo([i \in 1 .. Len(t.postings) |->
              IF t.postings[i].currency = c THEN Signed(t.postings[i]) ELSE 0],
          Len(t.postings))

\* Debit minus credit of a transfer on one account.
Delta(t, a) ==
    SumTo([i \in 1 .. Len(t.postings) |->
              IF t.postings[i].account = a THEN Signed(t.postings[i]) ELSE 0],
          Len(t.postings))

Touched(t) == {t.postings[i].account : i \in 1 .. Len(t.postings)}

\* Mutant: the sum-zero rule is forgotten.
ValidateShapeOnly(t) ==
    /\ t.reference # "" /\ Len(t.postings) >= 2
    /\ \A i \in 1 .. Len(t.postings) :
          t.postings[i].dir \in Directions /\ t.postings[i].amount > 0

\* Mutant: only the sum-zero rule is checked.
ValidateNetOnly(t) == \A c \in Currencies : Net(t, c) = 0

\* Everything that can be known without the database.
Validate(t) ==
    /\ t.reference # ""
    /\ Len(t.postings) >= 2
    /\ \A i \in 1 .. Len(t.postings) :
          /\ t.postings[i].account # 0
          /\ t.postings[i].dir \in Directions
          /\ t.postings[i].currency \in Currencies
          /\ t.postings[i].amount > 0
    /\ \A c \in Currencies : Net(t, c) = 0

Flip(p) == [account |-> p.account, amount |-> p.amount, currency |-> p.currency,
            dir |-> IF p.dir = "credit" THEN "debit" ELSE "credit"]

\* The mirror image of a posted transfer: every leg flipped.
Reversal(t, id, newReference) ==
    [reference |-> newReference,
     postings  |-> [i \in 1 .. Len(t.postings) |-> Flip(t.postings[i])],
     reverses  |-> id]

-----------------------------------------------------------------------------
(* Rows.  The digest of a transfer is represented by what it commits to:   *)
(* the contents of the whole chain up to and including it.                 *)

NoHash == << >>
ChainDigest(prev, t) == Append(prev, t)

Row(t, prev) ==
    [reference |-> t.reference, postings |-> t.postings, reverses |-> t.reverses,
     prev |-> prev, hash |-> ChainDigest(prev, t)]

Content(row) ==
    [reference |-> row.reference, postings |-> row.postings, reverses |-> row.reverses]

RowType == [reference : STRING, postings : Seq(Posting), reverses : Nat,
            prev : Seq(Transfer), hash : Seq(Transfer)]

\* A hold reference that has no row yet has status "none".
HoldRow == [status : {"none", "active", "captured", "released", "expired"},
            account : Accounts \cup {0}, amount : Nat, expires : BOOLEAN,
            transfer : Nat]

NoHold == [status |-> "none", account |-> 0, amount |-> 0, expires |-> FALSE,
           transfer |-> 0]

NewHold(r) == [status |-> "active", account |-> r.account, amount |-> r.amount,
               expires |-> r.expires, transfer |-> 0]

-----------------------------------------------------------------------------
(* Balances *)

\* Positive means more of what the account normally holds.
Normalise(raw, a) == IF Chart[a].debitNormal THEN raw ELSE -raw

\* What a transfer takes off an account, on its normal side.
Spent(t, a) == -Normalise(Delta(t, a), a)

\* Mutant: no upper limit.
DrawsAnything(t, a, amount) == Spent(t, a) > 0

\* A capture takes something off the held account, and at most what is held.
Draws(t, a, amount) == Spent(t, a) > 0 /\ Spent(t, a) =< amount

\* What the active holds of table hs, hold but excepted, reserve on account a.
Held(hs, a, but) ==
    SumTo([h \in HoldRefs |->
              IF hs[h].status = "active" /\ hs[h].account = a /\ h # but
              THEN hs[h].amount ELSE 0],
          NumHolds)

\* The available balance; excludeHold is 0 when no hold is being captured.
AvailableLocked(bal, hs, a, excludeHold) ==
    Normalise(bal[a], a) - Held(hs, a, excludeHold)

\* Mutant: one update per leg, each from the balance read at the start.
ApplyLastLeg(bal, t) ==
    [a \in Accounts |->
        IF a \notin Touched(t) THEN bal[a]
        ELSE bal[a] + Signed(t.postings[CHOOSE i \in 1 .. Len(t.postings) :
                                /\ t.postings[i].account = a
                                /\ \A j \in i + 1 .. Len(t.postings) :
                                      t.postings[j].account # a])]

\* Every leg folded into the account's balance.
ApplyBalances(bal, t) == [a \in Accounts |-> bal[a] + Delta(t, a)]

\* Mutant: the guard forgets the holds.
CoveredWithoutHolds(bal, hs, t, excludeHold) ==
    \A a \in Touched(t) :
        ~ Chart[a].allowNegative => Normalise(ApplyBalances(bal, t)[a], a) >= 0

\* The overdraft guard over the accounts a transfer touches.
Covered(bal, hs, t, excludeHold) ==
    \A a \in Touched(t) :
        ~ Chart[a].allowNegative
            => AvailableLocked(ApplyBalances(bal, t), hs, a, excludeHold) >= 0

-----------------------------------------------------------------------------
(* Lookups and constraints, over a table trs of transfer rows.             *)

\* Mutant: archived accounts accept postings.
AccountsAcceptArchived(accs, t) ==
    \A i \in 1 .. Len(t.postings) :
        /\ t.postings[i].account \in Accounts
        /\ accs[t.postings[i].account] # "none"
        /\ Chart[t.postings[i].account].currency = t.postings[i].currency

\* The postings' accounts are open and of the posting's currency.
AccountsAccept(accs, t) ==
    \A i \in 1 .. Len(t.postings) :
        /\ t.postings[i].account \in Accounts
        /\ accs[t.postings[i].account] = "open"
        /\ Chart[t.postings[i].account].currency = t.postings[i].currency

\* Mutant: without the index transfers_reverses_key.
UnusedReference(trs, t) == \A k \in DOMAIN trs : trs[k].reference # t.reference

\* Unique reference, and unique non-null reverses_transfer_id.
Unused(trs, t) ==
    \A k \in DOMAIN trs :
        /\ trs[k].reference # t.reference
        /\ t.reverses # 0 => trs[k].reverses # t.reverses

=============================================================================
