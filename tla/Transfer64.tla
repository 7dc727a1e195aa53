----------------------------- MODULE Transfer64 -----------------------------
(***************************************************************************)
(* LedgerData does its sums in mathematical integers.  Here is the same    *)
(* arithmetic of transfer.go and applyBalances in Go's integers, beside    *)
(* it: a caller builds a transfer leg by leg and posts it, the sums of Net *)
(* and of delta are of fixed width and wrap around, and the balance column *)
(* is a bigint of the same width, whose overflow Postgres reports as an    *)
(* error.  Accounts are open, may go negative and are posted to in their   *)
(* own currency: what else can refuse a transfer is in Books.              *)
(***************************************************************************)
EXTENDS Verify

CONSTANTS
    MaxInt,     \* math.MaxInt64, 2^63 - 1 in the code; any width has the same edges
    MaxLegs,    \* bound: legs a caller adds to one transfer
    Amounts     \* the amounts callers write on a leg

Int64 == -(MaxInt + 1) .. MaxInt

ASSUME WidthAssumption == MaxInt \in Nat /\ MaxLegs \in Nat /\ Amounts \subseteq Int64

VARIABLES
    draft,      \* the transfer a caller is building
    balances,   \* account_balances
    exact       \* history: the balances the stored postings add up to

vars == <<draft, balances, exact>>

Empty == [reference |-> "draft", postings |-> << >>, reverses |-> 0]

Init ==
    /\ draft = Empty
    /\ balances = [a \in Accounts |-> 0]
    /\ exact = [a \in Accounts |-> 0]

-----------------------------------------------------------------------------
\* Two's complement: MaxInt + 1 is the smallest integer again.
Wrap(x) == ((x + MaxInt + 1) % (2 * (MaxInt + 1))) - (MaxInt + 1)

\* A loop of sum += f[i].
WrapSums(f) ==
    LET s[i \in Nat] == IF i = 0 THEN 0 ELSE Wrap(s[i - 1] + f[i])
    IN  s

WrapSum(f, n) == WrapSums(f)[n]

Signed64(p) == IF p.dir = "credit" THEN Wrap(-p.amount) ELSE p.amount

\* The legs on one account, and of one currency; other legs do not count.
OnAccount(ps, a) ==
    [i \in 1 .. Len(ps) |-> IF ps[i].account = a THEN Signed64(ps[i]) ELSE 0]

InCurrency(ps, c) ==
    [i \in 1 .. Len(ps) |-> IF ps[i].currency = c THEN Signed64(ps[i]) ELSE 0]

\* Mutant: the loop stops one leg early.
NetSkipsLast(t, c) ==
    IF t.postings = << >> THEN 0
    ELSE WrapSum(InCurrency(t.postings, c), Len(t.postings) - 1)

Net64(t, c) == WrapSum(InCurrency(t.postings, c), Len(t.postings))

Delta64(t, a) == WrapSum(OnAccount(t.postings, a), Len(t.postings))

Validate64(t) ==
    /\ Len(t.postings) >= 2
    /\ \A i \in 1 .. Len(t.postings) : t.postings[i].amount > 0
    /\ \A c \in Currencies : Net64(t, c) = 0

\* The column can hold every balance it is about to be given.
InRange(t) == \A a \in Accounts : balances[a] + Delta64(t, a) \in Int64

\* Mutant: the column silently wraps.
UpsertWraps(t) ==
    /\ balances' = [a \in Accounts |-> Wrap(balances[a] + Delta64(t, a))]
    /\ exact' = ApplyBalances(exact, t)

\* balance + excluded.balance for every account, or "bigint out of range".
Upsert(t) ==
    /\ InRange(t)
    /\ balances' = [a \in Accounts |-> balances[a] + Delta64(t, a)]
    /\ exact' = ApplyBalances(exact, t)

-----------------------------------------------------------------------------
AddLeg(a, n, dir) ==
    /\ Len(draft.postings) < MaxLegs
    /\ draft' = [draft EXCEPT !.postings =
                    Append(@, [account |-> a, amount |-> n,
                               currency |-> Chart[a].currency, dir |-> dir])]
    /\ UNCHANGED <<balances, exact>>

Debit(a, n) == AddLeg(a, n, "debit")
Credit(a, n) == AddLeg(a, n, "credit")

Post == Validate64(draft) /\ Upsert(draft) /\ draft' = Empty

\* Validate or the database refuses; the transfer is dropped.
Refused ==
    /\ ~ Validate64(draft) \/ ~ InRange(draft)
    /\ draft # Empty /\ draft' = Empty
    /\ UNCHANGED <<balances, exact>>

Next ==
    \/ \E a \in Accounts, n \in Amounts : Debit(a, n)
    \/ \E a \in Accounts, n \in Amounts : Credit(a, n)
    \/ Post
    \/ Refused

Spec == Init /\ [][Next]_vars

-----------------------------------------------------------------------------
(* Properties *)

TypeOK ==
    /\ draft \in [reference : {"draft"}, postings : Seq(Posting), reverses : {0}]
    /\ Len(draft.postings) =< MaxLegs
    /\ \A i \in 1 .. Len(draft.postings) :
          /\ draft.postings[i].amount \in Amounts
          /\ draft.postings[i].currency = Chart[draft.postings[i].account].currency
    /\ balances \in [Accounts -> Int64]
    /\ exact \in [Accounts -> Int]

\* As many legs as a transfer may have, each of one amount, add up within the
\* width: where this holds, no sum of a transfer wraps.
SumsFit == \A n \in Amounts : MaxLegs * n =< MaxInt

\* Debits equal credits: whatever transfers Validate let through, the balances
\* of each currency add up to zero.
DebitsEqualCredits ==
    CheckTrialBalance([a \in Accounts |-> "open"], balances) = {}

\* The balance column is what the stored postings add up to, up to the edges of
\* its range, although a draft may hold an amount whose negation wraps.
BalancesExact == balances = exact

=============================================================================
