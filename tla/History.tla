------------------------------ MODULE History -------------------------------
(***************************************************************************)
(* Reading the books (query.go): the current balance comes from the cache, *)
(* the balance as of an instant and the statement from the postings, in    *)
(* ledger-date order.  A caller may date a transfer at any instant, before *)
(* or after what is already there.  The accounts are open; the chain, the  *)
(* holds and the guard do not matter to a reader: see module Books.        *)
(***************************************************************************)
EXTENDS Verify, FiniteSets, SequencesExt

CONSTANTS
    Instants,   \* the ledger dates callers give, in microseconds
    MaxLines    \* the longest statement: 1000 in the code

ASSUME InstantsAssumption == Instants \subseteq Nat /\ MaxLines \in Nat \ {0}

VARIABLES
    history,    \* the posted transfers in id order, each with its date posted_at
    balances    \* account_balances

vars == <<history, balances>>

Init ==
    /\ history = << >>
    /\ balances = [a \in Accounts |-> 0]

\* The zero time: a date, or a bound, that the caller left out.
NoTime == -1

\* Post, as far as a reader can tell: a row with its date (the
\* caller's, or else the current time, which may be any), and the balances.
Post(t, at) ==
    /\ Validate(t)
    /\ AccountsAccept([a \in Accounts |-> "open"], t)
    /\ Unused(history, t)
    /\ history' = Append(history, [reference |-> t.reference, postings |-> t.postings,
                                   reverses |-> t.reverses, posted_at |-> at])
    /\ balances' = ApplyBalances(balances, t)

Next == \E t \in Requests, at \in Instants : Post(t, at)

Spec == Init /\ [][Next]_vars

-----------------------------------------------------------------------------
(* Queries *)

Balance(a) == Normalise(balances[a], a)

\* What the transfers of the set K move on account a, on its normal side.
Movement(K, a) ==
    Normalise(SumTo([k \in DOMAIN history |->
                        IF k \in K THEN Delta(history[k], a) ELSE 0], Len(history)), a)

\* Mutant: the cached balance answers for every instant.
CachedBalanceAsOf(a, at) == Balance(a)

BalanceAsOf(a, at) == Movement({k \in DOMAIN history : history[k].posted_at =< at}, a)

\* Mutant: the window is open at its end.
HalfOpen(at, from, to) ==
    (from = NoTime \/ at >= from) /\ (to = NoTime \/ at < to)

InWindow(at, from, to) ==
    (from = NoTime \/ at >= from) /\ (to = NoTime \/ at =< to)

Lines(a, from, to) ==
    UNION {{k} \X {i \in DOMAIN history[k].postings : history[k].postings[i].account = a} :
             k \in {j \in DOMAIN history : InWindow(history[j].posted_at, from, to)}}

\* Mutant: ORDER BY id DESC.
NewestIdFirst(x, y) == x[1] > y[1] \/ (x[1] = y[1] /\ x[2] > y[2])

\* Newest ledger date first, the id breaking ties.  The query does not say which of
\* two legs of one transfer comes first, and no property depends on it.
NewestFirst(x, y) ==
    LET dx == history[x[1]].posted_at
        dy == history[y[1]].posted_at
    IN  \/ dx > dy
        \/ dx = dy /\ (x[1] > y[1] \/ (x[1] = y[1] /\ x[2] > y[2]))

Clamp(limit) == IF limit =< 0 \/ limit > MaxLines THEN MaxLines ELSE limit

\* The n-th line has n - 1 others before it.
Sorted(S) ==
    [n \in 1 .. Cardinality(S) |->
        CHOOSE x \in S : Cardinality({y \in S : NewestFirst(y, x)}) = n - 1]

\* The lines of an account's postings as <<transfer, leg>> pairs.
Statement(a, from, to, limit) ==
    LET all == Sorted(Lines(a, from, to))
    IN  SubSeq(all, 1, IF Len(all) < Clamp(limit) THEN Len(all) ELSE Clamp(limit))

\* What the lines of a statement add up to, on the account's normal side.
Total(lines, a) ==
    Normalise(SumTo([n \in DOMAIN lines |->
                        Signed(history[lines[n][1]].postings[lines[n][2]])], Len(lines)), a)

-----------------------------------------------------------------------------
(* Properties *)

TypeOK ==
    /\ history \in Seq([reference : STRING, postings : Seq(Posting), reverses : Nat,
                        posted_at : Instants])
    /\ balances \in [Accounts -> Int]

\* Reading history agrees with reading the cache: the two differ by what is
\* dated after the instant asked for, and by nothing else.
AsOfMeetsBalance ==
    \A a \in Accounts, at \in Instants :
        Balance(a) - BalanceAsOf(a, at)
            = Movement({k \in DOMAIN history : history[k].posted_at > at}, a)

\* A transfer changes the balance as of no instant before its own date, however
\* late it is posted: what was reported for earlier stays true.
PastIsSettled ==
    [][\A a \in Accounts, at \in Instants :
          at < history'[Len(history')].posted_at =>
              BalanceAsOf(a, at)' = BalanceAsOf(a, at)]_vars

\* A complete statement of a window explains the difference between the
\* balances at its two ends.
StatementExplains ==
    \A a \in Accounts, from \in Instants, to \in Instants :
        (from =< to /\ Cardinality(Lines(a, from, to)) =< MaxLines) =>
            Total(Statement(a, from, to, 0), a)
                = BalanceAsOf(a, to) - BalanceAsOf(a, from - 1)

\* A statement cut short shows the newest lines: nothing left out is dated
\* after anything shown, whatever the order of posting; and it is never longer
\* than asked for, nor than the maximum.
CutShowsNewest ==
    \A a \in Accounts, limit \in 0 .. MaxLines + 1 :
        LET shown == Statement(a, NoTime, NoTime, limit) IN
        /\ Len(shown) =< MaxLines /\ (limit > 0 => Len(shown) =< limit)
        /\ \A n \in DOMAIN shown, line \in Lines(a, NoTime, NoTime) \ ToSet(shown) :
              history[line[1]].posted_at =< history[shown[n][1]].posted_at
        /\ \A m, n \in DOMAIN shown :
              m < n => history[shown[n][1]].posted_at =< history[shown[m][1]].posted_at

=============================================================================
