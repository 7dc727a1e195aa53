--------------------------- MODULE HistoryProofs ----------------------------
(***************************************************************************)
(* What readers of the books may rely on, for every chart, every set of    *)
(* transfers and every set of dates.                                       *)
(***************************************************************************)
EXTENDS Reconcile, LedgerDataProofs, FiniteSetTheorems

Dated == [reference : STRING, postings : Seq(Posting), reverses : Nat, posted_at : Instants]

\* The row Post appends.
LEMMA PostFacts ==
    ASSUME TypeOK, NEW t \in Requests, NEW at \in Instants, Post(t, at)
    PROVE  LET n == Len(history) IN
           /\ n \in Nat /\ Len(history') = n + 1 /\ DOMAIN history' = 1 .. n + 1
           /\ \A k \in 1 .. n : history'[k] = history[k]
           /\ history'[n + 1].posted_at = at
           /\ \A a : Delta(history'[n + 1], a) = Delta(t, a)
           /\ t.postings \in Seq(Posting)
           /\ history' \in Seq(Dated)
           /\ \A a \in Accounts : balances'[a] = balances[a] + Delta(t, a)
PROOF
  <1> DEFINE row == [reference |-> t.reference, postings |-> t.postings,
                     reverses |-> t.reverses, posted_at |-> at]
  <1>1. t \in RawTransfer BY RequestsAssumption
  <1>2. t \in Transfer
    <2> AccountsAccept([a \in Accounts |-> "open"], t) /\ Validate(t) BY DEF Post
    <2> QED BY <1>1, AcceptedIsTyped
  <1>3. row \in Dated /\ t.postings \in Seq(Posting) BY <1>2 DEF Dated, Transfer
  <1>4. history \in Seq(Dated) BY DEF TypeOK, Dated
  <1>5. history' = Append(history, row) BY DEF Post
  <1>6. row.postings = t.postings /\ row.posted_at = at OBVIOUS
  <1> HIDE DEF row
  <1>7. /\ Len(history) \in Nat /\ Len(history') = Len(history) + 1
        /\ history' \in Seq(Dated)
        /\ \A k \in 1 .. Len(history) : history'[k] = history[k]
        /\ history'[Len(history) + 1] = row
    BY <1>3, <1>4, <1>5, AppendProperties, LenProperties
  <1>8. DOMAIN history' = 1 .. Len(history) + 1 BY <1>7, LenProperties
  <1>9. \A a : Delta(row, a) = Delta(t, a) BY <1>6, SamePostings
  <1>10. \A a \in Accounts : balances'[a] = balances[a] + Delta(t, a)
    BY DEF Post, ApplyBalances
  <1> QED BY <1>3, <1>6, <1>7, <1>8, <1>9, <1>10

\* Every row moves every account by an integer.
LEMMA RowDelta ==
    ASSUME TypeOK, NEW k \in DOMAIN history, NEW a
    PROVE  Delta(history[k], a) \in Int
PROOF
  <1>1. history[k] \in [reference : STRING, postings : Seq(Posting), reverses : Nat,
                        posted_at : Instants]
    BY ElementOfSeq, LenProperties DEF TypeOK
  <1>2. history[k].postings \in Seq(Posting) BY <1>1
  <1> QED BY <1>2, DeltaFacts

LEMMA TypeInit == Init => TypeOK
BY DEF Init, TypeOK

LEMMA TypeStep == TypeOK /\ [Next]_vars => TypeOK'
PROOF
  <1> SUFFICES ASSUME TypeOK, [Next]_vars PROVE TypeOK' OBVIOUS
  <1>1. CASE UNCHANGED vars BY <1>1 DEF vars, TypeOK
  <1>2. ASSUME NEW t \in Requests, NEW at \in Instants, Post(t, at) PROVE TypeOK'
    <2>1. history' \in Seq(Dated) /\ t.postings \in Seq(Posting) BY <1>2, PostFacts
    <2>2. balances' \in [Accounts -> Int]
      <3>1. \A a \in Accounts : Delta(t, a) \in Int BY <2>1, DeltaFacts
      <3>2. balances' = [a \in Accounts |-> balances[a] + Delta(t, a)]
        BY <1>2 DEF Post, ApplyBalances
      <3> QED BY <3>1, <3>2 DEF TypeOK
    <2> QED BY <2>1, <2>2 DEF TypeOK, Dated
  <1> QED BY <1>1, <1>2 DEF Next

\* The shape of the history and the balances (History!TypeOK) for every value
\* of the constants: Post stores typed rows only, with the date it was given.
THEOREM HistoryTypeCorrect == Spec => []TypeOK
BY TypeInit, TypeStep, PTL DEF Spec

-----------------------------------------------------------------------------
(* The cache and the history *)

\* The family of movements of account a.
Moves(a) == [k \in DOMAIN history |-> Delta(history[k], a)]

\* The cached balance is the sum of all movements.
CacheIsSum == \A a \in Accounts : balances[a] = SumTo(Moves(a), Len(history))

LEMMA CacheInit == Init => CacheIsSum
PROOF
  <1> SUFFICES ASSUME Init, NEW a \in Accounts
               PROVE  balances[a] = SumTo(Moves(a), Len(history))
    BY DEF CacheIsSum
  <1>1. Len(history) = 0 /\ balances[a] = 0 BY DEF Init
  <1> QED BY <1>1, SumStep

LEMMA CacheStep == TypeOK /\ CacheIsSum /\ [Next]_vars => CacheIsSum'
PROOF
  <1> SUFFICES ASSUME TypeOK, CacheIsSum, [Next]_vars PROVE CacheIsSum' OBVIOUS
  <1>1. CASE UNCHANGED vars BY <1>1 DEF vars, CacheIsSum, Moves
  <1>2. ASSUME NEW t \in Requests, NEW at \in Instants, Post(t, at),
               NEW a \in Accounts
        PROVE  balances'[a] = SumTo(Moves(a)', Len(history'))
    <2> DEFINE n == Len(history)
               f == Moves(a)
               g == Moves(a)'
    <2>1. n \in Nat /\ Len(history') = n + 1 /\ DOMAIN history' = 1 .. n + 1
      BY <1>2, PostFacts
    <2>2. DOMAIN history = 1 .. n BY LenProperties DEF TypeOK
    <2>3. \A k \in 1 .. n : g[k] = f[k]
      <3>1. \A k \in 1 .. n : history'[k] = history[k] BY <1>2, PostFacts
      <3> QED BY <2>1, <2>2, <3>1 DEF Moves
    <2>4. g[n + 1] = Delta(t, a)
      <3>1. Delta(history'[n + 1], a) = Delta(t, a) BY <1>2, PostFacts
      <3>2. n + 1 \in 1 .. n + 1 BY <2>1
      <3> QED BY <2>1, <3>1, <3>2 DEF Moves
    <2>5. balances'[a] = balances[a] + Delta(t, a) BY <1>2, PostFacts
    <2>6. balances[a] = SumTo(f, n) BY DEF CacheIsSum
    <2> HIDE DEF f, g, n
    <2>7. SumTo(g, n) = SumTo(f, n) BY <2>1, <2>3, SumCong
    <2>8. SumTo(g, n + 1) = SumTo(g, n) + g[n + 1] BY <2>1, SumStep
    <2>9. balances'[a] = SumTo(g, n + 1) BY <2>4, <2>5, <2>6, <2>7, <2>8
    <2> QED BY <2>1, <2>9 DEF g, n
  <1> QED BY <1>1, <1>2 DEF Next, CacheIsSum

-----------------------------------------------------------------------------
(* Balances as of an instant *)

\* The terms Movement adds up.
Part(K, a) == [k \in DOMAIN history |-> IF k \in K THEN Delta(history[k], a) ELSE 0]

LEMMA PartType ==
    ASSUME TypeOK, NEW K, NEW a
    PROVE  /\ Len(history) \in Nat /\ DOMAIN history = 1 .. Len(history)
           /\ \A k \in 1 .. Len(history) : Part(K, a)[k] \in Int
           /\ SumTo(Part(K, a), Len(history)) \in Int
PROOF
  <1>1. Len(history) \in Nat /\ DOMAIN history = 1 .. Len(history)
    BY LenProperties DEF TypeOK
  <1>2. \A k \in 1 .. Len(history) : Part(K, a)[k] \in Int
    BY <1>1, RowDelta DEF Part
  <1>3. SumTo(Part(K, a), Len(history)) \in Int BY <1>1, <1>2, SumType
  <1> QED BY <1>1, <1>2, <1>3

LEMMA MovementIsPart ==
    ASSUME NEW K, NEW a
    PROVE  Movement(K, a) = Normalise(SumTo(Part(K, a), Len(history)), a)
BY DEF Movement, Part

\* A set of rows and the rest of them make up the balance.
LEMMA PartsMakeUpBalance ==
    ASSUME TypeOK, CacheIsSum, NEW K, NEW L, NEW a \in Accounts,
           \A k \in DOMAIN history : k \in L <=> k \notin K
    PROVE  Balance(a) - Movement(K, a) = Movement(L, a)
PROOF
  <1> DEFINE n == Len(history)
             p == Part(K, a)
             q == Part(L, a)
             f == Moves(a)
  <1>1. n \in Nat /\ DOMAIN history = 1 .. n BY PartType
  <1>2. \A k \in 1 .. n : p[k] \in Int /\ q[k] \in Int BY PartType
  <1>3. SumTo(p, n) \in Int /\ SumTo(q, n) \in Int BY PartType
  <1>4. \A k \in 1 .. n : f[k] = p[k] + q[k]
    <2> TAKE k \in 1 .. n
    <2>1. Delta(history[k], a) \in Int BY <1>1, RowDelta
    <2> QED BY <1>1, <2>1 DEF Part, Moves
  <1>5. balances[a] = SumTo(f, n) BY DEF CacheIsSum
  <1>6. /\ Movement(K, a) = Normalise(SumTo(p, n), a)
        /\ Movement(L, a) = Normalise(SumTo(q, n), a)
    BY MovementIsPart
  <1> HIDE DEF n, p, q, f
  <1>7. SumTo(f, n) = SumTo(p, n) + SumTo(q, n) BY <1>1, <1>2, <1>4, SumAdd
  <1>8. Balance(a) = Normalise(SumTo(p, n) + SumTo(q, n), a) BY <1>5, <1>7 DEF Balance
  <1> QED BY <1>3, <1>6, <1>8 DEF Normalise

LEMMA AsOfFromCache ==
    ASSUME InstantsAssumption, TypeOK, CacheIsSum PROVE AsOfMeetsBalance
PROOF
  <1> SUFFICES ASSUME NEW a \in Accounts, NEW at \in Instants
               PROVE  Balance(a) - BalanceAsOf(a, at)
                        = Movement({k \in DOMAIN history : history[k].posted_at > at}, a)
    BY DEF AsOfMeetsBalance
  <1> DEFINE K == {k \in DOMAIN history : history[k].posted_at =< at}
             L == {k \in DOMAIN history : history[k].posted_at > at}
  <1>1. \A k \in DOMAIN history : k \in L <=> k \notin K
    <2> TAKE k \in DOMAIN history
    <2>1. history[k].posted_at \in Instants
      <3>1. history[k] \in [reference : STRING, postings : Seq(Posting), reverses : Nat,
                            posted_at : Instants]
        BY ElementOfSeq, LenProperties DEF TypeOK
      <3> QED BY <3>1
    <2>2. history[k].posted_at \in Nat /\ at \in Nat BY <2>1, InstantsAssumption
    <2> QED BY <2>2
  <1>2. BalanceAsOf(a, at) = Movement(K, a) BY DEF BalanceAsOf
  <1> HIDE DEF K, L
  <1>3. Balance(a) - Movement(K, a) = Movement(L, a) BY <1>1, PartsMakeUpBalance
  <1> QED BY <1>2, <1>3 DEF L

\* The balance read from the cache and the one recomputed from history differ
\* by exactly what is dated later (History!AsOfMeetsBalance).
THEOREM ReadersAgree == Spec => []AsOfMeetsBalance
PROOF
  <1>1. Init => TypeOK /\ CacheIsSum BY TypeInit, CacheInit
  <1>2. TypeOK /\ CacheIsSum /\ [Next]_vars => (TypeOK /\ CacheIsSum)'
    BY TypeStep, CacheStep
  <1>3. TypeOK /\ CacheIsSum => AsOfMeetsBalance BY AsOfFromCache, InstantsAssumption
  <1> QED BY <1>1, <1>2, <1>3, PTL DEF Spec

\* A post leaves the balance as of every earlier instant alone.
LEMMA PostKeepsPast ==
    ASSUME InstantsAssumption, TypeOK, NEW t \in Requests, NEW date \in Instants,
           Post(t, date), NEW a \in Accounts, NEW at \in Instants, at < date
    PROVE  BalanceAsOf(a, at)' = BalanceAsOf(a, at)
PROOF
  <1> DEFINE n == Len(history)
             K == {k \in DOMAIN history : history[k].posted_at =< at}
             p == Part(K, a)
             q == Part(K, a)'
  <1>1. n \in Nat /\ Len(history') = n + 1 /\ DOMAIN history' = 1 .. n + 1
    BY PostFacts
  <1>2. DOMAIN history = 1 .. n BY PartType
  <1>3. \A k \in 1 .. n : q[k] = p[k]
    <2> TAKE k \in 1 .. n
    <2>1. history'[k] = history[k] BY PostFacts
    <2>2. k \in DOMAIN history /\ k \in DOMAIN history' BY <1>1, <1>2
    <2> QED BY <2>1, <2>2 DEF Part
  <1>4. q[n + 1] = 0
    <2>1. history'[n + 1].posted_at = date BY PostFacts
    <2>2. ~ (date =< at) BY InstantsAssumption
    <2>3. n + 1 \in DOMAIN history' BY <1>1
    <2> QED BY <2>1, <2>2, <2>3 DEF Part
  <1>5. SumTo(p, n) \in Int BY PartType
  <1>6. BalanceAsOf(a, at) = Normalise(SumTo(p, n), a)
    BY MovementIsPart DEF BalanceAsOf
  <1>7. BalanceAsOf(a, at)' = Normalise(SumTo(q, n + 1), a)
    BY <1>1 DEF BalanceAsOf, Movement, Part
  <1> HIDE DEF n, K, p, q
  <1>8. SumTo(q, n) = SumTo(p, n) BY <1>1, <1>3, SumCong
  <1>9. SumTo(q, n + 1) = SumTo(q, n) + q[n + 1] BY <1>1, SumStep
  <1>10. SumTo(q, n + 1) = SumTo(p, n) BY <1>4, <1>5, <1>8, <1>9
  <1> QED BY <1>6, <1>7, <1>10

\* What was reported as of an instant stays true when transfers dated later are
\* posted (History!PastIsSettled).
THEOREM ThePastIsSettled == Spec => PastIsSettled
PROOF
  <1> DEFINE Settled ==
        \A a \in Accounts, at \in Instants :
            at < history'[Len(history')].posted_at =>
                BalanceAsOf(a, at)' = BalanceAsOf(a, at)
  <1>1. TypeOK /\ [Next]_vars => [Settled]_vars
    <2> SUFFICES ASSUME TypeOK, [Next]_vars, ~ UNCHANGED vars PROVE Settled OBVIOUS
    <2> PICK t \in Requests, date \in Instants : Post(t, date) BY DEF Next
    <2>1. history'[Len(history')].posted_at = date BY PostFacts
    <2>2. ASSUME NEW a \in Accounts, NEW at \in Instants, at < date
          PROVE  BalanceAsOf(a, at)' = BalanceAsOf(a, at)
      BY <2>2, PostKeepsPast, InstantsAssumption
    <2> QED BY <2>1, <2>2
  <1>2. Spec => []TypeOK BY HistoryTypeCorrect
  <1> QED BY <1>1, <1>2, PTL DEF Spec, PastIsSettled

-----------------------------------------------------------------------------
(* Reconciliation.                                                         *)

\* No two rows have the same reference.
UniqueReferences ==
    \A j, k \in 1 .. Len(history) : history[j].reference = history[k].reference => j = k

LEMMA UniqueStep == TypeOK /\ UniqueReferences /\ [Next]_vars => UniqueReferences'
PROOF
  <1> SUFFICES ASSUME TypeOK, UniqueReferences, [Next]_vars PROVE UniqueReferences' OBVIOUS
  <1>1. CASE UNCHANGED vars BY <1>1 DEF vars, UniqueReferences
  <1>2. ASSUME NEW t \in Requests, NEW at \in Instants, Post(t, at) PROVE UniqueReferences'
    <2>1. /\ Len(history) \in Nat /\ Len(history') = Len(history) + 1
          /\ \A k \in 1 .. Len(history) : history'[k] = history[k]
          /\ DOMAIN history = 1 .. Len(history)
      BY <1>2, PostFacts, LenProperties DEF TypeOK
    <2>2. history'[Len(history) + 1].reference = t.reference
      <3> DEFINE row == [reference |-> t.reference, postings |-> t.postings,
                         reverses |-> t.reverses, posted_at |-> at]
      <3>1. history' = Append(history, row) BY <1>2 DEF Post
      <3>2. history'[Len(history) + 1] = row
        BY <2>1, <3>1
      <3> QED BY <3>2
    <2>3. \A k \in 1 .. Len(history) : history[k].reference # t.reference
      BY <1>2, <2>1 DEF Post, Unused
    <2> QED BY <2>1, <2>2, <2>3 DEF UniqueReferences
  <1> QED BY <1>1, <1>2 DEF Next

\* No reference is posted twice (transfers.reference UNIQUE).
THEOREM ReferencesAreUnique == Spec => []UniqueReferences
PROOF
  <1>1. Init => UniqueReferences
    <2>1. Init => Len(history) = 0 BY DEF Init
    <2> QED BY <2>1 DEF UniqueReferences
  <1> QED BY <1>1, UniqueStep, HistoryTypeCorrect, PTL DEF Spec

\* A one-to-one pairing leaves over on each side as many as it does not pair.
LEMMA Leftovers ==
    ASSUME NEW S, NEW T, NEW R, IsFiniteSet(T), R \subseteq S \X T,
           \A p, q \in R : p[2] = q[2] => p = q
    PROVE  /\ IsFiniteSet(R)
           /\ Cardinality(R) + Cardinality(T \ {p[2] : p \in R}) = Cardinality(T)
PROOF
  <1> DEFINE Q == {p[2] : p \in R}
             f == [p \in R |-> p[2]]
  <1>1. Q \in SUBSET T /\ T \ Q \in SUBSET T OBVIOUS
  <1>2. IsFiniteSet(Q) /\ IsFiniteSet(T \ Q) BY <1>1, FS_Subset
  <1>3. f \in Injection(R, Q) /\ f \in Surjection(R, Q) BY DEF Injection, Surjection, IsInjective
  <1>4. IsFiniteSet(R) /\ Cardinality(R) = Cardinality(Q) BY <1>2, <1>3, FS_Injection
  <1> HIDE DEF Q
  <1>5. Q \cup (T \ Q) = T /\ Q \cap (T \ Q) = {} BY <1>1
  <1>6. Cardinality(T) = Cardinality(Q) + Cardinality(T \ Q) - Cardinality({})
    BY <1>2, <1>5, FS_Union
  <1>7. Cardinality(Q) \in Nat /\ Cardinality(T \ Q) \in Nat /\ Cardinality({}) = 0
    BY <1>2, FS_CardinalityType, FS_EmptySet
  <1> QED BY <1>4, <1>6, <1>7 DEF Q

LEMMA LeftoversOnTheLeft ==
    ASSUME NEW S, NEW T, NEW R, IsFiniteSet(S), R \subseteq S \X T,
           \A p, q \in R : p[1] = q[1] => p = q
    PROVE  Cardinality(R) + Cardinality(S \ {p[1] : p \in R}) = Cardinality(S)
PROOF
  <1> DEFINE Q == {p[1] : p \in R}
             f == [p \in R |-> p[1]]
  <1>1. Q \in SUBSET S /\ S \ Q \in SUBSET S OBVIOUS
  <1>2. IsFiniteSet(Q) /\ IsFiniteSet(S \ Q) BY <1>1, FS_Subset
  <1>3. f \in Injection(R, Q) /\ f \in Surjection(R, Q) BY DEF Injection, Surjection, IsInjective
  <1>4. Cardinality(R) = Cardinality(Q) BY <1>2, <1>3, FS_Injection
  <1> HIDE DEF Q
  <1>5. Q \cup (S \ Q) = S /\ Q \cap (S \ Q) = {} BY <1>1
  <1>6. Cardinality(S) = Cardinality(Q) + Cardinality(S \ Q) - Cardinality({})
    BY <1>2, <1>5, FS_Union
  <1>7. Cardinality(Q) \in Nat /\ Cardinality(S \ Q) \in Nat /\ Cardinality({}) = 0
    BY <1>2, FS_CardinalityType, FS_EmptySet
  <1> QED BY <1>4, <1>6, <1>7 DEF Q

LEMMA ReportedPairs ==
    ASSUME NEW a, NEW from, NEW to, NEW file
    PROVE  LET r == Report(a, from, to, file)
               pairs == Pairs(LedgerSide(a, from, to), file)
           IN  /\ r.matched = {p \in pairs : LineAmount(p[1], a) = file[p[2]].amount}
               /\ r.amountMismatch = {p \in pairs : LineAmount(p[1], a) # file[p[2]].amount}
               /\ r.missingInLedger = DOMAIN file \ {p[2] : p \in pairs}
               /\ r.missingExternally = LedgerSide(a, from, to) \ {p[1] : p \in pairs}
               /\ r.difference = LedgerTotal(LedgerSide(a, from, to), a) - ExternalTotal(file)
BY DEF Report

\* References are unique on both sides, so the pairs are one to one.
LEMMA PairsAreOneToOne ==
    ASSUME TypeOK, UniqueReferences, NEW a \in Accounts, NEW from, NEW to, NEW file \in Files,
           Accepts(file, a)
    PROVE  LET side == LedgerSide(a, from, to)
               pairs == Pairs(side, file)
           IN  /\ side \subseteq 1 .. Len(history) /\ Len(history) \in Nat
               /\ DOMAIN file = 1 .. Len(file) /\ Len(file) \in Nat
               /\ pairs \subseteq side \X (DOMAIN file)
               /\ \A p, q \in pairs : (p[1] = q[1] \/ p[2] = q[2]) => p = q
PROOF
  <1> DEFINE side == LedgerSide(a, from, to)
             pairs == Pairs(side, file)
  <1>1. Len(history) \in Nat /\ DOMAIN history = 1 .. Len(history)
    BY LenProperties DEF TypeOK
  <1>2. file \in Seq([reference : STRING, amount : Int, currency : STRING])
    BY FilesAssumption
  <1>3. DOMAIN file = 1 .. Len(file) /\ Len(file) \in Nat BY <1>2, LenProperties
  <1>4. side \subseteq DOMAIN history BY DEF LedgerSide, Window
  <1>5. \A i, j \in DOMAIN file : file[i].reference = file[j].reference => i = j
    BY DEF Accepts, IsInjective
  <1> HIDE DEF side
  <1>6. pairs \subseteq side \X (DOMAIN file) BY DEF Pairs
  <1>7. ASSUME NEW p \in pairs, NEW q \in pairs, p[1] = q[1] \/ p[2] = q[2] PROVE p = q
    <2>1. /\ p \in side \X (DOMAIN file) /\ q \in side \X (DOMAIN file)
          /\ history[p[1]].reference = file[p[2]].reference
          /\ history[q[1]].reference = file[q[2]].reference
      BY DEF Pairs
    <2>2. p = <<p[1], p[2]>> /\ q = <<q[1], q[2]>> BY <2>1
    <2>3. p[1] \in 1 .. Len(history) /\ q[1] \in 1 .. Len(history)
      BY <1>1, <1>4, <2>1
    <2>4. p[1] = q[1] /\ p[2] = q[2]
      BY <1>5, <1>7, <2>1, <2>3 DEF UniqueReferences
    <2> QED BY <2>2, <2>4
  <1> HIDE DEF pairs
  <1> QED BY <1>1, <1>3, <1>4, <1>6, <1>7 DEF side, pairs

LEMMA EntriesInOneBucket == ASSUME TypeOK, UniqueReferences PROVE OneBucket
PROOF
  <1>1. ASSUME NEW a \in Accounts, NEW w \in Windows, NEW file \in Files, Accepts(file, a)
        PROVE  LET r == Report(a, w[1], w[2], file)
                   paired == r.matched \cup r.amountMismatch
               IN /\ r.matched \cap r.amountMismatch = {}
                  /\ Cardinality(paired) + Cardinality(r.missingInLedger) = Len(file)
                  /\ Cardinality(paired) + Cardinality(r.missingExternally)
                       = Cardinality(LedgerSide(a, w[1], w[2]))
                  /\ {p[2] : p \in paired} \cup r.missingInLedger = DOMAIN file
                  /\ {p[1] : p \in paired} \cup r.missingExternally
                       = LedgerSide(a, w[1], w[2])
    <2> DEFINE r == Report(a, w[1], w[2], file)
               side == LedgerSide(a, w[1], w[2])
               pairs == Pairs(side, file)
               paired == r.matched \cup r.amountMismatch
    <2>1. /\ r.matched = {p \in pairs : LineAmount(p[1], a) = file[p[2]].amount}
          /\ r.amountMismatch = {p \in pairs : LineAmount(p[1], a) # file[p[2]].amount}
          /\ r.missingInLedger = DOMAIN file \ {p[2] : p \in pairs}
          /\ r.missingExternally = side \ {p[1] : p \in pairs}
      BY ReportedPairs
    <2>2. /\ side \subseteq 1 .. Len(history) /\ Len(history) \in Nat
          /\ DOMAIN file = 1 .. Len(file) /\ Len(file) \in Nat
          /\ pairs \subseteq side \X (DOMAIN file)
          /\ \A p, q \in pairs : (p[1] = q[1] \/ p[2] = q[2]) => p = q
      BY <1>1, PairsAreOneToOne
    <2> HIDE DEF r, side, pairs
    <2>3. paired = pairs /\ r.matched \cap r.amountMismatch = {} BY <2>1
    <2>4. IsFiniteSet(side) /\ IsFiniteSet(DOMAIN file) /\ Cardinality(DOMAIN file) = Len(file)
      <3>1. /\ IsFiniteSet(1 .. Len(history)) /\ IsFiniteSet(1 .. Len(file))
            /\ Cardinality(1 .. Len(file)) = IF 1 > Len(file) THEN 0 ELSE Len(file) - 1 + 1
        <4>1. 1 \in Int /\ Len(history) \in Int /\ Len(file) \in Int BY <2>2
        <4>2. \A n \in Int : /\ IsFiniteSet(1 .. n)
                             /\ Cardinality(1 .. n) = IF 1 > n THEN 0 ELSE n - 1 + 1
          BY FS_Interval
        <4> QED BY <4>1, <4>2
      <3>2. side \in SUBSET (1 .. Len(history)) BY <2>2
      <3>3. IsFiniteSet(side) BY <3>1, <3>2, FS_Subset
      <3> QED BY <2>2, <3>1, <3>3
    <2>5. Cardinality(pairs) + Cardinality(DOMAIN file \ {p[2] : p \in pairs})
            = Cardinality(DOMAIN file)
      <3>1. \A p, q \in pairs : p[2] = q[2] => p = q BY <2>2
      <3> QED BY <2>2, <2>4, <3>1, Leftovers
    <2>6. Cardinality(pairs) + Cardinality(side \ {p[1] : p \in pairs}) = Cardinality(side)
      <3>1. \A p, q \in pairs : p[1] = q[1] => p = q BY <2>2
      <3> QED BY <2>2, <2>4, <3>1, LeftoversOnTheLeft
    <2>7. {p[2] : p \in pairs} \subseteq DOMAIN file /\ {p[1] : p \in pairs} \subseteq side
      BY <2>2
    <2>8. /\ {p[2] : p \in paired} \cup r.missingInLedger = DOMAIN file
          /\ {p[1] : p \in paired} \cup r.missingExternally = side
      BY <2>1, <2>3, <2>7
    <2> HIDE DEF paired
    <2>9. /\ Cardinality(paired) + Cardinality(r.missingInLedger) = Len(file)
          /\ Cardinality(paired) + Cardinality(r.missingExternally) = Cardinality(side)
      BY <2>1, <2>3, <2>4, <2>5, <2>6
    <2> QED BY <2>3, <2>8, <2>9 DEF r, side, paired
  <1> QED BY <1>1 DEF OneBucket, OfEveryReport

\* Every entry of an accepted file lands in exactly one bucket, and so does
\* every line of the ledger's side, for every account, window, file and history
\* (Reconcile).
THEOREM BucketsPartition == Spec => []OneBucket
BY HistoryTypeCorrect, ReferencesAreUnique, EntriesInOneBucket, PTL

\* Every instant lies in exactly one day, from its first microsecond to its
\* last (parseDate), whatever the length of a day.
LEMMA OneDay ==
    ASSUME NEW at \in Nat, NEW length \in Nat \ {0}
    PROVE  LET day == at \div length IN
           /\ day \in Nat /\ day * length =< at /\ at =< day * length + length - 1
           /\ \A d \in Nat : d * length =< at /\ at =< d * length + length - 1 => d = day
PROOF
  <1> DEFINE day == at \div length
  <1>1. day \in Nat /\ day * length =< at /\ at =< day * length + length - 1 OBVIOUS
  <1> HIDE DEF day
  <1>2. ASSUME NEW d \in Nat, NEW e \in Nat, d < e
        PROVE  d * length + length =< e * length
    <2>1. e - (d + 1) \in Nat BY <1>2
    <2>2. (e - (d + 1)) * length \in Nat BY <2>1
    <2>3. e * length = d * length + length + (e - (d + 1)) * length OBVIOUS
    <2>4. d * length \in Nat OBVIOUS
    <2> QED BY <2>2, <2>3, <2>4
  <1>3. ASSUME NEW d \in Nat, d * length =< at, at =< d * length + length - 1 PROVE d = day
    <2>1. d * length \in Nat /\ day * length \in Nat BY <1>1
    <2>2. ~ (d < day)
      <3> SUFFICES ASSUME d < day PROVE FALSE OBVIOUS
      <3>1. d * length + length =< day * length BY <1>1, <1>2
      <3> QED BY <1>1, <1>3, <2>1, <3>1
    <2>3. ~ (day < d)
      <3> SUFFICES ASSUME day < d PROVE FALSE OBVIOUS
      <3>1. day * length + length =< d * length BY <1>1, <1>2
      <3> QED BY <1>1, <1>3, <2>1, <3>1
    <2> QED BY <1>1, <2>2, <2>3
  <1> QED BY <1>1, <1>3 DEF day

LEMMA DividedInOrder ==
    ASSUME NEW m \in Nat, NEW n \in Nat, m =< n, NEW length \in Nat \ {0}
    PROVE  m \div length =< n \div length
PROOF
  <1> DEFINE d == m \div length
             e == n \div length
  <1>1. /\ d \in Nat /\ d * length =< m /\ m =< d * length + length - 1
        /\ e \in Nat /\ e * length =< n /\ n =< e * length + length - 1
    BY OneDay
  <1> HIDE DEF d, e
  <1> SUFFICES ASSUME e < d PROVE FALSE BY <1>1 DEF d, e
  <1>2. d - (e + 1) \in Nat BY <1>1
  <1>3. (d - (e + 1)) * length \in Nat BY <1>2
  <1>4. d * length = e * length + length + (d - (e + 1)) * length BY <1>1
  <1>5. d * length \in Nat /\ e * length \in Nat BY <1>1
  <1> QED BY <1>1, <1>3, <1>4, <1>5

LEMMA DaysAreApart == ASSUME TypeOK PROVE DaysPartition
PROOF
  <1> SUFFICES ASSUME NEW k \in DOMAIN history
               PROVE  Cardinality({day \in Days : k \in Window(DayStart(day), DayEnd(day))}) = 1
    BY DEF DaysPartition
  <1> DEFINE at == history[k].posted_at
             last == CHOOSE i \in Instants : \A other \in Instants : other =< i
             S == {day \in Days : k \in Window(DayStart(day), DayEnd(day))}
  <1>1. at \in Instants
    <2>1. history[k] \in Dated BY ElementOfSeq, LenProperties DEF TypeOK, Dated
    <2> QED BY <2>1 DEF Dated
  <1>2. last \in Instants /\ \A other \in Instants : other =< last BY LastInstantAssumption
  <1>3. at \in Nat /\ last \in Nat /\ at =< last BY <1>1, <1>2, InstantsAssumption
  <1>4. DayLength \in Nat \ {0} BY FilesAssumption
  <1>5. Days = 0 .. last \div DayLength BY DEF Days
  <1>6. S = {day \in Days : day * DayLength =< at /\ at =< day * DayLength + DayLength - 1}
    BY DEF Window, DayStart, DayEnd
  <1> HIDE DEF at, last, S
  <1> DEFINE today == at \div DayLength
  <1>7. /\ today \in Nat /\ today * DayLength =< at
        /\ at =< today * DayLength + DayLength - 1
        /\ \A d \in Nat : d * DayLength =< at /\ at =< d * DayLength + DayLength - 1
              => d = today
    BY <1>3, <1>4, OneDay
  <1>8. today =< last \div DayLength /\ last \div DayLength \in Nat
    BY <1>3, <1>4, DividedInOrder, OneDay
  <1> HIDE DEF today
  <1>9. today \in Days /\ Days \subseteq Nat BY <1>5, <1>7, <1>8
  <1>10. S = {today} BY <1>6, <1>7, <1>9
  <1> QED BY <1>10, FS_Singleton DEF S

\* Reconciling day by day with bare dates covers every transfer once
\* (parseDate of the command), in every history and for every length of a day.
THEOREM DaysCoverOnce == Spec => []DaysPartition
BY HistoryTypeCorrect, DaysAreApart, PTL

-----------------------------------------------------------------------------
(* Totals.                                                                 *)

\* A sum with one term that is not zero, and with none.
LEMMA SumOfOne ==
    ASSUME NEW f, NEW n \in Nat, NEW k \in 1 .. n, f[k] \in Int,
           \A i \in 1 .. n : i # k => f[i] = 0
    PROVE  SumTo(f, n) = f[k]
PROOF
  <1> DEFINE z == [i \in 1 .. n |-> 0]
  <1>1. \A i \in 1 .. n : z[i] = 0 OBVIOUS
  <1>2. SumTo(z, n) = 0 BY <1>1, SumAllZero
  <1> HIDE DEF z
  <1>3. \A i \in 1 .. n : z[i] \in Int /\ f[i] \in Int BY <1>1
  <1>4. \A i \in 1 .. n : i # k => f[i] = z[i] BY <1>1
  <1>5. SumTo(f, n) = SumTo(z, n) + f[k] - z[k] BY <1>3, <1>4, SumUpdate
  <1> QED BY <1>1, <1>2, <1>5

\* Two families whose terms are paired off one to one, the others being zero,
\* have the same sum.
PairedOff(f, n, g, m, R) ==
    /\ R \subseteq (1 .. n) \X (1 .. m)
    /\ \A p, q \in R : (p[1] = q[1] \/ p[2] = q[2]) => p = q
    /\ \A k \in 1 .. n : f[k] \in Int
    /\ \A i \in 1 .. m : g[i] \in Int
    /\ \A p \in R : f[p[1]] = g[p[2]]
    /\ \A k \in 1 .. n : f[k] = 0 \/ \E i \in 1 .. m : <<k, i>> \in R
    /\ \A i \in 1 .. m : g[i] = 0 \/ \E k \in 1 .. n : <<k, i>> \in R

LEMMA PairedSums ==
    ASSUME NEW n \in Nat, NEW m \in Nat, NEW f, NEW g, NEW R, PairedOff(f, n, g, m, R)
    PROVE  SumTo(f, n) = SumTo(g, m)
PROOF
  <1> USE DEF PairedOff
  <1> DEFINE F == [k \in 1 .. n |-> [i \in 1 .. m |-> IF <<k, i>> \in R THEN g[i] ELSE 0]]
             rows == [k \in 1 .. n |-> SumTo([i \in 1 .. m |-> F[k][i]], m)]
             cols == [i \in 1 .. m |-> SumTo([k \in 1 .. n |-> F[k][i]], n)]
  <1>1. \A k \in 1 .. n, i \in 1 .. m : F[k][i] = IF <<k, i>> \in R THEN g[i] ELSE 0
    OBVIOUS
  <1> HIDE DEF F
  <1>2. \A k \in 1 .. n, i \in 1 .. m : F[k][i] \in Int
    <2> TAKE k \in 1 .. n, i \in 1 .. m
    <2>1. g[i] \in Int /\ 0 \in Int OBVIOUS
    <2>2. F[k][i] = g[i] \/ F[k][i] = 0 BY <1>1
    <2> QED BY <2>1, <2>2
  <1>3. SumTo(rows, n) = SumTo(cols, m) BY <1>2, SumSwap
  <1>4. \A k, j \in 1 .. n, i \in 1 .. m : <<k, i>> \in R /\ <<j, i>> \in R => k = j
    <2> SUFFICES ASSUME NEW k \in 1 .. n, NEW j \in 1 .. n, NEW i \in 1 .. m,
                        <<k, i>> \in R, <<j, i>> \in R
                 PROVE  k = j
      OBVIOUS
    <2>1. <<k, i>>[2] = <<j, i>>[2] OBVIOUS
    <2>2. <<k, i>> = <<j, i>> BY <2>1
    <2> QED BY <2>2
  <1>5. \A k \in 1 .. n, i, j \in 1 .. m : <<k, i>> \in R /\ <<k, j>> \in R => i = j
    <2> SUFFICES ASSUME NEW k \in 1 .. n, NEW i \in 1 .. m, NEW j \in 1 .. m,
                        <<k, i>> \in R, <<k, j>> \in R
                 PROVE  i = j
      OBVIOUS
    <2>1. <<k, i>>[1] = <<k, j>>[1] OBVIOUS
    <2>2. <<k, i>> = <<k, j>> BY <2>1
    <2> QED BY <2>2
  <1>6. ASSUME NEW k \in 1 .. n, NEW i \in 1 .. m, <<k, i>> \in R PROVE f[k] = g[i]
    <2>1. f[<<k, i>>[1]] = g[<<k, i>>[2]] BY <1>6
    <2> QED BY <2>1
  <1>7. ASSUME NEW k \in 1 .. n PROVE rows[k] = f[k]
    <2> DEFINE row == [i \in 1 .. m |-> F[k][i]]
    <2>1. rows[k] = SumTo(row, m) OBVIOUS
    <2>2. \A i \in 1 .. m : row[i] = IF <<k, i>> \in R THEN g[i] ELSE 0 BY <1>1
    <2> HIDE DEF rows, row
    <2>3. CASE \E i \in 1 .. m : <<k, i>> \in R
      <3>1. PICK i \in 1 .. m : <<k, i>> \in R BY <2>3
      <3>2. row[i] = g[i] /\ g[i] = f[k] /\ row[i] \in Int BY <1>6, <2>2, <3>1
      <3>3. \A j \in 1 .. m : j # i => row[j] = 0 BY <1>5, <2>2, <3>1
      <3>4. SumTo(row, m) = row[i] BY <3>2, <3>3, SumOfOne
      <3> QED BY <2>1, <3>2, <3>4
    <2>4. CASE ~ \E i \in 1 .. m : <<k, i>> \in R
      <3>1. \A i \in 1 .. m : row[i] = 0 BY <2>2, <2>4
      <3>2. SumTo(row, m) = 0 BY <3>1, SumAllZero
      <3> QED BY <2>1, <2>4, <3>2
    <2> QED BY <2>3, <2>4
  <1>8. ASSUME NEW i \in 1 .. m PROVE cols[i] = g[i]
    <2> DEFINE col == [k \in 1 .. n |-> F[k][i]]
    <2>1. cols[i] = SumTo(col, n) OBVIOUS
    <2>2. \A k \in 1 .. n : col[k] = IF <<k, i>> \in R THEN g[i] ELSE 0 BY <1>1
    <2> HIDE DEF cols, col
    <2>3. CASE \E k \in 1 .. n : <<k, i>> \in R
      <3>1. PICK k \in 1 .. n : <<k, i>> \in R BY <2>3
      <3>2. col[k] = g[i] /\ col[k] \in Int BY <2>2, <3>1
      <3>3. \A j \in 1 .. n : j # k => col[j] = 0 BY <1>4, <2>2, <3>1
      <3>4. SumTo(col, n) = col[k] BY <3>2, <3>3, SumOfOne
      <3> QED BY <2>1, <3>2, <3>4
    <2>4. CASE ~ \E k \in 1 .. n : <<k, i>> \in R
      <3>1. \A k \in 1 .. n : col[k] = 0 BY <2>2, <2>4
      <3>2. SumTo(col, n) = 0 BY <3>1, SumAllZero
      <3> QED BY <2>1, <2>4, <3>2
    <2> QED BY <2>3, <2>4
  <1> HIDE DEF rows, cols
  <1>9. SumTo(rows, n) = SumTo(f, n) BY <1>7, SumCong
  <1>10. SumTo(cols, m) = SumTo(g, m) BY <1>8, SumCong
  <1> QED BY <1>3, <1>9, <1>10

LEMMA NormalZero == \A a : Normalise(0, a) = 0
PROOF
  <1>1. ASSUME NEW a, NEW x \in Int, x =< 0, x >= 0 PROVE Normalise(x, a) = 0
    BY <1>1 DEF Normalise
  <1> QED BY <1>1

\* The normal side of a sum is the sum on the normal side.
LEMMA NormalSum ==
    ASSUME NEW f, NEW g, NEW n \in Nat, NEW a,
           \A i \in 1 .. n : f[i] \in Int /\ g[i] = Normalise(f[i], a)
    PROVE  SumTo(g, n) = Normalise(SumTo(f, n), a)
PROOF
  <1>1. CASE Chart[a].debitNormal
    <2>1. \A i \in 1 .. n : g[i] = f[i] BY <1>1 DEF Normalise
    <2>2. SumTo(g, n) = SumTo(f, n) BY <2>1, SumCong
    <2> QED BY <1>1, <2>2 DEF Normalise
  <1>2. CASE ~ Chart[a].debitNormal
    <2> DEFINE z == [i \in 1 .. n |-> 0]
    <2>1. SumTo(z, n) = 0 BY SumAllZero
    <2>2. \A i \in 1 .. n : f[i] \in Int /\ g[i] \in Int /\ z[i] = f[i] + g[i]
      BY <1>2 DEF Normalise
    <2> HIDE DEF z
    <2>3. SumTo(z, n) = SumTo(f, n) + SumTo(g, n) BY <2>2, SumAdd
    <2>4. SumTo(f, n) \in Int /\ SumTo(g, n) \in Int BY <2>2, SumType
    <2> QED BY <1>2, <2>1, <2>3, <2>4 DEF Normalise
  <1> QED BY <1>1, <1>2

\* What the rows of a window move is how far the balance moved in it.
LEMMA WindowMovement ==
    ASSUME TypeOK, NEW a \in Accounts, NEW from \in Int, NEW to \in Int, from =< to
    PROVE  Movement(Window(from, to), a) = BalanceAsOf(a, to) - BalanceAsOf(a, from - 1)
PROOF
  <1> DEFINE n == Len(history)
             W == Window(from, to)
             K == {k \in DOMAIN history : history[k].posted_at =< to}
             L == {k \in DOMAIN history : history[k].posted_at =< from - 1}
             w == Part(W, a)
             x == Part(K, a)
             y == Part(L, a)
  <1>1. n \in Nat /\ DOMAIN history = 1 .. n BY PartType
  <1>2. /\ \A k \in 1 .. n : w[k] \in Int /\ x[k] \in Int /\ y[k] \in Int
        /\ SumTo(w, n) \in Int /\ SumTo(x, n) \in Int /\ SumTo(y, n) \in Int
    BY PartType
  <1>3. ASSUME NEW k \in 1 .. n PROVE x[k] = y[k] + w[k]
    <2>1. history[k] \in Dated BY ElementOfSeq, LenProperties DEF TypeOK, Dated
    <2>2. history[k].posted_at \in Nat BY <2>1, InstantsAssumption DEF Dated
    <2>3. Delta(history[k], a) \in Int BY <1>1, RowDelta
    <2>4. /\ k \in W <=> history[k].posted_at >= from /\ history[k].posted_at =< to
          /\ k \in K <=> history[k].posted_at =< to
          /\ k \in L <=> history[k].posted_at =< from - 1
      BY <1>1 DEF Window
    <2>5. /\ w[k] = IF k \in W THEN Delta(history[k], a) ELSE 0
          /\ x[k] = IF k \in K THEN Delta(history[k], a) ELSE 0
          /\ y[k] = IF k \in L THEN Delta(history[k], a) ELSE 0
      BY <1>1 DEF Part
    <2> HIDE DEF w, x, y, W, K, L
    <2> QED BY <2>2, <2>3, <2>4, <2>5
  <1>4. /\ BalanceAsOf(a, to) = Normalise(SumTo(x, n), a)
        /\ BalanceAsOf(a, from - 1) = Normalise(SumTo(y, n), a)
        /\ Movement(W, a) = Normalise(SumTo(w, n), a)
    BY MovementIsPart DEF BalanceAsOf
  <1> HIDE DEF w, x, y, n, W, K, L
  <1>5. SumTo(x, n) = SumTo(y, n) + SumTo(w, n) BY <1>1, <1>2, <1>3, SumAdd
  <1> QED BY <1>2, <1>4, <1>5 DEF Normalise, W

\* The total of the ledger's side is what the rows of the window move.
LEMMA LedgerTotalIsMovement ==
    ASSUME TypeOK, NEW a \in Accounts, NEW from \in Int, NEW to \in Int, from =< to
    PROVE  LedgerTotal(LedgerSide(a, from, to), a)
             = BalanceAsOf(a, to) - BalanceAsOf(a, from - 1)
PROOF
  <1> DEFINE n == Len(history)
             side == LedgerSide(a, from, to)
             W == Window(from, to)
             f == [k \in DOMAIN history |-> IF k \in side THEN LineAmount(k, a) ELSE 0]
             w == Part(W, a)
  <1>1. n \in Nat /\ DOMAIN history = 1 .. n /\ \A k \in 1 .. n : w[k] \in Int BY PartType
  <1>2. ASSUME NEW k \in 1 .. n PROVE f[k] = Normalise(w[k], a)
    <2>1. history[k] \in Dated BY ElementOfSeq, LenProperties DEF TypeOK, Dated
    <2>2. history[k].postings \in Seq(Posting) BY <2>1 DEF Dated
    <2>3. a \notin Touched(history[k]) => Delta(history[k], a) = 0 BY <2>2, DeltaFacts
    <2>4. k \in side <=> k \in W /\ a \in Touched(history[k]) BY DEF LedgerSide
    <2>5. w[k] = IF k \in W THEN Delta(history[k], a) ELSE 0 BY <1>1 DEF Part
    <2>6. f[k] = IF k \in side THEN LineAmount(k, a) ELSE 0 BY <1>1
    <2>7. Normalise(0, a) = 0 BY NormalZero
    <2> HIDE DEF f, w, W, side
    <2> QED BY <2>3, <2>4, <2>5, <2>6, <2>7 DEF LineAmount
  <1>3. LedgerTotal(side, a) = SumTo(f, n) BY DEF LedgerTotal
  <1>4. Movement(W, a) = Normalise(SumTo(w, n), a) BY MovementIsPart
  <1> HIDE DEF f, w, n, W
  <1>5. SumTo(f, n) = Normalise(SumTo(w, n), a) BY <1>1, <1>2, NormalSum
  <1> QED BY <1>3, <1>4, <1>5, WindowMovement DEF W

LEMMA WindowsAreIntegers == ASSUME NEW w \in Windows PROVE w[1] \in Int /\ w[2] \in Int
PROOF
  <1>1. CASE w \in Instants \X Instants
    <2>1. \A at \in Instants : at \in Int BY InstantsAssumption
    <2>2. w[1] \in Instants /\ w[2] \in Instants BY <1>1
    <2> QED BY <2>1, <2>2
  <1>2. CASE \E d, e \in Days : w = <<DayStart(d), DayEnd(e)>>
    <2>1. PICK d \in Days, e \in Days : w = <<DayStart(d), DayEnd(e)>> BY <1>2
    <2>2. d \in Int /\ e \in Int BY DEF Days
    <2>3. DayStart(d) \in Int /\ DayEnd(e) \in Int
      BY <2>2, FilesAssumption DEF DayStart, DayEnd
    <2> QED BY <2>1, <2>3
  <1>3. \/ w \in Instants \X Instants
        \/ w \in {<<DayStart(d), DayEnd(e)>> : d, e \in Days}
    BY DEF Windows
  <1> QED BY <1>1, <1>2, <1>3

LEMMA CleanAgrees == ASSUME TypeOK, UniqueReferences PROVE CleanMeansAgreement
PROOF
  <1>1. ASSUME NEW a \in Accounts, NEW w \in Windows, NEW file \in Files, Accepts(file, a),
               Clean(Report(a, w[1], w[2], file))
        PROVE  /\ Report(a, w[1], w[2], file).difference = 0
               /\ {<<file[i].reference, file[i].amount>> : i \in DOMAIN file}
                    = {<<history[k].reference, LineAmount(k, a)>> :
                          k \in LedgerSide(a, w[1], w[2])}
               /\ w[1] =< w[2] => ExternalTotal(file)
                    = BalanceAsOf(a, w[2]) - BalanceAsOf(a, w[1] - 1)
    <2> DEFINE r == Report(a, w[1], w[2], file)
               side == LedgerSide(a, w[1], w[2])
               pairs == Pairs(side, file)
               n == Len(history)
               m == Len(file)
               f == [k \in DOMAIN history |-> IF k \in side THEN LineAmount(k, a) ELSE 0]
               g == [i \in DOMAIN file |-> file[i].amount]
    <2>1. /\ r.amountMismatch = {p \in pairs : LineAmount(p[1], a) # file[p[2]].amount}
          /\ r.missingInLedger = DOMAIN file \ {p[2] : p \in pairs}
          /\ r.missingExternally = side \ {p[1] : p \in pairs}
          /\ r.difference = LedgerTotal(side, a) - ExternalTotal(file)
      BY ReportedPairs
    <2>2. r.amountMismatch = {} /\ r.missingInLedger = {} /\ r.missingExternally = {}
      BY <1>1 DEF Clean
    <2>3. /\ side \subseteq 1 .. n /\ n \in Nat
          /\ DOMAIN file = 1 .. m /\ m \in Nat
          /\ pairs \subseteq side \X (DOMAIN file)
          /\ \A p, q \in pairs : (p[1] = q[1] \/ p[2] = q[2]) => p = q
      BY <1>1, PairsAreOneToOne
    <2>4. DOMAIN history = 1 .. n BY LenProperties DEF TypeOK
    <2>5. LedgerTotal(side, a) = SumTo(f, n) /\ ExternalTotal(file) = SumTo(g, m)
      BY DEF LedgerTotal, ExternalTotal
    <2>6. \A k \in 1 .. n : f[k] = IF k \in side THEN LineAmount(k, a) ELSE 0 BY <2>4
    <2>7. \A i \in 1 .. m : g[i] = file[i].amount BY <2>3
    <2>8. \A p \in pairs : history[p[1]].reference = file[p[2]].reference BY DEF Pairs
    <2>9. \A k \in 1 .. n : LineAmount(k, a) \in Int
      <3> TAKE k \in 1 .. n
      <3>1. Delta(history[k], a) \in Int BY <2>4, RowDelta
      <3> QED BY <3>1 DEF LineAmount, Normalise
    <2>10. \A i \in 1 .. m : file[i].amount \in Int
      <3> TAKE i \in 1 .. m
      <3>1. file \in Seq([reference : STRING, amount : Int, currency : STRING])
        BY FilesAssumption
      <3>2. file[i] \in [reference : STRING, amount : Int, currency : STRING]
        BY <3>1, ElementOfSeq
      <3> QED BY <3>2
    <2> HIDE DEF r, side, pairs, n, m, f, g
    <2>11. \A p \in pairs : p = <<p[1], p[2]>> /\ p[1] \in side /\ p[2] \in 1 .. m
      BY <2>3
    <2>12. ASSUME NEW k \in side PROVE \E i \in 1 .. m : <<k, i>> \in pairs
      <3>1. PICK p \in pairs : p[1] = k BY <2>1, <2>2
      <3>2. p = <<k, p[2]>> /\ p[2] \in 1 .. m BY <2>11, <3>1
      <3> QED BY <3>2
    <2>13. ASSUME NEW i \in 1 .. m PROVE \E k \in side : <<k, i>> \in pairs
      <3>0. i \in DOMAIN file /\ DOMAIN file \ {p[2] : p \in pairs} = {}
        BY <2>1, <2>2, <2>3
      <3>1. PICK p \in pairs : p[2] = i BY <3>0
      <3>2. p = <<p[1], i>> /\ p[1] \in side BY <2>11, <3>1
      <3> QED BY <3>2
    <2>14. \A p \in pairs : LineAmount(p[1], a) = file[p[2]].amount BY <2>1, <2>2
    <2>15. SumTo(f, n) = SumTo(g, m)
      <3>1. pairs \subseteq (1 .. n) \X (1 .. m) BY <2>3
      <3>2. \A k \in 1 .. n : f[k] \in Int BY <2>6, <2>9
      <3>3. \A i \in 1 .. m : g[i] \in Int BY <2>7, <2>10
      <3>4. \A p \in pairs : f[p[1]] = g[p[2]] BY <2>3, <2>6, <2>7, <2>11, <2>14
      <3>5. \A k \in 1 .. n : f[k] = 0 \/ \E i \in 1 .. m : <<k, i>> \in pairs
        BY <2>6, <2>12
      <3>6. \A i \in 1 .. m : g[i] = 0 \/ \E k \in 1 .. n : <<k, i>> \in pairs
        BY <2>3, <2>13
      <3>7. /\ n \in Nat /\ m \in Nat
            /\ \A p, q \in pairs : (p[1] = q[1] \/ p[2] = q[2]) => p = q
        BY <2>3
      <3>8. PairedOff(f, n, g, m, pairs)
        BY <3>1, <3>2, <3>3, <3>4, <3>5, <3>6, <3>7 DEF PairedOff
      <3> QED BY <3>7, <3>8, PairedSums
    <2>16. SumTo(g, m) \in Int BY <2>3, <2>7, <2>10, SumType
    <2>17. r.difference = 0 BY <2>1, <2>5, <2>15, <2>16
    <2>18. {<<file[i].reference, file[i].amount>> : i \in DOMAIN file}
             = {<<history[k].reference, LineAmount(k, a)>> : k \in side}
      <3>1. ASSUME NEW k \in side, NEW i \in 1 .. m, <<k, i>> \in pairs
            PROVE  <<file[i].reference, file[i].amount>>
                     = <<history[k].reference, LineAmount(k, a)>>
        <4>1. <<k, i>>[1] = k /\ <<k, i>>[2] = i OBVIOUS
        <4> QED BY <2>8, <2>14, <3>1, <4>1
      <3>2. ASSUME NEW i \in 1 .. m
            PROVE  \E k \in side : <<file[i].reference, file[i].amount>>
                     = <<history[k].reference, LineAmount(k, a)>>
        BY <2>13, <3>1
      <3>3. ASSUME NEW k \in side
            PROVE  \E i \in 1 .. m : <<file[i].reference, file[i].amount>>
                     = <<history[k].reference, LineAmount(k, a)>>
        BY <2>12, <3>1
      <3>4. {<<file[i].reference, file[i].amount>> : i \in DOMAIN file}
              = {<<file[i].reference, file[i].amount>> : i \in 1 .. m}
        BY <2>3
      <3> QED BY <3>2, <3>3, <3>4
    <2>19. w[1] =< w[2] => ExternalTotal(file) = BalanceAsOf(a, w[2]) - BalanceAsOf(a, w[1] - 1)
      <3> SUFFICES ASSUME w[1] =< w[2]
                   PROVE  ExternalTotal(file) = BalanceAsOf(a, w[2]) - BalanceAsOf(a, w[1] - 1)
        OBVIOUS
      <3>1. LedgerTotal(side, a) = BalanceAsOf(a, w[2]) - BalanceAsOf(a, w[1] - 1)
        BY WindowsAreIntegers, LedgerTotalIsMovement DEF side
      <3> QED BY <2>5, <2>15, <3>1
    <2> QED BY <2>17, <2>18, <2>19 DEF r, side
  <1> QED BY <1>1 DEF CleanMeansAgreement, OfEveryReport

\* A clean report means that the file and the ledger say the same, line for
\* line and in total (ReconcileReport.Clean), for every account, window,
\* accepted file and history.
THEOREM CleanIsAgreement == Spec => []CleanMeansAgreement
BY HistoryTypeCorrect, ReferencesAreUnique, CleanAgrees, PTL

-----------------------------------------------------------------------------
(* Statements.                                                             *)

\* Lines are finitely many pairs of a row and a leg of it.
LEMMA LineFacts ==
    ASSUME TypeOK, NEW a, NEW from, NEW to
    PROVE  /\ IsFiniteSet(Lines(a, from, to))
           /\ \A x \in Lines(a, from, to) : x = <<x[1], x[2]>>
           /\ \A k, i : <<k, i>> \in Lines(a, from, to) <=>
                 /\ k \in DOMAIN history /\ InWindow(history[k].posted_at, from, to)
                 /\ i \in DOMAIN history[k].postings
                 /\ history[k].postings[i].account = a
PROOF
  <1> DEFINE K == {j \in DOMAIN history : InWindow(history[j].posted_at, from, to)}
             Legs(k) == {i \in DOMAIN history[k].postings : history[k].postings[i].account = a}
             f == [k \in K |-> {k} \X Legs(k)]
             T == {{k} \X Legs(k) : k \in K}
  <1>1. Lines(a, from, to) = UNION T BY DEF Lines
  <1>2. IsFiniteSet(K)
    <2>1. Len(history) \in Nat /\ DOMAIN history = 1 .. Len(history) BY PartType
    <2>2. IsFiniteSet(1 .. Len(history)) BY <2>1, FS_Interval
    <2> QED BY <2>1, <2>2, FS_Subset
  <1>3. ASSUME NEW k \in K PROVE IsFiniteSet({k} \X Legs(k))
    <2>1. history[k] \in Dated
      BY ElementOfSeq, LenProperties DEF TypeOK, Dated
    <2>2. history[k].postings \in Seq(Posting) BY <2>1 DEF Dated
    <2>3. /\ Len(history[k].postings) \in Nat
          /\ DOMAIN history[k].postings = 1 .. Len(history[k].postings)
      BY <2>2, LenProperties
    <2>4. IsFiniteSet(1 .. Len(history[k].postings)) BY <2>3, FS_Interval
    <2>5. IsFiniteSet(Legs(k)) BY <2>3, <2>4, FS_Subset
    <2> QED BY <2>5, FS_Singleton, FS_Product
  <1>4. IsFiniteSet(T)
    <2>1. f \in Surjection(K, T) BY DEF Surjection
    <2> QED BY <1>2, <2>1, FS_Surjection
  <1>5. IsFiniteSet(Lines(a, from, to))
    <2>1. \A t \in T : IsFiniteSet(t) BY <1>3
    <2> HIDE DEF T
    <2> QED BY <1>1, <1>4, <2>1, FS_UNION
  <1>6. \A x : x \in Lines(a, from, to) <=> \E k \in K : x \in {k} \X Legs(k) BY <1>1
  <1>7. \A k, i : <<k, i>> \in Lines(a, from, to) <=> k \in K /\ i \in Legs(k) BY <1>6
  <1>8. \A x \in Lines(a, from, to) : x = <<x[1], x[2]>> BY <1>6
  <1> QED BY <1>5, <1>7, <1>8

\* Any set of lines.
AreLines(S) ==
    /\ IsFiniteSet(S)
    /\ \A x \in S : /\ x = <<x[1], x[2]>>
                    /\ x[1] \in Nat /\ x[2] \in Nat /\ history[x[1]].posted_at \in Nat

LEMMA LinesAreLines == ASSUME TypeOK, NEW a, NEW from, NEW to PROVE AreLines(Lines(a, from, to))
PROOF
  <1> SUFFICES ASSUME NEW x \in Lines(a, from, to)
               PROVE  x[1] \in Nat /\ x[2] \in Nat /\ history[x[1]].posted_at \in Nat
    BY LineFacts DEF AreLines
  <1>1. <<x[1], x[2]>> \in Lines(a, from, to) BY LineFacts
  <1>2. x[1] \in DOMAIN history /\ x[2] \in DOMAIN history[x[1]].postings BY <1>1, LineFacts
  <1>3. history[x[1]] \in Dated BY <1>2, ElementOfSeq, LenProperties DEF TypeOK, Dated
  <1>4. history[x[1]].postings \in Seq(Posting) /\ history[x[1]].posted_at \in Nat
    BY <1>3, InstantsAssumption DEF Dated
  <1>5. x[2] \in 1 .. Len(history[x[1]].postings) BY <1>2, <1>4, LenProperties
  <1>6. x[1] \in 1 .. Len(history) BY <1>2, PartType
  <1>7. Len(history) \in Nat /\ Len(history[x[1]].postings) \in Nat
    BY <1>4, PartType, LenProperties
  <1> QED BY <1>4, <1>5, <1>6, <1>7

\* Newest first is a strict order of lines.
LEMMA NewestFirstOrders ==
    ASSUME NEW S, AreLines(S)
    PROVE  /\ \A x \in S : ~ NewestFirst(x, x)
           /\ \A x, y \in S : x # y => NewestFirst(x, y) \/ NewestFirst(y, x)
           /\ \A x, y, z \in S : NewestFirst(x, y) /\ NewestFirst(y, z) => NewestFirst(x, z)
PROOF
  <1>1. ASSUME NEW x \in S, NEW y \in S, x[1] = y[1], x[2] = y[2] PROVE x = y
    BY <1>1 DEF AreLines
  <1>2. \A x \in S : ~ NewestFirst(x, x) BY DEF AreLines, NewestFirst
  <1>3. \A x, y \in S : x # y => NewestFirst(x, y) \/ NewestFirst(y, x)
    BY <1>1 DEF AreLines, NewestFirst
  <1>4. ASSUME NEW x \in S, NEW y \in S, NEW z \in S, NewestFirst(x, y), NewestFirst(y, z)
        PROVE  NewestFirst(x, z)
    BY <1>4 DEF AreLines, NewestFirst
  <1> QED BY <1>2, <1>3, <1>4

\* The lines sorted before x.
Before(S, x) == {y \in S : NewestFirst(y, x)}

\* There is exactly one line with n others before it, for every n.
LEMMA Ranks ==
    ASSUME NEW S, AreLines(S)
    PROVE  /\ Cardinality(S) \in Nat
           /\ \A x \in S : Cardinality(Before(S, x)) \in 0 .. Cardinality(S) - 1
           /\ \A x, y \in S : NewestFirst(x, y) =>
                 Cardinality(Before(S, x)) < Cardinality(Before(S, y))
           /\ \A n \in 0 .. Cardinality(S) - 1 : \E x \in S : Cardinality(Before(S, x)) = n
PROOF
  <1> DEFINE N == Cardinality(S)
             rank == [x \in S |-> Cardinality(Before(S, x))]
  <1>1. IsFiniteSet(S) /\ N \in Nat BY FS_CardinalityType DEF AreLines
  <1>2. ASSUME NEW x \in S
        PROVE  IsFiniteSet(Before(S, x)) /\ Cardinality(Before(S, x)) \in 0 .. N - 1
    <2>1. Before(S, x) \in SUBSET S BY DEF Before
    <2>2. x \notin Before(S, x) BY NewestFirstOrders DEF Before
    <2>3. Before(S, x) # S BY <2>2
    <2>4. /\ IsFiniteSet(Before(S, x)) /\ Cardinality(Before(S, x)) =< N
          /\ Cardinality(Before(S, x)) # N
      BY <1>1, <2>1, <2>3, FS_Subset
    <2>5. Cardinality(Before(S, x)) \in Nat BY <2>4, FS_CardinalityType
    <2> QED BY <1>1, <2>4, <2>5
  <1>3. ASSUME NEW x \in S, NEW y \in S, NewestFirst(x, y)
        PROVE  Cardinality(Before(S, x)) < Cardinality(Before(S, y))
    <2>1. Before(S, x) \in SUBSET Before(S, y) BY <1>3, NewestFirstOrders DEF Before
    <2>2. x \in Before(S, y) /\ x \notin Before(S, x) BY <1>3, NewestFirstOrders DEF Before
    <2>3. Before(S, x) # Before(S, y) BY <2>2
    <2>4. /\ Cardinality(Before(S, x)) =< Cardinality(Before(S, y))
          /\ Cardinality(Before(S, x)) # Cardinality(Before(S, y))
      BY <1>2, <2>1, <2>3, FS_Subset
    <2>5. Cardinality(Before(S, x)) \in Int /\ Cardinality(Before(S, y)) \in Int BY <1>1, <1>2
    <2> QED BY <2>4, <2>5
  <1>4. ASSUME NEW n \in 0 .. N - 1 PROVE \E x \in S : Cardinality(Before(S, x)) = n
    <2>1. rank \in Injection(S, 0 .. N - 1)
      <3>1. rank \in [S -> 0 .. N - 1] BY <1>2
      <3>2. ASSUME NEW x \in S, NEW y \in S, rank[x] = rank[y] PROVE x = y
        <4>1. Cardinality(Before(S, x)) = Cardinality(Before(S, y)) BY <3>2
        <4>2. Cardinality(Before(S, x)) \in Int BY <1>1, <1>2
        <4>3. ~ NewestFirst(x, y) /\ ~ NewestFirst(y, x) BY <1>3, <4>1, <4>2
        <4> QED BY <4>3, NewestFirstOrders
      <3> HIDE DEF rank
      <3> QED BY <3>1, <3>2 DEF Injection, IsInjective
    <2>2. IsFiniteSet(0 .. N - 1) /\ Cardinality(0 .. N - 1) = N BY <1>1, FS_Interval
    <2>3. rank \in Surjection(S, 0 .. N - 1) BY <2>1, <2>2, FS_Injection
    <2>4. \E x \in S : rank[x] = n BY <2>3 DEF Surjection
    <2> QED BY <2>4
  <1> QED BY <1>1, <1>2, <1>3, <1>4

\* Sorted enumerates the lines, each once, newest first.
LEMMA SortedFacts ==
    ASSUME NEW S, AreLines(S)
    PROVE  /\ Cardinality(S) \in Nat /\ Len(Sorted(S)) = Cardinality(S)
           /\ DOMAIN Sorted(S) = 1 .. Cardinality(S)
           /\ \A n \in 1 .. Cardinality(S) : Sorted(S)[n] \in S
           /\ \A x \in S : \E n \in 1 .. Cardinality(S) : Sorted(S)[n] = x
           /\ \A m, n \in 1 .. Cardinality(S) :
                 m < n => NewestFirst(Sorted(S)[m], Sorted(S)[n])
PROOF
  <1> DEFINE N == Cardinality(S)
             s == Sorted(S)
  <1>1. N \in Nat BY Ranks
  <1>2. DOMAIN s = 1 .. N BY DEF Sorted
  <1>3. ASSUME NEW n \in 1 .. N
        PROVE  s[n] \in S /\ Cardinality(Before(S, s[n])) = n - 1
    <2>1. s[n] = CHOOSE x \in S : Cardinality(Before(S, x)) = n - 1 BY DEF Sorted, Before
    <2>2. n - 1 \in 0 .. N - 1 BY <1>1
    <2>3. \E x \in S : Cardinality(Before(S, x)) = n - 1 BY <2>2, Ranks
    <2> HIDE DEF s
    <2> QED BY <2>1, <2>3
  <1> HIDE DEF s
  <1>4. ASSUME NEW x \in S, NEW y \in S,
               Cardinality(Before(S, x)) = Cardinality(Before(S, y))
        PROVE  x = y
    <2>1. Cardinality(Before(S, x)) \in 0 .. N - 1 BY Ranks
    <2>2. ~ NewestFirst(x, y) /\ ~ NewestFirst(y, x) BY <1>1, <1>4, <2>1, Ranks
    <2> QED BY <2>2, NewestFirstOrders
  <1>5. ASSUME NEW x \in S PROVE \E n \in 1 .. N : s[n] = x
    <2>1. Cardinality(Before(S, x)) \in 0 .. N - 1 BY Ranks
    <2> DEFINE n == Cardinality(Before(S, x)) + 1
    <2>2. n \in 1 .. N /\ n - 1 = Cardinality(Before(S, x)) BY <1>1, <2>1
    <2> HIDE DEF n
    <2>3. s[n] = x BY <1>3, <1>4, <2>2
    <2> QED BY <2>2, <2>3
  <1>6. ASSUME NEW m \in 1 .. N, NEW n \in 1 .. N, m < n PROVE NewestFirst(s[m], s[n])
    <2>1. /\ s[m] \in S /\ Cardinality(Before(S, s[m])) = m - 1
          /\ s[n] \in S /\ Cardinality(Before(S, s[n])) = n - 1
      BY <1>3
    <2>2. s[m] # s[n] BY <1>1, <1>6, <2>1
    <2>3. ~ NewestFirst(s[n], s[m])
      <3>1. NewestFirst(s[n], s[m]) => n - 1 < m - 1 BY <2>1, Ranks
      <3> QED BY <1>1, <1>6, <3>1
    <2> QED BY <2>1, <2>2, <2>3, NewestFirstOrders
  <1>7. Len(s) = N
    <2>1. s \in Seq(S)
      <3>1. s \in [1 .. N -> S] BY <1>2, <1>3 DEF s, Sorted
      <3> QED BY <1>1, <3>1, SeqDef
    <2>2. DOMAIN s = 1 .. Len(s) /\ Len(s) \in Nat BY <2>1, LenProperties
    <2> QED BY <1>1, <1>2, <2>2
  <1> QED BY <1>1, <1>2, <1>3, <1>5, <1>6, <1>7 DEF s

-----------------------------------------------------------------------------
(* A statement cut short.                                                  *)

LEMMA ClampType == ASSUME NEW limit \in Nat
    PROVE Clamp(limit) \in 1 .. MaxLines /\ (limit > 0 => Clamp(limit) =< limit)
BY InstantsAssumption DEF Clamp

\* A statement is the first lines of the sorted ones, as many as are asked for.
LEMMA StatementFacts ==
    ASSUME TypeOK, NEW a, NEW from, NEW to, NEW limit \in Nat
    PROVE  LET S == Lines(a, from, to)
               N == Cardinality(S)
               s == Statement(a, from, to, limit)
           IN /\ N \in Nat /\ Len(s) = IF N < Clamp(limit) THEN N ELSE Clamp(limit)
              /\ DOMAIN s = 1 .. Len(s)
              /\ \A n \in 1 .. Len(s) : s[n] = Sorted(S)[n]
PROOF
  <1> DEFINE S == Lines(a, from, to)
             N == Cardinality(S)
             s == Statement(a, from, to, limit)
             all == Sorted(S)
             c == IF N < Clamp(limit) THEN N ELSE Clamp(limit)
  <1>1. AreLines(S) BY LinesAreLines
  <1> HIDE DEF S
  <1>2. N \in Nat /\ Len(all) = N /\ \A n \in 1 .. N : all[n] \in S BY <1>1, SortedFacts
  <1>3. Clamp(limit) \in Nat BY ClampType, InstantsAssumption
  <1>4. c \in Nat /\ c =< N BY <1>2, <1>3
  <1>5. s = SubSeq(all, 1, c) BY <1>2 DEF Statement, S
  <1> HIDE DEF c, s, all, N
  <1>6. /\ SubSeq(all, 1, c) \in Seq(S)
        /\ Len(SubSeq(all, 1, c)) = IF 1 =< c THEN c - 1 + 1 ELSE 0
        /\ \A i \in 1 .. c - 1 + 1 : SubSeq(all, 1, c)[i] = all[1 + i - 1]
    <2>1. \A i \in 1 .. c : all[i] \in S BY <1>2, <1>4
    <2> QED BY <1>4, <2>1, SubSeqProperties
  <1>7. Len(s) = c /\ \A i \in 1 .. c : s[i] = all[i] BY <1>4, <1>5, <1>6
  <1>8. DOMAIN s = 1 .. Len(s) BY <1>5, <1>6, LenProperties
  <1> QED BY <1>2, <1>7, <1>8 DEF c, s, all, N, S

LEMMA NewestAreShown == TypeOK => CutShowsNewest
PROOF
  <1> SUFFICES ASSUME TypeOK, NEW a \in Accounts, NEW limit \in 0 .. MaxLines + 1
               PROVE  LET shown == Statement(a, NoTime, NoTime, limit) IN
                      /\ Len(shown) =< MaxLines /\ (limit > 0 => Len(shown) =< limit)
                      /\ \A n \in DOMAIN shown, line \in Lines(a, NoTime, NoTime) \ ToSet(shown) :
                            history[line[1]].posted_at =< history[shown[n][1]].posted_at
                      /\ \A m, n \in DOMAIN shown :
                            m < n => history[shown[n][1]].posted_at
                                       =< history[shown[m][1]].posted_at
    BY DEF CutShowsNewest
  <1> DEFINE S == Lines(a, NoTime, NoTime)
             N == Cardinality(S)
             shown == Statement(a, NoTime, NoTime, limit)
             all == Sorted(S)
  <1>1. limit \in Nat /\ MaxLines \in Nat BY InstantsAssumption
  <1>2. Clamp(limit) \in 1 .. MaxLines /\ (limit > 0 => Clamp(limit) =< limit)
    BY <1>1, ClampType
  <1>3. /\ N \in Nat /\ Len(shown) = (IF N < Clamp(limit) THEN N ELSE Clamp(limit))
        /\ DOMAIN shown = 1 .. Len(shown)
        /\ \A n \in 1 .. Len(shown) : shown[n] = all[n]
    BY <1>1, StatementFacts
  <1>4. AreLines(S) BY LinesAreLines
  <1> HIDE DEF S, shown, all
  <1>5. /\ \A n \in 1 .. N : all[n] \in S
        /\ \A x \in S : \E n \in 1 .. N : all[n] = x
        /\ \A m, n \in 1 .. N : m < n => NewestFirst(all[m], all[n])
    BY <1>4, SortedFacts DEF all
  <1>6. \A m, n \in 1 .. N : m < n =>
           history[all[n][1]].posted_at =< history[all[m][1]].posted_at
    BY <1>4, <1>5 DEF NewestFirst, AreLines
  <1> HIDE DEF N
  <1>7. Len(shown) \in Nat /\ Len(shown) =< N BY <1>2, <1>3
  <1>8. Len(shown) =< MaxLines /\ (limit > 0 => Len(shown) =< limit)
    BY <1>1, <1>2, <1>3
  <1>9. ASSUME NEW m \in DOMAIN shown, NEW n \in DOMAIN shown, m < n
        PROVE  history[shown[n][1]].posted_at =< history[shown[m][1]].posted_at
    BY <1>3, <1>6, <1>7, <1>9
  <1>10. ASSUME NEW n \in DOMAIN shown, NEW line \in S \ ToSet(shown)
         PROVE  history[line[1]].posted_at =< history[shown[n][1]].posted_at
    <2>1. PICK p \in 1 .. N : all[p] = line BY <1>5
    <2>2. p \notin 1 .. Len(shown) BY <1>3, <2>1, <1>10 DEF ToSet
    <2>3. n \in 1 .. N /\ n < p /\ shown[n] = all[n] BY <1>3, <1>7, <2>1, <2>2
    <2> QED BY <1>6, <2>1, <2>3
  <1> QED BY <1>8, <1>9, <1>10 DEF S, shown

\* A statement cut short shows the newest lines, newest first, and never more
\* than asked for (the LIMIT and ORDER BY of Statement), for every account,
\* limit and history.
THEOREM CutsShowNewest == Spec => []CutShowsNewest
PROOF
  <1>1. TypeOK => CutShowsNewest BY NewestAreShown
  <1> QED BY <1>1, HistoryTypeCorrect, PTL

-----------------------------------------------------------------------------
(* A complete statement.                                                   *)

\* s[1], ..., s[N] are the elements of S, each once.
Enumerates(s, N, S) ==
    /\ \A n \in 1 .. N : s[n] \in S
    /\ \A x \in S : \E n \in 1 .. N : s[n] = x
    /\ \A m, n \in 1 .. N : s[m] = s[n] => m = n

\* The lines of a window, added up in any order that has each of them once, are
\* what its rows move: exchange of the sums over lines and rows.
LEMMA LinesAddUp ==
    ASSUME TypeOK, NEW a, NEW from \in Instants, NEW to \in Instants,
           NEW N \in Nat, NEW s, NEW f,
           \A n \in 1 .. N : f[n] = Signed(history[s[n][1]].postings[s[n][2]]),
           Enumerates(s, N, Lines(a, from, to))
    PROVE  SumTo(f, N) = SumTo(Part(Window(from, to), a), Len(history))
PROOF
  <1> DEFINE h == Len(history)
             val(n) == Signed(history[s[n][1]].postings[s[n][2]])
             W == Window(from, to)
             F == [n \in 1 .. N |-> [k \in 1 .. h |-> IF k = s[n][1] THEN val(n) ELSE 0]]
             rows == [n \in 1 .. N |-> SumTo([k \in 1 .. h |-> F[n][k]], h)]
             cols == [k \in 1 .. h |-> SumTo([n \in 1 .. N |-> F[n][k]], N)]
             p == Part(W, a)
  <1> USE DEF Enumerates
  <1>1. h \in Nat /\ DOMAIN history = 1 .. h BY PartType
  <1>2. \A k \in 1 .. h : /\ k \in W <=> InWindow(history[k].posted_at, from, to)
                          /\ history[k].postings \in Seq(Posting)
    <2> TAKE k \in 1 .. h
    <2>1. history[k] \in Dated BY ElementOfSeq, LenProperties DEF TypeOK, Dated
    <2>2. from # NoTime /\ to # NoTime BY InstantsAssumption DEF NoTime
    <2> QED BY <1>1, <2>1, <2>2 DEF Window, InWindow, Dated
  <1>3. ASSUME NEW n \in 1 .. N
        PROVE  /\ s[n] = <<s[n][1], s[n][2]>>
               /\ s[n][1] \in 1 .. h /\ s[n][1] \in W
               /\ s[n][2] \in 1 .. Len(history[s[n][1]].postings)
               /\ history[s[n][1]].postings[s[n][2]].account = a
               /\ val(n) \in Int
    <2>1. s[n] = <<s[n][1], s[n][2]>> /\ <<s[n][1], s[n][2]>> \in Lines(a, from, to)
      BY LineFacts
    <2>2. /\ s[n][1] \in 1 .. h /\ InWindow(history[s[n][1]].posted_at, from, to)
          /\ s[n][2] \in DOMAIN history[s[n][1]].postings
          /\ history[s[n][1]].postings[s[n][2]].account = a
      BY <1>1, <2>1, LineFacts
    <2>3. history[s[n][1]].postings \in Seq(Posting) BY <1>2, <2>2
    <2>4. s[n][2] \in 1 .. Len(history[s[n][1]].postings) BY <2>2, <2>3, LenProperties
    <2>5. history[s[n][1]].postings[s[n][2]] \in Posting BY <2>3, <2>4, ElementOfSeq
    <2>6. val(n) \in Int BY <2>5, SignedType DEF Posting
    <2> QED BY <1>2, <2>1, <2>2, <2>4, <2>6
  <1>4. ASSUME NEW k \in 1 .. h, NEW i \in 1 .. Len(history[k].postings),
               k \in W, history[k].postings[i].account = a
        PROVE  \E n \in 1 .. N : s[n] = <<k, i>>
    <2>1. i \in DOMAIN history[k].postings BY <1>2, LenProperties
    <2>2. <<k, i>> \in Lines(a, from, to) BY <1>1, <1>2, <1>4, <2>1, LineFacts
    <2> QED BY <2>2
  <1>5. \A n \in 1 .. N, k \in 1 .. h : F[n][k] = IF k = s[n][1] THEN val(n) ELSE 0 OBVIOUS
  <1>6. \A n \in 1 .. N : f[n] = val(n) OBVIOUS
  <1>7. \A k \in 1 .. h : p[k] = IF k \in W THEN Delta(history[k], a) ELSE 0
    BY <1>1 DEF Part
  <1> HIDE DEF F, p, val, W, h
  <1>8. \A n \in 1 .. N, k \in 1 .. h : F[n][k] \in Int BY <1>3, <1>5
  <1>9. SumTo(rows, N) = SumTo(cols, h) BY <1>1, <1>8, SumSwap
  <1>10. ASSUME NEW n \in 1 .. N PROVE rows[n] = f[n]
    <2> DEFINE row == [k \in 1 .. h |-> F[n][k]]
    <2>1. rows[n] = SumTo(row, h) OBVIOUS
    <2>2. \A k \in 1 .. h : row[k] = IF k = s[n][1] THEN val(n) ELSE 0 BY <1>5
    <2> HIDE DEF row, rows
    <2>3. s[n][1] \in 1 .. h /\ row[s[n][1]] = val(n) /\ row[s[n][1]] \in Int BY <1>3, <2>2
    <2>4. \A k \in 1 .. h : k # s[n][1] => row[k] = 0 BY <2>2
    <2>5. SumTo(row, h) = row[s[n][1]] BY <1>1, <2>3, <2>4, SumOfOne
    <2> QED BY <1>6, <2>1, <2>3, <2>5
  <1>11. ASSUME NEW k \in 1 .. h PROVE cols[k] = p[k]
    <2> DEFINE ps == history[k].postings
               m == Len(ps)
               col == [n \in 1 .. N |-> F[n][k]]
               g == [i \in 1 .. m |-> IF ps[i].account = a THEN Signed(ps[i]) ELSE 0]
               R == {q \in (1 .. N) \X (1 .. m) : s[q[1]] = <<k, q[2]>>}
    <2>1. cols[k] = SumTo(col, N) OBVIOUS
    <2>2. \A n \in 1 .. N : col[n] = IF k = s[n][1] THEN val(n) ELSE 0 BY <1>5
    <2>3. Delta(history[k], a) = SumTo(g, m) BY DEF Delta
    <2>4. m \in Nat /\ \A i \in 1 .. m : ps[i] \in Posting
      BY <1>2, LenProperties, ElementOfSeq
    <2>5. \A i \in 1 .. m : /\ g[i] = IF ps[i].account = a THEN Signed(ps[i]) ELSE 0
                            /\ g[i] \in Int
      BY <2>4, SignedType DEF Posting
    <2> HIDE DEF col, cols, g
    <2>6. CASE k \notin W
      <3>1. \A n \in 1 .. N : col[n] = 0 BY <1>3, <2>2, <2>6
      <3>2. SumTo(col, N) = 0 BY <3>1, SumAllZero
      <3> QED BY <1>7, <2>1, <2>6, <3>2
    <2>7. CASE k \in W
      <3>1. \A n \in 1 .. N, i \in 1 .. m : <<n, i>> \in R <=> s[n] = <<k, i>> OBVIOUS
      <3>2. R \subseteq (1 .. N) \X (1 .. m) OBVIOUS
      <3>3. ASSUME NEW q \in R
            PROVE  /\ q = <<q[1], q[2]>> /\ q[1] \in 1 .. N /\ q[2] \in 1 .. m
                   /\ s[q[1]] = <<k, q[2]>>
                   /\ s[q[1]][1] = k /\ s[q[1]][2] = q[2]
        <4>1. q = <<q[1], q[2]>> /\ q[1] \in 1 .. N /\ q[2] \in 1 .. m BY <3>2
        <4>2. s[q[1]] = <<k, q[2]>> OBVIOUS
        <4> QED BY <4>1, <4>2
      <3>4. ASSUME NEW n \in 1 .. N, s[n][1] = k
            PROVE  \E i \in 1 .. m : <<n, i>> \in R
        <4>1. s[n][2] \in 1 .. m /\ s[n] = <<k, s[n][2]>> BY <1>3, <3>4
        <4> QED BY <3>1, <4>1
      <3>5. ASSUME NEW i \in 1 .. m, ps[i].account = a
            PROVE  \E n \in 1 .. N : <<n, i>> \in R
        <4>1. \E n \in 1 .. N : s[n] = <<k, i>> BY <1>4, <2>7, <3>5
        <4> QED BY <3>1, <4>1
      <3> HIDE DEF R
      <3>6. \A q, r \in R : (q[1] = r[1] \/ q[2] = r[2]) => q = r
        <4> SUFFICES ASSUME NEW q \in R, NEW r \in R, q[1] = r[1] \/ q[2] = r[2] PROVE q = r
          OBVIOUS
        <4>1. CASE q[1] = r[1]
          <5>1. q[2] = r[2] BY <3>3, <4>1
          <5> QED BY <3>3, <4>1, <5>1
        <4>2. CASE q[2] = r[2]
          <5>1. s[q[1]] = <<k, q[2]>> /\ s[r[1]] = <<k, r[2]>> BY <3>3
          <5>2. s[q[1]] = s[r[1]] BY <4>2, <5>1
          <5>3. q[1] = r[1] BY <3>3, <5>2
          <5> QED BY <3>3, <4>2, <5>3
        <4> QED BY <4>1, <4>2
      <3>7. \A n \in 1 .. N : col[n] \in Int BY <1>3, <2>2
      <3>8. \A n \in 1 .. N : col[n] = 0 \/ \E i \in 1 .. m : <<n, i>> \in R BY <2>2, <3>4
      <3>9. \A i \in 1 .. m : g[i] = 0 \/ \E n \in 1 .. N : <<n, i>> \in R BY <2>5, <3>5
      <3>10. ASSUME NEW q \in R PROVE col[q[1]] = g[q[2]]
        <4>1. s[q[1]][1] = k /\ s[q[1]][2] = q[2] /\ q[1] \in 1 .. N /\ q[2] \in 1 .. m
          BY <3>3
        <4>2. col[q[1]] = val(q[1]) BY <2>2, <4>1
        <4>3. val(q[1]) = Signed(ps[q[2]]) BY <4>1 DEF val
        <4>4. ps[q[2]].account = a BY <1>3, <4>1
        <4> QED BY <2>5, <4>1, <4>2, <4>3, <4>4
      <3>11. PairedOff(col, N, g, m, R)
        BY <2>5, <3>2, <3>6, <3>7, <3>8, <3>9, <3>10 DEF PairedOff
      <3>12. SumTo(col, N) = SumTo(g, m) BY <2>4, <3>11, PairedSums
      <3> QED BY <1>7, <2>1, <2>3, <2>7, <3>12
    <2> QED BY <2>6, <2>7
  <1> HIDE DEF rows, cols
  <1>12. SumTo(rows, N) = SumTo(f, N) BY <1>10, SumCong
  <1>13. SumTo(cols, h) = SumTo(p, h) BY <1>1, <1>11, SumCong
  <1> QED BY <1>9, <1>12, <1>13 DEF p, h, W, val

LEMMA CompleteStatementExplains == TypeOK => StatementExplains
PROOF
  <1> SUFFICES ASSUME TypeOK, NEW a \in Accounts, NEW from \in Instants, NEW to \in Instants,
                      from =< to, Cardinality(Lines(a, from, to)) =< MaxLines
               PROVE  Total(Statement(a, from, to, 0), a)
                        = BalanceAsOf(a, to) - BalanceAsOf(a, from - 1)
    BY DEF StatementExplains
  <1> DEFINE S == Lines(a, from, to)
             N == Cardinality(S)
             s == Statement(a, from, to, 0)
             f == [n \in 1 .. N |-> Signed(history[s[n][1]].postings[s[n][2]])]
  <1>1. AreLines(S) BY LinesAreLines
  <1>2. /\ N \in Nat /\ \A n \in 1 .. N : Sorted(S)[n] \in S
        /\ \A x \in S : \E n \in 1 .. N : Sorted(S)[n] = x
        /\ \A m, n \in 1 .. N : m < n => NewestFirst(Sorted(S)[m], Sorted(S)[n])
    BY <1>1, SortedFacts
  <1>3. Clamp(0) = MaxLines /\ MaxLines \in Nat BY InstantsAssumption DEF Clamp
  <1>4. /\ Len(s) = (IF N < Clamp(0) THEN N ELSE Clamp(0))
        /\ DOMAIN s = 1 .. Len(s) /\ \A n \in 1 .. Len(s) : s[n] = Sorted(S)[n]
    BY StatementFacts
  <1> HIDE DEF s
  <1>5. Len(s) = N /\ DOMAIN s = 1 .. N /\ \A n \in 1 .. N : s[n] = Sorted(S)[n]
    BY <1>2, <1>3, <1>4
  <1>6. Total(s, a) = Normalise(SumTo(f, N), a) BY <1>5 DEF Total
  <1> HIDE DEF S, N, f
  <1>7. \A m, n \in 1 .. N : s[m] = s[n] => m = n
    <2> SUFFICES ASSUME NEW m \in 1 .. N, NEW n \in 1 .. N, s[m] = s[n], m < n PROVE FALSE
      BY <1>2
    <2>1. NewestFirst(s[m], s[n]) /\ s[m] \in S BY <1>2, <1>5
    <2> QED BY <1>1, <2>1, NewestFirstOrders
  <1>8. SumTo(f, N) = SumTo(Part(Window(from, to), a), Len(history))
    <2>1. Enumerates(s, N, Lines(a, from, to)) BY <1>2, <1>5, <1>7 DEF S, Enumerates
    <2>2. \A n \in 1 .. N : f[n] = Signed(history[s[n][1]].postings[s[n][2]]) BY DEF f
    <2> QED BY <1>2, <2>1, <2>2, LinesAddUp
  <1>9. Movement(Window(from, to), a) = Normalise(SumTo(f, N), a) BY <1>8, MovementIsPart
  <1>10. from \in Int /\ to \in Int BY InstantsAssumption
  <1> QED BY <1>6, <1>9, <1>10, WindowMovement DEF s

\* A complete statement of a window adds up to the difference of the balances as
\* of its two ends (Statement and BalanceAsOf of query.go), for every account,
\* window and history.
THEOREM StatementsExplain == Spec => []StatementExplains
PROOF
  <1>1. TypeOK => StatementExplains BY CompleteStatementExplains
  <1> QED BY <1>1, HistoryTypeCorrect, PTL

=============================================================================
