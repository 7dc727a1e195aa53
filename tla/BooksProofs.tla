---------------------------- MODULE BooksProofs -----------------------------
(***************************************************************************)
(* The invariants of Books, for every chart of accounts, every set of      *)
(* requests and every number of holds.                                     *)
(***************************************************************************)
EXTENDS Books, LedgerDataProofs

\* No hold has reference 0, which stands for "no hold".
LEMMA ZeroIsNoHold == 0 \notin HoldRefs
BY BoundsAssumption DEF HoldRefs

\* What writing a transfer does to well-typed tables.
LEMMA WriteFacts ==
    ASSUME TypeOK, NEW t \in RawTransfer, NEW x, Write(t, x)
    PROVE  /\ t \in Transfer
           /\ Row(t, TailHash) \in RowType
           /\ transfers' \in Seq(RowType)
           /\ Len(transfers') = Len(transfers) + 1
           /\ \A k \in 1 .. Len(transfers) : transfers'[k] = transfers[k]
           /\ transfers'[Len(transfers) + 1] = Row(t, TailHash)
           /\ balances' \in [Accounts -> Int]
           /\ \A a \in Accounts : balances'[a] = balances[a] + Delta(t, a)
PROOF
  <1>1. t \in Transfer BY AcceptedIsTyped DEF Write
  <1>2. t.postings \in Seq(Posting) /\ t.reference \in STRING /\ t.reverses \in Nat
    BY <1>1 DEF Transfer
  <1>3. transfers \in Seq(RowType) /\ balances \in [Accounts -> Int] BY DEF TypeOK
  <1>4. TailHash \in Seq(Transfer)
    <2>1. CASE transfers = << >> BY <2>1, EmptySeq DEF TailHash, NoHash
    <2>2. CASE transfers # << >>
      <3> Len(transfers) \in 1 .. Len(transfers) BY <1>3, <2>2, EmptySeq
      <3> transfers[Len(transfers)] \in RowType BY <1>3, ElementOfSeq
      <3> QED BY <2>2 DEF TailHash, RowType
    <2> QED BY <2>1, <2>2
  <1>5. ChainDigest(TailHash, t) \in Seq(Transfer) BY <1>1, <1>4 DEF ChainDigest
  <1>6. Row(t, TailHash) \in RowType BY <1>2, <1>4, <1>5 DEF Row, RowType
  <1>7. transfers' = Append(transfers, Row(t, TailHash)) BY DEF Write
  <1>8. /\ transfers' \in Seq(RowType)
        /\ Len(transfers') = Len(transfers) + 1
        /\ \A k \in 1 .. Len(transfers) : transfers'[k] = transfers[k]
        /\ transfers'[Len(transfers) + 1] = Row(t, TailHash)
    BY <1>3, <1>6, <1>7
  <1>9. \A a \in Accounts : Delta(t, a) \in Int BY <1>2, DeltaFacts
  <1>10. balances' = [a \in Accounts |-> balances[a] + Delta(t, a)]
    BY DEF Write, ApplyBalances
  <1> QED BY <1>1, <1>3, <1>6, <1>8, <1>9, <1>10

\* The history grows by exactly the transfer written.
LEMMA WriteAppends ==
    ASSUME TypeOK, NEW t \in RawTransfer, NEW x, Write(t, x)
    PROVE  /\ DOMAIN transfers = 1 .. Len(transfers) /\ Len(transfers) \in Nat
           /\ DOMAIN transfers' = 1 .. Len(transfers) + 1
           /\ \A k \in 1 .. Len(transfers) : transfers'[k] = transfers[k]
           /\ transfers'[Len(transfers) + 1].reverses = t.reverses
           /\ transfers'[Len(transfers) + 1].postings = t.postings
PROOF
  <1>1. transfers \in Seq(RowType) BY DEF TypeOK
  <1>2. transfers' \in Seq(RowType) /\ Len(transfers') = Len(transfers) + 1
    BY WriteFacts
  <1>3. DOMAIN transfers' = 1 .. Len(transfers) + 1 BY <1>2, LenProperties
  <1>4. transfers'[Len(transfers) + 1] = Row(t, TailHash) BY WriteFacts
  <1>5. /\ transfers'[Len(transfers) + 1].reverses = t.reverses
        /\ transfers'[Len(transfers) + 1].postings = t.postings
    BY <1>4 DEF Row
  <1>6. \A k \in 1 .. Len(transfers) : transfers'[k] = transfers[k] BY WriteFacts
  <1> QED BY <1>1, <1>3, <1>5, <1>6, LenProperties

\* A reversal is a transfer like any other.
LEMMA ReverseIsRaw ==
    ASSUME TypeOK, NEW k \in DOMAIN transfers, NEW ref \in STRING
    PROVE  /\ Reversal(transfers[k], k, ref) \in RawTransfer
           /\ transfers[k] \in RowType /\ k \in 1 .. Len(transfers)
PROOF
  <1>1. transfers \in Seq(RowType) BY DEF TypeOK
  <1>2. k \in 1 .. Len(transfers) /\ k \in Nat BY <1>1, LenProperties
  <1>3. transfers[k] \in RowType BY <1>1, <1>2, ElementOfSeq
  <1> QED BY <1>2, <1>3, ReversalIsTransfer

-----------------------------------------------------------------------------
LEMMA TypeInit == Init => TypeOK
PROOF
  <1> SUFFICES ASSUME Init PROVE TypeOK OBVIOUS
  <1>1. NoHold \in HoldRow BY DEF NoHold, HoldRow
  <1>2. << >> \in Seq(RowType) BY EmptySeq
  <1> QED BY <1>1, <1>2 DEF Init, TypeOK

\* Every operation keeps the tables well-typed.
LEMMA TypeStep == TypeOK /\ [Next]_vars => TypeOK'
PROOF
  <1> SUFFICES ASSUME TypeOK, [Next]_vars PROVE TypeOK' OBVIOUS
  <1>0. holds \in [HoldRefs -> HoldRow] BY DEF TypeOK
  <1>1. ASSUME NEW a \in Accounts, CreateAccount(a) PROVE TypeOK'
    BY <1>1 DEF CreateAccount, TypeOK
  <1>2. ASSUME NEW a \in Accounts, Archive(a) PROVE TypeOK'
    BY <1>2 DEF Archive, TypeOK
  <1>3. ASSUME NEW t \in Requests, Post(t) PROVE TypeOK'
    <2>1. t \in RawTransfer /\ Write(t, 0) BY <1>3, RequestsAssumption DEF Post
    <2>2. accounts' = accounts /\ holds' = holds BY <1>3 DEF Post, Write
    <2> QED BY <2>1, <2>2, WriteFacts DEF TypeOK
  <1>4. ASSUME NEW k \in DOMAIN transfers, NEW ref \in ReversalRefs, Reverse(k, ref)
        PROVE TypeOK'
    <2>1. Reversal(transfers[k], k, ref) \in RawTransfer
      BY ReverseIsRaw, RequestsAssumption
    <2>2. /\ Write(Reversal(transfers[k], k, ref), 0)
          /\ accounts' = accounts /\ holds' = holds
      BY <1>4 DEF Reverse, Write
    <2> QED BY <2>1, <2>2, WriteFacts DEF TypeOK
  <1>5. ASSUME NEW r \in HoldRequests, PlaceHold(r) PROVE TypeOK'
    <2>1. r \in HoldRequest BY RequestsAssumption
    <2>2. r.reference \in HoldRefs /\ r.amount \in Nat /\ r.account \in Accounts
          /\ r.expires \in BOOLEAN
      BY <1>5, <2>1 DEF PlaceHold, HoldRequest
    <2>3. NewHold(r) \in HoldRow BY <2>2 DEF NewHold, HoldRow
    <2> QED BY <1>5, <2>2, <2>3 DEF PlaceHold, TypeOK
  <1>6. ASSUME NEW c \in CaptureRequests, Capture(c[1], c[2]) PROVE TypeOK'
    <2>1. c[1] \in HoldRefs /\ c[2] \in RawTransfer BY RequestsAssumption
    <2>2. Write(c[2], c[1]) /\ accounts' = accounts BY <1>6 DEF Capture, Write
    <2>3. Len(transfers) + 1 \in Nat BY DEF TypeOK
    <2>4. holds' = [holds EXCEPT ![c[1]].status = "captured",
                                 ![c[1]].transfer = Len(transfers) + 1]
      BY <1>6 DEF Capture
    <2>5. holds' \in [HoldRefs -> HoldRow]
      BY <1>0, <2>1, <2>3, <2>4 DEF HoldRow
    <2> QED BY <2>1, <2>2, <2>5, WriteFacts DEF TypeOK
  <1>7. ASSUME NEW h \in HoldRefs, Release(h) PROVE TypeOK'
    <2>1. holds' \in [HoldRefs -> HoldRow] BY <1>0, <1>7 DEF Release, HoldRow
    <2> QED BY <1>7, <2>1 DEF Release, TypeOK
  <1>8. ASSUME NEW H \in SUBSET HoldRefs, Expire(H) PROVE TypeOK'
    <2>1. holds' \in [HoldRefs -> HoldRow] BY <1>0, <1>8 DEF Expire, HoldRow
    <2> QED BY <1>8, <2>1 DEF Expire, TypeOK
  <1>9. CASE UNCHANGED vars BY <1>9 DEF vars, TypeOK
  <1> QED BY <1>1, <1>2, <1>3, <1>4, <1>5, <1>6, <1>7, <1>8, <1>9 DEF Next

\* The tables hold only well-formed rows, whatever callers send.
THEOREM TypeCorrect == Spec => []TypeOK
BY TypeInit, TypeStep, PTL DEF Spec

-----------------------------------------------------------------------------
(* The overdraft guard *)

\* The available balance is an integer.
LEMMA AvailableType ==
    ASSUME NEW bal \in [Accounts -> Int], NEW hs \in [HoldRefs -> HoldRow],
           NEW a \in Accounts, NEW x
    PROVE  AvailableLocked(bal, hs, a, x) \in Int
PROOF
  <1> Held(hs, a, x) \in Int BY HeldIsSum
  <1> QED BY DEF AvailableLocked, Normalise

\* Holds that stop reserving, with the balances left alone, keep the guard.
LEMMA GuardWhenHoldsClose ==
    ASSUME TypeOK, TypeOK', GuardHolds, balances' = balances,
           \A h \in HoldRefs : holds'[h].status = "active" => holds'[h] = holds[h]
    PROVE  GuardHolds'
PROOF
  <1> SUFFICES ASSUME NEW a \in Accounts, ~ Chart[a].allowNegative
               PROVE  AvailableLocked(balances', holds', a, 0) >= 0
    BY DEF GuardHolds
  <1>1. /\ holds \in [HoldRefs -> HoldRow] /\ holds' \in [HoldRefs -> HoldRow]
        /\ balances \in [Accounts -> Int]
    BY DEF TypeOK
  <1>2. Held(holds', a, 0) =< Held(holds, a, 0) BY <1>1, HeldShrinks
  <1>3. Held(holds', a, 0) \in Int /\ Held(holds, a, 0) \in Int BY <1>1, HeldIsSum
  <1>4. Normalise(balances[a], a) \in Int BY <1>1 DEF Normalise
  <1>5. Normalise(balances[a], a) - Held(holds, a, 0) >= 0
    BY DEF GuardHolds, AvailableLocked
  <1> QED BY <1>2, <1>3, <1>4, <1>5 DEF AvailableLocked

\* A written transfer keeps the guard when what remains reserved afterwards is
\* what the guard counted: every hold but the one being captured.
LEMMA GuardWhenWriting ==
    ASSUME TypeOK, TypeOK', GuardHolds, NEW t \in RawTransfer, NEW x, Write(t, x),
           \A h \in HoldRefs : holds'[h].status = "active" => holds'[h] = holds[h],
           \A a \in Accounts : Held(holds', a, 0) = Held(holds, a, x)
    PROVE  GuardHolds'
PROOF
  <1> SUFFICES ASSUME NEW a \in Accounts, ~ Chart[a].allowNegative
               PROVE  AvailableLocked(balances', holds', a, 0) >= 0
    BY DEF GuardHolds
  <1>1. /\ holds \in [HoldRefs -> HoldRow] /\ holds' \in [HoldRefs -> HoldRow]
        /\ balances \in [Accounts -> Int]
    BY DEF TypeOK
  <1>2. CASE a \in Touched(t)
    <2>1. AvailableLocked(ApplyBalances(balances, t), holds, a, x) >= 0
      BY <1>2 DEF Write, Covered
    <2>2. balances' = ApplyBalances(balances, t) BY DEF Write
    <2>3. AvailableLocked(balances', holds', a, 0) = AvailableLocked(balances', holds, a, x)
      BY DEF AvailableLocked
    <2> QED BY <2>1, <2>2, <2>3
  <1>3. CASE a \notin Touched(t)
    <2>1. t.postings \in Seq(Posting) BY WriteFacts DEF Transfer
    <2>2. Delta(t, a) = 0 BY <1>3, <2>1, DeltaFacts
    <2>3. balances'[a] = balances[a] BY <1>1, <2>2, WriteFacts
    <2>4. Held(holds', a, 0) =< Held(holds, a, 0) BY <1>1, HeldShrinks
    <2>5. Held(holds', a, 0) \in Int /\ Held(holds, a, 0) \in Int BY <1>1, HeldIsSum
    <2>6. Normalise(balances[a], a) \in Int BY <1>1 DEF Normalise
    <2>7. Normalise(balances[a], a) - Held(holds, a, 0) >= 0
      BY DEF GuardHolds, AvailableLocked
    <2> QED BY <2>3, <2>4, <2>5, <2>6, <2>7 DEF AvailableLocked
  <1> QED BY <1>2, <1>3

LEMMA GuardInit == Init => GuardHolds
PROOF
  <1> SUFFICES ASSUME Init, NEW a \in Accounts
               PROVE  AvailableLocked(balances, holds, a, 0) >= 0
    BY DEF GuardHolds
  <1>1. holds \in [HoldRefs -> HoldRow] BY TypeInit DEF TypeOK
  <1>2. \A h \in 1 .. NumHolds : Reserved(holds, a, 0)[h] = 0
    BY DEF Init, Reserved, NoHold, HoldRefs
  <1>3. Held(holds, a, 0) = 0 BY <1>1, <1>2, HeldIsSum, SumAllZero, BoundsAssumption
  <1>4. balances[a] = 0 BY DEF Init
  <1> QED BY <1>3, <1>4 DEF AvailableLocked, Normalise

LEMMA GuardStep == TypeOK /\ TypeOK' /\ GuardHolds /\ [Next]_vars => GuardHolds'
PROOF
  <1> SUFFICES ASSUME TypeOK, TypeOK', GuardHolds, [Next]_vars PROVE GuardHolds'
    OBVIOUS
  <1>0. /\ holds \in [HoldRefs -> HoldRow] /\ holds' \in [HoldRefs -> HoldRow]
        /\ balances \in [Accounts -> Int]
    BY DEF TypeOK
  <1>1. ASSUME NEW a \in Accounts, CreateAccount(a) PROVE GuardHolds'
    BY <1>1 DEF CreateAccount, GuardHolds
  <1>2. ASSUME NEW a \in Accounts, Archive(a) PROVE GuardHolds'
    BY <1>2 DEF Archive, GuardHolds
  <1>3. ASSUME NEW t \in Requests, Post(t) PROVE GuardHolds'
    <2>1. t \in RawTransfer /\ Write(t, 0) /\ holds' = holds
      BY <1>3, RequestsAssumption DEF Post
    <2> QED BY <2>1, GuardWhenWriting
  <1>4. ASSUME NEW k \in DOMAIN transfers, NEW ref \in ReversalRefs, Reverse(k, ref)
        PROVE GuardHolds'
    <2>1. Reversal(transfers[k], k, ref) \in RawTransfer
      BY ReverseIsRaw, RequestsAssumption
    <2>2. Write(Reversal(transfers[k], k, ref), 0) /\ holds' = holds
      BY <1>4 DEF Reverse
    <2> QED BY <2>1, <2>2, GuardWhenWriting
  <1>5. ASSUME NEW r \in HoldRequests, PlaceHold(r) PROVE GuardHolds'
    <2>1. /\ r.reference \in HoldRefs /\ r.account \in Accounts /\ r.amount \in Int
          /\ r.amount > 0
      BY <1>5, RequestsAssumption DEF PlaceHold, HoldRequest
    <2>2. /\ holds' = [holds EXCEPT ![r.reference] = NewHold(r)]
          /\ holds[r.reference].status # "active" /\ balances' = balances
      BY <1>5 DEF PlaceHold
    <2>3. /\ holds'[r.reference] = NewHold(r)
          /\ \A h \in HoldRefs : h # r.reference => holds'[h] = holds[h]
      BY <1>0, <2>1, <2>2
    <2>4. ASSUME NEW a \in Accounts, ~ Chart[a].allowNegative
          PROVE  AvailableLocked(balances', holds', a, 0) >= 0
      <3>1. Held(holds', a, 0) =
              Held(holds, a, 0) + (IF r.account = a THEN r.amount ELSE 0)
        <4>1. /\ holds'[r.reference].status = "active"
              /\ holds'[r.reference].account = r.account
              /\ holds'[r.reference].amount = r.amount
          BY <2>3 DEF NewHold
        <4>2. Held(holds', a, 0) =
                Held(holds, a, 0) + (IF holds'[r.reference].account = a
                                     THEN holds'[r.reference].amount ELSE 0)
          <5>1. \A h \in HoldRefs : h # r.reference => holds'[h] = holds[h] BY <2>3
          <5>2. holds[r.reference].status # "active" BY <2>2
          <5> QED BY <1>0, <2>1, <4>1, <5>1, <5>2, HeldPlaced, ZeroIsNoHold
        <4> QED BY <4>1, <4>2
      <3>2. Held(holds, a, 0) \in Int BY <1>0, HeldIsSum
      <3>3. Normalise(balances[a], a) \in Int BY <1>0 DEF Normalise
      <3>4. Normalise(balances[a], a) - Held(holds, a, 0) >= 0
        BY <2>4 DEF GuardHolds, AvailableLocked
      <3>5. r.account = a =>
              Normalise(balances[a], a) - Held(holds, a, 0) >= r.amount
        BY <1>5, <2>4 DEF PlaceHold, AvailableLocked
      <3> QED BY <2>1, <2>2, <3>1, <3>2, <3>3, <3>4, <3>5 DEF AvailableLocked
    <2> QED BY <2>4 DEF GuardHolds
  <1>6. ASSUME NEW c \in CaptureRequests, Capture(c[1], c[2]) PROVE GuardHolds'
    <2>1. c[1] \in HoldRefs /\ c[2] \in RawTransfer BY RequestsAssumption
    <2>2. Write(c[2], c[1]) BY <1>6 DEF Capture
    <2>3. /\ holds'[c[1]].status # "active"
          /\ \A h \in HoldRefs : h # c[1] => holds'[h] = holds[h]
      BY <1>0, <1>6, <2>1 DEF Capture, HoldRow
    <2>4. \A a \in Accounts : Held(holds', a, 0) = Held(holds, a, c[1])
      BY <1>0, <2>1, <2>3, HeldClosed, ZeroIsNoHold
    <2> QED BY <2>1, <2>2, <2>3, <2>4, GuardWhenWriting
  <1>7. ASSUME NEW h \in HoldRefs, Release(h) PROVE GuardHolds'
    <2>1. \A g \in HoldRefs : holds'[g].status = "active" => holds'[g] = holds[g]
      BY <1>0, <1>7 DEF Release, HoldRow
    <2> QED BY <1>7, <2>1, GuardWhenHoldsClose DEF Release
  <1>8. ASSUME NEW H \in SUBSET HoldRefs, Expire(H) PROVE GuardHolds'
    <2>1. \A g \in HoldRefs : holds'[g].status = "active" => holds'[g] = holds[g]
      BY <1>0, <1>8 DEF Expire, HoldRow
    <2> QED BY <1>8, <2>1, GuardWhenHoldsClose DEF Expire
  <1>9. CASE UNCHANGED vars BY <1>9 DEF vars, GuardHolds
  <1> QED BY <1>1, <1>2, <1>3, <1>4, <1>5, <1>6, <1>7, <1>8, <1>9 DEF Next

\* No sequence of posts, reversals, holds, captures, releases and expiries
\* overdraws a guarded account: the guard of post and the check of Hold, made
\* only on the accounts an operation names, protect every account.
THEOREM GuardedNeverOverdrawn == Spec => []GuardHolds
PROOF
  <1>1. TypeOK /\ GuardHolds /\ [Next]_vars => (TypeOK /\ GuardHolds)'
    BY TypeStep, GuardStep
  <1> QED BY <1>1, TypeInit, GuardInit, PTL DEF Spec

-----------------------------------------------------------------------------
(* The history *)

\* A step writes one transfer or leaves the history and the balances alone.
LEMMA StepWritesOrNot ==
    ASSUME TypeOK, [Next]_vars
    PROVE  \/ transfers' = transfers /\ balances' = balances
           \/ \E t \in RawTransfer, x \in HoldRefs \cup {0} : Write(t, x)
PROOF
  <1> DEFINE Goal == \/ transfers' = transfers /\ balances' = balances
                     \/ \E t \in RawTransfer, x \in HoldRefs \cup {0} : Write(t, x)
  <1>1. ASSUME NEW t \in Requests, Post(t) PROVE Goal
    BY <1>1, RequestsAssumption DEF Post
  <1>2. ASSUME NEW k \in DOMAIN transfers, NEW ref \in ReversalRefs, Reverse(k, ref)
        PROVE Goal
    <2> Reversal(transfers[k], k, ref) \in RawTransfer
      BY ReverseIsRaw, RequestsAssumption
    <2> QED BY <1>2 DEF Reverse
  <1>3. ASSUME NEW c \in CaptureRequests, Capture(c[1], c[2]) PROVE Goal
    <2> c[1] \in HoldRefs /\ c[2] \in RawTransfer BY RequestsAssumption
    <2> QED BY <1>3 DEF Capture
  <1>4. ASSUME \/ \E a \in Accounts : CreateAccount(a) \/ Archive(a)
               \/ \E r \in HoldRequests : PlaceHold(r)
               \/ \E h \in HoldRefs : Release(h)
               \/ \E H \in SUBSET HoldRefs : Expire(H)
               \/ UNCHANGED vars
        PROVE transfers' = transfers /\ balances' = balances
    BY <1>4 DEF CreateAccount, Archive, PlaceHold, Release, Expire, vars
  <1> QED BY <1>1, <1>2, <1>3, <1>4 DEF Next

\* A stored row's legs are well-typed.
LEMMA RowPostings ==
    ASSUME TypeOK, NEW k \in 1 .. Len(transfers)
    PROVE  transfers[k].postings \in Seq(Posting)
PROOF
  <1> transfers[k] \in RowType BY ElementOfSeq DEF TypeOK
  <1> QED BY DEF RowType

LEMMA BalancesStep ==
    TypeOK /\ BalancesMatchPostings /\ [Next]_vars => BalancesMatchPostings'
PROOF
  <1> SUFFICES ASSUME TypeOK, BalancesMatchPostings, [Next]_vars
               PROVE  BalancesMatchPostings'
    OBVIOUS
  <1>1. CASE transfers' = transfers /\ balances' = balances
    BY <1>1 DEF BalancesMatchPostings
  <1>2. CASE \E t \in RawTransfer, x \in HoldRefs \cup {0} : Write(t, x)
    <2> PICK t \in RawTransfer, x \in HoldRefs \cup {0} : Write(t, x) BY <1>2
    <2> DEFINE n == Len(transfers)
    <2>0. n \in Nat BY DEF TypeOK
    <2> SUFFICES ASSUME NEW a \in Accounts
                 PROVE  balances'[a] = PostingsTotal(transfers', a)
      BY DEF BalancesMatchPostings, CheckBalancesMatchPostings
    <2> DEFINE f == [k \in 1 .. n |-> Delta(transfers[k], a)]
               g == [k \in 1 .. n + 1 |-> Delta(transfers'[k], a)]
    <2>1. balances[a] = SumTo(f, n)
      BY DEF BalancesMatchPostings, CheckBalancesMatchPostings, PostingsTotal
    <2>2. PostingsTotal(transfers', a) = SumTo(g, n + 1)
      BY WriteFacts DEF PostingsTotal
    <2>3. \A k \in 1 .. n : g[k] = f[k] BY <2>0, WriteFacts
    <2>4. g[n + 1] = Delta(t, a)
      <3>1. n + 1 \in 1 .. n + 1 BY <2>0
      <3>2. g[n + 1] = Delta(transfers'[n + 1], a) BY <3>1
      <3>3. transfers'[n + 1] = Row(t, TailHash) BY WriteFacts
      <3>4. Row(t, TailHash).postings = t.postings BY DEF Row
      <3> QED BY <3>2, <3>3, <3>4, SamePostings
    <2>5. balances'[a] = balances[a] + Delta(t, a) BY WriteFacts
    <2> HIDE DEF f, g, n
    <2>6. SumTo(g, n) = SumTo(f, n) BY <2>0, <2>3, SumCong
    <2>7. SumTo(g, n + 1) = SumTo(g, n) + g[n + 1] BY <2>0, SumStep
    <2> QED BY <2>1, <2>2, <2>4, <2>5, <2>6, <2>7
  <1> QED BY <1>1, <1>2, StepWritesOrNot

LEMMA BalancesInit == Init => BalancesMatchPostings
PROOF
  <1> SUFFICES ASSUME Init, NEW a \in Accounts PROVE balances[a] = PostingsTotal(transfers, a)
    BY DEF BalancesMatchPostings, CheckBalancesMatchPostings
  <1>1. Len(transfers) = 0 /\ balances[a] = 0 BY DEF Init
  <1>2. PostingsTotal(transfers, a) = 0 BY <1>1, SumStep DEF PostingsTotal
  <1> QED BY <1>1, <1>2

\* The balances applyBalances keeps equal the sum of all postings, so verify's
\* balance check passes after every operation.
THEOREM BalancesNeverDrift == Spec => []BalancesMatchPostings
PROOF
  <1>1. /\ TypeOK /\ BalancesMatchPostings /\ [Next]_vars
        => (TypeOK /\ BalancesMatchPostings)'
    BY TypeStep, BalancesStep
  <1> QED BY <1>1, TypeInit, BalancesInit, PTL DEF Spec

-----------------------------------------------------------------------------
(* The chain *)

LEMMA ChainStep == TypeOK /\ ChainIntact /\ [Next]_vars => ChainIntact'
PROOF
  <1> SUFFICES ASSUME TypeOK, ChainIntact, [Next]_vars PROVE ChainIntact'
    OBVIOUS
  <1>1. CASE transfers' = transfers /\ balances' = balances
    BY <1>1 DEF ChainIntact
  <1>2. CASE \E t \in RawTransfer, x \in HoldRefs \cup {0} : Write(t, x)
    <2> PICK t \in RawTransfer, x \in HoldRefs \cup {0} : Write(t, x) BY <1>2
    <2> DEFINE n == Len(transfers)
    <2>0. n \in Nat /\ transfers \in Seq(RowType) BY DEF TypeOK
    <2>1. /\ Len(transfers') = n + 1
          /\ \A k \in 1 .. n : transfers'[k] = transfers[k]
          /\ transfers'[n + 1] = Row(t, TailHash)
          /\ t \in Transfer
      BY WriteFacts
    <2>2. \A k \in 1 .. n :
             /\ transfers[k].prev = IF k = 1 THEN NoHash ELSE transfers[k - 1].hash
             /\ transfers[k].hash = ChainDigest(transfers[k].prev, Content(transfers[k]))
      BY DEF ChainIntact, CheckChain
    <2> SUFFICES ASSUME NEW k \in 1 .. n + 1
                 PROVE
             /\ transfers'[k].prev = IF k = 1 THEN NoHash ELSE transfers'[k - 1].hash
             /\ transfers'[k].hash = ChainDigest(transfers'[k].prev, Content(transfers'[k]))
      BY <2>1 DEF ChainIntact, CheckChain
    <2>3. CASE k \in 1 .. n
      <3>1. transfers'[k] = transfers[k] /\ (k # 1 => transfers'[k - 1] = transfers[k - 1])
        BY <2>0, <2>1, <2>3
      <3> QED BY <2>2, <2>3, <3>1
    <2>4. CASE k = n + 1
      <3>1. TailHash = IF k = 1 THEN NoHash ELSE transfers[n].hash
        BY <2>0, <2>4, EmptySeq DEF TailHash
      <3>2. k # 1 => transfers'[k - 1] = transfers[n] BY <2>0, <2>1, <2>4
      <3>3. Content(Row(t, TailHash)) = t BY <2>1 DEF Content, Row, Transfer
      <3>4. /\ Row(t, TailHash).prev = TailHash
            /\ Row(t, TailHash).hash = ChainDigest(TailHash, t)
        BY DEF Row
      <3>5. transfers'[k] = Row(t, TailHash) BY <2>1, <2>4
      <3> HIDE DEF n
      <3> QED BY <3>1, <3>2, <3>3, <3>4, <3>5
    <2> QED BY <2>0, <2>3, <2>4
  <1> QED BY <1>1, <1>2, StepWritesOrNot

LEMMA ChainInit == Init => ChainIntact
PROOF
  <1> SUFFICES ASSUME Init PROVE CheckChain(transfers) = {} BY DEF ChainIntact
  <1> Len(transfers) = 0 BY DEF Init
  <1> QED BY DEF CheckChain

\* The hash chain is unbroken after every operation.
THEOREM ChainNeverBreaks == Spec => []ChainIntact
PROOF
  <1>1. TypeOK /\ ChainIntact /\ [Next]_vars => (TypeOK /\ ChainIntact)'
    BY TypeStep, ChainStep
  <1> QED BY <1>1, TypeInit, ChainInit, PTL DEF Spec

-----------------------------------------------------------------------------
(* Sum zero.  The trial balance adds up the accounts that exist, so the    *)
(* induction also needs that an account nobody created has no balance.     *)

UnopenedIsEmpty == \A a \in Accounts : accounts[a] = "none" => balances[a] = 0

SumZeroInv == SumZero /\ UnopenedIsEmpty

LEMMA WrittenNetsToZero ==
    ASSUME TypeOK, CheckTransfersBalance(transfers) = {},
           NEW t \in RawTransfer, NEW x, Write(t, x)
    PROVE  CheckTransfersBalance(transfers') = {}
PROOF
  <1> DEFINE n == Len(transfers)
  <1>0. n \in Nat BY DEF TypeOK
  <1>1. \A k \in 1 .. n, c \in Currencies : Net(transfers[k], c) = 0
    <2> SUFFICES ASSUME NEW k \in 1 .. n, NEW c \in Currencies
                 PROVE Net(transfers[k], c) = 0
      OBVIOUS
    <2> <<k, c>> \in (1 .. n) \X Currencies OBVIOUS
    <2> <<k, c>> \notin CheckTransfersBalance(transfers) OBVIOUS
    <2> QED BY DEF CheckTransfersBalance
  <1>2. \A c \in Currencies : Net(transfers'[n + 1], c) = 0
    <2>1. \A c \in Currencies : Net(t, c) = 0 BY DEF Write, Validate
    <2>2. transfers'[n + 1] = Row(t, TailHash) BY WriteFacts
    <2>3. Row(t, TailHash).postings = t.postings BY DEF Row
    <2> QED BY <2>1, <2>2, <2>3, SamePostings
  <1>3. /\ Len(transfers') = n + 1
        /\ \A k \in 1 .. n : transfers'[k] = transfers[k]
    BY WriteFacts
  <1>4. ASSUME NEW k \in 1 .. n + 1, NEW c \in Currencies
        PROVE  Net(transfers'[k], c) = 0
    <2>1. k \in 1 .. n \/ k = n + 1 BY <1>0
    <2> HIDE DEF n
    <2> QED BY <1>1, <1>2, <1>3, <2>1
  <1> QED BY <1>3, <1>4 DEF CheckTransfersBalance

LEMMA WrittenKeepsTrialBalance ==
    ASSUME TypeOK, CheckTrialBalance(accounts, balances) = {},
           NEW t \in RawTransfer, NEW x, Write(t, x)
    PROVE  CheckTrialBalance(accounts', balances') = {}
PROOF
  <1> SUFFICES ASSUME NEW c \in Currencies
               PROVE  TrialBalance(accounts, balances', c) = 0
    BY DEF CheckTrialBalance, Write
  <1> DEFINE In(a) == accounts[a] # "none" /\ Chart[a].currency = c
             f == [a \in Accounts |-> IF In(a) THEN balances[a] ELSE 0]
             d == [a \in Accounts |-> IF In(a) THEN Delta(t, a) ELSE 0]
             g == [a \in Accounts |-> IF In(a) THEN balances'[a] ELSE 0]
  <1>1. t.postings \in Seq(Posting) BY WriteFacts DEF Transfer
  <1>2. \A a \in Accounts : balances[a] \in Int /\ Delta(t, a) \in Int
    BY <1>1, DeltaFacts DEF TypeOK
  <1>3. \A a \in Accounts : balances'[a] = balances[a] + Delta(t, a) BY WriteFacts
  <1>4. \A a \in 1 .. NumAccounts : f[a] \in Int /\ d[a] \in Int /\ g[a] = f[a] + d[a]
    BY <1>2, <1>3 DEF Accounts
  <1>5. SumTo(d, NumAccounts) = 0
    <2>1. AccountsAccept(accounts, t) /\ Net(t, c) = 0 BY DEF Write, Validate
    <2> QED BY <1>1, <2>1, TransferTrialBalance
  <1>6. SumTo(f, NumAccounts) = 0 BY DEF CheckTrialBalance, TrialBalance
  <1>7. TrialBalance(accounts, balances', c) = SumTo(g, NumAccounts) BY DEF TrialBalance
  <1> HIDE DEF f, d, g
  <1>8. SumTo(g, NumAccounts) = SumTo(f, NumAccounts) + SumTo(d, NumAccounts)
    BY <1>4, BoundsAssumption, SumAdd
  <1> QED BY <1>5, <1>6, <1>7, <1>8

\* Creating or archiving accounts: an account without a balance may appear.
LEMMA AccountsKeepTrialBalance ==
    ASSUME UnopenedIsEmpty, CheckTrialBalance(accounts, balances) = {},
           balances' = balances,
           \A a \in Accounts : accounts'[a] = "none" => accounts[a] = "none"
    PROVE  CheckTrialBalance(accounts', balances') = {}
PROOF
  <1> SUFFICES ASSUME NEW c \in Currencies
               PROVE  TrialBalance(accounts', balances, c) = 0
    BY DEF CheckTrialBalance
  <1> DEFINE f == [a \in Accounts |-> IF accounts[a] # "none" /\ Chart[a].currency = c
                                       THEN balances[a] ELSE 0]
             g == [a \in Accounts |-> IF accounts'[a] # "none" /\ Chart[a].currency = c
                                       THEN balances[a] ELSE 0]
  <1>1. \A a \in 1 .. NumAccounts : g[a] = f[a] BY DEF UnopenedIsEmpty, Accounts
  <1>2. SumTo(f, NumAccounts) = 0 BY DEF CheckTrialBalance, TrialBalance
  <1>3. TrialBalance(accounts', balances, c) = SumTo(g, NumAccounts) BY DEF TrialBalance
  <1> HIDE DEF f, g
  <1>4. SumTo(g, NumAccounts) = SumTo(f, NumAccounts)
    BY <1>1, BoundsAssumption, SumCong
  <1> QED BY <1>2, <1>3, <1>4

LEMMA SumZeroStep == TypeOK /\ SumZeroInv /\ [Next]_vars => SumZeroInv'
PROOF
  <1> SUFFICES ASSUME TypeOK, SumZeroInv, [Next]_vars PROVE SumZeroInv' OBVIOUS
  <1>1. /\ CheckTransfersBalance(transfers) = {} /\ UnopenedIsEmpty
        /\ CheckTrialBalance(accounts, balances) = {}
    BY DEF SumZeroInv, SumZero
  <1>2. CASE transfers' = transfers /\ balances' = balances
    <2>1. \A a \in Accounts : accounts'[a] = "none" => accounts[a] = "none"
      BY DEF TypeOK, Next, vars, CreateAccount, Archive, Post, Reverse, Write, PlaceHold,
             Capture, Release, Expire
    <2>2. UnopenedIsEmpty' BY <1>1, <1>2, <2>1 DEF UnopenedIsEmpty
    <2>3. CheckTrialBalance(accounts', balances') = {}
      BY <1>1, <1>2, <2>1, AccountsKeepTrialBalance
    <2> QED BY <1>1, <1>2, <2>2, <2>3 DEF SumZeroInv, SumZero
  <1>3. CASE \E t \in RawTransfer, x \in HoldRefs \cup {0} : Write(t, x)
    <2> PICK t \in RawTransfer, x \in HoldRefs \cup {0} : Write(t, x) BY <1>3
    <2>1. ASSUME NEW a \in Accounts, accounts'[a] = "none" PROVE balances'[a] = 0
      <3>1. accounts[a] = "none" BY <2>1 DEF Write
      <3>2. a \notin Touched(t) BY <3>1 DEF Write, AccountsAccept, Touched
      <3>3. t.postings \in Seq(Posting) BY WriteFacts DEF Transfer
      <3>4. Delta(t, a) = 0 BY <3>2, <3>3, DeltaFacts
      <3>5. balances[a] = 0 BY <1>1, <3>1 DEF UnopenedIsEmpty
      <3>6. balances'[a] = balances[a] + Delta(t, a) BY WriteFacts
      <3> QED BY <3>4, <3>5, <3>6
    <2>2. UnopenedIsEmpty' BY <2>1 DEF UnopenedIsEmpty
    <2>3. CheckTransfersBalance(transfers') = {} BY <1>1, WrittenNetsToZero
    <2>4. CheckTrialBalance(accounts', balances') = {} BY <1>1, WrittenKeepsTrialBalance
    <2> QED BY <2>2, <2>3, <2>4 DEF SumZeroInv, SumZero
  <1> QED BY <1>2, <1>3, StepWritesOrNot

LEMMA SumZeroInit == Init => SumZeroInv
PROOF
  <1> SUFFICES ASSUME Init PROVE SumZeroInv OBVIOUS
  <1>1. CheckTransfersBalance(transfers) = {}
    <2> Len(transfers) = 0 BY DEF Init
    <2> QED BY DEF CheckTransfersBalance
  <1>2. ASSUME NEW c \in Currencies PROVE TrialBalance(accounts, balances, c) = 0
    <2> DEFINE f == [a \in Accounts |-> IF accounts[a] # "none" /\ Chart[a].currency = c
                                         THEN balances[a] ELSE 0]
    <2>1. \A a \in 1 .. NumAccounts : f[a] = 0 BY DEF Init, Accounts
    <2>2. TrialBalance(accounts, balances, c) = SumTo(f, NumAccounts) BY DEF TrialBalance
    <2> HIDE DEF f
    <2> QED BY <2>1, <2>2, BoundsAssumption, SumAllZero
  <1>3. UnopenedIsEmpty BY DEF Init, UnopenedIsEmpty
  <1> QED BY <1>1, <1>2, <1>3 DEF SumZeroInv, SumZero, CheckTrialBalance

\* Every stored transfer nets to zero and every currency's balances add up to
\* zero, for any chart of accounts: the invariant the program is named for.
THEOREM AlwaysSumsToZero == Spec => []SumZero
PROOF
  <1>1. TypeOK /\ SumZeroInv /\ [Next]_vars => (TypeOK /\ SumZeroInv)'
    BY TypeStep, SumZeroStep
  <1>2. SumZeroInv => SumZero BY DEF SumZeroInv
  <1> QED BY <1>1, <1>2, TypeInit, SumZeroInit, PTL DEF Spec

-----------------------------------------------------------------------------
(* Reversals *)

\* A written transfer that is no reversal, or the first of its original and
\* its mirror image, keeps ReversalsCancel.
LEMMA ReversalsWhenWriting ==
    ASSUME TypeOK, ReversalsCancel, NEW t \in RawTransfer, NEW x, Write(t, x),
           t.reverses # 0 =>
               /\ t.reverses \in 1 .. Len(transfers)
               /\ \A a \in Accounts : Delta(t, a) = -Delta(transfers[t.reverses], a)
    PROVE  ReversalsCancel'
PROOF
  <1> DEFINE n == Len(transfers)
  <1>0. n \in Nat /\ DOMAIN transfers = 1 .. n BY LenProperties DEF TypeOK
  <1>1. /\ DOMAIN transfers' = 1 .. n + 1
        /\ \A k \in 1 .. n : transfers'[k] = transfers[k]
        /\ transfers'[n + 1].reverses = t.reverses
        /\ transfers'[n + 1].postings = t.postings
    BY WriteAppends
  <1>2. \A a : Delta(transfers'[n + 1], a) = Delta(t, a) BY <1>1, SamePostings
  <1>3. \A k \in 1 .. n : t.reverses # 0 => transfers[k].reverses # t.reverses
    BY <1>0 DEF Write, Unused
  <1>4. \A k \in 1 .. n : transfers[k].reverses \in Nat
    <2> \A k \in 1 .. n : transfers[k] \in RowType BY ElementOfSeq DEF TypeOK
    <2> QED BY DEF RowType
  <1> SUFFICES ASSUME NEW k \in 1 .. n + 1, transfers'[k].reverses # 0
               PROVE  LET j == transfers'[k].reverses IN
                      /\ j < k
                      /\ \A a \in Accounts :
                            Delta(transfers'[k], a) = -Delta(transfers'[j], a)
                      /\ \A m \in 1 .. n + 1 : transfers'[m].reverses = j => m = k
    BY <1>1 DEF ReversalsCancel
  <1>5. CASE k \in 1 .. n
    <2> DEFINE j == transfers[k].reverses
    <2>1. /\ transfers'[k] = transfers[k] /\ j # 0 /\ j < k /\ j \in Nat
          /\ \A a \in Accounts : Delta(transfers[k], a) = -Delta(transfers[j], a)
          /\ \A m \in 1 .. n : transfers[m].reverses = j => m = k
      BY <1>0, <1>1, <1>4, <1>5 DEF ReversalsCancel
    <2>2. j \in 1 .. n /\ transfers'[j] = transfers[j] BY <1>1, <1>5, <2>1
    <2>3. t.reverses # j BY <1>3, <1>5, <2>1
    <2>4. \A m \in 1 .. n + 1 : transfers'[m].reverses = j => m = k
      <3> SUFFICES ASSUME NEW m \in 1 .. n + 1, transfers'[m].reverses = j PROVE m = k
        OBVIOUS
      <3>1. m \in 1 .. n \/ m = n + 1 BY <1>0
      <3> HIDE DEF n, j
      <3> QED BY <1>1, <2>1, <2>3, <3>1
    <2> HIDE DEF n, j
    <2> QED BY <2>1, <2>2, <2>4 DEF j
  <1>6. CASE k = n + 1
    <2> DEFINE j == t.reverses
    <2>1. j # 0 /\ j \in 1 .. n /\ transfers'[k].reverses = j BY <1>1, <1>6
    <2>2. transfers'[j] = transfers[j] BY <1>1, <2>1
    <2>3. j < k BY <1>0, <1>6, <2>1
    <2>4. \A a \in Accounts : Delta(transfers'[k], a) = -Delta(transfers'[j], a)
      BY <1>2, <1>6, <2>1, <2>2
    <2>5. \A m \in 1 .. n + 1 : transfers'[m].reverses = j => m = k
      <3> SUFFICES ASSUME NEW m \in 1 .. n + 1, transfers'[m].reverses = j PROVE m = k
        OBVIOUS
      <3>1. m \in 1 .. n \/ m = n + 1 BY <1>0
      <3> HIDE DEF n
      <3> QED BY <1>1, <1>3, <1>6, <2>1, <3>1
    <2> HIDE DEF n, j
    <2> QED BY <2>1, <2>3, <2>4, <2>5
  <1> QED BY <1>0, <1>5, <1>6

LEMMA ReversalsStep == TypeOK /\ ReversalsCancel /\ [Next]_vars => ReversalsCancel'
PROOF
  <1> SUFFICES ASSUME TypeOK, ReversalsCancel, [Next]_vars PROVE ReversalsCancel'
    OBVIOUS
  <1>1. ASSUME NEW t \in Requests, Post(t) PROVE ReversalsCancel'
    <2> t \in RawTransfer /\ t.reverses = 0 /\ Write(t, 0)
      BY <1>1, RequestsAssumption DEF Post
    <2> QED BY ReversalsWhenWriting
  <1>2. ASSUME NEW k \in DOMAIN transfers, NEW ref \in ReversalRefs, Reverse(k, ref)
        PROVE ReversalsCancel'
    <2> DEFINE t == Reversal(transfers[k], k, ref)
    <2>1. t \in RawTransfer /\ k \in 1 .. Len(transfers)
      BY ReverseIsRaw, RequestsAssumption
    <2>2. Write(t, 0) BY <1>2 DEF Reverse
    <2>3. t.reverses = k BY DEF Reversal
    <2>4. \A a : Delta(t, a) = -Delta(transfers[k], a)
      BY <2>1, RowPostings, ReversalDelta
    <2> HIDE DEF t
    <2> QED BY <2>1, <2>2, <2>3, <2>4, ReversalsWhenWriting
  <1>3. ASSUME NEW c \in CaptureRequests, Capture(c[1], c[2]) PROVE ReversalsCancel'
    <2> c[2] \in RawTransfer /\ c[2].reverses = 0 /\ Write(c[2], c[1])
      BY <1>3, RequestsAssumption DEF Capture
    <2> QED BY ReversalsWhenWriting
  <1>4. ASSUME \/ \E a \in Accounts : CreateAccount(a) \/ Archive(a)
               \/ \E r \in HoldRequests : PlaceHold(r)
               \/ \E h \in HoldRefs : Release(h)
               \/ \E H \in SUBSET HoldRefs : Expire(H)
               \/ UNCHANGED vars
        PROVE ReversalsCancel'
    <2> transfers' = transfers
      BY <1>4 DEF CreateAccount, Archive, PlaceHold, Release, Expire, vars
    <2> QED BY DEF ReversalsCancel
  <1> QED BY <1>1, <1>2, <1>3, <1>4 DEF Next

LEMMA ReversalsInit == Init => ReversalsCancel
BY DEF Init, ReversalsCancel

\* A transfer is undone at most once, by its exact mirror image.
THEOREM ReversalsAlwaysCancel == Spec => []ReversalsCancel
PROOF
  <1>1. TypeOK /\ ReversalsCancel /\ [Next]_vars => (TypeOK /\ ReversalsCancel)'
    BY TypeStep, ReversalsStep
  <1> QED BY <1>1, TypeInit, ReversalsInit, PTL DEF Spec

-----------------------------------------------------------------------------
(* Archived accounts *)

\* What a step leaves of an archived account.
Frozen ==
    \A a \in Accounts : accounts[a] = "archived" =>
        /\ accounts'[a] = "archived"
        /\ balances'[a] = balances[a]
        /\ Held(holds', a, 0) =< Held(holds, a, 0)

LEMMA FrozenStep == TypeOK /\ TypeOK' /\ [Next]_vars => Frozen
PROOF
  <1> SUFFICES ASSUME TypeOK, TypeOK', [Next]_vars,
                      NEW a \in Accounts, accounts[a] = "archived"
               PROVE  /\ accounts'[a] = "archived"
                      /\ balances'[a] = balances[a]
                      /\ Held(holds', a, 0) =< Held(holds, a, 0)
    BY DEF Frozen
  <1>0. /\ holds \in [HoldRefs -> HoldRow] /\ holds' \in [HoldRefs -> HoldRow]
        /\ balances \in [Accounts -> Int]
    BY DEF TypeOK
  <1>1. accounts'[a] = "archived"
    BY DEF TypeOK, Next, vars, CreateAccount, Archive, Post, Reverse, Write, PlaceHold,
           Capture, Release, Expire
  <1>2. balances'[a] = balances[a]
    <2>1. ASSUME NEW t \in RawTransfer, NEW x, Write(t, x) PROVE balances'[a] = balances[a]
      <3>1. a \notin Touched(t) BY <2>1 DEF Write, AccountsAccept, Touched
      <3>2. t.postings \in Seq(Posting) BY <2>1, WriteFacts DEF Transfer
      <3>3. Delta(t, a) = 0 BY <3>1, <3>2, DeltaFacts
      <3>4. balances'[a] = balances[a] + Delta(t, a) BY <2>1, WriteFacts
      <3> QED BY <1>0, <3>3, <3>4
    <2> QED BY <2>1, StepWritesOrNot
  <1>3. Held(holds', a, 0) =< Held(holds, a, 0)
    <2>1. CASE \A h \in HoldRefs : holds'[h].status = "active" => holds'[h] = holds[h]
      BY <1>0, <2>1, HeldShrinks
    <2>2. ASSUME NEW r \in HoldRequests, PlaceHold(r) PROVE Held(holds', a, 0) =< Held(holds, a, 0)
      <3>1. r.reference \in HoldRefs /\ r.account \in Accounts /\ r.account # a
        BY <2>2, RequestsAssumption DEF PlaceHold, HoldRequest
      <3>2. /\ holds[r.reference].status # "active"
            /\ holds' = [holds EXCEPT ![r.reference] = NewHold(r)]
        BY <2>2 DEF PlaceHold
      <3>3. /\ holds'[r.reference] = NewHold(r)
            /\ \A h \in HoldRefs : h # r.reference => holds'[h] = holds[h]
        BY <1>0, <3>1, <3>2
      <3>4. /\ holds'[r.reference].status = "active"
            /\ holds'[r.reference].account = r.account
        BY <3>3 DEF NewHold
      <3>5. holds[r.reference].status # "active" BY <3>2
      <3>6. \A h \in HoldRefs : h # r.reference => holds'[h] = holds[h] BY <3>3
      <3>7. Held(holds', a, 0) =
              Held(holds, a, 0) + (IF holds'[r.reference].account = a
                                   THEN holds'[r.reference].amount ELSE 0)
        BY <1>0, <3>1, <3>4, <3>5, <3>6, HeldPlaced, ZeroIsNoHold
      <3>8. Held(holds, a, 0) \in Int BY <1>0, HeldIsSum
      <3> QED BY <3>1, <3>4, <3>7, <3>8
    <2>3. ASSUME \A r \in HoldRequests : ~ PlaceHold(r)
          PROVE  \A h \in HoldRefs : holds'[h].status = "active" => holds'[h] = holds[h]
      <3>1. ASSUME NEW c \in CaptureRequests, Capture(c[1], c[2])
            PROVE  \A h \in HoldRefs : holds'[h].status = "active" => holds'[h] = holds[h]
        <4> c[1] \in HoldRefs BY RequestsAssumption
        <4> QED BY <1>0, <3>1 DEF Capture, HoldRow
      <3>2. ASSUME NEW h \in HoldRefs, Release(h)
            PROVE  \A g \in HoldRefs : holds'[g].status = "active" => holds'[g] = holds[g]
        BY <1>0, <3>2 DEF Release, HoldRow
      <3>3. ASSUME NEW H \in SUBSET HoldRefs, Expire(H)
            PROVE  \A g \in HoldRefs : holds'[g].status = "active" => holds'[g] = holds[g]
        BY <1>0, <3>3 DEF Expire, HoldRow
      <3>4. ASSUME holds' = holds
            PROVE  \A g \in HoldRefs : holds'[g].status = "active" => holds'[g] = holds[g]
        BY <3>4
      <3> QED BY <2>3, <3>1, <3>2, <3>3, <3>4
              DEF Next, vars, CreateAccount, Archive, Post, Reverse
    <2> QED BY <2>1, <2>2, <2>3
  <1> QED BY <1>1, <1>2, <1>3

\* Archiving closes an account: every later step leaves its balance alone and
\* reserves nothing more on it.
THEOREM ArchivedStaysFrozen == Spec => ArchivedIsFrozen
PROOF
  <1>1. TypeOK /\ TypeOK' /\ [Next]_vars => [Frozen]_vars BY FrozenStep
  <1>2. Spec => [][Frozen]_vars BY <1>1, TypeCorrect, PTL DEF Spec
  <1> QED BY <1>2 DEF Frozen, ArchivedIsFrozen

-----------------------------------------------------------------------------
(* Captures *)

\* What CapturesSettle says of one hold.
Settled(h) ==
    /\ (holds[h].status = "captured") <=> (holds[h].transfer # 0)
    /\ holds[h].status = "captured" =>
         /\ holds[h].transfer \in DOMAIN transfers
         /\ transfers[holds[h].transfer].reverses = 0
         /\ Spent(transfers[holds[h].transfer], holds[h].account) \in 1 .. holds[h].amount
         /\ \A g \in HoldRefs : holds[g].transfer = holds[h].transfer => g = h

\* Appending to the history does not disturb a captured hold.
LEMMA SettledWhenWriting ==
    ASSUME TypeOK, CapturesSettle, NEW t \in RawTransfer, NEW x, Write(t, x),
           NEW h \in HoldRefs, holds'[h] = holds[h],
           \A g \in HoldRefs : \/ holds'[g].transfer = holds[g].transfer
                              \/ holds'[g].transfer = Len(transfers) + 1
    PROVE  Settled(h)'
PROOF
  <1>1. Settled(h) BY DEF CapturesSettle, Settled
  <1>2. CASE holds[h].status # "captured" BY <1>1, <1>2 DEF Settled
  <1>3. CASE holds[h].status = "captured"
    <2> DEFINE n == Len(transfers)
               k == holds[h].transfer
    <2>1. /\ k \in 1 .. n /\ n \in Nat
          /\ transfers'[k] = transfers[k]
          /\ k \in DOMAIN transfers'
      BY <1>1, <1>3, WriteAppends DEF Settled
    <2>2. \A g \in HoldRefs : holds'[g].transfer = k => g = h
      <3> SUFFICES ASSUME NEW g \in HoldRefs, holds'[g].transfer = k PROVE g = h
        OBVIOUS
      <3>1. k # n + 1 BY <2>1
      <3>2. holds[g].transfer = k BY <3>1
      <3> QED BY <1>1, <1>3, <3>2 DEF Settled
    <2>3. holds'[h].transfer = k /\ k # 0 BY <2>1
    <2> HIDE DEF k, n
    <2>4. transfers[k].reverses = 0 /\ Spent(transfers[k], holds[h].account) \in 1 .. holds[h].amount
      BY <1>1, <1>3 DEF Settled, k
    <2> QED BY <1>3, <2>1, <2>2, <2>3, <2>4 DEF Settled
  <1> QED BY <1>2, <1>3

LEMMA CapturesStep == TypeOK /\ CapturesSettle /\ [Next]_vars => CapturesSettle'
PROOF
  <1> SUFFICES ASSUME TypeOK, CapturesSettle, [Next]_vars, NEW h \in HoldRefs
               PROVE  Settled(h)'
    BY DEF CapturesSettle, Settled
  <1>0. /\ holds \in [HoldRefs -> HoldRow]
        /\ \A g \in HoldRefs : Settled(g)
    BY DEF TypeOK, CapturesSettle, Settled
  <1>1. ASSUME NEW t \in RawTransfer, Write(t, 0), holds' = holds PROVE Settled(h)'
    BY <1>1, SettledWhenWriting
  <1>2. ASSUME NEW k \in DOMAIN transfers, NEW ref \in ReversalRefs, Reverse(k, ref)
        PROVE Settled(h)'
    <2> Reversal(transfers[k], k, ref) \in RawTransfer
      BY ReverseIsRaw, RequestsAssumption
    <2> QED BY <1>1, <1>2 DEF Reverse
  <1>3. ASSUME NEW t \in Requests, Post(t) PROVE Settled(h)'
    BY <1>1, <1>3, RequestsAssumption DEF Post
  <1>4. ASSUME NEW c \in CaptureRequests, Capture(c[1], c[2]) PROVE Settled(h)'
    <2> DEFINE x == c[1]
               t == c[2]
               n == Len(transfers)
    <2>1. x \in HoldRefs /\ t \in RawTransfer /\ t.reverses = 0 BY RequestsAssumption
    <2>2. Write(t, x) BY <1>4 DEF Capture
    <2>3. /\ holds'[x].status = "captured" /\ holds'[x].transfer = n + 1
          /\ holds'[x].account = holds[x].account /\ holds'[x].amount = holds[x].amount
          /\ \A g \in HoldRefs : g # x => holds'[g] = holds[g]
      BY <1>0, <1>4, <2>1 DEF Capture, HoldRow
    <2>4. /\ n \in Nat /\ DOMAIN transfers = 1 .. n /\ DOMAIN transfers' = 1 .. n + 1
          /\ transfers'[n + 1].reverses = t.reverses
          /\ transfers'[n + 1].postings = t.postings
      BY <2>1, <2>2, WriteAppends
    <2>5. CASE h # x
      <3> holds'[h] = holds[h] BY <2>3, <2>5
      <3> \A g \in HoldRefs : \/ holds'[g].transfer = holds[g].transfer
                             \/ holds'[g].transfer = n + 1
        BY <2>3
      <3> HIDE DEF x, t
      <3> QED BY <2>1, <2>2, SettledWhenWriting
    <2>6. CASE h = x
      <3>1. Spent(transfers'[n + 1], holds[x].account) = Spent(t, holds[x].account)
        BY <2>4, SamePostings
      <3>2. Spent(t, holds[x].account) \in 1 .. holds[x].amount
        <4>1. /\ Spent(t, holds[x].account) > 0
              /\ Spent(t, holds[x].account) =< holds[x].amount
          BY <1>4 DEF Capture, Draws
        <4>2. Delta(t, holds[x].account) \in Int
          BY <2>1, <2>2, WriteFacts, DeltaFacts DEF Transfer
        <4>3. Spent(t, holds[x].account) \in Int BY <4>2 DEF Spent, Normalise
        <4>4. holds[x].amount \in Nat BY <1>0, <2>1 DEF HoldRow
        <4> HIDE DEF x, t
        <4> QED BY <4>1, <4>3, <4>4
      <3>3. \A g \in HoldRefs : holds'[g].transfer = n + 1 => g = x
        <4> SUFFICES ASSUME NEW g \in HoldRefs, g # x PROVE holds'[g].transfer # n + 1
          OBVIOUS
        <4>1. holds'[g].transfer = holds[g].transfer BY <2>3
        <4>2. Settled(g) BY <1>0
        <4>3. holds[g].transfer = 0 \/ holds[g].transfer \in 1 .. n
          BY <2>4, <4>2 DEF Settled
        <4> QED BY <2>4, <4>1, <4>3
      <3>4. n + 1 \in DOMAIN transfers' /\ n + 1 # 0 BY <2>4
      <3>5. transfers'[n + 1].reverses = 0 BY <2>1, <2>4
      <3> HIDE DEF x, t, n
      <3> QED BY <2>3, <2>6, <3>1, <3>2, <3>3, <3>4, <3>5 DEF Settled
    <2> QED BY <2>5, <2>6
  <1>5. ASSUME transfers' = transfers,
               \A g \in HoldRefs :
                  /\ holds'[g].transfer = holds[g].transfer
                  /\ \/ holds'[g] = holds[g]
                     \/ holds[g].status # "captured" /\ holds'[g].status # "captured"
        PROVE  Settled(h)'
    <2>1. Settled(h) BY <1>0
    <2>2. CASE holds'[h] = holds[h] BY <1>5, <2>1, <2>2 DEF Settled
    <2>3. CASE holds[h].status # "captured" /\ holds'[h].status # "captured"
      BY <1>5, <2>1, <2>3 DEF Settled
    <2> QED BY <1>5, <2>2, <2>3
  <1>6. ASSUME NEW r \in HoldRequests, PlaceHold(r) PROVE Settled(h)'
    <2>1. r.reference \in HoldRefs
      BY <1>6, RequestsAssumption DEF PlaceHold, HoldRequest
    <2>2. holds' = [holds EXCEPT ![r.reference] = NewHold(r)] /\ transfers' = transfers
          /\ holds[r.reference].status = "none"
      BY <1>6 DEF PlaceHold
    <2>3. holds'[r.reference] = NewHold(r)
          /\ \A g \in HoldRefs : g # r.reference => holds'[g] = holds[g]
      BY <1>0, <2>1, <2>2
    <2>4. holds'[r.reference].status = "active" /\ holds'[r.reference].transfer = 0
      BY <2>3 DEF NewHold
    <2>5. holds[r.reference].transfer = 0 BY <1>0, <2>1, <2>2 DEF Settled
    <2>6. transfers' = transfers /\ holds[r.reference].status # "captured" BY <2>2
    <2>7. \A g \in HoldRefs : g # r.reference => holds'[g] = holds[g] BY <2>3
    <2> QED BY <1>5, <2>4, <2>5, <2>6, <2>7
  <1>7. ASSUME NEW g \in HoldRefs, Release(g) PROVE Settled(h)'
    BY <1>0, <1>5, <1>7 DEF Release, HoldRow
  <1>8. ASSUME NEW H \in SUBSET HoldRefs, Expire(H) PROVE Settled(h)'
    BY <1>0, <1>5, <1>8 DEF Expire, HoldRow
  <1>9. ASSUME transfers' = transfers /\ holds' = holds PROVE Settled(h)'
    BY <1>5, <1>9
  <1> QED BY <1>2, <1>3, <1>4, <1>6, <1>7, <1>8, <1>9
          DEF Next, vars, CreateAccount, Archive

LEMMA CapturesInit == Init => CapturesSettle
BY DEF Init, CapturesSettle, NoHold

\* Every captured hold was settled by one transfer of its own that took at most
\* what was reserved; capturing twice, or capturing more, is impossible.
THEOREM CapturesAlwaysSettle == Spec => []CapturesSettle
PROOF
  <1>1. TypeOK /\ CapturesSettle /\ [Next]_vars => (TypeOK /\ CapturesSettle)'
    BY TypeStep, CapturesStep
  <1> QED BY <1>1, TypeInit, CapturesInit, PTL DEF Spec

-----------------------------------------------------------------------------
(* All of it at once, for specifications that implement this one.          *)

BooksInv ==
    /\ TypeOK /\ GuardHolds /\ SumZeroInv /\ BalancesMatchPostings
    /\ ChainIntact /\ ReversalsCancel /\ CapturesSettle

LEMMA BooksInit == Init => BooksInv
BY TypeInit, GuardInit, SumZeroInit, BalancesInit, ChainInit, ReversalsInit,
   CapturesInit DEF BooksInv

LEMMA BooksStep == BooksInv /\ [Next]_vars => BooksInv' /\ Frozen
PROOF
  <1> SUFFICES ASSUME BooksInv, [Next]_vars PROVE BooksInv' /\ Frozen OBVIOUS
  <1>1. TypeOK' BY TypeStep DEF BooksInv
  <1> QED BY <1>1, GuardStep, SumZeroStep, BalancesStep, ChainStep, ReversalsStep,
             CapturesStep, FrozenStep DEF BooksInv

=============================================================================
