-------------------------- MODULE Transfer64Proofs ---------------------------
(***************************************************************************)
(* What Go's integers do to the ledger's sums.  Arithmetic that wraps is   *)
(* off by whole turns of 2 * (MaxInt + 1) and by nothing else, so a sum    *)
(* that wrapped on the way is exact whenever its exact value fits, in any  *)
(* order of the legs.  From there: which transfers the mathematical        *)
(* integers of LedgerData speak for, and what is left of the sum-zero rule *)
(* for those they do not.                                                  *)
(***************************************************************************)
EXTENDS Transfer64, LedgerDataProofs

\* As often as the integers turn over, x and y differ by.
Turn == 2 * (MaxInt + 1)
Congruent(x, y) == \E k \in Int : x = y + k * Turn

LEMMA TurnFacts ==
    /\ MaxInt \in Nat /\ Turn \in Int /\ Turn > 0 /\ Turn = 2 * MaxInt + 2
    /\ Int64 = -(MaxInt + 1) .. MaxInt /\ 0 \in Int64
BY WidthAssumption DEF Turn, Int64

LEMMA CongruentRefl == ASSUME NEW x \in Int PROVE Congruent(x, x)
PROOF
  <1> x = x + 0 * Turn BY TurnFacts
  <1> QED BY DEF Congruent

LEMMA CongruentSym ==
    ASSUME NEW x \in Int, NEW y \in Int, Congruent(x, y) PROVE Congruent(y, x)
PROOF
  <1> PICK k \in Int : x = y + k * Turn BY DEF Congruent
  <1> -k \in Int /\ y = x + (-k) * Turn BY TurnFacts
  <1> QED BY DEF Congruent

LEMMA CongruentTrans ==
    ASSUME NEW x \in Int, NEW y \in Int, NEW z \in Int,
           Congruent(x, y), Congruent(y, z)
    PROVE  Congruent(x, z)
PROOF
  <1> PICK k \in Int : x = y + k * Turn BY DEF Congruent
  <1> PICK m \in Int : y = z + m * Turn BY DEF Congruent
  <1> k + m \in Int /\ x = z + (k + m) * Turn BY TurnFacts
  <1> QED BY DEF Congruent

LEMMA CongruentAdd ==
    ASSUME NEW x \in Int, NEW y \in Int, NEW u \in Int, NEW v \in Int,
           Congruent(x, y), Congruent(u, v)
    PROVE  Congruent(x + u, y + v)
PROOF
  <1> PICK k \in Int : x = y + k * Turn BY DEF Congruent
  <1> PICK m \in Int : u = v + m * Turn BY DEF Congruent
  <1> k + m \in Int /\ x + u = y + v + (k + m) * Turn BY TurnFacts
  <1> QED BY DEF Congruent

\* Two integers of the width that are congruent are the same integer.
LEMMA CongruentInRange ==
    ASSUME NEW x \in Int64, NEW y \in Int64, Congruent(x, y) PROVE x = y
PROOF
  <1>1. PICK k \in Int : x = y + k * Turn BY DEF Congruent
  <1>2. x \in Int /\ y \in Int /\ x - y < Turn /\ y - x < Turn BY TurnFacts
  <1>3. ~ (k >= 1)
    <2> SUFFICES ASSUME k >= 1 PROVE FALSE OBVIOUS
    <2> k - 1 \in Nat OBVIOUS
    <2> (k - 1) * Turn >= 0 /\ (k - 1) * Turn = k * Turn - Turn BY TurnFacts
    <2> QED BY <1>1, <1>2, TurnFacts
  <1>4. ~ (k =< -1)
    <2> SUFFICES ASSUME k =< -1 PROVE FALSE OBVIOUS
    <2> -k - 1 \in Nat OBVIOUS
    <2> (-k - 1) * Turn >= 0 /\ (-k - 1) * Turn = -(k * Turn) - Turn BY TurnFacts
    <2> QED BY <1>1, <1>2, TurnFacts
  <1>5. k = 0 BY <1>3, <1>4
  <1> QED BY <1>1, <1>2, <1>5, TurnFacts

\* Wrapping lands in the width, whole turns away.
LEMMA WrapFacts ==
    ASSUME NEW x \in Int PROVE Wrap(x) \in Int64 /\ Congruent(Wrap(x), x)
PROOF
  <1> DEFINE y == x + MaxInt + 1
             q == y \div Turn
             r == y % Turn
  <1>1. y \in Int /\ Turn \in Nat /\ Turn > 0 BY TurnFacts
  <1> HIDE DEF y
  <1>2. q \in Int /\ r \in 0 .. Turn - 1 /\ y = Turn * q + r BY <1>1
  <1>3. Wrap(x) = r - (MaxInt + 1) BY DEF Wrap, Turn, y
  <1> HIDE DEF q, r
  <1>4. Wrap(x) \in Int64 BY <1>2, <1>3, TurnFacts
  <1>5. -q \in Int /\ Wrap(x) = x + (-q) * Turn BY <1>2, <1>3, TurnFacts DEF y
  <1> QED BY <1>4, <1>5 DEF Congruent

\* Nothing happens to an integer of the width.
LEMMA WrapFits == ASSUME NEW x \in Int64 PROVE Wrap(x) = x
PROOF
  <1> x \in Int BY TurnFacts
  <1> QED BY WrapFacts, CongruentInRange

-----------------------------------------------------------------------------
(* The loop of sum += f[i]: the definition of WrapSums is the recursion it *)
(* appears to be, by the argument LedgerDataProofs gives for sums.         *)

WrapSegment(f, n, g) ==
    g = [i \in 0 .. n |-> IF i = 0 THEN 0 ELSE Wrap(g[i - 1] + f[i])]

LEMMA WrapSegmentExists ==
    ASSUME NEW f PROVE \A n \in Nat : \E g : WrapSegment(f, n, g)
PROOF
  <1> DEFINE S == {n \in Nat : \E g : WrapSegment(f, n, g)}
  <1>1. 0 \in S
    <2> WrapSegment(f, 0, [i \in 0 .. 0 |-> 0]) BY DEF WrapSegment
    <2> QED OBVIOUS
  <1>2. ASSUME NEW n \in Nat, n \in S PROVE n + 1 \in S
    <2> PICK g : WrapSegment(f, n, g) BY <1>2
    <2> DEFINE h == [i \in 0 .. n + 1 |->
                       IF i = n + 1 THEN Wrap(g[n] + f[n + 1]) ELSE g[i]]
    <2>1. ASSUME NEW i \in 0 .. n + 1
          PROVE h[i] = IF i = 0 THEN 0 ELSE Wrap(h[i - 1] + f[i])
      <3>1. CASE i = n + 1 BY <3>1
      <3>2. CASE i # n + 1
        <4> i \in 0 .. n BY <3>2
        <4> g[i] = IF i = 0 THEN 0 ELSE Wrap(g[i - 1] + f[i]) BY DEF WrapSegment
        <4> QED BY <3>2
      <3> QED BY <3>1, <3>2
    <2> HIDE DEF h
    <2> h = [i \in 0 .. n + 1 |-> h[i]] BY DEF h
    <2> WrapSegment(f, n + 1, h) BY <2>1 DEF WrapSegment
    <2> QED OBVIOUS
  <1> HIDE DEF S
  <1>3. Nat \subseteq S BY <1>1, <1>2, NatSetInduction
  <1> QED BY <1>3 DEF S

LEMMA WrapSegmentsAgree ==
    ASSUME NEW f, NEW n \in Nat, NEW m \in Nat, n =< m,
           NEW g, NEW h, WrapSegment(f, n, g), WrapSegment(f, m, h)
    PROVE  \A i \in 0 .. n : g[i] = h[i]
PROOF
  <1> DEFINE S == {i \in Nat : i =< n => g[i] = h[i]}
  <1>1. 0 \in S BY DEF WrapSegment
  <1>2. ASSUME NEW i \in Nat, i \in S PROVE i + 1 \in S
    <2> SUFFICES ASSUME i + 1 =< n PROVE g[i + 1] = h[i + 1] OBVIOUS
    <2>1. i + 1 \in 0 .. n /\ i + 1 \in 0 .. m /\ i + 1 # 0 /\ (i + 1) - 1 = i OBVIOUS
    <2>2. g[i + 1] = Wrap(g[(i + 1) - 1] + f[i + 1]) BY <2>1 DEF WrapSegment
    <2>3. h[i + 1] = Wrap(h[(i + 1) - 1] + f[i + 1]) BY <2>1 DEF WrapSegment
    <2> QED BY <1>2, <2>1, <2>2, <2>3
  <1> HIDE DEF S
  <1>3. Nat \subseteq S BY <1>1, <1>2, NatSetInduction
  <1> QED BY <1>3 DEF S

\* The two equations of the loop.
LEMMA WrapSumStep ==
    ASSUME NEW f
    PROVE  /\ WrapSum(f, 0) = 0
           /\ \A n \in Nat : WrapSum(f, n + 1) = Wrap(WrapSum(f, n) + f[n + 1])
PROOF
  <1> DEFINE G(n) == CHOOSE g : WrapSegment(f, n, g)
             s == [n \in Nat |-> G(n)[n]]
             w == WrapSums(f)
  <1>1. \A n \in Nat : WrapSegment(f, n, G(n)) BY WrapSegmentExists
  <1>2. ASSUME NEW n \in Nat
        PROVE s[n] = IF n = 0 THEN 0 ELSE Wrap(s[n - 1] + f[n])
    <2>0. WrapSegment(f, n, G(n)) BY <1>1
    <2>1. G(n)[n] = IF n = 0 THEN 0 ELSE Wrap(G(n)[n - 1] + f[n])
      <3> HIDE DEF G
      <3> n \in 0 .. n OBVIOUS
      <3> QED BY <2>0 DEF WrapSegment
    <2>2. n # 0 => G(n)[n - 1] = G(n - 1)[n - 1]
      <3> SUFFICES ASSUME n # 0 PROVE G(n)[n - 1] = G(n - 1)[n - 1] OBVIOUS
      <3>1. n - 1 \in Nat /\ n - 1 =< n /\ n - 1 \in 0 .. n - 1 OBVIOUS
      <3>2. WrapSegment(f, n - 1, G(n - 1)) BY <1>1, <3>1
      <3> HIDE DEF G
      <3> QED BY <2>0, <3>1, <3>2, WrapSegmentsAgree
    <2> QED BY <2>1, <2>2
  <1>3. s = [i \in Nat |-> IF i = 0 THEN 0 ELSE Wrap(s[i - 1] + f[i])]
    <2> HIDE DEF G
    <2> s = [i \in Nat |-> s[i]] OBVIOUS
    <2> HIDE DEF s
    <2> QED BY <1>2
  <1>4. w = [i \in Nat |-> IF i = 0 THEN 0 ELSE Wrap(w[i - 1] + f[i])]
    <2> HIDE DEF s, G
    <2> QED BY <1>3 DEF WrapSums
  <1> HIDE DEF w
  <1>5. w[0] = 0 BY <1>4
  <1>6. ASSUME NEW n \in Nat PROVE w[n + 1] = Wrap(w[n] + f[n + 1])
    <2> n + 1 \in Nat /\ n + 1 # 0 /\ (n + 1) - 1 = n OBVIOUS
    <2> QED BY <1>4
  <1> QED BY <1>5, <1>6 DEF w, WrapSum

\* The loop's result is in the width, whole turns away from the exact sum of
\* terms that are themselves whole turns away from the exact ones.
LEMMA WrapSumFacts ==
    ASSUME NEW f, NEW g, NEW n \in Nat,
           \A i \in 1 .. n : f[i] \in Int /\ g[i] \in Int /\ Congruent(f[i], g[i])
    PROVE  WrapSum(f, n) \in Int64 /\ Congruent(WrapSum(f, n), SumTo(g, n))
PROOF
  <1> DEFINE S == {k \in Nat : k =< n =>
                     /\ WrapSum(f, k) \in Int64 /\ SumTo(g, k) \in Int
                     /\ Congruent(WrapSum(f, k), SumTo(g, k))}
  <1>1. 0 \in S BY WrapSumStep, SumStep, CongruentRefl, TurnFacts
  <1>2. ASSUME NEW k \in Nat, k \in S PROVE k + 1 \in S
    <2> SUFFICES ASSUME k + 1 =< n
                 PROVE  /\ WrapSum(f, k + 1) \in Int64 /\ SumTo(g, k + 1) \in Int
                        /\ Congruent(WrapSum(f, k + 1), SumTo(g, k + 1))
      OBVIOUS
    <2> DEFINE x == WrapSum(f, k)
               y == SumTo(g, k)
    <2>1. x \in Int64 /\ y \in Int /\ Congruent(x, y) BY <1>2
    <2>2. f[k + 1] \in Int /\ g[k + 1] \in Int /\ Congruent(f[k + 1], g[k + 1])
      OBVIOUS
    <2>3. x \in Int BY <2>1, TurnFacts
    <2>4. /\ WrapSum(f, k + 1) = Wrap(x + f[k + 1])
          /\ SumTo(g, k + 1) = y + g[k + 1]
      BY WrapSumStep, SumStep
    <2> HIDE DEF x, y
    <2>5. Congruent(x + f[k + 1], y + g[k + 1]) BY <2>1, <2>2, <2>3, CongruentAdd
    <2>6. x + f[k + 1] \in Int /\ y + g[k + 1] \in Int BY <2>1, <2>2, <2>3
    <2>7. /\ Wrap(x + f[k + 1]) \in Int64
          /\ Congruent(Wrap(x + f[k + 1]), x + f[k + 1])
      BY <2>6, WrapFacts
    <2>8. Wrap(x + f[k + 1]) \in Int BY <2>7, TurnFacts
    <2>9. Congruent(Wrap(x + f[k + 1]), y + g[k + 1])
      BY <2>5, <2>6, <2>7, <2>8, CongruentTrans
    <2> QED BY <2>4, <2>6, <2>7, <2>9
  <1> HIDE DEF S
  <1>3. Nat \subseteq S BY <1>1, <1>2, NatSetInduction
  <1> QED BY <1>3 DEF S

\* Sums of congruent terms are congruent.
LEMMA SumCongruent ==
    ASSUME NEW f, NEW g, NEW n \in Nat,
           \A i \in 1 .. n : f[i] \in Int /\ g[i] \in Int /\ Congruent(f[i], g[i])
    PROVE  Congruent(SumTo(f, n), SumTo(g, n))
PROOF
  <1> DEFINE S == {k \in Nat : k =< n =>
                     /\ SumTo(f, k) \in Int /\ SumTo(g, k) \in Int
                     /\ Congruent(SumTo(f, k), SumTo(g, k))}
  <1>1. 0 \in S BY SumStep, CongruentRefl
  <1>2. ASSUME NEW k \in Nat, k \in S PROVE k + 1 \in S
    <2> SUFFICES ASSUME k + 1 =< n
                 PROVE  /\ SumTo(f, k + 1) \in Int /\ SumTo(g, k + 1) \in Int
                        /\ Congruent(SumTo(f, k + 1), SumTo(g, k + 1))
      OBVIOUS
    <2>1. /\ SumTo(f, k) \in Int /\ SumTo(g, k) \in Int
          /\ Congruent(SumTo(f, k), SumTo(g, k))
      BY <1>2
    <2>2. f[k + 1] \in Int /\ g[k + 1] \in Int /\ Congruent(f[k + 1], g[k + 1])
      OBVIOUS
    <2>3. /\ SumTo(f, k + 1) = SumTo(f, k) + f[k + 1]
          /\ SumTo(g, k + 1) = SumTo(g, k) + g[k + 1]
      BY SumStep
    <2>4. Congruent(SumTo(f, k) + f[k + 1], SumTo(g, k) + g[k + 1])
      BY <2>1, <2>2, CongruentAdd
    <2> QED BY <2>1, <2>2, <2>3, <2>4
  <1> HIDE DEF S
  <1>3. Nat \subseteq S BY <1>1, <1>2, NatSetInduction
  <1> QED BY <1>3 DEF S

\* n terms of which no m fit past the width add up within it, for n up to m.
LEMMA SumFits ==
    ASSUME NEW f, NEW m \in Nat, NEW n \in Nat, n =< m,
           \A i \in 1 .. n : f[i] \in Int /\ m * f[i] =< MaxInt /\ -(m * f[i]) =< MaxInt
    PROVE  SumTo(f, n) \in Int64
PROOF
  <1> DEFINE S == {k \in Nat : k =< n =>
                     /\ SumTo(f, k) \in Int
                     /\ m * SumTo(f, k) =< k * MaxInt
                     /\ -(m * SumTo(f, k)) =< k * MaxInt}
  <1>1. 0 \in S BY SumStep, TurnFacts
  <1>2. ASSUME NEW k \in Nat, k \in S PROVE k + 1 \in S
    <2> SUFFICES ASSUME k + 1 =< n
                 PROVE  /\ SumTo(f, k + 1) \in Int
                        /\ m * SumTo(f, k + 1) =< (k + 1) * MaxInt
                        /\ -(m * SumTo(f, k + 1)) =< (k + 1) * MaxInt
      OBVIOUS
    <2> DEFINE x == SumTo(f, k)
               y == f[k + 1]
    <2>1. x \in Int /\ m * x =< k * MaxInt /\ -(m * x) =< k * MaxInt BY <1>2
    <2>2. y \in Int /\ m * y =< MaxInt /\ -(m * y) =< MaxInt OBVIOUS
    <2>3. SumTo(f, k + 1) = x + y BY SumStep
    <2> HIDE DEF x, y
    <2>4. m * (x + y) = m * x + m * y /\ (k + 1) * MaxInt = k * MaxInt + MaxInt
          /\ m * x \in Int /\ m * y \in Int /\ k * MaxInt \in Int
      BY <2>1, <2>2, TurnFacts
    <2> QED BY <2>1, <2>2, <2>3, <2>4, TurnFacts
  <1> HIDE DEF S
  <1>3. Nat \subseteq S BY <1>1, <1>2, NatSetInduction
  <1> DEFINE x == SumTo(f, n)
  <1>4. x \in Int /\ m * x =< n * MaxInt /\ -(m * x) =< n * MaxInt BY <1>3 DEF S
  <1>5. CASE n = 0
    <2> x = 0 BY <1>5, SumStep
    <2> QED BY TurnFacts
  <1>6. CASE n # 0
    <2> HIDE DEF x
    <2>1. m > 0 /\ MaxInt \in Nat BY <1>6, TurnFacts
    <2>2. n * MaxInt =< m * MaxInt
      <3> (m - n) \in Nat /\ (m - n) * MaxInt >= 0
          /\ (m - n) * MaxInt = m * MaxInt - n * MaxInt
        BY <2>1
      <3> n * MaxInt \in Int /\ m * MaxInt \in Int BY <2>1
      <3> QED OBVIOUS
    <2>3. ASSUME NEW z \in Int, m * z =< m * MaxInt PROVE z =< MaxInt
      <3> SUFFICES ASSUME z > MaxInt PROVE FALSE BY <2>1
      <3> z - MaxInt - 1 \in Nat BY <2>1
      <3> m * (z - MaxInt - 1) >= 0 /\ m * (z - MaxInt - 1) = m * z - m * MaxInt - m
        BY <2>1
      <3> m * z \in Int /\ m * MaxInt \in Int BY <2>1
      <3> QED BY <2>1, <2>3
    <2>4. m * x =< m * MaxInt /\ m * (-x) =< m * MaxInt
      <3> n * MaxInt \in Int /\ m * MaxInt \in Int /\ m * x \in Int
          /\ m * (-x) = -(m * x)
        BY <1>4, <2>1
      <3> QED BY <1>4, <2>2
    <2>5. x =< MaxInt /\ -x =< MaxInt BY <1>4, <2>3, <2>4
    <2>6. x \in Int64 BY <1>4, <2>5, TurnFacts
    <2> QED BY <2>6 DEF x
  <1> QED BY <1>5, <1>6

-----------------------------------------------------------------------------
(* The draft, and what its sums are.                                       *)

AllOpen == [a \in Accounts |-> "open"]

LEMMA DraftFacts ==
    ASSUME TypeOK
    PROVE  /\ draft.postings \in Seq(Posting) /\ Len(draft.postings) \in Nat
           /\ \A i \in 1 .. Len(draft.postings) :
                 draft.postings[i] \in Posting /\ draft.postings[i].amount \in Int64
           /\ AccountsAccept(AllOpen, draft)
PROOF
  <1> DEFINE ps == draft.postings
  <1>1. ps \in Seq(Posting) BY DEF TypeOK
  <1>2. Len(ps) \in Nat /\ \A i \in 1 .. Len(ps) : ps[i] \in Posting
    BY <1>1, LenProperties, ElementOfSeq
  <1>3. \A i \in 1 .. Len(ps) : ps[i].amount \in Int64 BY WidthAssumption DEF TypeOK
  <1>4. \A i \in 1 .. Len(ps) : Chart[ps[i].account].currency = ps[i].currency
    BY DEF TypeOK
  <1>5. \A i \in 1 .. Len(ps) : ps[i].account \in Accounts BY <1>2 DEF Posting
  <1> QED BY <1>1, <1>2, <1>3, <1>4, <1>5 DEF AccountsAccept, AllOpen

\* Negating the smallest integer is the only wrap a single leg can meet.
LEMMA Signed64Facts ==
    ASSUME NEW p, p.amount \in Int64
    PROVE  /\ Signed64(p) \in Int /\ Signed(p) \in Int
           /\ Congruent(Signed64(p), Signed(p))
PROOF
  <1>1. p.amount \in Int /\ -p.amount \in Int BY TurnFacts
  <1>2. CASE p.dir = "credit"
    <2>1. Signed64(p) = Wrap(-p.amount) /\ Signed(p) = -p.amount
      BY <1>2 DEF Signed64, Signed
    <2>2. Wrap(-p.amount) \in Int64 /\ Congruent(Wrap(-p.amount), -p.amount)
      BY <1>1, WrapFacts
    <2> QED BY <1>1, <2>1, <2>2, TurnFacts
  <1>3. CASE p.dir # "credit"
    <2> Signed64(p) = p.amount /\ Signed(p) = p.amount BY <1>3 DEF Signed64, Signed
    <2> QED BY <1>1, CongruentRefl
  <1> QED BY <1>2, <1>3

\* The per-account sums of applyBalances, and what LedgerData makes of them.
LEMMA Delta64Facts ==
    ASSUME TypeOK, NEW a
    PROVE  /\ Delta64(draft, a) \in Int64 /\ Delta(draft, a) \in Int
           /\ Congruent(Delta64(draft, a), Delta(draft, a))
PROOF
  <1> DEFINE ps == draft.postings
             n == Len(ps)
             f == OnAccount(ps, a)
             g == [i \in 1 .. n |-> IF ps[i].account = a THEN Signed(ps[i]) ELSE 0]
  <1>1. n \in Nat BY DraftFacts
  <1>2. ASSUME NEW i \in 1 .. n
        PROVE  f[i] \in Int /\ g[i] \in Int /\ Congruent(f[i], g[i])
    <2>1. f[i] = (IF ps[i].account = a THEN Signed64(ps[i]) ELSE 0)
          /\ g[i] = (IF ps[i].account = a THEN Signed(ps[i]) ELSE 0)
      BY DEF OnAccount
    <2>2. ps[i].amount \in Int64 BY DraftFacts
    <2> HIDE DEF f, g
    <2> QED BY <2>1, <2>2, Signed64Facts, CongruentRefl
  <1>3. Delta64(draft, a) = WrapSum(f, n) /\ Delta(draft, a) = SumTo(g, n)
    BY DEF Delta64, Delta
  <1> HIDE DEF f, g, n
  <1> QED BY <1>1, <1>2, <1>3, WrapSumFacts, SumType

\* The per-currency sums of Net.
LEMMA Net64Facts ==
    ASSUME TypeOK, NEW c
    PROVE  /\ Net64(draft, c) \in Int64 /\ Net(draft, c) \in Int
           /\ Congruent(Net64(draft, c), Net(draft, c))
PROOF
  <1> DEFINE ps == draft.postings
             n == Len(ps)
             f == InCurrency(ps, c)
             g == [i \in 1 .. n |-> IF ps[i].currency = c THEN Signed(ps[i]) ELSE 0]
  <1>1. n \in Nat BY DraftFacts
  <1>2. ASSUME NEW i \in 1 .. n
        PROVE  f[i] \in Int /\ g[i] \in Int /\ Congruent(f[i], g[i])
    <2>1. f[i] = (IF ps[i].currency = c THEN Signed64(ps[i]) ELSE 0)
          /\ g[i] = (IF ps[i].currency = c THEN Signed(ps[i]) ELSE 0)
      BY DEF InCurrency
    <2>2. ps[i].amount \in Int64 BY DraftFacts
    <2> HIDE DEF f, g
    <2> QED BY <2>1, <2>2, Signed64Facts, CongruentRefl
  <1>3. Net64(draft, c) = WrapSum(f, n) /\ Net(draft, c) = SumTo(g, n)
    BY DEF Net64, Net
  <1> HIDE DEF f, g, n
  <1> QED BY <1>1, <1>2, <1>3, WrapSumFacts, SumType

\* Amounts that are positive and of which MaxLegs fit give sums that fit: the
\* premise of both is what Validate has checked by the time it calls Net.
PositiveLegs(t) == \A i \in 1 .. Len(t.postings) : t.postings[i].amount > 0

LEMMA SumsAreExact ==
    ASSUME TypeOK, SumsFit, PositiveLegs(draft)
    PROVE  /\ \A a : Delta64(draft, a) = Delta(draft, a)
           /\ \A c : Net64(draft, c) = Net(draft, c)
PROOF
  <1> DEFINE ps == draft.postings
             n == Len(ps)
  <1>1. n \in Nat /\ MaxLegs \in Nat /\ n =< MaxLegs
    BY DraftFacts, WidthAssumption DEF TypeOK
  <1>2. ASSUME NEW i \in 1 .. n
        PROVE  /\ Signed(ps[i]) \in Int /\ MaxLegs * Signed(ps[i]) =< MaxInt
               /\ -(MaxLegs * Signed(ps[i])) =< MaxInt
    <2> DEFINE amount == ps[i].amount
    <2>1. amount \in Int64 /\ amount > 0 BY DraftFacts DEF PositiveLegs
    <2>2. MaxLegs * amount =< MaxInt BY DEF TypeOK, SumsFit
    <2>3. Signed(ps[i]) = amount \/ Signed(ps[i]) = -amount BY DEF Signed
    <2> HIDE DEF amount
    <2>4. amount \in Int /\ MaxInt \in Nat BY <2>1, TurnFacts
    <2>5. MaxLegs * amount >= 0 /\ MaxLegs * (-amount) = -(MaxLegs * amount)
          /\ MaxLegs * amount \in Int
      BY <1>1, <2>1, <2>4
    <2> QED BY <2>2, <2>3, <2>4, <2>5
  <1>3. MaxLegs * 0 = 0 /\ MaxInt \in Nat BY <1>1, TurnFacts
  <1>4. ASSUME NEW a PROVE Delta64(draft, a) = Delta(draft, a)
    <2> DEFINE g == [i \in 1 .. n |-> IF ps[i].account = a THEN Signed(ps[i]) ELSE 0]
    <2>1. Delta(draft, a) = SumTo(g, n) BY DEF Delta
    <2>2. \A i \in 1 .. n : g[i] = Signed(ps[i]) \/ g[i] = 0 OBVIOUS
    <2> HIDE DEF g, n, ps
    <2>3. \A i \in 1 .. n : g[i] \in Int /\ MaxLegs * g[i] =< MaxInt
                            /\ -(MaxLegs * g[i]) =< MaxInt
      BY <1>2, <1>3, <2>2
    <2>4. SumTo(g, n) \in Int64 BY <1>1, <2>3, SumFits
    <2> QED BY <2>1, <2>4, Delta64Facts, CongruentInRange
  <1>5. ASSUME NEW c PROVE Net64(draft, c) = Net(draft, c)
    <2> DEFINE g == [i \in 1 .. n |-> IF ps[i].currency = c THEN Signed(ps[i]) ELSE 0]
    <2>1. Net(draft, c) = SumTo(g, n) BY DEF Net
    <2>2. \A i \in 1 .. n : g[i] = Signed(ps[i]) \/ g[i] = 0 OBVIOUS
    <2> HIDE DEF g, n, ps
    <2>3. \A i \in 1 .. n : g[i] \in Int /\ MaxLegs * g[i] =< MaxInt
                            /\ -(MaxLegs * g[i]) =< MaxInt
      BY <1>2, <1>3, <2>2
    <2>4. SumTo(g, n) \in Int64 BY <1>1, <2>3, SumFits
    <2> QED BY <2>1, <2>4, Net64Facts, CongruentInRange
  <1> QED BY <1>4, <1>5

-----------------------------------------------------------------------------
(* Type correctness *)

LEMMA EmptyIsTyped ==
    /\ Empty \in [reference : {"draft"}, postings : Seq(Posting), reverses : {0}]
    /\ Len(Empty.postings) = 0
PROOF
  <1> << >> \in Seq(Posting) /\ Len(<< >>) = 0 OBVIOUS
  <1> QED BY DEF Empty

LEMMA TypeInit == Init => TypeOK
PROOF
  <1> SUFFICES ASSUME Init PROVE TypeOK OBVIOUS
  <1> balances \in [Accounts -> Int64] /\ exact \in [Accounts -> Int]
    BY TurnFacts DEF Init
  <1> QED BY EmptyIsTyped, WidthAssumption DEF TypeOK, Init

LEMMA TypeAddLeg ==
    ASSUME TypeOK, NEW a \in Accounts, NEW n \in Amounts, NEW dir \in Directions,
           AddLeg(a, n, dir)
    PROVE  TypeOK'
PROOF
  <1> DEFINE leg == [account |-> a, amount |-> n, currency |-> Chart[a].currency,
                     dir |-> dir]
             ps == draft.postings
  <1>1. n \in Int BY WidthAssumption, TurnFacts
  <1>2. Chart[a].currency \in Currencies BY ChartAssumption
  <1>3. leg \in Posting BY <1>1, <1>2 DEF Posting
  <1>4. leg.amount = n /\ leg.account = a /\ leg.currency = Chart[a].currency OBVIOUS
  <1>5. ps \in Seq(Posting) /\ Len(ps) < MaxLegs /\ Len(ps) \in Nat
    BY DraftFacts DEF AddLeg
  <1>6. draft' = [draft EXCEPT !.postings = Append(ps, leg)] BY DEF AddLeg
  <1> HIDE DEF leg
  <1>7. /\ draft' \in [reference : {"draft"}, postings : Seq(Posting), reverses : {0}]
        /\ draft'.postings = Append(ps, leg)
    <2>1. draft \in [reference : {"draft"}, postings : Seq(Posting), reverses : {0}]
      BY DEF TypeOK
    <2>2. Append(ps, leg) \in Seq(Posting) BY <1>3, <1>5, AppendProperties
    <2> HIDE DEF ps
    <2> QED BY <1>6, <2>1, <2>2
  <1>8. /\ Len(Append(ps, leg)) = Len(ps) + 1
        /\ \A i \in 1 .. Len(ps) : Append(ps, leg)[i] = ps[i]
        /\ Append(ps, leg)[Len(ps) + 1] = leg
    BY <1>3, <1>5
  <1>9. ASSUME NEW i \in 1 .. Len(draft'.postings)
        PROVE  /\ draft'.postings[i].amount \in Amounts
               /\ draft'.postings[i].currency = Chart[draft'.postings[i].account].currency
    <2>1. CASE i = Len(ps) + 1 BY <1>4, <1>7, <1>8, <2>1
    <2>2. CASE i # Len(ps) + 1
      <3> i \in 1 .. Len(ps) BY <1>5, <1>7, <1>8, <2>2
      <3> QED BY <1>7, <1>8 DEF TypeOK
    <2> QED BY <2>1, <2>2
  <1>10. Len(draft'.postings) =< MaxLegs BY <1>5, <1>7, <1>8, WidthAssumption
  <1> QED BY <1>7, <1>9, <1>10 DEF TypeOK, AddLeg

LEMMA TypePost == ASSUME TypeOK, Post PROVE TypeOK'
PROOF
  <1>1. \A a \in Accounts : balances[a] + Delta64(draft, a) \in Int64
    BY DEF Post, Upsert, InRange
  <1>2. balances' \in [Accounts -> Int64] BY <1>1 DEF Post, Upsert
  <1>3. exact' = [a \in Accounts |-> exact[a] + Delta(draft, a)]
    BY DEF Post, Upsert, ApplyBalances
  <1>4. exact' \in [Accounts -> Int] BY <1>3, Delta64Facts DEF TypeOK
  <1>5. draft' = Empty BY DEF Post
  <1> QED BY <1>2, <1>4, <1>5, EmptyIsTyped, WidthAssumption DEF TypeOK

LEMMA TypeStep == ASSUME TypeOK, [Next]_vars PROVE TypeOK'
PROOF
  <1>1. CASE \E a \in Accounts, n \in Amounts : Debit(a, n)
    BY <1>1, TypeAddLeg DEF Debit, Directions
  <1>2. CASE \E a \in Accounts, n \in Amounts : Credit(a, n)
    BY <1>2, TypeAddLeg DEF Credit, Directions
  <1>3. CASE Post BY <1>3, TypePost
  <1>4. CASE Refused
    BY <1>4, EmptyIsTyped, WidthAssumption DEF Refused, TypeOK
  <1>5. CASE UNCHANGED vars BY <1>5 DEF vars, TypeOK
  <1> QED BY <1>1, <1>2, <1>3, <1>4, <1>5 DEF Next

\* A draft has at most MaxLegs legs, on accounts that exist and in their
\* currency, and the balance column stays within a bigint.
THEOREM Transfer64TypeCorrect == Spec => []TypeOK
BY TypeInit, TypeStep, PTL DEF Spec

-----------------------------------------------------------------------------
(* Whatever the amounts: off by whole turns, or not at all.                *)

WholeTurns ==
    /\ \A a \in Accounts : Congruent(balances[a], exact[a])
    /\ \A c \in Currencies : Congruent(TrialBalance(AllOpen, balances, c), 0)

\* What a table of balances contributes to the trial balance of currency c.
Column(bal, c) ==
    [a \in Accounts |-> IF AllOpen[a] # "none" /\ Chart[a].currency = c
                        THEN bal[a] ELSE 0]

LEMMA TrialIsSum ==
    ASSUME NEW bal \in [Accounts -> Int], NEW c
    PROVE  /\ TrialBalance(AllOpen, bal, c) = SumTo(Column(bal, c), NumAccounts)
           /\ \A a \in 1 .. NumAccounts : Column(bal, c)[a] \in Int
           /\ SumTo(Column(bal, c), NumAccounts) \in Int
PROOF
  <1>1. TrialBalance(AllOpen, bal, c) = SumTo(Column(bal, c), NumAccounts)
    BY DEF TrialBalance, Column
  <1>2. \A a \in 1 .. NumAccounts : Column(bal, c)[a] \in Int BY DEF Column, Accounts
  <1> QED BY <1>1, <1>2, SumType, BoundsAssumption

\* A table that moves by the deltas of a typed transfer moves its trial balance
\* by their sum.
LEMMA TrialMoves ==
    ASSUME NEW bal \in [Accounts -> Int], NEW d \in [Accounts -> Int], NEW c
    PROVE  TrialBalance(AllOpen, [a \in Accounts |-> bal[a] + d[a]], c)
             = TrialBalance(AllOpen, bal, c) + SumTo(Column(d, c), NumAccounts)
PROOF
  <1> DEFINE new == [a \in Accounts |-> bal[a] + d[a]]
  <1>1. new \in [Accounts -> Int] /\ \A a \in Accounts : new[a] = bal[a] + d[a] OBVIOUS
  <1> HIDE DEF new
  <1>2. \A a \in 1 .. NumAccounts :
           /\ Column(bal, c)[a] \in Int /\ Column(d, c)[a] \in Int
           /\ Column(new, c)[a] = Column(bal, c)[a] + Column(d, c)[a]
    BY <1>1 DEF Column, Accounts
  <1>3. SumTo(Column(new, c), NumAccounts)
          = SumTo(Column(bal, c), NumAccounts) + SumTo(Column(d, c), NumAccounts)
    BY <1>2, SumAdd, BoundsAssumption
  <1>4. TrialBalance(AllOpen, new, c) = SumTo(Column(new, c), NumAccounts)
        /\ TrialBalance(AllOpen, bal, c) = SumTo(Column(bal, c), NumAccounts)
    BY <1>1, TrialIsSum
  <1> QED BY <1>3, <1>4 DEF new

Moved64 == [a \in Accounts |-> Delta64(draft, a)]
Moved == [a \in Accounts |-> Delta(draft, a)]

LEMMA MovedFacts ==
    ASSUME TypeOK
    PROVE  /\ Moved64 \in [Accounts -> Int] /\ Moved \in [Accounts -> Int]
           /\ \A a \in Accounts : Congruent(Moved64[a], Moved[a])
           /\ \A c : SumTo(Column(Moved, c), NumAccounts) = Net(draft, c)
PROOF
  <1>1. /\ Moved64 \in [Accounts -> Int] /\ Moved \in [Accounts -> Int]
        /\ \A a \in Accounts : Congruent(Moved64[a], Moved[a])
    BY Delta64Facts, TurnFacts DEF Moved64, Moved
  <1>2. ASSUME NEW c PROVE SumTo(Column(Moved, c), NumAccounts) = Net(draft, c)
    <2>1. Column(Moved, c) = [a \in Accounts |->
             IF AllOpen[a] # "none" /\ Chart[a].currency = c THEN Delta(draft, a) ELSE 0]
      BY DEF Column, Moved
    <2> QED BY <2>1, DraftFacts, TransferTrialBalance
  <1> QED BY <1>1, <1>2

LEMMA PostMoves ==
    ASSUME TypeOK, Post
    PROVE  /\ balances \in [Accounts -> Int] /\ exact \in [Accounts -> Int]
           /\ balances' = [a \in Accounts |-> balances[a] + Moved64[a]]
           /\ exact' = [a \in Accounts |-> exact[a] + Moved[a]]
           /\ PositiveLegs(draft)
           /\ \A c \in Currencies : Net64(draft, c) = 0
BY TurnFacts DEF TypeOK, Post, Upsert, ApplyBalances, Moved64, Moved, Validate64,
   PositiveLegs

LEMMA WholeTurnsInit == Init => WholeTurns
PROOF
  <1> SUFFICES ASSUME Init PROVE WholeTurns OBVIOUS
  <1>1. \A a \in Accounts : balances[a] = 0 /\ exact[a] = 0 BY DEF Init
  <1>2. ASSUME NEW c \in Currencies PROVE TrialBalance(AllOpen, balances, c) = 0
    <2>1. balances \in [Accounts -> Int] BY DEF Init
    <2>2. \A a \in 1 .. NumAccounts : Column(balances, c)[a] = 0
      BY <1>1 DEF Column, Accounts
    <2>3. SumTo(Column(balances, c), NumAccounts) = 0
      BY <2>2, SumAllZero, BoundsAssumption
    <2> QED BY <2>1, <2>3, TrialIsSum
  <1> QED BY <1>1, <1>2, CongruentRefl DEF WholeTurns

LEMMA WholeTurnsPost == ASSUME TypeOK, WholeTurns, Post PROVE WholeTurns'
PROOF
  <1>1. ASSUME NEW a \in Accounts PROVE Congruent(balances[a], exact[a])'
    <2>1. balances[a] \in Int /\ exact[a] \in Int /\ Moved64[a] \in Int /\ Moved[a] \in Int
      BY PostMoves, MovedFacts
    <2>2. Congruent(balances[a], exact[a]) /\ Congruent(Moved64[a], Moved[a])
      BY MovedFacts DEF WholeTurns
    <2>3. balances'[a] = balances[a] + Moved64[a] /\ exact'[a] = exact[a] + Moved[a]
      BY PostMoves
    <2>4. Congruent(balances'[a], exact'[a]) BY <2>1, <2>2, <2>3, CongruentAdd
    <2> QED BY <2>4
  <1>2. ASSUME NEW c \in Currencies
        PROVE  Congruent(TrialBalance(AllOpen, balances, c), 0)'
    <2> DEFINE trial == TrialBalance(AllOpen, balances, c)
               sum64 == SumTo(Column(Moved64, c), NumAccounts)
               sum == SumTo(Column(Moved, c), NumAccounts)
    <2>1. TrialBalance(AllOpen, balances', c) = trial + sum64
      BY PostMoves, MovedFacts, TrialMoves
    <2>2. /\ trial \in Int /\ sum64 \in Int /\ sum \in Int
          /\ \A a \in 1 .. NumAccounts :
                Column(Moved64, c)[a] \in Int /\ Column(Moved, c)[a] \in Int
      BY PostMoves, MovedFacts, TrialIsSum
    <2>3. \A a \in 1 .. NumAccounts : Congruent(Column(Moved64, c)[a], Column(Moved, c)[a])
      BY MovedFacts, CongruentRefl DEF Column, Accounts
    <2>4. Congruent(sum64, sum) BY <2>2, <2>3, SumCongruent, BoundsAssumption
    <2>5. Congruent(sum, 0)
      <3>1. sum = Net(draft, c) BY MovedFacts
      <3>2. Net64(draft, c) = 0 BY PostMoves
      <3>3. Congruent(Net64(draft, c), Net(draft, c)) BY Net64Facts
      <3> QED BY <2>2, <3>1, <3>2, <3>3, CongruentSym
    <2>6. Congruent(trial, 0) BY DEF WholeTurns
    <2> HIDE DEF trial, sum64, sum
    <2>7. Congruent(sum64, 0) BY <2>2, <2>4, <2>5, CongruentTrans
    <2>8. Congruent(trial + sum64, 0 + 0) BY <2>2, <2>6, <2>7, CongruentAdd
    <2> QED BY <2>1, <2>8
  <1> QED BY <1>1, <1>2 DEF WholeTurns

LEMMA WholeTurnsStep ==
    ASSUME TypeOK, WholeTurns, [Next]_vars PROVE WholeTurns'
PROOF
  <1>1. CASE Post BY <1>1, WholeTurnsPost
  <1>2. ASSUME UNCHANGED <<balances, exact>> PROVE WholeTurns'
    BY <1>2 DEF WholeTurns, TrialBalance
  <1> QED
    BY <1>1, <1>2 DEF Next, Debit, Credit, AddLeg, Refused, vars

\* Whatever amounts callers write, no transfer Validate lets through leaves a
\* balance, or the trial balance of a currency, off by anything but a multiple
\* of 2^64 (Transfer.Net, applyBalances): the sum-zero rule survives overflow
\* modulo the width.
THEOREM OffByWholeTurns == Spec => []WholeTurns
BY Transfer64TypeCorrect, WholeTurnsInit, WholeTurnsStep, PTL DEF Spec

-----------------------------------------------------------------------------
(* Where MaxLegs amounts fit an int64.                                     *)

Exact == BalancesExact /\ DebitsEqualCredits

LEMMA ExactInit == Init => Exact
PROOF
  <1> SUFFICES ASSUME Init PROVE Exact OBVIOUS
  <1>1. balances = exact BY DEF Init
  <1>2. ASSUME NEW c \in Currencies PROVE TrialBalance(AllOpen, balances, c) = 0
    <2>1. balances \in [Accounts -> Int] BY DEF Init
    <2>2. \A a \in 1 .. NumAccounts : Column(balances, c)[a] = 0
      BY DEF Column, Accounts, Init
    <2>3. SumTo(Column(balances, c), NumAccounts) = 0
      BY <2>2, SumAllZero, BoundsAssumption
    <2> QED BY <2>1, <2>3, TrialIsSum
  <1> QED
    BY <1>1, <1>2 DEF Exact, BalancesExact, DebitsEqualCredits, CheckTrialBalance, AllOpen

LEMMA ExactStep ==
    ASSUME SumsFit, TypeOK, Exact, [Next]_vars PROVE Exact'
PROOF
  <1>1. CASE Post
    <2>1. Moved64 = Moved BY <1>1, PostMoves, SumsAreExact DEF Moved64, Moved
    <2>2. balances' = exact' BY <1>1, <2>1, PostMoves DEF Exact, BalancesExact
    <2>3. ASSUME NEW c \in Currencies PROVE TrialBalance(AllOpen, balances', c) = 0
      <3>1. TrialBalance(AllOpen, balances', c)
              = TrialBalance(AllOpen, balances, c) + SumTo(Column(Moved, c), NumAccounts)
        BY <1>1, <2>1, PostMoves, MovedFacts, TrialMoves
      <3>2. TrialBalance(AllOpen, balances, c) = 0
        BY DEF Exact, DebitsEqualCredits, CheckTrialBalance, AllOpen
      <3>3. SumTo(Column(Moved, c), NumAccounts) = 0
        BY <1>1, PostMoves, MovedFacts, SumsAreExact
      <3> QED BY <3>1, <3>2, <3>3
    <2> QED
      BY <2>2, <2>3 DEF Exact, BalancesExact, DebitsEqualCredits, CheckTrialBalance, AllOpen
  <1>2. ASSUME UNCHANGED <<balances, exact>> PROVE Exact'
    BY <1>2 DEF Exact, BalancesExact, DebitsEqualCredits, CheckTrialBalance, TrialBalance
  <1> QED
    BY <1>1, <1>2 DEF Next, Debit, Credit, AddLeg, Refused, vars

\* Where MaxLegs amounts of a caller fit an int64, the balance column is what
\* the stored postings add up to, for every chart and every sequence of
\* transfers (applyBalances).
THEOREM BalanceColumnIsExact == SumsFit => (Spec => []BalancesExact)
PROOF
  <1> SUFFICES ASSUME SumsFit PROVE Spec => []BalancesExact OBVIOUS
  <1>1. TypeOK /\ Exact /\ [Next]_vars => Exact' BY ExactStep
  <1>2. Exact => BalancesExact BY DEF Exact
  <1> QED BY <1>1, <1>2, ExactInit, Transfer64TypeCorrect, PTL DEF Spec

\* ... and debits equal credits in every currency (Validate).
THEOREM FixedWidthSumsBalance == SumsFit => (Spec => []DebitsEqualCredits)
PROOF
  <1> SUFFICES ASSUME SumsFit PROVE Spec => []DebitsEqualCredits OBVIOUS
  <1>1. TypeOK /\ Exact /\ [Next]_vars => Exact' BY ExactStep
  <1>2. Exact => DebitsEqualCredits BY DEF Exact
  <1> QED BY <1>1, <1>2, ExactInit, Transfer64TypeCorrect, PTL DEF Spec

-----------------------------------------------------------------------------
(* The step theorem: there, every step is one of the exact engine, whose   *)
(* Validate and ApplyBalances Books and Store are built from.              *)

ExactlyInRange(t) == \A a \in Accounts : ApplyBalances(balances, t)[a] \in Int64

ExactPost ==
    /\ Validate(draft) /\ ExactlyInRange(draft)
    /\ balances' = ApplyBalances(balances, draft)

ExactRefusal ==
    /\ ~ Validate(draft) \/ ~ ExactlyInRange(draft)
    /\ balances' = balances

StepsAreExact == (Post => ExactPost) /\ (Refused => ExactRefusal)

LEMMA ValidatesAgree == ASSUME TypeOK, SumsFit PROVE Validate64(draft) <=> Validate(draft)
PROOF
  <1> DEFINE ps == draft.postings
  <1>1. draft.reference # "" BY DEF TypeOK
  <1>2. \A i \in 1 .. Len(ps) : ps[i].account # 0 /\ ps[i].dir \in Directions
                                /\ ps[i].currency \in Currencies
    BY DraftFacts, BoundsAssumption DEF Posting, Accounts
  <1>3. CASE PositiveLegs(draft)
    <2> \A c \in Currencies : Net64(draft, c) = Net(draft, c) BY <1>3, SumsAreExact
    <2> QED BY <1>1, <1>2 DEF Validate64, Validate
  <1>4. CASE ~ PositiveLegs(draft)
    BY <1>4 DEF PositiveLegs, Validate64, Validate
  <1> QED BY <1>3, <1>4

LEMMA RangesAgree ==
    ASSUME TypeOK, SumsFit, Validate64(draft)
    PROVE  /\ InRange(draft) <=> ExactlyInRange(draft)
           /\ \A a \in Accounts : balances[a] + Delta64(draft, a)
                                    = ApplyBalances(balances, draft)[a]
PROOF
  <1> PositiveLegs(draft) BY DEF Validate64, PositiveLegs
  <1> \A a \in Accounts : Delta64(draft, a) = Delta(draft, a) BY SumsAreExact
  <1> QED BY DEF InRange, ExactlyInRange, ApplyBalances

LEMMA ExactSteps == ASSUME TypeOK, SumsFit PROVE StepsAreExact
PROOF
  <1>1. ASSUME Post PROVE ExactPost
    <2>1. Validate64(draft) /\ InRange(draft) BY <1>1 DEF Post, Upsert
    <2>2. balances' = [a \in Accounts |-> balances[a] + Delta64(draft, a)]
      BY <1>1 DEF Post, Upsert
    <2>3. balances' = ApplyBalances(balances, draft)
      BY <2>1, <2>2, RangesAgree DEF ApplyBalances
    <2> QED BY <2>1, <2>3, ValidatesAgree, RangesAgree DEF ExactPost
  <1>2. ASSUME Refused PROVE ExactRefusal
    BY <1>2, ValidatesAgree, RangesAgree DEF Refused, ExactRefusal
  <1> QED BY <1>1, <1>2 DEF StepsAreExact

\* Where MaxLegs amounts of a caller fit an int64, the fixed-width engine posts
\* only what Validate accepts in mathematical integers, moves the balances as
\* ApplyBalances does, and refuses only what that Validate or the bigint
\* column refuses (Post, applyBalances): LedgerData's integers lose nothing.
THEOREM FixedWidthImplementsExact == SumsFit => (Spec => [][StepsAreExact]_vars)
PROOF
  <1> SUFFICES ASSUME SumsFit PROVE Spec => [][StepsAreExact]_vars OBVIOUS
  <1>1. TypeOK /\ [Next]_vars => [StepsAreExact]_vars BY ExactSteps
  <1> QED BY <1>1, Transfer64TypeCorrect, PTL DEF Spec

=============================================================================
