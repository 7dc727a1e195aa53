-------------------------- MODULE LedgerDataProofs ---------------------------
(***************************************************************************)
(* The lemmas the component proofs share.  First what the sums of module   *)
(* Sums are, for every family and every length: induction is over a set    *)
(* rather than over a predicate, because the library's induction theorems  *)
(* take an operator parameter, which the SMT backend cannot instantiate; a *)
(* set of naturals is an ordinary value.  Then facts about the ledger's    *)
(* data that are lifted from there.                                        *)
(***************************************************************************)
EXTENDS Verify, SequenceTheorems, WellFoundedInduction, TLAPS

\* Induction on the naturals, for a set S.
LEMMA NatSetInduction ==
    ASSUME NEW S, 0 \in S, \A n \in Nat : n \in S => n + 1 \in S
    PROVE  Nat \subseteq S
PROOF
  <1> DEFINE Missing == Nat \ S
  <1>1. SUFFICES ASSUME Missing # {} PROVE FALSE
    OBVIOUS
  <1>2. PICK m \in Missing : \A k \in Missing : ~ (<<k, m>> \in OpToRel(<, Nat))
    <2> HIDE DEF Missing
    <2> Missing \subseteq Nat BY DEF Missing
    <2> QED BY <1>1, NatLessThanWellFounded, WFMin
  <1>3. \A k \in Missing : ~ (k < m)
    BY <1>2 DEF OpToRel
  <1>4. m - 1 \in Nat /\ m - 1 \in S
    BY <1>3
  <1> QED BY <1>4

\* g is the initial segment, up to n, of the partial sums of f.
Segment(f, n, g) ==
    g = [i \in 0 .. n |-> IF i = 0 THEN 0 ELSE g[i - 1] + f[i]]

\* Every initial segment exists ...
LEMMA SegmentExists ==
    ASSUME NEW f PROVE \A n \in Nat : \E g : Segment(f, n, g)
PROOF
  <1> DEFINE S == {n \in Nat : \E g : Segment(f, n, g)}
  <1>1. 0 \in S
    <2> Segment(f, 0, [i \in 0 .. 0 |-> 0])
      BY DEF Segment
    <2> QED OBVIOUS
  <1>2. ASSUME NEW n \in Nat, n \in S PROVE n + 1 \in S
    <2> PICK g : Segment(f, n, g) BY <1>2
    <2> DEFINE h == [i \in 0 .. n + 1 |-> IF i = n + 1 THEN g[n] + f[n + 1] ELSE g[i]]
    <2>1. ASSUME NEW i \in 0 .. n + 1
          PROVE h[i] = IF i = 0 THEN 0 ELSE h[i - 1] + f[i]
      <3>1. CASE i = n + 1 BY <3>1
      <3>2. CASE i # n + 1
        <4> i \in 0 .. n BY <3>2
        <4> g[i] = IF i = 0 THEN 0 ELSE g[i - 1] + f[i] BY DEF Segment
        <4> QED BY <3>2
      <3> QED BY <3>1, <3>2
    <2> HIDE DEF h
    <2> h = [i \in 0 .. n + 1 |-> h[i]] BY DEF h
    <2> Segment(f, n + 1, h) BY <2>1 DEF Segment
    <2> QED OBVIOUS
  <1> HIDE DEF S
  <1>3. Nat \subseteq S BY <1>1, <1>2, NatSetInduction
  <1> QED BY <1>3 DEF S

\* ... and two segments agree where both are defined.
LEMMA SegmentsAgree ==
    ASSUME NEW f, NEW n \in Nat, NEW m \in Nat, n =< m,
           NEW g, NEW h, Segment(f, n, g), Segment(f, m, h)
    PROVE  \A i \in 0 .. n : g[i] = h[i]
PROOF
  <1> DEFINE S == {i \in Nat : i =< n => g[i] = h[i]}
  <1>1. 0 \in S BY DEF Segment
  <1>2. ASSUME NEW i \in Nat, i \in S PROVE i + 1 \in S
    <2> SUFFICES ASSUME i + 1 =< n PROVE g[i + 1] = h[i + 1] OBVIOUS
    <2>1. i + 1 \in 0 .. n /\ i + 1 \in 0 .. m /\ i + 1 # 0 /\ (i + 1) - 1 = i OBVIOUS
    <2>2. g[i + 1] = g[(i + 1) - 1] + f[i + 1] BY <2>1 DEF Segment
    <2>3. h[i + 1] = h[(i + 1) - 1] + f[i + 1] BY <2>1 DEF Segment
    <2> QED BY <1>2, <2>1, <2>2, <2>3
  <1> HIDE DEF S
  <1>3. Nat \subseteq S BY <1>1, <1>2, NatSetInduction
  <1> QED BY <1>3 DEF S

\* The recursive definition has a solution, so it is the one it appears to be.
LEMMA PartialSumsDef ==
    ASSUME NEW f
    PROVE  PartialSums(f) =
             [i \in Nat |-> IF i = 0 THEN 0 ELSE PartialSums(f)[i - 1] + f[i]]
PROOF
  <1> DEFINE G(n) == CHOOSE g : Segment(f, n, g)
             s == [n \in Nat |-> G(n)[n]]
  <1>1. \A n \in Nat : Segment(f, n, G(n)) BY SegmentExists
  <1>2. ASSUME NEW n \in Nat
        PROVE s[n] = IF n = 0 THEN 0 ELSE s[n - 1] + f[n]
    <2>0. Segment(f, n, G(n)) BY <1>1
    <2>1. G(n)[n] = IF n = 0 THEN 0 ELSE G(n)[n - 1] + f[n]
      <3> HIDE DEF G
      <3> n \in 0 .. n OBVIOUS
      <3> QED BY <2>0 DEF Segment
    <2>2. n # 0 => G(n)[n - 1] = G(n - 1)[n - 1]
      <3> SUFFICES ASSUME n # 0 PROVE G(n)[n - 1] = G(n - 1)[n - 1] OBVIOUS
      <3>1. n - 1 \in Nat /\ n - 1 =< n /\ n - 1 \in 0 .. n - 1 OBVIOUS
      <3>2. Segment(f, n - 1, G(n - 1)) BY <1>1, <3>1
      <3> HIDE DEF G
      <3> QED BY <2>0, <3>1, <3>2, SegmentsAgree
    <2> QED BY <2>1, <2>2
  <1>3. s = [i \in Nat |-> IF i = 0 THEN 0 ELSE s[i - 1] + f[i]]
    <2> HIDE DEF G
    <2> s = [i \in Nat |-> s[i]] OBVIOUS
    <2> HIDE DEF s
    <2> QED BY <1>2
  <1> HIDE DEF s, G
  <1> QED BY <1>3 DEF PartialSums

-----------------------------------------------------------------------------
\* The two equations of a sum.
LEMMA SumStep ==
    ASSUME NEW f
    PROVE  /\ SumTo(f, 0) = 0
           /\ \A n \in Nat : SumTo(f, n + 1) = SumTo(f, n) + f[n + 1]
PROOF
  <1> DEFINE s == PartialSums(f)
  <1>1. s = [i \in Nat |-> IF i = 0 THEN 0 ELSE s[i - 1] + f[i]] BY PartialSumsDef
  <1> HIDE DEF s
  <1>2. s[0] = 0 BY <1>1
  <1>3. ASSUME NEW n \in Nat PROVE s[n + 1] = s[n] + f[n + 1]
    <2> n + 1 \in Nat /\ n + 1 # 0 /\ (n + 1) - 1 = n OBVIOUS
    <2> QED BY <1>1
  <1> QED BY <1>2, <1>3 DEF s, SumTo

\* A sum of integers is an integer.
LEMMA SumType ==
    ASSUME NEW f, NEW n \in Nat, \A i \in 1 .. n : f[i] \in Int
    PROVE  SumTo(f, n) \in Int
PROOF
  <1> DEFINE S == {k \in Nat : k =< n => SumTo(f, k) \in Int}
  <1>1. 0 \in S BY SumStep
  <1>2. ASSUME NEW k \in Nat, k \in S PROVE k + 1 \in S
    BY <1>2, SumStep
  <1> HIDE DEF S
  <1>3. Nat \subseteq S BY <1>1, <1>2, NatSetInduction
  <1> QED BY <1>3 DEF S

\* A sum depends only on the terms it adds.
LEMMA SumCong ==
    ASSUME NEW f, NEW g, NEW n \in Nat, \A i \in 1 .. n : f[i] = g[i]
    PROVE  SumTo(f, n) = SumTo(g, n)
PROOF
  <1> DEFINE S == {k \in Nat : k =< n => SumTo(f, k) = SumTo(g, k)}
  <1>1. 0 \in S BY SumStep
  <1>2. ASSUME NEW k \in Nat, k \in S PROVE k + 1 \in S
    <2> SUFFICES ASSUME k + 1 =< n PROVE SumTo(f, k + 1) = SumTo(g, k + 1) OBVIOUS
    <2>1. SumTo(f, k) = SumTo(g, k) /\ f[k + 1] = g[k + 1] BY <1>2
    <2> QED BY <2>1, SumStep
  <1> HIDE DEF S
  <1>3. Nat \subseteq S BY <1>1, <1>2, NatSetInduction
  <1> QED BY <1>3 DEF S

\* A sum of zeros is zero.
LEMMA SumAllZero ==
    ASSUME NEW f, NEW n \in Nat, \A i \in 1 .. n : f[i] = 0
    PROVE  SumTo(f, n) = 0
PROOF
  <1> DEFINE S == {k \in Nat : k =< n => SumTo(f, k) = 0}
  <1>1. 0 \in S BY SumStep
  <1>2. ASSUME NEW k \in Nat, k \in S PROVE k + 1 \in S
    BY <1>2, SumStep
  <1> HIDE DEF S
  <1>3. Nat \subseteq S BY <1>1, <1>2, NatSetInduction
  <1> QED BY <1>3 DEF S

\* Sums add pointwise.
LEMMA SumAdd ==
    ASSUME NEW f, NEW g, NEW h, NEW n \in Nat,
           \A i \in 1 .. n : f[i] \in Int /\ g[i] \in Int /\ h[i] = f[i] + g[i]
    PROVE  SumTo(h, n) = SumTo(f, n) + SumTo(g, n)
PROOF
  <1> DEFINE S == {k \in Nat : k =< n =>
                     /\ SumTo(f, k) \in Int /\ SumTo(g, k) \in Int
                     /\ SumTo(h, k) = SumTo(f, k) + SumTo(g, k)}
  <1>1. 0 \in S BY SumStep
  <1>2. ASSUME NEW k \in Nat, k \in S PROVE k + 1 \in S
    <2> SUFFICES ASSUME k + 1 =< n
                 PROVE  /\ SumTo(f, k + 1) \in Int /\ SumTo(g, k + 1) \in Int
                        /\ SumTo(h, k + 1) = SumTo(f, k + 1) + SumTo(g, k + 1)
      OBVIOUS
    <2>1. /\ SumTo(f, k) \in Int /\ SumTo(g, k) \in Int
          /\ SumTo(h, k) = SumTo(f, k) + SumTo(g, k)
      BY <1>2
    <2>2. f[k + 1] \in Int /\ g[k + 1] \in Int /\ h[k + 1] = f[k + 1] + g[k + 1]
      OBVIOUS
    <2> QED BY <2>1, <2>2, SumStep
  <1> HIDE DEF S
  <1>3. Nat \subseteq S BY <1>1, <1>2, NatSetInduction
  <1> QED BY <1>3 DEF S

\* A larger family has a larger sum.
LEMMA SumMono ==
    ASSUME NEW f, NEW g, NEW n \in Nat,
           \A i \in 1 .. n : f[i] \in Int /\ g[i] \in Int /\ f[i] =< g[i]
    PROVE  SumTo(f, n) =< SumTo(g, n)
PROOF
  <1> DEFINE d == [i \in 1 .. n |-> g[i] - f[i]]
             S == {k \in Nat : k =< n => SumTo(d, k) \in Int /\ SumTo(d, k) >= 0}
  <1>1. 0 \in S BY SumStep
  <1>2. ASSUME NEW k \in Nat, k \in S PROVE k + 1 \in S
    <2> SUFFICES ASSUME k + 1 =< n
                 PROVE  SumTo(d, k + 1) \in Int /\ SumTo(d, k + 1) >= 0
      OBVIOUS
    <2>1. SumTo(d, k) \in Int /\ SumTo(d, k) >= 0 BY <1>2
    <2>2. d[k + 1] \in Int /\ d[k + 1] >= 0 OBVIOUS
    <2> HIDE DEF d
    <2> QED BY <2>1, <2>2, SumStep
  <1>3. \A i \in 1 .. n : f[i] \in Int /\ d[i] \in Int /\ g[i] = f[i] + d[i] OBVIOUS
  <1> HIDE DEF S
  <1>4. Nat \subseteq S BY <1>1, <1>2, NatSetInduction
  <1>5. SumTo(d, n) \in Int /\ SumTo(d, n) >= 0 BY <1>4 DEF S
  <1> HIDE DEF d
  <1>6. SumTo(g, n) = SumTo(f, n) + SumTo(d, n) BY <1>3, SumAdd
  <1>7. SumTo(f, n) \in Int BY SumType
  <1> QED BY <1>5, <1>6, <1>7

\* Changing one term changes the sum by the difference.
LEMMA SumUpdate ==
    ASSUME NEW f, NEW g, NEW n \in Nat, NEW k \in 1 .. n,
           \A i \in 1 .. n : f[i] \in Int /\ g[i] \in Int,
           \A i \in 1 .. n : i # k => g[i] = f[i]
    PROVE  SumTo(g, n) = SumTo(f, n) + g[k] - f[k]
PROOF
  <1> DEFINE S == {m \in Nat : m =< n =>
                     /\ SumTo(f, m) \in Int
                     /\ SumTo(g, m) = SumTo(f, m) + (IF k =< m THEN g[k] - f[k] ELSE 0)}
  <1>1. 0 \in S BY SumStep
  <1>2. ASSUME NEW m \in Nat, m \in S PROVE m + 1 \in S
    <2> SUFFICES ASSUME m + 1 =< n
                 PROVE  /\ SumTo(f, m + 1) \in Int
                        /\ SumTo(g, m + 1) =
                             SumTo(f, m + 1) + (IF k =< m + 1 THEN g[k] - f[k] ELSE 0)
      OBVIOUS
    <2>1. /\ SumTo(f, m) \in Int
          /\ SumTo(g, m) = SumTo(f, m) + (IF k =< m THEN g[k] - f[k] ELSE 0)
      BY <1>2
    <2>2. /\ SumTo(f, m + 1) = SumTo(f, m) + f[m + 1]
          /\ SumTo(g, m + 1) = SumTo(g, m) + g[m + 1]
      BY SumStep
    <2>3. f[k] \in Int /\ g[k] \in Int OBVIOUS
    <2>4. CASE m + 1 = k BY <2>1, <2>2, <2>3, <2>4
    <2>5. CASE m + 1 # k
      <3> m + 1 \in 1 .. n OBVIOUS
      <3> g[m + 1] = f[m + 1] /\ f[m + 1] \in Int BY <2>5
      <3> (k =< m) <=> (k =< m + 1) BY <2>5
      <3> QED BY <2>1, <2>2, <2>3
    <2> QED BY <2>4, <2>5
  <1> HIDE DEF S
  <1>3. Nat \subseteq S BY <1>1, <1>2, NatSetInduction
  <1>4. /\ SumTo(f, n) \in Int
        /\ SumTo(g, n) = SumTo(f, n) + (g[k] - f[k])
    BY <1>3 DEF S
  <1>5. f[k] \in Int /\ g[k] \in Int OBVIOUS
  <1> QED BY <1>4, <1>5

\* Summing a table by rows or by columns gives the same total.
LEMMA SumSwap ==
    ASSUME NEW n \in Nat, NEW m \in Nat, NEW F,
           \A i \in 1 .. n, j \in 1 .. m : F[i][j] \in Int
    PROVE  SumTo([i \in 1 .. n |-> SumTo([j \in 1 .. m |-> F[i][j]], m)], n) =
           SumTo([j \in 1 .. m |-> SumTo([i \in 1 .. n |-> F[i][j]], n)], m)
PROOF
  <1> DEFINE RowSums(k) == [i \in 1 .. n |-> SumTo([j \in 1 .. m |-> F[i][j]], k)]
             Col == [j \in 1 .. m |-> SumTo([i \in 1 .. n |-> F[i][j]], n)]
             S == {k \in Nat : k =< m => SumTo(RowSums(k), n) = SumTo(Col, k)}
  <1>1. 0 \in S
    <2> \A i \in 1 .. n : RowSums(0)[i] = 0 BY SumStep
    <2> HIDE DEF RowSums
    <2> SumTo(RowSums(0), n) = 0 BY SumAllZero
    <2> SumTo(Col, 0) = 0 BY SumStep
    <2> QED OBVIOUS
  <1>2. ASSUME NEW k \in Nat, k \in S PROVE k + 1 \in S
    <2> SUFFICES ASSUME k + 1 =< m PROVE SumTo(RowSums(k + 1), n) = SumTo(Col, k + 1)
      OBVIOUS
    <2> DEFINE c == [i \in 1 .. n |-> F[i][k + 1]]
    <2>1. k + 1 \in 1 .. m OBVIOUS
    <2>2. ASSUME NEW i \in 1 .. n
          PROVE  RowSums(k)[i] \in Int /\ c[i] \in Int /\ RowSums(k + 1)[i] = RowSums(k)[i] + c[i]
      <3> DEFINE r == [j \in 1 .. m |-> F[i][j]]
      <3>1. r[k + 1] = c[i] /\ \A j \in 1 .. k : r[j] \in Int BY <2>1
      <3>2. RowSums(k)[i] = SumTo(r, k) /\ RowSums(k + 1)[i] = SumTo(r, k + 1) OBVIOUS
      <3>3. c[i] \in Int BY <2>1
      <3> HIDE DEF r, RowSums, c
      <3>4. SumTo(r, k) \in Int BY <3>1, SumType
      <3>5. SumTo(r, k + 1) = SumTo(r, k) + r[k + 1] BY SumStep
      <3> QED BY <3>1, <3>2, <3>3, <3>4, <3>5
    <2>3. Col[k + 1] = SumTo(c, n) BY <2>1
    <2>4. SumTo(RowSums(k), n) = SumTo(Col, k) BY <1>2
    <2> HIDE DEF RowSums, Col, c
    <2>5. SumTo(RowSums(k + 1), n) = SumTo(RowSums(k), n) + SumTo(c, n) BY <2>2, SumAdd
    <2>6. SumTo(Col, k + 1) = SumTo(Col, k) + Col[k + 1] BY SumStep
    <2> QED BY <2>3, <2>4, <2>5, <2>6
  <1> HIDE DEF S
  <1>3. Nat \subseteq S BY <1>1, <1>2, NatSetInduction
  <1>4. SumTo(RowSums(m), n) = SumTo(Col, m) BY <1>3 DEF S
  <1> QED BY <1>4

-----------------------------------------------------------------------------
\* The stored amount of a leg is an integer.
LEMMA SignedType ==
    ASSUME NEW p, p.amount \in Int PROVE Signed(p) \in Int
BY DEF Signed

\* A transfer moves each account by an integer, and not at all if it does not
\* touch it.
LEMMA DeltaFacts ==
    ASSUME NEW t, t.postings \in Seq(Posting), NEW a
    PROVE  /\ Delta(t, a) \in Int
           /\ a \notin Touched(t) => Delta(t, a) = 0
PROOF
  <1> DEFINE n == Len(t.postings)
             f == [i \in 1 .. n |-> IF t.postings[i].account = a
                                     THEN Signed(t.postings[i]) ELSE 0]
  <1>1. n \in Nat /\ \A i \in 1 .. n : t.postings[i] \in Posting
    BY LenProperties, ElementOfSeq
  <1>2. \A i \in 1 .. n : t.postings[i].amount \in Int BY <1>1 DEF Posting
  <1>3. \A i \in 1 .. n : f[i] \in Int BY <1>2, SignedType
  <1>4. ASSUME a \notin Touched(t) PROVE \A i \in 1 .. n : f[i] = 0
    BY <1>4 DEF Touched
  <1>5. Delta(t, a) = SumTo(f, n) BY DEF Delta
  <1> HIDE DEF f, n
  <1>6. SumTo(f, n) \in Int BY <1>1, <1>3, SumType
  <1>7. ASSUME a \notin Touched(t) PROVE SumTo(f, n) = 0
    BY <1>1, <1>4, <1>7, SumAllZero
  <1> QED BY <1>5, <1>6, <1>7

\* Delta and Net depend only on the postings, so a row moves what its transfer
\* moves.
LEMMA SamePostings ==
    ASSUME NEW t, NEW u, t.postings = u.postings
    PROVE  /\ \A a : Delta(t, a) = Delta(u, a)
           /\ \A c : Net(t, c) = Net(u, c)
           /\ Touched(t) = Touched(u)
           /\ \A a : Spent(t, a) = Spent(u, a)
BY DEF Delta, Net, Touched, Spent

\* A raw transfer that passes Validate and the account checks is well-typed.
LEMMA AcceptedIsTyped ==
    ASSUME NEW t \in RawTransfer, NEW accs, Validate(t), AccountsAccept(accs, t)
    PROVE  t \in Transfer
PROOF
  <1> DEFINE ps == t.postings
  <1>1. ps \in Seq(RawPosting) /\ t.reference \in STRING /\ t.reverses \in Nat
    BY DEF RawTransfer
  <1>2. Len(ps) \in Nat /\ ps = [i \in 1 .. Len(ps) |-> ps[i]]
        /\ \A i \in 1 .. Len(ps) : ps[i] \in RawPosting
    BY <1>1, LenProperties, ElementOfSeq
  <1>3. \A i \in 1 .. Len(ps) : ps[i] \in Posting
    BY <1>2 DEF RawPosting, Posting, Validate, AccountsAccept
  <1>4. ps \in [1 .. Len(ps) -> Posting] BY <1>2, <1>3
  <1>5. ps \in Seq(Posting) BY <1>2, <1>4, SeqDef
  <1> QED BY <1>1, <1>5 DEF RawTransfer, Transfer

\* The reversal of a row is a transfer.
LEMMA ReversalIsTransfer ==
    ASSUME NEW row \in RowType, NEW k \in Nat, NEW ref \in STRING
    PROVE  /\ Reversal(row, k, ref) \in Transfer
           /\ Transfer \subseteq RawTransfer
PROOF
  <1> DEFINE ps == row.postings
             qs == [i \in 1 .. Len(ps) |-> Flip(ps[i])]
  <1>1. ps \in Seq(Posting) BY DEF RowType
  <1>2. Len(ps) \in Nat /\ \A i \in 1 .. Len(ps) : ps[i] \in Posting
    BY <1>1, LenProperties, ElementOfSeq
  <1>3. \A i \in 1 .. Len(ps) : Flip(ps[i]) \in Posting
    BY <1>2 DEF Posting, Flip, Directions
  <1>4. qs \in [1 .. Len(ps) -> Posting] BY <1>3
  <1>5. qs \in Seq(Posting) BY <1>2, <1>4, SeqDef
  <1>6. Reversal(row, k, ref) \in Transfer BY <1>5 DEF Reversal, Transfer
  <1>7. Posting \subseteq RawPosting
    <2> SUFFICES ASSUME NEW p \in Posting PROVE p \in RawPosting OBVIOUS
    <2>1. p = [account |-> p.account, amount |-> p.amount, currency |-> p.currency,
               dir |-> p.dir]
      BY DEF Posting
    <2>2. p.account \in Nat BY BoundsAssumption DEF Posting, Accounts
    <2>3. p.amount \in Int BY DEF Posting
    <2>4. p.currency \in STRING BY BoundsAssumption DEF Posting
    <2>5. p.dir \in Directions BY DEF Posting
    <2> QED BY <2>1, <2>2, <2>3, <2>4, <2>5 DEF RawPosting
  <1>8. Seq(Posting) \subseteq Seq(RawPosting) BY <1>7, SeqMonotonic
  <1> QED BY <1>6, <1>8 DEF Transfer, RawTransfer

\* A hold row reserves a natural amount while it is active.
Reserved(hs, a, but) ==
    [h \in HoldRefs |-> IF hs[h].status = "active" /\ hs[h].account = a /\ h # but
                        THEN hs[h].amount ELSE 0]

LEMMA HeldIsSum ==
    ASSUME NEW hs \in [HoldRefs -> HoldRow], NEW a, NEW but
    PROVE  /\ Held(hs, a, but) = SumTo(Reserved(hs, a, but), NumHolds)
           /\ \A h \in 1 .. NumHolds : Reserved(hs, a, but)[h] \in Nat
           /\ Held(hs, a, but) \in Int
PROOF
  <1>1. \A h \in 1 .. NumHolds : Reserved(hs, a, but)[h] \in Nat
    BY DEF Reserved, HoldRefs, HoldRow
  <1>2. Held(hs, a, but) = SumTo(Reserved(hs, a, but), NumHolds)
    BY DEF Held, Reserved
  <1>3. SumTo(Reserved(hs, a, but), NumHolds) \in Int
    BY <1>1, BoundsAssumption, SumType
  <1> QED BY <1>1, <1>2, <1>3

\* Holds on account a that only stop reserving, or are left alone, reserve less.
LEMMA HeldShrinks ==
    ASSUME NEW hs \in [HoldRefs -> HoldRow], NEW gs \in [HoldRefs -> HoldRow],
           NEW a, NEW but,
           \A h \in HoldRefs :
              gs[h].status = "active" /\ gs[h].account = a => gs[h] = hs[h]
    PROVE  Held(gs, a, but) =< Held(hs, a, but)
PROOF
  <1> DEFINE f == Reserved(gs, a, but)
             g == Reserved(hs, a, but)
  <1>1. \A h \in 1 .. NumHolds : f[h] \in Int /\ g[h] \in Int BY HeldIsSum
  <1>2. ASSUME NEW h \in 1 .. NumHolds PROVE f[h] =< g[h]
    <2>0. h \in HoldRefs BY DEF HoldRefs
    <2>1. CASE gs[h].status = "active" /\ gs[h].account = a
      <3> gs[h] = hs[h] BY <2>0, <2>1
      <3> f[h] = g[h] BY <2>0 DEF Reserved
      <3> QED BY <1>1
    <2>2. CASE ~ (gs[h].status = "active" /\ gs[h].account = a)
      <3> f[h] = 0 BY <2>0, <2>2 DEF Reserved
      <3> g[h] \in Nat BY HeldIsSum
      <3> QED OBVIOUS
    <2> QED BY <2>1, <2>2
  <1> HIDE DEF f, g
  <1>3. SumTo(f, NumHolds) =< SumTo(g, NumHolds)
    BY <1>1, <1>2, BoundsAssumption, SumMono
  <1> QED BY <1>3, HeldIsSum DEF f, g

\* What the guard found for a transfer stays true while the balances it touches
\* stay and no hold is placed on the accounts it touches.
LEMMA CoveredStays ==
    ASSUME NEW t, t.postings \in Seq(Posting), NEW x,
           NEW bal \in [Accounts -> Int], NEW bal2 \in [Accounts -> Int],
           NEW hs \in [HoldRefs -> HoldRow], NEW gs \in [HoldRefs -> HoldRow],
           Touched(t) \subseteq Accounts,
           \A a \in Touched(t) : bal2[a] = bal[a],
           \A h \in HoldRefs :
              gs[h].status = "active" /\ gs[h].account \in Touched(t) => gs[h] = hs[h],
           Covered(bal, hs, t, x)
    PROVE  Covered(bal2, gs, t, x)
PROOF
  <1> SUFFICES ASSUME NEW a \in Touched(t), ~ Chart[a].allowNegative
               PROVE  AvailableLocked(ApplyBalances(bal2, t), gs, a, x) >= 0
    BY DEF Covered
  <1>1. a \in Accounts /\ bal2[a] = bal[a] OBVIOUS
  <1>2. Held(gs, a, x) =< Held(hs, a, x) BY HeldShrinks
  <1>3. Held(gs, a, x) \in Int /\ Held(hs, a, x) \in Int BY HeldIsSum
  <1>4. Delta(t, a) \in Int BY DeltaFacts
  <1>5. ApplyBalances(bal2, t)[a] = ApplyBalances(bal, t)[a]
        /\ ApplyBalances(bal, t)[a] \in Int
    BY <1>1, <1>4 DEF ApplyBalances
  <1>6. Normalise(ApplyBalances(bal, t)[a], a) - Held(hs, a, x) >= 0
    BY DEF Covered, AvailableLocked
  <1>7. Normalise(ApplyBalances(bal, t)[a], a) \in Int BY <1>5 DEF Normalise
  <1>8. Normalise(ApplyBalances(bal2, t)[a], a) = Normalise(ApplyBalances(bal, t)[a], a)
    BY <1>5 DEF Normalise
  <1> QED BY <1>2, <1>3, <1>6, <1>7, <1>8 DEF AvailableLocked

\* The available balance does not fall while the balance stays and no hold is
\* placed on the account.
LEMMA AvailableStays ==
    ASSUME NEW bal \in [Accounts -> Int], NEW bal2 \in [Accounts -> Int],
           NEW hs \in [HoldRefs -> HoldRow], NEW gs \in [HoldRefs -> HoldRow],
           NEW a \in Accounts, bal2[a] = bal[a],
           \A h \in HoldRefs :
              gs[h].status = "active" /\ gs[h].account = a => gs[h] = hs[h],
           NEW amount \in Int, AvailableLocked(bal, hs, a, 0) >= amount
    PROVE  AvailableLocked(bal2, gs, a, 0) >= amount
PROOF
  <1>1. Held(gs, a, 0) =< Held(hs, a, 0) BY HeldShrinks
  <1>2. Held(gs, a, 0) \in Int /\ Held(hs, a, 0) \in Int BY HeldIsSum
  <1>3. Normalise(bal[a], a) \in Int BY DEF Normalise
  <1>4. Normalise(bal[a], a) - Held(hs, a, 0) >= amount BY DEF AvailableLocked
  <1> QED BY <1>1, <1>2, <1>3, <1>4 DEF AvailableLocked

\* Closing hold x, or excluding it, leaves the same reservations.
LEMMA HeldClosed ==
    ASSUME NEW hs \in [HoldRefs -> HoldRow], NEW gs \in [HoldRefs -> HoldRow],
           NEW a, NEW x, x \in HoldRefs => gs[x].status # "active",
           0 \notin HoldRefs, \A h \in HoldRefs : h # x => gs[h] = hs[h]
    PROVE  Held(gs, a, 0) = Held(hs, a, x)
PROOF
  <1> \A h \in HoldRefs : Reserved(gs, a, 0)[h] = Reserved(hs, a, x)[h]
    BY DEF Reserved
  <1> Reserved(gs, a, 0) = Reserved(hs, a, x) BY DEF Reserved
  <1> QED BY HeldIsSum

\* Placing hold x adds its amount to the account's reservations and no other's.
LEMMA HeldPlaced ==
    ASSUME NEW hs \in [HoldRefs -> HoldRow], NEW gs \in [HoldRefs -> HoldRow],
           NEW a, NEW x \in HoldRefs,
           hs[x].status # "active", gs[x].status = "active", 0 \notin HoldRefs,
           \A h \in HoldRefs : h # x => gs[h] = hs[h]
    PROVE  Held(gs, a, 0) =
             Held(hs, a, 0) + (IF gs[x].account = a THEN gs[x].amount ELSE 0)
PROOF
  <1> DEFINE f == Reserved(hs, a, 0)
             g == Reserved(gs, a, 0)
  <1>1. \A h \in 1 .. NumHolds : f[h] \in Int /\ g[h] \in Int BY HeldIsSum
  <1>2. \A h \in 1 .. NumHolds : h # x => g[h] = f[h] BY DEF Reserved, HoldRefs
  <1>3. f[x] = 0 /\ g[x] = IF gs[x].account = a THEN gs[x].amount ELSE 0
    BY DEF Reserved
  <1>4. x \in 1 .. NumHolds BY DEF HoldRefs
  <1>5. Held(hs, a, 0) = SumTo(f, NumHolds) /\ Held(gs, a, 0) = SumTo(g, NumHolds)
        /\ Held(hs, a, 0) \in Int
    BY HeldIsSum
  <1> HIDE DEF f, g
  <1>6. SumTo(g, NumHolds) = SumTo(f, NumHolds) + g[x] - f[x]
    BY <1>1, <1>2, <1>4, BoundsAssumption, SumUpdate
  <1>7. g[x] \in Int BY <1>1, <1>4
  <1>8. SumTo(g, NumHolds) = SumTo(f, NumHolds) + g[x] BY <1>3, <1>5, <1>6, <1>7
  <1> QED BY <1>3, <1>5, <1>8

\* A reversal moves every account back by what the original moved it.
LEMMA ReversalDelta ==
    ASSUME NEW t, t.postings \in Seq(Posting), NEW k, NEW ref, NEW a
    PROVE  Delta(Reversal(t, k, ref), a) = -Delta(t, a)
PROOF
  <1> DEFINE ps == t.postings
             n == Len(ps)
             qs == [i \in 1 .. n |-> Flip(ps[i])]
             f == [i \in 1 .. n |-> IF ps[i].account = a THEN Signed(ps[i]) ELSE 0]
             g == [i \in 1 .. n |-> IF qs[i].account = a THEN Signed(qs[i]) ELSE 0]
             z == [i \in 1 .. n |-> 0]
  <1>1. n \in Nat /\ \A i \in 1 .. n : ps[i] \in Posting
    BY LenProperties, ElementOfSeq
  <1>2. ASSUME NEW i \in 1 .. n
        PROVE  f[i] \in Int /\ g[i] \in Int /\ z[i] = f[i] + g[i]
    <2>1. ps[i].amount \in Int /\ ps[i].dir \in Directions BY <1>1 DEF Posting
    <2>2. /\ qs[i].account = ps[i].account /\ qs[i].amount = ps[i].amount
          /\ qs[i].dir = IF ps[i].dir = "credit" THEN "debit" ELSE "credit"
      BY DEF Flip
    <2>3. Signed(qs[i]) = -Signed(ps[i]) /\ Signed(ps[i]) \in Int
      BY <2>1, <2>2 DEF Signed, Directions
    <2>4. f[i] = (IF ps[i].account = a THEN Signed(ps[i]) ELSE 0)
          /\ g[i] = (IF ps[i].account = a THEN Signed(qs[i]) ELSE 0) /\ z[i] = 0
      BY <2>2
    <2> HIDE DEF f, g, qs, z
    <2> QED BY <2>3, <2>4
  <1>3. Delta(t, a) = SumTo(f, n) BY DEF Delta
  <1>4. Len(qs) = n BY <1>1
  <1>5. Delta(Reversal(t, k, ref), a) = SumTo(g, n)
    <2> Reversal(t, k, ref).postings = qs BY DEF Reversal
    <2> HIDE DEF qs
    <2> QED BY <1>4 DEF Delta
  <1>6. \A i \in 1 .. n : z[i] = 0 OBVIOUS
  <1> HIDE DEF f, g, z, n, qs
  <1>7. SumTo(z, n) = SumTo(f, n) + SumTo(g, n) BY <1>1, <1>2, SumAdd
  <1>8. SumTo(z, n) = 0 BY <1>1, <1>6, SumAllZero
  <1>9. SumTo(f, n) \in Int /\ SumTo(g, n) \in Int BY <1>1, <1>2, SumType
  <1> QED BY <1>3, <1>5, <1>7, <1>8, <1>9

\* A valid transfer whose accounts exist moves the trial balance of a currency
\* by its net in that currency: each leg lands on exactly one account.
LEMMA TransferTrialBalance ==
    ASSUME NEW t, t.postings \in Seq(Posting), NEW accs, AccountsAccept(accs, t),
           NEW c
    PROVE  SumTo([a \in Accounts |-> IF accs[a] # "none" /\ Chart[a].currency = c
                                      THEN Delta(t, a) ELSE 0], NumAccounts)
           = Net(t, c)
PROOF
  <1> DEFINE ps == t.postings
             m == Len(ps)
             n == NumAccounts
             In(a) == accs[a] # "none" /\ Chart[a].currency = c
             F == [a \in 1 .. n |-> [i \in 1 .. m |->
                     IF In(a) /\ ps[i].account = a THEN Signed(ps[i]) ELSE 0]]
             rows == [a \in 1 .. n |-> SumTo([i \in 1 .. m |-> F[a][i]], m)]
             cols == [i \in 1 .. m |-> SumTo([a \in 1 .. n |-> F[a][i]], n)]
             total == [a \in Accounts |-> IF In(a) THEN Delta(t, a) ELSE 0]
             net == [i \in 1 .. m |-> IF ps[i].currency = c THEN Signed(ps[i]) ELSE 0]
  <1>1. m \in Nat /\ n \in Nat /\ \A i \in 1 .. m : ps[i] \in Posting
    BY LenProperties, ElementOfSeq, BoundsAssumption
  <1>2. \A i \in 1 .. m : Signed(ps[i]) \in Int BY <1>1, SignedType DEF Posting
  <1>3. \A a \in 1 .. n, i \in 1 .. m : F[a][i] \in Int BY <1>2
  <1>4. SumTo(rows, n) = SumTo(cols, m)
    <2> HIDE DEF F
    <2> QED BY <1>1, <1>3, SumSwap
  <1>5. ASSUME NEW a \in 1 .. n PROVE rows[a] = total[a]
    <2> DEFINE fa == [i \in 1 .. m |-> F[a][i]]
               da == [i \in 1 .. m |-> IF ps[i].account = a THEN Signed(ps[i]) ELSE 0]
    <2>1. rows[a] = SumTo(fa, m) OBVIOUS
    <2>2. Delta(t, a) = SumTo(da, m) BY DEF Delta
    <2>3. a \in Accounts BY DEF Accounts
    <2>4. \A i \in 1 .. m : fa[i] = IF In(a) /\ ps[i].account = a THEN Signed(ps[i]) ELSE 0
      OBVIOUS
    <2>5. CASE In(a)
      <3>1. \A i \in 1 .. m : fa[i] = da[i] BY <2>4, <2>5
      <3>2. total[a] = Delta(t, a) BY <2>3, <2>5
      <3> HIDE DEF fa, da, rows, total, In
      <3>3. SumTo(fa, m) = SumTo(da, m) BY <1>1, <3>1, SumCong
      <3> QED BY <2>1, <2>2, <3>2, <3>3
    <2>6. CASE ~ In(a)
      <3>1. \A i \in 1 .. m : fa[i] = 0 BY <2>4, <2>6
      <3>2. total[a] = 0 BY <2>3, <2>6
      <3> HIDE DEF fa, rows, total, In
      <3>3. SumTo(fa, m) = 0 BY <1>1, <3>1, SumAllZero
      <3> QED BY <2>1, <3>2, <3>3
    <2> QED BY <2>5, <2>6
  <1>6. ASSUME NEW i \in 1 .. m PROVE cols[i] = net[i]
    <2> DEFINE k == ps[i].account
               z == [a \in 1 .. n |-> 0]
               fi == [a \in 1 .. n |-> F[a][i]]
    <2>1. k \in 1 .. n /\ accs[k] = "open" /\ Chart[k].currency = ps[i].currency
      BY <1>1 DEF AccountsAccept, Accounts
    <2>2. fi[k] = net[i]
      <3>1. fi[k] = IF In(k) THEN Signed(ps[i]) ELSE 0 BY <2>1
      <3>2. In(k) <=> ps[i].currency = c BY <2>1
      <3> QED BY <3>1, <3>2
    <2>3. \A a \in 1 .. n : fi[a] \in Int /\ z[a] \in Int
      <3>1. \A a \in 1 .. n : fi[a] = F[a][i] OBVIOUS
      <3> HIDE DEF F, fi
      <3> QED BY <1>3, <3>1
    <2>4. \A a \in 1 .. n : a # k => fi[a] = z[a] OBVIOUS
    <2>5. \A a \in 1 .. n : z[a] = 0 OBVIOUS
    <2>6. cols[i] = SumTo(fi, n) OBVIOUS
    <2>7. fi[k] \in Int BY <2>1, <2>3
    <2> HIDE DEF fi, z, k, cols, net
    <2>8. SumTo(fi, n) = SumTo(z, n) + fi[k] - z[k] BY <1>1, <2>1, <2>3, <2>4, SumUpdate
    <2>9. SumTo(z, n) = 0 /\ z[k] = 0 BY <1>1, <2>1, <2>5, SumAllZero
    <2> QED BY <2>2, <2>6, <2>7, <2>8, <2>9
  <1>7. Net(t, c) = SumTo(net, m) BY DEF Net
  <1> HIDE DEF rows, cols, net, total, F, m, n
  <1>8. SumTo(rows, n) = SumTo(total, n) BY <1>1, <1>5, SumCong
  <1>9. SumTo(cols, m) = SumTo(net, m) BY <1>1, <1>6, SumCong
  <1>10. SumTo(total, n) = Net(t, c) BY <1>4, <1>7, <1>8, <1>9
  <1> QED BY <1>10 DEF total, n

=============================================================================
