---------------------------- MODULE AuditProofs -----------------------------
(***************************************************************************)
(* Verify raises no false alarm, for every ledger: its four checks read    *)
(* four snapshots, and each is silent on every snapshot posting leaves.    *)
(* What posting keeps is taken from BooksProofs, instantiated as Audit     *)
(* instantiates Books.                                                     *)
(***************************************************************************)
EXTENDS Audit, LedgerDataProofs

P == INSTANCE BooksProofs WITH accounts <- [a \in Accounts |-> "open"],
                               holds <- [h \in HoldRefs |-> NoHold]

\* What each of the four checks needs, whichever of them runs next.
SoundBooks ==
    P!TypeOK /\ P!SumZeroInv /\ P!BalancesMatchPostings /\ P!ChainIntact

Quiet == edit = NoEdit => SoundBooks /\ problems = {}

\* The two instances of Books speak of the same posts, and Audit's checks are
\* those of the instance the lemmas are about: all expand to one formula.
LEMMA SamePost == \A t \in Requests : B!Post(t) => P!Post(t)
BY DEF B!Post, P!Post, B!Write, P!Write, B!TailHash, P!TailHash, B!NoHash, P!NoHash,
       B!Row, P!Row, B!ChainDigest, P!ChainDigest, B!Validate, P!Validate,
       B!Directions, P!Directions, B!Net, P!Net, B!Delta, P!Delta, B!Signed, P!Signed,
       B!SumTo, P!SumTo, B!PartialSums, P!PartialSums, B!AccountsAccept, P!AccountsAccept,
       B!Accounts, P!Accounts, B!Unused, P!Unused, B!Covered, P!Covered,
       B!Touched, P!Touched, B!AvailableLocked, P!AvailableLocked, B!Held, P!Held,
       B!HoldRefs, P!HoldRefs, B!Normalise, P!Normalise, B!ApplyBalances, P!ApplyBalances

LEMMA SameChecks ==
    /\ \A trs : CheckTransfersBalance(trs) = P!CheckTransfersBalance(trs)
    /\ \A bal, trs :
          CheckBalancesMatchPostings(bal, trs) = P!CheckBalancesMatchPostings(bal, trs)
    /\ \A accs, bal : CheckTrialBalance(accs, bal) = P!CheckTrialBalance(accs, bal)
    /\ \A trs : CheckChain(trs) = P!CheckChain(trs)
PROOF
  <1>1. \A trs : CheckTransfersBalance(trs) = P!CheckTransfersBalance(trs)
    BY DEF CheckTransfersBalance, P!CheckTransfersBalance, Net, P!Net, Signed, P!Signed,
           SumTo, P!SumTo, PartialSums, P!PartialSums
  <1>2. \A bal, trs :
          CheckBalancesMatchPostings(bal, trs) = P!CheckBalancesMatchPostings(bal, trs)
    BY DEF CheckBalancesMatchPostings, P!CheckBalancesMatchPostings, PostingsTotal,
           P!PostingsTotal, Delta, P!Delta, Signed, P!Signed, Accounts, P!Accounts,
           SumTo, P!SumTo, PartialSums, P!PartialSums
  <1>3. \A accs, bal : CheckTrialBalance(accs, bal) = P!CheckTrialBalance(accs, bal)
    BY DEF CheckTrialBalance, P!CheckTrialBalance, TrialBalance, P!TrialBalance,
           Accounts, P!Accounts, SumTo, P!SumTo, PartialSums, P!PartialSums
  <1>4. \A trs : CheckChain(trs) = P!CheckChain(trs)
    BY DEF CheckChain, P!CheckChain, NoHash, P!NoHash, ChainDigest, P!ChainDigest,
           Content, P!Content
  <1> QED BY <1>1, <1>2, <1>3, <1>4

\* The assumptions under which BooksProofs proves its lemmas are this module's.
LEMMA SameAssumptions ==
    /\ Accounts = P!Accounts /\ HoldRefs = P!HoldRefs
    /\ RawTransfer = P!RawTransfer /\ HoldRequest = P!HoldRequest
BY DEF Accounts, P!Accounts, HoldRefs, P!HoldRefs, RawTransfer, P!RawTransfer,
       RawPosting, P!RawPosting, Directions, P!Directions, HoldRequest, P!HoldRequest

\* A post leaves nothing that one of the checks would report.
LEMMA PostIsSound ==
    ASSUME SoundBooks, NEW t \in Requests, B!Post(t)
    PROVE  SoundBooks'
PROOF
  <1>1. P!Post(t) BY SamePost
  <1>2. P!Next BY <1>1 DEF P!Next
  <1>3. [P!Next]_(P!vars) BY <1>2
  <1>4. P!TypeOK'
    BY <1>3, P!TypeStep, SameAssumptions, BoundsAssumption, ChartAssumption,
       RequestsAssumption DEF SoundBooks
  <1>5. P!SumZeroInv'
    BY <1>3, P!SumZeroStep, SameAssumptions, BoundsAssumption, ChartAssumption,
       RequestsAssumption DEF SoundBooks
  <1>6. P!BalancesMatchPostings'
    BY <1>3, P!BalancesStep, SameAssumptions, BoundsAssumption, ChartAssumption,
       RequestsAssumption DEF SoundBooks
  <1>7. P!ChainIntact'
    BY <1>3, P!ChainStep, SameAssumptions, BoundsAssumption, ChartAssumption,
       RequestsAssumption DEF SoundBooks
  <1> QED BY <1>4, <1>5, <1>6, <1>7 DEF SoundBooks

\* The empty ledger passes all four checks.
LEMMA QuietInit == Init => Quiet
PROOF
  <1> SUFFICES ASSUME Init PROVE SoundBooks BY DEF Init, Quiet
  <1>0. transfers = << >> /\ Len(transfers) = 0 /\ balances = [a \in Accounts |-> 0]
    BY DEF Init
  <1>1. P!TypeOK
    <2>1. << >> \in Seq(P!RowType) BY EmptySeq
    <2>2. NoHold \in P!HoldRow
      BY DEF NoHold, P!HoldRow
    <2> QED BY <1>0, <2>1, <2>2, SameAssumptions DEF P!TypeOK
  <1>2. P!SumZeroInv
    <2>1. CheckTransfersBalance(transfers) = {} BY <1>0 DEF CheckTransfersBalance
    <2>2. ASSUME NEW c \in Currencies
          PROVE  TrialBalance([a \in Accounts |-> "open"], balances, c) = 0
      BY <1>0, SumAllZero, BoundsAssumption DEF TrialBalance, Accounts
    <2>3. CheckTrialBalance([a \in Accounts |-> "open"], balances) = {}
      BY <2>2 DEF CheckTrialBalance
    <2>4. P!SumZero BY <2>1, <2>3, SameChecks DEF P!SumZero
    <2>5. P!UnopenedIsEmpty BY SameAssumptions DEF P!UnopenedIsEmpty
    <2> QED BY <2>4, <2>5 DEF P!SumZeroInv
  <1>3. P!BalancesMatchPostings
    <2>1. ASSUME NEW a \in Accounts PROVE PostingsTotal(transfers, a) = 0
      BY <1>0, SumAllZero DEF PostingsTotal
    <2>2. CheckBalancesMatchPostings(balances, transfers) = {}
      BY <1>0, <2>1 DEF CheckBalancesMatchPostings
    <2> QED BY <2>2, SameChecks DEF P!BalancesMatchPostings
  <1>4. P!ChainIntact
    <2>1. CheckChain(transfers) = {} BY <1>0 DEF CheckChain
    <2> QED BY <2>1, SameChecks DEF P!ChainIntact
  <1> QED BY <1>1, <1>2, <1>3, <1>4 DEF SoundBooks

\* Neither a post between two checks nor a check adds a problem to the report.
LEMMA QuietStep == Quiet /\ [Next]_vars => Quiet'
PROOF
  <1> SUFFICES ASSUME Quiet, [Next]_vars, edit' = NoEdit PROVE SoundBooks' /\ problems' = {}
    BY DEF Quiet
  <1>1. CASE UNCHANGED vars
    BY <1>1 DEF vars, tables, Quiet, SoundBooks, P!TypeOK, P!SumZeroInv, P!SumZero,
       P!UnopenedIsEmpty, P!BalancesMatchPostings, P!ChainIntact
  <1>2. ASSUME NEW t \in Requests, Post(t) PROVE SoundBooks' /\ problems' = {}
    <2>1. SoundBooks /\ B!Post(t) /\ problems' = {} BY <1>2 DEF Post, Quiet
    <2> QED BY <2>1, PostIsSound
  <1>3. CASE Edits
    <2>1. edit = NoEdit => edit' # NoEdit
      BY <1>3 DEF Edits, EditBalance, EditReference, DeleteTransfer, AddPosting, EditAmount,
       EditAccount, Edit, NoEdit
    <2>2. edit = NoEdit
      BY <1>3 DEF Edits, EditBalance, EditReference, DeleteTransfer, AddPosting, EditAmount,
       EditAccount, Edit, NoEdit
    <2> QED BY <2>1, <2>2
  <1>4. CASE StartVerify
    <2>1. edit = NoEdit /\ problems' = {} /\ UNCHANGED tables BY <1>4 DEF StartVerify
    <2> QED BY <2>1 DEF tables, Quiet, SoundBooks, P!TypeOK, P!SumZeroInv, P!SumZero,
       P!UnopenedIsEmpty, P!BalancesMatchPostings, P!ChainIntact
  <1>5. CASE RunCheck
    <2>1. edit = NoEdit /\ UNCHANGED tables BY <1>5 DEF RunCheck, Found
    <2>2. SoundBooks /\ problems = {} BY <2>1 DEF Quiet
    <2>3. SoundBooks'
      BY <2>1, <2>2 DEF tables, SoundBooks, P!TypeOK, P!SumZeroInv, P!SumZero,
       P!UnopenedIsEmpty, P!BalancesMatchPostings, P!ChainIntact
    <2>4. /\ CheckTransfersBalance(transfers) = {}
          /\ CheckBalancesMatchPostings(balances, transfers) = {}
          /\ CheckTrialBalance([a \in Accounts |-> "open"], balances) = {}
          /\ CheckChain(transfers) = {}
      BY <2>2, SameChecks, SameAssumptions DEF SoundBooks, P!SumZeroInv, P!SumZero,
         P!BalancesMatchPostings, P!ChainIntact
    <2>5. problems' = {} BY <1>5, <2>2, <2>4 DEF RunCheck, Found
    <2> QED BY <2>3, <2>5
  <1> QED BY <1>1, <1>2, <1>3, <1>4, <1>5 DEF Next

\* Verify never reports a ledger nobody edited, for any number of accounts, any
\* transfers, histories of any length and posts between any two of its checks.
THEOREM VerifyIsQuiet == Spec => []NoFalseAlarm
PROOF
  <1>1. Quiet => NoFalseAlarm BY DEF Quiet, NoFalseAlarm
  <1> QED BY <1>1, QuietInit, QuietStep, PTL DEF Spec

-----------------------------------------------------------------------------
(* The rows stay well-formed, whatever is edited.                          *)

LEMMA SameRows == RowType = P!RowType
BY DEF RowType, P!RowType, Posting, P!Posting, Transfer, P!Transfer, Accounts, P!Accounts,
       Directions, P!Directions

LEMMA RowReplaced ==
    ASSUME NEW trs \in Seq(RowType), NEW k \in DOMAIN trs, NEW row \in RowType
    PROVE  [trs EXCEPT ![k] = row] \in Seq(RowType)
BY ExceptSeq

LEMMA PostingReplaced ==
    ASSUME NEW row \in RowType, NEW i \in DOMAIN row.postings, NEW p \in Posting
    PROVE  [row EXCEPT !.postings[i] = p] \in RowType
PROOF
  <1>1. row.postings \in Seq(Posting) BY DEF RowType
  <1>2. [row.postings EXCEPT ![i] = p] \in Seq(Posting) BY <1>1, ExceptSeq
  <1> QED BY <1>2 DEF RowType

LEMMA AuditTypeStep == TypeOK /\ [Next]_vars => TypeOK'
PROOF
  <1> SUFFICES ASSUME TypeOK, [Next]_vars PROVE TypeOK' OBVIOUS
  <1> USE DEF TypeOK
  <1>1. CASE UNCHANGED vars BY <1>1 DEF vars, tables
  <1>2. ASSUME NEW t \in Requests, Post(t) PROVE TypeOK'
    <2>1. B!Post(t) /\ UNCHANGED <<edit, phase, problems, warned>> BY <1>2 DEF Post
    <2>2. P!Post(t) BY <2>1, SamePost
    <2>3. [P!Next]_(P!vars) BY <2>2 DEF P!Next
    <2>4. P!TypeOK
      <3>1. NoHold \in P!HoldRow BY DEF NoHold, P!HoldRow
      <3> QED BY <3>1, SameRows, SameAssumptions DEF P!TypeOK
    <2>5. P!TypeOK'
      BY <2>3, <2>4, P!TypeStep, SameAssumptions, BoundsAssumption, ChartAssumption,
         RequestsAssumption
    <2>6. transfers' \in Seq(RowType) /\ balances' \in [Accounts -> Int]
      BY <2>5, SameRows, SameAssumptions DEF P!TypeOK
    <2> QED BY <2>1, <2>6
  <1>3. ASSUME NEW a \in Accounts, EditBalance(a) PROVE TypeOK'
    BY <1>3 DEF EditBalance, Edit
  <1>4. ASSUME NEW k \in DOMAIN transfers, EditReference(k) PROVE TypeOK'
    <2>1. transfers[k] \in RowType BY ElementOfSeq
    <2>2. [transfers[k] EXCEPT !.reference = Forged] \in RowType
      BY <2>1, ForgedAssumption DEF RowType
    <2>3. transfers' \in Seq(RowType) BY <1>4, <2>2, RowReplaced DEF EditReference
    <2> QED BY <1>4, <2>3 DEF EditReference, Edit
  <1>5. ASSUME NEW k \in DOMAIN transfers, DeleteTransfer(k) PROVE TypeOK'
    <2>1. k \in 1 .. Len(transfers) BY LenProperties
    <2>2. SubSeq(transfers, 1, k - 1) \in Seq(RowType)
      BY <2>1, SubSeqProperties, ElementOfSeq
    <2>3. SubSeq(transfers, k + 1, Len(transfers)) \in Seq(RowType)
      BY <2>1, SubSeqProperties, ElementOfSeq
    <2>4. transfers' \in Seq(RowType)
      BY <1>5, <2>2, <2>3, ConcatProperties DEF DeleteTransfer, RemoveAt
    <2> QED BY <1>5, <2>4 DEF DeleteTransfer, Edit
  <1>6. ASSUME NEW k \in DOMAIN transfers, NEW i \in DOMAIN transfers[k].postings,
               NEW a \in Accounts, AddPosting(k, i, a)
        PROVE  TypeOK'
    <2>1. transfers[k] \in RowType BY ElementOfSeq
    <2>2. transfers[k].postings \in Seq(Posting) BY <2>1 DEF RowType
    <2>3. transfers[k].postings[i] \in Posting BY <2>2, ElementOfSeq
    <2> DEFINE p == [transfers[k].postings[i] EXCEPT !.account = a]
    <2>4. p \in Posting BY <2>3 DEF Posting
    <2>5. Append(transfers[k].postings, p) \in Seq(Posting) BY <2>2, <2>4, AppendProperties
    <2>6. [transfers[k] EXCEPT !.postings = Append(@, p)] \in RowType
      BY <2>1, <2>5 DEF RowType
    <2>7. transfers' \in Seq(RowType) BY <1>6, <2>6, RowReplaced DEF AddPosting
    <2> QED BY <1>6, <2>7 DEF AddPosting, Edit
  <1>7. ASSUME NEW k \in DOMAIN transfers, NEW i \in DOMAIN transfers[k].postings,
               EditAmount(k, i)
        PROVE  TypeOK'
    <2>1. transfers[k] \in RowType BY ElementOfSeq
    <2>2. transfers[k].postings[i] \in Posting BY <2>1, ElementOfSeq DEF RowType
    <2> DEFINE p == [transfers[k].postings[i] EXCEPT !.amount = @ + 1]
    <2>3. p \in Posting
      <3>1. transfers[k].postings[i].amount + 1 \in Int BY <2>2 DEF Posting
      <3>2. p = [account |-> transfers[k].postings[i].account,
                 amount |-> transfers[k].postings[i].amount + 1,
                 currency |-> transfers[k].postings[i].currency,
                 dir |-> transfers[k].postings[i].dir]
        BY <2>2 DEF Posting
      <3> QED BY <2>2, <3>1, <3>2 DEF Posting
    <2>4. [transfers[k] EXCEPT !.postings[i] = p] \in RowType
      BY <2>1, <2>3, PostingReplaced
    <2>5. transfers' \in Seq(RowType) BY <1>7, <2>4, RowReplaced DEF EditAmount
    <2> QED BY <1>7, <2>5 DEF EditAmount, Edit
  <1>8. ASSUME NEW k \in DOMAIN transfers, NEW i \in DOMAIN transfers[k].postings,
               NEW a \in Accounts, EditAccount(k, i, a)
        PROVE  TypeOK'
    <2>1. transfers[k] \in RowType BY ElementOfSeq
    <2>2. transfers[k].postings[i] \in Posting BY <2>1, ElementOfSeq DEF RowType
    <2> DEFINE p == [transfers[k].postings[i] EXCEPT !.account = a]
    <2>3. p \in Posting BY <2>2 DEF Posting
    <2>4. [transfers[k] EXCEPT !.postings[i] = p] \in RowType
      BY <2>1, <2>3, PostingReplaced
    <2>5. transfers' \in Seq(RowType) BY <1>8, <2>4, RowReplaced DEF EditAccount
    <2> QED BY <1>8, <2>5 DEF EditAccount, Edit
  <1>9. CASE StartVerify BY <1>9 DEF StartVerify, tables
  <1>10. CASE RunCheck BY <1>10 DEF RunCheck, Found, tables
  <1> QED BY <1>1, <1>2, <1>3, <1>4, <1>5, <1>6, <1>7, <1>8, <1>9, <1>10 DEF Next, Edits

\* Posts and edits leave rows of the table's types: an edit can lie, but not
\* put anything into a column that the column cannot hold.
THEOREM AuditTypeCorrect == Spec => []TypeOK
PROOF
  <1>1. Init => TypeOK
    <2>1. Init => transfers \in Seq(RowType) BY EmptySeq DEF Init
    <2>2. Init => balances \in [Accounts -> Int] BY DEF Init
    <2>3. Init => edit.kind = "none" BY DEF Init, NoEdit
    <2>4. Init => phase \in 0 .. 5 BY DEF Init
    <2>5. Init => warned \in BOOLEAN BY DEF Init
    <2> QED BY <2>1, <2>2, <2>3, <2>4, <2>5 DEF TypeOK
  <1> QED BY <1>1, AuditTypeStep, PTL DEF Spec

-----------------------------------------------------------------------------
(* What an edit leaves behind, and what a post makes of it.                *)

\* The digests pin every row down, and the balances every sum.
LEMMA CleanBeforeEdit ==
    ASSUME Quiet, edit = NoEdit
    PROVE  /\ CheckChain(transfers) = {}
           /\ CheckBalancesMatchPostings(balances, transfers) = {}
BY SameChecks DEF Quiet, SoundBooks, P!BalancesMatchPostings, P!ChainIntact

LEMMA AppendedRow ==
    ASSUME TypeOK, NEW t \in Requests, B!Post(t)
    PROVE  \E row \in RowType :
              /\ transfers' = Append(transfers, row)
              /\ row.reference = t.reference
              /\ \A a \in Accounts : balances'[a] = balances[a] + Delta(row, a)
PROOF
  <1> DEFINE row == B!Row(t, B!TailHash)
  <1>1. /\ transfers' = Append(transfers, row)
        /\ balances' = B!ApplyBalances(balances, t)
    BY DEF B!Post, B!Write
  <1>2. row.reference = t.reference /\ row.postings = t.postings BY DEF B!Row
  <1>3. \A a : B!Delta(t, a) = Delta(t, a)
    BY DEF B!Delta, Delta, B!Signed, Signed, B!SumTo, SumTo, B!PartialSums, PartialSums
  <1>4. \A a \in Accounts : balances'[a] = balances[a] + Delta(row, a)
    <2>1. \A a : Delta(row, a) = Delta(t, a) BY <1>2, SamePostings
    <2>2. Accounts = B!Accounts BY DEF Accounts, B!Accounts
    <2> QED BY <1>1, <1>3, <2>1, <2>2 DEF B!ApplyBalances
  <1>5. row \in RowType
    <2>1. P!Post(t) BY SamePost
    <2>2. [P!Next]_(P!vars) BY <2>1 DEF P!Next
    <2>3. P!TypeOK
      <3>1. NoHold \in P!HoldRow BY DEF NoHold, P!HoldRow
      <3> QED BY <3>1, SameRows, SameAssumptions DEF P!TypeOK, TypeOK
    <2>4. P!TypeOK'
      BY <2>2, <2>3, P!TypeStep, SameAssumptions, BoundsAssumption, ChartAssumption,
         RequestsAssumption
    <2>5. transfers' \in Seq(RowType) BY <2>4, SameRows DEF P!TypeOK
    <2> HIDE DEF row
    <2>6. transfers \in Seq(RowType \cup {row}) BY SeqMonotonic DEF TypeOK
    <2>7. /\ Len(transfers) \in Nat /\ Len(transfers') = Len(transfers) + 1
          /\ transfers'[Len(transfers) + 1] = row
      BY <1>1, <2>6, AppendProperties, LenProperties
    <2>8. transfers'[Len(transfers')] \in RowType BY <2>5, <2>7, ElementOfSeq
    <2> QED BY <2>7, <2>8
  <1> QED BY <1>1, <1>2, <1>4, <1>5

\* A row that does not fit stays, whatever is chained on behind it.
LEMMA BrokenStays ==
    ASSUME NEW trs \in Seq(RowType), NEW row \in RowType, NEW k \in CheckChain(trs)
    PROVE  k \in CheckChain(Append(trs, row))
PROOF
  <1>1. k \in 1 .. Len(trs) /\ Len(trs) \in Nat BY LenProperties DEF CheckChain
  <1>2. /\ Len(Append(trs, row)) = Len(trs) + 1
        /\ \A i \in 1 .. Len(trs) : Append(trs, row)[i] = trs[i]
    BY AppendProperties
  <1>3. Append(trs, row)[k] = trs[k] BY <1>1, <1>2
  <1>4. k # 1 => Append(trs, row)[k - 1] = trs[k - 1] BY <1>1, <1>2
  <1>5. k \in 1 .. Len(Append(trs, row)) BY <1>1, <1>2
  <1>6. \/ trs[k].prev # (IF k = 1 THEN NoHash ELSE trs[k - 1].hash)
        \/ trs[k].hash # ChainDigest(trs[k].prev, Content(trs[k]))
    BY DEF CheckChain
  <1> HIDE DEF NoHash, ChainDigest, Content
  <1> QED BY <1>3, <1>4, <1>5, <1>6 DEF CheckChain

\* A new row moves the sum of the postings by what it moves the balance.
LEMMA TotalAfterAppend ==
    ASSUME NEW trs \in Seq(RowType), NEW row \in RowType, NEW a
    PROVE  /\ PostingsTotal(trs, a) \in Int
           /\ PostingsTotal(Append(trs, row), a) = PostingsTotal(trs, a) + Delta(row, a)
PROOF
  <1> DEFINE n == Len(trs)
             f == [k \in 1 .. n |-> Delta(trs[k], a)]
             g == [k \in 1 .. n + 1 |-> Delta(Append(trs, row)[k], a)]
  <1>1. /\ n \in Nat /\ Len(Append(trs, row)) = n + 1
        /\ \A i \in 1 .. n : Append(trs, row)[i] = trs[i]
        /\ Append(trs, row)[n + 1] = row
    BY AppendProperties, LenProperties
  <1>2. \A k \in 1 .. n : trs[k].postings \in Seq(Posting)
    <2>1. \A k \in 1 .. n : trs[k] \in RowType BY ElementOfSeq
    <2> QED BY <2>1 DEF RowType
  <1>3. \A k \in 1 .. n : f[k] \in Int BY <1>2, DeltaFacts
  <1>4. \A k \in 1 .. n : g[k] = f[k] BY <1>1
  <1>5. g[n + 1] = Delta(row, a) BY <1>1
  <1>6. /\ PostingsTotal(trs, a) = SumTo(f, n)
        /\ PostingsTotal(Append(trs, row), a) = SumTo(g, n + 1)
    BY <1>1 DEF PostingsTotal
  <1> HIDE DEF f, g, n
  <1>7. SumTo(f, n) \in Int BY <1>1, <1>3, SumType
  <1>8. SumTo(g, n) = SumTo(f, n) BY <1>1, <1>4, SumCong
  <1>9. SumTo(g, n + 1) = SumTo(g, n) + g[n + 1] BY <1>1, SumStep
  <1> QED BY <1>5, <1>6, <1>7, <1>8, <1>9

\* A row whose content is another one does not fit its digest any more.
LEMMA RewrittenShows ==
    ASSUME NEW trs \in Seq(RowType), CheckChain(trs) = {}, NEW k \in 1 .. Len(trs),
           NEW row \in RowType, row.prev = trs[k].prev, row.hash = trs[k].hash,
           Content(row) # Content(trs[k])
    PROVE  k \in CheckChain([trs EXCEPT ![k] = row])
PROOF
  <1> DEFINE new == [trs EXCEPT ![k] = row]
  <1>1. Len(new) = Len(trs) /\ new[k] = row BY ExceptSeq
  <1>2. trs[k].hash = ChainDigest(trs[k].prev, Content(trs[k])) BY DEF CheckChain
  <1>3. trs[k] \in RowType BY ElementOfSeq
  <1>4. Content(row) \in Transfer /\ Content(trs[k]) \in Transfer
    BY <1>3 DEF Content, Transfer, RowType
  <1>5. row.prev \in Seq(Transfer) BY DEF RowType
  <1>6. ChainDigest(row.prev, Content(row)) # ChainDigest(row.prev, Content(trs[k]))
    BY <1>4, <1>5, AppendInjective DEF ChainDigest
  <1> HIDE DEF new, ChainDigest, Content
  <1>7. new[k].hash # ChainDigest(new[k].prev, Content(new[k])) BY <1>1, <1>2, <1>6
  <1>8. k \in CheckChain(new) BY <1>1, <1>7 DEF CheckChain
  <1> QED BY <1>8 DEF new

LEMMA RemovedRow ==
    ASSUME NEW trs \in Seq(RowType), NEW k \in 1 .. Len(trs)
    PROVE  /\ Len(trs) \in Nat /\ Len(RemoveAt(trs, k)) = Len(trs) - 1
           /\ \A i \in 1 .. Len(trs) - 1 :
                 RemoveAt(trs, k)[i] = IF i < k THEN trs[i] ELSE trs[i + 1]
PROOF
  <1> DEFINE n == Len(trs)
             s == SubSeq(trs, 1, k - 1)
             u == SubSeq(trs, k + 1, n)
  <1>1. n \in Nat /\ k \in 1 .. n /\ \A i \in 1 .. n : trs[i] \in RowType
    BY LenProperties, ElementOfSeq
  <1>2. /\ s \in Seq(RowType) /\ Len(s) = k - 1
        /\ \A i \in 1 .. k - 1 : s[i] = trs[i]
    <2>1. k - 1 \in Int /\ \A i \in 1 .. k - 1 : trs[i] \in RowType BY <1>1
    <2> QED BY <1>1, <2>1, SubSeqProperties
  <1>3. /\ u \in Seq(RowType) /\ Len(u) = n - k
        /\ \A i \in 1 .. n - k : u[i] = trs[k + i]
    <2>1. k + 1 \in Int /\ \A i \in k + 1 .. n : trs[i] \in RowType BY <1>1
    <2>2. /\ u \in Seq(RowType) /\ Len(u) = IF k + 1 =< n THEN n - (k + 1) + 1 ELSE 0
          /\ \A i \in 1 .. n - (k + 1) + 1 : u[i] = trs[k + 1 + i - 1]
      BY <1>1, <2>1, SubSeqProperties
    <2> HIDE DEF u, n
    <2> QED BY <1>1, <2>2
  <1>4. RemoveAt(trs, k) = s \o u BY DEF RemoveAt
  <1> HIDE DEF s, u, n
  <1>5. /\ Len(s \o u) = n - 1
        /\ \A i \in 1 .. n - 1 : (s \o u)[i] = IF i =< k - 1 THEN s[i] ELSE u[i - (k - 1)]
    BY <1>1, <1>2, <1>3, ConcatProperties
  <1>6. ASSUME NEW i \in 1 .. n - 1
        PROVE  (s \o u)[i] = IF i < k THEN trs[i] ELSE trs[i + 1]
    <2>1. CASE i < k
      <3>1. i \in 1 .. k - 1 BY <1>1, <2>1
      <3> QED BY <1>2, <1>5, <2>1, <3>1
    <2>2. CASE i >= k
      <3>1. i - (k - 1) \in 1 .. n - k /\ ~ (i =< k - 1) /\ ~ (i < k) BY <1>1, <2>2
      <3>2. u[i - (k - 1)] = trs[i + 1]
        <4>1. u[i - (k - 1)] = trs[k + (i - (k - 1))] BY <1>3, <3>1
        <4>2. k + (i - (k - 1)) = i + 1 BY <1>1
        <4> QED BY <4>1, <4>2
      <3>3. (s \o u)[i] = u[i - (k - 1)] BY <1>5, <3>1
      <3> QED BY <3>1, <3>2, <3>3
    <2>3. i < k \/ i >= k BY <1>1
    <2> QED BY <2>1, <2>2, <2>3
  <1> QED BY <1>1, <1>4, <1>5, <1>6 DEF n

\* The row behind one that is gone carries the hash of the one that is gone.
LEMMA DeletedShows ==
    ASSUME NEW trs \in Seq(RowType), CheckChain(trs) = {}, NEW k \in 1 .. Len(trs),
           k # Len(trs)
    PROVE  k \in CheckChain(RemoveAt(trs, k))
PROOF
  <1> DEFINE new == RemoveAt(trs, k)
             before == IF k = 1 THEN NoHash ELSE trs[k - 1].hash
  <1>1. /\ Len(trs) \in Nat /\ Len(new) = Len(trs) - 1 /\ k \in 1 .. Len(trs) - 1
        /\ \A i \in 1 .. Len(trs) - 1 : new[i] = IF i < k THEN trs[i] ELSE trs[i + 1]
    <2>1. /\ Len(trs) \in Nat /\ Len(new) = Len(trs) - 1
          /\ \A i \in 1 .. Len(trs) - 1 : new[i] = IF i < k THEN trs[i] ELSE trs[i + 1]
      BY RemovedRow
    <2>2. k \in 1 .. Len(trs) - 1 BY <2>1
    <2> QED BY <2>1, <2>2
  <1>2. new[k] = trs[k + 1] /\ (k # 1 => new[k - 1] = trs[k - 1]) BY <1>1
  <1>3. trs[k].prev = before /\ trs[k].hash = ChainDigest(trs[k].prev, Content(trs[k]))
    BY DEF CheckChain
  <1>4. trs[k + 1].prev = trs[k].hash
    <2>1. k + 1 \in 1 .. Len(trs) /\ k + 1 # 1 /\ k + 1 - 1 = k BY <1>1
    <2> QED BY <2>1 DEF CheckChain
  <1>5. trs[k].hash # before
    <2>1. trs[k] \in RowType BY ElementOfSeq
    <2>2. trs[k].prev \in Seq(Transfer) /\ Content(trs[k]) \in Transfer
      BY <2>1 DEF RowType, Content, Transfer
    <2>3. /\ Len(ChainDigest(trs[k].prev, Content(trs[k]))) = Len(trs[k].prev) + 1
          /\ Len(trs[k].prev) \in Nat
      BY <2>2, AppendProperties, LenProperties DEF ChainDigest
    <2> HIDE DEF ChainDigest, before
    <2> QED BY <1>3, <2>3
  <1> HIDE DEF new, NoHash, ChainDigest, Content
  <1>6. new[k].prev # (IF k = 1 THEN NoHash ELSE new[k - 1].hash)
    BY <1>2, <1>4, <1>5
  <1>7. k \in 1 .. Len(new) BY <1>1
  <1> QED BY <1>6, <1>7 DEF CheckChain, new

\* Without the last row the postings add up to less by what it moved.
LEMMA TotalAfterTail ==
    ASSUME NEW trs \in Seq(RowType), Len(trs) > 0, NEW a
    PROVE  /\ Delta(trs[Len(trs)], a) \in Int
           /\ PostingsTotal(trs, a) \in Int
           /\ PostingsTotal(RemoveAt(trs, Len(trs)), a)
                = PostingsTotal(trs, a) - Delta(trs[Len(trs)], a)
PROOF
  <1> DEFINE n == Len(trs)
             m == n - 1
             new == RemoveAt(trs, n)
             f == [k \in 1 .. n |-> Delta(trs[k], a)]
             g == [k \in 1 .. m |-> Delta(new[k], a)]
  <1>1. n \in Nat /\ n \in 1 .. n BY LenProperties
  <1>2. /\ Len(new) = m /\ m \in Nat /\ m + 1 = n
        /\ \A i \in 1 .. m : new[i] = trs[i]
    BY <1>1, RemovedRow
  <1>3. \A k \in 1 .. n : f[k] \in Int
    <2>1. \A k \in 1 .. n : trs[k] \in RowType BY ElementOfSeq
    <2>2. \A k \in 1 .. n : trs[k].postings \in Seq(Posting) BY <2>1 DEF RowType
    <2> QED BY <2>2, DeltaFacts
  <1>4. \A k \in 1 .. m : g[k] = f[k]
    <2>1. \A k \in 1 .. m : k \in 1 .. n BY <1>2
    <2> QED BY <1>2, <2>1
  <1>5. f[n] = Delta(trs[n], a) BY <1>1
  <1>6. PostingsTotal(trs, a) = SumTo(f, n) /\ PostingsTotal(new, a) = SumTo(g, m)
    BY <1>2 DEF PostingsTotal
  <1> HIDE DEF f, g, new, m
  <1>7. SumTo(g, m) = SumTo(f, m)
    BY <1>2, <1>4, SumCong
  <1>8. SumTo(f, m + 1) = SumTo(f, m) + f[m + 1] BY <1>2, SumStep
  <1>9. SumTo(f, m) \in Int
    <2>1. \A k \in 1 .. m : f[k] \in Int BY <1>2, <1>3
    <2> QED BY <1>2, <2>1, SumType
  <1>10. f[n] \in Int BY <1>1, <1>3
  <1> HIDE DEF n
  <1> QED BY <1>2, <1>5, <1>6, <1>7, <1>8, <1>9, <1>10 DEF n, new

-----------------------------------------------------------------------------
(* Where an edit shows, from then on.                                      *)

EditShows ==
    /\ edit.kind \in {"row", "deleted"} => edit.row \in CheckChain(transfers)
    /\ edit.kind \in {"balance", "tail"} =>
          edit.accounts \subseteq CheckBalancesMatchPostings(balances, transfers)

\* Before, no row carries a reference that only an edit writes.
Unforged ==
    edit.kind = "none" =>
        edit = NoEdit /\ \A k \in 1 .. Len(transfers) : transfers[k].reference # Forged

\* A pass that began after the edit has reported it once it is past the check
\* that is about it.
Reported ==
    warned =>
        /\ edit.kind # "none"
        /\ phase \in 3 .. 5 /\ edit.kind \in {"balance", "tail"} =>
              \A a \in edit.accounts : <<"balance-drift", a>> \in problems
        /\ phase = 5 /\ edit.kind \in {"row", "deleted"} => <<"chain", edit.row>> \in problems

Located == EditShows /\ Unforged /\ Reported

LEMMA PostKeepsLocated ==
    ASSUME TypeOK, Located, NEW t \in Requests, Post(t)
    PROVE  Located'
PROOF
  <1>1. B!Post(t) /\ UNCHANGED <<edit, phase, problems, warned>> BY DEF Post
  <1>2. PICK row \in RowType : /\ transfers' = Append(transfers, row)
                               /\ row.reference = t.reference
                               /\ \A a \in Accounts : balances'[a] = balances[a] + Delta(row, a)
    BY <1>1, AppendedRow
  <1>3. transfers \in Seq(RowType) /\ balances \in [Accounts -> Int] BY DEF TypeOK
  <1>4. ASSUME NEW k \in CheckChain(transfers) PROVE k \in CheckChain(transfers')
    BY <1>2, <1>3, BrokenStays
  <1>5. ASSUME NEW a \in CheckBalancesMatchPostings(balances, transfers)
        PROVE  a \in CheckBalancesMatchPostings(balances', transfers')
    <2>1. a \in Accounts /\ balances[a] # PostingsTotal(transfers, a)
      BY DEF CheckBalancesMatchPostings
    <2>2. /\ PostingsTotal(transfers, a) \in Int
          /\ PostingsTotal(transfers', a) = PostingsTotal(transfers, a) + Delta(row, a)
      BY <1>2, <1>3, TotalAfterAppend
    <2>3. Delta(row, a) \in Int
      <3>1. row.postings \in Seq(Posting) BY DEF RowType
      <3> QED BY <3>1, DeltaFacts
    <2>4. balances'[a] = balances[a] + Delta(row, a) /\ balances[a] \in Int
      BY <1>2, <1>3, <2>1
    <2>5. balances'[a] # PostingsTotal(transfers', a) BY <2>1, <2>2, <2>3, <2>4
    <2> QED BY <2>1, <2>5 DEF CheckBalancesMatchPostings
  <1>6. EditShows' BY <1>1, <1>4, <1>5 DEF Located, EditShows
  <1>7. Unforged'
    <2>1. t.reference # Forged BY ForgedAssumption
    <2>2. /\ Len(transfers) \in Nat /\ Len(transfers') = Len(transfers) + 1
          /\ \A i \in 1 .. Len(transfers) : transfers'[i] = transfers[i]
          /\ transfers'[Len(transfers) + 1] = row
      BY <1>2, <1>3, AppendProperties, LenProperties
    <2> QED BY <1>1, <1>2, <2>1, <2>2 DEF Located, Unforged
  <1>8. Reported' BY <1>1 DEF Located, Reported
  <1> QED BY <1>6, <1>7, <1>8 DEF Located

\* Each kind of edit, made to books that pass every check.
LEMMA EditIsSeen ==
    ASSUME TypeOK, Quiet, Located, Edits
    PROVE  EditShows' /\ edit'.kind # "none"
PROOF
  <1>0. edit = NoEdit
    BY DEF Edits, EditBalance, EditReference, DeleteTransfer, AddPosting, EditAmount,
       EditAccount, Edit
  <1>1. /\ CheckChain(transfers) = {}
        /\ CheckBalancesMatchPostings(balances, transfers) = {}
        /\ transfers \in Seq(RowType) /\ balances \in [Accounts -> Int]
        /\ Len(transfers) \in Nat /\ DOMAIN transfers = 1 .. Len(transfers)
    BY <1>0, CleanBeforeEdit, LenProperties DEF TypeOK
  <1>2. ASSUME NEW k \in DOMAIN transfers, NEW row \in RowType,
               transfers' = [transfers EXCEPT ![k] = row], edit'.kind = "row", edit'.row = k,
               row.prev = transfers[k].prev, row.hash = transfers[k].hash,
               \/ row.reference # transfers[k].reference
               \/ row.postings # transfers[k].postings
        PROVE  EditShows' /\ edit'.kind # "none"
    <2>1. Content(row) # Content(transfers[k]) BY <1>2 DEF Content
    <2>2. k \in CheckChain(transfers') BY <1>1, <1>2, <2>1, RewrittenShows
    <2> QED BY <1>2, <2>2 DEF EditShows
  <1>3. ASSUME NEW a \in Accounts, EditBalance(a) PROVE EditShows' /\ edit'.kind # "none"
    <2>1. /\ edit'.kind = "balance" /\ edit'.accounts = {a} /\ transfers' = transfers
          /\ balances'[a] = balances[a] + 1
      BY <1>1, <1>3 DEF EditBalance, Edit
    <2>2. balances[a] \in Int /\ balances[a] = PostingsTotal(transfers, a)
      BY <1>1 DEF CheckBalancesMatchPostings
    <2>3. balances'[a] # PostingsTotal(transfers', a) BY <2>1, <2>2
    <2>4. a \in CheckBalancesMatchPostings(balances', transfers')
      BY <2>3 DEF CheckBalancesMatchPostings
    <2> QED BY <2>1, <2>4 DEF EditShows
  <1>4. ASSUME NEW k \in DOMAIN transfers, EditReference(k)
        PROVE  EditShows' /\ edit'.kind # "none"
    <2> DEFINE row == [transfers[k] EXCEPT !.reference = Forged]
    <2>1. transfers[k] \in RowType /\ transfers[k].reference # Forged
      BY <1>0, <1>1, ElementOfSeq DEF Located, Unforged, NoEdit
    <2>2. /\ row \in RowType /\ row.prev = transfers[k].prev /\ row.hash = transfers[k].hash
          /\ row.reference = Forged
      BY <2>1, ForgedAssumption DEF RowType
    <2>3. /\ transfers' = [transfers EXCEPT ![k] = row]
          /\ edit'.kind = "row" /\ edit'.row = k
      BY <1>4 DEF EditReference, Edit
    <2> QED BY <1>2, <2>1, <2>2, <2>3
  <1>5. ASSUME NEW k \in DOMAIN transfers, DeleteTransfer(k)
        PROVE  EditShows' /\ edit'.kind # "none"
    <2>1. /\ transfers' = RemoveAt(transfers, k) /\ balances' = balances /\ edit'.row = k
          /\ edit'.kind = IF k = Len(transfers) THEN "tail" ELSE "deleted"
          /\ edit'.accounts = {a \in Accounts : Delta(transfers[k], a) # 0}
      BY <1>5 DEF DeleteTransfer, Edit
    <2>2. CASE k # Len(transfers)
      <3>1. k \in CheckChain(transfers') BY <1>1, <2>1, <2>2, DeletedShows
      <3> QED BY <2>1, <2>2, <3>1 DEF EditShows
    <2>3. CASE k = Len(transfers)
      <3>1. ASSUME NEW a \in edit'.accounts
            PROVE  a \in CheckBalancesMatchPostings(balances', transfers')
        <4>1. a \in Accounts /\ Delta(transfers[k], a) # 0 BY <2>1
        <4>2. balances[a] = PostingsTotal(transfers, a)
          BY <1>1, <4>1 DEF CheckBalancesMatchPostings
        <4>3. /\ Delta(transfers[k], a) \in Int /\ PostingsTotal(transfers, a) \in Int
              /\ PostingsTotal(transfers', a)
                   = PostingsTotal(transfers, a) - Delta(transfers[k], a)
          BY <1>1, <2>1, <2>3, TotalAfterTail
        <4>4. balances'[a] # PostingsTotal(transfers', a) BY <2>1, <4>1, <4>2, <4>3
        <4> QED BY <4>1, <4>4 DEF CheckBalancesMatchPostings
      <3>2. edit'.kind = "tail" BY <2>1, <2>3
      <3> QED BY <3>1, <3>2 DEF EditShows
    <2> QED BY <2>2, <2>3
  <1>6. ASSUME NEW k \in DOMAIN transfers, NEW i \in DOMAIN transfers[k].postings,
               EditAmount(k, i) \/ \E a \in Accounts : EditAccount(k, i, a)
        PROVE  EditShows' /\ edit'.kind # "none"
    <2>1. /\ transfers[k] \in RowType /\ transfers[k].postings[i] \in Posting
          /\ transfers[k].postings \in Seq(Posting)
      <3>1. transfers[k] \in RowType BY <1>1, ElementOfSeq
      <3>2. transfers[k].postings \in Seq(Posting) BY <3>1 DEF RowType
      <3>3. i \in 1 .. Len(transfers[k].postings) BY <3>2, LenProperties
      <3> QED BY <3>1, <3>2, <3>3, ElementOfSeq
    <2>2. ASSUME NEW p \in Posting, p # transfers[k].postings[i],
                 transfers' = [transfers EXCEPT ![k].postings[i] = p],
                 edit'.kind = "row", edit'.row = k
          PROVE  EditShows' /\ edit'.kind # "none"
      <3> DEFINE row == [transfers[k] EXCEPT !.postings[i] = p]
      <3>1. row \in RowType BY <2>1, PostingReplaced
      <3>2. row.postings = [transfers[k].postings EXCEPT ![i] = p] BY <2>1 DEF RowType
      <3>3. row.postings # transfers[k].postings BY <2>2, <3>2
      <3>4. row.prev = transfers[k].prev /\ row.hash = transfers[k].hash
        BY <2>1 DEF RowType
      <3>5. transfers' = [transfers EXCEPT ![k] = row] BY <2>2
      <3> HIDE DEF row
      <3> QED BY <1>2, <2>2, <3>1, <3>3, <3>4, <3>5
    <2>3. CASE EditAmount(k, i)
      <3> DEFINE p == [transfers[k].postings[i] EXCEPT !.amount = @ + 1]
      <3>1. transfers[k].postings[i].amount \in Int BY <2>1 DEF Posting
      <3>2. p = [account |-> transfers[k].postings[i].account,
                 amount |-> transfers[k].postings[i].amount + 1,
                 currency |-> transfers[k].postings[i].currency,
                 dir |-> transfers[k].postings[i].dir]
        BY <2>1 DEF Posting
      <3>3. p \in Posting
        BY <2>1, <3>1, <3>2 DEF Posting
      <3>4. p.amount = transfers[k].postings[i].amount + 1 BY <3>2
      <3>5. /\ transfers' = [transfers EXCEPT ![k].postings[i] = p]
            /\ edit'.kind = "row" /\ edit'.row = k
        BY <2>3 DEF EditAmount, Edit
      <3> HIDE DEF p
      <3>6. p # transfers[k].postings[i] BY <3>1, <3>4
      <3> QED BY <2>2, <3>3, <3>5, <3>6
    <2>4. ASSUME NEW a \in Accounts, EditAccount(k, i, a)
          PROVE  EditShows' /\ edit'.kind # "none"
      <3> DEFINE p == [transfers[k].postings[i] EXCEPT !.account = a]
      <3>1. p \in Posting /\ p.account = a BY <2>1 DEF Posting
      <3>2. p # transfers[k].postings[i] BY <2>4, <3>1 DEF EditAccount
      <3>3. /\ transfers' = [transfers EXCEPT ![k].postings[i] = p]
            /\ edit'.kind = "row" /\ edit'.row = k
        BY <2>4 DEF EditAccount, Edit
      <3> HIDE DEF p
      <3> QED BY <2>2, <3>1, <3>2, <3>3
    <2> QED BY <1>6, <2>3, <2>4
  <1>7. ASSUME NEW k \in DOMAIN transfers, NEW i \in DOMAIN transfers[k].postings,
               NEW a \in Accounts, AddPosting(k, i, a)
        PROVE  EditShows' /\ edit'.kind # "none"
    <2> DEFINE p == [transfers[k].postings[i] EXCEPT !.account = a]
               row == [transfers[k] EXCEPT !.postings = Append(@, p)]
    <2>1. transfers[k] \in RowType BY <1>1, ElementOfSeq
    <2>2. transfers[k].postings \in Seq(Posting) BY <2>1 DEF RowType
    <2>3. i \in 1 .. Len(transfers[k].postings) BY <2>2, LenProperties
    <2>4. p \in Posting
      <3>1. transfers[k].postings[i] \in Posting BY <2>2, <2>3, ElementOfSeq
      <3> QED BY <3>1 DEF Posting
    <2>5. transfers' = [transfers EXCEPT ![k] = row] BY <1>7 DEF AddPosting
    <2>6. edit'.kind = "row" /\ edit'.row = k BY <1>7 DEF AddPosting, Edit
    <2> HIDE DEF p
    <2>7. /\ Append(transfers[k].postings, p) \in Seq(Posting)
          /\ Len(Append(transfers[k].postings, p)) = Len(transfers[k].postings) + 1
          /\ Len(transfers[k].postings) \in Nat
      BY <2>2, <2>4, AppendProperties, LenProperties
    <2>8. /\ row \in RowType /\ row.postings = Append(transfers[k].postings, p)
          /\ row.prev = transfers[k].prev /\ row.hash = transfers[k].hash
      BY <2>1, <2>7 DEF RowType
    <2>9. row.postings # transfers[k].postings BY <2>7, <2>8
    <2> HIDE DEF row
    <2> QED BY <1>2, <2>5, <2>6, <2>8, <2>9
  <1> QED BY <1>3, <1>4, <1>5, <1>6, <1>7 DEF Edits

LEMMA EditKeepsLocated ==
    ASSUME TypeOK, Quiet, Located, Edits
    PROVE  Located'
PROOF
  <1>1. EditShows' /\ edit'.kind # "none" BY EditIsSeen
  <1>2. edit = NoEdit /\ warned' = warned
    BY DEF Edits, EditBalance, EditReference, DeleteTransfer, AddPosting, EditAmount,
       EditAccount, Edit
  <1>3. ~ warned BY <1>2 DEF Located, Reported, NoEdit
  <1> QED BY <1>1, <1>2, <1>3 DEF Located, Unforged, Reported

LEMMA CheckKeepsLocated ==
    ASSUME TypeOK, Located, RunCheck
    PROVE  Located'
PROOF
  <1>1. /\ UNCHANGED <<tables, edit, warned>> /\ phase' = phase + 1 /\ phase \in 1 .. 4
        /\ problems \subseteq problems'
    BY DEF RunCheck, Found
  <1>2. EditShows' /\ Unforged' BY <1>1 DEF tables, Located, EditShows, Unforged
  <1>3. ASSUME phase = 2, edit.kind \in {"balance", "tail"}, NEW a \in edit.accounts
        PROVE  <<"balance-drift", a>> \in problems'
    <2>1. a \in CheckBalancesMatchPostings(balances, transfers)
      BY <1>3 DEF Located, EditShows
    <2>2. problems' = problems \cup
             ({"balance-drift"} \X CheckBalancesMatchPostings(balances, transfers))
      BY <1>3 DEF RunCheck, Found
    <2> QED BY <2>1, <2>2
  <1>4. ASSUME phase = 4, edit.kind \in {"row", "deleted"}
        PROVE  <<"chain", edit.row>> \in problems'
    <2>1. edit.row \in CheckChain(transfers) BY <1>4 DEF Located, EditShows
    <2>2. problems' = problems \cup ({"chain"} \X CheckChain(transfers))
      BY <1>4 DEF RunCheck, Found
    <2> QED BY <2>1, <2>2
  <1>5. Reported'
    <2> SUFFICES ASSUME warned PROVE Reported' BY <1>1 DEF Reported
    <2>1. edit'.kind # "none" BY <1>1 DEF Located, Reported
    <2>2. ASSUME phase' \in 3 .. 5, edit'.kind \in {"balance", "tail"}, NEW a \in edit'.accounts
          PROVE  <<"balance-drift", a>> \in problems'
      <3>1. CASE phase = 2 BY <1>1, <1>3, <2>2, <3>1
      <3>2. CASE phase # 2
        <4>1. phase \in 3 .. 5 BY <1>1, <2>2, <3>2
        <4>2. <<"balance-drift", a>> \in problems BY <1>1, <2>2, <4>1 DEF Located, Reported
        <4> QED BY <1>1, <4>2
      <3> QED BY <3>1, <3>2
    <2>3. ASSUME phase' = 5, edit'.kind \in {"row", "deleted"}
          PROVE  <<"chain", edit'.row>> \in problems'
      <3>1. phase = 4 BY <1>1, <2>3
      <3> QED BY <1>1, <1>4, <2>3, <3>1
    <2> QED BY <2>1, <2>2, <2>3 DEF Reported
  <1> QED BY <1>2, <1>5 DEF Located

LEMMA LocatedStep == TypeOK /\ Quiet /\ Located /\ [Next]_vars => Located'
PROOF
  <1> SUFFICES ASSUME TypeOK, Quiet, Located, [Next]_vars PROVE Located' OBVIOUS
  <1>1. CASE UNCHANGED vars
    BY <1>1 DEF vars, tables, Located, EditShows, Unforged, Reported
  <1>2. CASE StartVerify
    <2>1. UNCHANGED <<tables, edit>> /\ phase' = 1 /\ warned' = (edit # NoEdit)
      BY <1>2 DEF StartVerify
    <2>2. EditShows' /\ Unforged' BY <2>1 DEF tables, Located, EditShows, Unforged
    <2>3. Reported'
      <3> SUFFICES ASSUME warned' PROVE Reported' BY DEF Reported
      <3>1. edit # NoEdit BY <2>1
      <3>2. edit.kind # "none" BY <3>1 DEF Located, Unforged
      <3> QED BY <2>1, <3>2 DEF Reported
    <2> QED BY <2>2, <2>3 DEF Located
  <1> QED
    BY <1>1, <1>2, PostKeepsLocated, EditKeepsLocated, CheckKeepsLocated DEF Next

\* Verify says where: whatever was rewritten, deleted or moved, and however
\* many transfers are posted on top, a pass that begins after the edit names
\* the row or the account.
THEOREM VerifyLocates == Spec => []EditIsLocated
PROOF
  <1>1. Init => Located
    <2>1. ASSUME Init PROVE EditShows /\ Unforged /\ Reported
      <3>1. edit = NoEdit /\ transfers = << >> /\ warned = FALSE /\ Len(transfers) = 0
        BY <2>1 DEF Init
      <3> QED BY <3>1 DEF NoEdit, EditShows, Unforged, Reported
    <2> QED BY <2>1 DEF Located
  <1>2. Located => EditIsLocated BY DEF Located, Reported, EditIsLocated
  <1> QED
    BY <1>1, <1>2, LocatedStep, QuietInit, QuietStep, AuditTypeCorrect, PTL DEF Spec

=============================================================================
