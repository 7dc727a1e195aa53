--------------------------- MODULE EmbeddedProofs ---------------------------
(***************************************************************************)
(* Theorems about the embedded mode, for any number of callers, accounts,  *)
(* holds and requests, transactions of any length and every way the        *)
(* embedding program may be written.                                       *)
(***************************************************************************)
EXTENDS Embedded, LedgerDataProofs, FiniteSetTheorems

-----------------------------------------------------------------------------
(* Tables and writes.                                                      *)

Statuses == {"none", "open", "archived"}

\* Transfers by id, possibly with gaps: what a snapshot with a transaction's
\* own rows looks like.
RowMaps == UNION {[D -> RowType] : D \in SUBSET Nat}

LooseTables == [accounts  : [Accounts -> Statuses], transfers : RowMaps,
                balances  : [Accounts -> Int], holds : [HoldRefs -> HoldRow]]
\* A hold that was ever placed is a hold on an account.
OnAccounts(hs) == \A h \in HoldRefs : hs[h].status # "none" => hs[h].account \in Accounts

Tables == {d \in [accounts  : [Accounts -> Statuses], transfers : Seq(RowType),
                  balances  : [Accounts -> Int], holds : [HoldRefs -> HoldRow]] :
             OnAccounts(d.holds)}

TransferWrites == [kind : {"transfer"}, id : Nat, row : RowType,
                   hold : HoldRefs \cup {0}, ok : BOOLEAN]
HoldWrites == {w \in [kind : {"hold"}, hold : HoldRefs, row : HoldRequest] :
                  w.row.account \in Accounts /\ w.row.amount \in Nat}
StatusWrites == [kind : {"status"}, holds : SUBSET HoldRefs,
                 status : {"released", "expired"}]
AccountWrites == [kind : {"account"}, account : Accounts, status : {"open", "archived"}]
Writes == TransferWrites \cup HoldWrites \cup StatusWrites \cup AccountWrites

LEMMA TablesAreLoose == Tables \subseteq LooseTables
PROOF
  <1>1. ASSUME NEW s \in Seq(RowType) PROVE s \in RowMaps
    <2>1. Len(s) \in Nat /\ s \in [1 .. Len(s) -> RowType] BY LenProperties
    <2>2. 1 .. Len(s) \in SUBSET Nat BY <2>1
    <2> QED BY <2>1, <2>2 DEF RowMaps
  <1> QED BY <1>1 DEF Tables, LooseTables

LEMMA KindsDiffer ==
    ASSUME NEW w \in Writes
    PROVE  /\ w.kind = "transfer" => w \in TransferWrites
           /\ w.kind = "hold" => w \in HoldWrites
           /\ w.kind = "status" => w \in StatusWrites
           /\ w.kind = "account" => w \in AccountWrites
           /\ w.kind \in {"transfer", "hold", "status", "account"}
BY DEF Writes, TransferWrites, HoldWrites, StatusWrites, AccountWrites

\* What each kind of write does to tables.
WithRow(trs, w) ==
    [k \in DOMAIN trs \cup {w.id} |-> IF k = w.id THEN w.row ELSE trs[k]]
WithCapture(hs, w) ==
    IF w.ok /\ w.hold # 0
    THEN [hs EXCEPT ![w.hold] = [@ EXCEPT !.status = "captured", !.transfer = w.id]]
    ELSE hs

LEMMA TransferApplied ==
    ASSUME NEW d \in LooseTables, NEW w \in TransferWrites
    PROVE  Apply(d, w) = [accounts |-> d.accounts, transfers |-> WithRow(d.transfers, w),
                          balances |-> ApplyBalances(d.balances, w.row),
                          holds |-> WithCapture(d.holds, w)]
PROOF
  <1> DEFINE hs == IF w.ok /\ w.hold # 0
                   THEN [d.holds EXCEPT ![w.hold].status = "captured",
                                        ![w.hold].transfer = w.id]
                   ELSE d.holds
  <1>1. Apply(d, w) = WriteTransfer(d, w) BY DEF Apply, TransferWrites
  <1>2. WriteTransfer(d, w) = [d EXCEPT !.transfers = WithRow(d.transfers, w),
                                        !.balances = ApplyBalances(d.balances, w.row),
                                        !.holds = hs]
    BY Zenon DEF WriteTransfer, WithRow
  <1>3. hs = WithCapture(d.holds, w)
    <2> w.hold # 0 => w.hold \in DOMAIN d.holds BY DEF LooseTables, TransferWrites
    <2> QED BY DEF WithCapture
  <1> HIDE DEF hs
  <1>4. [d EXCEPT !.transfers = WithRow(d.transfers, w),
                  !.balances = ApplyBalances(d.balances, w.row), !.holds = hs]
         = [accounts |-> d.accounts, transfers |-> WithRow(d.transfers, w),
            balances |-> ApplyBalances(d.balances, w.row), holds |-> hs]
    <2> DEFINE t == WithRow(d.transfers, w)
               u == ApplyBalances(d.balances, w.row)
               e1 == [d EXCEPT !.transfers = t]
               e2 == [e1 EXCEPT !.balances = u]
               e3 == [e2 EXCEPT !.holds = hs]
    <2>0. e3 = [d EXCEPT !.transfers = t, !.balances = u, !.holds = hs] BY Zenon
    <2> HIDE DEF t, u
    <2>1. e1 = [accounts |-> d.accounts, transfers |-> t,
                balances |-> d.balances, holds |-> d.holds]
      BY DEF LooseTables
    <2> HIDE DEF e1
    <2>2. e2 = [accounts |-> d.accounts, transfers |-> t,
                balances |-> u, holds |-> d.holds]
      BY <2>1
    <2> HIDE DEF e2
    <2>3. e3 = [accounts |-> d.accounts, transfers |-> t, balances |-> u, holds |-> hs]
      BY <2>2
    <2> QED BY <2>0, <2>3, Zenon DEF t, u
  <1> QED BY <1>1, <1>2, <1>3, <1>4

LEMMA HoldApplied ==
    ASSUME NEW d \in LooseTables, NEW w \in HoldWrites
    PROVE  Apply(d, w) = [accounts |-> d.accounts, transfers |-> d.transfers,
                          balances |-> d.balances,
                          holds |-> [d.holds EXCEPT ![w.hold] = NewHold(w.row)]]
BY DEF Apply, LooseTables, HoldWrites

LEMMA StatusApplied ==
    ASSUME NEW d \in LooseTables, NEW w \in StatusWrites
    PROVE  Apply(d, w) = [accounts |-> d.accounts, transfers |-> d.transfers,
                          balances |-> d.balances,
                          holds |-> SetStatus(d.holds, w.holds, w.status)]
BY DEF Apply, LooseTables, StatusWrites

LEMMA AccountApplied ==
    ASSUME NEW d \in LooseTables, NEW w \in AccountWrites
    PROVE  Apply(d, w) = [accounts |-> [d.accounts EXCEPT ![w.account] = w.status],
                          transfers |-> d.transfers,
                          balances |-> d.balances, holds |-> d.holds]
BY DEF Apply, LooseTables, AccountWrites

LEMMA RowMapDef ==
    ASSUME NEW trs \in RowMaps
    PROVE  /\ DOMAIN trs \subseteq Nat /\ trs \in [DOMAIN trs -> RowType]
           /\ \A k \in DOMAIN trs : trs[k] \in RowType
BY DEF RowMaps

LEMMA ApplyLoose ==
    ASSUME NEW d \in LooseTables, NEW w \in Writes PROVE Apply(d, w) \in LooseTables
PROOF
  <1>0. /\ d.accounts \in [Accounts -> Statuses] /\ d.transfers \in RowMaps
        /\ d.balances \in [Accounts -> Int] /\ d.holds \in [HoldRefs -> HoldRow]
    BY DEF LooseTables
  <1>1. CASE w.kind = "transfer"
    <2>1. w \in TransferWrites BY <1>1, KindsDiffer
    <2>2. w.id \in Nat /\ w.row \in RowType /\ w.row.postings \in Seq(Posting)
          /\ w.hold \in HoldRefs \cup {0}
      BY <2>1 DEF TransferWrites, RowType
    <2>3. WithRow(d.transfers, w) \in RowMaps
      <3> DEFINE D == DOMAIN d.transfers \cup {w.id}
      <3>1. D \in SUBSET Nat BY <1>0, <2>2, RowMapDef
      <3>2. WithRow(d.transfers, w) \in [D -> RowType]
        BY <1>0, <2>2, RowMapDef DEF WithRow
      <3> QED BY <3>1, <3>2 DEF RowMaps
    <2>4. ApplyBalances(d.balances, w.row) \in [Accounts -> Int]
      <3>1. \A a \in Accounts : Delta(w.row, a) \in Int BY <2>2, DeltaFacts
      <3> QED BY <1>0, <3>1 DEF ApplyBalances
    <2>5. WithCapture(d.holds, w) \in [HoldRefs -> HoldRow]
      BY <1>0, <2>2 DEF WithCapture, HoldRow
    <2> QED BY <1>0, <2>1, <2>3, <2>4, <2>5, TransferApplied DEF LooseTables
  <1>2. CASE w.kind = "hold"
    <2>1. w \in HoldWrites BY <1>2, KindsDiffer
    <2>2. NewHold(w.row) \in HoldRow /\ w.hold \in HoldRefs
      BY <2>1 DEF HoldWrites, HoldRequest, NewHold, HoldRow
    <2> QED BY <1>0, <2>1, <2>2, HoldApplied DEF LooseTables
  <1>3. CASE w.kind = "status"
    <2>1. w \in StatusWrites BY <1>3, KindsDiffer
    <2>2. SetStatus(d.holds, w.holds, w.status) \in [HoldRefs -> HoldRow]
      BY <1>0, <2>1 DEF SetStatus, StatusWrites, HoldRow
    <2> QED BY <1>0, <2>1, <2>2, StatusApplied DEF LooseTables
  <1>4. CASE w.kind = "account"
    <2>1. w \in AccountWrites BY <1>4, KindsDiffer
    <2> QED BY <1>0, <2>1, AccountApplied DEF LooseTables, AccountWrites, Statuses
  <1> QED BY <1>1, <1>2, <1>3, <1>4, KindsDiffer

-----------------------------------------------------------------------------
(* Replaying writes.  The recursive function has a solution, for the same  *)
(* reason as the sums of module Sums have one.                             *)

Replayed(d, ws, n, g) ==
    g = [i \in 0 .. n |-> IF i = 0 THEN d ELSE Apply(g[i - 1], ws[i])]

LEMMA ReplayedExists ==
    ASSUME NEW d, NEW ws PROVE \A n \in Nat : \E g : Replayed(d, ws, n, g)
PROOF
  <1> DEFINE S == {n \in Nat : \E g : Replayed(d, ws, n, g)}
  <1>1. 0 \in S
    <2> Replayed(d, ws, 0, [i \in 0 .. 0 |-> d]) BY DEF Replayed
    <2> QED OBVIOUS
  <1>2. ASSUME NEW n \in Nat, n \in S PROVE n + 1 \in S
    <2> PICK g : Replayed(d, ws, n, g) BY <1>2
    <2> DEFINE h == [i \in 0 .. n + 1 |->
                        IF i = n + 1 THEN Apply(g[n], ws[n + 1]) ELSE g[i]]
    <2>1. ASSUME NEW i \in 0 .. n + 1
          PROVE  h[i] = IF i = 0 THEN d ELSE Apply(h[i - 1], ws[i])
      <3>1. CASE i = n + 1 BY <3>1
      <3>2. CASE i # n + 1
        <4> i \in 0 .. n BY <3>2
        <4> g[i] = IF i = 0 THEN d ELSE Apply(g[i - 1], ws[i]) BY DEF Replayed
        <4> QED BY <3>2
      <3> QED BY <3>1, <3>2
    <2> HIDE DEF h
    <2> h = [i \in 0 .. n + 1 |-> h[i]] BY DEF h
    <2> Replayed(d, ws, n + 1, h) BY <2>1 DEF Replayed
    <2> QED OBVIOUS
  <1> HIDE DEF S
  <1>3. Nat \subseteq S BY <1>1, <1>2, NatSetInduction
  <1> QED BY <1>3 DEF S

LEMMA ReplayedAgree ==
    ASSUME NEW d, NEW ws, NEW n \in Nat, NEW m \in Nat, n =< m,
           NEW g, NEW h, Replayed(d, ws, n, g), Replayed(d, ws, m, h)
    PROVE  \A i \in 0 .. n : g[i] = h[i]
PROOF
  <1> DEFINE S == {i \in Nat : i =< n => g[i] = h[i]}
  <1>1. 0 \in S BY DEF Replayed
  <1>2. ASSUME NEW i \in Nat, i \in S PROVE i + 1 \in S
    <2> SUFFICES ASSUME i + 1 =< n PROVE g[i + 1] = h[i + 1] OBVIOUS
    <2>1. i + 1 \in 0 .. n /\ i + 1 \in 0 .. m /\ i + 1 # 0 /\ (i + 1) - 1 = i OBVIOUS
    <2>2. g[i + 1] = Apply(g[(i + 1) - 1], ws[i + 1]) BY <2>1 DEF Replayed
    <2>3. h[i + 1] = Apply(h[(i + 1) - 1], ws[i + 1]) BY <2>1 DEF Replayed
    <2> QED BY <1>2, <2>1, <2>2, <2>3
  <1> HIDE DEF S
  <1>3. Nat \subseteq S BY <1>1, <1>2, NatSetInduction
  <1> QED BY <1>3 DEF S

LEMMA AfterDef ==
    ASSUME NEW d, NEW ws
    PROVE  After(d, ws) = [i \in Nat |-> IF i = 0 THEN d
                                         ELSE Apply(After(d, ws)[i - 1], ws[i])]
PROOF
  <1> DEFINE G(n) == CHOOSE g : Replayed(d, ws, n, g)
             s == [n \in Nat |-> G(n)[n]]
  <1>1. \A n \in Nat : Replayed(d, ws, n, G(n)) BY ReplayedExists
  <1>2. ASSUME NEW n \in Nat
        PROVE s[n] = IF n = 0 THEN d ELSE Apply(s[n - 1], ws[n])
    <2>0. Replayed(d, ws, n, G(n)) BY <1>1
    <2>1. G(n)[n] = IF n = 0 THEN d ELSE Apply(G(n)[n - 1], ws[n])
      <3> HIDE DEF G
      <3> n \in 0 .. n OBVIOUS
      <3> QED BY <2>0 DEF Replayed
    <2>2. n # 0 => G(n)[n - 1] = G(n - 1)[n - 1]
      <3> SUFFICES ASSUME n # 0 PROVE G(n)[n - 1] = G(n - 1)[n - 1] OBVIOUS
      <3>1. n - 1 \in Nat /\ n - 1 =< n /\ n - 1 \in 0 .. n - 1 OBVIOUS
      <3>2. Replayed(d, ws, n - 1, G(n - 1)) BY <1>1, <3>1
      <3> HIDE DEF G
      <3> QED BY <2>0, <3>1, <3>2, ReplayedAgree
    <2> QED BY <2>1, <2>2
  <1>3. s = [i \in Nat |-> IF i = 0 THEN d ELSE Apply(s[i - 1], ws[i])]
    <2> HIDE DEF G
    <2> s = [i \in Nat |-> s[i]] OBVIOUS
    <2> HIDE DEF s
    <2> QED BY <1>2
  <1> HIDE DEF s, G
  <1> QED BY <1>3 DEF After

\* The two equations of a replay.
LEMMA AfterStep ==
    ASSUME NEW d, NEW ws
    PROVE  /\ After(d, ws)[0] = d
           /\ \A n \in Nat : After(d, ws)[n + 1] = Apply(After(d, ws)[n], ws[n + 1])
PROOF
  <1> DEFINE s == After(d, ws)
  <1>1. s = [i \in Nat |-> IF i = 0 THEN d ELSE Apply(s[i - 1], ws[i])] BY AfterDef
  <1> HIDE DEF s
  <1>2. s[0] = d BY <1>1
  <1>3. ASSUME NEW n \in Nat PROVE s[n + 1] = Apply(s[n], ws[n + 1])
    <2> n + 1 \in Nat /\ n + 1 # 0 /\ (n + 1) - 1 = n OBVIOUS
    <2> QED BY <1>1
  <1> QED BY <1>2, <1>3 DEF s

\* What is replayed first depends on the first writes only.
LEMMA AfterPrefix ==
    ASSUME NEW d, NEW ws, NEW vs, NEW n \in Nat, \A i \in 1 .. n : ws[i] = vs[i]
    PROVE  \A i \in 0 .. n : After(d, ws)[i] = After(d, vs)[i]
PROOF
  <1> DEFINE S == {i \in Nat : i =< n => After(d, ws)[i] = After(d, vs)[i]}
  <1>1. 0 \in S BY AfterStep
  <1>2. ASSUME NEW i \in Nat, i \in S PROVE i + 1 \in S
    <2> SUFFICES ASSUME i + 1 =< n PROVE After(d, ws)[i + 1] = After(d, vs)[i + 1]
      OBVIOUS
    <2>1. After(d, ws)[i] = After(d, vs)[i] /\ ws[i + 1] = vs[i + 1] BY <1>2
    <2> QED BY <2>1, AfterStep
  <1> HIDE DEF S
  <1>3. Nat \subseteq S BY <1>1, <1>2, NatSetInduction
  <1> QED BY <1>3 DEF S

\* One more write is applied last ...
LEMMA ReplayAppend ==
    ASSUME NEW S, NEW d, NEW ws \in Seq(S), NEW w \in S
    PROVE  /\ Replay(d, Append(ws, w)) = Apply(Replay(d, ws), w)
           /\ \A i \in 0 .. Len(ws) : After(d, Append(ws, w))[i] = After(d, ws)[i]
PROOF
  <1> DEFINE n == Len(ws)
             vs == Append(ws, w)
  <1>1. n \in Nat /\ Len(vs) = n + 1 /\ vs[n + 1] = w /\ \A i \in 1 .. n : ws[i] = vs[i]
    BY LenProperties, AppendProperties
  <1>2. Replay(d, vs) = After(d, vs)[n + 1] /\ Replay(d, ws) = After(d, ws)[n]
    BY <1>1 DEF Replay
  <1> HIDE DEF n, vs
  <1>3. \A i \in 0 .. n : After(d, vs)[i] = After(d, ws)[i] BY <1>1, AfterPrefix
  <1>4. After(d, vs)[n + 1] = Apply(After(d, vs)[n], vs[n + 1])
    <2> n \in Nat BY <1>1
    <2> QED BY AfterStep
  <1>5. n \in 0 .. n BY <1>1
  <1>6. vs[n + 1] = w BY <1>1
  <1>7. After(d, vs)[n + 1] = Apply(After(d, ws)[n], w) BY <1>3, <1>4, <1>5, <1>6
  <1> QED BY <1>2, <1>3, <1>7 DEF n, vs

\* ... and the first one may be applied to the tables themselves.
LEMMA ReplayTail ==
    ASSUME NEW S, NEW d, NEW ws \in Seq(S), ws # << >>
    PROVE  \A i \in 0 .. Len(ws) - 1 :
              After(Apply(d, Head(ws)), Tail(ws))[i] = After(d, ws)[i + 1]
PROOF
  <1> DEFINE n == Len(ws) - 1
             vs == Tail(ws)
             e == Apply(d, Head(ws))
             M == {i \in Nat : i =< n => After(e, vs)[i] = After(d, ws)[i + 1]}
  <1>1. n \in Nat /\ Head(ws) = ws[1] /\ Len(vs) = n /\ \A i \in 1 .. n : vs[i] = ws[i + 1]
    BY EmptySeq, LenProperties, HeadTailProperties
  <1>2. 0 \in M
    <2>1. After(e, vs)[0] = e BY AfterStep
    <2>2. After(d, ws)[0 + 1] = Apply(After(d, ws)[0], ws[0 + 1]) /\ After(d, ws)[0] = d
      BY AfterStep
    <2> QED BY <1>1, <2>1, <2>2
  <1>3. ASSUME NEW i \in Nat, i \in M PROVE i + 1 \in M
    <2> SUFFICES ASSUME i + 1 =< n PROVE After(e, vs)[i + 1] = After(d, ws)[(i + 1) + 1]
      OBVIOUS
    <2>1. After(e, vs)[i] = After(d, ws)[i + 1] BY <1>3
    <2>2. After(e, vs)[i + 1] = Apply(After(e, vs)[i], vs[i + 1])
      <3> HIDE DEF e, vs
      <3> QED BY AfterStep
    <2>3. After(d, ws)[(i + 1) + 1] = Apply(After(d, ws)[i + 1], ws[(i + 1) + 1])
      BY AfterStep
    <2>4. vs[i + 1] = ws[(i + 1) + 1] BY <1>1
    <2> QED BY <2>1, <2>2, <2>3, <2>4
  <1> HIDE DEF M
  <1>4. Nat \subseteq M BY <1>2, <1>3, NatSetInduction
  <1> QED BY <1>1, <1>4 DEF M

-----------------------------------------------------------------------------
(* A write, row by row: what becomes of a row depends on that row only.    *)

HoldAfter(row, w, h) ==
    CASE w.kind = "transfer" ->
           IF w.ok /\ w.hold = h
           THEN [row EXCEPT !.status = "captured", !.transfer = w.id] ELSE row
      [] w.kind = "hold"     -> IF w.hold = h THEN NewHold(w.row) ELSE row
      [] w.kind = "status"   -> IF h \in w.holds THEN [row EXCEPT !.status = w.status] ELSE row
      [] w.kind = "account"  -> row

AccountAfter(status, w, a) ==
    IF w.kind = "account" /\ w.account = a THEN w.status ELSE status

TransfersAfter(trs, w) == IF w.kind = "transfer" THEN WithRow(trs, w) ELSE trs

LEMMA NoHoldZero == 0 \notin HoldRefs
BY BoundsAssumption DEF HoldRefs

LEMMA ApplyColumns ==
    ASSUME NEW d \in LooseTables, NEW w \in Writes
    PROVE  /\ Apply(d, w).transfers = TransfersAfter(d.transfers, w)
           /\ Apply(d, w).balances = IF w.kind = "transfer"
                                     THEN ApplyBalances(d.balances, w.row) ELSE d.balances
           /\ \A a \in Accounts :
                 Apply(d, w).accounts[a] = AccountAfter(d.accounts[a], w, a)
           /\ \A h \in HoldRefs : Apply(d, w).holds[h] = HoldAfter(d.holds[h], w, h)
PROOF
  <1>0. d.accounts \in [Accounts -> Statuses] /\ d.holds \in [HoldRefs -> HoldRow]
    BY DEF LooseTables
  <1>1. CASE w.kind = "transfer"
    <2>1. w \in TransferWrites BY <1>1, KindsDiffer
    <2>2. /\ Apply(d, w).transfers = WithRow(d.transfers, w)
          /\ Apply(d, w).balances = ApplyBalances(d.balances, w.row)
          /\ Apply(d, w).accounts = d.accounts
          /\ Apply(d, w).holds = WithCapture(d.holds, w)
      BY <2>1, TransferApplied
    <2>3. ASSUME NEW h \in HoldRefs
          PROVE  WithCapture(d.holds, w)[h] = HoldAfter(d.holds[h], w, h)
      <3>1. HoldAfter(d.holds[h], w, h) =
              IF w.ok /\ w.hold = h
              THEN [d.holds[h] EXCEPT !.status = "captured", !.transfer = w.id]
              ELSE d.holds[h]
        BY <1>1 DEF HoldAfter
      <3>2. CASE w.ok /\ w.hold # 0
        <4>1. WithCapture(d.holds, w) =
                [d.holds EXCEPT ![w.hold] = [d.holds[w.hold] EXCEPT !.status = "captured",
                                                                    !.transfer = w.id]]
          BY <3>2 DEF WithCapture
        <4> QED BY <1>0, <3>1, <3>2, <4>1
      <3>3. CASE ~ (w.ok /\ w.hold # 0)
        <4>1. WithCapture(d.holds, w) = d.holds BY <3>3 DEF WithCapture
        <4>2. h # 0 BY NoHoldZero
        <4> QED BY <3>1, <3>3, <4>1, <4>2
      <3> QED BY <3>2, <3>3
    <2> QED BY <1>1, <2>2, <2>3 DEF TransfersAfter, AccountAfter
  <1>2. CASE w.kind = "hold"
    <2>1. w \in HoldWrites BY <1>2, KindsDiffer
    <2>2. /\ Apply(d, w).transfers = d.transfers /\ Apply(d, w).balances = d.balances
          /\ Apply(d, w).accounts = d.accounts
          /\ Apply(d, w).holds = [d.holds EXCEPT ![w.hold] = NewHold(w.row)]
      BY <2>1, HoldApplied
    <2>3. \A h \in HoldRefs : HoldAfter(d.holds[h], w, h) =
             IF w.hold = h THEN NewHold(w.row) ELSE d.holds[h]
      BY <1>2 DEF HoldAfter
    <2> QED BY <1>0, <1>2, <2>2, <2>3 DEF TransfersAfter, AccountAfter
  <1>3. CASE w.kind = "status"
    <2>1. w \in StatusWrites BY <1>3, KindsDiffer
    <2>2. /\ Apply(d, w).transfers = d.transfers /\ Apply(d, w).balances = d.balances
          /\ Apply(d, w).accounts = d.accounts
          /\ Apply(d, w).holds = SetStatus(d.holds, w.holds, w.status)
      BY <2>1, StatusApplied
    <2>3. \A h \in HoldRefs : HoldAfter(d.holds[h], w, h) =
             IF h \in w.holds THEN [d.holds[h] EXCEPT !.status = w.status] ELSE d.holds[h]
      BY <1>3 DEF HoldAfter
    <2> QED BY <1>3, <2>2, <2>3 DEF TransfersAfter, AccountAfter, SetStatus
  <1>4. CASE w.kind = "account"
    <2>1. w \in AccountWrites BY <1>4, KindsDiffer
    <2>2. /\ Apply(d, w).transfers = d.transfers /\ Apply(d, w).balances = d.balances
          /\ Apply(d, w).accounts = [d.accounts EXCEPT ![w.account] = w.status]
          /\ Apply(d, w).holds = d.holds
      BY <2>1, AccountApplied
    <2>3. \A h \in HoldRefs : HoldAfter(d.holds[h], w, h) = d.holds[h]
      BY <1>4 DEF HoldAfter
    <2> QED BY <1>0, <1>4, <2>2, <2>3 DEF TransfersAfter, AccountAfter
  <1> QED BY <1>1, <1>2, <1>3, <1>4, KindsDiffer

\* A hold that has a row keeps one.
LEMMA RowsStay ==
    ASSUME NEW row \in HoldRow, row.status # "none", NEW w \in Writes, NEW h
    PROVE  HoldAfter(row, w, h).status # "none"
BY KindsDiffer DEF HoldAfter, HoldRow, NewHold, StatusWrites

\* Replays stay loose tables.
LEMMA AfterLoose ==
    ASSUME NEW d \in LooseTables, NEW ws \in Seq(Writes)
    PROVE  /\ \A i \in 0 .. Len(ws) : After(d, ws)[i] \in LooseTables
           /\ Replay(d, ws) \in LooseTables
PROOF
  <1> DEFINE S == {i \in Nat : i =< Len(ws) => After(d, ws)[i] \in LooseTables}
  <1>0. Len(ws) \in Nat /\ \A i \in 1 .. Len(ws) : ws[i] \in Writes
    BY LenProperties, ElementOfSeq
  <1>1. 0 \in S BY AfterStep
  <1>2. ASSUME NEW i \in Nat, i \in S PROVE i + 1 \in S
    <2> SUFFICES ASSUME i + 1 =< Len(ws) PROVE After(d, ws)[i + 1] \in LooseTables OBVIOUS
    <2>1. After(d, ws)[i] \in LooseTables BY <1>0, <1>2
    <2>2. After(d, ws)[i + 1] = Apply(After(d, ws)[i], ws[i + 1]) BY AfterStep
    <2>3. ws[i + 1] \in Writes BY <1>0
    <2> QED BY <2>1, <2>2, <2>3, ApplyLoose
  <1> HIDE DEF S
  <1>3. Nat \subseteq S BY <1>1, <1>2, NatSetInduction
  <1>4. \A i \in 0 .. Len(ws) : After(d, ws)[i] \in LooseTables BY <1>3 DEF S
  <1> QED BY <1>0, <1>4 DEF Replay

-----------------------------------------------------------------------------
(* What other transactions leave alone.  The owner of the locks of the     *)
(* accounts A and of the holds H, and of the chain lock if ch, finds the   *)
(* tables e as it found d: its rows are as they were, no hold has been     *)
(* placed on its accounts, and transfers have been added only if the chain *)
(* is not its own.                                                         *)

Kept(A, H, ch, d, e) ==
    /\ \A a \in A : e.accounts[a] = d.accounts[a] /\ e.balances[a] = d.balances[a]
    /\ \A h \in H : e.holds[h] = d.holds[h]
    /\ \A h \in HoldRefs : e.holds[h].status = "active" /\ e.holds[h].account \in A
                             => e.holds[h] = d.holds[h]
    /\ ch => e.transfers = d.transfers
    /\ DOMAIN d.transfers \subseteq DOMAIN e.transfers
    /\ \A k \in DOMAIN d.transfers : e.transfers[k] = d.transfers[k]

\* The rows a write is about are locked ...
Within(A, H, ch, w) ==
    /\ w.kind = "transfer" => ch /\ Touched(w.row) \subseteq A /\ (w.hold # 0 => w.hold \in H)
    /\ w.kind = "hold" => w.hold \in H /\ w.row.account \in A
    /\ w.kind = "status" => w.holds \subseteq H
    /\ w.kind = "account" => w.account \in A

\* ... or none of them is.
Apart(A, H, ch, w) ==
    /\ w.kind = "transfer" => ~ ch /\ Touched(w.row) \cap A = {} /\ w.hold \notin H
    /\ w.kind = "hold" => w.hold \notin H /\ w.row.account \notin A
    /\ w.kind = "status" => w.holds \cap H = {}
    /\ w.kind = "account" => w.account \notin A

LEMMA ApartKept ==
    ASSUME NEW A \in SUBSET Accounts, NEW H \in SUBSET HoldRefs, NEW ch \in BOOLEAN,
           NEW d \in LooseTables, NEW w \in Writes, Apart(A, H, ch, w),
           w.kind = "transfer" => w.id \notin DOMAIN d.transfers
    PROVE  Kept(A, H, ch, d, Apply(d, w))
PROOF
  <1> DEFINE e == Apply(d, w)
  <1>0. d.balances \in [Accounts -> Int] /\ d.holds \in [HoldRefs -> HoldRow]
    BY DEF LooseTables
  <1>c. /\ e.transfers = TransfersAfter(d.transfers, w)
        /\ e.balances = IF w.kind = "transfer"
                        THEN ApplyBalances(d.balances, w.row) ELSE d.balances
        /\ \A a \in Accounts : e.accounts[a] = AccountAfter(d.accounts[a], w, a)
        /\ \A h \in HoldRefs : e.holds[h] = HoldAfter(d.holds[h], w, h)
    BY ApplyColumns
  <1> HIDE DEF e
  <1>1. \A a \in A : e.accounts[a] = d.accounts[a] BY <1>c DEF AccountAfter, Apart
  <1>2. ASSUME NEW a \in A PROVE e.balances[a] = d.balances[a]
    <2>1. CASE w.kind = "transfer"
      <3>1. w.row.postings \in Seq(Posting) BY <2>1, KindsDiffer DEF TransferWrites, RowType
      <3>2. a \notin Touched(w.row) BY <2>1 DEF Apart
      <3>3. Delta(w.row, a) = 0 BY <3>1, <3>2, DeltaFacts
      <3>4. e.balances[a] = d.balances[a] + Delta(w.row, a)
        BY <1>c, <2>1 DEF ApplyBalances
      <3> QED BY <1>0, <3>3, <3>4
    <2>2. CASE w.kind # "transfer" BY <1>c, <2>2
    <2> QED BY <2>1, <2>2
  <1>3. \A h \in H : HoldAfter(d.holds[h], w, h) = d.holds[h]
    BY KindsDiffer DEF Apart, HoldAfter
  <1>4. ASSUME NEW h \in HoldRefs, e.holds[h].status = "active", e.holds[h].account \in A
        PROVE  e.holds[h] = d.holds[h]
    <2>1. e.holds[h] = HoldAfter(d.holds[h], w, h) /\ d.holds[h] \in HoldRow BY <1>0, <1>c
    <2>2. CASE w.kind = "transfer" BY <1>4, <2>1, <2>2 DEF HoldAfter, HoldRow
    <2>3. CASE w.kind = "hold" BY <1>4, <2>1, <2>3 DEF HoldAfter, NewHold, Apart
    <2>4. CASE w.kind = "status"
      <3> w.status # "active" BY <2>4, KindsDiffer DEF StatusWrites
      <3> QED BY <1>4, <2>1, <2>4 DEF HoldAfter, HoldRow
    <2>5. CASE w.kind = "account" BY <2>1, <2>5 DEF HoldAfter
    <2> QED BY <2>2, <2>3, <2>4, <2>5, KindsDiffer
  <1>5. ch => e.transfers = d.transfers BY <1>c DEF Apart, TransfersAfter
  <1>6. /\ DOMAIN d.transfers \subseteq DOMAIN e.transfers
        /\ \A k \in DOMAIN d.transfers : e.transfers[k] = d.transfers[k]
    BY <1>c DEF TransfersAfter, WithRow
  <1> QED BY <1>1, <1>2, <1>3, <1>4, <1>5, <1>6, <1>c DEF Kept, e

LEMMA WithinKept ==
    ASSUME NEW A \in SUBSET Accounts, NEW H \in SUBSET HoldRefs, NEW ch \in BOOLEAN,
           NEW d \in LooseTables, NEW e \in LooseTables, Kept(A, H, ch, d, e),
           NEW w \in Writes, Within(A, H, ch, w)
    PROVE  Kept(A, H, ch, Apply(d, w), Apply(e, w))
PROOF
  <1> DEFINE f == Apply(d, w)
             g == Apply(e, w)
  <1>0. /\ d.balances \in [Accounts -> Int] /\ d.holds \in [HoldRefs -> HoldRow]
        /\ e.balances \in [Accounts -> Int] /\ e.holds \in [HoldRefs -> HoldRow]
    BY DEF LooseTables
  <1>d. /\ f.transfers = TransfersAfter(d.transfers, w)
        /\ f.balances = IF w.kind = "transfer"
                        THEN ApplyBalances(d.balances, w.row) ELSE d.balances
        /\ \A a \in Accounts : f.accounts[a] = AccountAfter(d.accounts[a], w, a)
        /\ \A h \in HoldRefs : f.holds[h] = HoldAfter(d.holds[h], w, h)
    BY ApplyColumns
  <1>e. /\ g.transfers = TransfersAfter(e.transfers, w)
        /\ g.balances = IF w.kind = "transfer"
                        THEN ApplyBalances(e.balances, w.row) ELSE e.balances
        /\ \A a \in Accounts : g.accounts[a] = AccountAfter(e.accounts[a], w, a)
        /\ \A h \in HoldRefs : g.holds[h] = HoldAfter(e.holds[h], w, h)
    BY ApplyColumns
  <1> HIDE DEF f, g
  <1>1. \A a \in A : g.accounts[a] = f.accounts[a] BY <1>d, <1>e DEF Kept
  <1>2. \A a \in A : g.balances[a] = f.balances[a] BY <1>d, <1>e DEF Kept, ApplyBalances
  <1>3. \A h \in H : g.holds[h] = f.holds[h] BY <1>d, <1>e DEF Kept
  <1>4. ASSUME NEW h \in HoldRefs, g.holds[h].status = "active", g.holds[h].account \in A
        PROVE  g.holds[h] = f.holds[h]
    <2>1. CASE h \in H BY <1>3, <2>1
    <2>2. CASE h \notin H
      <3>1. HoldAfter(e.holds[h], w, h) = e.holds[h] /\ HoldAfter(d.holds[h], w, h) = d.holds[h]
        BY <2>2, KindsDiffer, NoHoldZero DEF HoldAfter, Within
      <3> QED BY <1>4, <1>d, <1>e, <3>1 DEF Kept
    <2> QED BY <2>1, <2>2
  <1>5. ch => g.transfers = f.transfers BY <1>d, <1>e DEF Kept
  <1>6. /\ DOMAIN f.transfers \subseteq DOMAIN g.transfers
        /\ \A k \in DOMAIN f.transfers : g.transfers[k] = f.transfers[k]
    <2>1. CASE w.kind = "transfer" BY <1>5, <2>1 DEF Within
    <2>2. CASE w.kind # "transfer" BY <1>d, <1>e, <2>2 DEF Kept, TransfersAfter
    <2> QED BY <2>1, <2>2
  <1> QED BY <1>1, <1>2, <1>3, <1>4, <1>5, <1>6 DEF Kept, f, g

\* So it finds the tables it sees, its own writes included, as it left them.
LEMMA ReplayKept ==
    ASSUME NEW A \in SUBSET Accounts, NEW H \in SUBSET HoldRefs, NEW ch \in BOOLEAN,
           NEW d \in LooseTables, NEW e \in LooseTables, Kept(A, H, ch, d, e),
           NEW ws \in Seq(Writes), \A i \in 1 .. Len(ws) : Within(A, H, ch, ws[i])
    PROVE  /\ \A i \in 0 .. Len(ws) : Kept(A, H, ch, After(d, ws)[i], After(e, ws)[i])
           /\ Kept(A, H, ch, Replay(d, ws), Replay(e, ws))
PROOF
  <1> DEFINE S == {i \in Nat : i =< Len(ws) =>
                                  Kept(A, H, ch, After(d, ws)[i], After(e, ws)[i])}
  <1>0. Len(ws) \in Nat /\ \A i \in 1 .. Len(ws) : ws[i] \in Writes
    BY LenProperties, ElementOfSeq
  <1>1. 0 \in S BY AfterStep
  <1>2. ASSUME NEW i \in Nat, i \in S PROVE i + 1 \in S
    <2> SUFFICES ASSUME i + 1 =< Len(ws)
                 PROVE  Kept(A, H, ch, After(d, ws)[i + 1], After(e, ws)[i + 1])
      OBVIOUS
    <2>1. Kept(A, H, ch, After(d, ws)[i], After(e, ws)[i]) BY <1>0, <1>2
    <2>2. After(d, ws)[i + 1] = Apply(After(d, ws)[i], ws[i + 1])
          /\ After(e, ws)[i + 1] = Apply(After(e, ws)[i], ws[i + 1])
      BY AfterStep
    <2>3. i + 1 \in 1 .. Len(ws) /\ i \in 0 .. Len(ws) BY <1>0
    <2>4. ws[i + 1] \in Writes /\ Within(A, H, ch, ws[i + 1]) BY <1>0, <2>3
    <2>5. After(d, ws)[i] \in LooseTables /\ After(e, ws)[i] \in LooseTables
      BY <2>3, AfterLoose
    <2> QED BY <2>1, <2>2, <2>4, <2>5, WithinKept
  <1> HIDE DEF S
  <1>3. Nat \subseteq S BY <1>1, <1>2, NatSetInduction
  <1>4. \A i \in 0 .. Len(ws) : Kept(A, H, ch, After(d, ws)[i], After(e, ws)[i])
    BY <1>0, <1>3 DEF S
  <1> QED BY <1>0, <1>4 DEF Replay

-----------------------------------------------------------------------------
(* What a snapshot shares with the committed tables, the transaction's own *)
(* writes leave shared.                                                    *)

Part(trs, urs) ==
    /\ DOMAIN trs \subseteq DOMAIN urs
    /\ \A k \in DOMAIN trs : urs[k] = trs[k]

Shares(d, e, f, g) ==
    /\ \A a \in Accounts : d.accounts[a] = e.accounts[a] => f.accounts[a] = g.accounts[a]
    /\ \A a \in Accounts : d.accounts[a] # "none" => f.accounts[a] # "none"
    /\ \A h \in HoldRefs : d.holds[h] = e.holds[h] => f.holds[h] = g.holds[h]
    /\ \A h \in HoldRefs : d.holds[h].status = e.holds[h].status
                             => f.holds[h].status = g.holds[h].status
    /\ \A h \in HoldRefs : d.holds[h].status # "none" => f.holds[h].status # "none"
    /\ Part(d.transfers, e.transfers) => Part(f.transfers, g.transfers)

LEMMA ApplyShares ==
    ASSUME NEW d \in LooseTables, NEW e \in LooseTables, NEW w \in Writes
    PROVE  Shares(d, e, Apply(d, w), Apply(e, w))
PROOF
  <1> DEFINE f == Apply(d, w)
             g == Apply(e, w)
  <1>0. d.holds \in [HoldRefs -> HoldRow] /\ e.holds \in [HoldRefs -> HoldRow]
    BY DEF LooseTables
  <1>d. /\ f.transfers = TransfersAfter(d.transfers, w)
        /\ \A a \in Accounts : f.accounts[a] = AccountAfter(d.accounts[a], w, a)
        /\ \A h \in HoldRefs : f.holds[h] = HoldAfter(d.holds[h], w, h)
    BY ApplyColumns
  <1>e. /\ g.transfers = TransfersAfter(e.transfers, w)
        /\ \A a \in Accounts : g.accounts[a] = AccountAfter(e.accounts[a], w, a)
        /\ \A h \in HoldRefs : g.holds[h] = HoldAfter(e.holds[h], w, h)
    BY ApplyColumns
  <1> HIDE DEF f, g
  <1>1. ASSUME NEW h \in HoldRefs, d.holds[h].status = e.holds[h].status
        PROVE  f.holds[h].status = g.holds[h].status
    <2>1. ASSUME NEW row \in HoldRow
          PROVE  HoldAfter(row, w, h).status =
                   IF w.kind = "transfer" /\ w.ok /\ w.hold = h THEN "captured"
                   ELSE IF w.kind = "hold" /\ w.hold = h THEN "active"
                   ELSE IF w.kind = "status" /\ h \in w.holds THEN w.status
                   ELSE row.status
      <3>1. CASE w.kind = "transfer" BY <3>1 DEF HoldAfter, HoldRow
      <3>2. CASE w.kind = "hold" BY <3>2 DEF HoldAfter, NewHold
      <3>3. CASE w.kind = "status" BY <3>3 DEF HoldAfter, HoldRow
      <3>4. CASE w.kind = "account" BY <3>4 DEF HoldAfter
      <3> QED BY <3>1, <3>2, <3>3, <3>4, KindsDiffer
    <2>2. /\ f.holds[h].status = HoldAfter(d.holds[h], w, h).status
          /\ g.holds[h].status = HoldAfter(e.holds[h], w, h).status
          /\ d.holds[h] \in HoldRow /\ e.holds[h] \in HoldRow
      BY <1>0, <1>d, <1>e
    <2> QED BY <1>1, <2>1, <2>2
  <1>2. ASSUME NEW h \in HoldRefs, d.holds[h].status # "none"
        PROVE  f.holds[h].status # "none"
    BY <1>0, <1>2, <1>d, RowsStay
  <1>3. ASSUME Part(d.transfers, e.transfers) PROVE Part(f.transfers, g.transfers)
    BY <1>3, <1>d, <1>e DEF Part, TransfersAfter, WithRow
  <1>4. ASSUME NEW a \in Accounts, d.accounts[a] # "none" PROVE f.accounts[a] # "none"
    BY <1>4, <1>d, KindsDiffer DEF AccountAfter, AccountWrites
  <1>5. \A a \in Accounts : d.accounts[a] = e.accounts[a] => f.accounts[a] = g.accounts[a]
    BY <1>d, <1>e
  <1>6. \A h \in HoldRefs : d.holds[h] = e.holds[h] => f.holds[h] = g.holds[h]
    BY <1>d, <1>e
  <1> QED BY <1>1, <1>2, <1>3, <1>4, <1>5, <1>6 DEF Shares, f, g

LEMMA ReplayShares ==
    ASSUME NEW d \in LooseTables, NEW e \in LooseTables, NEW ws \in Seq(Writes)
    PROVE  Shares(d, e, Replay(d, ws), Replay(e, ws))
PROOF
  <1> DEFINE S == {i \in Nat : i =< Len(ws) =>
                                  Shares(d, e, After(d, ws)[i], After(e, ws)[i])}
  <1>0. Len(ws) \in Nat /\ \A i \in 1 .. Len(ws) : ws[i] \in Writes
    BY LenProperties, ElementOfSeq
  <1>1. 0 \in S BY AfterStep DEF Shares
  <1>2. ASSUME NEW i \in Nat, i \in S PROVE i + 1 \in S
    <2> SUFFICES ASSUME i + 1 =< Len(ws)
                 PROVE  Shares(d, e, After(d, ws)[i + 1], After(e, ws)[i + 1])
      OBVIOUS
    <2>1. Shares(d, e, After(d, ws)[i], After(e, ws)[i]) BY <1>0, <1>2
    <2>2. After(d, ws)[i + 1] = Apply(After(d, ws)[i], ws[i + 1])
          /\ After(e, ws)[i + 1] = Apply(After(e, ws)[i], ws[i + 1])
      BY AfterStep
    <2>3. i + 1 \in 1 .. Len(ws) /\ i \in 0 .. Len(ws) BY <1>0
    <2>4. ws[i + 1] \in Writes BY <1>0, <2>3
    <2>5. After(d, ws)[i] \in LooseTables /\ After(e, ws)[i] \in LooseTables
      BY <2>3, AfterLoose
    <2>6. Shares(After(d, ws)[i], After(e, ws)[i], After(d, ws)[i + 1], After(e, ws)[i + 1])
      BY <2>2, <2>4, <2>5, ApplyShares
    <2> QED BY <2>1, <2>6 DEF Shares
  <1> HIDE DEF S
  <1>3. Nat \subseteq S BY <1>1, <1>2, NatSetInduction
  <1> QED BY <1>0, <1>3 DEF S, Replay

\* A replay adds the ids of its transfers.
Ids(ws) == {ws[i].id : i \in {j \in DOMAIN ws : ws[j].kind = "transfer"}}

LEMMA ReplayIds ==
    ASSUME NEW d \in LooseTables, NEW ws \in Seq(Writes)
    PROVE  DOMAIN Replay(d, ws).transfers = DOMAIN d.transfers \cup Ids(ws)
PROOF
  <1> DEFINE Upto(n) == {ws[i].id : i \in {j \in 1 .. n : ws[j].kind = "transfer"}}
             S == {n \in Nat : n =< Len(ws) => DOMAIN After(d, ws)[n].transfers
                                                 = DOMAIN d.transfers \cup Upto(n)}
  <1>0. /\ Len(ws) \in Nat /\ DOMAIN ws = 1 .. Len(ws)
        /\ \A i \in 1 .. Len(ws) : ws[i] \in Writes
    BY LenProperties, ElementOfSeq
  <1>1. 0 \in S BY AfterStep
  <1>2. ASSUME NEW n \in Nat, n \in S PROVE n + 1 \in S
    <2> SUFFICES ASSUME n + 1 =< Len(ws)
                 PROVE  DOMAIN After(d, ws)[n + 1].transfers
                          = DOMAIN d.transfers \cup Upto(n + 1)
      OBVIOUS
    <2>1. DOMAIN After(d, ws)[n].transfers = DOMAIN d.transfers \cup Upto(n)
      BY <1>0, <1>2
    <2>2. After(d, ws)[n + 1] = Apply(After(d, ws)[n], ws[n + 1]) BY AfterStep
    <2>3. n + 1 \in 1 .. Len(ws) /\ n \in 0 .. Len(ws) BY <1>0
    <2>4. ws[n + 1] \in Writes /\ After(d, ws)[n] \in LooseTables
      BY <1>0, <2>3, AfterLoose
    <2>5. After(d, ws)[n + 1].transfers = TransfersAfter(After(d, ws)[n].transfers, ws[n + 1])
      BY <2>2, <2>4, ApplyColumns
    <2>6. Upto(n + 1) = Upto(n) \cup
             (IF ws[n + 1].kind = "transfer" THEN {ws[n + 1].id} ELSE {})
      <3> \A j : j \in 1 .. n + 1 <=> j \in 1 .. n \/ j = n + 1 OBVIOUS
      <3> QED OBVIOUS
    <2> HIDE DEF Upto
    <2> QED BY <2>1, <2>5, <2>6 DEF TransfersAfter, WithRow
  <1> HIDE DEF S
  <1>3. Nat \subseteq S BY <1>1, <1>2, NatSetInduction
  <1> QED BY <1>0, <1>3 DEF S, Replay, Ids

-----------------------------------------------------------------------------
(* What the package has checked of a write, in the tables it goes on top   *)
(* of: always ...                                                          *)

Origin(t, h, trs) ==
    \/ h = 0 /\ t \in Requests
    \/ h = 0 /\ \E k \in DOMAIN trs, ref \in ReversalRefs : t = Reversal(trs[k], k, ref)
    \/ h # 0 /\ <<h, t>> \in CaptureRequests

LawfulTransfer(d, w) ==
    /\ w.id = Len(d.transfers) + 1
    /\ Origin(Content(w.row), w.hold, d.transfers)
    /\ Validate(Content(w.row))
    /\ AccountsAccept(d.accounts, Content(w.row))
    /\ Unused(d.transfers, Content(w.row))
    /\ w.hold # 0 => /\ d.holds[w.hold].status = "active"
                     /\ Draws(Content(w.row), d.holds[w.hold].account, d.holds[w.hold].amount)

LawfulHold(d, w) ==
    /\ w.row \in HoldRequests /\ w.hold = w.row.reference /\ w.hold # 0 /\ w.row.amount > 0
    /\ w.row.account \in Accounts /\ d.accounts[w.row.account] = "open"
    /\ Chart[w.row.account].currency = w.row.currency
    /\ d.holds[w.hold].status = "none"

LawfulStatus(d, w) ==
    /\ \A h \in w.holds : d.holds[h].status = "active"
    /\ w.status = "expired" => \A h \in w.holds : d.holds[h].expires
    /\ w.status = "released" => \E h \in HoldRefs : w.holds = {h}

LawfulAccount(d, w) ==
    /\ w.status = "open" => d.accounts[w.account] = "none"
    /\ w.status = "archived" => d.accounts[w.account] # "none"

Lawful(d, w) ==
    /\ w.kind = "transfer" => LawfulTransfer(d, w)
    /\ w.kind = "hold" => LawfulHold(d, w)
    /\ w.kind = "status" => LawfulStatus(d, w)
    /\ w.kind = "account" => LawfulAccount(d, w)

\* ... and when no call of the transaction has failed and what it reads is what
\* is committed.
Strict(d, w) ==
    /\ w.kind = "transfer" =>
         /\ w.ok
         /\ w.row = Row(Content(w.row), TailHash(d.transfers))
         /\ Covered(d.balances, d.holds, Content(w.row), w.hold)
    /\ w.kind = "hold" =>
         (~ Chart[w.row.account].allowNegative
             => AvailableLocked(d.balances, d.holds, w.row.account, 0) >= w.row.amount)

\* The content of a stored row is a transfer, on the same accounts.
LEMMA ContentFacts ==
    ASSUME NEW row \in RowType
    PROVE  /\ Content(row) \in Transfer
           /\ Content(row).postings = row.postings
           /\ Content(row).reverses = row.reverses
           /\ Content(row).reference = row.reference
           /\ Touched(Content(row)) = Touched(row)
           /\ Content(row).postings \in Seq(Posting)
BY SamePostings DEF Content, RowType, Transfer

\* What a transaction has checked under its locks, others leave true.
LEMMA LawStays ==
    ASSUME NEW A \in SUBSET Accounts, NEW H \in SUBSET HoldRefs, NEW ch \in BOOLEAN,
           NEW d \in LooseTables, NEW e \in LooseTables, Kept(A, H, ch, d, e),
           NEW w \in Writes, Within(A, H, ch, w)
    PROVE  /\ Lawful(d, w) => Lawful(e, w)
           /\ Lawful(d, w) /\ Strict(d, w) => Strict(e, w)
PROOF
  <1>0. /\ d.balances \in [Accounts -> Int] /\ d.holds \in [HoldRefs -> HoldRow]
        /\ e.balances \in [Accounts -> Int] /\ e.holds \in [HoldRefs -> HoldRow]
    BY DEF LooseTables
  <1>k. /\ \A a \in A : e.accounts[a] = d.accounts[a] /\ e.balances[a] = d.balances[a]
        /\ \A h \in H : e.holds[h] = d.holds[h]
        /\ \A h \in HoldRefs : e.holds[h].status = "active" /\ e.holds[h].account \in A
                                 => e.holds[h] = d.holds[h]
        /\ ch => e.transfers = d.transfers
    BY DEF Kept
  <1> SUFFICES ASSUME Lawful(d, w)
               PROVE  Lawful(e, w) /\ (Strict(d, w) => Strict(e, w))
    OBVIOUS
  <1>1. CASE w.kind = "transfer"
    <2> DEFINE t == Content(w.row)
    <2>1. w.row \in RowType /\ w.hold \in HoldRefs \cup {0}
      BY <1>1, KindsDiffer DEF TransferWrites
    <2>2. t.postings \in Seq(Posting) /\ Touched(t) \subseteq A /\ ch = TRUE
      BY <1>1, <2>1, ContentFacts DEF Within
    <2>3. e.transfers = d.transfers /\ (w.hold # 0 => e.holds[w.hold] = d.holds[w.hold])
      BY <1>1, <1>k, <2>2 DEF Within
    <2>4. LawfulTransfer(d, w) BY <1>1 DEF Lawful
    <2>5. AccountsAccept(e.accounts, t)
      <3>1. AccountsAccept(d.accounts, t) BY <2>4 DEF LawfulTransfer
      <3>2. \A i \in 1 .. Len(t.postings) : t.postings[i].account \in A
        BY <2>2 DEF Touched
      <3> HIDE DEF t
      <3> QED BY <1>k, <3>1, <3>2 DEF AccountsAccept
    <2>6. LawfulTransfer(e, w) BY <2>3, <2>4, <2>5 DEF LawfulTransfer
    <2>7. ASSUME Covered(d.balances, d.holds, t, w.hold)
          PROVE  Covered(e.balances, e.holds, t, w.hold)
      <3>1. \A a \in Touched(t) : e.balances[a] = d.balances[a] BY <1>k, <2>2
      <3>2. Touched(t) \subseteq Accounts BY <2>2
      <3>3. \A h \in HoldRefs :
              e.holds[h].status = "active" /\ e.holds[h].account \in Touched(t)
                => e.holds[h] = d.holds[h]
        BY <1>k, <2>2
      <3> HIDE DEF t
      <3> QED BY <1>0, <2>2, <2>7, <3>1, <3>2, <3>3, CoveredStays
    <2> QED BY <1>1, <2>3, <2>6, <2>7 DEF Lawful, Strict
  <1>2. CASE w.kind = "hold"
    <2>1. LawfulHold(d, w) BY <1>2 DEF Lawful
    <2>2. /\ w.row.account \in A /\ w.hold \in H /\ w.row.amount \in Int
          /\ w.row.account \in Accounts
      BY <1>2, KindsDiffer DEF Within, HoldWrites
    <2>3. LawfulHold(e, w) BY <1>k, <2>1, <2>2 DEF LawfulHold
    <2>4. ASSUME AvailableLocked(d.balances, d.holds, w.row.account, 0) >= w.row.amount
          PROVE  AvailableLocked(e.balances, e.holds, w.row.account, 0) >= w.row.amount
      <3>1. \A h \in HoldRefs :
              e.holds[h].status = "active" /\ e.holds[h].account = w.row.account
                => e.holds[h] = d.holds[h]
        BY <1>k, <2>2
      <3>2. e.balances[w.row.account] = d.balances[w.row.account] BY <1>k, <2>2
      <3> QED BY <1>0, <2>2, <2>4, <3>1, <3>2, AvailableStays
    <2> QED BY <1>2, <2>3, <2>4 DEF Lawful, Strict
  <1>3. CASE w.kind = "status"
    <2>1. LawfulStatus(d, w) /\ w.holds \subseteq H BY <1>3 DEF Lawful, Within
    <2>2. LawfulStatus(e, w) BY <1>k, <2>1 DEF LawfulStatus
    <2> QED BY <1>3, <2>2 DEF Lawful, Strict
  <1>4. CASE w.kind = "account"
    <2>1. LawfulAccount(d, w) /\ w.account \in A BY <1>4 DEF Lawful, Within
    <2>2. LawfulAccount(e, w) BY <1>k, <2>1 DEF LawfulAccount
    <2> QED BY <1>4, <2>2 DEF Lawful, Strict
  <1> QED BY <1>1, <1>2, <1>3, <1>4, KindsDiffer

\* A lawful write makes tables with consecutive ids of such tables.
LEMMA LawTables ==
    ASSUME NEW d \in Tables, NEW w \in Writes, Lawful(d, w)
    PROVE  /\ Apply(d, w) \in Tables
           /\ w.kind = "transfer" => Apply(d, w).transfers = Append(d.transfers, w.row)
           /\ w.kind # "transfer" => Apply(d, w).transfers = d.transfers
PROOF
  <1>1. d \in LooseTables /\ Apply(d, w) \in LooseTables BY TablesAreLoose, ApplyLoose
  <1>2. Apply(d, w).transfers = TransfersAfter(d.transfers, w) BY <1>1, ApplyColumns
  <1>3. d.transfers \in Seq(RowType) BY DEF Tables
  <1>6. OnAccounts(Apply(d, w).holds)
    <2> SUFFICES ASSUME NEW h \in HoldRefs, Apply(d, w).holds[h].status # "none"
                 PROVE  Apply(d, w).holds[h].account \in Accounts
      BY DEF OnAccounts
    <2> DEFINE row == d.holds[h]
    <2>1. Apply(d, w).holds[h] = HoldAfter(row, w, h) BY <1>1, ApplyColumns
    <2>2. row.status # "none" => row.account \in Accounts BY DEF Tables, OnAccounts
    <2>3. row \in HoldRow BY <1>1 DEF LooseTables
    <2>4. w.kind = "transfer" /\ w.hold = h => row.status = "active"
      BY NoHoldZero DEF Lawful, LawfulTransfer
    <2>5. w.kind = "hold" => w.row.account \in Accounts BY KindsDiffer DEF HoldWrites
    <2>6. w.kind = "status" /\ h \in w.holds => row.status = "active"
      BY DEF Lawful, LawfulStatus
    <2> HIDE DEF row
    <2>7. HoldAfter(row, w, h).status # "none" => HoldAfter(row, w, h).account \in Accounts
      <3>1. CASE w.kind = "transfer"
        <4>1. [row EXCEPT !.status = "captured", !.transfer = w.id].account = row.account
          BY <2>3 DEF HoldRow
        <4>2. HoldAfter(row, w, h) = IF w.ok /\ w.hold = h
                THEN [row EXCEPT !.status = "captured", !.transfer = w.id] ELSE row
          BY <3>1 DEF HoldAfter
        <4> QED BY <2>2, <2>4, <3>1, <4>1, <4>2
      <3>2. CASE w.kind = "hold"
        <4>1. HoldAfter(row, w, h) = IF w.hold = h THEN NewHold(w.row) ELSE row
          BY <3>2 DEF HoldAfter
        <4> QED BY <2>2, <2>5, <3>2, <4>1 DEF NewHold
      <3>3. CASE w.kind = "status"
        <4>1. [row EXCEPT !.status = w.status].account = row.account BY <2>3 DEF HoldRow
        <4>2. HoldAfter(row, w, h) =
                IF h \in w.holds THEN [row EXCEPT !.status = w.status] ELSE row
          BY <3>3 DEF HoldAfter
        <4> QED BY <2>2, <2>6, <3>3, <4>1, <4>2
      <3>4. CASE w.kind = "account" BY <2>2, <3>4 DEF HoldAfter
      <3> QED BY <3>1, <3>2, <3>3, <3>4, KindsDiffer
    <2> QED BY <2>1, <2>7
  <1>4. CASE w.kind = "transfer"
    <2>1. w.id = Len(d.transfers) + 1 /\ w.row \in RowType
      BY <1>4, KindsDiffer DEF Lawful, LawfulTransfer, TransferWrites
    <2>2. WithRow(d.transfers, w) = Append(d.transfers, w.row)
      <3> DEFINE n == Len(d.transfers)
      <3>1. n \in Nat /\ DOMAIN d.transfers = 1 .. n BY <1>3, LenProperties
      <3>2. 1 .. n \cup {n + 1} = 1 .. n + 1 BY <3>1
      <3>3. WithRow(d.transfers, w) =
              [k \in 1 .. n + 1 |-> IF k = n + 1 THEN w.row ELSE d.transfers[k]]
        BY <2>1, <3>1, <3>2 DEF WithRow
      <3>4. Append(d.transfers, w.row) =
              [k \in 1 .. n + 1 |-> IF k = n + 1 THEN w.row ELSE d.transfers[k]]
        BY <1>3, <2>1, <3>1, AppendProperties
      <3> QED BY <3>3, <3>4
    <2>3. Append(d.transfers, w.row) \in Seq(RowType) BY <1>3, <2>1, AppendProperties
    <2> QED BY <1>1, <1>2, <1>4, <1>6, <2>2, <2>3 DEF TransfersAfter, Tables, LooseTables
  <1>5. CASE w.kind # "transfer"
    BY <1>1, <1>2, <1>3, <1>5, <1>6 DEF TransfersAfter, Tables, LooseTables
  <1> QED BY <1>4, <1>5

\* Every write of ws is lawful on top of the ones before it.
LawsOver(d, ws) == \A i \in 1 .. Len(ws) : Lawful(After(d, ws)[i - 1], ws[i])
StrictOver(d, ws) == \A i \in 1 .. Len(ws) : Strict(After(d, ws)[i - 1], ws[i])

LEMMA AfterTables ==
    ASSUME NEW d \in Tables, NEW ws \in Seq(Writes), LawsOver(d, ws)
    PROVE  Replay(d, ws) \in Tables
PROOF
  <1> DEFINE S == {i \in Nat : i =< Len(ws) => After(d, ws)[i] \in Tables}
  <1>0. Len(ws) \in Nat /\ \A i \in 1 .. Len(ws) : ws[i] \in Writes
    BY LenProperties, ElementOfSeq
  <1>1. 0 \in S BY AfterStep
  <1>2. ASSUME NEW i \in Nat, i \in S PROVE i + 1 \in S
    <2> SUFFICES ASSUME i + 1 =< Len(ws) PROVE After(d, ws)[i + 1] \in Tables OBVIOUS
    <2>1. After(d, ws)[i] \in Tables BY <1>0, <1>2
    <2>2. After(d, ws)[i + 1] = Apply(After(d, ws)[i], ws[i + 1]) BY AfterStep
    <2>3. i + 1 \in 1 .. Len(ws) /\ (i + 1) - 1 = i BY <1>0
    <2>4. ws[i + 1] \in Writes /\ Lawful(After(d, ws)[i], ws[i + 1])
      BY <1>0, <2>3 DEF LawsOver
    <2> QED BY <2>1, <2>2, <2>4, LawTables
  <1> HIDE DEF S
  <1>3. Nat \subseteq S BY <1>1, <1>2, NatSetInduction
  <1> QED BY <1>0, <1>3 DEF S, Replay

\* The laws survive what others commit ...
LEMMA LawsKept ==
    ASSUME NEW A \in SUBSET Accounts, NEW H \in SUBSET HoldRefs, NEW ch \in BOOLEAN,
           NEW d \in LooseTables, NEW e \in LooseTables, Kept(A, H, ch, d, e),
           NEW ws \in Seq(Writes), \A i \in 1 .. Len(ws) : Within(A, H, ch, ws[i]),
           LawsOver(d, ws)
    PROVE  LawsOver(e, ws) /\ (StrictOver(d, ws) => StrictOver(e, ws))
PROOF
  <1>0. Len(ws) \in Nat /\ \A i \in 1 .. Len(ws) : ws[i] \in Writes
    BY LenProperties, ElementOfSeq
  <1>1. ASSUME NEW i \in 1 .. Len(ws)
        PROVE  /\ Lawful(After(e, ws)[i - 1], ws[i])
               /\ Strict(After(d, ws)[i - 1], ws[i]) => Strict(After(e, ws)[i - 1], ws[i])
    <2>1. i - 1 \in 0 .. Len(ws) BY <1>0
    <2>2. /\ After(d, ws)[i - 1] \in LooseTables /\ After(e, ws)[i - 1] \in LooseTables
          /\ Kept(A, H, ch, After(d, ws)[i - 1], After(e, ws)[i - 1])
      BY <2>1, AfterLoose, ReplayKept
    <2>3. Lawful(After(d, ws)[i - 1], ws[i]) /\ ws[i] \in Writes BY <1>0 DEF LawsOver
    <2> QED BY <2>2, <2>3, LawStays
  <1> QED BY <1>1 DEF LawsOver, StrictOver

\* ... and one more lawful write ...
LEMMA LawsAppend ==
    ASSUME NEW d, NEW ws \in Seq(Writes), NEW w \in Writes,
           LawsOver(d, ws), Lawful(Replay(d, ws), w)
    PROVE  /\ LawsOver(d, Append(ws, w))
           /\ StrictOver(d, ws) /\ Strict(Replay(d, ws), w) => StrictOver(d, Append(ws, w))
PROOF
  <1> DEFINE vs == Append(ws, w)
             n == Len(ws)
  <1>1. /\ n \in Nat /\ Len(vs) = n + 1 /\ vs[n + 1] = w
        /\ \A i \in 1 .. n : vs[i] = ws[i]
    BY LenProperties, AppendProperties
  <1>2. \A i \in 0 .. n : After(d, vs)[i] = After(d, ws)[i] BY ReplayAppend
  <1>3. Replay(d, ws) = After(d, ws)[n] BY DEF Replay
  <1> HIDE DEF vs, n
  <1>4. ASSUME NEW i \in 1 .. n + 1
        PROVE \/ /\ i \in 1 .. n /\ After(d, vs)[i - 1] = After(d, ws)[i - 1]
                 /\ vs[i] = ws[i]
              \/ i = n + 1 /\ After(d, vs)[i - 1] = Replay(d, ws) /\ vs[i] = w
    <2>1. CASE i = n + 1
      <3>1. i - 1 = n /\ n \in 0 .. n BY <1>1, <2>1
      <3> QED BY <1>1, <1>2, <1>3, <2>1, <3>1
    <2>2. CASE i # n + 1
      <3>1. i \in 1 .. n /\ i - 1 \in 0 .. n BY <1>1, <2>2
      <3> QED BY <1>1, <1>2, <3>1
    <2> QED BY <2>1, <2>2
  <1>5. \A i \in 1 .. n : Lawful(After(d, ws)[i - 1], ws[i]) BY DEF LawsOver, n
  <1>6. \A i \in 1 .. n + 1 : Lawful(After(d, vs)[i - 1], vs[i]) BY <1>4, <1>5
  <1>7. ASSUME StrictOver(d, ws), Strict(Replay(d, ws), w)
        PROVE  \A i \in 1 .. n + 1 : Strict(After(d, vs)[i - 1], vs[i])
    <2> \A i \in 1 .. n : Strict(After(d, ws)[i - 1], ws[i]) BY <1>7 DEF StrictOver, n
    <2> QED BY <1>4, <1>7
  <1> QED BY <1>1, <1>6, <1>7 DEF LawsOver, StrictOver, vs

\* ... and that the first one is committed.
LEMMA LawsTail ==
    ASSUME NEW d, NEW ws \in Seq(Writes), ws # << >>, LawsOver(d, ws)
    PROVE  /\ Lawful(d, Head(ws)) /\ Head(ws) \in Writes
           /\ LawsOver(Apply(d, Head(ws)), Tail(ws))
           /\ StrictOver(d, ws) => /\ Strict(d, Head(ws))
                                   /\ StrictOver(Apply(d, Head(ws)), Tail(ws))
PROOF
  <1> DEFINE n == Len(ws)
             e == Apply(d, Head(ws))
             vs == Tail(ws)
  <1>1. /\ n \in Nat /\ n >= 1 /\ Head(ws) = ws[1] /\ Len(vs) = n - 1
        /\ \A i \in 1 .. n - 1 : vs[i] = ws[i + 1]
        /\ ws[1] \in Writes
    BY EmptySeq, LenProperties, HeadTailProperties, ElementOfSeq
  <1>2. \A i \in 0 .. n - 1 : After(e, vs)[i] = After(d, ws)[i + 1] BY ReplayTail
  <1>3. After(d, ws)[1 - 1] = d BY AfterStep
  <1>4. \A i \in 1 .. n : Lawful(After(d, ws)[i - 1], ws[i]) BY DEF LawsOver
  <1> HIDE DEF n, e, vs
  <1>5. \A i \in 1 .. n - 1 : /\ After(e, vs)[i - 1] = After(d, ws)[(i + 1) - 1]
                              /\ vs[i] = ws[i + 1] /\ i + 1 \in 1 .. n
    <2> SUFFICES ASSUME NEW i \in 1 .. n - 1
                 PROVE  /\ After(e, vs)[i - 1] = After(d, ws)[(i + 1) - 1]
                        /\ vs[i] = ws[i + 1] /\ i + 1 \in 1 .. n
      OBVIOUS
    <2>1. i - 1 \in 0 .. n - 1 /\ (i - 1) + 1 = (i + 1) - 1 /\ i + 1 \in 1 .. n BY <1>1
    <2> QED BY <1>1, <1>2, <2>1
  <1>6. \A i \in 1 .. n - 1 : Lawful(After(e, vs)[i - 1], vs[i]) BY <1>4, <1>5
  <1>7. 1 \in 1 .. n BY <1>1
  <1>8. Lawful(d, ws[1]) BY <1>3, <1>4, <1>7
  <1>9. ASSUME StrictOver(d, ws)
        PROVE  /\ Strict(d, ws[1])
               /\ \A i \in 1 .. n - 1 : Strict(After(e, vs)[i - 1], vs[i])
    <2>1. \A i \in 1 .. n : Strict(After(d, ws)[i - 1], ws[i])
      BY <1>9 DEF StrictOver, n
    <2> QED BY <1>3, <1>5, <1>7, <2>1
  <1> QED BY <1>1, <1>6, <1>8, <1>9 DEF LawsOver, StrictOver, e, vs

-----------------------------------------------------------------------------
(* The inductive invariant.                                                *)

Labels == {"none", "open", "lockHold", "lockHeld", "lockRows", "insertHold", "write",
           "createAccount", "archive", "expire", "broken", "committing"}

Typed ==
    /\ db \in Tables
    /\ acctLock \in [Accounts -> Callers \cup {Nobody}]
    /\ holdLock \in [HoldRefs -> Callers \cup {Nobody}]
    /\ chainLock \in Callers \cup {Nobody}
    /\ pc \in [Callers -> Labels]
    /\ DOMAIN call = Callers
    /\ calls \in [Callers -> 0 .. MaxCalls]
    /\ failed \in [Callers -> BOOLEAN]
    /\ snapshot \in [Callers -> LooseTables]
    /\ writes \in [Callers -> Seq(Writes)]

MyAccounts(c) == {a \in Accounts : acctLock[a] = c}
MyHolds(c) == {h \in HoldRefs : holdLock[h] = c}
MyChain(c) == chainLock = c

\* The committed tables with the writes of c on top.
View(c) == Replay(db, writes[c])

\* A transaction has locked what it has written, and each of its writes is
\* lawful where it stands.
Owned(c) ==
    \A i \in 1 .. Len(writes[c]) : Within(MyAccounts(c), MyHolds(c), MyChain(c), writes[c][i])
Laws(c) == LawsOver(db, writes[c])
Strictly(c) == Disciplined /\ ~ failed[c] => StrictOver(db, writes[c])

\* A snapshot is right about the rows its transaction has locked, and about
\* the transfers it contains.
Agree(c) ==
    pc[c] # "committing" =>
        /\ \A a \in MyAccounts(c) : Sees(c).accounts[a] = View(c).accounts[a]
        /\ \A h \in MyHolds(c) : Sees(c).holds[h] = View(c).holds[h]
        /\ Part(Sees(c).transfers, View(c).transfers)

\* Between transactions nothing is kept.
Idle(c) ==
    pc[c] = "none" =>
        /\ calls[c] = 0 /\ failed[c] = FALSE /\ writes[c] = << >>
        /\ MyAccounts(c) = {} /\ MyHolds(c) = {} /\ ~ MyChain(c)

\* What the call being served is about, ...
Serving == {"lockHold", "lockHeld", "lockRows", "insertHold", "write",
            "createAccount", "archive", "expire"}

IsAsk(r) == r = Ask(r.op, r.arg, r.hold, r.want)

Requested(c) ==
    LET op == call[c].op
        arg == call[c].arg
        h == call[c].hold
        want == call[c].want
    IN  /\ IsAsk(call[c])
        /\ pc[c] = "lockHold" => op \in {"capture", "release"}
        /\ pc[c] = "lockHeld" => op = "capture"
        /\ pc[c] = "lockRows" => op \in {"post", "hold", "capture"} /\ want \subseteq Accounts
        /\ pc[c] = "insertHold" => op = "hold"
        /\ pc[c] = "write" => op \in {"post", "capture"}
        /\ pc[c] = "createAccount" => op = "create" /\ want \subseteq Accounts
        /\ pc[c] = "archive" => op = "archive" /\ want \subseteq Accounts
        /\ pc[c] = "expire" => op = "expire" /\ want \subseteq HoldRefs
        /\ op = "post" => /\ h = 0 /\ Validate(arg) /\ arg \in RawTransfer
                          /\ Origin(arg, 0, View(c).transfers)
        /\ op = "capture" => <<h, arg>> \in CaptureRequests /\ Validate(arg)
        /\ op = "release" => h \in HoldRefs
        /\ op = "hold" => /\ arg \in HoldRequests /\ h = arg.reference
                          /\ h # 0 /\ arg.amount > 0

\* ... and what it has already checked under its locks.
Drawn(c) ==
    LET h == call[c].hold
        row == View(c).holds[h]
    IN  /\ call[c].op = "capture" /\ pc[c] # "lockHold" =>
             holdLock[h] = c /\ row.status = "active"
        /\ call[c].op = "capture" /\ pc[c] \in {"lockRows", "write"} =>
             Draws(call[c].arg, row.account, row.amount)

Accepted(c) ==
    pc[c] = "write" =>
        /\ AccountsAccept(View(c).accounts, call[c].arg)
        /\ Touched(call[c].arg) \subseteq MyAccounts(c)

Reservable(c) ==
    LET arg == call[c].arg IN
    pc[c] = "insertHold" =>
        /\ arg.account \in MyAccounts(c)
        /\ View(c).accounts[arg.account] = "open"
        /\ Chart[arg.account].currency = arg.currency
        /\ Disciplined /\ ~ Chart[arg.account].allowNegative
             => AvailableLocked(View(c).balances, View(c).holds, arg.account, 0) >= arg.amount

Asked(c) ==
    pc[c] \in Serving => Requested(c) /\ Drawn(c) /\ Accepted(c) /\ Reservable(c)

CallerInv(c) ==
    Owned(c) /\ Laws(c) /\ Strictly(c) /\ Agree(c) /\ Idle(c) /\ Asked(c)

\* One transaction commits at a time, and one whose call failed only if its
\* program is careless.
Committing ==
    \A c \in Callers : pc[c] = "committing" =>
        /\ failed[c] => c \in program.careless
        /\ \A p \in Callers : pc[p] = "committing" => p = c

IInv == Typed /\ Committing /\ \A c \in Callers : CallerInv(c)

-----------------------------------------------------------------------------
(* The bystanders of a step.                                               *)

Still(c) ==
    /\ pc'[c] = pc[c] /\ call'[c] = call[c] /\ calls'[c] = calls[c]
    /\ failed'[c] = failed[c] /\ snapshot'[c] = snapshot[c] /\ writes'[c] = writes[c]
    /\ MyAccounts(c)' = MyAccounts(c) /\ MyHolds(c)' = MyHolds(c)
    /\ MyChain(c)' = MyChain(c)
    /\ program' = program

LEMMA Bystander ==
    ASSUME NEW c \in Callers, CallerInv(c), Still(c), db' = db
    PROVE  CallerInv(c)'
PROOF
  <1>1. View(c)' = View(c) /\ Sees(c)' = Sees(c) BY DEF View, Sees, Still
  <1>2. Owned(c)' /\ Laws(c)' /\ Strictly(c)'
    BY DEF CallerInv, Still, Owned, Laws, Strictly, Disciplined
  <1>3. Agree(c)' BY <1>1 DEF CallerInv, Still, Agree
  <1>4. Idle(c)' BY DEF CallerInv, Still, Idle
  <1>5. ASSUME pc[c] \in Serving PROVE Asked(c)'
    <2>0. /\ Requested(c) /\ Drawn(c) /\ Accepted(c) /\ Reservable(c)
          /\ pc'[c] = pc[c] /\ call'[c] = call[c] /\ program' = program
          /\ MyAccounts(c)' = MyAccounts(c) /\ MyHolds(c)' = MyHolds(c)
      BY <1>5 DEF CallerInv, Asked, Still
    <2>1. Requested(c)' BY <1>1, <2>0 DEF Requested
    <2>2. Drawn(c)'
      <3>1. call[c].op = "capture" => call[c].hold \in HoldRefs
        BY <2>0, RequestsAssumption DEF Requested
      <3>2. call[c].op = "capture" /\ pc[c] # "lockHold" => holdLock'[call[c].hold] = c
        BY <2>0, <3>1 DEF Drawn, MyHolds
      <3> QED BY <1>1, <2>0, <3>2 DEF Drawn
    <2>3. Accepted(c)' BY <1>1, <2>0 DEF Accepted
    <2>4. Reservable(c)' BY <1>1, <2>0 DEF Reservable, Disciplined
    <2> QED BY <2>1, <2>2, <2>3, <2>4 DEF Asked
  <1>6. Asked(c)' BY <1>5 DEF Asked, Still
  <1> QED BY <1>2, <1>3, <1>4, <1>6 DEF CallerInv

\* The views of a transaction are tables.
LEMMA Views ==
    ASSUME Typed, NEW c \in Callers
    PROVE  /\ writes[c] \in Seq(Writes) /\ db \in LooseTables /\ snapshot[c] \in LooseTables
           /\ View(c) \in LooseTables /\ Sees(c) \in LooseTables
           /\ Laws(c) => View(c) \in Tables
PROOF
  <1>1. /\ writes[c] \in Seq(Writes) /\ db \in Tables /\ db \in LooseTables
        /\ snapshot[c] \in LooseTables
    BY TablesAreLoose DEF Typed
  <1>2. View(c) \in LooseTables BY <1>1, AfterLoose DEF View
  <1>3. Sees(c) \in LooseTables BY <1>1, AfterLoose DEF Sees
  <1>4. Laws(c) => View(c) \in Tables BY <1>1, AfterTables DEF Laws, View
  <1> QED BY <1>1, <1>2, <1>3, <1>4

\* A transaction finds its checks true when another one commits a write.
LEMMA BystanderOfCommit ==
    ASSUME Typed, NEW c \in Callers, CallerInv(c), Still(c),
           NEW w \in Writes, Lawful(db, w), db' = Apply(db, w),
           Apart(MyAccounts(c), MyHolds(c), MyChain(c), w)
    PROVE  CallerInv(c)'
PROOF
  <1> DEFINE A == MyAccounts(c)
             H == MyHolds(c)
             ch == MyChain(c)
             ws == writes[c]
             U == View(c)
             V == View(c)'
  <1>a. A \in SUBSET Accounts /\ H \in SUBSET HoldRefs /\ ch \in BOOLEAN
    BY DEF MyAccounts, MyHolds, MyChain
  <1>b. /\ ws \in Seq(Writes) /\ db \in LooseTables /\ db' \in LooseTables
        /\ U \in LooseTables /\ V = Replay(db', ws) /\ U = Replay(db, ws)
        /\ V \in LooseTables
    <2>1. /\ ws \in Seq(Writes) /\ db \in LooseTables /\ U \in LooseTables BY Views
    <2>2. db' \in LooseTables BY <2>1, ApplyLoose
    <2>3. V = Replay(db', ws) /\ U = Replay(db, ws) BY DEF View, Still
    <2> QED BY <2>1, <2>2, <2>3, AfterLoose
  <1>c. Owned(c) /\ Laws(c) /\ Strictly(c) /\ Agree(c) /\ Idle(c) /\ Asked(c)
    BY DEF CallerInv
  <1>d. /\ pc'[c] = pc[c] /\ call'[c] = call[c] /\ calls'[c] = calls[c]
        /\ failed'[c] = failed[c] /\ snapshot'[c] = snapshot[c] /\ writes'[c] = ws
        /\ MyAccounts(c)' = A /\ MyHolds(c)' = H /\ MyChain(c)' = ch /\ program' = program
    BY DEF Still
  <1>e. \A i \in 1 .. Len(ws) : Within(A, H, ch, ws[i]) BY <1>c DEF Owned
  <1>f. Kept(A, H, ch, db, db')
    <2>1. w.kind = "transfer" => w.id \notin DOMAIN db.transfers
      <3>1. db.transfers \in Seq(RowType) BY DEF Typed, Tables
      <3>2. Len(db.transfers) \in Nat /\ DOMAIN db.transfers = 1 .. Len(db.transfers)
        BY <3>1, LenProperties
      <3> QED BY <3>2 DEF Lawful, LawfulTransfer
    <2> QED BY <1>a, <1>b, <2>1, ApartKept
  <1> HIDE DEF A, H, ch, ws, U, V
  <1>k. Kept(A, H, ch, U, V) BY <1>a, <1>b, <1>e, <1>f, ReplayKept
  <1>l. LawsOver(db', ws) /\ (StrictOver(db, ws) => StrictOver(db', ws))
    BY <1>a, <1>b, <1>c, <1>e, <1>f, LawsKept DEF Laws, ws
  <1>1. Owned(c)' BY <1>d, <1>e DEF Owned
  <1>2. Laws(c)' /\ Strictly(c)' BY <1>c, <1>d, <1>l DEF Laws, Strictly, Disciplined, ws
  <1>3. Agree(c)'
    <2> SUFFICES ASSUME pc[c] # "committing"
                 PROVE  /\ \A a \in A : Sees(c)'.accounts[a] = V.accounts[a]
                        /\ \A h \in H : Sees(c)'.holds[h] = V.holds[h]
                        /\ Part(Sees(c)'.transfers, V.transfers)
      BY <1>d DEF Agree, V
    <2>1. CASE c \in program.snapshots
      <3>1. Sees(c)' = Sees(c) BY <1>d, <2>1 DEF Sees, ws
      <3>2. /\ \A a \in A : Sees(c).accounts[a] = U.accounts[a]
            /\ \A h \in H : Sees(c).holds[h] = U.holds[h]
            /\ Part(Sees(c).transfers, U.transfers)
        BY <1>c DEF Agree, A, H, U
      <3>3. Part(U.transfers, V.transfers) BY <1>k DEF Kept, Part
      <3>4. Part(Sees(c).transfers, V.transfers) BY <3>2, <3>3 DEF Part
      <3> QED BY <1>k, <3>1, <3>2, <3>4 DEF Kept
    <2>2. CASE c \notin program.snapshots
      <3>1. Sees(c)' = V BY <1>d, <2>2 DEF Sees, View, V
      <3> QED BY <3>1 DEF Part
    <2> QED BY <2>1, <2>2
  <1>4. Idle(c)' BY <1>c, <1>d DEF Idle, A, H, ch, ws
  <1>5. ASSUME pc[c] \in Serving
        PROVE Requested(c)' /\ Drawn(c)' /\ Accepted(c)' /\ Reservable(c)'
    <2> DEFINE arg == call[c].arg
               h == call[c].hold
    <2>0. Requested(c) /\ Drawn(c) /\ Accepted(c) /\ Reservable(c) BY <1>5, <1>c DEF Asked
    <2>1. Requested(c)'
      <3>1. Origin(arg, 0, U.transfers) => Origin(arg, 0, V.transfers)
        BY <1>k DEF Kept, Origin
      <3> QED BY <1>d, <2>0, <3>1 DEF Requested, U, V
    <2>2. call[c].op = "capture" /\ pc[c] # "lockHold" => h \in H /\ V.holds[h] = U.holds[h]
      <3> SUFFICES ASSUME call[c].op = "capture", pc[c] # "lockHold"
                   PROVE  h \in H /\ V.holds[h] = U.holds[h]
        OBVIOUS
      <3>1. <<h, arg>> \in CaptureRequests BY <2>0 DEF Requested
      <3>2. h \in HoldRefs BY <3>1, RequestsAssumption
      <3>3. holdLock[h] = c BY <2>0 DEF Drawn
      <3>4. h \in H BY <3>2, <3>3 DEF H, MyHolds
      <3> QED BY <1>k, <3>4 DEF Kept
    <2>3. Drawn(c)'
      <3>1. \A g \in H : holdLock'[g] = c
        <4> \A g \in MyHolds(c)' : holdLock'[g] = c BY DEF MyHolds
        <4> QED BY <1>d
      <3> QED BY <1>d, <2>0, <2>2, <3>1 DEF Drawn, U, V
    <2>4. Accepted(c)'
      <3> SUFFICES ASSUME pc[c] = "write"
                   PROVE  AccountsAccept(V.accounts, arg) /\ Touched(arg) \subseteq A
        BY <1>d DEF Accepted, V
      <3>1. AccountsAccept(U.accounts, arg) /\ Touched(arg) \subseteq A
        BY <2>0 DEF Accepted, U, A
      <3>2. \A i \in 1 .. Len(arg.postings) : arg.postings[i].account \in A
        BY <3>1 DEF Touched
      <3>3. AccountsAccept(V.accounts, arg) BY <1>k, <3>1, <3>2 DEF Kept, AccountsAccept
      <3> QED BY <3>1, <3>3
    <2>5. Reservable(c)'
      <3> DEFINE x == arg.account
      <3> SUFFICES ASSUME pc[c] = "insertHold"
                   PROVE  /\ x \in A /\ V.accounts[x] = "open"
                          /\ Chart[x].currency = arg.currency
                          /\ Disciplined /\ ~ Chart[x].allowNegative
                               => AvailableLocked(V.balances, V.holds, x, 0) >= arg.amount
        BY <1>d DEF Reservable, V, Disciplined
      <3>1. /\ x \in A /\ U.accounts[x] = "open" /\ Chart[x].currency = arg.currency
            /\ Disciplined /\ ~ Chart[x].allowNegative
                  => AvailableLocked(U.balances, U.holds, x, 0) >= arg.amount
        BY <2>0 DEF Reservable, U, A
      <3>2. V.accounts[x] = U.accounts[x] /\ V.balances[x] = U.balances[x] /\ x \in Accounts
        BY <1>a, <1>k, <3>1 DEF Kept
      <3>3. arg.amount \in Int
        <4> arg \in HoldRequests BY <2>0, <1>5 DEF Requested
        <4> QED BY RequestsAssumption DEF HoldRequest
      <3>4. ASSUME AvailableLocked(U.balances, U.holds, x, 0) >= arg.amount
            PROVE  AvailableLocked(V.balances, V.holds, x, 0) >= arg.amount
        <4>1. /\ U.balances \in [Accounts -> Int] /\ V.balances \in [Accounts -> Int]
              /\ U.holds \in [HoldRefs -> HoldRow] /\ V.holds \in [HoldRefs -> HoldRow]
          BY <1>b DEF LooseTables
        <4>2. \A g \in HoldRefs : V.holds[g].status = "active" /\ V.holds[g].account = x
                                    => V.holds[g] = U.holds[g]
          BY <1>k, <3>1 DEF Kept
        <4> HIDE DEF x, arg
        <4> QED BY <3>2, <3>3, <3>4, <4>1, <4>2, AvailableStays DEF x
      <3> QED BY <3>1, <3>2, <3>4
    <2> QED BY <2>1, <2>3, <2>4, <2>5
  <1>6. Asked(c)' BY <1>5, <1>d DEF Asked
  <1> QED BY <1>1, <1>2, <1>3, <1>4, <1>6 DEF CallerInv

-----------------------------------------------------------------------------
(* The steps of a transaction before it commits: it takes locks, and may   *)
(* write.                                                                  *)

Grow(c) ==
    /\ db' = db /\ program' = program /\ snapshot'[c] = snapshot[c]
    /\ MyAccounts(c) \subseteq MyAccounts(c)' /\ MyHolds(c) \subseteq MyHolds(c)'
    /\ MyChain(c) => MyChain(c)'
    /\ failed[c] => failed'[c]

\* What the snapshot says of a row that is locked now is what is committed.
Confirmed(c) ==
    /\ \A a \in MyAccounts(c)' : Sees(c).accounts[a] = View(c).accounts[a]
    /\ \A h \in MyHolds(c)' : Sees(c).holds[h] = View(c).holds[h]

LEMMA WithinGrows ==
    ASSUME NEW A, NEW H, NEW ch, NEW A2, NEW H2, NEW ch2, NEW w, Within(A, H, ch, w),
           A \subseteq A2, H \subseteq H2, ch => ch2
    PROVE  Within(A2, H2, ch2, w)
BY DEF Within

LEMMA QuietStep ==
    ASSUME Typed, NEW c \in Callers, CallerInv(c), Grow(c), writes'[c] = writes[c],
           pc[c] # "committing", Confirmed(c)
    PROVE  /\ View(c)' = View(c) /\ Sees(c)' = Sees(c)
           /\ Owned(c)' /\ Laws(c)' /\ Strictly(c)' /\ Agree(c)'
PROOF
  <1>1. View(c)' = View(c) /\ Sees(c)' = Sees(c) BY DEF View, Sees, Grow
  <1>2. Owned(c)'
    <2> SUFFICES ASSUME NEW i \in 1 .. Len(writes[c])
                 PROVE  Within(MyAccounts(c)', MyHolds(c)', MyChain(c)', writes[c][i])
      BY DEF Owned
    <2>1. Within(MyAccounts(c), MyHolds(c), MyChain(c), writes[c][i])
      BY DEF CallerInv, Owned
    <2> QED BY <2>1, WithinGrows DEF Grow
  <1>3. Laws(c)' /\ Strictly(c)' BY DEF CallerInv, Laws, Strictly, Grow, Disciplined
  <1>4. Agree(c)' BY <1>1 DEF CallerInv, Agree, Confirmed
  <1> QED BY <1>1, <1>2, <1>3, <1>4

LEMMA WritingStep ==
    ASSUME Typed, NEW c \in Callers, CallerInv(c), Grow(c), pc[c] # "committing",
           NEW w \in Writes, writes'[c] = Append(writes[c], w),
           Within(MyAccounts(c)', MyHolds(c)', MyChain(c)', w),
           Lawful(View(c), w),
           Disciplined /\ ~ failed'[c] => Strict(View(c), w),
           \A a \in MyAccounts(c)' : Sees(c).accounts[a] = View(c).accounts[a],
           \A h \in MyHolds(c)' : \/ Sees(c).holds[h] = View(c).holds[h]
                                  \/ w.kind = "hold" /\ w.hold = h
    PROVE  Owned(c)' /\ Laws(c)' /\ Strictly(c)' /\ Agree(c)'
PROOF
  <1> DEFINE ws == writes[c]
  <1>0. ws \in Seq(Writes) /\ View(c) \in LooseTables /\ Sees(c) \in LooseTables BY Views
  <1>1. View(c)' = Apply(View(c), w) /\ Sees(c)' = Apply(Sees(c), w)
    <2>1. View(c)' = Replay(db, Append(ws, w)) BY DEF View, Grow
    <2>2. Sees(c)' = Replay(IF c \in program.snapshots THEN snapshot[c] ELSE db,
                            Append(ws, w))
      BY DEF Sees, Grow
    <2> QED BY <1>0, <2>1, <2>2, ReplayAppend DEF View, Sees
  <1>2. Owned(c)'
    <2>1. Len(Append(ws, w)) = Len(ws) + 1 /\ Len(ws) \in Nat
          /\ Append(ws, w)[Len(ws) + 1] = w
          /\ \A i \in 1 .. Len(ws) : Append(ws, w)[i] = ws[i]
      BY <1>0, LenProperties, AppendProperties
    <2> DEFINE vs == Append(ws, w)
    <2> HIDE DEF vs
    <2> SUFFICES ASSUME NEW i \in 1 .. Len(ws) + 1
                 PROVE  Within(MyAccounts(c)', MyHolds(c)', MyChain(c)', vs[i])
      BY <2>1 DEF Owned, vs
    <2>2. CASE i = Len(ws) + 1 BY <2>1, <2>2 DEF vs
    <2>3. CASE i # Len(ws) + 1
      <3>1. i \in 1 .. Len(ws) BY <2>1, <2>3
      <3>2. Within(MyAccounts(c), MyHolds(c), MyChain(c), ws[i])
        BY <3>1 DEF CallerInv, Owned
      <3>3. vs[i] = ws[i] BY <2>1, <3>1 DEF vs
      <3> QED BY <3>2, <3>3, WithinGrows DEF Grow
    <2> QED BY <2>2, <2>3
  <1>3. Laws(c)' /\ Strictly(c)'
    <2>1. LawsOver(db, ws) /\ (Disciplined /\ ~ failed[c] => StrictOver(db, ws))
      BY DEF CallerInv, Laws, Strictly
    <2>2. /\ LawsOver(db, Append(ws, w))
          /\ StrictOver(db, ws) /\ Strict(View(c), w) => StrictOver(db, Append(ws, w))
      BY <1>0, <2>1, LawsAppend DEF View
    <2>3. Laws(c)' BY <2>2 DEF Laws, Grow
    <2>4. Strictly(c)' BY <2>1, <2>2 DEF Strictly, Grow, Disciplined
    <2> QED BY <2>3, <2>4
  <1>4. Agree(c)'
    <2>1. Shares(Sees(c), View(c), Sees(c)', View(c)') BY <1>0, <1>1, ApplyShares
    <2>2. \A a \in MyAccounts(c)' : Sees(c)'.accounts[a] = View(c)'.accounts[a]
      BY <2>1 DEF Shares, MyAccounts
    <2>3. ASSUME NEW h \in MyHolds(c)'
          PROVE  Sees(c)'.holds[h] = View(c)'.holds[h]
      <3>0. h \in HoldRefs BY DEF MyHolds
      <3>1. CASE Sees(c).holds[h] = View(c).holds[h] BY <2>1, <3>0, <3>1 DEF Shares
      <3>2. CASE w.kind = "hold" /\ w.hold = h
        <4>1. Sees(c)'.holds[h] = HoldAfter(Sees(c).holds[h], w, h)
              /\ View(c)'.holds[h] = HoldAfter(View(c).holds[h], w, h)
          BY <1>0, <1>1, <3>0, ApplyColumns
        <4> QED BY <3>2, <4>1 DEF HoldAfter
      <3> QED BY <3>1, <3>2
    <2>4. Part(Sees(c)'.transfers, View(c)'.transfers)
      BY <2>1 DEF CallerInv, Agree, Shares
    <2> QED BY <2>2, <2>3, <2>4 DEF Agree
  <1> QED BY <1>2, <1>3, <1>4

-----------------------------------------------------------------------------
(* The steps of p change nothing of the others, nor the locks they hold.   *)

OnlyMoves(p, lock, new) == new = lock \/ (lock \in {Nobody, p} /\ new \in {Nobody, p})

Alone(p) ==
    /\ \A c \in Callers \ {p} :
          /\ pc'[c] = pc[c] /\ call'[c] = call[c] /\ calls'[c] = calls[c]
          /\ failed'[c] = failed[c] /\ snapshot'[c] = snapshot[c]
          /\ writes'[c] = writes[c]
    /\ \A a \in Accounts : OnlyMoves(p, acctLock[a], acctLock'[a])
    /\ \A h \in HoldRefs : OnlyMoves(p, holdLock[h], holdLock'[h])
    /\ OnlyMoves(p, chainLock, chainLock')
    /\ program' = program

LEMMA AloneStill ==
    ASSUME NEW p \in Callers, Alone(p), NEW c \in Callers, c # p
    PROVE  Still(c)
PROOF
  <1>1. c # Nobody BY CallersAssumption
  <1>2. \A lock, new : OnlyMoves(p, lock, new) => (new = c <=> lock = c)
    BY <1>1 DEF OnlyMoves
  <1>3. /\ MyAccounts(c)' = MyAccounts(c) /\ MyHolds(c)' = MyHolds(c)
        /\ MyChain(c)' = MyChain(c)
    BY <1>2 DEF Alone, MyAccounts, MyHolds, MyChain
  <1> QED BY <1>3 DEF Alone, Still

NobodyCommits == \A q \in Callers : pc[q] # "committing"

LEMMA StepOf ==
    ASSUME IInv, NEW p \in Callers, NobodyCommits, Typed', Alone(p), db' = db,
           CallerInv(p)',
           pc'[p] = "committing" => (failed'[p] => p \in program.careless)
    PROVE  IInv'
PROOF
  <1>1. ASSUME NEW c \in Callers PROVE CallerInv(c)'
    <2>1. CASE c = p BY <2>1
    <2>2. CASE c # p BY <2>2, AloneStill, Bystander DEF IInv
    <2> QED BY <2>1, <2>2
  <1>2. Committing' BY DEF Committing, Alone, NobodyCommits
  <1> QED BY <1>1, <1>2 DEF IInv

\* A step of p within its transaction: it goes on with the call or ends it.
LEMMA OwnQuiet ==
    ASSUME IInv, NEW c \in Callers, NobodyCommits, Grow(c), writes'[c] = writes[c],
           Confirmed(c), pc'[c] # "none",
           pc'[c] \in Serving =>
              (View(c)' = View(c) => /\ Requested(c)' /\ Drawn(c)'
                                     /\ Accepted(c)' /\ Reservable(c)')
    PROVE  CallerInv(c)'
PROOF
  <1>1. pc[c] # "committing" BY DEF NobodyCommits
  <1>2. /\ View(c)' = View(c)
        /\ Owned(c)' /\ Laws(c)' /\ Strictly(c)' /\ Agree(c)'
    BY <1>1, QuietStep DEF IInv
  <1>3. Asked(c)' BY <1>2 DEF Asked
  <1>4. Idle(c)' BY DEF Idle
  <1> QED BY <1>2, <1>3, <1>4 DEF CallerInv

\* Without a new lock there is nothing to confirm.
LEMMA NoNewLocks ==
    ASSUME IInv, NEW c \in Callers, NobodyCommits,
           acctLock' = acctLock, holdLock' = holdLock, chainLock' = chainLock
    PROVE  /\ Confirmed(c)
           /\ MyAccounts(c)' = MyAccounts(c) /\ MyHolds(c)' = MyHolds(c)
           /\ MyChain(c)' = MyChain(c)
           /\ \A p \in Callers :
                 /\ \A a \in Accounts : OnlyMoves(p, acctLock[a], acctLock'[a])
                 /\ \A h \in HoldRefs : OnlyMoves(p, holdLock[h], holdLock'[h])
                 /\ OnlyMoves(p, chainLock, chainLock')
PROOF
  <1>1. /\ MyAccounts(c)' = MyAccounts(c) /\ MyHolds(c)' = MyHolds(c)
        /\ MyChain(c)' = MyChain(c)
    BY DEF MyAccounts, MyHolds, MyChain
  <1>2. Agree(c) /\ pc[c] # "committing" BY DEF IInv, CallerInv, NobodyCommits
  <1> QED BY <1>1, <1>2 DEF Confirmed, Agree, OnlyMoves

-----------------------------------------------------------------------------
(* The caller's transaction.                                               *)

LEMMA EmptyReplay == \A d : Replay(d, << >>) = d
BY AfterStep DEF Replay

LEMMA BeginStep ==
    ASSUME IInv, NobodyCommits, NEW c \in Callers, Begin(c), program' = program
    PROVE  IInv'
PROOF
  <1>0. /\ Typed /\ Idle(c) /\ pc[c] = "none" /\ pc' = [pc EXCEPT ![c] = "open"]
        /\ snapshot' = IF c \in program.snapshots THEN [snapshot EXCEPT ![c] = db]
                       ELSE snapshot
        /\ db' = db /\ acctLock' = acctLock /\ holdLock' = holdLock
        /\ chainLock' = chainLock /\ call' = call /\ calls' = calls
        /\ failed' = failed /\ writes' = writes
    BY DEF IInv, CallerInv, Begin, locks
  <1>1. db \in LooseTables BY <1>0, TablesAreLoose DEF Typed
  <1>2. Typed'
    <2>1. pc' \in [Callers -> Labels] BY <1>0 DEF Typed, Labels
    <2>2. snapshot' \in [Callers -> LooseTables] BY <1>0, <1>1 DEF Typed
    <2> QED BY <1>0, <2>1, <2>2 DEF Typed
  <1>3. Alone(c)
    <2>1. \A q \in Callers \ {c} : pc'[q] = pc[q] /\ snapshot'[q] = snapshot[q]
      BY <1>0 DEF Typed
    <2> QED BY <1>0, <2>1 DEF Alone, OnlyMoves
  <1>4. CallerInv(c)'
    <2>1. /\ writes'[c] = << >> /\ MyAccounts(c)' = {} /\ MyHolds(c)' = {} /\ pc'[c] = "open"
      BY <1>0 DEF Idle, MyAccounts, MyHolds, Typed
    <2>2. Len(<< >>) = 0 OBVIOUS
    <2>3. Owned(c)' /\ Laws(c)' /\ Strictly(c)'
      BY <2>1, <2>2 DEF Owned, Laws, Strictly, LawsOver, StrictOver
    <2>4. View(c)' = db /\ Sees(c)' = db
      <3>1. c \in program.snapshots => snapshot'[c] = db BY <1>0 DEF Typed
      <3> QED BY <1>0, <2>1, <3>1, EmptyReplay DEF View, Sees
    <2>5. Agree(c)' BY <2>1, <2>4 DEF Agree, Part
    <2>6. Idle(c)' /\ Asked(c)' BY <2>1 DEF Idle, Asked, Serving
    <2> QED BY <2>3, <2>5, <2>6 DEF CallerInv
  <1>5. pc'[c] # "committing" BY <1>0 DEF Typed
  <1> QED BY <1>0, <1>2, <1>3, <1>4, <1>5, StepOf

LEMMA EmptyTablesTyped == EmptyTables \in Tables
PROOF
  <1>1. NoHold \in HoldRow BY DEF NoHold, HoldRow
  <1>2. << >> \in Seq(RowType) BY EmptySeq
  <1>3. OnAccounts([h \in HoldRefs |-> NoHold]) BY DEF OnAccounts, NoHold
  <1> QED BY <1>1, <1>2, <1>3 DEF EmptyTables, Tables, Statuses

\* Ending a transaction leaves the others alone.
LEMMA EndFacts ==
    ASSUME Typed, NEW c \in Callers, End(c), program' = program
    PROVE  Typed' /\ Alone(c) /\ CallerInv(c)' /\ db' = db /\ pc'[c] = "none"
PROOF
  <1>0. /\ pc' = [pc EXCEPT ![c] = "none"] /\ call' = [call EXCEPT ![c] = NoCall]
        /\ calls' = [calls EXCEPT ![c] = 0] /\ failed' = [failed EXCEPT ![c] = FALSE]
        /\ snapshot' = [snapshot EXCEPT ![c] = EmptyTables]
        /\ writes' = [writes EXCEPT ![c] = << >>] /\ db' = db
        /\ acctLock' = [a \in Accounts |-> IF acctLock[a] = c THEN Nobody ELSE acctLock[a]]
        /\ holdLock' = [h \in HoldRefs |-> IF holdLock[h] = c THEN Nobody ELSE holdLock[h]]
        /\ chainLock' = IF chainLock = c THEN Nobody ELSE chainLock
    BY DEF End, Free
  <1>1. EmptyTables \in LooseTables /\ << >> \in Seq(Writes)
    BY EmptyTablesTyped, TablesAreLoose, EmptySeq
  <1>2. Typed'
    <2>1. /\ pc' \in [Callers -> Labels] /\ DOMAIN call' = Callers
          /\ calls' \in [Callers -> 0 .. MaxCalls] /\ failed' \in [Callers -> BOOLEAN]
      BY <1>0, CallersAssumption DEF Typed, Labels
    <2>2. snapshot' \in [Callers -> LooseTables] /\ writes' \in [Callers -> Seq(Writes)]
      BY <1>0, <1>1 DEF Typed
    <2>3. /\ acctLock' \in [Accounts -> Callers \cup {Nobody}]
          /\ holdLock' \in [HoldRefs -> Callers \cup {Nobody}]
          /\ chainLock' \in Callers \cup {Nobody}
      BY <1>0 DEF Typed
    <2> QED BY <1>0, <2>1, <2>2, <2>3 DEF Typed
  <1>3. Alone(c) BY <1>0 DEF Alone, OnlyMoves, Typed
  <1>4. CallerInv(c)'
    <2>0. c # Nobody BY CallersAssumption
    <2>1. /\ writes'[c] = << >> /\ MyAccounts(c)' = {} /\ MyHolds(c)' = {}
          /\ ~ MyChain(c)' /\ pc'[c] = "none" /\ calls'[c] = 0 /\ failed'[c] = FALSE
      BY <1>0, <2>0 DEF MyAccounts, MyHolds, MyChain, Typed
    <2>2. Len(<< >>) = 0 /\ DOMAIN EmptyTables.transfers = {} BY DEF EmptyTables
    <2>3. Owned(c)' /\ Laws(c)' /\ Strictly(c)'
      BY <2>1, <2>2 DEF Owned, Laws, Strictly, LawsOver, StrictOver
    <2>4. Part(Sees(c)'.transfers, View(c)'.transfers)
      <3>1. View(c)' = db BY <1>0, <2>1, EmptyReplay DEF View
      <3>2. CASE c \in program.snapshots
        <4> Sees(c)' = EmptyTables
          BY <1>0, <2>1, <3>2, EmptyReplay DEF Sees, Typed
        <4> QED BY <2>2 DEF Part
      <3>3. CASE c \notin program.snapshots
        <4> Sees(c)' = db BY <1>0, <2>1, <3>3, EmptyReplay DEF Sees
        <4> QED BY <3>1 DEF Part
      <3> QED BY <3>2, <3>3
    <2>5. Agree(c)' BY <2>1, <2>4 DEF Agree
    <2>6. Idle(c)' /\ Asked(c)' BY <2>1 DEF Idle, Asked, Serving
    <2> QED BY <2>3, <2>5, <2>6 DEF CallerInv
  <1> QED BY <1>0, <1>2, <1>3, <1>4 DEF Typed

LEMMA RollbackStep ==
    ASSUME IInv, NobodyCommits, NEW c \in Callers, Rollback(c), program' = program
    PROVE  IInv'
BY EndFacts, StepOf DEF Rollback, IInv

LEMMA CommittedStep ==
    ASSUME IInv, NEW c \in Callers, Committed(c), program' = program
    PROVE  IInv'
PROOF
  <1>1. Typed' /\ Alone(c) /\ CallerInv(c)' /\ db' = db /\ pc'[c] = "none"
    BY EndFacts DEF Committed, IInv
  <1>2. ASSUME NEW q \in Callers PROVE CallerInv(q)'
    <2>1. CASE q = c BY <1>1, <2>1
    <2>2. CASE q # c BY <1>1, <2>2, AloneStill, Bystander DEF IInv
    <2> QED BY <2>1, <2>2
  <1>3. Committing' BY <1>1 DEF IInv, Committing, Alone
  <1> QED BY <1>1, <1>2, <1>3 DEF IInv

LEMMA CommitStep ==
    ASSUME IInv, NobodyCommits, NEW c \in Callers, Commit(c), program' = program
    PROVE  IInv'
PROOF
  <1>0. /\ Typed /\ CallerInv(c) /\ pc[c] = "open"
        /\ (failed[c] => c \in program.careless)
        /\ pc' = [pc EXCEPT ![c] = "committing"] /\ db' = db /\ call' = call
        /\ calls' = calls /\ failed' = failed /\ snapshot' = snapshot
        /\ writes' = writes /\ acctLock' = acctLock /\ holdLock' = holdLock
        /\ chainLock' = chainLock
    BY DEF IInv, Commit, Goto, locks
  <1>1. Typed' BY <1>0 DEF Typed, Labels
  <1>2. pc'[c] = "committing" /\ \A q \in Callers \ {c} : pc'[q] = pc[q]
    BY <1>0 DEF Typed
  <1>3. Alone(c) BY <1>0, <1>2 DEF Alone, OnlyMoves
  <1>4. CallerInv(c)'
    <2>1. Confirmed(c) /\ Grow(c) BY <1>0, NoNewLocks DEF Grow
    <2> QED BY <1>0, <1>2, <2>1, OwnQuiet DEF Serving
  <1> QED BY <1>0, <1>1, <1>2, <1>3, <1>4, StepOf

-----------------------------------------------------------------------------
(* The calls.                                                              *)

\* The statement a call of each kind starts with, and the rows it may want.
Starts(op, want, label) ==
    \/ op \in {"capture", "release"} /\ label = "lockHold"
    \/ op \in {"post", "hold"} /\ label = "lockRows" /\ want \subseteq Accounts
    \/ op = "create" /\ label = "createAccount" /\ want \subseteq Accounts
    \/ op = "archive" /\ label = "archive" /\ want \subseteq Accounts
    \/ op = "expire" /\ label = "expire" /\ want \subseteq HoldRefs

LEMMA EnterStep ==
    ASSUME IInv, NobodyCommits, NEW c \in Callers, MayCall(c), program' = program,
           NEW op, NEW arg, NEW h, NEW want, NEW label,
           Enter(c, Ask(op, arg, h, want), label), Starts(op, want, label),
           op = "post" => /\ h = 0 /\ Validate(arg) /\ arg \in RawTransfer
                          /\ Origin(arg, 0, View(c).transfers),
           op = "capture" => <<h, arg>> \in CaptureRequests /\ Validate(arg),
           op = "release" => h \in HoldRefs,
           op = "hold" => /\ arg \in HoldRequests /\ h = arg.reference
                          /\ h # 0 /\ arg.amount > 0
    PROVE  IInv'
PROOF
  <1>0. /\ Typed /\ CallerInv(c) /\ pc[c] = "open" /\ calls[c] < MaxCalls
        /\ pc' = [pc EXCEPT ![c] = label]
        /\ call' = [call EXCEPT ![c] = Ask(op, arg, h, want)]
        /\ calls' = [calls EXCEPT ![c] = @ + 1]
        /\ db' = db /\ failed' = failed /\ snapshot' = snapshot
        /\ writes' = writes /\ acctLock' = acctLock /\ holdLock' = holdLock
        /\ chainLock' = chainLock
    BY DEF IInv, Enter, MayCall, locks
  <1>1. /\ label \in Labels /\ label \in Serving /\ label # "none" /\ label # "committing"
        /\ label # "write" /\ label # "insertHold"
    BY DEF Labels, Serving, Starts
  <1>2. Typed'
    <2>1. calls' \in [Callers -> 0 .. MaxCalls] BY <1>0, CallersAssumption DEF Typed
    <2> QED BY <1>0, <1>1, <2>1 DEF Typed
  <1>3. /\ pc'[c] = label /\ call'[c] = Ask(op, arg, h, want)
        /\ \A q \in Callers \ {c} : /\ pc'[q] = pc[q] /\ call'[q] = call[q]
                                    /\ calls'[q] = calls[q]
    BY <1>0 DEF Typed
  <1>4. Alone(c) BY <1>0, <1>3 DEF Alone, OnlyMoves
  <1>5. CallerInv(c)'
    <2>1. Confirmed(c) /\ Grow(c) BY <1>0, NoNewLocks DEF Grow
    <2>2. ASSUME View(c)' = View(c)
          PROVE  Requested(c)' /\ Drawn(c)' /\ Accepted(c)' /\ Reservable(c)'
      <3>0. /\ call'[c].op = op /\ call'[c].arg = arg /\ call'[c].hold = h
            /\ call'[c].want = want /\ IsAsk(call'[c])
        BY <1>3 DEF Ask, IsAsk
      <3>1. Requested(c)' BY <1>1, <1>3, <2>2, <3>0 DEF Requested, Starts
      <3>2. Drawn(c)' BY <1>3, <3>0 DEF Drawn, Starts
      <3>3. Accepted(c)' /\ Reservable(c)' BY <1>1, <1>3 DEF Accepted, Reservable
      <3> QED BY <3>1, <3>2, <3>3
    <2> QED BY <1>0, <1>1, <1>3, <2>1, <2>2, OwnQuiet
  <1> QED BY <1>0, <1>1, <1>2, <1>3, <1>4, <1>5, StepOf

\* A transfer the transaction sees is a row of the ledger.
LEMMA SeenTransfers ==
    ASSUME IInv, NobodyCommits, NEW c \in Callers, NEW k \in DOMAIN Sees(c).transfers
    PROVE  /\ k \in DOMAIN View(c).transfers /\ View(c).transfers[k] = Sees(c).transfers[k]
           /\ Sees(c).transfers[k] \in RowType /\ k \in Nat
PROOF
  <1>1. Sees(c) \in LooseTables BY Views DEF IInv
  <1>2. Sees(c).transfers \in RowMaps BY <1>1 DEF LooseTables
  <1>3. Sees(c).transfers[k] \in RowType /\ k \in Nat BY <1>2, RowMapDef
  <1>4. Part(Sees(c).transfers, View(c).transfers)
    BY DEF IInv, CallerInv, Agree, NobodyCommits
  <1> QED BY <1>3, <1>4 DEF Part

LEMMA CallsStep ==
    ASSUME IInv, NobodyCommits, NEW c \in Callers, Calls(c), program' = program
    PROVE  IInv'
PROOF
  <1>0. MayCall(c) /\ \A A : Existing(c, A) \subseteq Accounts BY DEF Calls, Existing
  <1>1. ASSUME NEW t \in Requests, CallPost(c, t) PROVE IInv'
    <2> DEFINE want == Existing(c, Touched(t))
    <2>1. /\ t \in RawTransfer /\ Validate(t)
          /\ Enter(c, Ask("post", t, 0, want), "lockRows")
      BY <1>1, RequestsAssumption DEF CallPost
    <2>2. Origin(t, 0, View(c).transfers) BY DEF Origin
    <2>3. Starts("post", want, "lockRows") BY <1>0 DEF Starts
    <2> HIDE DEF want
    <2> QED BY <1>0, <2>1, <2>2, <2>3, EnterStep
  <1>2. ASSUME NEW ref \in ReversalRefs, NEW k \in DOMAIN Sees(c).transfers,
               CallReverse(c, k, ref)
        PROVE IInv'
    <2> DEFINE t == Reversal(Sees(c).transfers[k], k, ref)
               want == Existing(c, Touched(t))
    <2>1. Validate(t) /\ Enter(c, Ask("post", t, 0, want), "lockRows")
      BY <1>2 DEF CallReverse
    <2>2. /\ k \in DOMAIN View(c).transfers /\ View(c).transfers[k] = Sees(c).transfers[k]
          /\ Sees(c).transfers[k] \in RowType /\ k \in Nat
      BY SeenTransfers
    <2>3. Origin(t, 0, View(c).transfers) BY <2>2 DEF Origin
    <2>4. ref \in STRING BY RequestsAssumption
    <2>5. t \in RawTransfer BY <2>2, <2>4, ReversalIsTransfer
    <2>6. Starts("post", want, "lockRows") BY <1>0 DEF Starts
    <2> HIDE DEF t, want
    <2> QED BY <1>0, <2>1, <2>3, <2>5, <2>6, EnterStep
  <1>3. ASSUME NEW r \in HoldRequests, CallHold(c, r) PROVE IInv'
    <2> DEFINE want == Existing(c, {r.account})
    <2>1. /\ r.reference # 0 /\ r.amount > 0
          /\ Enter(c, Ask("hold", r, r.reference, want), "lockRows")
      BY <1>3 DEF CallHold
    <2>2. Starts("hold", want, "lockRows") BY <1>0 DEF Starts
    <2> HIDE DEF want
    <2> QED BY <1>0, <2>1, <2>2, EnterStep
  <1>4. ASSUME NEW q \in CaptureRequests, CallCapture(c, q[1], q[2]) PROVE IInv'
    <2>1. Validate(q[2]) /\ Enter(c, Ask("capture", q[2], q[1], {}), "lockHold")
      BY <1>4 DEF CallCapture
    <2>2. <<q[1], q[2]>> = q BY RequestsAssumption
    <2>3. Starts("capture", {}, "lockHold") BY DEF Starts
    <2> QED BY <1>0, <2>1, <2>2, <2>3, EnterStep
  <1>5. ASSUME NEW h \in HoldRefs, CallRelease(c, h) PROVE IInv'
    <2>1. Enter(c, Ask("release", << >>, h, {}), "lockHold") BY <1>5 DEF CallRelease
    <2>2. Starts("release", {}, "lockHold") BY DEF Starts
    <2> QED BY <1>0, <2>1, <2>2, EnterStep
  <1>6. ASSUME NEW a \in Administered, CallCreateAccount(c, a) PROVE IInv'
    <2>1. Enter(c, Ask("create", << >>, 0, {a}), "createAccount")
      BY <1>6 DEF CallCreateAccount
    <2>2. Starts("create", {a}, "createAccount") BY CallersAssumption DEF Starts
    <2> QED BY <1>0, <2>1, <2>2, EnterStep
  <1>7. ASSUME NEW a \in Administered, CallArchive(c, a) PROVE IInv'
    <2>1. Enter(c, Ask("archive", << >>, 0, {a}), "archive") BY <1>7 DEF CallArchive
    <2>2. Starts("archive", {a}, "archive") BY CallersAssumption DEF Starts
    <2> QED BY <1>0, <2>1, <2>2, EnterStep
  <1>8. ASSUME NEW H \in SUBSET HoldRefs, CallExpireHolds(c, H) PROVE IInv'
    <2>1. Enter(c, Ask("expire", << >>, 0, H), "expire") BY <1>8 DEF CallExpireHolds
    <2>2. Starts("expire", H, "expire") BY DEF Starts
    <2> QED BY <1>0, <2>1, <2>2, EnterStep
  <1> QED BY <1>1, <1>2, <1>3, <1>4, <1>5, <1>6, <1>7, <1>8 DEF Calls

-----------------------------------------------------------------------------
(* The statements of a call take locks of committed rows ...               *)

Takes(c) ==
    /\ acctLock' \in [Accounts -> Callers \cup {Nobody}]
    /\ holdLock' \in [HoldRefs -> Callers \cup {Nobody}]
    /\ chainLock' \in Callers \cup {Nobody}
    /\ \A a \in Accounts : acctLock'[a] = acctLock[a] \/ (Mine(acctLock[a], c) /\ acctLock'[a] = c)
    /\ \A h \in HoldRefs : holdLock'[h] = holdLock[h] \/ (Mine(holdLock[h], c) /\ holdLock'[h] = c)
    /\ chainLock' = chainLock \/ (Mine(chainLock, c) /\ chainLock' = c)

LEMMA TakesFacts ==
    ASSUME NEW c \in Callers, Takes(c)
    PROVE  /\ MyAccounts(c) \subseteq MyAccounts(c)' /\ MyHolds(c) \subseteq MyHolds(c)'
           /\ MyChain(c) => MyChain(c)'
           /\ \A a \in Accounts : OnlyMoves(c, acctLock[a], acctLock'[a])
           /\ \A h \in HoldRefs : OnlyMoves(c, holdLock[h], holdLock'[h])
           /\ OnlyMoves(c, chainLock, chainLock')
BY DEF Takes, MyAccounts, MyHolds, MyChain, OnlyMoves, Mine

LEMMA HoldConfirmed ==
    ASSUME Typed, NEW c \in Callers, NEW h \in HoldRefs, ~ HoldChanged(c, h)
    PROVE  Sees(c).holds[h] = View(c).holds[h]
PROOF
  <1>1. writes[c] \in Seq(Writes) /\ db \in LooseTables /\ snapshot[c] \in LooseTables
    BY Views
  <1>2. CASE c \in program.snapshots
    <2>1. Shares(snapshot[c], db, Replay(snapshot[c], writes[c]), Replay(db, writes[c]))
      BY <1>1, ReplayShares
    <2>2. db.holds[h] = snapshot[c].holds[h] BY <1>2 DEF HoldChanged
    <2> QED BY <1>2, <2>1, <2>2 DEF Shares, Sees, View
  <1>3. CASE c \notin program.snapshots BY <1>3 DEF Sees, View
  <1> QED BY <1>2, <1>3

LEMMA AccountConfirmed ==
    ASSUME Typed, NEW c \in Callers, NEW a \in Accounts, ~ AccountChanged(c, a)
    PROVE  Sees(c).accounts[a] = View(c).accounts[a]
PROOF
  <1>1. writes[c] \in Seq(Writes) /\ db \in LooseTables /\ snapshot[c] \in LooseTables
    BY Views
  <1>2. CASE c \in program.snapshots
    <2>1. Shares(snapshot[c], db, Replay(snapshot[c], writes[c]), Replay(db, writes[c]))
      BY <1>1, ReplayShares
    <2>2. db.accounts[a] = snapshot[c].accounts[a] BY <1>2 DEF AccountChanged
    <2> QED BY <1>2, <2>1, <2>2 DEF Shares, Sees, View
  <1>3. CASE c \notin program.snapshots BY <1>3 DEF Sees, View
  <1> QED BY <1>2, <1>3

\* ... and end in an error, ...
LEMMA ErrorStep ==
    ASSUME IInv, NobodyCommits, NEW c \in Callers, program' = program,
           Takes(c), Confirmed(c), NEW label \in {"open", "broken"},
           pc' = [pc EXCEPT ![c] = label], call' = [call EXCEPT ![c] = NoCall],
           failed' = [failed EXCEPT ![c] = TRUE],
           db' = db, calls' = calls, snapshot' = snapshot, writes' = writes
    PROVE  IInv'
PROOF
  <1>0. Typed BY DEF IInv
  <1>1. label \in Labels /\ label \notin Serving /\ label # "none" /\ label # "committing"
    BY DEF Labels, Serving
  <1>2. Typed'
    <2>1. pc' \in [Callers -> Labels] /\ failed' \in [Callers -> BOOLEAN]
          /\ DOMAIN call' = Callers
      BY <1>0, <1>1 DEF Typed
    <2> QED BY <1>0, <2>1 DEF Typed, Takes
  <1>3. /\ pc'[c] = label /\ failed'[c]
        /\ \A q \in Callers \ {c} : /\ pc'[q] = pc[q] /\ call'[q] = call[q]
                                    /\ failed'[q] = failed[q]
    BY <1>0 DEF Typed
  <1>4. Alone(c) BY <1>3, TakesFacts DEF Alone
  <1>5. Grow(c) BY <1>3, TakesFacts DEF Grow
  <1>6. CallerInv(c)' BY <1>1, <1>3, <1>5, OwnQuiet
  <1> QED BY <1>1, <1>2, <1>3, <1>4, <1>6, StepOf

\* ... go on to the next statement, or to the next row, ...
Moves(c, label) ==
    /\ pc' = [pc EXCEPT ![c] = label] /\ DOMAIN call' = Callers
    /\ \A q \in Callers \ {c} : call'[q] = call[q]
    /\ db' = db /\ calls' = calls /\ failed' = failed /\ snapshot' = snapshot
    /\ writes' = writes

LEMMA MoveStep ==
    ASSUME IInv, NobodyCommits, NEW c \in Callers, program' = program,
           Takes(c), Confirmed(c), NEW label \in Serving, Moves(c, label),
           View(c)' = View(c) => /\ Requested(c)' /\ Drawn(c)'
                                 /\ Accepted(c)' /\ Reservable(c)'
    PROVE  IInv'
PROOF
  <1>0. /\ Typed /\ pc' = [pc EXCEPT ![c] = label] /\ DOMAIN call' = Callers
        /\ \A q \in Callers \ {c} : call'[q] = call[q]
        /\ db' = db /\ calls' = calls /\ failed' = failed /\ snapshot' = snapshot
        /\ writes' = writes
    BY DEF IInv, Moves
  <1>1. label \in Labels /\ label # "none" /\ label # "committing" BY DEF Labels, Serving
  <1>2. Typed'
    <2>1. pc' \in [Callers -> Labels] BY <1>0, <1>1 DEF Typed
    <2> QED BY <1>0, <2>1 DEF Typed, Takes
  <1>3. pc'[c] = label /\ \A q \in Callers \ {c} : pc'[q] = pc[q] BY <1>0 DEF Typed
  <1>4. Alone(c) BY <1>0, <1>3, TakesFacts DEF Alone
  <1>5. Grow(c) BY <1>0, TakesFacts DEF Grow
  <1>6. CallerInv(c)' BY <1>0, <1>1, <1>3, <1>5, OwnQuiet
  <1> QED BY <1>0, <1>1, <1>2, <1>3, <1>4, <1>6, StepOf

LEMMA GotoMoves ==
    ASSUME Typed, NEW c \in Callers, NEW label, Goto(c, label)
    PROVE  Moves(c, label) /\ pc'[c] = label /\ call' = call
BY DEF Goto, Moves, Typed

\* The rows a call still wants change nothing else about it.
LEMMA WantsOnly ==
    ASSUME NEW c \in Callers, DOMAIN call = Callers, IsAsk(call[c]), NEW W,
           call' = [call EXCEPT ![c].want = W]
    PROVE  /\ call'[c].op = call[c].op /\ call'[c].arg = call[c].arg
           /\ call'[c].hold = call[c].hold /\ call'[c].want = W /\ IsAsk(call'[c])
           /\ DOMAIN call' = Callers /\ \A q \in Callers \ {c} : call'[q] = call[q]
PROOF
  <1>1. call'[c] = [call[c] EXCEPT !.want = W] /\ DOMAIN call' = Callers
        /\ \A q \in Callers \ {c} : call'[q] = call[q]
    OBVIOUS
  <1>2. call[c] = [op |-> call[c].op, arg |-> call[c].arg, hold |-> call[c].hold,
                   want |-> call[c].want]
    BY DEF IsAsk, Ask
  <1>3. call'[c] = [op |-> call[c].op, arg |-> call[c].arg, hold |-> call[c].hold,
                    want |-> W]
    BY <1>1, <1>2
  <1> QED BY <1>1, <1>3 DEF IsAsk, Ask

\* ... or write, ...
Adds(c, w) ==
    /\ w \in Writes /\ writes' = [writes EXCEPT ![c] = Append(@, w)]
    /\ Within(MyAccounts(c)', MyHolds(c)', MyChain(c)', w)
    /\ Lawful(View(c), w)
    /\ Disciplined /\ ~ failed'[c] => Strict(View(c), w)
    /\ \A a \in MyAccounts(c)' : Sees(c).accounts[a] = View(c).accounts[a]
    /\ \A h \in MyHolds(c)' : \/ Sees(c).holds[h] = View(c).holds[h]
                              \/ w.kind = "hold" /\ w.hold = h

Keeps(c) ==
    /\ pc' \in [Callers -> Labels] /\ pc'[c] \notin {"none", "committing"}
    /\ calls' \in [Callers -> 0 .. MaxCalls] /\ failed' \in [Callers -> BOOLEAN]
    /\ failed[c] => failed'[c]
    /\ DOMAIN call' = Callers
    /\ \A q \in Callers \ {c} : /\ pc'[q] = pc[q] /\ call'[q] = call[q]
                                /\ calls'[q] = calls[q] /\ failed'[q] = failed[q]
    /\ db' = db /\ snapshot' = snapshot

LEMMA WriteOnStep ==
    ASSUME IInv, NobodyCommits, NEW c \in Callers, program' = program, Takes(c),
           Keeps(c), NEW w, Adds(c, w),
           pc'[c] \in Serving => /\ Requested(c)' /\ Drawn(c)'
                                 /\ Accepted(c)' /\ Reservable(c)'
    PROVE  IInv'
PROOF
  <1>0. Typed /\ writes[c] \in Seq(Writes) BY Views DEF IInv
  <1>1. /\ writes' \in [Callers -> Seq(Writes)] /\ writes'[c] = Append(writes[c], w)
        /\ \A q \in Callers \ {c} : writes'[q] = writes[q]
    <2>1. Append(writes[c], w) \in Seq(Writes) BY <1>0, AppendProperties DEF Adds
    <2> QED BY <1>0, <2>1 DEF Typed, Adds
  <1>2. Typed' BY <1>0, <1>1 DEF Typed, Takes, Keeps
  <1>3. Alone(c) BY <1>1, TakesFacts DEF Alone, Keeps
  <1>4. Grow(c) BY TakesFacts DEF Grow, Keeps
  <1>5. CallerInv(c)'
    <2>1. pc[c] # "committing" /\ CallerInv(c) BY DEF NobodyCommits, IInv
    <2>2. Owned(c)' /\ Laws(c)' /\ Strictly(c)' /\ Agree(c)'
      BY <1>0, <1>1, <1>4, <2>1, WritingStep DEF Adds
    <2>3. Idle(c)' BY DEF Idle, Keeps
    <2>4. Asked(c)' BY DEF Asked
    <2> QED BY <2>2, <2>3, <2>4 DEF CallerInv
  <1> QED BY <1>2, <1>3, <1>5, StepOf DEF Keeps

\* ... and return, with or without a write.
Returns(c) == Keeps(c) /\ pc'[c] \in {"open", "broken"}

LEMMA WriteStep ==
    ASSUME IInv, NobodyCommits, NEW c \in Callers, program' = program, Takes(c),
           Returns(c), NEW w, Adds(c, w)
    PROVE  IInv'
BY WriteOnStep DEF Returns, Serving

LEMMA QuietReturn ==
    ASSUME IInv, NobodyCommits, NEW c \in Callers, program' = program,
           Takes(c), Confirmed(c), Returns(c), writes' = writes
    PROVE  IInv'
PROOF
  <1>1. Typed' BY DEF IInv, Typed, Takes, Returns, Keeps
  <1>2. Alone(c) BY TakesFacts DEF Alone, Returns, Keeps
  <1>3. Grow(c) BY TakesFacts DEF Grow, Returns, Keeps
  <1>4. CallerInv(c)' BY <1>3, OwnQuiet DEF Returns, Keeps, Serving
  <1> QED BY <1>1, <1>2, <1>4, StepOf DEF Returns, Keeps

LEMMA UnknownHoldStep ==
    ASSUME IInv, NobodyCommits, NEW c \in Callers, UnknownHold(c), program' = program
    PROVE  IInv'
PROOF
  <1>1. /\ pc' = [pc EXCEPT ![c] = "open"] /\ call' = [call EXCEPT ![c] = NoCall]
        /\ failed' = [failed EXCEPT ![c] = TRUE]
        /\ db' = db /\ calls' = calls /\ snapshot' = snapshot /\ writes' = writes
        /\ acctLock' = acctLock /\ holdLock' = holdLock /\ chainLock' = chainLock
    BY DEF UnknownHold, Fail, Return, locks
  <1>2. Takes(c) BY <1>1 DEF Takes, IInv, Typed
  <1>3. Confirmed(c) BY <1>1, NoNewLocks
  <1> QED BY <1>1, <1>2, <1>3, ErrorStep

LEMMA LockHoldStep ==
    ASSUME IInv, NobodyCommits, NEW c \in Callers, LockHold(c), program' = program
    PROVE  IInv'
PROOF
  <1> DEFINE h == call[c].hold
             row == Sees(c).holds[h]
  <1>0. Typed /\ CallerInv(c) BY DEF IInv
  <1>1. pc[c] = "lockHold" /\ row.status # "none" /\ Mine(holdLock[h], c) BY DEF LockHold
  <1>2. Requested(c) /\ h \in HoldRefs /\ call[c].op \in {"capture", "release"}
    <2>1. Requested(c) BY <1>0, <1>1 DEF CallerInv, Asked, Serving
    <2>2. call[c].op \in {"capture", "release"} BY <1>1, <2>1 DEF Requested
    <2>3. call[c].op = "capture" => h \in HoldRefs
      BY <2>1, RequestsAssumption DEF Requested
    <2>4. call[c].op = "release" => h \in HoldRefs BY <2>1 DEF Requested
    <2> QED BY <2>1, <2>2, <2>3, <2>4
  <1>3. CASE HoldChanged(c, h)
    <2>1. /\ pc' = [pc EXCEPT ![c] = "broken"] /\ call' = [call EXCEPT ![c] = NoCall]
          /\ failed' = [failed EXCEPT ![c] = TRUE]
          /\ db' = db /\ calls' = calls /\ snapshot' = snapshot /\ writes' = writes
          /\ acctLock' = acctLock /\ holdLock' = holdLock /\ chainLock' = chainLock
      BY <1>3 DEF LockHold, SqlError, locks
    <2>2. Takes(c) BY <1>0, <2>1 DEF Takes, Typed
    <2>3. Confirmed(c) BY <2>1, NoNewLocks
    <2> QED BY <2>1, <2>2, <2>3, ErrorStep
  <1>4. CASE ~ HoldChanged(c, h)
    <2>1. /\ holdLock' = [holdLock EXCEPT ![h] = c] /\ acctLock' = acctLock
          /\ chainLock' = chainLock
      BY <1>4 DEF LockHold
    <2>2. Takes(c) BY <1>0, <1>1, <1>2, <2>1 DEF Takes, Typed
    <2>3. row = View(c).holds[h] BY <1>0, <1>2, <1>4, HoldConfirmed
    <2>4. /\ Agree(c) /\ pc[c] # "committing" /\ MyAccounts(c)' = MyAccounts(c)
          /\ MyHolds(c)' = MyHolds(c) \cup {h} /\ holdLock'[h] = c
      BY <1>0, <1>1, <1>2, <2>1 DEF CallerInv, MyAccounts, MyHolds, Typed
    <2>5. Confirmed(c) BY <2>3, <2>4 DEF Confirmed, Agree
    <2>6. \A status \in {"released", "expired"} :
             /\ Closed({h}, status) \in Writes
             /\ Within(MyAccounts(c)', MyHolds(c)', MyChain(c)', Closed({h}, status))
             /\ Strict(View(c), Closed({h}, status))
             /\ row.status = "active" /\ (status = "expired" => row.expires)
                  => Lawful(View(c), Closed({h}, status))
      BY <1>2, <2>3, <2>4 DEF Closed, Writes, StatusWrites, Within, Strict, Lawful, LawfulStatus
    <2>7. ASSUME NEW status \in {"released", "expired"},
                 row.status = "active" /\ (status = "expired" => row.expires),
                 writes' = [writes EXCEPT ![c] = Append(@, Closed({h}, status))],
                 \/ failed' = failed
                 \/ failed' = [failed EXCEPT ![c] = TRUE],
                 Return(c)
          PROVE  IInv'
      <3> DEFINE w == Closed({h}, status)
      <3>1. /\ w \in Writes /\ Within(MyAccounts(c)', MyHolds(c)', MyChain(c)', w)
            /\ Strict(View(c), w) /\ Lawful(View(c), w)
            /\ writes' = [writes EXCEPT ![c] = Append(@, w)]
        BY <2>6, <2>7
      <3>2. /\ pc' = [pc EXCEPT ![c] = "open"] /\ call' = [call EXCEPT ![c] = NoCall]
            /\ db' = db /\ calls' = calls /\ snapshot' = snapshot
        BY <2>7 DEF Return
      <3>3. Returns(c) BY <1>0, <2>7, <3>2 DEF Typed, Labels, Returns, Keeps
      <3>4. Adds(c, w) BY <2>5, <3>1 DEF Confirmed, Adds
      <3> QED BY <2>2, <3>3, <3>4, WriteStep
    <2>8. CASE row.status # "active" /\ Fail(c, "hold not active")
      <3>1. /\ pc' = [pc EXCEPT ![c] = "open"] /\ call' = [call EXCEPT ![c] = NoCall]
            /\ failed' = [failed EXCEPT ![c] = TRUE]
            /\ db' = db /\ calls' = calls /\ snapshot' = snapshot /\ writes' = writes
        BY <2>8 DEF Fail, Return
      <3> QED BY <2>2, <2>5, <3>1, ErrorStep
    <2>9. CASE /\ row.status = "active" /\ call[c].op = "release"
               /\ Succeed(c, Closed({h}, "released"))
      BY <2>7, <2>9 DEF Succeed
    <2>10. CASE row.status = "active" /\ call[c].op = "capture" /\ Goto(c, "lockHeld")
      <3>1. pc'[c] = "lockHeld" /\ call' = call /\ Moves(c, "lockHeld")
        BY <1>0, <2>10, GotoMoves
      <3>2. ASSUME View(c)' = View(c)
            PROVE  Requested(c)' /\ Drawn(c)' /\ Accepted(c)' /\ Reservable(c)'
        <4>1. Requested(c)' BY <1>2, <2>10, <3>1, <3>2 DEF Requested
        <4>2. Drawn(c)' BY <2>3, <2>4, <2>10, <3>1, <3>2 DEF Drawn
        <4>3. Accepted(c)' /\ Reservable(c)' BY <3>1 DEF Accepted, Reservable
        <4> QED BY <4>1, <4>2, <4>3
      <3>3. "lockHeld" \in Serving BY DEF Serving
      <3> QED BY <2>2, <2>5, <3>1, <3>2, <3>3, MoveStep
    <2>11. CASE /\ row.status = "active" /\ call[c].op = "capture" /\ row.expires
                /\ failed' = [failed EXCEPT ![c] = TRUE]
                /\ writes' = [writes EXCEPT ![c] = Append(@, Closed({h}, "expired"))]
                /\ Return(c)
      BY <2>7, <2>11
    <2> QED BY <1>4, <2>8, <2>9, <2>10, <2>11 DEF LockHold
  <1> QED BY <1>3, <1>4

\* A hold that a call has locked is what the transaction sees of it.
LEMMA HeldHold ==
    ASSUME IInv, NEW c \in Callers, pc[c] \in Serving,
           pc[c] # "lockHold", call[c].op = "capture"
    PROVE  LET h == call[c].hold IN
           /\ h \in HoldRefs /\ holdLock[h] = c /\ View(c).holds[h].status = "active"
           /\ Sees(c).holds[h] = View(c).holds[h] /\ View(c).holds[h] \in HoldRow
           /\ View(c).holds[h].account \in Accounts
           /\ <<h, call[c].arg>> \in CaptureRequests
PROOF
  <1> DEFINE h == call[c].hold
  <1>1. Requested(c) /\ Drawn(c) /\ Agree(c) /\ pc[c] # "committing" /\ Laws(c)
    BY DEF IInv, CallerInv, Asked, Serving
  <1>2. <<h, call[c].arg>> \in CaptureRequests BY <1>1 DEF Requested
  <1>3. h \in HoldRefs BY <1>2, RequestsAssumption
  <1>4. holdLock[h] = c /\ View(c).holds[h].status = "active" BY <1>1 DEF Drawn
  <1>5. Sees(c).holds[h] = View(c).holds[h] BY <1>1, <1>3, <1>4 DEF Agree, MyHolds
  <1>6. View(c).holds[h] \in HoldRow BY <1>3, Views DEF IInv, LooseTables
  <1>7. View(c).holds[h].account \in Accounts
    BY <1>1, <1>3, <1>4, Views DEF IInv, Tables, OnAccounts
  <1> HIDE DEF h
  <1> QED BY <1>2, <1>3, <1>4, <1>5, <1>6, <1>7 DEF h

LEMMA LockHeldStep ==
    ASSUME IInv, NobodyCommits, NEW c \in Callers, LockHeld(c), program' = program
    PROVE  IInv'
PROOF
  <1> DEFINE h == call[c].hold
             row == Sees(c).holds[h]
             t == call[c].arg
             a == row.account
             want == Existing(c, Touched(t)) \ {a}
  <1>0. Typed /\ CallerInv(c) /\ pc[c] = "lockHeld" /\ Mine(acctLock[a], c)
    BY DEF IInv, LockHeld
  <1>1. Requested(c) /\ Agree(c) /\ call[c].op = "capture" /\ IsAsk(call[c])
    <2>1. Requested(c) /\ Agree(c) BY <1>0 DEF CallerInv, Asked, Serving
    <2> QED BY <1>0, <2>1 DEF Requested
  <1>2. /\ h \in HoldRefs /\ holdLock[h] = c /\ View(c).holds[h].status = "active"
        /\ row = View(c).holds[h] /\ a \in Accounts /\ row \in HoldRow
    BY <1>0, <1>1, HeldHold DEF Serving
  <1>3. CASE AccountChanged(c, a)
    <2>1. /\ pc' = [pc EXCEPT ![c] = "broken"] /\ call' = [call EXCEPT ![c] = NoCall]
          /\ failed' = [failed EXCEPT ![c] = TRUE]
          /\ db' = db /\ calls' = calls /\ snapshot' = snapshot /\ writes' = writes
          /\ acctLock' = acctLock /\ holdLock' = holdLock /\ chainLock' = chainLock
      BY <1>3 DEF LockHeld, SqlError, locks
    <2>2. Takes(c) BY <1>0, <2>1 DEF Takes, Typed
    <2>3. Confirmed(c) BY <2>1, NoNewLocks
    <2> QED BY <2>1, <2>2, <2>3, ErrorStep
  <1>4. CASE ~ AccountChanged(c, a)
    <2>1. /\ acctLock' = [acctLock EXCEPT ![a] = c] /\ holdLock' = holdLock
          /\ chainLock' = chainLock
      BY <1>4 DEF LockHeld
    <2>2. Takes(c) BY <1>0, <1>2, <2>1 DEF Takes, Typed
    <2>3. Sees(c).accounts[a] = View(c).accounts[a] BY <1>0, <1>2, <1>4, AccountConfirmed
    <2>4. MyAccounts(c)' = MyAccounts(c) \cup {a} /\ MyHolds(c)' = MyHolds(c)
      BY <1>0, <1>2, <2>1 DEF MyAccounts, MyHolds, Typed
    <2>5. Confirmed(c) BY <1>0, <1>1, <2>3, <2>4 DEF Confirmed, Agree
    <2>6. CASE Draws(t, a, row.amount)
      <3>1. /\ pc' = [pc EXCEPT ![c] = "lockRows"] /\ call' = [call EXCEPT ![c].want = want]
            /\ db' = db /\ calls' = calls /\ failed' = failed /\ snapshot' = snapshot
            /\ writes' = writes
        BY <1>4, <2>6 DEF LockHeld
      <3>0. want \subseteq Accounts BY DEF Existing
      <3>2. /\ call'[c].op = call[c].op /\ call'[c].arg = t /\ call'[c].hold = h
            /\ call'[c].want = want /\ IsAsk(call'[c])
            /\ DOMAIN call' = Callers /\ \A q \in Callers \ {c} : call'[q] = call[q]
        <4> HIDE DEF want
        <4> QED BY <1>0, <1>1, <3>1, WantsOnly DEF Typed
      <3>3. Moves(c, "lockRows") /\ pc'[c] = "lockRows"
        BY <1>0, <3>1, <3>2 DEF Moves, Typed
      <3>4. ASSUME View(c)' = View(c)
            PROVE  Requested(c)' /\ Drawn(c)' /\ Accepted(c)' /\ Reservable(c)'
        <4>1. Requested(c)'
          <5> HIDE DEF want, t, h
          <5> QED BY <1>1, <3>0, <3>2, <3>3, <3>4 DEF Requested, t, h
        <4>2. Drawn(c)'
          <5> HIDE DEF t
          <5> QED BY <1>2, <2>1, <2>6, <3>2, <3>3, <3>4 DEF Drawn
        <4>3. Accepted(c)' /\ Reservable(c)' BY <3>3 DEF Accepted, Reservable
        <4> QED BY <4>1, <4>2, <4>3
      <3>5. "lockRows" \in Serving BY DEF Serving
      <3> QED BY <2>2, <2>5, <3>3, <3>4, <3>5, MoveStep
    <2>7. CASE ~ Draws(t, a, row.amount)
      <3>1. /\ pc' = [pc EXCEPT ![c] = "open"] /\ call' = [call EXCEPT ![c] = NoCall]
            /\ failed' = [failed EXCEPT ![c] = TRUE]
            /\ db' = db /\ calls' = calls /\ snapshot' = snapshot /\ writes' = writes
        BY <1>4, <2>7 DEF LockHeld, Fail, Return
      <3> QED BY <2>2, <2>5, <3>1, ErrorStep
    <2> QED BY <2>6, <2>7
  <1> QED BY <1>3, <1>4

LEMMA MinExists ==
    ASSUME NEW n \in Nat, NEW S \in SUBSET (1 .. n), S # {}
    PROVE  MinOf(S) \in S /\ \A b \in S : MinOf(S) =< b
PROOF
  <1> DEFINE P == {m \in Nat : \A T \in SUBSET (1 .. m) :
                                  T # {} => \E k \in T : \A j \in T : k =< j}
  <1>1. 0 \in P
    <2> 1 .. 0 = {} OBVIOUS
    <2> QED OBVIOUS
  <1>2. ASSUME NEW m \in Nat, m \in P PROVE m + 1 \in P
    <2> SUFFICES ASSUME NEW T \in SUBSET (1 .. m + 1), T # {}
                 PROVE  \E k \in T : \A j \in T : k =< j
      OBVIOUS
    <2> DEFINE R == T \ {m + 1}
    <2>1. CASE R = {}
      <3> T = {m + 1} BY <2>1
      <3> QED OBVIOUS
    <2>2. CASE R # {}
      <3>1. R \in SUBSET (1 .. m) OBVIOUS
      <3>2. PICK k \in R : \A j \in R : k =< j BY <1>2, <2>2, <3>1
      <3>3. \A j \in T : k =< j
        <4> TAKE j \in T
        <4>1. CASE j \in R BY <3>2, <4>1
        <4>2. CASE j \notin R
          <5> j = m + 1 /\ k \in 1 .. m BY <3>1, <3>2, <4>2
          <5> QED OBVIOUS
        <4> QED BY <4>1, <4>2
      <3> QED BY <3>2, <3>3
    <2> QED BY <2>1, <2>2
  <1> HIDE DEF P
  <1>3. Nat \subseteq P BY <1>1, <1>2, NatSetInduction
  <1>4. \E k \in S : \A j \in S : k =< j BY <1>3 DEF P
  <1> QED BY <1>4 DEF MinOf

LEMMA SmallestRow ==
    ASSUME NEW S \in SUBSET Accounts, S # {}
    PROVE  MinOf(S) \in S /\ \A b \in S : MinOf(S) =< b
BY MinExists, BoundsAssumption DEF Accounts

LEMMA LockRowsStep ==
    ASSUME IInv, NobodyCommits, NEW c \in Callers, LockRows(c), program' = program
    PROVE  IInv'
PROOF
  <1> DEFINE a == MinOf(call[c].want)
             want == call[c].want \ {a}
  <1>0. /\ Typed /\ CallerInv(c) /\ pc[c] = "lockRows" /\ Mine(acctLock[a], c)
        /\ call[c].want # {}
    BY DEF IInv, LockRows
  <1>1. /\ Requested(c) /\ Drawn(c) /\ Agree(c) /\ call[c].want \subseteq Accounts
        /\ IsAsk(call[c])
    <2>1. Requested(c) /\ Drawn(c) /\ Agree(c)
      BY <1>0 DEF CallerInv, Asked, Serving
    <2> QED BY <1>0, <2>1 DEF Requested
  <1>2. a \in Accounts BY <1>0, <1>1, SmallestRow
  <1>3. CASE AccountChanged(c, a)
    <2>1. /\ pc' = [pc EXCEPT ![c] = "broken"] /\ call' = [call EXCEPT ![c] = NoCall]
          /\ failed' = [failed EXCEPT ![c] = TRUE]
          /\ db' = db /\ calls' = calls /\ snapshot' = snapshot /\ writes' = writes
          /\ acctLock' = acctLock /\ holdLock' = holdLock /\ chainLock' = chainLock
      BY <1>3 DEF LockRows, SqlError, locks
    <2>2. Takes(c) BY <1>0, <2>1 DEF Takes, Typed
    <2>3. Confirmed(c) BY <2>1, NoNewLocks
    <2> QED BY <2>1, <2>2, <2>3, ErrorStep
  <1>4. CASE ~ AccountChanged(c, a)
    <2>1. /\ acctLock' = [acctLock EXCEPT ![a] = c] /\ holdLock' = holdLock
          /\ chainLock' = chainLock /\ call' = [call EXCEPT ![c].want = want]
          /\ db' = db /\ pc' = pc /\ calls' = calls /\ failed' = failed
          /\ snapshot' = snapshot /\ writes' = writes
      BY <1>4 DEF LockRows
    <2> HIDE DEF a
    <2>2. Takes(c) BY <1>0, <1>2, <2>1 DEF Takes, Typed
    <2>3. Sees(c).accounts[a] = View(c).accounts[a] BY <1>0, <1>2, <1>4, AccountConfirmed
    <2>4. MyAccounts(c)' = MyAccounts(c) \cup {a} /\ MyHolds(c)' = MyHolds(c)
      BY <1>0, <1>2, <2>1 DEF MyAccounts, MyHolds, Typed
    <2>5. Confirmed(c) BY <1>0, <1>1, <2>3, <2>4 DEF Confirmed, Agree
    <2>6. /\ call'[c].op = call[c].op /\ call'[c].arg = call[c].arg
          /\ call'[c].hold = call[c].hold /\ call'[c].want = want /\ IsAsk(call'[c])
          /\ DOMAIN call' = Callers /\ \A q \in Callers \ {c} : call'[q] = call[q]
      <3> HIDE DEF want
      <3> QED BY <1>0, <1>1, <2>1, WantsOnly DEF Typed
    <2>7. Moves(c, "lockRows") /\ pc'[c] = "lockRows"
      BY <1>0, <2>1, <2>6 DEF Moves, Typed
    <2>8. ASSUME View(c)' = View(c)
          PROVE  Requested(c)' /\ Drawn(c)' /\ Accepted(c)' /\ Reservable(c)'
      <3>1. want \subseteq Accounts BY <1>1
      <3> HIDE DEF want
      <3>2. Requested(c)' BY <1>0, <1>1, <2>1, <2>6, <2>8, <3>1 DEF Requested
      <3>3. Drawn(c)' BY <1>0, <1>1, <2>1, <2>6, <2>8 DEF Drawn
      <3>4. Accepted(c)' /\ Reservable(c)' BY <2>7 DEF Accepted, Reservable
      <3> QED BY <3>2, <3>3, <3>4
    <2>9. "lockRows" \in Serving BY DEF Serving
    <2> QED BY <2>2, <2>5, <2>7, <2>8, <2>9, MoveStep
  <1> QED BY <1>3, <1>4

LEMMA CheckRowsStep ==
    ASSUME IInv, NobodyCommits, NEW c \in Callers, CheckRows(c), program' = program
    PROVE  IInv'
PROOF
  <1> DEFINE arg == call[c].arg
             op == call[c].op
  <1>0. /\ Typed /\ CallerInv(c) /\ pc[c] = "lockRows"
        /\ acctLock' = acctLock /\ holdLock' = holdLock /\ chainLock' = chainLock
        /\ IF Acceptable(c) THEN Goto(c, IF op = "hold" THEN "insertHold" ELSE "write")
           ELSE Fail(c, "unknown, archived, currency or insufficient funds")
    BY DEF IInv, CheckRows, locks
  <1>1. Requested(c) /\ Drawn(c) /\ Agree(c) /\ op \in {"post", "hold", "capture"}
    <2>1. Requested(c) /\ Drawn(c) /\ Agree(c)
      BY <1>0 DEF CallerInv, Asked, Serving
    <2> QED BY <1>0, <2>1 DEF Requested
  <1>2. Takes(c) BY <1>0 DEF Takes, Typed
  <1>3. Confirmed(c) /\ MyAccounts(c)' = MyAccounts(c) BY <1>0, NoNewLocks
  <1>4. \A a \in MyAccounts(c) : Sees(c).accounts[a] = View(c).accounts[a]
    BY <1>0, <1>1 DEF Agree
  <1>6. CASE ~ Acceptable(c)
    <2>1. /\ pc' = [pc EXCEPT ![c] = "open"] /\ call' = [call EXCEPT ![c] = NoCall]
          /\ failed' = [failed EXCEPT ![c] = TRUE]
          /\ db' = db /\ calls' = calls /\ snapshot' = snapshot /\ writes' = writes
      BY <1>0, <1>6 DEF Fail, Return
    <2> QED BY <1>2, <1>3, <2>1, ErrorStep
  <1>7. CASE Acceptable(c) /\ op = "hold"
    <2> DEFINE x == arg.account
    <2>1. Goto(c, "insertHold") BY <1>0, <1>7
    <2>2. pc'[c] = "insertHold" /\ call' = call /\ Moves(c, "insertHold")
      BY <1>0, <2>1, GotoMoves
    <2>3. /\ x \in Accounts /\ acctLock[x] = c /\ Sees(c).accounts[x] = "open"
          /\ Chart[x].currency = arg.currency
          /\ ~ Chart[x].allowNegative
               => AvailableLocked(Sees(c).balances, Sees(c).holds, x, 0) >= arg.amount
      BY <1>7 DEF Acceptable
    <2>4. x \in MyAccounts(c) BY <2>3 DEF MyAccounts
    <2>5. Disciplined => Sees(c) = View(c) BY DEF Disciplined, Sees, View
    <2>6. ASSUME View(c)' = View(c)
          PROVE  Requested(c)' /\ Drawn(c)' /\ Accepted(c)' /\ Reservable(c)'
      <3>1. Requested(c)' BY <1>1, <1>7, <2>2, <2>6 DEF Requested
      <3>2. Drawn(c)' /\ Accepted(c)' BY <1>7, <2>2 DEF Drawn, Accepted
      <3>3. Reservable(c)'
        <4>1. /\ x \in MyAccounts(c)' /\ View(c).accounts[x] = "open"
              /\ Chart[x].currency = arg.currency
          BY <1>3, <1>4, <2>3, <2>4
        <4>2. Disciplined /\ ~ Chart[x].allowNegative
                => AvailableLocked(View(c).balances, View(c).holds, x, 0) >= arg.amount
          BY <2>3, <2>5
        <4> QED BY <2>2, <2>6, <4>1, <4>2 DEF Reservable, Disciplined
      <3> QED BY <3>1, <3>2, <3>3
    <2>7. "insertHold" \in Serving BY DEF Serving
    <2> QED BY <1>2, <1>3, <2>2, <2>6, <2>7, MoveStep
  <1>8. CASE Acceptable(c) /\ op \in {"post", "capture"}
    <2>1. Goto(c, "write") BY <1>0, <1>8
    <2>2. pc'[c] = "write" /\ call' = call /\ Moves(c, "write")
      BY <1>0, <2>1, GotoMoves
    <2>3. /\ AccountsAccept(Sees(c).accounts, arg)
          /\ \A a \in Touched(arg) : a \in Accounts /\ acctLock[a] = c
      BY <1>8 DEF Acceptable
    <2>4. Touched(arg) \subseteq MyAccounts(c) BY <2>3 DEF MyAccounts
    <2>5. \A i \in 1 .. Len(arg.postings) : arg.postings[i].account \in MyAccounts(c)
      BY <2>4 DEF Touched
    <2>6. AccountsAccept(View(c).accounts, arg) BY <1>4, <2>3, <2>5 DEF AccountsAccept
    <2>7. ASSUME View(c)' = View(c)
          PROVE  Requested(c)' /\ Drawn(c)' /\ Accepted(c)' /\ Reservable(c)'
      <3>1. Requested(c)' BY <1>1, <1>8, <2>2, <2>7 DEF Requested
      <3>2. Drawn(c)' BY <1>0, <1>1, <2>2, <2>7 DEF Drawn
      <3>3. Reservable(c)' BY <2>2 DEF Reservable
      <3>4. Accepted(c)' BY <1>3, <2>2, <2>4, <2>6, <2>7 DEF Accepted
      <3> QED BY <3>1, <3>2, <3>3, <3>4
    <2>8. "write" \in Serving BY DEF Serving
    <2> QED BY <1>2, <1>3, <2>2, <2>7, <2>8, MoveStep
  <1> QED BY <1>1, <1>6, <1>7, <1>8

LEMMA InsertHoldStep ==
    ASSUME IInv, NobodyCommits, NEW c \in Callers, InsertHold(c), program' = program
    PROVE  IInv'
PROOF
  <1> DEFINE h == call[c].hold
             r == call[c].arg
             w == [kind |-> "hold", hold |-> h, row |-> r]
  <1>0. Typed /\ CallerInv(c) /\ pc[c] = "insertHold" BY DEF IInv, InsertHold
  <1>1. Requested(c) /\ Reservable(c) /\ Agree(c)
    BY <1>0 DEF CallerInv, Asked, Serving
  <1>2. CASE Taken(c, h)
    <2>1. /\ pc' = [pc EXCEPT ![c] = "broken"] /\ call' = [call EXCEPT ![c] = NoCall]
          /\ failed' = [failed EXCEPT ![c] = TRUE]
          /\ db' = db /\ calls' = calls /\ snapshot' = snapshot /\ writes' = writes
          /\ acctLock' = acctLock /\ holdLock' = holdLock /\ chainLock' = chainLock
      BY <1>2 DEF InsertHold, SqlError, locks
    <2>2. Takes(c) BY <1>0, <2>1 DEF Takes, Typed
    <2>3. Confirmed(c) BY <2>1, NoNewLocks
    <2> QED BY <2>1, <2>2, <2>3, ErrorStep
  <1>3. CASE ~ Taken(c, h)
    <2>1. /\ Mine(holdLock[h], c) /\ holdLock' = [holdLock EXCEPT ![h] = c]
          /\ acctLock' = acctLock /\ chainLock' = chainLock
          /\ Succeed(c, w)
      BY <1>3 DEF InsertHold
    <2>2. /\ r \in HoldRequests /\ r \in HoldRequest /\ h = r.reference /\ h \in HoldRefs
          /\ h # 0 /\ r.amount > 0 /\ r.amount \in Nat
      <3>1. r \in HoldRequests /\ h = r.reference /\ h # 0 /\ r.amount > 0
        BY <1>0, <1>1 DEF Requested
      <3>2. r \in HoldRequest BY <3>1, RequestsAssumption
      <3> QED BY <3>1, <3>2 DEF HoldRequest
    <2>3. /\ r.account \in MyAccounts(c) /\ r.account \in Accounts
          /\ View(c).accounts[r.account] = "open"
          /\ Chart[r.account].currency = r.currency
          /\ Disciplined /\ ~ Chart[r.account].allowNegative
               => AvailableLocked(View(c).balances, View(c).holds, r.account, 0) >= r.amount
      BY <1>0, <1>1 DEF Reservable, MyAccounts
    <2>4. w \in Writes BY <2>2, <2>3 DEF Writes, HoldWrites
    <2>5. Takes(c) BY <1>0, <2>1, <2>2 DEF Takes, Typed
    <2>6. /\ MyAccounts(c)' = MyAccounts(c)
          /\ MyHolds(c)' = MyHolds(c) \cup {h}
      BY <1>0, <2>1, <2>2 DEF MyAccounts, MyHolds, Typed
    <2>7. View(c).holds[h].status = "none"
      <3>1. db.holds[h].status = "none" /\ Sees(c).holds[h].status = "none"
        BY <1>3 DEF Taken
      <3>2. CASE c \in program.snapshots
        <4>1. Shares(snapshot[c], db, Sees(c), View(c))
          BY <1>0, <3>2, Views, ReplayShares DEF Sees, View
        <4>2. snapshot[c].holds[h].status = "none" BY <2>2, <3>1, <4>1 DEF Shares
        <4> QED BY <2>2, <3>1, <4>1, <4>2 DEF Shares
      <3>3. CASE c \notin program.snapshots BY <3>1, <3>3 DEF Sees, View
      <3> QED BY <3>2, <3>3
    <2>8. Adds(c, w)
      <3>1. Within(MyAccounts(c)', MyHolds(c)', MyChain(c)', w) BY <2>3, <2>6 DEF Within
      <3>2. Lawful(View(c), w) BY <2>2, <2>3, <2>7 DEF Lawful, LawfulHold
      <3>3. Disciplined => Strict(View(c), w) BY <2>3 DEF Strict
      <3>4. writes' = [writes EXCEPT ![c] = Append(@, w)] BY <2>1 DEF Succeed
      <3>5. /\ \A a \in MyAccounts(c) : Sees(c).accounts[a] = View(c).accounts[a]
            /\ \A g \in MyHolds(c) : Sees(c).holds[g] = View(c).holds[g]
        BY <1>0, <1>1 DEF Agree
      <3>6. w.kind = "hold" /\ w.hold = h OBVIOUS
      <3> HIDE DEF w
      <3> QED BY <2>4, <2>6, <3>1, <3>2, <3>3, <3>4, <3>5, <3>6 DEF Adds
    <2>9. Returns(c) BY <1>0, <2>1 DEF Succeed, Return, Returns, Keeps, Typed, Labels
    <2> HIDE DEF w
    <2> QED BY <2>5, <2>8, <2>9, WriteStep
  <1> QED BY <1>2, <1>3

-----------------------------------------------------------------------------
(* Writing a transfer.                                                     *)

LEMMA MaxExists ==
    ASSUME NEW n \in Nat, NEW S \in SUBSET (1 .. n), S # {}
    PROVE  \E k \in S : \A j \in S : j =< k
PROOF
  <1> DEFINE P == {m \in Nat : \A T \in SUBSET (1 .. m) :
                                  T # {} => \E k \in T : \A j \in T : j =< k}
  <1>1. 0 \in P
    <2> 1 .. 0 = {} OBVIOUS
    <2> QED OBVIOUS
  <1>2. ASSUME NEW m \in Nat, m \in P PROVE m + 1 \in P
    <2> SUFFICES ASSUME NEW T \in SUBSET (1 .. m + 1), T # {}
                 PROVE  \E k \in T : \A j \in T : j =< k
      OBVIOUS
    <2>1. CASE m + 1 \in T BY <2>1
    <2>2. CASE m + 1 \notin T
      <3> T \in SUBSET (1 .. m) BY <2>2
      <3> QED BY <1>2
    <2> QED BY <2>1, <2>2
  <1> HIDE DEF P
  <1>3. Nat \subseteq P BY <1>1, <1>2, NatSetInduction
  <1> QED BY <1>3 DEF P

\* The digest a transaction chains its row to is a digest.
LEMMA TailHashType ==
    ASSUME NEW trs \in RowMaps, NEW n \in Nat, DOMAIN trs \subseteq 1 .. n
    PROVE  TailHash(trs) \in Seq(Transfer)
PROOF
  <1>1. CASE DOMAIN trs = {} BY <1>1, EmptySeq DEF TailHash, NoHash
  <1>2. CASE DOMAIN trs # {}
    <2> DEFINE k == CHOOSE k \in DOMAIN trs : \A j \in DOMAIN trs : j =< k
    <2>1. \E i \in DOMAIN trs : \A j \in DOMAIN trs : j =< i BY <1>2, MaxExists
    <2>2. k \in DOMAIN trs BY <2>1
    <2>3. TailHash(trs) = trs[k].hash BY <1>2 DEF TailHash
    <2> HIDE DEF k
    <2>4. trs[k] \in RowType BY <2>2, RowMapDef
    <2> QED BY <2>3, <2>4 DEF RowType
  <1> QED BY <1>1, <1>2

\* Lawful writes leave the rows below them as they are.
LEMMA ReplayExtends ==
    ASSUME NEW d \in Tables, NEW ws \in Seq(Writes), LawsOver(d, ws)
    PROVE  Part(d.transfers, Replay(d, ws).transfers)
PROOF
  <1> DEFINE S == {i \in Nat : i =< Len(ws) =>
                      /\ After(d, ws)[i] \in Tables
                      /\ Part(d.transfers, After(d, ws)[i].transfers)}
  <1>0. Len(ws) \in Nat /\ \A i \in 1 .. Len(ws) : ws[i] \in Writes
    BY LenProperties, ElementOfSeq
  <1>1. 0 \in S BY AfterStep DEF Part
  <1>2. ASSUME NEW i \in Nat, i \in S PROVE i + 1 \in S
    <2> SUFFICES ASSUME i + 1 =< Len(ws)
                 PROVE  /\ After(d, ws)[i + 1] \in Tables
                        /\ Part(d.transfers, After(d, ws)[i + 1].transfers)
      OBVIOUS
    <2> DEFINE e == After(d, ws)[i]
               v == ws[i + 1]
    <2>1. e \in Tables /\ Part(d.transfers, e.transfers) BY <1>0, <1>2
    <2>2. After(d, ws)[i + 1] = Apply(e, v) BY AfterStep
    <2>3. i + 1 \in 1 .. Len(ws) /\ (i + 1) - 1 = i BY <1>0
    <2>4. v \in Writes /\ Lawful(e, v) BY <1>0, <2>3 DEF LawsOver
    <2>5. /\ Apply(e, v) \in Tables
          /\ v.kind = "transfer" => Apply(e, v).transfers = Append(e.transfers, v.row)
          /\ v.kind # "transfer" => Apply(e, v).transfers = e.transfers
      BY <2>1, <2>4, LawTables
    <2>6. v.kind = "transfer" => v.row \in RowType
      BY <2>4, KindsDiffer DEF TransferWrites
    <2>7. e.transfers \in Seq(RowType) BY <2>1 DEF Tables
    <2> HIDE DEF e, v
    <2>8. Part(e.transfers, Apply(e, v).transfers)
      <3>1. CASE v.kind = "transfer"
        <4> DEFINE s == e.transfers
        <4>1. Len(s) \in Nat /\ DOMAIN s = 1 .. Len(s) BY <2>7, LenProperties
        <4>2. /\ DOMAIN Append(s, v.row) = 1 .. Len(s) + 1
              /\ \A k \in 1 .. Len(s) : Append(s, v.row)[k] = s[k]
          BY <2>6, <2>7, <3>1, <4>1, AppendProperties, LenProperties
        <4>3. Part(s, Append(s, v.row)) BY <4>1, <4>2 DEF Part
        <4> QED BY <2>5, <3>1, <4>3
      <3>2. CASE v.kind # "transfer" BY <2>5, <3>2 DEF Part
      <3> QED BY <3>1, <3>2
    <2>9. Part(d.transfers, Apply(e, v).transfers) BY <2>1, <2>8 DEF Part
    <2> QED BY <2>2, <2>5, <2>9
  <1> HIDE DEF S
  <1>3. Nat \subseteq S BY <1>1, <1>2, NatSetInduction
  <1> QED BY <1>0, <1>3 DEF S, Replay

\* Under the chain lock the only pending ids are the transaction's own, and the
\* id it draws is the next one.
LEMMA NextId ==
    ASSUME IInv, NEW c \in Callers, Mine(chainLock, c)
    PROVE  /\ FreshId = Len(View(c).transfers) + 1
           /\ Len(View(c).transfers) \in Nat
           /\ DOMAIN View(c).transfers = 1 .. Len(View(c).transfers)
           /\ DOMAIN View(c).transfers = DOMAIN db.transfers \cup Ids(writes[c])
PROOF
  <1> DEFINE n == Len(View(c).transfers)
  <1>0. Typed /\ CallerInv(c) BY DEF IInv
  <1>1. View(c) \in Tables BY <1>0, Views DEF CallerInv
  <1>2. n \in Nat /\ DOMAIN View(c).transfers = 1 .. n
    BY <1>1, LenProperties DEF Tables
  <1>3. DOMAIN View(c).transfers = DOMAIN db.transfers \cup Ids(writes[c])
    <2> writes[c] \in Seq(Writes) /\ db \in LooseTables BY <1>0, Views
    <2> QED BY ReplayIds DEF View
  <1>4. PendingIds = Ids(writes[c])
    <2>1. ASSUME NEW p \in Callers, p # c PROVE Ids(writes[p]) = {}
      <3> SUFFICES ASSUME NEW i \in DOMAIN writes[p], writes[p][i].kind = "transfer"
                   PROVE  FALSE
        BY DEF Ids
      <3>1. writes[p] \in Seq(Writes) BY <1>0, Views
      <3>2. i \in 1 .. Len(writes[p]) BY <3>1, LenProperties
      <3>3. Within(MyAccounts(p), MyHolds(p), MyChain(p), writes[p][i])
        BY <3>2 DEF IInv, CallerInv, Owned
      <3>4. chainLock = p BY <3>3 DEF Within, MyChain
      <3> QED BY <2>1, <3>4, CallersAssumption DEF Mine
    <2>2. PendingIds = UNION {Ids(writes[p]) : p \in Callers} BY DEF PendingIds, Ids
    <2> QED BY <2>1, <2>2
  <1>5. DOMAIN db.transfers \cup PendingIds = 1 .. n BY <1>2, <1>3, <1>4
  <1> HIDE DEF n
  <1>6. FreshId = n + 1
    <2> DEFINE S == {0} \cup DOMAIN db.transfers \cup PendingIds
               m == CHOOSE k \in S : \A j \in DOMAIN db.transfers \cup PendingIds : j =< k
    <2>1. S = 0 .. n BY <1>2, <1>5
    <2>2. FreshId = 1 + m BY DEF FreshId
    <2>3. m = CHOOSE k \in 0 .. n : \A j \in 1 .. n : j =< k BY <1>5, <2>1
    <2>4. \E k \in 0 .. n : \A j \in 1 .. n : j =< k BY <1>2
    <2> HIDE DEF m
    <2>5. m \in 0 .. n /\ \A j \in 1 .. n : j =< m BY <2>3, <2>4
    <2>6. m = n BY <1>2, <2>5
    <2> QED BY <1>2, <2>2, <2>6
  <1> QED BY <1>2, <1>3, <1>6 DEF n

LEMMA ContentOfRow ==
    ASSUME NEW t \in Transfer, NEW prev PROVE Content(Row(t, prev)) = t
BY DEF Content, Row, Transfer

LEMMA WriteTransferStep ==
    ASSUME IInv, NobodyCommits, NEW c \in Callers, Write(c), program' = program
    PROVE  IInv'
PROOF
  <1> DEFINE h == call[c].hold
             t == call[c].arg
             op == call[c].op
             d == Sees(c)
             U == View(c)
             ok == Covered(d.balances, d.holds, t, h)
             row == Row(t, TailHash(d.transfers))
             w == [kind |-> "transfer", id |-> FreshId, row |-> row, hold |-> h, ok |-> ok]
  <1>0. /\ Typed /\ CallerInv(c) /\ pc[c] = "write" /\ Mine(chainLock, c)
        /\ chainLock' = c /\ acctLock' = acctLock /\ holdLock' = holdLock
    BY DEF IInv, Write
  <1>1. /\ Requested(c) /\ Drawn(c) /\ Accepted(c) /\ Agree(c) /\ Laws(c)
        /\ op \in {"post", "capture"}
    <2>1. Requested(c) /\ Drawn(c) /\ Accepted(c) /\ Agree(c) /\ Laws(c)
      BY <1>0 DEF CallerInv, Asked, Serving
    <2> QED BY <1>0, <2>1 DEF Requested
  <1>2. Takes(c) BY <1>0 DEF Takes, Typed
  <1>3. /\ MyAccounts(c)' = MyAccounts(c) /\ MyHolds(c)' = MyHolds(c) /\ MyChain(c)'
    BY <1>0 DEF MyAccounts, MyHolds, MyChain
  <1>4. Confirmed(c) BY <1>0, <1>1, <1>3 DEF Confirmed, Agree
  <1>5. CASE SqlError(c)
    <2>1. /\ pc' = [pc EXCEPT ![c] = "broken"] /\ call' = [call EXCEPT ![c] = NoCall]
          /\ failed' = [failed EXCEPT ![c] = TRUE]
          /\ db' = db /\ calls' = calls /\ snapshot' = snapshot /\ writes' = writes
      BY <1>5 DEF SqlError
    <2> QED BY <1>2, <1>4, <2>1, ErrorStep
  <1>6. CASE /\ Unused(db.transfers, t) /\ Unused(d.transfers, t)
             /\ writes' = [writes EXCEPT ![c] = Append(@, w)]
             /\ failed' = [failed EXCEPT ![c] = @ \/ ~ ok]
             /\ Return(c)
    <2>1. /\ t \in RawTransfer /\ Validate(t)
          /\ op = "post" => h = 0 /\ Origin(t, 0, U.transfers)
          /\ op = "capture" => h \in HoldRefs /\ <<h, t>> \in CaptureRequests
      BY <1>1, RequestsAssumption DEF Requested
    <2>2. AccountsAccept(U.accounts, t) /\ Touched(t) \subseteq MyAccounts(c)
      BY <1>0, <1>1 DEF Accepted
    <2>3. op = "capture" => /\ holdLock[h] = c /\ U.holds[h].status = "active"
                            /\ Draws(t, U.holds[h].account, U.holds[h].amount)
      BY <1>0, <1>1 DEF Drawn
    <2>4. t \in Transfer BY <2>1, <2>2, AcceptedIsTyped
    <2>5. /\ U \in Tables /\ d \in LooseTables /\ db \in Tables
          /\ writes[c] \in Seq(Writes)
      BY <1>0, <1>1, Views DEF Typed
    <2>6. /\ FreshId = Len(U.transfers) + 1 /\ Len(U.transfers) \in Nat
          /\ DOMAIN U.transfers = 1 .. Len(U.transfers)
          /\ DOMAIN U.transfers = DOMAIN db.transfers \cup Ids(writes[c])
      BY <1>0, NextId
    <2>7. Part(d.transfers, U.transfers) BY <1>0, <1>1 DEF Agree
    <2>8. row \in RowType
      <3>1. TailHash(d.transfers) \in Seq(Transfer)
        BY <2>5, <2>6, <2>7, TailHashType DEF LooseTables, Part
      <3>2. Append(TailHash(d.transfers), t) \in Seq(Transfer)
        BY <2>4, <3>1, AppendProperties
      <3> QED BY <2>4, <3>1, <3>2 DEF Row, RowType, ChainDigest, Transfer
    <2>9. Content(row) = t BY <2>4, ContentOfRow
    <2>10. h \in HoldRefs \cup {0} BY <1>1, <2>1
    <2>11. ok \in BOOLEAN BY DEF Covered
    <2> HIDE DEF ok, row, d, U, t, h, op
    <2>12. w \in Writes
      <3> w \in TransferWrites BY <2>6, <2>8, <2>10, <2>11 DEF TransferWrites
      <3> QED BY DEF Writes
    <2>13. Within(MyAccounts(c)', MyHolds(c)', MyChain(c)', w)
      <3>1. Touched(row) = Touched(t) BY <2>8, <2>9, ContentFacts
      <3>2. h # 0 => h \in MyHolds(c)
        BY <1>1, <2>1, <2>3 DEF MyHolds
      <3> QED BY <1>3, <2>2, <3>1, <3>2 DEF Within
    <2>14. Unused(U.transfers, t)
      <3>1. Part(db.transfers, U.transfers)
        BY <1>1, <2>5, ReplayExtends DEF Laws, View, U
      <3>2. ASSUME NEW k \in DOMAIN U.transfers
            PROVE  \/ k \in DOMAIN db.transfers /\ db.transfers[k] = U.transfers[k]
                   \/ k \in DOMAIN d.transfers /\ d.transfers[k] = U.transfers[k]
        <4>1. CASE k \in DOMAIN db.transfers BY <3>1, <4>1 DEF Part
        <4>2. CASE k \in Ids(writes[c])
          <5>1. k \in DOMAIN d.transfers
            <6>1. CASE c \in program.snapshots
              <7> d = Replay(snapshot[c], writes[c]) BY <6>1 DEF d, Sees
              <7> QED BY <1>0, <4>2, Views, ReplayIds
            <6>2. CASE c \notin program.snapshots
              <7> d = Replay(db, writes[c]) BY <6>2 DEF d, Sees
              <7> QED BY <1>0, <4>2, Views, ReplayIds
            <6> QED BY <6>1, <6>2
          <5> QED BY <2>7, <5>1 DEF Part
        <4> QED BY <2>6, <4>1, <4>2
      <3>3. Unused(db.transfers, t) /\ Unused(d.transfers, t) BY <1>6 DEF d, t
      <3> QED BY <3>2, <3>3 DEF Unused
    <2>15. Lawful(U, w)
      <3>1. Origin(t, h, U.transfers)
        <4>1. CASE op = "post" BY <2>1, <4>1
        <4>2. CASE op = "capture" BY <2>1, <4>2, NoHoldZero DEF Origin
        <4> QED BY <1>1, <4>1, <4>2
      <3>2. h # 0 => U.holds[h].status = "active"
                     /\ Draws(t, U.holds[h].account, U.holds[h].amount)
        BY <1>1, <2>1, <2>2, <2>3
      <3>3. LawfulTransfer(U, w)
        BY <2>1, <2>2, <2>6, <2>9, <2>14, <3>1, <3>2 DEF LawfulTransfer
      <3> QED BY <3>3 DEF Lawful
    <2>16. Disciplined /\ ~ failed'[c] => Strict(U, w)
      <3> SUFFICES ASSUME Disciplined, ~ failed'[c] PROVE Strict(U, w) OBVIOUS
      <3>1. d = U BY DEF Disciplined, Sees, View, d, U
      <3>2. ok BY <1>0, <1>6 DEF Typed, ok, d, t, h
      <3>3. Covered(U.balances, U.holds, t, h) BY <3>1, <3>2 DEF ok
      <3>4. row = Row(Content(row), TailHash(U.transfers)) BY <2>9, <3>1 DEF row
      <3> QED BY <2>9, <3>2, <3>3, <3>4 DEF Strict
    <2>17. writes' = [writes EXCEPT ![c] = Append(@, w)]
      BY <1>6 DEF ok, row, d, t, h
    <2>18. Adds(c, w)
      <3> HIDE DEF w
      <3> QED BY <1>4, <2>12, <2>13, <2>15, <2>16, <2>17 DEF Adds, Confirmed, U
    <2>19. Returns(c)
      <3> failed' = [failed EXCEPT ![c] = @ \/ ~ ok] BY <1>6 DEF ok, d, t, h
      <3> QED BY <1>0, <1>6, <2>11 DEF Return, Returns, Keeps, Typed, Labels
    <2> HIDE DEF w
    <2> QED BY <1>2, <2>18, <2>19, WriteStep
  <1> QED BY <1>5, <1>6 DEF Write

-----------------------------------------------------------------------------
(* Calls of a single statement.                                            *)

LEMMA AccountErrorStep ==
    ASSUME IInv, NobodyCommits, NEW c \in Callers, program' = program,
           acctLock' = acctLock, holdLock' = holdLock, chainLock' = chainLock,
           SqlError(c) \/ \E err : Fail(c, err)
    PROVE  IInv'
PROOF
  <1>0. Typed BY DEF IInv
  <1>1. Takes(c) BY <1>0 DEF Takes, Typed
  <1>2. Confirmed(c) BY NoNewLocks
  <1>3. CASE SqlError(c)
    <2>1. /\ pc' = [pc EXCEPT ![c] = "broken"] /\ call' = [call EXCEPT ![c] = NoCall]
          /\ failed' = [failed EXCEPT ![c] = TRUE]
          /\ db' = db /\ calls' = calls /\ snapshot' = snapshot /\ writes' = writes
      BY <1>3 DEF SqlError
    <2> QED BY <1>1, <1>2, <2>1, ErrorStep
  <1>4. ASSUME NEW err, Fail(c, err) PROVE IInv'
    <2>1. /\ pc' = [pc EXCEPT ![c] = "open"] /\ call' = [call EXCEPT ![c] = NoCall]
          /\ failed' = [failed EXCEPT ![c] = TRUE]
          /\ db' = db /\ calls' = calls /\ snapshot' = snapshot /\ writes' = writes
      BY <1>4 DEF Fail, Return
    <2> QED BY <1>1, <1>2, <2>1, ErrorStep
  <1> QED BY <1>3, <1>4

\* The row of an account is locked and written.
LEMMA AccountWriteStep ==
    ASSUME IInv, NobodyCommits, NEW c \in Callers, program' = program,
           NEW a \in Accounts, NEW status \in {"open", "archived"}, Mine(acctLock[a], c),
           acctLock' = [acctLock EXCEPT ![a] = c], holdLock' = holdLock,
           chainLock' = chainLock,
           Succeed(c, [kind |-> "account", account |-> a, status |-> status]),
           Sees(c).accounts[a] = View(c).accounts[a],
           status = "open" => Sees(c).accounts[a] = "none",
           status = "archived" => Sees(c).accounts[a] # "none"
    PROVE  IInv'
PROOF
  <1> DEFINE w == [kind |-> "account", account |-> a, status |-> status]
  <1>0. /\ Typed /\ CallerInv(c) /\ failed' = failed
        /\ writes' = [writes EXCEPT ![c] = Append(@, w)]
        /\ pc' = [pc EXCEPT ![c] = "open"] /\ call' = [call EXCEPT ![c] = NoCall]
        /\ db' = db /\ calls' = calls /\ snapshot' = snapshot
    BY DEF IInv, Succeed, Return
  <1>1. Takes(c) BY <1>0 DEF Takes, Typed
  <1>2. /\ MyAccounts(c)' = MyAccounts(c) \cup {a} /\ MyHolds(c)' = MyHolds(c)
    BY <1>0 DEF MyAccounts, MyHolds, Typed
  <1>3. Confirmed(c) BY <1>0, <1>2 DEF Confirmed, CallerInv, Agree, NobodyCommits
  <1>4. w \in Writes BY DEF Writes, AccountWrites
  <1>5. Adds(c, w)
    <2>1. Within(MyAccounts(c)', MyHolds(c)', MyChain(c)', w) BY <1>2 DEF Within
    <2>2. Lawful(View(c), w) /\ Strict(View(c), w)
      BY DEF Lawful, LawfulAccount, Strict
    <2> HIDE DEF w
    <2> QED BY <1>0, <1>3, <1>4, <2>1, <2>2 DEF Adds, Confirmed
  <1>6. Returns(c) BY <1>0 DEF Returns, Keeps, Typed, Labels
  <1> HIDE DEF w
  <1> QED BY <1>1, <1>5, <1>6, WriteStep

LEMMA CreateAccountStep ==
    ASSUME IInv, NobodyCommits, NEW c \in Callers, program' = program, CreateAccount(c)
    PROVE  IInv'
PROOF
  <1>0. Typed /\ CallerInv(c) /\ pc[c] = "createAccount" BY DEF IInv, CreateAccount
  <1>1. call[c].want \subseteq Accounts
    <2> Requested(c) BY <1>0 DEF CallerInv, Asked, Serving
    <2> QED BY <1>0 DEF Requested
  <1>2. CASE /\ acctLock' = acctLock /\ holdLock' = holdLock /\ chainLock' = chainLock
             /\ SqlError(c) \/ \E err : Fail(c, err)
    BY <1>2, AccountErrorStep
  <1>3. ASSUME NEW a \in call[c].want, ~ AccountTaken(c, a), Mine(acctLock[a], c),
               acctLock' = [acctLock EXCEPT ![a] = c], holdLock' = holdLock,
               chainLock' = chainLock,
               Succeed(c, [kind |-> "account", account |-> a, status |-> "open"])
        PROVE  IInv'
    <2>1. a \in Accounts /\ db.accounts[a] = "none" /\ Sees(c).accounts[a] = "none"
      BY <1>1, <1>3 DEF AccountTaken
    <2>2. View(c).accounts[a] = "none"
      <3>1. CASE c \in program.snapshots
        <4>1. Shares(snapshot[c], db, Sees(c), View(c))
          BY <1>0, <3>1, Views, ReplayShares DEF Sees, View
        <4>2. snapshot[c].accounts[a] = "none" BY <2>1, <4>1 DEF Shares
        <4> QED BY <2>1, <4>1, <4>2 DEF Shares
      <3>2. CASE c \notin program.snapshots BY <2>1, <3>2 DEF Sees, View
      <3> QED BY <3>1, <3>2
    <2> QED BY <1>3, <2>1, <2>2, AccountWriteStep
  <1>4. PICK a \in call[c].want :
           \/ /\ IF AccountChanged(c, a) THEN SqlError(c) ELSE Fail(c, "account exists")
              /\ acctLock' = acctLock /\ holdLock' = holdLock /\ chainLock' = chainLock
           \/ /\ ~ AccountTaken(c, a) /\ Mine(acctLock[a], c)
              /\ acctLock' = [acctLock EXCEPT ![a] = c]
              /\ holdLock' = holdLock /\ chainLock' = chainLock
              /\ Succeed(c, [kind |-> "account", account |-> a, status |-> "open"])
    BY DEF CreateAccount, locks
  <1> QED BY <1>2, <1>3, <1>4

LEMMA ArchiveStep ==
    ASSUME IInv, NobodyCommits, NEW c \in Callers, program' = program, Archive(c)
    PROVE  IInv'
PROOF
  <1>0. Typed /\ CallerInv(c) /\ pc[c] = "archive" BY DEF IInv, Archive
  <1>1. call[c].want \subseteq Accounts
    <2> Requested(c) BY <1>0 DEF CallerInv, Asked, Serving
    <2> QED BY <1>0 DEF Requested
  <1>2. CASE /\ acctLock' = acctLock /\ holdLock' = holdLock /\ chainLock' = chainLock
             /\ SqlError(c) \/ \E err : Fail(c, err)
    BY <1>2, AccountErrorStep
  <1>3. ASSUME NEW a \in call[c].want, Sees(c).accounts[a] # "none", Mine(acctLock[a], c),
               ~ AccountChanged(c, a),
               acctLock' = [acctLock EXCEPT ![a] = c], holdLock' = holdLock,
               chainLock' = chainLock,
               Succeed(c, [kind |-> "account", account |-> a, status |-> "archived"])
        PROVE  IInv'
    <2>1. a \in Accounts BY <1>1
    <2>2. Sees(c).accounts[a] = View(c).accounts[a] BY <1>0, <1>3, <2>1, AccountConfirmed
    <2> QED BY <1>3, <2>1, <2>2, AccountWriteStep
  <1>4. PICK a \in call[c].want :
           IF Sees(c).accounts[a] = "none" THEN Fail(c, "unknown account") /\ UNCHANGED locks
           ELSE /\ Mine(acctLock[a], c)
                /\ IF AccountChanged(c, a) THEN SqlError(c) /\ UNCHANGED locks
                   ELSE /\ acctLock' = [acctLock EXCEPT ![a] = c]
                        /\ UNCHANGED <<holdLock, chainLock>>
                        /\ Succeed(c, [kind |-> "account", account |-> a,
                                       status |-> "archived"])
    BY DEF Archive
  <1>5. UNCHANGED locks => acctLock' = acctLock /\ holdLock' = holdLock
                           /\ chainLock' = chainLock
    BY DEF locks
  <1>6. CASE Sees(c).accounts[a] = "none" BY <1>2, <1>4, <1>5, <1>6
  <1>7. CASE Sees(c).accounts[a] # "none" /\ AccountChanged(c, a)
    BY <1>2, <1>4, <1>5, <1>7
  <1>8. CASE Sees(c).accounts[a] # "none" /\ ~ AccountChanged(c, a)
    BY <1>3, <1>4, <1>8
  <1> QED BY <1>6, <1>7, <1>8

\* One row of ExpireHolds.
LEMMA ExpireRowStep ==
    ASSUME IInv, NobodyCommits, NEW c \in Callers, program' = program,
           NEW h \in HoldRefs, ExpireRow(c, h)
    PROVE  IInv'
PROOF
  <1> DEFINE w == Closed({h}, "expired")
             want == call[c].want \ {h}
  <1>0. Typed /\ CallerInv(c) /\ pc[c] = "expire" /\ Mine(holdLock[h], c)
    BY DEF IInv, ExpireRow
  <1>1. /\ Requested(c) /\ IsAsk(call[c]) /\ call[c].op = "expire" /\ want \subseteq HoldRefs
    <2> Requested(c) BY <1>0 DEF CallerInv, Asked, Serving
    <2> QED BY <1>0 DEF Requested
  <1>2. CASE HoldChanged(c, h)
    <2>1. SqlError(c) /\ acctLock' = acctLock /\ holdLock' = holdLock
          /\ chainLock' = chainLock
      BY <1>2 DEF ExpireRow, locks
    <2> QED BY <2>1, AccountErrorStep
  <1>3. CASE ~ HoldChanged(c, h)
    <2>1. /\ call' = [call EXCEPT ![c].want = want]
          /\ db' = db /\ acctLock' = acctLock /\ chainLock' = chainLock /\ pc' = pc
          /\ calls' = calls /\ failed' = failed /\ snapshot' = snapshot
          /\ IF Sees(c).holds[h].status = "active" /\ Sees(c).holds[h].expires
             THEN /\ holdLock' = [holdLock EXCEPT ![h] = c]
                  /\ writes' = [writes EXCEPT ![c] = Append(@, w)]
             ELSE holdLock' = holdLock /\ writes' = writes
      BY <1>3 DEF ExpireRow
    <2>2. /\ call'[c].op = "expire" /\ call'[c].want = want /\ IsAsk(call'[c])
          /\ DOMAIN call' = Callers /\ \A q \in Callers \ {c} : call'[q] = call[q]
      <3> HIDE DEF want
      <3> QED BY <1>0, <1>1, <2>1, WantsOnly DEF Typed
    <2>3. Requested(c)' /\ Drawn(c)' /\ Accepted(c)' /\ Reservable(c)'
      <3>1. pc'[c] = "expire" BY <1>0, <2>1
      <3> HIDE DEF want
      <3>2. Requested(c)' BY <1>1, <2>2, <3>1 DEF Requested
      <3>3. Drawn(c)' /\ Accepted(c)' /\ Reservable(c)'
        BY <2>2, <3>1 DEF Drawn, Accepted, Reservable
      <3> QED BY <3>2, <3>3
    <2> HIDE DEF want
    <2>4. Takes(c) BY <1>0, <2>1 DEF Takes, Typed
    <2>5. CASE Sees(c).holds[h].status = "active" /\ Sees(c).holds[h].expires
      <3>1. /\ MyAccounts(c)' = MyAccounts(c) /\ MyHolds(c)' = MyHolds(c) \cup {h}
        BY <1>0, <2>1, <2>5 DEF MyAccounts, MyHolds, Typed
      <3>2. Sees(c).holds[h] = View(c).holds[h] BY <1>0, <1>3, HoldConfirmed
      <3>3. Confirmed(c)
        BY <1>0, <3>1, <3>2 DEF Confirmed, CallerInv, Agree, NobodyCommits
      <3>4. w \in Writes BY DEF Writes, StatusWrites, Closed
      <3>5. Adds(c, w)
        <4>1. Within(MyAccounts(c)', MyHolds(c)', MyChain(c)', w)
          BY <3>1 DEF Within, Closed
        <4>2. Lawful(View(c), w) /\ Strict(View(c), w)
          BY <2>5, <3>2 DEF Lawful, LawfulStatus, Strict, Closed
        <4> HIDE DEF w
        <4> QED BY <2>1, <2>5, <3>3, <3>4, <4>1, <4>2 DEF Adds, Confirmed
      <3>6. Keeps(c) BY <1>0, <2>1, <2>2 DEF Keeps, Typed
      <3> HIDE DEF w
      <3> QED BY <2>3, <2>4, <3>5, <3>6, WriteOnStep
    <2>6. CASE ~ (Sees(c).holds[h].status = "active" /\ Sees(c).holds[h].expires)
      <3>1. Moves(c, "expire") BY <1>0, <2>1, <2>2, <2>6 DEF Moves, Typed
      <3>2. Confirmed(c) BY <2>1, <2>6, NoNewLocks
      <3>3. "expire" \in Serving BY DEF Serving
      <3> QED BY <2>3, <2>4, <3>1, <3>2, <3>3, MoveStep
    <2> QED BY <2>5, <2>6
  <1> QED BY <1>2, <1>3

LEMMA ExpireReturnsStep ==
    ASSUME IInv, NobodyCommits, NEW c \in Callers, program' = program, ExpireReturns(c)
    PROVE  IInv'
PROOF
  <1>0. /\ Typed /\ pc' = [pc EXCEPT ![c] = "open"] /\ call' = [call EXCEPT ![c] = NoCall]
        /\ db' = db /\ calls' = calls /\ snapshot' = snapshot /\ failed' = failed
        /\ writes' = writes /\ acctLock' = acctLock /\ holdLock' = holdLock
        /\ chainLock' = chainLock
    BY DEF IInv, ExpireReturns, Return, locks
  <1>1. Takes(c) BY <1>0 DEF Takes, Typed
  <1>2. Confirmed(c) BY <1>0, NoNewLocks
  <1>3. Returns(c) BY <1>0 DEF Returns, Keeps, Typed, Labels
  <1> QED BY <1>0, <1>1, <1>2, <1>3, QuietReturn

-----------------------------------------------------------------------------
(* A commit.                                                               *)

LEMMA ApplyNextStep ==
    ASSUME IInv, NEW p \in Callers, ApplyNext(p), program' = program
    PROVE  IInv' /\ Lawful(db, Head(writes[p]))
PROOF
  <1> DEFINE ws == writes[p]
             w == Head(ws)
  <1>0. /\ Typed /\ CallerInv(p) /\ pc[p] = "committing" /\ ws # << >>
        /\ db' = Apply(db, w) /\ writes' = [writes EXCEPT ![p] = Tail(ws)]
        /\ acctLock' = acctLock /\ holdLock' = holdLock /\ chainLock' = chainLock
        /\ pc' = pc /\ call' = call /\ calls' = calls /\ failed' = failed
        /\ snapshot' = snapshot
    BY DEF IInv, ApplyNext, locks
  <1>1. ws \in Seq(Writes) /\ db \in Tables BY <1>0, Views DEF Typed
  <1>2. /\ Lawful(db, w) /\ w \in Writes
        /\ LawsOver(Apply(db, w), Tail(ws))
        /\ StrictOver(db, ws) => /\ Strict(db, w)
                                 /\ StrictOver(Apply(db, w), Tail(ws))
    BY <1>0, <1>1, LawsTail DEF CallerInv, Laws
  <1>3. Apply(db, w) \in Tables BY <1>1, <1>2, LawTables
  <1>4. /\ Tail(ws) \in Seq(Writes) /\ writes' \in [Callers -> Seq(Writes)]
        /\ writes'[p] = Tail(ws) /\ \A c \in Callers \ {p} : writes'[c] = writes[c]
    <2> Tail(ws) \in Seq(Writes) BY <1>0, <1>1, HeadTailProperties
    <2> QED BY <1>0 DEF Typed
  <1> HIDE DEF w, ws
  <1>5. Typed' BY <1>0, <1>3, <1>4 DEF Typed
  <1>6. /\ \A c \in Callers : /\ MyAccounts(c)' = MyAccounts(c) /\ MyHolds(c)' = MyHolds(c)
                              /\ MyChain(c)' = MyChain(c)
    BY <1>0 DEF MyAccounts, MyHolds, MyChain
  <1>7. Within(MyAccounts(p), MyHolds(p), MyChain(p), w)
    <2>1. \A i \in 1 .. Len(ws) : Within(MyAccounts(p), MyHolds(p), MyChain(p), ws[i])
      BY <1>0 DEF CallerInv, Owned, ws
    <2>2. 1 \in 1 .. Len(ws) /\ w = ws[1]
      BY <1>0, <1>1, EmptySeq, LenProperties, HeadTailProperties DEF w
    <2> QED BY <2>1, <2>2
  <1>8. ASSUME NEW c \in Callers, c # p PROVE CallerInv(c)'
    <2>1. Still(c) BY <1>0, <1>4, <1>6, <1>8 DEF Still
    <2>2. Apart(MyAccounts(c), MyHolds(c), MyChain(c), w)
      <3>1. /\ MyAccounts(c) \cap MyAccounts(p) = {} /\ MyHolds(c) \cap MyHolds(p) = {}
            /\ ~ (MyChain(c) /\ MyChain(p)) /\ 0 \notin MyHolds(c)
        BY <1>8, NoHoldZero DEF MyAccounts, MyHolds, MyChain
      <3> QED BY <1>7, <3>1 DEF Within, Apart
    <2> QED BY <1>0, <1>2, <2>1, <2>2, BystanderOfCommit DEF IInv
  <1>9. CallerInv(p)'
    <2>1. Owned(p)'
      <3> DEFINE vs == Tail(ws)
      <3> HIDE DEF vs
      <3> SUFFICES ASSUME NEW i \in 1 .. Len(vs)
                   PROVE  Within(MyAccounts(p), MyHolds(p), MyChain(p), vs[i])
        BY <1>4, <1>6 DEF Owned, vs
      <3>1. i + 1 \in 1 .. Len(ws) /\ vs[i] = ws[i + 1]
        BY <1>0, <1>1, EmptySeq, LenProperties, HeadTailProperties DEF vs
      <3> QED BY <1>0, <3>1 DEF CallerInv, Owned, ws
    <2>2. Laws(p)' /\ Strictly(p)'
      BY <1>0, <1>2, <1>4 DEF CallerInv, Laws, Strictly, Disciplined, ws
    <2>3. Agree(p)' /\ Idle(p)' /\ Asked(p)' BY <1>0 DEF Agree, Idle, Asked, Serving
    <2> QED BY <2>1, <2>2, <2>3 DEF CallerInv
  <1>10. Committing' BY <1>0 DEF IInv, Committing
  <1> QED BY <1>2, <1>5, <1>8, <1>9, <1>10 DEF IInv, w, ws

-----------------------------------------------------------------------------
LEMMA InvInit == Init => IInv
PROOF
  <1> SUFFICES ASSUME Init PROVE IInv OBVIOUS
  <1>1. EmptyTables \in Tables /\ EmptyTables \in LooseTables
    BY EmptyTablesTyped, TablesAreLoose
  <1>2. Typed
    <2>1. << >> \in Seq(Writes) BY EmptySeq
    <2>2. calls \in [Callers -> 0 .. MaxCalls] BY CallersAssumption DEF Init
    <2> QED BY <1>1, <2>1, <2>2 DEF Init, Typed, Labels
  <1>3. ASSUME NEW c \in Callers PROVE CallerInv(c)
    <2>0. c # Nobody BY CallersAssumption
    <2>1. /\ writes[c] = << >> /\ MyAccounts(c) = {} /\ MyHolds(c) = {}
          /\ ~ MyChain(c) /\ pc[c] = "none" /\ calls[c] = 0 /\ failed[c] = FALSE
          /\ db = EmptyTables /\ snapshot[c] = EmptyTables
      BY <2>0 DEF Init, MyAccounts, MyHolds, MyChain
    <2>2. Len(<< >>) = 0 OBVIOUS
    <2>3. Owned(c) /\ Laws(c) /\ Strictly(c)
      BY <2>1, <2>2 DEF Owned, Laws, Strictly, LawsOver, StrictOver
    <2>4. View(c) = EmptyTables /\ Sees(c) = EmptyTables
      BY <2>1, EmptyReplay DEF View, Sees
    <2>5. Agree(c) BY <2>1, <2>4 DEF Agree, Part
    <2>6. Idle(c) /\ Asked(c) BY <2>1 DEF Idle, Asked, Serving
    <2> QED BY <2>3, <2>5, <2>6 DEF CallerInv
  <1>4. Committing BY DEF Committing, Init
  <1> QED BY <1>2, <1>3, <1>4 DEF IInv

LEMMA UnchangedStep == IInv /\ UNCHANGED vars => IInv'
PROOF
  <1> SUFFICES ASSUME IInv, UNCHANGED vars PROVE IInv' OBVIOUS
  <1>0. /\ db' = db /\ acctLock' = acctLock /\ holdLock' = holdLock
        /\ chainLock' = chainLock /\ pc' = pc /\ call' = call /\ calls' = calls
        /\ failed' = failed /\ snapshot' = snapshot /\ writes' = writes
        /\ program' = program
    BY DEF vars, locks, locals
  <1>1. Typed' /\ Committing' BY <1>0 DEF IInv, Typed, Committing
  <1>2. ASSUME NEW c \in Callers PROVE CallerInv(c)'
    <2>1. Still(c) BY <1>0 DEF Still, MyAccounts, MyHolds, MyChain
    <2> QED BY <1>0, <2>1, Bystander DEF IInv
  <1> QED BY <1>1, <1>2 DEF IInv

LEMMA ProceedStep ==
    ASSUME IInv, NobodyCommits, NEW c \in Callers, Proceed(c), program' = program
    PROVE  IInv'
BY UnknownHoldStep, LockHoldStep, LockHeldStep, LockRowsStep, CheckRowsStep,
   InsertHoldStep, WriteTransferStep, CreateAccountStep, ArchiveStep, ExpireRowStep,
   ExpireReturnsStep
   DEF Proceed

LEMMA InvStep == IInv /\ [Next]_vars => IInv'
PROOF
  <1> SUFFICES ASSUME IInv, [Next]_vars PROVE IInv' OBVIOUS
  <1>1. ASSUME NEW c \in Callers, ApplyNext(c), program' = program PROVE IInv'
    BY <1>1, ApplyNextStep
  <1>2. ASSUME NEW c \in Callers, Committed(c), program' = program PROVE IInv'
    BY <1>2, CommittedStep
  <1>3. Whole => NobodyCommits /\ program' = program BY DEF Whole, NobodyCommits
  <1>4. ASSUME NEW c \in Callers, Whole, Begin(c) PROVE IInv'
    BY <1>3, <1>4, BeginStep
  <1>5. ASSUME NEW c \in Callers, Whole, Calls(c) PROVE IInv'
    BY <1>3, <1>5, CallsStep
  <1>7. ASSUME NEW c \in Callers, Whole, Proceed(c) PROVE IInv'
    BY <1>3, <1>7, ProceedStep
  <1>8. ASSUME NEW c \in Callers, Whole, Commit(c) PROVE IInv'
    BY <1>3, <1>8, CommitStep
  <1>9. ASSUME NEW c \in Callers, Whole, Rollback(c) PROVE IInv'
    BY <1>3, <1>9, RollbackStep
  <1> QED
    BY <1>1, <1>2, <1>4, <1>5, <1>7, <1>8, <1>9, UnchangedStep DEF Next

\* Each transaction has locked what it has written, every write is lawful in
\* the tables it goes on top of, and what a call has checked under its locks is
\* still true: inTx on the caller's transaction.
THEOREM EmbeddedInvariant == Spec => []IInv
PROOF
  <1>1. Init => IInv BY InvInit
  <1>2. IInv /\ [Next]_vars => IInv' BY InvStep
  <1> QED BY <1>1, <1>2, PTL DEF Spec

\* Type correctness; and the locks are those of open transactions, so that none
\* outlives the caller's commit or rollback (lockAccounts, lockHold and the chain
\* lock, pg_advisory_xact_lock).
THEOREM EmbeddedTypeCorrect == Spec => []TypeOK
PROOF
  <1>1. IInv => TypeOK
    <2> SUFFICES ASSUME IInv PROVE TypeOK OBVIOUS
    <2>1. /\ db.accounts \in [Accounts -> Statuses] /\ db.transfers \in Seq(RowType)
          /\ db.balances \in [Accounts -> Int] /\ db.holds \in [HoldRefs -> HoldRow]
      BY DEF IInv, Typed, Tables
    <2>2. /\ DOMAIN db.transfers \subseteq Nat \ {0}
          /\ \A k \in DOMAIN db.transfers : db.transfers[k] \in RowType
      <3>1. /\ Len(db.transfers) \in Nat /\ DOMAIN db.transfers = 1 .. Len(db.transfers)
            /\ db.transfers \in [1 .. Len(db.transfers) -> RowType]
        BY <2>1, LenProperties
      <3> QED BY <3>1
    <2> DEFINE Owners == {c \in Callers : pc[c] # "none"} \cup {Nobody}
    <2>3. ASSUME NEW c \in Callers, pc[c] = "none"
          PROVE  MyAccounts(c) = {} /\ MyHolds(c) = {} /\ ~ MyChain(c)
      BY <2>3 DEF IInv, CallerInv, Idle
    <2>4. acctLock \in [Accounts -> Owners]
      <3>1. acctLock \in [Accounts -> Callers \cup {Nobody}] BY DEF IInv, Typed
      <3>2. ASSUME NEW a \in Accounts PROVE acctLock[a] \in Owners
        <4>1. acctLock[a] \in Callers => a \in MyAccounts(acctLock[a]) BY DEF MyAccounts
        <4> QED BY <2>3, <3>1, <4>1
      <3> QED BY <3>1, <3>2
    <2>5. holdLock \in [HoldRefs -> Owners]
      <3>1. holdLock \in [HoldRefs -> Callers \cup {Nobody}] BY DEF IInv, Typed
      <3>2. ASSUME NEW h \in HoldRefs PROVE holdLock[h] \in Owners
        <4>1. holdLock[h] \in Callers => h \in MyHolds(holdLock[h]) BY DEF MyHolds
        <4> QED BY <2>3, <3>1, <4>1
      <3> QED BY <3>1, <3>2
    <2>6. chainLock \in Owners
      <3>1. chainLock \in Callers \cup {Nobody} BY DEF IInv, Typed
      <3>2. chainLock \in Callers => MyChain(chainLock) BY DEF MyChain
      <3> QED BY <2>3, <3>1, <3>2
    <2> QED BY <2>1, <2>2, <2>4, <2>5, <2>6 DEF IInv, Typed, TypeOK, Statuses, Labels
  <1> QED BY <1>1, EmbeddedInvariant, PTL

-----------------------------------------------------------------------------
(* Deadlocks.  What a transaction in its first call has locked: nothing    *)
(* before it serves one, and then what the statements before have taken.   *)

FirstLocks(c) ==
    /\ ~ MyChain(c) /\ (pc[c] # "expire" => writes[c] = << >>)
    /\ pc[c] \in {"lockHold", "lockHeld", "createAccount", "archive", "expire"} =>
         MyAccounts(c) = {}
    /\ pc[c] \in {"lockHold", "insertHold", "createAccount", "archive"} => MyHolds(c) = {}
    /\ pc[c] \in {"lockHeld", "lockRows"} =>
         MyHolds(c) \subseteq IF call[c].op = "capture" THEN {call[c].hold} ELSE {}
    /\ pc[c] = "lockRows" /\ call[c].op # "capture" =>
         \A a \in MyAccounts(c), b \in call[c].want : a < b

FirstCall(c) ==
    /\ pc[c] \in Serving => calls[c] >= 1
    /\ calls[c] = 0 => /\ MyAccounts(c) = {} /\ MyHolds(c) = {} /\ ~ MyChain(c)
                       /\ writes[c] = << >>
    /\ pc[c] \in Serving /\ calls[c] = 1 => FirstLocks(c)

FirstCalls == \A c \in Callers : FirstCall(c)

LEMMA FirstStepOf ==
    ASSUME FirstCalls, NEW p \in Callers, Alone(p), FirstCall(p)'
    PROVE  FirstCalls'
PROOF
  <1> SUFFICES ASSUME NEW c \in Callers PROVE FirstCall(c)' BY DEF FirstCalls
  <1>1. CASE c = p BY <1>1
  <1>2. CASE c # p
    <2>1. Still(c) /\ FirstCall(c) BY <1>2, AloneStill DEF FirstCalls
    <2> QED BY <2>1 DEF FirstCall, FirstLocks, Still
  <1> QED BY <1>1, <1>2

\* A statement of a call changes nothing of the other transactions.
Elsewhere(c) ==
    /\ calls' = calls /\ program' = program
    /\ \A q \in Callers \ {c} : /\ pc'[q] = pc[q] /\ call'[q] = call[q]
                                /\ failed'[q] = failed[q] /\ snapshot'[q] = snapshot[q]
                                /\ writes'[q] = writes[q]

LEMMA FirstGoesOn ==
    ASSUME Typed, FirstCalls, NEW c \in Callers, pc[c] \in Serving, Takes(c), Elsewhere(c),
           calls[c] = 1 /\ pc'[c] \in Serving => FirstLocks(c)'
    PROVE  FirstCalls'
PROOF
  <1>1. Alone(c) BY TakesFacts DEF Alone, Elsewhere
  <1>2. calls[c] >= 1 /\ calls[c] \in Nat /\ calls'[c] = calls[c]
    BY CallersAssumption DEF FirstCalls, FirstCall, Typed, Elsewhere
  <1>3. FirstCall(c)' BY <1>2 DEF FirstCall
  <1> QED BY <1>1, <1>3, FirstStepOf

\* The ways a call ends.
Ends(c) ==
    \/ SqlError(c)
    \/ \E err : Fail(c, err)
    \/ \E w : Succeed(c, w)
    \/ /\ Return(c)
       /\ \E b : failed' = [failed EXCEPT ![c] = b]
       /\ \E ws : writes' = [writes EXCEPT ![c] = ws]

LEMMA CallEnds ==
    ASSUME Typed, NEW c \in Callers, program' = program, Ends(c)
    PROVE  Elsewhere(c) /\ pc'[c] \in {"open", "broken"}
PROOF
  <1>1. CASE SqlError(c)
    <2>1. /\ pc' = [pc EXCEPT ![c] = "broken"] /\ call' = [call EXCEPT ![c] = NoCall]
          /\ failed' = [failed EXCEPT ![c] = TRUE]
          /\ calls' = calls /\ snapshot' = snapshot /\ writes' = writes
      BY <1>1 DEF SqlError
    <2> QED BY <2>1 DEF Typed, Elsewhere
  <1>2. ASSUME Return(c), NEW b, failed' = [failed EXCEPT ![c] = b],
               NEW ws, writes' = [writes EXCEPT ![c] = ws]
        PROVE  Elsewhere(c) /\ pc'[c] \in {"open", "broken"}
    <2>1. /\ pc' = [pc EXCEPT ![c] = "open"] /\ call' = [call EXCEPT ![c] = NoCall]
          /\ calls' = calls /\ snapshot' = snapshot
      BY <1>2 DEF Return
    <2> QED BY <1>2, <2>1 DEF Typed, Elsewhere
  <1>3. ASSUME NEW err, Fail(c, err)
        PROVE  Elsewhere(c) /\ pc'[c] \in {"open", "broken"}
    <2>1. Return(c) /\ failed' = [failed EXCEPT ![c] = TRUE]
          /\ writes' = [writes EXCEPT ![c] = writes[c]]
      BY <1>3 DEF Fail, Typed
    <2> QED BY <2>1, <1>2
  <1>4. ASSUME NEW w, Succeed(c, w)
        PROVE  Elsewhere(c) /\ pc'[c] \in {"open", "broken"}
    <2>1. Return(c) /\ failed' = [failed EXCEPT ![c] = failed[c]]
          /\ writes' = [writes EXCEPT ![c] = Append(writes[c], w)]
      BY <1>4 DEF Succeed, Typed
    <2> QED BY <2>1, <1>2
  <1> QED BY <1>1, <1>2, <1>3, <1>4 DEF Ends

LEMMA FirstReturns ==
    ASSUME Typed, FirstCalls, NEW c \in Callers, pc[c] \in Serving, Takes(c),
           program' = program, Ends(c)
    PROVE  FirstCalls'
BY CallEnds, FirstGoesOn DEF Serving

LEMMA MovesElsewhere ==
    ASSUME Typed, NEW c \in Callers, NEW label, Moves(c, label), program' = program
    PROVE  Elsewhere(c) /\ pc'[c] = label /\ writes' = writes
BY DEF Moves, Elsewhere, Typed

LEMMA FirstLockHold ==
    ASSUME IInv, FirstCalls, NobodyCommits, NEW c \in Callers, LockHold(c),
           program' = program
    PROVE  FirstCalls'
PROOF
  <1> DEFINE h == call[c].hold
  <1>0. /\ Typed /\ CallerInv(c) /\ FirstCall(c) /\ pc[c] = "lockHold"
        /\ Mine(holdLock[h], c) /\ pc[c] \in Serving
    BY DEF IInv, FirstCalls, LockHold, Serving
  <1>1. h \in HoldRefs
    <2>1. Requested(c) BY <1>0 DEF CallerInv, Asked
    <2>2. call[c].op \in {"capture", "release"} BY <1>0, <2>1 DEF Requested
    <2> QED BY <2>1, <2>2, RequestsAssumption DEF Requested
  <1>2. /\ acctLock' = acctLock /\ chainLock' = chainLock
        /\ \/ SqlError(c) /\ holdLock' = holdLock
           \/ /\ holdLock' = [holdLock EXCEPT ![h] = c]
              /\ \/ \E err : Fail(c, err)
                 \/ \E w : Succeed(c, w)
                 \/ call[c].op = "capture" /\ Goto(c, "lockHeld")
                 \/ /\ Return(c)
                    /\ \E b : failed' = [failed EXCEPT ![c] = b]
                    /\ \E ws : writes' = [writes EXCEPT ![c] = ws]
    BY DEF LockHold, locks
  <1>3. Takes(c)
    <2>1. /\ acctLock' = acctLock /\ chainLock' = chainLock
          /\ holdLock' = holdLock \/ holdLock' = [holdLock EXCEPT ![h] = c]
      BY <1>2
    <2>2. /\ acctLock \in [Accounts -> Callers \cup {Nobody}]
          /\ holdLock \in [HoldRefs -> Callers \cup {Nobody}]
          /\ chainLock \in Callers \cup {Nobody} /\ Mine(holdLock[h], c)
      BY <1>0 DEF Typed
    <2> HIDE DEF h
    <2>3. CASE holdLock' = holdLock BY <2>1, <2>2, <2>3 DEF Takes
    <2>4. CASE holdLock' = [holdLock EXCEPT ![h] = c]
      BY <1>1, <2>1, <2>2, <2>4 DEF Takes
    <2> QED BY <2>1, <2>3, <2>4
  <1>4. CASE Ends(c) BY <1>0, <1>3, <1>4, FirstReturns
  <1>5. CASE /\ call[c].op = "capture" /\ Goto(c, "lockHeld")
             /\ holdLock' = [holdLock EXCEPT ![h] = c]
    <2>1. Elsewhere(c) /\ pc'[c] = "lockHeld" /\ writes' = writes /\ call' = call
      BY <1>0, <1>5, GotoMoves, MovesElsewhere
    <2>2. /\ MyAccounts(c)' = MyAccounts(c) /\ MyHolds(c)' = MyHolds(c) \cup {h}
          /\ MyChain(c)' = MyChain(c)
      BY <1>0, <1>1, <1>2, <1>5 DEF MyAccounts, MyHolds, MyChain, Typed
    <2>3. calls[c] = 1 => FirstLocks(c)'
      BY <1>0, <1>5, <2>1, <2>2 DEF FirstCall, FirstLocks
    <2> QED BY <1>0, <1>3, <2>1, <2>3, FirstGoesOn
  <1> QED BY <1>2, <1>4, <1>5 DEF Ends

LEMMA FirstLockHeld ==
    ASSUME IInv, FirstCalls, NobodyCommits, NEW c \in Callers, LockHeld(c),
           program' = program
    PROVE  FirstCalls'
PROOF
  <1> DEFINE a == Sees(c).holds[call[c].hold].account
             want == Existing(c, Touched(call[c].arg)) \ {a}
  <1>0. /\ Typed /\ CallerInv(c) /\ FirstCall(c) /\ pc[c] = "lockHeld"
        /\ Mine(acctLock[a], c) /\ pc[c] \in Serving
    BY DEF IInv, FirstCalls, LockHeld, Serving
  <1>1. call[c].op = "capture" /\ IsAsk(call[c])
    <2> Requested(c) BY <1>0 DEF CallerInv, Asked
    <2> QED BY <1>0 DEF Requested
  <1>2. a \in Accounts BY <1>0, <1>1, HeldHold
  <1>3. /\ holdLock' = holdLock /\ chainLock' = chainLock
        /\ \/ SqlError(c) /\ acctLock' = acctLock
           \/ /\ acctLock' = [acctLock EXCEPT ![a] = c]
              /\ \/ Fail(c, "capture mismatch")
                 \/ /\ pc' = [pc EXCEPT ![c] = "lockRows"]
                    /\ call' = [call EXCEPT ![c].want = want]
                    /\ UNCHANGED <<db, calls, failed, snapshot, writes>>
    BY DEF LockHeld, locks
  <1> HIDE DEF a, want
  <1>4. Takes(c)
    <2>1. acctLock' = acctLock \/ acctLock' = [acctLock EXCEPT ![a] = c] BY <1>3
    <2> QED BY <1>0, <1>2, <1>3, <2>1 DEF Takes, Typed
  <1>5. CASE Ends(c) BY <1>0, <1>4, <1>5, FirstReturns
  <1>6. CASE /\ pc' = [pc EXCEPT ![c] = "lockRows"]
             /\ call' = [call EXCEPT ![c].want = want]
             /\ UNCHANGED <<db, calls, failed, snapshot, writes>>
    <2>1. /\ call'[c].op = call[c].op /\ call'[c].hold = call[c].hold
          /\ DOMAIN call' = Callers /\ \A q \in Callers \ {c} : call'[q] = call[q]
      BY <1>0, <1>1, <1>6, WantsOnly DEF Typed
    <2>2. Moves(c, "lockRows") BY <1>6, <2>1 DEF Moves
    <2>3. Elsewhere(c) /\ pc'[c] = "lockRows" /\ writes' = writes
      BY <1>0, <2>2, MovesElsewhere
    <2>4. MyHolds(c)' = MyHolds(c) /\ MyChain(c)' = MyChain(c)
      BY <1>3 DEF MyHolds, MyChain
    <2>5. calls[c] = 1 => FirstLocks(c)'
      BY <1>0, <1>1, <2>1, <2>3, <2>4 DEF FirstCall, FirstLocks
    <2> QED BY <1>0, <1>4, <2>3, <2>5, FirstGoesOn
  <1> QED BY <1>3, <1>5, <1>6 DEF Ends

\* The rows still wanted come after the one that is locked now.
LEMMA FirstLockRows ==
    ASSUME IInv, FirstCalls, NobodyCommits, NEW c \in Callers, LockRows(c),
           program' = program
    PROVE  FirstCalls'
PROOF
  <1> DEFINE a == MinOf(call[c].want)
             want == call[c].want \ {a}
  <1>0. /\ Typed /\ CallerInv(c) /\ FirstCall(c) /\ pc[c] = "lockRows"
        /\ Mine(acctLock[a], c) /\ pc[c] \in Serving /\ call[c].want # {}
    BY DEF IInv, FirstCalls, LockRows, Serving
  <1>1. IsAsk(call[c]) /\ call[c].want \subseteq Accounts
    <2> Requested(c) BY <1>0 DEF CallerInv, Asked
    <2> QED BY <1>0 DEF Requested
  <1>2. a \in call[c].want /\ \A b \in call[c].want : a =< b
    BY <1>0, <1>1, SmallestRow
  <1>3. /\ holdLock' = holdLock /\ chainLock' = chainLock
        /\ \/ SqlError(c) /\ acctLock' = acctLock
           \/ /\ acctLock' = [acctLock EXCEPT ![a] = c]
              /\ call' = [call EXCEPT ![c].want = want]
              /\ UNCHANGED <<db, pc, calls, failed, snapshot, writes>>
    BY DEF LockRows, locks
  <1>w. \A b \in want : b \in call[c].want /\ b # a OBVIOUS
  <1> HIDE DEF a, want
  <1>4. Takes(c)
    <2>1. acctLock' = acctLock \/ acctLock' = [acctLock EXCEPT ![a] = c] BY <1>3
    <2> QED BY <1>0, <1>1, <1>2, <1>3, <2>1 DEF Takes, Typed
  <1>5. CASE Ends(c) BY <1>0, <1>4, <1>5, FirstReturns
  <1>6. CASE /\ acctLock' = [acctLock EXCEPT ![a] = c]
             /\ call' = [call EXCEPT ![c].want = want]
             /\ UNCHANGED <<db, pc, calls, failed, snapshot, writes>>
    <2>1. /\ call'[c].op = call[c].op /\ call'[c].hold = call[c].hold
          /\ call'[c].want = want
          /\ DOMAIN call' = Callers /\ \A q \in Callers \ {c} : call'[q] = call[q]
      BY <1>0, <1>1, <1>6, WantsOnly DEF Typed
    <2>2. Moves(c, "lockRows") BY <1>0, <1>6, <2>1 DEF Moves, Typed
    <2>3. Elsewhere(c) /\ pc'[c] = "lockRows" /\ writes' = writes
      BY <1>0, <2>2, MovesElsewhere
    <2>4. /\ MyHolds(c)' = MyHolds(c) /\ MyChain(c)' = MyChain(c)
          /\ MyAccounts(c)' = MyAccounts(c) \cup {a}
      BY <1>0, <1>1, <1>2, <1>3, <1>6 DEF MyAccounts, MyHolds, MyChain, Typed
    <2>5. ASSUME calls[c] = 1, call[c].op # "capture",
                 NEW x \in MyAccounts(c) \cup {a}, NEW b \in want
          PROVE  x < b
      <3>1. CASE x = a
        <4> a \in 1 .. NumAccounts /\ b \in 1 .. NumAccounts /\ a =< b /\ b # a
          BY <1>1, <1>2, <1>w DEF Accounts
        <4> QED BY <3>1, BoundsAssumption
      <3>2. CASE x \in MyAccounts(c)
        BY <1>0, <1>w, <2>5, <3>2 DEF FirstCall, FirstLocks
      <3> QED BY <3>1, <3>2
    <2>6. calls[c] = 1 => FirstLocks(c)'
      BY <1>0, <2>1, <2>3, <2>4, <2>5 DEF FirstCall, FirstLocks
    <2> QED BY <1>0, <1>4, <2>3, <2>6, FirstGoesOn
  <1> QED BY <1>3, <1>5, <1>6 DEF Ends

LEMMA FirstCheckRows ==
    ASSUME IInv, FirstCalls, NobodyCommits, NEW c \in Callers, CheckRows(c),
           program' = program
    PROVE  FirstCalls'
PROOF
  <1>0. /\ Typed /\ FirstCall(c) /\ pc[c] = "lockRows" /\ pc[c] \in Serving
        /\ acctLock' = acctLock /\ holdLock' = holdLock /\ chainLock' = chainLock
        /\ \/ \E err : Fail(c, err)
           \/ call[c].op = "hold" /\ Goto(c, "insertHold")
           \/ Goto(c, "write")
    BY DEF IInv, FirstCalls, CheckRows, Serving, locks
  <1>1. Takes(c) BY <1>0 DEF Takes, Typed
  <1>2. CASE Ends(c) BY <1>0, <1>1, <1>2, FirstReturns
  <1>3. ASSUME NEW label \in {"insertHold", "write"}, Goto(c, label),
               label = "insertHold" => call[c].op = "hold"
        PROVE  FirstCalls'
    <2>1. Elsewhere(c) /\ pc'[c] = label /\ writes' = writes /\ call' = call
      BY <1>0, <1>3, GotoMoves, MovesElsewhere
    <2>2. MyHolds(c)' = MyHolds(c) /\ MyChain(c)' = MyChain(c)
      BY <1>0 DEF MyHolds, MyChain
    <2>3. calls[c] = 1 => FirstLocks(c)'
      BY <1>0, <1>3, <2>1, <2>2 DEF FirstCall, FirstLocks
    <2> QED BY <1>0, <1>1, <2>1, <2>3, FirstGoesOn
  <1> QED BY <1>0, <1>2, <1>3 DEF Ends

LEMMA FirstExpireRow ==
    ASSUME IInv, FirstCalls, NobodyCommits, NEW c \in Callers, NEW h \in HoldRefs,
           ExpireRow(c, h), program' = program
    PROVE  FirstCalls'
PROOF
  <1> DEFINE w == Closed({h}, "expired")
             want == call[c].want \ {h}
  <1>0. /\ Typed /\ FirstCall(c) /\ pc[c] = "expire" /\ pc[c] \in Serving
        /\ Mine(holdLock[h], c) /\ acctLock' = acctLock /\ chainLock' = chainLock
        /\ \/ SqlError(c) /\ holdLock' = holdLock
           \/ /\ call' = [call EXCEPT ![c].want = want]
              /\ pc' = pc /\ calls' = calls /\ failed' = failed /\ snapshot' = snapshot
              /\ \/ /\ holdLock' = [holdLock EXCEPT ![h] = c]
                    /\ writes' = [writes EXCEPT ![c] = Append(@, w)]
                 \/ holdLock' = holdLock /\ writes' = writes
    BY DEF IInv, FirstCalls, ExpireRow, Serving, locks
  <1> HIDE DEF w, want
  <1>1. Takes(c)
    <2>1. holdLock' = holdLock \/ holdLock' = [holdLock EXCEPT ![h] = c] BY <1>0
    <2> QED BY <1>0, <2>1 DEF Takes, Typed
  <1>2. CASE SqlError(c) BY <1>0, <1>1, <1>2, FirstReturns DEF Ends
  <1>3. CASE ~ SqlError(c)
    <2>1. Elsewhere(c) BY <1>0, <1>3 DEF Elsewhere, Typed
    <2>2. pc'[c] = "expire" BY <1>0, <1>3
    <2>3. MyAccounts(c)' = MyAccounts(c) /\ MyChain(c)' = MyChain(c)
      BY <1>0 DEF MyAccounts, MyChain
    <2>4. calls[c] = 1 => FirstLocks(c)' BY <1>0, <2>2, <2>3 DEF FirstCall, FirstLocks
    <2> QED BY <1>0, <1>1, <2>1, <2>4, FirstGoesOn
  <1> QED BY <1>2, <1>3

LEMMA FirstProceeds ==
    ASSUME IInv, FirstCalls, NobodyCommits, NEW c \in Callers, Proceed(c),
           program' = program
    PROVE  FirstCalls'
PROOF
  <1>0. Typed /\ CallerInv(c) BY DEF IInv
  <1>s. pc[c] \in Serving
    BY DEF Proceed, UnknownHold, LockHold, LockHeld, LockRows, CheckRows, InsertHold,
           Write, CreateAccount, Archive, ExpireReturns, ExpireRow, Serving
  <1>r. Requested(c) BY <1>0, <1>s DEF CallerInv, Asked
  <1>u. UNCHANGED locks => Takes(c) BY <1>0 DEF Takes, Typed, locks
  <1>1. CASE UnknownHold(c)
    <2>1. Ends(c) /\ UNCHANGED locks BY <1>1 DEF UnknownHold, Ends
    <2> QED BY <1>0, <1>s, <1>u, <2>1, FirstReturns
  <1>2. CASE InsertHold(c)
    <2> DEFINE h == call[c].hold
    <2>1. pc[c] = "insertHold" BY <1>2 DEF InsertHold
    <2>2. \/ SqlError(c) /\ UNCHANGED locks
          \/ /\ Mine(holdLock[h], c) /\ holdLock' = [holdLock EXCEPT ![h] = c]
             /\ acctLock' = acctLock /\ chainLock' = chainLock
             /\ \E w : Succeed(c, w)
      BY <1>2 DEF InsertHold
    <2>3. h \in HoldRefs BY <1>r, <2>1, RequestsAssumption DEF Requested, HoldRequest
    <2>4. Takes(c) BY <1>0, <1>u, <2>2, <2>3 DEF Takes, Typed
    <2> QED BY <1>0, <1>s, <2>2, <2>4, FirstReturns DEF Ends
  <1>3. CASE Write(c)
    <2>1. /\ pc[c] = "write" /\ Mine(chainLock, c) /\ chainLock' = c
          /\ acctLock' = acctLock /\ holdLock' = holdLock
          /\ Ends(c)
      BY <1>3 DEF Write, Ends
    <2>2. Takes(c) BY <1>0, <2>1 DEF Takes, Typed
    <2> QED BY <1>0, <1>s, <2>1, <2>2, FirstReturns
  <1>4. CASE CreateAccount(c)
    <2>0. pc[c] = "createAccount" BY <1>4 DEF CreateAccount
    <2>1. PICK a \in call[c].want :
             /\ Ends(c)
             /\ \/ UNCHANGED locks
                \/ /\ Mine(acctLock[a], c) /\ acctLock' = [acctLock EXCEPT ![a] = c]
                   /\ holdLock' = holdLock /\ chainLock' = chainLock
      BY <1>4 DEF CreateAccount, Ends
    <2>2. a \in Accounts BY <1>r, <2>0, <2>1 DEF Requested
    <2>3. Takes(c) BY <1>0, <1>u, <2>1, <2>2 DEF Takes, Typed
    <2> QED BY <1>0, <1>s, <2>1, <2>3, FirstReturns
  <1>5. CASE Archive(c)
    <2>0. pc[c] = "archive" BY <1>5 DEF Archive
    <2>1. PICK a \in call[c].want :
             /\ Ends(c)
             /\ \/ UNCHANGED locks
                \/ /\ Mine(acctLock[a], c) /\ acctLock' = [acctLock EXCEPT ![a] = c]
                   /\ holdLock' = holdLock /\ chainLock' = chainLock
      BY <1>5 DEF Archive, Ends
    <2>2. a \in Accounts BY <1>r, <2>0, <2>1 DEF Requested
    <2>3. Takes(c) BY <1>0, <1>u, <2>1, <2>2 DEF Takes, Typed
    <2> QED BY <1>0, <1>s, <2>1, <2>3, FirstReturns
  <1>6. CASE ExpireReturns(c)
    <2>1. /\ Return(c) /\ UNCHANGED locks
          /\ failed' = [failed EXCEPT ![c] = failed[c]]
          /\ writes' = [writes EXCEPT ![c] = writes[c]]
      BY <1>0, <1>6 DEF ExpireReturns, Typed
    <2> QED BY <1>0, <1>s, <1>u, <2>1, FirstReturns DEF Ends
  <1> QED
    BY <1>1, <1>2, <1>3, <1>4, <1>5, <1>6, FirstLockHold, FirstLockHeld, FirstLockRows,
       FirstCheckRows, FirstExpireRow
    DEF Proceed

LEMMA FirstEnds ==
    ASSUME IInv, FirstCalls, NEW c \in Callers, End(c), program' = program
    PROVE  FirstCalls'
PROOF
  <1>1. Typed' /\ Alone(c) /\ CallerInv(c)' /\ pc'[c] = "none" BY EndFacts DEF IInv
  <1>2. FirstCall(c)' BY <1>1 DEF CallerInv, Idle, FirstCall, Serving
  <1> QED BY <1>1, <1>2, FirstStepOf

LEMMA FirstEnters ==
    ASSUME IInv, FirstCalls, NEW c \in Callers, MayCall(c), program' = program,
           NEW request, NEW label, Enter(c, request, label)
    PROVE  FirstCalls'
PROOF
  <1>0. /\ Typed /\ FirstCall(c) /\ pc[c] = "open"
        /\ pc' = [pc EXCEPT ![c] = label]
        /\ call' = [call EXCEPT ![c] = request]
        /\ calls' = [calls EXCEPT ![c] = @ + 1]
        /\ failed' = failed /\ snapshot' = snapshot /\ writes' = writes
        /\ acctLock' = acctLock /\ holdLock' = holdLock /\ chainLock' = chainLock
    BY DEF IInv, FirstCalls, Enter, MayCall, locks
  <1>1. Alone(c) BY <1>0 DEF Alone, OnlyMoves, Typed
  <1>2. calls[c] \in Nat /\ calls'[c] = calls[c] + 1 /\ pc'[c] = label
    BY <1>0, CallersAssumption DEF Typed
  <1>3. /\ MyAccounts(c)' = MyAccounts(c) /\ MyHolds(c)' = MyHolds(c)
        /\ MyChain(c)' = MyChain(c)
    BY <1>0 DEF MyAccounts, MyHolds, MyChain
  <1>4. calls[c] = 0 => FirstLocks(c)' BY <1>0, <1>3 DEF FirstCall, FirstLocks
  <1>5. FirstCall(c)' BY <1>2, <1>4 DEF FirstCall
  <1> QED BY <1>1, <1>5, FirstStepOf

LEMMA FirstStep == IInv /\ FirstCalls /\ [Next]_vars => FirstCalls'
PROOF
  <1> SUFFICES ASSUME IInv, FirstCalls, [Next]_vars PROVE FirstCalls' OBVIOUS
  <1>0. Typed BY DEF IInv
  <1>1. ASSUME NEW c \in Callers, ApplyNext(c), program' = program PROVE FirstCalls'
    <2>1. /\ pc[c] = "committing" /\ writes[c] # << >>
          /\ writes' = [writes EXCEPT ![c] = Tail(@)]
          /\ acctLock' = acctLock /\ holdLock' = holdLock /\ chainLock' = chainLock
          /\ pc' = pc /\ call' = call /\ calls' = calls /\ failed' = failed
          /\ snapshot' = snapshot
      BY <1>1 DEF ApplyNext, locks
    <2>2. Alone(c) BY <1>0, <1>1, <2>1 DEF Alone, OnlyMoves, Typed
    <2>3. FirstCall(c)'
      <3>1. pc'[c] \notin Serving /\ calls'[c] # 0
        BY <2>1 DEF Serving, FirstCalls, FirstCall
      <3> QED BY <3>1 DEF FirstCall
    <2> QED BY <2>2, <2>3, FirstStepOf
  <1>2. ASSUME NEW c \in Callers, Committed(c), program' = program PROVE FirstCalls'
    BY <1>2, FirstEnds DEF Committed
  <1>3. Whole => NobodyCommits /\ program' = program BY DEF Whole, NobodyCommits
  <1>4. ASSUME NEW c \in Callers, Whole, Begin(c) PROVE FirstCalls'
    <2>1. /\ pc[c] = "none" /\ pc' = [pc EXCEPT ![c] = "open"]
          /\ snapshot' = snapshot \/ snapshot' = [snapshot EXCEPT ![c] = db]
          /\ writes' = writes
          /\ acctLock' = acctLock /\ holdLock' = holdLock /\ chainLock' = chainLock
          /\ call' = call /\ calls' = calls /\ failed' = failed
      BY <1>4 DEF Begin, locks
    <2>2. Alone(c) BY <1>0, <1>3, <1>4, <2>1 DEF Alone, OnlyMoves, Typed
    <2>3. /\ MyAccounts(c)' = MyAccounts(c) /\ MyHolds(c)' = MyHolds(c)
          /\ MyChain(c)' = MyChain(c)
      BY <2>1 DEF MyAccounts, MyHolds, MyChain
    <2>4. pc'[c] = "open" BY <1>0, <2>1 DEF Typed
    <2>5. FirstCall(c)' BY <2>1, <2>3, <2>4 DEF FirstCall, FirstCalls, Serving
    <2> QED BY <2>2, <2>5, FirstStepOf
  <1>5. ASSUME NEW c \in Callers, Whole, Calls(c) PROVE FirstCalls'
    <2>1. MayCall(c) /\ \E request, label : Enter(c, request, label)
      BY <1>5 DEF Calls, CallPost, CallReverse, CallHold, CallCapture, CallRelease,
                  CallCreateAccount, CallArchive, CallExpireHolds
    <2> QED BY <1>3, <1>5, <2>1, FirstEnters
  <1>7. ASSUME NEW c \in Callers, Whole, Proceed(c) PROVE FirstCalls'
    BY <1>3, <1>7, FirstProceeds
  <1>8. ASSUME NEW c \in Callers, Whole, Commit(c) PROVE FirstCalls'
    <2>1. /\ pc' = [pc EXCEPT ![c] = "committing"] /\ writes' = writes
          /\ snapshot' = snapshot
          /\ acctLock' = acctLock /\ holdLock' = holdLock /\ chainLock' = chainLock
          /\ call' = call /\ calls' = calls /\ failed' = failed
      BY <1>8 DEF Commit, Goto, locks
    <2>2. Alone(c) BY <1>0, <1>3, <1>8, <2>1 DEF Alone, OnlyMoves, Typed
    <2>3. /\ MyAccounts(c)' = MyAccounts(c) /\ MyHolds(c)' = MyHolds(c)
          /\ MyChain(c)' = MyChain(c)
      BY <2>1 DEF MyAccounts, MyHolds, MyChain
    <2>4. pc'[c] = "committing" BY <1>0, <2>1 DEF Typed
    <2>5. FirstCall(c)' BY <2>1, <2>3, <2>4 DEF FirstCall, FirstCalls, Serving
    <2> QED BY <2>2, <2>5, FirstStepOf
  <1>9. ASSUME NEW c \in Callers, Whole, Rollback(c) PROVE FirstCalls'
    BY <1>3, <1>9, FirstEnds DEF Rollback
  <1>10. CASE UNCHANGED vars
    BY <1>10 DEF vars, locks, locals, FirstCalls, FirstCall, FirstLocks, MyAccounts, MyHolds,
                 MyChain
  <1> QED BY <1>1, <1>2, <1>4, <1>5, <1>7, <1>8, <1>9, <1>10 DEF Next

LEMMA FirstInit == Init => FirstCalls
PROOF
  <1> SUFFICES ASSUME Init, NEW c \in Callers PROVE FirstCall(c) BY DEF FirstCalls
  <1>1. c # Nobody BY CallersAssumption
  <1> QED BY <1>1 DEF Init, FirstCall, MyAccounts, MyHolds, MyChain, Serving

\* Somebody a transaction waits for has one of the locks its statement needs next.
LEMMA WhoIsAwaited ==
    ASSUME NEW c \in Callers, NEW p \in Awaits(c)
    PROVE  LET h == call[c].hold
               want == call[c].want
           IN  /\ p # c /\ p # Nobody /\ pc[c] \in Serving
               /\ pc[c] = "write" => chainLock = p
               /\ pc[c] = "insertHold" => /\ Taken(c, h) => HoldPending(c, h)
                                          /\ holdLock[h] = p
               /\ pc[c] = "lockHeld" => acctLock[Sees(c).holds[h].account] = p
               /\ pc[c] = "lockRows" => want # {} /\ acctLock[MinOf(want)] = p
               /\ pc[c] \in {"createAccount", "archive"} => \E a \in want : acctLock[a] = p
               /\ pc[c] = "lockHold" => holdLock[h] = p
               /\ pc[c] = "expire" => \E g \in want : holdLock[g] = p
PROOF
  <1>0. p # c /\ p # Nobody BY DEF Awaits
  <1>1. CASE pc[c] = "lockHold" BY <1>0, <1>1 DEF Awaits, Serving
  <1>2. CASE pc[c] = "lockHeld" BY <1>0, <1>2 DEF Awaits, Serving
  <1>3. CASE pc[c] = "lockRows" BY <1>0, <1>3 DEF Awaits, Serving
  <1>4. CASE pc[c] = "insertHold" BY <1>0, <1>4 DEF Awaits, Serving
  <1>5. CASE pc[c] = "write" BY <1>0, <1>5 DEF Awaits, Serving
  <1>6. CASE pc[c] = "createAccount" BY <1>0, <1>6 DEF Awaits, Serving
  <1>7. CASE pc[c] = "archive" BY <1>0, <1>7 DEF Awaits, Serving
  <1>8. CASE pc[c] = "expire" BY <1>0, <1>8 DEF Awaits, Serving
  <1>9. CASE pc[c] \notin Serving BY <1>9 DEF Awaits, Serving
  <1> QED BY <1>1, <1>2, <1>3, <1>4, <1>5, <1>6, <1>7, <1>8, <1>9 DEF Serving

LEMMA OrderlyCallsDoNotDeadlock == IInv /\ FirstCalls => DeadlockNeedsDisorder
PROOF
  <1> SUFFICES ASSUME IInv, FirstCalls, NEW S \in SUBSET Callers, Stuck(S),
                      ~ \E c \in S : Disorderly(c)
               PROVE  FALSE
    BY DEF DeadlockNeedsDisorder
  <1>0. Typed BY DEF IInv
  <1>1. ASSUME NEW c \in S
        PROVE  /\ \E p \in S : p \in Awaits(c)
               /\ pc[c] \in Serving /\ FirstLocks(c) /\ Requested(c) /\ Drawn(c)
               /\ ~ Disorderly(c)
    <2>1. PICK p \in S : p \in Awaits(c) BY DEF Stuck
    <2>2. pc[c] \in Serving BY <2>1, WhoIsAwaited
    <2>3. calls[c] \in Nat /\ ~ calls[c] > 1
      BY <1>0, CallersAssumption DEF Typed, Disorderly
    <2>4. FirstCall(c) /\ CallerInv(c) BY DEF FirstCalls, IInv
    <2>5. calls[c] = 1 BY <2>2, <2>3, <2>4 DEF FirstCall
    <2> QED BY <2>1, <2>2, <2>4, <2>5 DEF CallerInv, Asked, FirstCall
  <1>2. ASSUME NEW c \in S PROVE pc[c] # "write"
    <2>1. PICK p \in S : p \in Awaits(c) BY <1>1
    <2>2. ~ MyChain(p) BY <1>1 DEF FirstLocks
    <2> QED BY <2>1, <2>2, WhoIsAwaited DEF MyChain
  <1>3. ASSUME NEW p \in S, NEW h \in HoldRefs, holdLock[h] = p
        PROVE  /\ pc[p] \in {"lockHeld", "lockRows"} /\ call[p].op = "capture"
               /\ call[p].hold = h
    <2>1. h \in MyHolds(p) BY <1>3 DEF MyHolds
    <2>2. pc[p] # "expire" BY <1>1, <1>3 DEF Disorderly
    <2>3. pc[p] \notin {"lockHold", "insertHold", "createAccount", "archive"}
      BY <1>1, <2>1 DEF FirstLocks
    <2>4. pc[p] \in {"lockHeld", "lockRows"} BY <1>1, <1>2, <2>2, <2>3 DEF Serving
    <2> QED BY <1>1, <2>1, <2>4 DEF FirstLocks
  <1>4. ASSUME NEW c \in S PROVE pc[c] # "insertHold"
    <2> SUFFICES ASSUME pc[c] = "insertHold" PROVE FALSE OBVIOUS
    <2> DEFINE h == call[c].hold
    <2>1. PICK p \in S : p \in Awaits(c) BY <1>1
    <2>2. holdLock[h] = p /\ (Taken(c, h) => HoldPending(c, h)) BY <2>1, WhoIsAwaited
    <2>3. h \in HoldRefs
      BY <1>1, RequestsAssumption DEF Requested, HoldRequest
    <2>4. /\ pc[p] \in {"lockHeld", "lockRows"} /\ call[p].op = "capture"
          /\ call[p].hold = h
      BY <1>3, <2>2, <2>3
    <2>5. View(p).holds[h].status = "active" BY <1>1, <2>4 DEF Drawn
    <2>6. Replay(db, writes[p]) = db BY <1>1, <2>4, EmptyReplay DEF FirstLocks
    <2>7. Taken(c, h) BY <2>5, <2>6 DEF Taken, View
    <2>8. ~ HoldPending(c, h) BY <2>2, <2>6 DEF HoldPending
    <2> QED BY <2>2, <2>7, <2>8
  <1>5. ASSUME NEW p \in S, NEW a \in Accounts, acctLock[a] = p
        PROVE  pc[p] = "lockRows"
    <2>1. a \in MyAccounts(p) BY <1>5 DEF MyAccounts
    <2>2. pc[p] \notin {"lockHold", "lockHeld", "createAccount", "archive", "expire"}
      BY <1>1, <2>1 DEF FirstLocks
    <2> QED BY <1>1, <1>2, <1>4, <2>2 DEF Serving
  <1> DEFINE X == {a \in Accounts : acctLock[a] \in S}
  <1>6. X = {}
    <2> SUFFICES ASSUME X # {} PROVE FALSE OBVIOUS
    <2>1. PICK a \in X : \A b \in X : b =< a
      <3>1. X \in SUBSET (1 .. NumAccounts) BY DEF Accounts
      <3> HIDE DEF X
      <3> QED BY <3>1, MaxExists, BoundsAssumption
    <2> DEFINE p == acctLock[a]
               m == MinOf(call[p].want)
    <2>2. p \in S /\ a \in Accounts /\ pc[p] = "lockRows" BY <1>5
    <2>3. PICK q \in S : q \in Awaits(p) BY <1>1, <2>2
    <2>4. q # p /\ call[p].want # {} /\ acctLock[m] = q BY <2>2, <2>3, WhoIsAwaited
    <2>5. call[p].want \subseteq Accounts BY <1>1, <2>2 DEF Requested
    <2>6. m \in call[p].want /\ m \in Accounts BY <2>4, <2>5, SmallestRow
    <2>7. m \in X BY <2>4, <2>6
    <2>8. m =< a BY <2>1, <2>7
    <2>9. m # a BY <2>4
    <2>10. a \in MyAccounts(p) BY <2>2 DEF MyAccounts
    <2> HIDE DEF m
    <2>11. m < a
      <3> m \in 1 .. NumAccounts /\ a \in 1 .. NumAccounts BY <2>2, <2>6 DEF Accounts
      <3> QED BY <2>8, <2>9, BoundsAssumption
    <2>12. CASE call[p].op = "capture"
      <3>1. Disorderly(p) BY <2>2, <2>6, <2>11, <2>12 DEF Disorderly
      <3> QED BY <1>1, <2>2, <3>1
    <2>13. CASE call[p].op # "capture"
      <3>1. a < m BY <1>1, <2>2, <2>6, <2>10, <2>13 DEF FirstLocks
      <3>2. m \in 1 .. NumAccounts /\ a \in 1 .. NumAccounts
        BY <2>2, <2>6 DEF Accounts
      <3> QED BY <2>11, <3>1, <3>2, BoundsAssumption
    <2> QED BY <2>12, <2>13
  <1>7. ASSUME NEW c \in S
        PROVE  pc[c] \notin {"lockHeld", "lockRows", "createAccount", "archive"}
    <2> SUFFICES ASSUME pc[c] \in {"lockHeld", "lockRows", "createAccount", "archive"}
                 PROVE  \E a \in Accounts : acctLock[a] \in S
      BY <1>6
    <2>1. PICK p \in S : p \in Awaits(c) BY <1>1
    <2>2. CASE pc[c] = "lockHeld"
      <3> DEFINE a == Sees(c).holds[call[c].hold].account
      <3>1. acctLock[a] = p BY <2>1, <2>2, WhoIsAwaited
      <3>2. call[c].op = "capture" BY <1>1, <2>2 DEF Requested
      <3>3. a \in Accounts
        <4>1. pc[c] \in Serving /\ pc[c] # "lockHold" /\ c \in Callers
          BY <1>1, <2>2 DEF Serving
        <4> QED BY <1>1, <3>2, <4>1, HeldHold
      <3> QED BY <3>1, <3>3
    <2>3. CASE pc[c] = "lockRows"
      <3>1. call[c].want # {} /\ acctLock[MinOf(call[c].want)] = p
        BY <2>1, <2>3, WhoIsAwaited
      <3>2. call[c].want \subseteq Accounts BY <1>1, <2>3 DEF Requested
      <3>3. MinOf(call[c].want) \in Accounts BY <3>1, <3>2, SmallestRow
      <3> QED BY <3>1, <3>3
    <2>4. CASE pc[c] \in {"createAccount", "archive"}
      <3>1. \E a \in call[c].want : acctLock[a] = p BY <2>1, <2>4, WhoIsAwaited
      <3>2. call[c].want \subseteq Accounts BY <1>1, <2>4 DEF Requested
      <3> QED BY <3>1, <3>2
    <2> QED BY <2>2, <2>3, <2>4
  <1>8. ASSUME NEW c \in S PROVE FALSE
    <2>1. pc[c] \in {"lockHold", "expire"} BY <1>1, <1>2, <1>4, <1>7 DEF Serving
    <2>2. PICK p \in S : p \in Awaits(c) BY <1>1
    <2>3. \E h \in HoldRefs : holdLock[h] = p
      <3>1. CASE pc[c] = "lockHold"
        <4>1. call[c].op \in {"capture", "release"} BY <1>1, <3>1 DEF Requested
        <4>2. call[c].hold \in HoldRefs
          BY <1>1, <4>1, RequestsAssumption DEF Requested
        <4> QED BY <2>2, <3>1, <4>2, WhoIsAwaited
      <3>2. CASE pc[c] = "expire"
        <4>1. call[c].want \subseteq HoldRefs BY <1>1, <3>2 DEF Requested
        <4> QED BY <2>2, <3>2, <4>1, WhoIsAwaited
      <3> QED BY <2>1, <3>1, <3>2
    <2>4. pc[p] \in {"lockHeld", "lockRows"} BY <1>3, <2>3
    <2> QED BY <1>7, <2>4
  <1> QED BY <1>8 DEF Stuck

\* Transactions that wait for each other in a cycle have one among them that
\* takes locks against the order: in a second call, in a Capture that has the
\* held account (h.Account, lockAccount) and wants a row below it (lockAccounts),
\* or in ExpireHolds with a row already.  The order of the others: a hold first,
\* account rows by id, then a new hold's reference or the chain.
THEOREM DeadlocksNeedDisorder == Spec => []DeadlockNeedsDisorder
PROOF
  <1>1. Init => FirstCalls BY FirstInit
  <1>2. IInv /\ FirstCalls /\ [Next]_vars => FirstCalls' BY FirstStep
  <1>3. IInv /\ FirstCalls => DeadlockNeedsDisorder BY OrderlyCallsDoNotDeadlock
  <1> QED BY <1>1, <1>2, <1>3, EmbeddedInvariant, PTL DEF Spec

-----------------------------------------------------------------------------
(* Books computes on the tables with the very operators of LedgerData.     *)

LEMMA SameSums ==
    /\ \A f, n : B!SumTo(f, n) = SumTo(f, n)
    /\ B!Accounts = Accounts /\ B!HoldRefs = HoldRefs /\ B!Directions = Directions
BY DEF B!SumTo, SumTo, B!PartialSums, PartialSums, B!Accounts, Accounts,
       B!HoldRefs, HoldRefs, B!Directions, Directions

LEMMA SameData ==
    /\ \A t, a : B!Delta(t, a) = Delta(t, a)
    /\ \A t, c : B!Net(t, c) = Net(t, c)
    /\ \A t, a : B!Spent(t, a) = Spent(t, a)
    /\ \A raw, a : B!Normalise(raw, a) = Normalise(raw, a)
PROOF
  <1>1. \A t, a : B!Delta(t, a) = Delta(t, a)
    BY SameSums DEF B!Delta, Delta, B!Signed, Signed
  <1>2. \A t, c : B!Net(t, c) = Net(t, c) BY SameSums DEF B!Net, Net, B!Signed, Signed
  <1>3. \A raw, a : B!Normalise(raw, a) = Normalise(raw, a) BY DEF B!Normalise, Normalise
  <1> QED BY <1>1, <1>2, <1>3 DEF B!Spent, Spent

LEMMA SamePosts ==
    /\ \A t : B!Validate(t) <=> Validate(t)
    /\ \A accs, t : B!AccountsAccept(accs, t) <=> AccountsAccept(accs, t)
    /\ \A trs, t : B!Unused(trs, t) <=> Unused(trs, t)
    /\ \A t, k, ref : B!Reversal(t, k, ref) = Reversal(t, k, ref)
    /\ \A t, h : B!Row(t, h) = Row(t, h)
    /\ \A t : B!Touched(t) = Touched(t)
PROOF
  <1>1. ASSUME NEW t PROVE B!Validate(t) <=> Validate(t)
    BY SameData, SameSums DEF B!Validate, Validate
  <1>2. ASSUME NEW accs, NEW t
        PROVE  B!AccountsAccept(accs, t) <=> AccountsAccept(accs, t)
    BY SameSums DEF B!AccountsAccept, AccountsAccept
  <1>3. ASSUME NEW trs, NEW t PROVE B!Unused(trs, t) <=> Unused(trs, t)
    BY DEF B!Unused, Unused
  <1>4. ASSUME NEW t, NEW k, NEW ref PROVE B!Reversal(t, k, ref) = Reversal(t, k, ref)
    BY DEF B!Reversal, Reversal, B!Flip, Flip
  <1>5. ASSUME NEW t, NEW h PROVE B!Row(t, h) = Row(t, h)
    BY DEF B!Row, Row, B!ChainDigest, ChainDigest
  <1>6. ASSUME NEW t PROVE B!Touched(t) = Touched(t) BY DEF B!Touched, Touched
  <1> QED BY <1>1, <1>2, <1>3, <1>4, <1>5, <1>6

LEMMA SameBalances ==
    /\ \A bal, t : B!ApplyBalances(bal, t) = ApplyBalances(bal, t)
    /\ \A bal, hs, a, x : B!AvailableLocked(bal, hs, a, x) = AvailableLocked(bal, hs, a, x)
    /\ \A bal, hs, t, x : B!Covered(bal, hs, t, x) <=> Covered(bal, hs, t, x)
    /\ \A t, a, m : B!Draws(t, a, m) <=> Draws(t, a, m)
    /\ \A r : B!NewHold(r) = NewHold(r)
    /\ B!NoHold = NoHold
PROOF
  <1>1. ASSUME NEW bal, NEW t PROVE B!ApplyBalances(bal, t) = ApplyBalances(bal, t)
    BY SameData, SameSums DEF B!ApplyBalances, ApplyBalances
  <1>2. ASSUME NEW bal, NEW hs, NEW a, NEW x
        PROVE  B!AvailableLocked(bal, hs, a, x) = AvailableLocked(bal, hs, a, x)
    BY SameData, SameSums DEF B!AvailableLocked, AvailableLocked, B!Held, Held
  <1>3. ASSUME NEW bal, NEW hs, NEW t, NEW x
        PROVE  B!Covered(bal, hs, t, x) <=> Covered(bal, hs, t, x)
    BY <1>1, <1>2, SamePosts DEF B!Covered, Covered
  <1>4. ASSUME NEW t, NEW a, NEW m PROVE B!Draws(t, a, m) <=> Draws(t, a, m)
    BY SameData DEF B!Draws, Draws
  <1>5. ASSUME NEW r PROVE B!NewHold(r) = NewHold(r) BY DEF B!NewHold, NewHold
  <1>6. B!NoHold = NoHold BY DEF B!NoHold, NoHold
  <1> QED BY <1>1, <1>2, <1>3, <1>4, <1>5, <1>6

\* The row with the largest id is the last one.
LEMMA SameTail ==
    ASSUME Typed
    PROVE  B!TailHash = TailHash(db.transfers)
PROOF
  <1> DEFINE trs == db.transfers
             n == Len(trs)
  <1>1. trs \in Seq(RowType) BY DEF Typed, Tables
  <1>2. DOMAIN trs = 1 .. n /\ n \in Nat BY <1>1, LenProperties
  <1>3. trs = << >> <=> n = 0 BY <1>1, EmptySeq
  <1>4. CASE n = 0
    <2>1. DOMAIN trs = {} BY <1>2, <1>4
    <2> QED BY <1>3, <1>4, <2>1 DEF B!TailHash, TailHash, B!NoHash, NoHash
  <1>5. CASE n # 0
    <2>1. n \in DOMAIN trs /\ \A j \in DOMAIN trs : j =< n BY <1>2, <1>5
    <2>2. \A k \in DOMAIN trs : (\A j \in DOMAIN trs : j =< k) => k = n BY <1>2, <2>1
    <2>3. (CHOOSE k \in DOMAIN trs : \A j \in DOMAIN trs : j =< k) = n BY <2>1, <2>2
    <2>4. DOMAIN trs # {} BY <2>1
    <2>5. TailHash(trs) = trs[n].hash BY <2>3, <2>4 DEF TailHash
    <2> QED BY <1>3, <1>5, <2>5 DEF B!TailHash
  <1> QED BY <1>4, <1>5

-----------------------------------------------------------------------------
(* A write that passed every check on the tables it is applied to is a     *)
(* step of Books.                                                          *)

LEMMA TransferMaps ==
    ASSUME Typed, NEW w \in Writes, w.kind = "transfer", Lawful(db, w), Strict(db, w),
           db' = Apply(db, w)
    PROVE  B!Next
PROOF
  <1> DEFINE t == Content(w.row)
  <1>0. /\ db \in Tables /\ db \in LooseTables /\ w \in TransferWrites
        /\ w.hold \in HoldRefs \cup {0}
    BY TablesAreLoose, KindsDiffer DEF Typed, TransferWrites
  <1>1. LawfulTransfer(db, w) BY DEF Lawful
  <1>2. /\ w.ok /\ w.row = Row(t, TailHash(db.transfers))
        /\ Covered(db.balances, db.holds, t, w.hold)
    BY DEF Strict
  <1>3. /\ db'.transfers = Append(db.transfers, w.row)
        /\ db'.balances = ApplyBalances(db.balances, w.row)
        /\ db'.accounts = db.accounts
        /\ db'.holds = WithCapture(db.holds, w)
    BY <1>0, LawTables, TransferApplied
  <1>4. ApplyBalances(db.balances, w.row) = ApplyBalances(db.balances, t)
    BY SamePostings DEF ApplyBalances, Content
  <1>5. Row(t, TailHash(db.transfers)) = B!Row(t, B!TailHash) BY SameTail, SamePosts
  <1>6. B!Write(t, w.hold)
    <2>1. /\ B!Validate(t) /\ B!AccountsAccept(db.accounts, t) /\ B!Unused(db.transfers, t)
      BY <1>1, SamePosts DEF LawfulTransfer
    <2>2. B!Covered(db.balances, db.holds, t, w.hold) BY <1>2, SameBalances
    <2>3. db'.balances = B!ApplyBalances(db.balances, t) BY <1>3, <1>4, SameBalances
    <2>4. db'.transfers = Append(db.transfers, B!Row(t, B!TailHash)) BY <1>2, <1>3, <1>5
    <2> HIDE DEF t
    <2> QED BY <1>3, <2>1, <2>2, <2>3, <2>4 DEF B!Write
  <1>7. Origin(t, w.hold, db.transfers) BY <1>1 DEF LawfulTransfer
  <1>8. CASE w.hold = 0
    <2>1. db'.holds = db.holds BY <1>3, <1>8 DEF WithCapture
    <2>2. CASE t \in Requests
      <3>1. B!Post(t) BY <1>6, <1>8, <2>1 DEF B!Post
      <3> QED BY <2>2, <3>1 DEF B!Next
    <2>3. ASSUME NEW k \in DOMAIN db.transfers, NEW ref \in ReversalRefs,
                 t = Reversal(db.transfers[k], k, ref)
          PROVE  B!Next
      <3>1. B!Reverse(k, ref) BY <1>6, <1>8, <2>1, <2>3, SamePosts DEF B!Reverse
      <3> QED BY <3>1 DEF B!Next
    <2> QED BY <1>7, <1>8, <2>2, <2>3 DEF Origin
  <1>9. CASE w.hold # 0
    <2>1. <<w.hold, t>> \in CaptureRequests BY <1>7, <1>9 DEF Origin
    <2>2. /\ db.holds[w.hold].status = "active"
          /\ Draws(t, db.holds[w.hold].account, db.holds[w.hold].amount)
          /\ w.id = Len(db.transfers) + 1
      BY <1>1, <1>9 DEF LawfulTransfer
    <2>3. db'.holds = [db.holds EXCEPT ![w.hold].status = "captured",
                                       ![w.hold].transfer = Len(db.transfers) + 1]
      <3>1. db'.holds = [db.holds EXCEPT ![w.hold].status = "captured",
                                         ![w.hold].transfer = w.id]
        BY <1>2, <1>3, <1>9 DEF WithCapture
      <3> QED BY <2>2, <3>1
    <2> HIDE DEF t
    <2>4. B!Capture(w.hold, t) BY <1>6, <2>2, <2>3, SameBalances DEF B!Capture
    <2>5. B!Capture(<<w.hold, t>>[1], <<w.hold, t>>[2]) BY <2>4
    <2> QED BY <2>1, <2>5 DEF B!Next
  <1> QED BY <1>8, <1>9

LEMMA StrictMaps ==
    ASSUME Typed, NEW w \in Writes, Lawful(db, w), Strict(db, w), db' = Apply(db, w)
    PROVE  B!Next
PROOF
  <1>0. db \in LooseTables BY TablesAreLoose DEF Typed
  <1>1. CASE w.kind = "transfer" BY <1>1, TransferMaps
  <1>2. CASE w.kind = "hold"
    <2>1. w \in HoldWrites /\ w.row \in HoldRequest BY <1>2, KindsDiffer DEF HoldWrites
    <2>2. /\ db'.holds = [db.holds EXCEPT ![w.hold] = NewHold(w.row)]
          /\ db'.accounts = db.accounts /\ db'.transfers = db.transfers
          /\ db'.balances = db.balances
      BY <1>0, <2>1, HoldApplied
    <2>3. LawfulHold(db, w) BY <1>2 DEF Lawful
    <2>4. ~ Chart[w.row.account].allowNegative
             => AvailableLocked(db.balances, db.holds, w.row.account, 0) >= w.row.amount
      BY <1>2 DEF Strict
    <2>5. B!PlaceHold(w.row)
      BY <2>2, <2>3, <2>4, SameSums, SameBalances DEF LawfulHold, B!PlaceHold
    <2> QED BY <2>3, <2>5 DEF LawfulHold, B!Next
  <1>3. CASE w.kind = "status"
    <2>1. w \in StatusWrites BY <1>3, KindsDiffer
    <2>2. /\ db'.holds = SetStatus(db.holds, w.holds, w.status)
          /\ db'.accounts = db.accounts /\ db'.transfers = db.transfers
          /\ db'.balances = db.balances
      BY <1>0, <2>1, StatusApplied
    <2>3. LawfulStatus(db, w) /\ w.holds \in SUBSET HoldRefs
          /\ w.status \in {"released", "expired"}
      BY <1>3, <2>1 DEF Lawful, StatusWrites
    <2>4. CASE w.status = "released"
      <3>1. PICK h \in HoldRefs : w.holds = {h} BY <2>3, <2>4 DEF LawfulStatus
      <3>2. db.holds[h].status = "active" BY <2>3, <3>1 DEF LawfulStatus
      <3>3. db'.holds = [db.holds EXCEPT ![h].status = "released"]
        <4>1. db.holds \in [HoldRefs -> HoldRow] BY <1>0 DEF LooseTables
        <4> QED BY <2>2, <2>4, <3>1, <4>1 DEF SetStatus
      <3>4. B!Release(h) BY <2>2, <3>2, <3>3 DEF B!Release
      <3> QED BY <3>4, SameSums DEF B!Next
    <2>5. CASE w.status = "expired"
      <3>1. B!Expire(w.holds)
        BY <2>2, <2>3, <2>5, SameSums DEF B!Expire, LawfulStatus, SetStatus
      <3> QED BY <2>3, <3>1, SameSums DEF B!Next
    <2> QED BY <2>3, <2>4, <2>5
  <1>4. CASE w.kind = "account"
    <2>1. w \in AccountWrites BY <1>4, KindsDiffer
    <2>2. /\ db'.accounts = [db.accounts EXCEPT ![w.account] = w.status]
          /\ db'.holds = db.holds /\ db'.transfers = db.transfers
          /\ db'.balances = db.balances
      BY <1>0, <2>1, AccountApplied
    <2>3. LawfulAccount(db, w) /\ w.account \in Accounts /\ w.status \in {"open", "archived"}
      BY <1>4, <2>1 DEF Lawful, AccountWrites
    <2>4. CASE w.status = "open"
      <3>1. B!CreateAccount(w.account)
        BY <2>2, <2>3, <2>4 DEF B!CreateAccount, LawfulAccount
      <3> QED BY <2>3, <3>1, SameSums DEF B!Next
    <2>5. CASE w.status = "archived"
      <3>1. B!Archive(w.account) BY <2>2, <2>3, <2>5 DEF B!Archive, LawfulAccount
      <3> QED BY <2>3, <3>1, SameSums DEF B!Next
    <2> QED BY <2>3, <2>4, <2>5
  <1> QED BY <1>1, <1>2, <1>3, <1>4, KindsDiffer

\* Only a commit changes the committed tables.
LEMMA OnlyCommitsShow ==
    ASSUME [Next]_vars
    PROVE  \/ db' = db
           \/ \E p \in Callers : ApplyNext(p) /\ program' = program
PROOF
  <1>1. \A c : Committed(c) \/ Rollback(c) => db' = db BY DEF Committed, Rollback, End
  <1>2. \A c : Begin(c) \/ Commit(c) => db' = db BY DEF Begin, Commit, Goto
  <1>3. \A c : Calls(c) => db' = db
    BY DEF Calls, CallPost, CallReverse, CallHold, CallCapture, CallRelease,
           CallCreateAccount, CallArchive, CallExpireHolds, Enter
  <1>5. ASSUME NEW c, Proceed(c) PROVE db' = db
    <2>1. \A label : Goto(c, label) => db' = db BY DEF Goto
    <2>2. \A err : Fail(c, err) => db' = db BY DEF Fail, Return
    <2>3. \A w : Succeed(c, w) => db' = db BY DEF Succeed, Return
    <2>4. SqlError(c) \/ Return(c) => db' = db BY DEF SqlError, Return
    <2>5. UnknownHold(c) \/ LockRows(c) \/ CheckRows(c) => db' = db
      BY <2>1, <2>2, <2>4 DEF UnknownHold, LockRows, CheckRows
    <2>6. InsertHold(c) \/ Write(c) => db' = db BY <2>3, <2>4 DEF InsertHold, Write
    <2>7. LockHold(c) \/ LockHeld(c) => db' = db
      BY <2>1, <2>2, <2>3, <2>4 DEF LockHold, LockHeld
    <2>8. CreateAccount(c) \/ Archive(c) => db' = db
      BY <2>2, <2>3, <2>4 DEF CreateAccount, Archive
    <2>9. ExpireReturns(c) \/ (\E h \in HoldRefs : ExpireRow(c, h)) => db' = db
      BY <2>4 DEF ExpireReturns, ExpireRow
    <2> QED BY <1>5, <2>5, <2>6, <2>7, <2>8, <2>9 DEF Proceed
  <1>6. UNCHANGED vars => db' = db BY DEF vars
  <1> QED BY <1>1, <1>2, <1>3, <1>5, <1>6 DEF Next

LEMMA StepMaps == IInv /\ [Next]_vars => (Disciplined => [B!Next]_(B!vars))
PROOF
  <1> SUFFICES ASSUME IInv, [Next]_vars, Disciplined PROVE [B!Next]_(B!vars) OBVIOUS
  <1>1. CASE db' = db BY <1>1 DEF B!vars
  <1>2. ASSUME NEW p \in Callers, ApplyNext(p) PROVE B!Next
    <2>1. /\ Typed /\ Laws(p) /\ Strictly(p) /\ pc[p] = "committing" /\ writes[p] # << >>
          /\ db' = Apply(db, Head(writes[p])) /\ writes[p] \in Seq(Writes)
      BY <1>2, Views DEF IInv, CallerInv, ApplyNext
    <2>2. ~ failed[p] BY <2>1 DEF IInv, Committing, Disciplined
    <2>3. StrictOver(db, writes[p]) /\ LawsOver(db, writes[p])
      BY <2>1, <2>2 DEF Strictly, Laws
    <2>4. /\ Head(writes[p]) \in Writes /\ Lawful(db, Head(writes[p]))
          /\ Strict(db, Head(writes[p]))
      BY <2>1, <2>3, LawsTail
    <2> QED BY <2>1, <2>4, StrictMaps
  <1> QED BY <1>1, <1>2, OnlyCommitsShow

LEMMA InitMaps == Init => B!Init
BY SameSums, SameBalances DEF Init, B!Init, EmptyTables

\* Callers that roll back on an error and read what is committed get the
\* ledger of Books: whatever the other transactions did between two of its
\* calls, each write of a commit is an operation that Books allows at that
\* moment (ledger.NewTx and inTx).
THEOREM EmbeddedImplementsBooks == Spec => ImplementsBooks
PROOF
  <1>1. IInv /\ [Next]_vars => [Disciplined => [B!Next]_(B!vars)]_vars BY StepMaps
  <1> QED BY <1>1, InitMaps, EmbeddedInvariant, PTL DEF Spec, ImplementsBooks

-----------------------------------------------------------------------------
(* What the tables keep whatever the callers do: every write is lawful on  *)
(* the tables it is applied to, and a lawful write keeps ...               *)

Nets(d) == \A k \in 1 .. Len(d.transfers), c \in Currencies : Net(d.transfers[k], c) = 0
Tallies(d) == \A c \in Currencies : TrialBalance(d.accounts, d.balances, c) = 0
UnopenedEmpty(d) == \A a \in Accounts : d.accounts[a] = "none" => d.balances[a] = 0
Matches(d) == \A a \in Accounts : d.balances[a] = PostingsTotal(d.transfers, a)
Cancels(d) ==
    \A k \in DOMAIN d.transfers :
        LET j == d.transfers[k].reverses IN
        j # 0 =>
            /\ j < k
            /\ \A a \in Accounts : Delta(d.transfers[k], a) = -Delta(d.transfers[j], a)
            /\ \A m \in DOMAIN d.transfers : d.transfers[m].reverses = j => m = k
SettledIn(d, h) ==
    LET hold == d.holds[h] IN
    /\ (hold.status = "captured") <=> (hold.transfer # 0)
    /\ hold.status = "captured" =>
         /\ hold.transfer \in DOMAIN d.transfers
         /\ d.transfers[hold.transfer].reverses = 0
         /\ Spent(d.transfers[hold.transfer], hold.account) \in 1 .. hold.amount
         /\ \A g \in HoldRefs : d.holds[g].transfer = hold.transfer => g = h
Settles(d) == \A h \in HoldRefs : SettledIn(d, h)

\* What a transfer that is lawful on d does to d.
LEMMA TransferEffect ==
    ASSUME NEW d \in Tables, NEW w \in Writes, w.kind = "transfer", Lawful(d, w)
    PROVE  LET e == Apply(d, w)
               n == Len(d.transfers)
           IN  /\ n \in Nat /\ DOMAIN d.transfers = 1 .. n
               /\ Len(e.transfers) = n + 1 /\ DOMAIN e.transfers = 1 .. n + 1
               /\ \A k \in 1 .. n : e.transfers[k] = d.transfers[k]
               /\ e.transfers[n + 1] = w.row
               /\ w.row \in RowType /\ w.row.postings \in Seq(Posting) /\ w.id = n + 1
               /\ e.accounts = d.accounts
               /\ e.balances = [a \in Accounts |-> d.balances[a] + Delta(w.row, a)]
               /\ e.holds = WithCapture(d.holds, w)
               /\ \A a \in Accounts : d.balances[a] \in Int /\ Delta(w.row, a) \in Int
PROOF
  <1> DEFINE n == Len(d.transfers)
             e == Apply(d, w)
  <1>1. d \in LooseTables /\ w \in TransferWrites BY TablesAreLoose, KindsDiffer
  <1>2. d.transfers \in Seq(RowType) /\ d.balances \in [Accounts -> Int] BY DEF Tables
  <1>3. n \in Nat /\ DOMAIN d.transfers = 1 .. n BY <1>2, LenProperties
  <1>4. w.row \in RowType BY <1>1 DEF TransferWrites
  <1>5. w.row.postings \in Seq(Posting) BY <1>4 DEF RowType
  <1>6. e.transfers = Append(d.transfers, w.row) BY LawTables
  <1>7. /\ Len(e.transfers) = n + 1 /\ DOMAIN e.transfers = 1 .. n + 1
        /\ \A k \in 1 .. n : e.transfers[k] = d.transfers[k]
        /\ e.transfers[n + 1] = w.row
    <2>1. Append(d.transfers, w.row) \in Seq(RowType) BY <1>2, <1>4, AppendProperties
    <2>2. /\ Len(Append(d.transfers, w.row)) = n + 1
          /\ \A k \in 1 .. n : Append(d.transfers, w.row)[k] = d.transfers[k]
          /\ Append(d.transfers, w.row)[n + 1] = w.row
      BY <1>2, <1>4, AppendProperties
    <2>3. DOMAIN Append(d.transfers, w.row) = 1 .. n + 1 BY <2>1, <2>2, LenProperties
    <2> QED BY <1>6, <2>2, <2>3
  <1>8. w.id = n + 1 BY DEF Lawful, LawfulTransfer
  <1>9. /\ e.accounts = d.accounts /\ e.balances = ApplyBalances(d.balances, w.row)
        /\ e.holds = WithCapture(d.holds, w)
    BY <1>1, TransferApplied
  <1>10. \A a \in Accounts : d.balances[a] \in Int /\ Delta(w.row, a) \in Int
    BY <1>2, <1>5, DeltaFacts
  <1> HIDE DEF e, n
  <1> QED BY <1>3, <1>4, <1>5, <1>7, <1>8, <1>9, <1>10 DEF ApplyBalances, e, n

\* ... and what the other writes do.
LEMMA OtherEffect ==
    ASSUME NEW d \in Tables, NEW w \in Writes, w.kind # "transfer", Lawful(d, w)
    PROVE  /\ Apply(d, w).transfers = d.transfers /\ Apply(d, w).balances = d.balances
           /\ \A a \in Accounts : Apply(d, w).accounts[a] = "none" => d.accounts[a] = "none"
PROOF
  <1>1. d \in LooseTables BY TablesAreLoose
  <1>2. /\ Apply(d, w).balances = d.balances
        /\ \A a \in Accounts : Apply(d, w).accounts[a] = AccountAfter(d.accounts[a], w, a)
    BY <1>1, ApplyColumns
  <1>3. Apply(d, w).transfers = d.transfers BY LawTables
  <1>4. ASSUME NEW a \in Accounts, AccountAfter(d.accounts[a], w, a) = "none"
        PROVE  d.accounts[a] = "none"
    <2>1. CASE w.kind = "account" /\ w.account = a
      <3>1. w.status \in {"open", "archived"} BY <2>1, KindsDiffer DEF AccountWrites
      <3> QED BY <1>4, <2>1, <3>1 DEF AccountAfter
    <2>2. CASE ~ (w.kind = "account" /\ w.account = a) BY <1>4, <2>2 DEF AccountAfter
    <2> QED BY <2>1, <2>2
  <1> QED BY <1>2, <1>3, <1>4

\* ... the sum of every transfer and of every currency, ...
LEMMA NetsStay ==
    ASSUME NEW d \in Tables, NEW w \in Writes, Lawful(d, w), Nets(d)
    PROVE  Nets(Apply(d, w))
PROOF
  <1>1. CASE w.kind = "transfer"
    <2> DEFINE n == Len(d.transfers)
               e == Apply(d, w)
    <2>1. /\ n \in Nat /\ Len(e.transfers) = n + 1
          /\ \A k \in 1 .. n : e.transfers[k] = d.transfers[k]
          /\ e.transfers[n + 1] = w.row /\ w.row \in RowType
      BY <1>1, TransferEffect
    <2>2. \A c \in Currencies : Net(w.row, c) = 0
      <3>1. \A c \in Currencies : Net(Content(w.row), c) = 0
        BY <1>1 DEF Lawful, LawfulTransfer, Validate
      <3> QED BY <2>1, <3>1, ContentFacts, SamePostings
    <2>3. \A k \in 1 .. n, c \in Currencies : Net(d.transfers[k], c) = 0 BY DEF Nets
    <2> HIDE DEF n, e
    <2>4. ASSUME NEW k \in 1 .. n + 1, NEW c \in Currencies
          PROVE  Net(e.transfers[k], c) = 0
      <3>1. k \in 1 .. n \/ k = n + 1 BY <2>1
      <3> QED BY <2>1, <2>2, <2>3, <3>1
    <2> QED BY <2>1, <2>4 DEF Nets, e
  <1>2. CASE w.kind # "transfer" BY <1>2, OtherEffect DEF Nets
  <1> QED BY <1>1, <1>2

LEMMA EmptyStay ==
    ASSUME NEW d \in Tables, NEW w \in Writes, Lawful(d, w), UnopenedEmpty(d)
    PROVE  UnopenedEmpty(Apply(d, w))
PROOF
  <1>1. CASE w.kind = "transfer"
    <2>0. /\ Apply(d, w).accounts = d.accounts
          /\ Apply(d, w).balances = [a \in Accounts |-> d.balances[a] + Delta(w.row, a)]
      BY <1>1, TransferEffect
    <2> SUFFICES ASSUME NEW a \in Accounts, d.accounts[a] = "none"
                 PROVE  d.balances[a] + Delta(w.row, a) = 0
      BY <2>0 DEF UnopenedEmpty
    <2>1. w.row.postings \in Seq(Posting) /\ w.row \in RowType BY <1>1, TransferEffect
    <2>2. AccountsAccept(d.accounts, Content(w.row)) BY <1>1 DEF Lawful, LawfulTransfer
    <2>3. a \notin Touched(w.row)
      <3>1. a \notin Touched(Content(w.row)) BY <2>2 DEF AccountsAccept, Touched
      <3> QED BY <2>1, <3>1, ContentFacts
    <2>4. Delta(w.row, a) = 0 BY <2>1, <2>3, DeltaFacts
    <2> QED BY <2>4 DEF UnopenedEmpty
  <1>2. CASE w.kind # "transfer" BY <1>2, OtherEffect DEF UnopenedEmpty
  <1> QED BY <1>1, <1>2

LEMMA TalliesStay ==
    ASSUME NEW d \in Tables, NEW w \in Writes, Lawful(d, w), UnopenedEmpty(d), Tallies(d)
    PROVE  Tallies(Apply(d, w))
PROOF
  <1> DEFINE e == Apply(d, w)
  <1> SUFFICES ASSUME NEW c \in Currencies
               PROVE  TrialBalance(e.accounts, e.balances, c) = 0
    BY DEF Tallies
  <1> DEFINE f == [a \in Accounts |-> IF d.accounts[a] # "none" /\ Chart[a].currency = c
                                       THEN d.balances[a] ELSE 0]
             g == [a \in Accounts |-> IF e.accounts[a] # "none" /\ Chart[a].currency = c
                                       THEN e.balances[a] ELSE 0]
  <1>1. SumTo(f, NumAccounts) = 0 BY DEF Tallies, TrialBalance
  <1>2. TrialBalance(e.accounts, e.balances, c) = SumTo(g, NumAccounts) BY DEF TrialBalance
  <1>3. CASE w.kind = "transfer"
    <2> DEFINE x == [a \in Accounts |-> IF d.accounts[a] # "none" /\ Chart[a].currency = c
                                         THEN Delta(w.row, a) ELSE 0]
    <2>1. /\ e.accounts = d.accounts /\ w.row \in RowType /\ w.row.postings \in Seq(Posting)
          /\ e.balances = [a \in Accounts |-> d.balances[a] + Delta(w.row, a)]
          /\ \A a \in Accounts : d.balances[a] \in Int /\ Delta(w.row, a) \in Int
      BY <1>3, TransferEffect
    <2>2. \A a \in 1 .. NumAccounts : f[a] \in Int /\ x[a] \in Int /\ g[a] = f[a] + x[a]
      <3> HIDE DEF e
      <3> QED BY <2>1 DEF Accounts
    <2>3. SumTo(x, NumAccounts) = 0
      <3>1. AccountsAccept(d.accounts, Content(w.row)) /\ Net(Content(w.row), c) = 0
        BY <1>3 DEF Lawful, LawfulTransfer, Validate
      <3>2. AccountsAccept(d.accounts, w.row)
        BY <2>1, <3>1, ContentFacts DEF AccountsAccept
      <3>3. Net(w.row, c) = 0 BY <2>1, <3>1, ContentFacts, SamePostings
      <3> QED BY <2>1, <3>2, <3>3, TransferTrialBalance
    <2> HIDE DEF f, g, x, e
    <2>4. SumTo(g, NumAccounts) = SumTo(f, NumAccounts) + SumTo(x, NumAccounts)
      BY <2>2, BoundsAssumption, SumAdd
    <2> QED BY <1>1, <1>2, <2>3, <2>4
  <1>4. CASE w.kind # "transfer"
    <2>0. /\ e.balances = d.balances
          /\ \A a \in Accounts : e.accounts[a] = "none" => d.accounts[a] = "none"
      BY <1>4, OtherEffect
    <2>1. \A a \in 1 .. NumAccounts : g[a] = f[a]
      <3> HIDE DEF e
      <3> QED BY <2>0 DEF UnopenedEmpty, Accounts
    <2> HIDE DEF f, g, e
    <2>2. SumTo(g, NumAccounts) = SumTo(f, NumAccounts)
      BY <2>1, BoundsAssumption, SumCong
    <2> QED BY <1>1, <1>2, <2>2
  <1> QED BY <1>3, <1>4

\* ... the balances next to the postings, ...
LEMMA MatchesStay ==
    ASSUME NEW d \in Tables, NEW w \in Writes, Lawful(d, w), Matches(d)
    PROVE  Matches(Apply(d, w))
PROOF
  <1>1. CASE w.kind = "transfer"
    <2> DEFINE n == Len(d.transfers)
               e == Apply(d, w)
    <2> SUFFICES ASSUME NEW a \in Accounts
                 PROVE  e.balances[a] = PostingsTotal(e.transfers, a)
      BY DEF Matches
    <2> DEFINE f == [k \in 1 .. n |-> Delta(d.transfers[k], a)]
               g == [k \in 1 .. n + 1 |-> Delta(e.transfers[k], a)]
    <2>e. e.balances = [b \in Accounts |-> d.balances[b] + Delta(w.row, b)]
      BY <1>1, TransferEffect
    <2>0. /\ n \in Nat /\ Len(e.transfers) = n + 1 /\ e.transfers[n + 1] = w.row
          /\ \A k \in 1 .. n : e.transfers[k] = d.transfers[k]
          /\ e.balances[a] = d.balances[a] + Delta(w.row, a)
      <3>1. /\ n \in Nat /\ Len(e.transfers) = n + 1 /\ e.transfers[n + 1] = w.row
            /\ \A k \in 1 .. n : e.transfers[k] = d.transfers[k]
        BY <1>1, TransferEffect
      <3> HIDE DEF e
      <3> QED BY <2>e, <3>1
    <2>1. d.balances[a] = SumTo(f, n) BY DEF Matches, PostingsTotal
    <2>2. PostingsTotal(e.transfers, a) = SumTo(g, n + 1) BY <2>0 DEF PostingsTotal
    <2> HIDE DEF e, n
    <2>3. \A k \in 1 .. n : g[k] = f[k] BY <2>0
    <2>4. g[n + 1] = Delta(w.row, a) BY <2>0
    <2> HIDE DEF f, g
    <2>5. SumTo(g, n) = SumTo(f, n) BY <2>0, <2>3, SumCong
    <2>6. SumTo(g, n + 1) = SumTo(g, n) + g[n + 1] BY <2>0, SumStep
    <2> QED BY <2>0, <2>1, <2>2, <2>4, <2>5, <2>6
  <1>2. CASE w.kind # "transfer" BY <1>2, OtherEffect DEF Matches
  <1> QED BY <1>1, <1>2

\* ... at most one reversal of a transfer, its mirror image, ...
LEMMA LawfulReversal ==
    ASSUME NEW d \in Tables, NEW w \in Writes, w.kind = "transfer", Lawful(d, w),
           w.row.reverses # 0
    PROVE  /\ w.row.reverses \in 1 .. Len(d.transfers) /\ w.hold = 0
           /\ \A a : Delta(w.row, a) = -Delta(d.transfers[w.row.reverses], a)
           /\ \A k \in 1 .. Len(d.transfers) : d.transfers[k].reverses # w.row.reverses
PROOF
  <1> DEFINE t == Content(w.row)
             n == Len(d.transfers)
  <1>1. w.row \in RowType /\ DOMAIN d.transfers = 1 .. n BY TransferEffect
  <1>2. t.reverses = w.row.reverses /\ t.postings = w.row.postings BY <1>1, ContentFacts
  <1>3. Origin(t, w.hold, d.transfers) /\ Unused(d.transfers, t)
    BY DEF Lawful, LawfulTransfer
  <1>4. \A k \in 1 .. n : d.transfers[k].reverses # w.row.reverses
    BY <1>1, <1>2, <1>3 DEF Unused
  <1>5. t \notin Requests BY <1>2, RequestsAssumption
  <1>6. <<w.hold, t>> \notin CaptureRequests
    <2> SUFFICES ASSUME <<w.hold, t>> \in CaptureRequests PROVE FALSE OBVIOUS
    <2>1. <<w.hold, t>>[2].reverses = 0 BY RequestsAssumption
    <2> HIDE DEF t
    <2>2. t.reverses = 0 BY <2>1
    <2> QED BY <1>2, <2>2
  <1>7. PICK k \in 1 .. n, ref \in ReversalRefs : t = Reversal(d.transfers[k], k, ref)
    BY <1>1, <1>3, <1>5, <1>6 DEF Origin
  <1>8. w.hold = 0 BY <1>3, <1>6 DEF Origin
  <1>9. t.reverses = k BY <1>7 DEF Reversal
  <1>10. d.transfers[k].postings \in Seq(Posting)
    <2> d.transfers[k] \in RowType BY ElementOfSeq DEF Tables
    <2> QED BY DEF RowType
  <1>11. \A a : Delta(t, a) = -Delta(d.transfers[k], a) BY <1>7, <1>10, ReversalDelta
  <1>12. \A a : Delta(w.row, a) = Delta(t, a) BY <1>2, SamePostings
  <1> QED BY <1>2, <1>4, <1>8, <1>9, <1>11, <1>12

LEMMA CancelsStay ==
    ASSUME NEW d \in Tables, NEW w \in Writes, Lawful(d, w), Cancels(d)
    PROVE  Cancels(Apply(d, w))
PROOF
  <1>1. CASE w.kind = "transfer"
    <2> DEFINE n == Len(d.transfers)
               e == Apply(d, w)
               old == d.transfers
               new == e.transfers
    <2>1. /\ n \in Nat /\ DOMAIN old = 1 .. n /\ DOMAIN new = 1 .. n + 1
          /\ \A k \in 1 .. n : new[k] = old[k]
          /\ new[n + 1] = w.row /\ w.row \in RowType
      BY <1>1, TransferEffect
    <2>2. \A k \in 1 .. n : old[k].reverses \in Nat
      <3> \A k \in 1 .. n : old[k] \in RowType BY ElementOfSeq DEF Tables
      <3> QED BY DEF RowType
    <2>3. w.row.reverses # 0 =>
             /\ w.row.reverses \in 1 .. n
             /\ \A a : Delta(w.row, a) = -Delta(old[w.row.reverses], a)
             /\ \A k \in 1 .. n : old[k].reverses # w.row.reverses
      BY <1>1, LawfulReversal
    <2>4. \A k \in 1 .. n : old[k].reverses # 0 =>
             /\ old[k].reverses < k
             /\ \A a \in Accounts : Delta(old[k], a) = -Delta(old[old[k].reverses], a)
             /\ \A m \in 1 .. n : old[m].reverses = old[k].reverses => m = k
      BY <2>1 DEF Cancels
    <2> HIDE DEF n, e, old, new
    <2>5. ASSUME NEW k \in 1 .. n + 1, new[k].reverses # 0
          PROVE  LET j == new[k].reverses IN
                 /\ j < k
                 /\ \A a \in Accounts : Delta(new[k], a) = -Delta(new[j], a)
                 /\ \A m \in 1 .. n + 1 : new[m].reverses = j => m = k
      <3> DEFINE j == new[k].reverses
      <3>1. CASE k \in 1 .. n
        <4>1. new[k] = old[k] BY <2>1, <3>1
        <4>2. j < k /\ j # 0 /\ j \in Nat /\ j = old[k].reverses
          BY <2>2, <2>4, <2>5, <3>1, <4>1
        <4>3. j \in 1 .. n BY <2>1, <3>1, <4>2
        <4>4. new[j] = old[j] BY <2>1, <4>3
        <4>5. \A a \in Accounts : Delta(new[k], a) = -Delta(new[j], a)
          BY <2>4, <3>1, <4>1, <4>2, <4>4
        <4>6. ASSUME NEW m \in 1 .. n + 1, new[m].reverses = j PROVE m = k
          <5>1. CASE m \in 1 .. n
            <6>1. old[m].reverses = old[k].reverses BY <2>1, <4>2, <4>6, <5>1
            <6> QED BY <2>4, <3>1, <4>2, <5>1, <6>1
          <5>2. CASE m = n + 1
            <6>1. w.row.reverses = old[k].reverses /\ w.row.reverses # 0
              BY <2>1, <4>2, <4>6, <5>2
            <6> QED BY <2>3, <3>1, <6>1
          <5> QED BY <2>1, <5>1, <5>2
        <4> HIDE DEF j
        <4> QED BY <4>2, <4>5, <4>6 DEF j
      <3>2. CASE k = n + 1
        <4>1. j = w.row.reverses /\ j # 0 BY <2>1, <2>5, <3>2
        <4>2. j \in 1 .. n /\ new[j] = old[j] BY <2>1, <2>3, <4>1
        <4>3. j < k BY <2>1, <3>2, <4>2
        <4>4. \A a \in Accounts : Delta(new[k], a) = -Delta(new[j], a)
          BY <2>1, <2>3, <3>2, <4>1, <4>2
        <4>5. ASSUME NEW m \in 1 .. n + 1, new[m].reverses = j PROVE m = k
          <5>1. m \notin 1 .. n BY <2>1, <2>3, <4>1, <4>5
          <5> QED BY <2>1, <3>2, <5>1
        <4> HIDE DEF j
        <4> QED BY <4>3, <4>4, <4>5 DEF j
      <3> QED BY <2>1, <3>1, <3>2
    <2> QED BY <2>1, <2>5 DEF Cancels, new, e
  <1>2. CASE w.kind # "transfer" BY <1>2, OtherEffect DEF Cancels
  <1> QED BY <1>1, <1>2

\* ... and a transfer of its own for every captured hold.
LEMMA SettlesStay ==
    ASSUME NEW d \in Tables, NEW w \in Writes, Lawful(d, w), Settles(d)
    PROVE  Settles(Apply(d, w))
PROOF
  <1> DEFINE e == Apply(d, w)
             n == Len(d.transfers)
  <1>0. /\ d \in LooseTables /\ d.holds \in [HoldRefs -> HoldRow]
        /\ \A g \in HoldRefs : SettledIn(d, g)
        /\ \A h \in HoldRefs : e.holds[h] = HoldAfter(d.holds[h], w, h)
    BY TablesAreLoose, ApplyColumns DEF Tables, Settles
  <1> SUFFICES ASSUME NEW h \in HoldRefs PROVE SettledIn(e, h) BY DEF Settles
  <1>1. ASSUME e.transfers = d.transfers,
               \A g \in HoldRefs :
                  /\ e.holds[g].transfer = d.holds[g].transfer
                  /\ \/ e.holds[g] = d.holds[g]
                     \/ d.holds[g].status # "captured" /\ e.holds[g].status # "captured"
        PROVE  SettledIn(e, h)
    <2> HIDE DEF e
    <2>1. SettledIn(d, h) BY <1>0
    <2>2. CASE e.holds[h] = d.holds[h] BY <1>1, <2>1, <2>2 DEF SettledIn
    <2>3. CASE d.holds[h].status # "captured" /\ e.holds[h].status # "captured"
      BY <1>1, <2>1, <2>3 DEF SettledIn
    <2> QED BY <1>1, <2>2, <2>3
  <1>2. CASE w.kind = "hold"
    <2>1. w \in HoldWrites BY <1>2, KindsDiffer
    <2>2. d.holds[w.hold].status = "none" /\ w.hold \in HoldRefs
      BY <1>2, <2>1 DEF Lawful, LawfulHold, HoldWrites
    <2>3. d.holds[w.hold].transfer = 0 BY <1>0, <2>2 DEF SettledIn
    <2>4. \A g \in HoldRefs :
             e.holds[g] = IF w.hold = g THEN NewHold(w.row) ELSE d.holds[g]
      BY <1>0, <1>2 DEF HoldAfter
    <2>5. NewHold(w.row).status = "active" /\ NewHold(w.row).transfer = 0 BY DEF NewHold
    <2>6. e.transfers = d.transfers BY <1>2, OtherEffect
    <2> HIDE DEF e
    <2> QED BY <1>1, <2>2, <2>3, <2>4, <2>5, <2>6
  <1>3. CASE w.kind = "status"
    <2>1. w \in StatusWrites BY <1>3, KindsDiffer
    <2>2. /\ \A g \in w.holds : d.holds[g].status = "active"
          /\ w.status # "captured"
      BY <1>3, <2>1 DEF Lawful, LawfulStatus, StatusWrites
    <2>3. \A g \in HoldRefs :
             e.holds[g] = IF g \in w.holds THEN [d.holds[g] EXCEPT !.status = w.status]
                          ELSE d.holds[g]
      BY <1>0, <1>3 DEF HoldAfter
    <2>4. \A g \in HoldRefs :
             /\ [d.holds[g] EXCEPT !.status = w.status].transfer = d.holds[g].transfer
             /\ [d.holds[g] EXCEPT !.status = w.status].status = w.status
      BY <1>0 DEF HoldRow
    <2>5. e.transfers = d.transfers BY <1>3, OtherEffect
    <2> HIDE DEF e
    <2>6. ASSUME NEW g \in HoldRefs
          PROVE  /\ e.holds[g].transfer = d.holds[g].transfer
                 /\ \/ e.holds[g] = d.holds[g]
                    \/ d.holds[g].status # "captured" /\ e.holds[g].status # "captured"
      BY <2>2, <2>3, <2>4
    <2> QED BY <1>1, <2>5, <2>6
  <1>4. CASE w.kind = "account"
    <2>1. \A g \in HoldRefs : e.holds[g] = d.holds[g] BY <1>0, <1>4 DEF HoldAfter
    <2>2. e.transfers = d.transfers BY <1>4, OtherEffect
    <2> HIDE DEF e
    <2> QED BY <1>1, <2>1, <2>2
  <1>5. CASE w.kind = "transfer"
    <2>1. /\ n \in Nat /\ DOMAIN d.transfers = 1 .. n /\ DOMAIN e.transfers = 1 .. n + 1
          /\ \A k \in 1 .. n : e.transfers[k] = d.transfers[k]
          /\ e.transfers[n + 1] = w.row /\ w.row \in RowType /\ w.id = n + 1
      BY <1>5, TransferEffect
    <2>2. \A g \in HoldRefs :
             e.holds[g] = IF w.ok /\ w.hold = g
                          THEN [d.holds[g] EXCEPT !.status = "captured", !.transfer = n + 1]
                          ELSE d.holds[g]
      <3>1. w.id = n + 1 BY <2>1
      <3> HIDE DEF e, n
      <3>2. ASSUME NEW g \in HoldRefs
            PROVE  e.holds[g] = IF w.ok /\ w.hold = g
                                THEN [d.holds[g] EXCEPT !.status = "captured",
                                                        !.transfer = w.id]
                                ELSE d.holds[g]
        <4>1. e.holds[g] = HoldAfter(d.holds[g], w, g) BY <1>0
        <4> QED BY <4>1, <1>5 DEF HoldAfter
      <3> QED BY <3>1, <3>2
    <2>3. \A g \in HoldRefs : LET x == [d.holds[g] EXCEPT !.status = "captured",
                                                          !.transfer = n + 1]
                              IN  /\ x.status = "captured" /\ x.transfer = n + 1
                                  /\ x.account = d.holds[g].account
                                  /\ x.amount = d.holds[g].amount
      BY <1>0 DEF HoldRow
    <2>4. \A g \in HoldRefs : d.holds[g].transfer = 0 \/ d.holds[g].transfer \in 1 .. n
      BY <1>0, <2>1 DEF SettledIn
    <2>5. CASE w.ok /\ w.hold = h
      <3>0. LawfulTransfer(d, w) /\ h # 0 BY <1>5, NoHoldZero DEF Lawful
      <3>1. /\ Draws(Content(w.row), d.holds[h].account, d.holds[h].amount)
            /\ <<h, Content(w.row)>> \in CaptureRequests
        BY <2>5, <3>0 DEF LawfulTransfer, Origin
      <3>2. w.row.reverses = 0
        <4>1. <<h, Content(w.row)>>[2].reverses = 0 BY <3>1, RequestsAssumption
        <4>2. Content(w.row).reverses = 0 BY <4>1
        <4> QED BY <2>1, <4>2, ContentFacts
      <3>3. Spent(w.row, d.holds[h].account) \in 1 .. d.holds[h].amount
        <4> DEFINE s == Spent(w.row, d.holds[h].account)
        <4>1. s = Spent(Content(w.row), d.holds[h].account)
          BY <2>1, ContentFacts, SamePostings
        <4>2. s > 0 /\ s =< d.holds[h].amount BY <3>1, <4>1 DEF Draws
        <4>3. Delta(w.row, d.holds[h].account) \in Int
          BY <2>1, ContentFacts, DeltaFacts
        <4>4. s \in Int BY <4>3 DEF Spent, Normalise
        <4>5. d.holds[h].amount \in Nat BY <1>0 DEF HoldRow
        <4> HIDE DEF s
        <4>6. s \in 1 .. d.holds[h].amount BY <4>2, <4>4, <4>5
        <4> QED BY <4>6 DEF s
      <3>4. /\ e.holds[h].status = "captured" /\ e.holds[h].transfer = n + 1
            /\ e.holds[h].account = d.holds[h].account
            /\ e.holds[h].amount = d.holds[h].amount
        BY <2>2, <2>3, <2>5
      <3>5. ASSUME NEW g \in HoldRefs, e.holds[g].transfer = n + 1 PROVE g = h
        <4> SUFFICES ASSUME g # h PROVE FALSE OBVIOUS
        <4>1. e.holds[g] = d.holds[g] BY <2>2, <2>5
        <4> HIDE DEF e, n
        <4> QED BY <2>1, <2>4, <3>5, <4>1
      <3>6. n + 1 \in DOMAIN e.transfers /\ n + 1 # 0 BY <2>1
      <3> HIDE DEF e, n
      <3> QED BY <2>1, <3>2, <3>3, <3>4, <3>5, <3>6 DEF SettledIn
    <2>6. CASE ~ (w.ok /\ w.hold = h)
      <3>1. e.holds[h] = d.holds[h] BY <2>2, <2>6
      <3>2. SettledIn(d, h) BY <1>0
      <3>3. CASE d.holds[h].status # "captured"
        <4> HIDE DEF e, n
        <4> QED BY <3>1, <3>2, <3>3 DEF SettledIn
      <3>4. CASE d.holds[h].status = "captured"
        <4> DEFINE k == d.holds[h].transfer
        <4>1. /\ k \in 1 .. n /\ d.transfers[k].reverses = 0
              /\ Spent(d.transfers[k], d.holds[h].account) \in 1 .. d.holds[h].amount
              /\ \A g \in HoldRefs : d.holds[g].transfer = k => g = h
          BY <2>1, <3>2, <3>4 DEF SettledIn
        <4>2. e.transfers[k] = d.transfers[k] /\ k \in DOMAIN e.transfers /\ k # n + 1 /\ k # 0
          BY <2>1, <4>1
        <4>3. ASSUME NEW g \in HoldRefs, e.holds[g].transfer = k PROVE g = h
          <5>1. d.holds[g].transfer = k
            <6> HIDE DEF e, n, k
            <6> QED BY <2>2, <2>3, <4>2, <4>3
          <5> QED BY <4>1, <5>1
        <4> HIDE DEF e, n, k
        <4>4. e.holds[h].transfer = k BY <3>1 DEF k
        <4> QED BY <3>1, <3>4, <4>1, <4>2, <4>3, <4>4 DEF SettledIn
      <3> QED BY <3>3, <3>4
    <2> QED BY <2>5, <2>6
  <1> QED BY <1>2, <1>3, <1>4, <1>5, KindsDiffer

Sound(d) ==
    Nets(d) /\ Tallies(d) /\ UnopenedEmpty(d) /\ Matches(d) /\ Cancels(d) /\ Settles(d)

LEMMA SoundStays ==
    ASSUME NEW d \in Tables, NEW w \in Writes, Lawful(d, w), Sound(d)
    PROVE  Sound(Apply(d, w))
BY NetsStay, TalliesStay, EmptyStay, MatchesStay, CancelsStay, SettlesStay DEF Sound

LEMMA SoundStep == IInv /\ Sound(db) /\ [Next]_vars => Sound(db')
PROOF
  <1> SUFFICES ASSUME IInv, Sound(db), [Next]_vars PROVE Sound(db') OBVIOUS
  <1>1. ASSUME NEW p \in Callers, ApplyNext(p) PROVE Sound(db')
    <2>1. /\ db \in Tables /\ Laws(p) /\ writes[p] # << >>
          /\ db' = Apply(db, Head(writes[p])) /\ writes[p] \in Seq(Writes)
      BY <1>1, Views DEF IInv, Typed, CallerInv, ApplyNext
    <2>2. Head(writes[p]) \in Writes /\ Lawful(db, Head(writes[p]))
      BY <2>1, LawsTail DEF Laws
    <2> QED BY <2>1, <2>2, SoundStays
  <1> QED BY <1>1, OnlyCommitsShow

LEMMA SoundInit == Init => Sound(db)
PROOF
  <1> SUFFICES ASSUME Init PROVE Sound(db) OBVIOUS
  <1>1. /\ db.transfers = << >> /\ Len(db.transfers) = 0 /\ DOMAIN db.transfers = {}
        /\ db.balances = [a \in Accounts |-> 0] /\ db.holds = [h \in HoldRefs |-> NoHold]
    BY DEF Init, EmptyTables
  <1>2. ASSUME NEW c \in Currencies PROVE TrialBalance(db.accounts, db.balances, c) = 0
    <2> DEFINE f == [a \in Accounts |-> IF db.accounts[a] # "none" /\ Chart[a].currency = c
                                         THEN db.balances[a] ELSE 0]
    <2>1. \A a \in 1 .. NumAccounts : f[a] = 0 BY <1>1 DEF Accounts
    <2>2. TrialBalance(db.accounts, db.balances, c) = SumTo(f, NumAccounts)
      BY DEF TrialBalance
    <2> HIDE DEF f
    <2> QED BY <2>1, <2>2, BoundsAssumption, SumAllZero
  <1>3. \A a \in Accounts : PostingsTotal(db.transfers, a) = 0
    BY <1>1, SumStep DEF PostingsTotal
  <1>4. Nets(db) /\ Tallies(db) /\ UnopenedEmpty(db) /\ Matches(db) /\ Cancels(db)
    BY <1>1, <1>2, <1>3 DEF Nets, Tallies, UnopenedEmpty, Matches, Cancels
  <1>5. Settles(db) BY <1>1 DEF Settles, SettledIn, NoHold
  <1> QED BY <1>4, <1>5 DEF Sound

LEMMA SoundBooksSurvive == Sound(db) => BooksSurvive
PROOF
  <1> SUFFICES ASSUME Sound(db) PROVE BooksSurvive OBVIOUS
  <1>1. B!SumZero
    <2>1. B!CheckTransfersBalance(db.transfers) = {}
      BY SameData DEF Sound, Nets, B!CheckTransfersBalance
    <2>2. \A c : B!TrialBalance(db.accounts, db.balances, c)
                   = TrialBalance(db.accounts, db.balances, c)
      BY SameSums DEF B!TrialBalance, TrialBalance
    <2>3. B!CheckTrialBalance(db.accounts, db.balances) = {}
      BY <2>2 DEF Sound, Tallies, B!CheckTrialBalance
    <2> QED BY <2>1, <2>3 DEF B!SumZero
  <1>2. B!BalancesMatchPostings
    <2>1. \A a : B!PostingsTotal(db.transfers, a) = PostingsTotal(db.transfers, a)
      BY SameSums, SameData DEF B!PostingsTotal, PostingsTotal
    <2> QED BY <2>1, SameSums DEF Sound, Matches, B!BalancesMatchPostings,
               B!CheckBalancesMatchPostings
  <1>3. B!ReversalsCancel
    BY SameSums, SameData DEF Sound, Cancels, B!ReversalsCancel
  <1>4. B!CapturesSettle
    BY SameSums, SameData DEF Sound, Settles, SettledIn, B!CapturesSettle
  <1> QED BY <1>1, <1>2, <1>3, <1>4 DEF BooksSurvive

\* Callers may commit after an error and read old snapshots: what is committed
\* still balances, matches its postings, undoes a transfer at most once and
\* settles a captured hold by a transfer of its own.  The locks that post,
\* Capture and lockHold take on the caller's transaction are enough for that;
\* only the overdraft guard and the chain need more of the caller.
THEOREM BooksAlwaysSurvive == Spec => []BooksSurvive
PROOF
  <1>1. IInv /\ Sound(db) /\ [Next]_vars => Sound(db') BY SoundStep
  <1>2. IInv /\ Sound(db) /\ [Next]_vars => Sound(db)' BY <1>1
  <1>3. Init => Sound(db) BY SoundInit
  <1>4. Sound(db) => BooksSurvive BY SoundBooksSurvive
  <1> QED BY <1>2, <1>3, <1>4, EmbeddedInvariant, PTL DEF Spec

=============================================================================
