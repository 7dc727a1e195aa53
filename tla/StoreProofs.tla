----------------------------- MODULE StoreProofs -----------------------------
(***************************************************************************)
(* The concurrent engine, for every number of sessions, every chart of     *)
(* accounts and every set of requests: what a transaction checked holds    *)
(* until it commits, a deadlock needs a capture, and the engine implements *)
(* Books.                                                                  *)
(***************************************************************************)
EXTENDS Store, LedgerDataProofs, FiniteSetTheorems

\* What a step of another process leaves alone of the process p itself ...
LocalsKept(p) ==
    /\ pc'[p] = pc[p] /\ call'[p] = call[p] /\ want'[p] = want[p]
    /\ link'[p] = link[p] /\ newId'[p] = newId[p]

\* ... of its locks ...
LocksKept(p) ==
    /\ \A a \in Accounts : (acctLock'[a] = p) <=> (acctLock[a] = p)
    /\ \A h \in HoldRefs : (holdLock'[h] = p) <=> (holdLock[h] = p)
    /\ (chainLock' = p) <=> (chainLock = p)

\* ... and of the rows those locks protect.
RowsKept(p) ==
    /\ \A a \in Accounts : acctLock[a] = p =>
          /\ accounts[a] = "open" => accounts'[a] = "open"
          /\ balances'[a] = balances[a]
          /\ \A h \in HoldRefs :
                holds'[h].status = "active" /\ holds'[h].account = a => holds'[h] = holds[h]
    /\ \A h \in HoldRefs : holdLock[h] = p => holds'[h] = holds[h]
    /\ \A h \in HoldRefs : holds[h].status # "none" =>
          holds'[h].account = holds[h].account
    /\ chainLock = p => transfers' = transfers
    /\ \A k \in DOMAIN transfers : k \in DOMAIN transfers' /\ transfers'[k] = transfers[k]
    /\ pastDue["app"] \subseteq pastDue'["app"]

\* The step of another process leaves p alone.
Undisturbed(p) == LocalsKept(p) /\ LocksKept(p) /\ RowsKept(p)

-----------------------------------------------------------------------------
(* Calls *)

\* A reversal of a row is well-typed, as is every request.
LEMMA CallArguments ==
    ASSUME TypeOK, NEW s \in Sessions, CallInv(s)
    PROVE  /\ Writing(s) => call[s].arg \in RawTransfer /\ Validate(call[s].arg)
           /\ call[s].op = "capture" => call[s].hold \in HoldRefs
           /\ call[s].op = "hold" =>
                /\ call[s].arg \in HoldRequest
                /\ call[s].hold \in HoldRefs /\ call[s].arg.amount \in Nat \ {0}
           /\ call[s].op = "post" => call[s].hold \notin HoldRefs
PROOF
  <1>1. ASSUME call[s].op = "post" PROVE call[s].arg \in RawTransfer
    <2>1. CASE call[s].arg \in Requests BY <2>1, RequestsAssumption
    <2>2. ASSUME NEW k \in DOMAIN transfers, NEW ref \in ReversalRefs,
                 call[s].arg = Reversal(transfers[k], k, ref)
          PROVE  call[s].arg \in RawTransfer
      <3>1. transfers \in Seq(RowType) BY DEF TypeOK
      <3>2. k \in 1 .. Len(transfers) /\ k \in Nat BY <3>1, LenProperties
      <3>3. transfers[k] \in RowType BY <3>1, <3>2, ElementOfSeq
      <3> QED BY <2>2, <3>2, <3>3, ReversalIsTransfer, RequestsAssumption
    <2> QED BY <1>1, <2>1, <2>2 DEF CallInv, NoCall
  <1>2. ASSUME call[s].op = "capture"
        PROVE  call[s].arg \in RawTransfer /\ call[s].hold \in HoldRefs
    BY <1>2, RequestsAssumption DEF CallInv, NoCall
  <1>3. Writing(s) => Validate(call[s].arg) BY DEF Writing, CallInv, NoCall
  <1>4. ASSUME call[s].op = "hold"
        PROVE  /\ call[s].arg \in HoldRequest /\ call[s].hold \in HoldRefs
               /\ call[s].arg.amount \in Nat \ {0}
    <2>1. /\ call[s].arg \in HoldRequests /\ call[s].hold = call[s].arg.reference
          /\ call[s].hold # 0 /\ call[s].arg.amount > 0
      BY <1>4 DEF CallInv, NoCall
    <2>2. call[s].arg \in HoldRequest BY <2>1, RequestsAssumption
    <2> QED BY <2>1, <2>2 DEF HoldRequest
  <1>5. call[s].op = "post" => call[s].hold \notin HoldRefs
    BY BoundsAssumption DEF CallInv, NoCall, HoldRefs
  <1> QED BY <1>1, <1>2, <1>3, <1>4, <1>5 DEF Writing

\* The transfer of a session past its account checks is well-typed.
LEMMA LateTransfer ==
    ASSUME TypeOK, NEW s \in Sessions, CallInv(s), AccountInv(s),
           Writing(s), pc[s] \in Late
    PROVE  /\ call[s].arg \in Transfer /\ call[s].arg.postings \in Seq(Posting)
           /\ Touched(call[s].arg) \subseteq Accounts
PROOF
  <1>1. AccountsAccept(accounts, call[s].arg) BY DEF AccountInv
  <1>2. call[s].arg \in Transfer BY <1>1, CallArguments, AcceptedIsTyped
  <1>3. Touched(call[s].arg) \subseteq Accounts
    BY <1>1 DEF AccountsAccept, Touched
  <1> QED BY <1>2, <1>3 DEF Transfer

-----------------------------------------------------------------------------
(* What a session has checked survives the steps of the others.            *)

LEMMA CallKept ==
    ASSUME TypeOK, NEW r \in Sessions, CallInv(r), Undisturbed(r)
    PROVE  CallInv(r)'
PROOF
  <1>1. call'[r] = call[r] /\ pc'[r] = pc[r] BY DEF Undisturbed, LocalsKept
  <1>2. /\ \A k \in DOMAIN transfers : k \in DOMAIN transfers' /\ transfers'[k] = transfers[k]
        /\ pastDue["app"] \subseteq pastDue'["app"]
    BY DEF Undisturbed, RowsKept
  <1>3. ASSUME \/ call[r].arg \in Requests
               \/ \E k \in DOMAIN transfers, ref \in ReversalRefs :
                     call[r].arg = Reversal(transfers[k], k, ref)
        PROVE  \/ call[r].arg \in Requests
               \/ \E k \in DOMAIN transfers', ref \in ReversalRefs :
                     call[r].arg = Reversal(transfers'[k], k, ref)
    BY <1>2, <1>3
  <1> QED BY <1>1, <1>2, <1>3 DEF CallInv

LEMMA AccountKept ==
    ASSUME TypeOK, TypeOK', NEW r \in Sessions, SessionInv(r), Undisturbed(r)
    PROVE  AccountInv(r)'
PROOF
  <1> USE DEF SessionInv
  <1>1. call'[r] = call[r] /\ pc'[r] = pc[r] /\ want'[r] = want[r]
    BY DEF Undisturbed, LocalsKept
  <1>2. /\ \A a \in Accounts : (acctLock'[a] = r) <=> (acctLock[a] = r)
        /\ \A h \in HoldRefs : (holdLock'[h] = r) <=> (holdLock[h] = r)
    BY DEF Undisturbed, LocksKept
  <1>3. \A a \in Accounts : acctLock[a] = r =>
          /\ accounts[a] = "open" => accounts'[a] = "open"
          /\ balances'[a] = balances[a]
          /\ \A h \in HoldRefs :
                holds'[h].status = "active" /\ holds'[h].account = a => holds'[h] = holds[h]
    BY DEF Undisturbed, RowsKept
  <1>4. ASSUME call[r].op = "capture", pc[r] = "lockAccounts"
        PROVE  holds'[call[r].hold] = holds[call[r].hold]
    <2>1. holdLock[call[r].hold] = r BY <1>4, CallArguments DEF HoldInv
    <2> QED BY <1>4, <2>1, CallArguments DEF Undisturbed, RowsKept
  <1>5. ASSUME Writing(r), pc[r] \in Late
        PROVE  AccountsAccept(accounts', call[r].arg)
    <2>1. \A a \in Touched(call[r].arg) : a \in Accounts /\ acctLock[a] = r
      BY <1>5, LateTransfer DEF AccountInv
    <2>2. \A a \in Touched(call[r].arg) : accounts[a] = "open" => accounts'[a] = "open"
      BY <1>3, <2>1
    <2>3. AccountsAccept(accounts, call[r].arg) BY <1>5 DEF AccountInv
    <2> QED BY <2>2, <2>3 DEF AccountsAccept, Touched
  <1>6. ASSUME Writing(r), pc[r] \in Late
        PROVE  \A a \in Touched(call[r].arg) : acctLock'[a] = r
    BY <1>2, <1>6, LateTransfer DEF AccountInv
  <1>7. ASSUME call[r].op = "hold", pc[r] # "lockAccount"
        PROVE  /\ call[r].arg.account \in Accounts
               /\ acctLock[call[r].arg.account] = r /\ acctLock'[call[r].arg.account] = r
    BY <1>2, <1>7 DEF AccountInv
  <1>8. ASSUME call[r].op = "hold", pc[r] \in {"insertHold", "commit"}
        PROVE  LET q == call[r].arg IN
               /\ accounts'[q.account] = "open"
               /\ Chart[q.account].currency = q.currency
               /\ ~ Chart[q.account].allowNegative
                    => AvailableLocked(balances', holds', q.account, 0) >= q.amount
    <2> DEFINE q == call[r].arg
    <2>1. q.account \in Accounts /\ acctLock[q.account] = r BY <1>7, <1>8
    <2>2. /\ accounts[q.account] = "open" /\ Chart[q.account].currency = q.currency
          /\ ~ Chart[q.account].allowNegative
               => AvailableLocked(balances, holds, q.account, 0) >= q.amount
      BY <1>8 DEF AccountInv
    <2>3. q.amount \in Int BY <1>8, CallArguments
    <2>4. /\ balances \in [Accounts -> Int] /\ balances' \in [Accounts -> Int]
          /\ holds \in [HoldRefs -> HoldRow] /\ holds' \in [HoldRefs -> HoldRow]
      BY DEF TypeOK
    <2>5. /\ balances'[q.account] = balances[q.account]
          /\ \A h \in HoldRefs :
                holds'[h].status = "active" /\ holds'[h].account = q.account
                  => holds'[h] = holds[h]
      BY <1>3, <2>1
    <2>6. ~ Chart[q.account].allowNegative
             => AvailableLocked(balances', holds', q.account, 0) >= q.amount
      BY <2>1, <2>2, <2>3, <2>4, <2>5, AvailableStays
    <2> QED BY <1>3, <2>1, <2>2, <2>6
  <1> QED BY <1>1, <1>2, <1>4, <1>5, <1>6, <1>7, <1>8 DEF AccountInv, Writing

LEMMA ChainKept ==
    ASSUME TypeOK, TypeOK', NEW r \in Sessions, SessionInv(r), Undisturbed(r)
    PROVE  ChainInv(r)'
PROOF
  <1> USE DEF SessionInv
  <1>1. call'[r] = call[r] /\ pc'[r] = pc[r] /\ link'[r] = link[r] /\ newId'[r] = newId[r]
    BY DEF Undisturbed, LocalsKept
  <1>2. (chainLock' = r) <=> (chainLock = r) BY DEF Undisturbed, LocksKept
  <1>3. ASSUME InChain(r) PROVE transfers' = transfers
    BY <1>3 DEF ChainInv, Undisturbed, RowsKept
  <1>4. ASSUME InChain(r) PROVE TailHash' = TailHash BY <1>3, <1>4 DEF TailHash
  <1>5. ASSUME InChain(r), pc[r] = "commit"
        PROVE  Covered(balances', holds', call[r].arg, call[r].hold)
    <2>1. /\ call[r].arg.postings \in Seq(Posting)
          /\ Touched(call[r].arg) \subseteq Accounts
          /\ \A a \in Touched(call[r].arg) : acctLock[a] = r
      BY <1>5, LateTransfer DEF InChain, AccountInv
    <2>2. \A a \in Touched(call[r].arg) : balances'[a] = balances[a]
      BY <2>1 DEF Undisturbed, RowsKept
    <2>3. \A h \in HoldRefs :
             holds'[h].status = "active" /\ holds'[h].account \in Touched(call[r].arg)
               => holds'[h] = holds[h]
      BY <2>1 DEF Undisturbed, RowsKept
    <2>4. Covered(balances, holds, call[r].arg, call[r].hold) BY <1>5 DEF ChainInv
    <2> QED BY <2>1, <2>2, <2>3, <2>4, CoveredStays DEF TypeOK
  <1>6. InChain(r)' <=> InChain(r) BY <1>1 DEF InChain, Writing
  <1> QED BY <1>1, <1>2, <1>3, <1>4, <1>5, <1>6 DEF ChainInv

LEMMA HoldKept ==
    ASSUME TypeOK, TypeOK', RowsInv, NEW r \in Sessions, SessionInv(r), Undisturbed(r)
    PROVE  HoldInv(r)'
PROOF
  <1> USE DEF SessionInv
  <1>1. call'[r] = call[r] /\ pc'[r] = pc[r] BY DEF Undisturbed, LocalsKept
  <1>2. /\ \A a \in Accounts : (acctLock'[a] = r) <=> (acctLock[a] = r)
        /\ \A h \in HoldRefs : (holdLock'[h] = r) <=> (holdLock[h] = r)
    BY DEF Undisturbed, LocksKept
  <1>3. \A h \in HoldRefs : holdLock[h] = r => holds'[h] = holds[h]
    BY DEF Undisturbed, RowsKept
  <1>4. ASSUME call[r].op = "capture", pc[r] \in {"lockAccounts"} \cup Late
        PROVE  /\ holds'[call[r].hold] = holds[call[r].hold]
               /\ acctLock'[holds[call[r].hold].account] = r
               /\ Draws(call[r].arg, holds[call[r].hold].account, holds[call[r].hold].amount)
    <2>1. call[r].hold \in HoldRefs BY <1>4, CallArguments
    <2>2. holdLock[call[r].hold] = r BY <1>4, <2>1 DEF HoldInv
    <2>3. holds[call[r].hold].account \in Accounts
      BY <1>4, <2>1, <2>2 DEF HoldInv, RowsInv
    <2> QED BY <1>2, <1>3, <1>4, <2>1, <2>2, <2>3 DEF HoldInv
  <1>5. \A h \in HoldRefs : holdLock'[h] = r =>
           holds'[h].status = IF call[r].op = "hold" THEN "none" ELSE "active"
    BY <1>2, <1>3 DEF HoldInv
  <1> QED BY <1>1, <1>2, <1>4, <1>5 DEF HoldInv

\* What session r has checked and locked is still so.
LEMMA OtherSession ==
    ASSUME TypeOK, TypeOK', RowsInv, NEW r \in Sessions, SessionInv(r), Undisturbed(r)
    PROVE  SessionInv(r)'
BY CallKept, AccountKept, ChainKept, HoldKept DEF SessionInv

-----------------------------------------------------------------------------
(* Shapes of steps                                                         *)

\* A step of session s that leaves the others' locals, locks and rows alone
\* has only its own part of the invariant to restore.
LEMMA SessionStep ==
    ASSUME EngineInv, TypeOK', RowsInv', NEW s \in Sessions, pastDue' = pastDue,
           \A p \in Procs \ {s} : Undisturbed(p), SessionInv(s)'
    PROVE  EngineInv'
PROOF
  <1>1. ASSUME NEW r \in Sessions, r # s PROVE SessionInv(r)'
    <2>1. Undisturbed(r) BY <1>1 DEF Procs
    <2> QED BY <2>1, OtherSession DEF EngineInv
  <1>2. SweepInv'
    <2>1. Undisturbed(Sweeper) BY SessionsAssumption DEF Procs
    <2>2. /\ pc'[Sweeper] = pc[Sweeper] /\ call'[Sweeper] = call[Sweeper]
          /\ newId'[Sweeper] = newId[Sweeper] /\ want'[Sweeper] = want[Sweeper]
      BY <2>1 DEF Undisturbed, LocalsKept
    <2>3. \A h \in HoldRefs : holdLock'[h] = Sweeper =>
             holdLock[h] = Sweeper /\ holds'[h] = holds[h]
      BY <2>1 DEF Undisturbed, LocksKept, RowsKept
    <2> QED BY <2>2, <2>3 DEF EngineInv, SweepInv
  <1> QED BY <1>1, <1>2 DEF EngineInv

\* A step that leaves the tables alone leaves everybody's rows alone.
LEMMA QuietRows ==
    ASSUME UNCHANGED tables, UNCHANGED pastDue, NEW p, LocalsKept(p), LocksKept(p)
    PROVE  Undisturbed(p)
BY DEF tables, Undisturbed, RowsKept

LEMMA QuietStep ==
    ASSUME EngineInv, TypeOK', NEW s \in Sessions,
           UNCHANGED tables, UNCHANGED pastDue,
           \A p \in Procs \ {s} : LocalsKept(p) /\ LocksKept(p), SessionInv(s)'
    PROVE  EngineInv'
PROOF
  <1>1. \A p \in Procs \ {s} : Undisturbed(p) BY QuietRows
  <1>2. RowsInv' BY DEF EngineInv, RowsInv, tables
  <1> QED BY <1>1, <1>2, SessionStep

\* Locals assigned for s alone, and a lock taken when free, disturb nobody else.
LEMMA OwnLocals ==
    ASSUME TypeOK, NEW s \in Procs, NEW p \in Procs \ {s},
           \/ pc' = pc \/ \E x : pc' = [pc EXCEPT ![s] = x],
           \/ call' = call \/ \E x : call' = [call EXCEPT ![s] = x],
           \/ want' = want \/ \E x : want' = [want EXCEPT ![s] = x],
           \/ link' = link \/ \E x : link' = [link EXCEPT ![s] = x],
           \/ newId' = newId \/ \E x : newId' = [newId EXCEPT ![s] = x]
    PROVE  LocalsKept(p)
BY DEF TypeOK, LocalsKept

LEMMA NobodyIsNoProcess == Nobody \notin Procs /\ Sweeper \notin Sessions
BY SessionsAssumption DEF Procs

LEMMA OwnLocks ==
    ASSUME TypeOK, NEW s \in Procs, NEW p \in Procs \ {s},
           \/ acctLock' = acctLock
           \/ \E a \in Accounts : acctLock[a] \in {Nobody, s}
                                   /\ acctLock' = [acctLock EXCEPT ![a] = s],
           \/ holdLock' = holdLock
           \/ \E h \in HoldRefs : holdLock[h] = Nobody
                                   /\ holdLock' = [holdLock EXCEPT ![h] = s],
           \/ chainLock' = chainLock
           \/ chainLock = Nobody /\ chainLock' = s
    PROVE  LocksKept(p)
PROOF
  <1> p # Nobody /\ p # s BY NobodyIsNoProcess
  <1> QED BY DEF TypeOK, LocksKept

\* The end of a transaction: its locks are gone and its locals forgotten.
LEMMA TransactionEnds ==
    ASSUME TypeOK, NEW s \in Procs, Unlock(s), Forget(s)
    PROVE  /\ \A p \in Procs \ {s} : LocalsKept(p) /\ LocksKept(p)
           /\ acctLock' \in [Accounts -> Sessions \cup {Nobody}]
           /\ holdLock' \in [HoldRefs -> Procs \cup {Nobody}]
           /\ chainLock' \in Sessions \cup {Nobody}
           /\ pc' \in [Procs -> Labels] /\ DOMAIN call' = Procs
           /\ want' \in [Procs -> SUBSET (Accounts \cup HoldRefs)]
           /\ link' \in [Procs -> Seq(Transfer)] /\ newId' \in [Procs -> Nat]
           /\ \A a \in Accounts : acctLock'[a] # s
           /\ \A h \in HoldRefs : holdLock'[h] # s
           /\ chainLock' # s
PROOF
  <1>0. s # Nobody BY NobodyIsNoProcess
  <1>1. \A p \in Procs \ {s} : LocalsKept(p) BY OwnLocals DEF Forget
  <1>2. ASSUME NEW p \in Procs \ {s} PROVE LocksKept(p)
    <2> p # Nobody /\ p # s BY NobodyIsNoProcess
    <2> QED BY DEF TypeOK, LocksKept, Unlock
  <1>3. /\ acctLock' \in [Accounts -> Sessions \cup {Nobody}]
        /\ holdLock' \in [HoldRefs -> Procs \cup {Nobody}]
        /\ chainLock' \in Sessions \cup {Nobody}
    BY DEF TypeOK, Unlock
  <1>4. NoHash \in Seq(Transfer) BY EmptySeq DEF NoHash
  <1>5. /\ pc' \in [Procs -> Labels] /\ DOMAIN call' = Procs
        /\ want' \in [Procs -> SUBSET (Accounts \cup HoldRefs)]
        /\ link' \in [Procs -> Seq(Transfer)] /\ newId' \in [Procs -> Nat]
    BY <1>4 DEF TypeOK, Forget, Labels
  <1>6. /\ \A a \in Accounts : acctLock'[a] # s
        /\ \A h \in HoldRefs : holdLock'[h] # s
        /\ chainLock' # s
    BY <1>0 DEF TypeOK, Unlock
  <1> QED BY <1>1, <1>2, <1>3, <1>5, <1>6

\* A session that serves no call and owns nothing satisfies its invariant.
LEMMA IdleSession ==
    ASSUME NEW s \in Sessions, pc[s] = "idle", call[s] = NoCall, newId[s] = 0,
           \A a \in Accounts : acctLock[a] # s,
           \A h \in HoldRefs : holdLock[h] # s, chainLock # s
    PROVE  SessionInv(s)
BY DEF SessionInv, CallInv, AccountInv, ChainInv, HoldInv, InChain, Writing, NoCall, Late

\* The same of the state a transaction of s leaves.
LEMMA EndedSession ==
    ASSUME TypeOK, NEW s \in Sessions, Forget(s),
           \A a \in Accounts : acctLock'[a] # s,
           \A h \in HoldRefs : holdLock'[h] # s, chainLock' # s
    PROVE  SessionInv(s)'
PROOF
  <1>1. pc'[s] = "idle" /\ call'[s] = NoCall /\ newId'[s] = 0
    BY DEF Forget, TypeOK, Procs
  <1> QED BY <1>1
        DEF SessionInv, CallInv, AccountInv, ChainInv, HoldInv, InChain, Writing, NoCall, Late

\* A transaction that is refused or aborted changes no row.
LEMMA RollbackStep ==
    ASSUME EngineInv, NEW s \in Sessions, Unlock(s), Forget(s),
           UNCHANGED <<tables, pastDue>>
    PROVE  EngineInv'
PROOF
  <1>0. TypeOK /\ s \in Procs BY DEF EngineInv, Procs
  <1>1. TypeOK' BY <1>0, TransactionEnds DEF TypeOK, tables
  <1>2. SessionInv(s)' BY <1>0, TransactionEnds, EndedSession
  <1> QED BY <1>0, <1>1, <1>2, TransactionEnds, QuietStep

-----------------------------------------------------------------------------
(* Calls begin                                                             *)

LEMMA IdleOwnsNothing ==
    ASSUME NEW s \in Sessions, SessionInv(s), pc[s] = "idle"
    PROVE  /\ \A a \in Accounts : acctLock[a] # s
           /\ \A h \in HoldRefs : holdLock[h] # s
           /\ chainLock # s /\ newId[s] = 0
PROOF
  <1>1. call[s] = NoCall BY DEF SessionInv, CallInv, Late
  <1> QED BY <1>1
        DEF SessionInv, AccountInv, ChainInv, HoldInv, InChain, Writing, NoCall, Late

\* A call that begins owns nothing yet.
LEMMA BeginStep ==
    ASSUME EngineInv, NEW s \in Sessions, NEW op, NEW arg, NEW hold,
           NEW label \in {"lockAccounts", "lockAccount", "lockHold"},
           Begin(s, op, arg, hold, label),
           \/ want' = want /\ label # "lockAccounts"
           \/ \E w \in SUBSET Accounts : want' = [want EXCEPT ![s] = w],
           op = "capture" => label = "lockHold", CallInv(s)'
    PROVE  EngineInv'
PROOF
  <1>0. TypeOK /\ s \in Procs /\ SessionInv(s) BY DEF EngineInv, Procs
  <1>1. /\ pc' = [pc EXCEPT ![s] = label] /\ pc'[s] = label
        /\ call' = [call EXCEPT ![s] = [op |-> op, arg |-> arg, hold |-> hold]]
        /\ call'[s] = [op |-> op, arg |-> arg, hold |-> hold]
        /\ UNCHANGED <<tables, locks, link, newId, pastDue>>
    BY <1>0 DEF Begin, Goto, TypeOK
  <1>2. /\ \A a \in Accounts : acctLock[a] # s
        /\ \A h \in HoldRefs : holdLock[h] # s
        /\ chainLock # s /\ newId[s] = 0
    BY <1>0, IdleOwnsNothing DEF Begin
  <1>3. TypeOK'
    <2>1. pc' \in [Procs -> Labels] /\ DOMAIN call' = Procs
      BY <1>0, <1>1 DEF TypeOK, Labels
    <2>2. want' \in [Procs -> SUBSET (Accounts \cup HoldRefs)] BY <1>0 DEF TypeOK
    <2> QED BY <1>0, <1>1, <2>1, <2>2 DEF TypeOK, tables, locks
  <1>4. AccountInv(s)'
    <2>1. label = "lockAccounts" => want'[s] \subseteq Accounts BY <1>0 DEF TypeOK
    <2> QED BY <1>1, <1>2, <2>1 DEF AccountInv, locks, Late, CallInv, Writing, NoCall
  <1>5. ChainInv(s)' BY <1>1, <1>2 DEF ChainInv, InChain, Writing, Late, locks
  <1>6. HoldInv(s)' BY <1>1, <1>2 DEF HoldInv, Late, locks, CallInv, NoCall
  <1>7. \A p \in Procs \ {s} : LocalsKept(p) BY <1>0, <1>1, OwnLocals
  <1>8. \A p \in Procs \ {s} : LocksKept(p) BY <1>1 DEF LocksKept, locks
  <1> QED BY <1>1, <1>3, <1>4, <1>5, <1>6, <1>7, <1>8, QuietStep DEF SessionInv

LEMMA CallStep ==
    ASSUME EngineInv, NEW s \in Sessions, CallAny(s)
    PROVE  EngineInv'
PROOF
  <1>0. TypeOK /\ s \in Procs /\ DOMAIN call = Procs /\ pc \in [Procs -> Labels]
    BY DEF EngineInv, Procs, TypeOK
  <1>1. ASSUME NEW t \in Requests, CallPost(s, t) PROVE EngineInv'
    <2>1. /\ Begin(s, "post", t, 0, "lockAccounts") /\ Validate(t)
          /\ want' = [want EXCEPT ![s] = Existing(t)]
      BY <1>1 DEF CallPost
    <2>2. CallInv(s)' BY <1>0, <2>1 DEF CallInv, Begin, Goto, tables
    <2>3. \E w \in SUBSET Accounts : want' = [want EXCEPT ![s] = w]
      BY <2>1 DEF Existing
    <2> QED BY <2>1, <2>2, <2>3, BeginStep
  <1>2. ASSUME NEW k \in DOMAIN transfers, NEW ref \in ReversalRefs, CallReverse(s, k, ref)
        PROVE  EngineInv'
    <2> DEFINE t == Reversal(transfers[k], k, ref)
    <2>1. /\ Begin(s, "post", t, 0, "lockAccounts") /\ Validate(t)
          /\ want' = [want EXCEPT ![s] = Existing(t)]
      BY <1>2 DEF CallReverse
    <2>2. CallInv(s)' BY <1>0, <2>1 DEF CallInv, Begin, Goto, tables
    <2>3. \E w \in SUBSET Accounts : want' = [want EXCEPT ![s] = w]
      BY <2>1 DEF Existing
    <2> HIDE DEF t
    <2> QED BY <2>1, <2>2, <2>3, BeginStep
  <1>3. ASSUME NEW r \in HoldRequests, CallHold(s, r) PROVE EngineInv'
    <2>1. /\ Begin(s, "hold", r, r.reference, "lockAccount")
          /\ r.reference # 0 /\ r.amount > 0 /\ want' = want
      BY <1>3 DEF CallHold
    <2>2. CallInv(s)' BY <1>0, <2>1 DEF CallInv, Begin, Goto, tables
    <2> QED BY <2>1, <2>2, BeginStep
  <1>4. ASSUME NEW c \in CaptureRequests, CallCapture(s, c[1], c[2]) PROVE EngineInv'
    <2>1. /\ Begin(s, "capture", c[2], c[1], "lockHold")
          /\ Validate(c[2]) /\ want' = want
      BY <1>4 DEF CallCapture
    <2>2. <<c[1], c[2]>> \in CaptureRequests BY RequestsAssumption
    <2>3. CallInv(s)' BY <1>0, <2>1, <2>2 DEF CallInv, Begin, Goto, tables
    <2> QED BY <2>1, <2>3, BeginStep
  <1>5. ASSUME NEW h \in HoldRefs, CallRelease(s, h) PROVE EngineInv'
    <2>1. Begin(s, "release", << >>, h, "lockHold") /\ want' = want
      BY <1>5 DEF CallRelease
    <2>2. CallInv(s)' BY <1>0, <2>1 DEF CallInv, Begin, Goto, tables
    <2> QED BY <2>1, <2>2, BeginStep
  <1> QED BY <1>1, <1>2, <1>3, <1>4, <1>5 DEF CallAny

-----------------------------------------------------------------------------
(* post, statement by statement                                            *)

\* The smallest element of a non-empty set of account ids.
LEMMA SmallestElement ==
    ASSUME NEW S \in SUBSET Accounts, S # {}
    PROVE  MinOf(S) \in S /\ \A b \in S : MinOf(S) =< b
PROOF
  <1> DEFINE I == {n \in Nat : (\E a \in S : a =< n) => \E a \in S : \A b \in S : a =< b}
  <1>1. S \subseteq Nat \ {0} BY BoundsAssumption DEF Accounts
  <1>2. 0 \in I BY <1>1
  <1>3. ASSUME NEW n \in Nat, n \in I PROVE n + 1 \in I
    <2>1. CASE \E a \in S : a =< n BY <1>3, <2>1
    <2>2. CASE ~ \E a \in S : a =< n
      <3> \A a \in S : a >= n + 1 BY <1>1, <2>2
      <3> QED BY <1>1
    <2> QED BY <2>1, <2>2
  <1>4. Nat \subseteq I
    <2> HIDE DEF I
    <2> QED BY <1>2, <1>3, NatSetInduction
  <1>5. \E a \in S : \A b \in S : a =< b
    <2>1. PICK x \in S : TRUE OBVIOUS
    <2>2. x \in Nat /\ x \in I BY <1>1, <1>4
    <2>3. \E a \in S : a =< x BY <2>2
    <2> QED BY <2>2, <2>3
  <1> QED BY <1>5 DEF MinOf

LEMMA LockAccountsStep ==
    ASSUME EngineInv, NEW s \in Sessions, LockAccounts(s)
    PROVE  EngineInv'
PROOF
  <1>0. TypeOK /\ s \in Procs /\ SessionInv(s) BY DEF EngineInv, Procs
  <1>1. want[s] \in SUBSET Accounts /\ want[s] # {}
    BY <1>0 DEF LockAccounts, SessionInv, AccountInv
  <1> DEFINE m == MinOf(want[s])
  <1>2. m \in want[s] /\ m \in Accounts /\ \A b \in want[s] : m =< b
    BY <1>1, SmallestElement
  <1>3. /\ acctLock[m] \in {Nobody, s}
        /\ acctLock' = [acctLock EXCEPT ![m] = s]
        /\ want' = [want EXCEPT ![s] = want[s] \ {m}]
        /\ pc[s] = "lockAccounts"
        /\ UNCHANGED <<tables, holdLock, chainLock, pc, call, link, newId, pastDue>>
    BY DEF LockAccounts
  <1> HIDE DEF m
  <1>4. want'[s] = want[s] \ {m} /\ acctLock'[m] = s
        /\ \A a \in Accounts : a # m => acctLock'[a] = acctLock[a]
    BY <1>0, <1>2, <1>3 DEF TypeOK
  <1>5. TypeOK' BY <1>0, <1>1, <1>3 DEF TypeOK, tables
  <1>6. Writing(s) BY <1>0, <1>3 DEF SessionInv, CallInv, Writing, Late
  <1>7. CallInv(s)' BY <1>0, <1>3 DEF SessionInv, CallInv, tables
  <1>8. AccountInv(s)'
    <2>1. \A w \in want[s] \ {m} : m < w
      BY <1>1, <1>2, BoundsAssumption DEF Accounts
    <2>2. call'[s] = call[s] /\ pc'[s] = "lockAccounts" /\ holds' = holds
      BY <1>3 DEF tables
    <2>3. Writing(s)' BY <1>6, <2>2 DEF Writing
    <2>4. ASSUME NEW a \in Accounts, acctLock'[a] = s
          PROVE  \/ call[s].op = "capture" /\ a = holds[call[s].hold].account
                 \/ \A w \in want[s] \ {m} : a < w
      BY <1>0, <1>3, <1>4, <2>1, <2>4 DEF SessionInv, AccountInv
    <2> QED BY <1>1, <1>4, <2>2, <2>3, <2>4 DEF AccountInv, Writing, Late
  <1>9. ChainInv(s)' BY <1>0, <1>3 DEF SessionInv, ChainInv, InChain, Writing, Late
  <1>10. HoldInv(s)'
    <2>1. call'[s] = call[s] /\ pc'[s] = pc[s] /\ holds' = holds /\ holdLock' = holdLock
      BY <1>3 DEF tables
    <2>2. \A a \in Accounts : acctLock[a] = s => acctLock'[a] = s BY <1>4
    <2>3. ASSUME call[s].op = "capture"
          PROVE  holds[call[s].hold].account \in Accounts
      <3>1. call[s].hold \in HoldRefs BY <1>0, <2>3, CallArguments DEF SessionInv
      <3>2. holds[call[s].hold].status = "active"
        BY <1>0, <1>3, <2>3, <3>1 DEF SessionInv, HoldInv
      <3> QED BY <3>1, <3>2 DEF EngineInv, RowsInv
    <2> QED BY <1>0, <2>1, <2>2, <2>3 DEF SessionInv, HoldInv
  <1>11. \A p \in Procs \ {s} : LocalsKept(p) /\ LocksKept(p)
    BY <1>0, <1>2, <1>3, OwnLocals, OwnLocks
  <1> QED BY <1>3, <1>5, <1>7, <1>8, <1>9, <1>10, <1>11, QuietStep DEF SessionInv

LEMMA CheckAccountsStep ==
    ASSUME EngineInv, NEW s \in Sessions, CheckAccounts(s)
    PROVE  EngineInv'
PROOF
  <1>0. TypeOK /\ s \in Procs /\ SessionInv(s) BY DEF EngineInv, Procs
  <1> DEFINE t == call[s].arg
             ok == /\ \A a \in Touched(t) : a \in Accounts /\ acctLock[a] = s
                   /\ AccountsAccept(accounts, t)
  <1>1. ASSUME ~ ok PROVE EngineInv'
    <2> Refuse(s, "unknown account, archived account or currency mismatch")
      BY <1>1 DEF CheckAccounts
    <2> QED BY RollbackStep DEF Refuse
  <1>2. ASSUME ok PROVE EngineInv'
    <2>1. /\ pc[s] = "lockAccounts" /\ pc' = [pc EXCEPT ![s] = "lockChain"]
          /\ UNCHANGED <<tables, locks, call, want, link, newId, pastDue>>
      BY <1>2 DEF CheckAccounts, Goto
    <2>2. pc'[s] = "lockChain" BY <1>0, <2>1 DEF TypeOK
    <2>3. TypeOK' BY <1>0, <2>1 DEF TypeOK, tables, locks, Labels
    <2>4. Writing(s) BY <1>0, <2>1 DEF SessionInv, CallInv, Writing, Late
    <2>5. CallInv(s)'
      BY <1>0, <2>1, <2>2 DEF SessionInv, CallInv, tables, Late
    <2>6. AccountInv(s)'
      BY <1>0, <1>2, <2>1, <2>2, <2>4 DEF SessionInv, AccountInv, tables, locks, Writing, Late
    <2>7. ChainInv(s)'
      BY <1>0, <2>1, <2>2 DEF SessionInv, ChainInv, InChain, Writing, Late, locks
    <2>8. HoldInv(s)'
      BY <1>0, <2>1, <2>2 DEF SessionInv, HoldInv, Late, tables, locks
    <2>9. \A p \in Procs \ {s} : LocalsKept(p) /\ LocksKept(p)
      <3>1. \A p \in Procs \ {s} : LocalsKept(p) BY <1>0, <2>1, OwnLocals
      <3> QED BY <2>1, <3>1 DEF LocksKept, locks
    <2> QED BY <2>1, <2>3, <2>5, <2>6, <2>7, <2>8, <2>9, QuietStep DEF SessionInv
  <1> QED BY <1>1, <1>2

LEMMA LockChainStep ==
    ASSUME EngineInv, NEW s \in Sessions, LockChain(s)
    PROVE  EngineInv'
PROOF
  <1>0. TypeOK /\ s \in Procs /\ SessionInv(s) BY DEF EngineInv, Procs
  <1>1. /\ pc[s] = "lockChain" /\ pc' = [pc EXCEPT ![s] = "readTail"]
        /\ chainLock = Nobody /\ chainLock' = s
        /\ UNCHANGED <<tables, acctLock, holdLock, call, want, link, newId, pastDue>>
    BY DEF LockChain, Goto
  <1>2. pc'[s] = "readTail" BY <1>0, <1>1 DEF TypeOK
  <1>3. TypeOK' BY <1>0, <1>1 DEF TypeOK, tables, Labels
  <1>4. Writing(s) BY <1>0, <1>1 DEF SessionInv, CallInv, Writing, Late
  <1>5. CallInv(s)' BY <1>0, <1>1, <1>2 DEF SessionInv, CallInv, tables, Late
  <1>6. AccountInv(s)'
    BY <1>0, <1>1, <1>2, <1>4 DEF SessionInv, AccountInv, tables, Writing, Late
  <1>7. ChainInv(s)'
    BY <1>0, <1>1, <1>2, <1>4 DEF SessionInv, ChainInv, InChain, Writing, Late
  <1>8. HoldInv(s)' BY <1>0, <1>1, <1>2 DEF SessionInv, HoldInv, Late, tables
  <1>9. \A p \in Procs \ {s} : LocalsKept(p) /\ LocksKept(p)
    BY <1>0, <1>1, OwnLocals, OwnLocks
  <1> QED BY <1>1, <1>3, <1>5, <1>6, <1>7, <1>8, <1>9, QuietStep DEF SessionInv

\* The largest id is the number of rows.
LEMMA TailIsLast ==
    ASSUME TypeOK
    PROVE  /\ DOMAIN transfers = 1 .. Len(transfers) /\ Len(transfers) \in Nat
           /\ MaxId = Len(transfers)
           /\ (IF MaxId = 0 THEN NoHash ELSE transfers[MaxId].hash) = TailHash
           /\ TailHash \in Seq(Transfer)
PROOF
  <1>1. transfers \in Seq(RowType) BY DEF TypeOK
  <1>2. DOMAIN transfers = 1 .. Len(transfers) /\ Len(transfers) \in Nat
    BY <1>1, LenProperties
  <1>3. MaxId = Len(transfers)
    <2>1. CASE Len(transfers) = 0 BY <1>2, <2>1 DEF MaxId
    <2>2. CASE Len(transfers) # 0
      <3>1. Len(transfers) \in DOMAIN transfers /\ DOMAIN transfers # {} BY <1>2, <2>2
      <3>2. \A j \in DOMAIN transfers : j =< Len(transfers) BY <1>2
      <3>3. \A k \in DOMAIN transfers :
               (\A j \in DOMAIN transfers : j =< k) => k = Len(transfers)
        BY <1>2, <3>1
      <3> QED BY <3>1, <3>2, <3>3 DEF MaxId
    <2> QED BY <2>1, <2>2
  <1>4. transfers = << >> <=> Len(transfers) = 0 BY <1>1, EmptySeq
  <1>5. TailHash \in Seq(Transfer)
    <2>1. CASE transfers = << >> BY <2>1, EmptySeq DEF TailHash, NoHash
    <2>2. CASE transfers # << >>
      <3> Len(transfers) \in 1 .. Len(transfers) BY <1>2, <1>4, <2>2
      <3> transfers[Len(transfers)] \in RowType BY <1>1, ElementOfSeq
      <3> QED BY <2>2 DEF TailHash, RowType
    <2> QED BY <2>1, <2>2
  <1> QED BY <1>2, <1>3, <1>4, <1>5 DEF TailHash

LEMMA ReadTailStep ==
    ASSUME EngineInv, NEW s \in Sessions, ReadTail(s)
    PROVE  EngineInv'
PROOF
  <1>0. TypeOK /\ s \in Procs /\ SessionInv(s) BY DEF EngineInv, Procs
  <1>1. /\ pc[s] = "readTail" /\ pc' = [pc EXCEPT ![s] = "insert"]
        /\ link' = [link EXCEPT ![s] = TailHash]
        /\ UNCHANGED <<tables, locks, call, want, newId, pastDue>>
    BY <1>0, TailIsLast DEF ReadTail, Goto
  <1>2. pc'[s] = "insert" /\ link'[s] = TailHash /\ TailHash' = TailHash
    BY <1>0, <1>1 DEF TypeOK, TailHash, tables
  <1>3. TypeOK'
    <2>1. link' \in [Procs -> Seq(Transfer)] BY <1>0, <1>1, TailIsLast DEF TypeOK
    <2> QED BY <1>0, <1>1, <2>1 DEF TypeOK, tables, locks, Labels
  <1>4. Writing(s) BY <1>0, <1>1 DEF SessionInv, CallInv, Writing, Late
  <1>5. CallInv(s)' BY <1>0, <1>1, <1>2 DEF SessionInv, CallInv, tables, Late
  <1>6. AccountInv(s)'
    BY <1>0, <1>1, <1>2, <1>4 DEF SessionInv, AccountInv, tables, locks, Writing, Late
  <1>7. ChainInv(s)'
    BY <1>0, <1>1, <1>2, <1>4 DEF SessionInv, ChainInv, InChain, Writing, Late, locks
  <1>8. HoldInv(s)' BY <1>0, <1>1, <1>2 DEF SessionInv, HoldInv, Late, tables, locks
  <1>9. \A p \in Procs \ {s} : LocalsKept(p) /\ LocksKept(p)
    <2>1. \A p \in Procs \ {s} : LocalsKept(p) BY <1>0, <1>1, OwnLocals
    <2> QED BY <1>1, <2>1 DEF LocksKept, locks
  <1> QED BY <1>1, <1>3, <1>5, <1>6, <1>7, <1>8, <1>9, QuietStep DEF SessionInv

\* Only the owner of the chain lock has an id, so the next one is free.
LEMMA IdIsNext ==
    ASSUME EngineInv, NEW s \in Sessions, pc[s] = "insert"
    PROVE  FreshId = Len(transfers) + 1
PROOF
  <1>0. TypeOK /\ SessionInv(s) BY DEF EngineInv
  <1>1. InChain(s) /\ chainLock = s
    BY <1>0 DEF SessionInv, CallInv, ChainInv, InChain, Writing, Late
  <1>2. ASSUME NEW p \in Procs PROVE newId[p] = 0
    <2>1. CASE p = Sweeper BY <2>1 DEF EngineInv, SweepInv
    <2>2. CASE p \in Sessions
      <3>1. ChainInv(p) BY <2>2 DEF EngineInv, SessionInv
      <3> QED BY <1>1, <3>1 DEF ChainInv
    <2> QED BY <2>1, <2>2 DEF Procs
  <1> DEFINE used == DOMAIN transfers \cup {newId[p] : p \in Procs} \cup {0}
             n == Len(transfers)
  <1>3. used = 0 .. n /\ n \in Nat BY <1>0, <1>2, TailIsLast
  <1>4. n \in used /\ \A j \in used : j =< n BY <1>3
  <1>5. ASSUME NEW k \in used, \A j \in used : j =< k PROVE k = n
    <2>1. k \in 0 .. n /\ n =< k /\ n \in Nat BY <1>3, <1>4, <1>5
    <2> QED BY <2>1
  <1>6. FreshId = 1 + CHOOSE k \in used : \A j \in used : j =< k BY DEF FreshId
  <1> HIDE DEF used, n
  <1>7. (CHOOSE k \in used : \A j \in used : j =< k) = n BY <1>4, <1>5
  <1> QED BY <1>3, <1>6, <1>7 DEF n

LEMMA InsertStep ==
    ASSUME EngineInv, NEW s \in Sessions, Insert(s)
    PROVE  EngineInv'
PROOF
  <1>0. TypeOK /\ s \in Procs /\ SessionInv(s) BY DEF EngineInv, Procs
  <1>1. ASSUME ~ Unused(transfers, call[s].arg) PROVE EngineInv'
    BY <1>1, RollbackStep DEF Insert, Refuse
  <1>2. ASSUME Unused(transfers, call[s].arg) PROVE EngineInv'
    <2>1. /\ pc[s] = "insert" /\ pc' = [pc EXCEPT ![s] = "guard"]
          /\ newId' = [newId EXCEPT ![s] = Len(transfers) + 1]
          /\ UNCHANGED <<tables, locks, call, want, link, pastDue>>
      BY <1>2, IdIsNext DEF Insert, Goto
    <2>2. pc'[s] = "guard" /\ newId'[s] = Len(transfers) + 1 /\ TailHash' = TailHash
      BY <1>0, <2>1 DEF TypeOK, TailHash, tables
    <2>3. TypeOK'
      <3>1. newId' \in [Procs -> Nat] BY <1>0, <2>1, TailIsLast DEF TypeOK
      <3> QED BY <1>0, <2>1, <3>1 DEF TypeOK, tables, locks, Labels
    <2>4. Writing(s) BY <1>0, <2>1 DEF SessionInv, CallInv, Writing, Late
    <2>5. CallInv(s)' BY <1>0, <2>1, <2>2 DEF SessionInv, CallInv, tables, Late
    <2>6. AccountInv(s)'
      BY <1>0, <2>1, <2>2, <2>4 DEF SessionInv, AccountInv, tables, locks, Writing, Late
    <2>7. ChainInv(s)'
      BY <1>0, <1>2, <2>1, <2>2, <2>4
      DEF SessionInv, ChainInv, InChain, Writing, Late, tables, locks
    <2>8. HoldInv(s)' BY <1>0, <2>1, <2>2 DEF SessionInv, HoldInv, Late, tables, locks
    <2>9. \A p \in Procs \ {s} : LocalsKept(p) /\ LocksKept(p)
      <3>1. \A p \in Procs \ {s} : LocalsKept(p) BY <1>0, <2>1, OwnLocals
      <3> QED BY <2>1, <3>1 DEF LocksKept, locks
    <2> QED BY <2>1, <2>3, <2>5, <2>6, <2>7, <2>8, <2>9, QuietStep DEF SessionInv
  <1> QED BY <1>1, <1>2

LEMMA GuardStep ==
    ASSUME EngineInv, NEW s \in Sessions, Guard(s)
    PROVE  EngineInv'
PROOF
  <1>0. TypeOK /\ s \in Procs /\ SessionInv(s) BY DEF EngineInv, Procs
  <1> DEFINE ok == Covered(balances, holds, call[s].arg, call[s].hold)
  <1>1. ASSUME ~ ok PROVE EngineInv'
    BY <1>1, RollbackStep DEF Guard, Refuse
  <1>2. ASSUME ok PROVE EngineInv'
    <2>1. /\ pc[s] = "guard" /\ pc' = [pc EXCEPT ![s] = "commit"]
          /\ UNCHANGED <<tables, locks, call, want, link, newId, pastDue>>
      BY <1>2 DEF Guard, Goto
    <2>2. pc'[s] = "commit" /\ TailHash' = TailHash
      BY <1>0, <2>1 DEF TypeOK, TailHash, tables
    <2>3. TypeOK' BY <1>0, <2>1 DEF TypeOK, tables, locks, Labels
    <2>4. Writing(s) BY <1>0, <2>1 DEF SessionInv, CallInv, Writing, Late
    <2>5. CallInv(s)' BY <1>0, <2>1, <2>2 DEF SessionInv, CallInv, tables, Late
    <2>6. AccountInv(s)'
      BY <1>0, <2>1, <2>2, <2>4 DEF SessionInv, AccountInv, tables, locks, Writing, Late
    <2>7. ChainInv(s)'
      BY <1>0, <1>2, <2>1, <2>2, <2>4
      DEF SessionInv, ChainInv, InChain, Writing, Late, tables, locks
    <2>8. HoldInv(s)'
      BY <1>0, <2>1, <2>2, <2>4 DEF SessionInv, HoldInv, Writing, Late, tables, locks
    <2>9. \A p \in Procs \ {s} : LocalsKept(p) /\ LocksKept(p)
      <3>1. \A p \in Procs \ {s} : LocalsKept(p) BY <1>0, <2>1, OwnLocals
      <3> QED BY <2>1, <3>1 DEF LocksKept, locks
    <2> QED BY <2>1, <2>3, <2>5, <2>6, <2>7, <2>8, <2>9, QuietStep DEF SessionInv
  <1> QED BY <1>1, <1>2

-----------------------------------------------------------------------------
(* Hold, Capture and Release, statement by statement                       *)

LEMMA LockAccountStep ==
    ASSUME EngineInv, NEW s \in Sessions, LockAccount(s)
    PROVE  EngineInv'
PROOF
  <1>0. TypeOK /\ s \in Procs /\ SessionInv(s) BY DEF EngineInv, Procs
  <1> DEFINE m == call[s].arg.account
             unknown == m \notin Accounts \/ (m \in Accounts /\ accounts[m] = "none")
  <1>1. ASSUME unknown PROVE EngineInv'
    BY <1>1, RollbackStep DEF LockAccount, Refuse
  <1>2. ASSUME ~ unknown PROVE EngineInv'
    <2>1. /\ pc[s] = "lockAccount" /\ pc' = [pc EXCEPT ![s] = "checkHold"]
          /\ m \in Accounts /\ acctLock[m] = Nobody
          /\ acctLock' = [acctLock EXCEPT ![m] = s]
          /\ UNCHANGED <<tables, holdLock, chainLock, call, want, link, newId, pastDue>>
      BY <1>2 DEF LockAccount, Goto
    <2> HIDE DEF m
    <2>2. /\ pc'[s] = "checkHold" /\ acctLock'[m] = s
          /\ \A a \in Accounts : a # m => acctLock'[a] = acctLock[a]
      BY <1>0, <2>1 DEF TypeOK
    <2>3. TypeOK' BY <1>0, <2>1 DEF TypeOK, tables, Labels
    <2>4. call[s].op = "hold" BY <1>0, <2>1 DEF SessionInv, CallInv, Late
    <2>5. CallInv(s)' BY <1>0, <2>1, <2>2, <2>4 DEF SessionInv, CallInv
    <2>6. AccountInv(s)'
      BY <1>0, <2>1, <2>2, <2>4 DEF SessionInv, AccountInv, Writing, m
    <2>7. ChainInv(s)'
      BY <1>0, <2>1, <2>2, <2>4 DEF SessionInv, ChainInv, InChain, Writing
    <2>8. HoldInv(s)' BY <1>0, <2>1, <2>2, <2>4 DEF SessionInv, HoldInv, tables
    <2>9. \A p \in Procs \ {s} : LocalsKept(p) /\ LocksKept(p)
      BY <1>0, <2>1, OwnLocals, OwnLocks
    <2> QED BY <2>1, <2>3, <2>5, <2>6, <2>7, <2>8, <2>9, QuietStep DEF SessionInv
  <1> QED BY <1>1, <1>2

LEMMA CheckHoldStep ==
    ASSUME EngineInv, NEW s \in Sessions, CheckHold(s)
    PROVE  EngineInv'
PROOF
  <1>0. TypeOK /\ s \in Procs /\ SessionInv(s) BY DEF EngineInv, Procs
  <1> DEFINE r == call[s].arg
             ok == /\ accounts[r.account] = "open"
                   /\ Chart[r.account].currency = r.currency
                   /\ ~ Chart[r.account].allowNegative
                        => AvailableLocked(balances, holds, r.account, 0) >= r.amount
  <1>1. ASSUME ~ ok PROVE EngineInv'
    BY <1>1, RollbackStep DEF CheckHold, Refuse
  <1>2. ASSUME ok PROVE EngineInv'
    <2>1. /\ pc[s] = "checkHold" /\ pc' = [pc EXCEPT ![s] = "insertHold"]
          /\ UNCHANGED <<tables, locks, call, want, link, newId, pastDue>>
      BY <1>2 DEF CheckHold, Goto
    <2>2. pc'[s] = "insertHold" BY <1>0, <2>1 DEF TypeOK
    <2>3. TypeOK' BY <1>0, <2>1 DEF TypeOK, tables, locks, Labels
    <2>4. call[s].op = "hold" BY <1>0, <2>1 DEF SessionInv, CallInv, Late
    <2>5. CallInv(s)' BY <1>0, <2>1, <2>2, <2>4 DEF SessionInv, CallInv
    <2>6. AccountInv(s)'
      BY <1>0, <1>2, <2>1, <2>2, <2>4 DEF SessionInv, AccountInv, Writing, tables, locks
    <2>7. ChainInv(s)'
      BY <1>0, <2>1, <2>2, <2>4 DEF SessionInv, ChainInv, InChain, Writing, locks
    <2>8. HoldInv(s)' BY <1>0, <2>1, <2>2, <2>4 DEF SessionInv, HoldInv, tables, locks
    <2>9. \A p \in Procs \ {s} : LocalsKept(p) /\ LocksKept(p)
      <3>1. \A p \in Procs \ {s} : LocalsKept(p) BY <1>0, <2>1, OwnLocals
      <3> QED BY <2>1, <3>1 DEF LocksKept, locks
    <2> QED BY <2>1, <2>3, <2>5, <2>6, <2>7, <2>8, <2>9, QuietStep DEF SessionInv
  <1> QED BY <1>1, <1>2

LEMMA InsertHoldStep ==
    ASSUME EngineInv, NEW s \in Sessions, InsertHold(s)
    PROVE  EngineInv'
PROOF
  <1>0. TypeOK /\ s \in Procs /\ SessionInv(s) BY DEF EngineInv, Procs
  <1> DEFINE g == call[s].hold
  <1>1. ASSUME holds[g].status # "none" PROVE EngineInv'
    BY <1>1, RollbackStep DEF InsertHold, Refuse
  <1>2. ASSUME holds[g].status = "none" PROVE EngineInv'
    <2>1. /\ pc[s] = "insertHold" /\ pc' = [pc EXCEPT ![s] = "commit"]
          /\ holdLock[g] = Nobody /\ holdLock' = [holdLock EXCEPT ![g] = s]
          /\ UNCHANGED <<tables, acctLock, chainLock, call, want, link, newId, pastDue>>
      BY <1>2 DEF InsertHold, Goto
    <2>2. call[s].op = "hold" BY <1>0, <2>1 DEF SessionInv, CallInv, Late
    <2>3. g \in HoldRefs BY <1>0, <2>2, CallArguments DEF SessionInv
    <2> HIDE DEF g
    <2>4. /\ pc'[s] = "commit" /\ holdLock'[g] = s
          /\ \A h \in HoldRefs : h # g => holdLock'[h] = holdLock[h]
      BY <1>0, <2>1, <2>3 DEF TypeOK
    <2>5. TypeOK' BY <1>0, <2>1 DEF TypeOK, tables, Labels
    <2>6. CallInv(s)' BY <1>0, <2>1, <2>2, <2>4 DEF SessionInv, CallInv
    <2>7. AccountInv(s)'
      BY <1>0, <2>1, <2>2, <2>4 DEF SessionInv, AccountInv, Writing, tables
    <2>8. ChainInv(s)'
      BY <1>0, <2>1, <2>2, <2>4 DEF SessionInv, ChainInv, InChain, Writing
    <2>9. HoldInv(s)'
      BY <1>0, <1>2, <2>1, <2>2, <2>4 DEF SessionInv, HoldInv, tables, g
    <2>10. \A p \in Procs \ {s} : LocalsKept(p) /\ LocksKept(p)
      BY <1>0, <2>1, <2>3, OwnLocals, OwnLocks
    <2> QED BY <2>1, <2>5, <2>6, <2>7, <2>8, <2>9, <2>10, QuietStep DEF SessionInv
  <1> QED BY <1>1, <1>2

LEMMA LockHoldStep ==
    ASSUME EngineInv, NEW s \in Sessions, LockHold(s)
    PROVE  EngineInv'
PROOF
  <1>0. TypeOK /\ s \in Procs /\ SessionInv(s) BY DEF EngineInv, Procs
  <1> DEFINE g == call[s].hold
             late == call[s].op = "capture" /\ g \in pastDue["app"]
  <1>1. pc[s] = "lockHold" BY DEF LockHold
  <1>2. call[s].op \in {"capture", "release"}
    BY <1>0, <1>1 DEF SessionInv, CallInv, Late
  <1>3. g \in HoldRefs
    <2>1. call[s].op = "release" => g \in HoldRefs
      BY <1>0 DEF SessionInv, CallInv, NoCall
    <2> QED BY <1>0, <1>2, <2>1, CallArguments DEF SessionInv
  <1>4. \A a \in Accounts : acctLock[a] # s
    BY <1>0, <1>1, <1>2 DEF SessionInv, AccountInv, Writing, Late
  <1>5. CASE Refuse(s, "unknown hold") \/ Refuse(s, "hold not active")
    BY <1>5, RollbackStep DEF Refuse
  <1>6. CASE /\ holds[g].status = "active" /\ holdLock[g] = Nobody /\ late
             /\ Goto(s, "markExpired")
             /\ UNCHANGED <<tables, locks, call, want, link, newId, pastDue>>
    <2>1. pc' = [pc EXCEPT ![s] = "markExpired"] /\ pc'[s] = "markExpired"
      BY <1>0, <1>6 DEF Goto, TypeOK
    <2>2. TypeOK' BY <1>0, <1>6, <2>1 DEF TypeOK, tables, locks, Labels
    <2>3. CallInv(s)' BY <1>0, <1>1, <1>6, <2>1 DEF SessionInv, CallInv, Late
    <2>4. AccountInv(s)'
      BY <1>0, <1>2, <1>4, <1>6, <2>1 DEF AccountInv, Writing, Late, locks, SessionInv
    <2>5. ChainInv(s)'
      BY <1>0, <1>1, <1>6, <2>1 DEF SessionInv, ChainInv, InChain, Writing, Late, locks
    <2>6. HoldInv(s)'
      BY <1>0, <1>1, <1>2, <1>6, <2>1 DEF SessionInv, HoldInv, Late, locks
    <2>7. \A p \in Procs \ {s} : LocalsKept(p) /\ LocksKept(p)
      <3>1. \A p \in Procs \ {s} : LocalsKept(p) BY <1>0, <1>6, <2>1, OwnLocals
      <3> QED BY <1>6, <3>1 DEF LocksKept, locks
    <2> QED BY <1>6, <2>2, <2>3, <2>4, <2>5, <2>6, <2>7, QuietStep DEF SessionInv
  <1>7. CASE /\ holds[g].status = "active" /\ holdLock[g] = Nobody /\ ~ late
             /\ holdLock' = [holdLock EXCEPT ![g] = s]
             /\ Goto(s, IF call[s].op = "capture" THEN "lockHeld" ELSE "commit")
             /\ UNCHANGED <<tables, acctLock, chainLock, call, want, link, newId, pastDue>>
    <2> DEFINE next == IF call[s].op = "capture" THEN "lockHeld" ELSE "commit"
    <2>1. pc' = [pc EXCEPT ![s] = next] /\ pc'[s] = next
      BY <1>0, <1>7 DEF Goto, TypeOK
    <2>2. holdLock'[g] = s /\ \A h \in HoldRefs : h # g => holdLock'[h] = holdLock[h]
      BY <1>0, <1>3, <1>7 DEF TypeOK
    <2>3. TypeOK' BY <1>0, <1>7, <2>1 DEF TypeOK, tables, Labels
    <2>4. CallInv(s)'
      BY <1>0, <1>1, <1>2, <1>3, <1>7, <2>1 DEF SessionInv, CallInv, Late
    <2>5. AccountInv(s)'
      BY <1>0, <1>2, <1>4, <1>7, <2>1 DEF AccountInv, Writing, Late, SessionInv
    <2>6. ChainInv(s)'
      BY <1>0, <1>1, <1>2, <1>7, <2>1 DEF SessionInv, ChainInv, InChain, Writing, Late
    <2>7. HoldInv(s)'
      BY <1>0, <1>1, <1>2, <1>7, <2>1, <2>2 DEF SessionInv, HoldInv, Late, tables
    <2>8. \A p \in Procs \ {s} : LocalsKept(p) /\ LocksKept(p)
      BY <1>0, <1>3, <1>7, <2>1, OwnLocals, OwnLocks
    <2> QED BY <1>7, <2>3, <2>4, <2>5, <2>6, <2>7, <2>8, QuietStep DEF SessionInv
  <1> QED BY <1>5, <1>6, <1>7 DEF LockHold

LEMMA LockHeldStep ==
    ASSUME EngineInv, NEW s \in Sessions, LockHeld(s)
    PROVE  EngineInv'
PROOF
  <1>0. TypeOK /\ s \in Procs /\ SessionInv(s) BY DEF EngineInv, Procs
  <1> DEFINE g == call[s].hold
             m == holds[g].account
             t == call[s].arg
             ok == Draws(t, m, holds[g].amount)
  <1>1. pc[s] = "lockHeld" /\ acctLock[m] = Nobody BY DEF LockHeld
  <1>2. call[s].op = "capture" BY <1>0, <1>1 DEF SessionInv, CallInv, Late
  <1>3. g \in HoldRefs BY <1>0, <1>2, CallArguments DEF SessionInv
  <1>4. holdLock[g] = s /\ holds[g].status = "active"
    BY <1>0, <1>1, <1>2, <1>3 DEF SessionInv, HoldInv
  <1>5. m \in Accounts BY <1>3, <1>4 DEF EngineInv, RowsInv
  <1>6. \A a \in Accounts : acctLock[a] # s
    BY <1>0, <1>1, <1>2 DEF SessionInv, AccountInv, Writing, Late
  <1>7. ASSUME ~ ok PROVE EngineInv'
    BY <1>7, RollbackStep DEF LockHeld, Refuse
  <1>8. ASSUME ok PROVE EngineInv'
    <2>1. /\ pc' = [pc EXCEPT ![s] = "lockAccounts"]
          /\ acctLock' = [acctLock EXCEPT ![m] = s]
          /\ want' = [want EXCEPT ![s] = Existing(t)]
          /\ UNCHANGED <<tables, holdLock, chainLock, call, link, newId, pastDue>>
      BY <1>8 DEF LockHeld, Goto
    <2> HIDE DEF m, g, t
    <2>2. /\ pc'[s] = "lockAccounts" /\ acctLock'[m] = s /\ want'[s] = Existing(t)
          /\ \A a \in Accounts : a # m => acctLock'[a] = acctLock[a]
      BY <1>0, <1>5, <2>1 DEF TypeOK
    <2>3. Existing(t) \subseteq Accounts BY DEF Existing
    <2>4. TypeOK' BY <1>0, <2>1, <2>3 DEF TypeOK, tables, Labels
    <2>5. CallInv(s)' BY <1>0, <1>1, <1>2, <2>1, <2>2 DEF SessionInv, CallInv, Late
    <2>6. AccountInv(s)'
      BY <1>2, <1>6, <2>1, <2>2, <2>3 DEF AccountInv, Writing, Late, tables, m, g
    <2>7. ChainInv(s)'
      BY <1>0, <1>1, <2>1, <2>2 DEF SessionInv, ChainInv, InChain, Writing, Late
    <2>8. HoldInv(s)'
      BY <1>0, <1>1, <1>2, <1>8, <2>1, <2>2 DEF SessionInv, HoldInv, Late, tables, m, g, t
    <2>9. \A p \in Procs \ {s} : LocalsKept(p) /\ LocksKept(p)
      BY <1>0, <1>1, <1>5, <2>1, OwnLocals, OwnLocks
    <2> QED BY <2>1, <2>4, <2>5, <2>6, <2>7, <2>8, <2>9, QuietStep DEF SessionInv
  <1> QED BY <1>7, <1>8

-----------------------------------------------------------------------------
(* Steps that change rows                                                  *)

\* The status of holds nobody has locked may change to expired.
LEMMA MarkExpiredStep ==
    ASSUME EngineInv, NEW s \in Sessions, MarkExpired(s)
    PROVE  EngineInv'
PROOF
  <1>0. TypeOK /\ s \in Procs /\ SessionInv(s) BY DEF EngineInv, Procs
  <1> DEFINE g == call[s].hold
  <1>1. /\ pc[s] = "markExpired" /\ holdLock[g] = Nobody /\ Forget(s)
        /\ holds' = IF holds[g].status = "active"
                    THEN [holds EXCEPT ![g].status = "expired"] ELSE holds
        /\ UNCHANGED <<accounts, transfers, balances, locks, pastDue>>
    BY DEF MarkExpired
  <1>2. call[s].op = "capture" BY <1>0, <1>1 DEF SessionInv, CallInv, Late
  <1>3. /\ \A a \in Accounts : acctLock'[a] # s
        /\ \A h \in HoldRefs : holdLock'[h] # s
        /\ chainLock' # s
    BY <1>0, <1>1, <1>2
    DEF SessionInv, AccountInv, HoldInv, ChainInv, InChain, Writing, Late, locks
  <1>4. g \in HoldRefs BY <1>0, <1>2, CallArguments DEF SessionInv
  <1> HIDE DEF g
  <1>5. \A h \in HoldRefs :
           /\ h # g => holds'[h] = holds[h]
           /\ holds'[h].account = holds[h].account /\ holds'[h].expires = holds[h].expires
           /\ holds'[h].status = "active" => holds'[h] = holds[h]
           /\ holds'[h].status = "none" <=> holds[h].status = "none"
    BY <1>0, <1>1, <1>4 DEF TypeOK, HoldRow
  <1>6. TypeOK'
    <2>1. holds' \in [HoldRefs -> HoldRow]
      <3>1. holds \in [HoldRefs -> HoldRow] BY <1>0 DEF TypeOK
      <3>2. CASE holds[g].status = "active"
        <4>1. holds' = [holds EXCEPT ![g].status = "expired"] BY <1>1, <3>2
        <4> QED BY <1>4, <3>1, <4>1 DEF HoldRow
      <3> QED BY <1>1, <3>1, <3>2
    <2>2. NoHash \in Seq(Transfer) BY EmptySeq DEF NoHash
    <2>3. /\ pc' \in [Procs -> Labels] /\ DOMAIN call' = Procs
          /\ want' \in [Procs -> SUBSET (Accounts \cup HoldRefs)]
          /\ link' \in [Procs -> Seq(Transfer)] /\ newId' \in [Procs -> Nat]
      BY <1>0, <1>1, <2>2 DEF TypeOK, Forget, Labels
    <2> QED BY <1>0, <1>1, <2>1, <2>3 DEF TypeOK, locks
  <1>7. RowsInv' BY <1>1, <1>5, <1>6 DEF EngineInv, RowsInv, TypeOK
  <1>8. ASSUME NEW p \in Procs \ {s} PROVE Undisturbed(p)
    <2>1. LocalsKept(p) BY <1>0, <1>1, OwnLocals DEF Forget
    <2>2. LocksKept(p) BY <1>1 DEF LocksKept, locks
    <2>3. RowsKept(p)
      <3>1. p # Nobody BY NobodyIsNoProcess
      <3> QED BY <1>1, <1>5, <3>1 DEF RowsKept
    <2> QED BY <2>1, <2>2, <2>3 DEF Undisturbed
  <1>9. SessionInv(s)' BY <1>0, <1>1, <1>3, EndedSession
  <1> QED BY <1>1, <1>6, <1>7, <1>8, <1>9, SessionStep

\* What the commit of a transfer does to the tables.
LEMMA CommitWrites ==
    ASSUME EngineInv, NEW s \in Sessions, pc[s] = "commit", Writing(s), Write(s)
    PROVE  /\ newId[s] = Len(transfers) + 1 /\ link[s] = TailHash
           /\ call[s].arg \in Transfer
           /\ transfers' = Append(transfers, Row(call[s].arg, TailHash))
           /\ transfers' \in Seq(RowType)
           /\ DOMAIN transfers' = 1 .. Cardinality(DOMAIN transfers')
           /\ \A k \in DOMAIN transfers : k \in DOMAIN transfers' /\ transfers'[k] = transfers[k]
           /\ balances' = ApplyBalances(balances, call[s].arg)
           /\ balances' \in [Accounts -> Int]
           /\ \A a \in Accounts : a \notin Touched(call[s].arg) => balances'[a] = balances[a]
PROOF
  <1> DEFINE t == call[s].arg
             n == Len(transfers)
             row == Row(t, TailHash)
  <1>0. TypeOK /\ SessionInv(s) BY DEF EngineInv
  <1>1. newId[s] = n + 1 /\ link[s] = TailHash
    BY <1>0 DEF SessionInv, ChainInv, InChain, Late
  <1>2. t \in Transfer /\ t.postings \in Seq(Posting)
    BY <1>0, LateTransfer DEF SessionInv, Late
  <1>3. DOMAIN transfers = 1 .. n /\ n \in Nat /\ TailHash \in Seq(Transfer)
    BY <1>0, TailIsLast
  <1>4. row \in RowType
    <2>1. ChainDigest(TailHash, t) \in Seq(Transfer) BY <1>2, <1>3 DEF ChainDigest
    <2>2. t.reference \in STRING /\ t.reverses \in Nat BY <1>2 DEF Transfer
    <2> QED BY <1>2, <1>3, <2>1, <2>2 DEF Row, RowType
  <1>5. transfers' = [k \in 1 .. n \cup {n + 1} |-> IF k = n + 1 THEN row ELSE transfers[k]]
    BY <1>1, <1>3 DEF Write
  <1>6. transfers \in Seq(RowType) BY <1>0 DEF TypeOK
  <1> HIDE DEF row, t
  <1>7. transfers' = Append(transfers, row)
    <2>1. 1 .. n \cup {n + 1} = 1 .. n + 1 BY <1>3
    <2>2. Append(transfers, row) = [k \in 1 .. n + 1 |-> IF k = n + 1 THEN row ELSE transfers[k]]
      <3>1. Append(transfers, row) \in Seq(RowType) BY <1>4, <1>6, AppendProperties
      <3>2. /\ Len(Append(transfers, row)) = n + 1
            /\ \A k \in 1 .. n : Append(transfers, row)[k] = transfers[k]
            /\ Append(transfers, row)[n + 1] = row
        BY <1>4, <1>6, AppendProperties
      <3>3. Append(transfers, row) = [k \in 1 .. n + 1 |-> Append(transfers, row)[k]]
        BY <3>1, <3>2, LenProperties
      <3>4. \A k \in 1 .. n + 1 : k = n + 1 \/ k \in 1 .. n BY <1>3
      <3> QED BY <3>2, <3>3, <3>4
    <2> QED BY <1>5, <2>1, <2>2
  <1>8. transfers' \in Seq(RowType) BY <1>4, <1>6, <1>7
  <1>9. DOMAIN transfers' = 1 .. n + 1 /\ \A k \in 1 .. n : transfers'[k] = transfers[k]
    BY <1>3, <1>5
  <1>10. Cardinality(1 .. n + 1) = n + 1 BY <1>3, FS_Interval
  <1>11. balances' = ApplyBalances(balances, t) BY DEF Write, t
  <1>12. balances' \in [Accounts -> Int]
         /\ \A a \in Accounts : a \notin Touched(t) => balances'[a] = balances[a]
    <2>1. \A a \in Accounts : Delta(t, a) \in Int
             /\ (a \notin Touched(t) => Delta(t, a) = 0)
      BY <1>2, DeltaFacts
    <2>2. balances \in [Accounts -> Int] BY <1>0 DEF TypeOK
    <2> QED BY <1>11, <2>1, <2>2 DEF ApplyBalances
  <1> QED BY <1>1, <1>2, <1>3, <1>7, <1>8, <1>9, <1>10, <1>11, <1>12 DEF row, t

\* A committing session owns everything its writes touch, so that whatever they
\* change of the holds, the steps of the others are undisturbed.
LEMMA CommitStep ==
    ASSUME EngineInv, NEW s \in Sessions, Commit(s)
    PROVE  EngineInv'
PROOF
  <1>0. TypeOK /\ s \in Procs /\ SessionInv(s) BY DEF EngineInv, Procs
  <1> DEFINE g == call[s].hold
             op == call[s].op
  <1>1. pc[s] = "commit" /\ Unlock(s) /\ Forget(s) /\ accounts' = accounts /\ pastDue' = pastDue
    BY DEF Commit
  <1>2. op \in {"post", "capture", "hold", "release"} BY DEF Commit
  <1>3. ASSUME op # "post"
        PROVE  /\ g \in HoldRefs /\ holdLock[g] = s
               /\ holds[g].status = IF op = "hold" THEN "none" ELSE "active"
    <2>1. g \in HoldRefs
      BY <1>0, <1>2, <1>3, CallArguments DEF SessionInv, CallInv, NoCall
    <2> QED BY <1>0, <1>1, <1>2, <1>3, <2>1 DEF SessionInv, HoldInv, Late
  <1>4. /\ holds' \in [HoldRefs -> HoldRow]
        /\ \A h \in HoldRefs : h # g => holds'[h] = holds[h]
        /\ op = "post" => holds' = holds
        /\ op \in {"capture", "release"} =>
              /\ holds'[g].status # "none" /\ holds'[g].status # "active"
              /\ holds'[g].account = holds[g].account /\ holds'[g].expires = holds[g].expires
        /\ op = "hold" =>
              /\ holds'[g].status = "active" /\ call[s].arg.account \in Accounts
              /\ holds'[g].account = call[s].arg.account
              /\ acctLock[call[s].arg.account] = s
    <2>0. holds \in [HoldRefs -> HoldRow] BY <1>0 DEF TypeOK
    <2>1. CASE op = "post" BY <1>1, <2>0, <2>1 DEF Commit
    <2>2. CASE op = "capture"
      <3>1. holds' = [holds EXCEPT ![g].status = "captured", ![g].transfer = newId[s]]
        BY <2>2 DEF Commit
      <3>2. newId[s] \in Nat BY <1>0 DEF TypeOK
      <3> QED BY <1>3, <2>0, <2>2, <3>1, <3>2 DEF HoldRow
    <2>3. CASE op = "release"
      <3>1. holds' = [holds EXCEPT ![g].status = "released"] BY <2>3 DEF Commit
      <3> QED BY <1>3, <2>0, <2>3, <3>1 DEF HoldRow
    <2>4. CASE op = "hold"
      <3>1. holds' = [holds EXCEPT ![g] = NewHold(call[s].arg)] BY <2>4 DEF Commit
      <3>2. call[s].arg.account \in Accounts /\ acctLock[call[s].arg.account] = s
        BY <1>0, <1>1, <2>4 DEF SessionInv, AccountInv
      <3>3. call[s].arg.amount \in Nat /\ call[s].arg.expires \in BOOLEAN
        BY <1>0, <2>4, CallArguments DEF SessionInv, HoldRequest
      <3>4. NewHold(call[s].arg) \in HoldRow BY <3>2, <3>3 DEF NewHold, HoldRow
      <3>5. NewHold(call[s].arg).status = "active"
            /\ NewHold(call[s].arg).account = call[s].arg.account
        BY DEF NewHold
      <3> QED BY <1>3, <2>0, <2>4, <3>1, <3>2, <3>4, <3>5
    <2> QED BY <1>2, <2>1, <2>2, <2>3, <2>4
  <1>5. /\ ~ Writing(s) => transfers' = transfers /\ balances' = balances
        /\ Writing(s) => Write(s)
    BY DEF Commit, Writing
  <1>6. TypeOK'
    <2>1. CASE Writing(s)
      BY <1>0, <1>1, <1>4, <1>5, <2>1, CommitWrites, TransactionEnds DEF TypeOK
    <2>2. CASE ~ Writing(s)
      BY <1>0, <1>1, <1>4, <1>5, <2>2, TransactionEnds DEF TypeOK
    <2> QED BY <2>1, <2>2
  <1>7. RowsInv'
    <2>1. ASSUME NEW h \in HoldRefs, holds[h].status # "none"
          PROVE  /\ holds'[h].status # "none" /\ holds'[h].account = holds[h].account
                 /\ holds'[h].expires = holds[h].expires
      BY <1>2, <1>3, <1>4, <2>1
    <2>2. ASSUME NEW h \in HoldRefs, holds'[h].status # "none"
          PROVE  holds'[h].account \in Accounts
      <3>1. CASE holds[h].status # "none" BY <2>1, <3>1 DEF EngineInv, RowsInv
      <3>2. CASE holds[h].status = "none" BY <1>2, <1>3, <1>4, <2>2, <3>2
      <3> QED BY <3>1, <3>2
    <2>3. \A clock \in {"app", "db"} : pastDue[clock] \subseteq HoldRefs
      BY <1>0 DEF TypeOK
    <2> QED BY <1>1, <2>1, <2>2, <2>3 DEF EngineInv, RowsInv
  <1>8. ASSUME NEW p \in Procs \ {s} PROVE Undisturbed(p)
    <2>1. LocalsKept(p) /\ LocksKept(p) BY <1>0, <1>1, TransactionEnds
    <2>2. RowsKept(p)
      <3>1. ASSUME NEW a \in Accounts, acctLock[a] = p
            PROVE  /\ balances'[a] = balances[a]
                   /\ \A h \in HoldRefs :
                        holds'[h].status = "active" /\ holds'[h].account = a
                          => holds'[h] = holds[h]
        <4>1. balances'[a] = balances[a]
          <5>1. CASE Writing(s)
            <6>1. a \notin Touched(call[s].arg)
              BY <1>0, <1>1, <3>1, <5>1 DEF SessionInv, AccountInv, Late
            <6> QED BY <1>1, <1>5, <5>1, <6>1, CommitWrites
          <5>2. CASE ~ Writing(s) BY <1>5, <5>2
          <5> QED BY <5>1, <5>2
        <4> QED BY <1>2, <1>3, <1>4, <3>1, <4>1
      <3>2. ASSUME NEW h \in HoldRefs, holdLock[h] = p PROVE holds'[h] = holds[h]
        BY <1>2, <1>3, <1>4, <3>2
      <3>3. \A h \in HoldRefs : holds[h].status # "none" =>
               holds'[h].account = holds[h].account
        BY <1>2, <1>3, <1>4
      <3>4. chainLock = p => transfers' = transfers
        <4>1. Writing(s) => chainLock = s
          BY <1>0, <1>1 DEF SessionInv, ChainInv, InChain, Late
        <4> QED BY <1>5, <4>1
      <3>5. \A k \in DOMAIN transfers : k \in DOMAIN transfers' /\ transfers'[k] = transfers[k]
        <4>1. CASE Writing(s) BY <1>1, <1>5, <4>1, CommitWrites
        <4>2. CASE ~ Writing(s) BY <1>5, <4>2
        <4> QED BY <4>1, <4>2
      <3> QED BY <1>1, <3>1, <3>2, <3>3, <3>4, <3>5 DEF RowsKept
    <2> QED BY <2>1, <2>2 DEF Undisturbed
  <1>9. SessionInv(s)' BY <1>0, <1>1, TransactionEnds, EndedSession
  <1> QED BY <1>1, <1>6, <1>7, <1>8, <1>9, SessionStep

-----------------------------------------------------------------------------
(* Accounts, the sweep and the clocks                                      *)

\* A step that leaves the sessions' locals alone leaves their calls alone.
LEMMA OutsideStep ==
    ASSUME EngineInv, TypeOK', RowsInv', SweepInv',
           \A r \in Sessions : Undisturbed(r)
    PROVE  EngineInv'
PROOF
  <1>1. \A r \in Sessions : SessionInv(r)' BY OtherSession DEF EngineInv
  <1> QED BY <1>1 DEF EngineInv

\* An account in use is neither created nor archived.
LEMMA AccountStep ==
    ASSUME EngineInv, NEW a \in Accounts, CreateAccount(a) \/ Archive(a)
    PROVE  EngineInv'
PROOF
  <1>0. TypeOK BY DEF EngineInv
  <1>1. /\ UNCHANGED <<transfers, balances, holds, locks, locals, pastDue>>
        /\ \/ accounts[a] = "none" /\ accounts' = [accounts EXCEPT ![a] = "open"]
           \/ acctLock[a] = Nobody /\ accounts' = [accounts EXCEPT ![a] = "archived"]
    BY DEF CreateAccount, Archive
  <1>2. TypeOK' BY <1>0, <1>1 DEF TypeOK, locks, locals
  <1>3. RowsInv' /\ SweepInv'
    BY <1>1 DEF EngineInv, RowsInv, SweepInv, locks, locals
  <1>4. ASSUME NEW r \in Sessions PROVE Undisturbed(r)
    <2>1. r # Nobody BY SessionsAssumption
    <2>2. \A b \in Accounts : acctLock[b] = r /\ accounts[b] = "open" => accounts'[b] = "open"
      BY <1>0, <1>1, <2>1 DEF TypeOK
    <2> QED BY <1>1, <2>2 DEF Undisturbed, LocalsKept, LocksKept, RowsKept, locks, locals
  <1> QED BY <1>2, <1>3, <1>4, OutsideStep

\* The sweep begins, locks a row or rolls back: no row changes.
LEMMA SweeperStep ==
    ASSUME EngineInv, TypeOK', SweepInv', UNCHANGED <<tables, pastDue>>,
           \A r \in Sessions : LocalsKept(r) /\ LocksKept(r)
    PROVE  EngineInv'
PROOF
  <1>1. \A r \in Sessions : Undisturbed(r) BY QuietRows
  <1>2. RowsInv' BY DEF EngineInv, RowsInv, tables
  <1> QED BY <1>1, <1>2, OutsideStep

LEMMA SweepStartStep ==
    ASSUME EngineInv, SweepStart
    PROVE  EngineInv'
PROOF
  <1>0. TypeOK /\ Sweeper \in Procs /\ SweepInv BY DEF EngineInv, Procs
  <1> DEFINE due == {h \in pastDue["db"] : holds[h].status = "active"}
  <1>1. /\ pc[Sweeper] = "idle" /\ want' = [want EXCEPT ![Sweeper] = due]
        /\ pc' = [pc EXCEPT ![Sweeper] = "sweep"]
        /\ UNCHANGED <<tables, locks, call, link, newId, pastDue>>
    BY DEF SweepStart, Goto
  <1>2. due \subseteq HoldRefs /\ due \subseteq pastDue["db"] BY <1>0 DEF TypeOK
  <1> HIDE DEF due
  <1>3. want' \in [Procs -> SUBSET (Accounts \cup HoldRefs)]
        /\ pc' \in [Procs -> Labels] /\ want'[Sweeper] = due /\ pc'[Sweeper] = "sweep"
    BY <1>0, <1>1, <1>2 DEF TypeOK, Labels
  <1>4. TypeOK' BY <1>0, <1>1, <1>3 DEF TypeOK, tables, locks
  <1>5. SweepInv' BY <1>0, <1>1, <1>2, <1>3 DEF SweepInv, tables, locks
  <1>6. ASSUME NEW r \in Sessions PROVE LocalsKept(r) /\ LocksKept(r)
    <2>1. r \in Procs \ {Sweeper} BY NobodyIsNoProcess DEF Procs
    <2> QED BY <1>0, <1>1, <2>1, OwnLocals DEF LocksKept, locks
  <1> QED BY <1>1, <1>4, <1>5, <1>6, SweeperStep

LEMMA SweepRowStep ==
    ASSUME EngineInv, NEW h \in HoldRefs, SweepRow(h)
    PROVE  EngineInv'
PROOF
  <1>0. TypeOK /\ Sweeper \in Procs /\ SweepInv BY DEF EngineInv, Procs
  <1>1. /\ pc[Sweeper] = "sweep" /\ h \in want[Sweeper] /\ holdLock[h] = Nobody
        /\ holdLock' = IF holds[h].status = "active"
                       THEN [holdLock EXCEPT ![h] = Sweeper] ELSE holdLock
        /\ want' = [want EXCEPT ![Sweeper] = want[Sweeper] \ {h}]
        /\ UNCHANGED <<tables, acctLock, chainLock, pc, call, link, newId, pastDue>>
    BY DEF SweepRow
  <1>2. /\ want' \in [Procs -> SUBSET (Accounts \cup HoldRefs)]
        /\ want'[Sweeper] \subseteq want[Sweeper]
        /\ holdLock' \in [HoldRefs -> Procs \cup {Nobody}]
    BY <1>0, <1>1 DEF TypeOK
  <1>3. TypeOK' BY <1>0, <1>1, <1>2 DEF TypeOK, tables
  <1>4. SweepInv'
    <2>1. ASSUME NEW g \in HoldRefs, holdLock'[g] = Sweeper
          PROVE  holds[g].status = "active" /\ g \in pastDue["db"]
      <3>1. CASE g = h /\ holds[h].status = "active" BY <1>0, <1>1, <3>1 DEF SweepInv
      <3>2. CASE g # h \/ holds[h].status # "active"
        <4>1. holdLock[g] = Sweeper BY <1>0, <1>1, <2>1, <3>2 DEF TypeOK
        <4> QED BY <1>0, <4>1 DEF SweepInv
      <3> QED BY <3>1, <3>2
    <2> QED BY <1>0, <1>1, <1>2, <2>1 DEF SweepInv, tables
  <1>5. ASSUME NEW r \in Sessions PROVE LocalsKept(r) /\ LocksKept(r)
    <2>1. r \in Procs \ {Sweeper} BY NobodyIsNoProcess DEF Procs
    <2> QED BY <1>0, <1>1, <2>1, OwnLocals, OwnLocks
  <1> QED BY <1>1, <1>3, <1>4, <1>5, SweeperStep

\* The end of the sweep's transaction.
LEMMA SweepEnds ==
    ASSUME EngineInv, Unlock(Sweeper), Forget(Sweeper), pastDue' = pastDue
    PROVE  /\ SweepInv'
           /\ \A r \in Sessions : LocalsKept(r) /\ LocksKept(r)
PROOF
  <1>0. TypeOK /\ Sweeper \in Procs /\ SweepInv BY DEF EngineInv, Procs
  <1>1. /\ pc'[Sweeper] = "idle" /\ call'[Sweeper] = NoCall
        /\ newId'[Sweeper] = 0 /\ want'[Sweeper] = {}
    BY <1>0 DEF TypeOK, Forget
  <1>2. \A h \in HoldRefs : holdLock'[h] # Sweeper BY <1>0, TransactionEnds
  <1>3. SweepInv' BY <1>1, <1>2 DEF SweepInv
  <1>4. \A r \in Sessions : LocalsKept(r) /\ LocksKept(r)
    BY <1>0, TransactionEnds, NobodyIsNoProcess DEF Procs
  <1> QED BY <1>3, <1>4

\* The rows the sweep owns are active and past due: it expires those alone.
LEMMA SweepCommitStep ==
    ASSUME EngineInv, SweepCommit
    PROVE  EngineInv'
PROOF
  <1>0. TypeOK /\ Sweeper \in Procs /\ SweepInv BY DEF EngineInv, Procs
  <1>1. /\ Unlock(Sweeper) /\ Forget(Sweeper)
        /\ UNCHANGED <<accounts, transfers, balances, pastDue>>
        /\ holds' = [h \in HoldRefs |->
                       IF holdLock[h] = Sweeper THEN [holds[h] EXCEPT !.status = "expired"]
                       ELSE holds[h]]
    BY DEF SweepCommit
  <1>2. ASSUME NEW h \in HoldRefs
        PROVE  /\ holds'[h] \in HoldRow
               /\ holdLock[h] # Sweeper => holds'[h] = holds[h]
               /\ holds'[h].account = holds[h].account /\ holds'[h].expires = holds[h].expires
               /\ holds'[h].status = "active" => holds'[h] = holds[h]
               /\ holds'[h].status = "none" <=> holds[h].status = "none"
    <2>1. holds[h] \in HoldRow BY <1>0 DEF TypeOK
    <2>2. CASE holdLock[h] = Sweeper
      <3>1. holds'[h] = [holds[h] EXCEPT !.status = "expired"] BY <1>1, <2>2
      <3>2. holds[h].status = "active" BY <1>0, <2>2 DEF SweepInv
      <3> QED BY <2>1, <2>2, <3>1, <3>2 DEF HoldRow
    <2>3. CASE holdLock[h] # Sweeper BY <1>1, <2>1, <2>3
    <2> QED BY <2>2, <2>3
  <1>3. holds' \in [HoldRefs -> HoldRow] BY <1>1, <1>2
  <1>4. TypeOK' BY <1>0, <1>1, <1>3, TransactionEnds DEF TypeOK
  <1>5. RowsInv' BY <1>0, <1>1, <1>2 DEF EngineInv, RowsInv, TypeOK
  <1>6. ASSUME NEW r \in Sessions PROVE Undisturbed(r)
    <2>1. r # Sweeper BY SessionsAssumption
    <2>2. RowsKept(r) BY <1>1, <1>2, <2>1 DEF RowsKept
    <2> QED BY <1>1, <2>2, SweepEnds DEF Undisturbed
  <1> QED BY <1>1, <1>4, <1>5, <1>6, SweepEnds, OutsideStep

LEMMA LapseStep ==
    ASSUME EngineInv, NEW clock \in {"app", "db"}, NEW h \in HoldRefs, Lapse(clock, h)
    PROVE  EngineInv'
PROOF
  <1>0. TypeOK /\ SweepInv /\ RowsInv BY DEF EngineInv
  <1>1. /\ holds[h].status = "active" /\ holds[h].expires
        /\ pastDue' = [pastDue EXCEPT ![clock] = pastDue[clock] \cup {h}]
        /\ UNCHANGED <<tables, locks, locals>>
    BY DEF Lapse
  <1>2. /\ pastDue' \in [{"app", "db"} -> SUBSET HoldRefs]
        /\ \A c \in {"app", "db"} :
              pastDue[c] \subseteq pastDue'[c] /\ pastDue'[c] \subseteq pastDue[c] \cup {h}
    BY <1>0, <1>1 DEF TypeOK
  <1>3. TypeOK' BY <1>0, <1>1, <1>2 DEF TypeOK, tables, locks, locals
  <1>4. RowsInv' BY <1>0, <1>1, <1>2 DEF RowsInv, tables
  <1>5. SweepInv' BY <1>0, <1>1, <1>2 DEF SweepInv, tables, locks, locals
  <1>6. \A r \in Sessions : Undisturbed(r)
    BY <1>1, <1>2 DEF Undisturbed, LocalsKept, LocksKept, RowsKept, tables, locks, locals
  <1> QED BY <1>3, <1>4, <1>5, <1>6, OutsideStep

\* A transaction that dies, of a session or of the sweep.
LEMMA AbortStep ==
    ASSUME EngineInv, NEW p \in Procs, Abort(p)
    PROVE  EngineInv'
PROOF
  <1>1. CASE p \in Sessions BY <1>1, RollbackStep DEF Abort
  <1>2. CASE p = Sweeper
    <2>1. TypeOK' BY <1>2, TransactionEnds DEF EngineInv, Abort, TypeOK, tables
    <2> QED BY <1>2, <2>1, SweepEnds, SweeperStep DEF Abort
  <1> QED BY <1>1, <1>2 DEF Procs

-----------------------------------------------------------------------------
(* The invariant holds                                                     *)

LEMMA EngineInit == Init => EngineInv
PROOF
  <1> SUFFICES ASSUME Init PROVE EngineInv OBVIOUS
  <1> USE DEF Init
  <1>0. Nobody \notin Procs /\ Sweeper \in Procs BY NobodyIsNoProcess DEF Procs
  <1>1. TypeOK
    <2>1. \A S : << >> \in Seq(S) /\ DOMAIN << >> = 1 .. 0 BY EmptySeq
    <2>2. DOMAIN transfers = 1 .. Cardinality(DOMAIN transfers)
      <3>1. DOMAIN transfers = {} BY <2>1
      <3> QED BY <3>1, FS_EmptySet
    <2>3. holds \in [HoldRefs -> HoldRow] BY DEF NoHold, HoldRow
    <2>4. link \in [Procs -> Seq(Transfer)] BY <2>1 DEF NoHash
    <2>5. transfers \in Seq(RowType) BY <2>1
    <2> QED BY <2>2, <2>3, <2>4, <2>5 DEF TypeOK, Labels
  <1>2. RowsInv BY DEF RowsInv, NoHold
  <1>3. SweepInv BY <1>0 DEF SweepInv
  <1>4. ASSUME NEW s \in Sessions PROVE SessionInv(s)
    <2>1. s \in Procs /\ s # Nobody BY <1>0 DEF Procs
    <2> QED BY <2>1, IdleSession
  <1> QED BY <1>1, <1>2, <1>3, <1>4 DEF EngineInv

LEMMA UnchangedStep ==
    ASSUME EngineInv, UNCHANGED vars
    PROVE  EngineInv'
PROOF
  <1>1. TypeOK' BY DEF EngineInv, TypeOK, vars, tables, locks, locals
  <1>2. RowsInv' /\ SweepInv'
    BY DEF EngineInv, RowsInv, SweepInv, vars, tables, locks, locals
  <1>3. \A r \in Sessions : Undisturbed(r)
    BY DEF Undisturbed, LocalsKept, LocksKept, RowsKept, vars, tables, locks, locals
  <1> QED BY <1>1, <1>2, <1>3, OutsideStep

LEMMA EngineStep == EngineInv /\ [Next]_vars => EngineInv'
PROOF
  <1> SUFFICES ASSUME EngineInv, [Next]_vars PROVE EngineInv' OBVIOUS
  <1>1. ASSUME NEW s \in Sessions, CallAny(s) PROVE EngineInv' BY <1>1, CallStep
  <1>2. ASSUME NEW s \in Sessions, Acquire(s) PROVE EngineInv'
    BY <1>2, LockAccountsStep, LockChainStep, LockAccountStep, InsertHoldStep,
       LockHoldStep, MarkExpiredStep, LockHeldStep DEF Acquire
  <1>3. ASSUME NEW s \in Sessions, Proceed(s) PROVE EngineInv'
    BY <1>3, CheckAccountsStep, ReadTailStep, InsertStep, GuardStep,
       CheckHoldStep, CommitStep DEF Proceed
  <1>4. ASSUME NEW a \in Accounts, CreateAccount(a) \/ Archive(a) PROVE EngineInv'
    BY <1>4, AccountStep
  <1>5. ASSUME NEW a \in Archivable, Archive(a) PROVE EngineInv'
    <2>1. CASE a \in Accounts BY <1>5, <2>1, <1>4
    <2>2. CASE a \notin Accounts
      <3>1. /\ accounts' = [accounts EXCEPT ![a] = "archived"]
            /\ UNCHANGED <<transfers, balances, holds, locks, locals, pastDue>>
        BY <1>5 DEF Archive
      <3>2. accounts' = accounts BY <2>2, <3>1 DEF EngineInv, TypeOK
      <3> QED BY <3>1, <3>2, UnchangedStep DEF tables, vars
    <2> QED BY <2>1, <2>2
  <1>6. CASE SweepStart BY <1>6, SweepStartStep
  <1>7. CASE SweepCommit BY <1>7, SweepCommitStep
  <1>8. ASSUME NEW h \in HoldRefs, SweepRow(h) PROVE EngineInv' BY <1>8, SweepRowStep
  <1>9. ASSUME NEW clock \in {"app", "db"}, NEW h \in HoldRefs, Lapse(clock, h)
        PROVE  EngineInv'
    BY <1>9, LapseStep
  <1>10. ASSUME NEW p \in Procs, Abort(p) PROVE EngineInv' BY <1>10, AbortStep
  <1>11. CASE UNCHANGED vars BY <1>11, UnchangedStep
  <1> QED BY <1>1, <1>2, <1>3, <1>4, <1>5, <1>6, <1>7, <1>8, <1>9, <1>10, <1>11
          DEF Next, Step

\* Every statement keeps what the transactions in progress rely on: who owns
\* which lock, in which order, and what each has checked so far.
THEOREM EngineInvariant == Spec => []EngineInv
BY EngineInit, EngineStep, PTL DEF Spec

\* What a session checked is still true when it commits: no archiving, release,
\* expiry, reversal or concurrent post can come between the check and the
\* commit of store.go and hold.go.
THEOREM ChecksHoldAtCommit == Spec => []ChecksStillHold
PROOF
  <1>1. EngineInv => ChecksStillHold
    <2> SUFFICES ASSUME EngineInv, NEW s \in Sessions, pc[s] = "commit"
                 PROVE  LET arg == call[s].arg
                            h   == call[s].hold IN
                        /\ call[s].op \in {"post", "capture"} =>
                             /\ AccountsAccept(accounts, arg)
                             /\ Unused(transfers, arg)
                             /\ Covered(balances, holds, arg, h)
                             /\ newId[s] = Len(transfers) + 1 /\ link[s] = TailHash
                        /\ call[s].op \in {"capture", "release"} => holds[h].status = "active"
                        /\ call[s].op = "hold" =>
                             /\ holds[h].status = "none" /\ accounts[arg.account] = "open"
                             /\ ~ Chart[arg.account].allowNegative
                                  => AvailableLocked(balances, holds, arg.account, 0) >= arg.amount
      BY DEF ChecksStillHold
    <2> TypeOK /\ SessionInv(s) BY DEF EngineInv
    <2>1. call[s].op \in {"post", "capture"} =>
             /\ AccountsAccept(accounts, call[s].arg)
             /\ Unused(transfers, call[s].arg)
             /\ Covered(balances, holds, call[s].arg, call[s].hold)
             /\ newId[s] = Len(transfers) + 1 /\ link[s] = TailHash
      BY DEF SessionInv, AccountInv, ChainInv, InChain, Writing, Late
    <2>2. call[s].op \in {"capture", "release", "hold"} =>
             /\ call[s].hold \in HoldRefs /\ holdLock[call[s].hold] = s
             /\ holds[call[s].hold].status = IF call[s].op = "hold" THEN "none" ELSE "active"
      <3>1. call[s].op \in {"capture", "release", "hold"} => call[s].hold \in HoldRefs
        BY CallArguments DEF SessionInv, CallInv, NoCall
      <3> QED BY <3>1 DEF SessionInv, HoldInv, Late
    <2>3. call[s].op = "hold" =>
             /\ accounts[call[s].arg.account] = "open"
             /\ ~ Chart[call[s].arg.account].allowNegative
                  => AvailableLocked(balances, holds, call[s].arg.account, 0)
                       >= call[s].arg.amount
      BY DEF SessionInv, AccountInv
    <2> QED BY <2>1, <2>2, <2>3
  <1> QED BY <1>1, EngineInvariant, PTL

-----------------------------------------------------------------------------
(* Deadlocks                                                               *)

LEMMA LargestElement ==
    ASSUME NEW S \in SUBSET Accounts, S # {}
    PROVE  \E a \in S : \A b \in S : b =< a
PROOF
  <1> DEFINE I == {n \in Nat : (\E a \in S : a >= NumAccounts - n)
                                  => \E a \in S : \A b \in S : b =< a}
  <1>1. S \subseteq Nat /\ NumAccounts \in Nat /\ \A a \in S : a =< NumAccounts
    BY BoundsAssumption DEF Accounts
  <1>2. 0 \in I BY <1>1
  <1>3. ASSUME NEW n \in Nat, n \in I PROVE n + 1 \in I
    <2>1. CASE \E a \in S : a >= NumAccounts - n BY <1>3, <2>1
    <2>2. CASE ~ \E a \in S : a >= NumAccounts - n
      <3> \A a \in S : a =< NumAccounts - (n + 1) BY <1>1, <2>2
      <3> QED BY <1>1
    <2> QED BY <2>1, <2>2
  <1>4. Nat \subseteq I
    <2> HIDE DEF I
    <2> QED BY <1>2, <1>3, NatSetInduction
  <1>5. NumAccounts \in I BY <1>1, <1>4
  <1>6. PICK x \in S : TRUE OBVIOUS
  <1>7. x >= NumAccounts - NumAccounts BY <1>1, <1>6
  <1> QED BY <1>5, <1>6, <1>7

\* The lock a waiting process waits for, and its owner q.
AwaitsAccount(p, a, q) ==
    /\ a \in Accounts /\ q = acctLock[a]
    /\ \/ pc[p] = "lockAccounts" /\ want[p] # {} /\ a = MinOf(want[p])
       \/ pc[p] \in {"lockAccount", "lockHeld"}

AwaitsHold(p, h, q) ==
    /\ h \in HoldRefs /\ q = holdLock[h]
    /\ \/ pc[p] = "insertHold" /\ holds[h].status = "none"
       \/ pc[p] \in {"lockHold", "markExpired", "sweep"}

LEMMA WhatIsAwaited ==
    ASSUME EngineInv, NEW p \in Procs, NEW q \in Awaits(p)
    PROVE  /\ q # p /\ q \in Procs
           /\ \/ \E a \in Accounts : AwaitsAccount(p, a, q)
              \/ \E h \in HoldRefs : AwaitsHold(p, h, q)
              \/ pc[p] = "lockChain" /\ q = chainLock
PROOF
  <1>0. TypeOK /\ RowsInv BY DEF EngineInv
  <1>1. q # p /\ q # Nobody BY DEF Awaits
  <1>2. ASSUME pc[p] # "idle", pc[p] # "sweep" PROVE p \in Sessions /\ SessionInv(p)
    BY <1>2 DEF EngineInv, SweepInv, Procs
  <1>3. CASE pc[p] = "lockAccounts"
    <2>1. q = acctLock[MinOf(want[p])] /\ want[p] # {} BY <1>3 DEF Awaits
    <2>2. want[p] \subseteq Accounts BY <1>2, <1>3 DEF SessionInv, AccountInv
    <2>3. MinOf(want[p]) \in Accounts BY <2>1, <2>2, SmallestElement
    <2>4. AwaitsAccount(p, MinOf(want[p]), q) BY <1>3, <2>1, <2>3 DEF AwaitsAccount
    <2> QED BY <1>0, <1>1, <2>1, <2>3, <2>4 DEF TypeOK, Procs
  <1>4. CASE pc[p] = "lockAccount"
    <2>1. PICK a \in {call[p].arg.account} \cap Accounts : q = acctLock[a]
      BY <1>4 DEF Awaits
    <2>2. AwaitsAccount(p, a, q) BY <1>4, <2>1 DEF AwaitsAccount
    <2> QED BY <1>0, <1>1, <2>1, <2>2 DEF TypeOK, Procs
  <1>5. CASE pc[p] = "lockHeld"
    <2> DEFINE h == call[p].hold
    <2>1. q = acctLock[holds[h].account] BY <1>5 DEF Awaits
    <2>2. call[p].op = "capture" BY <1>2, <1>5 DEF SessionInv, CallInv, Late
    <2>3. h \in HoldRefs BY <1>0, <1>2, <1>5, <2>2, CallArguments DEF SessionInv
    <2>4. holds[h].status = "active" BY <1>2, <1>5, <2>2, <2>3 DEF SessionInv, HoldInv
    <2>5. holds[h].account \in Accounts BY <1>0, <2>3, <2>4 DEF RowsInv
    <2>6. AwaitsAccount(p, holds[h].account, q) BY <1>5, <2>1, <2>5 DEF AwaitsAccount
    <2> QED BY <1>0, <1>1, <2>1, <2>5, <2>6 DEF TypeOK, Procs
  <1>6. CASE pc[p] = "lockChain"
    <2>1. q = chainLock BY <1>6 DEF Awaits
    <2> QED BY <1>0, <1>1, <1>6, <2>1 DEF TypeOK, Procs
  <1>7. CASE pc[p] \in {"insertHold", "lockHold", "markExpired"}
    <2> DEFINE h == call[p].hold
    <2>1. q = holdLock[h] /\ (pc[p] = "insertHold" => holds[h].status = "none")
      BY <1>7 DEF Awaits
    <2>2. h \in HoldRefs
      BY <1>0, <1>2, <1>7, CallArguments DEF SessionInv, CallInv, Late, NoCall
    <2>3. AwaitsHold(p, h, q) BY <1>7, <2>1, <2>2 DEF AwaitsHold
    <2> QED BY <1>0, <1>1, <2>1, <2>2, <2>3 DEF TypeOK
  <1>8. CASE pc[p] = "sweep"
    <2>1. PICK h \in want[p] : q = holdLock[h] BY <1>8 DEF Awaits
    <2>2. p = Sweeper BY <1>8 DEF EngineInv, SessionInv, CallInv, Late, Procs
    <2>3. h \in HoldRefs BY <1>0, <2>1, <2>2 DEF EngineInv, SweepInv, TypeOK
    <2>4. AwaitsHold(p, h, q) BY <1>8, <2>1, <2>3 DEF AwaitsHold
    <2> QED BY <1>0, <1>1, <2>1, <2>3, <2>4 DEF TypeOK
  <1>9. CASE pc[p] \notin {"lockAccounts", "lockAccount", "lockHeld", "lockChain",
                           "insertHold", "lockHold", "markExpired", "sweep"}
    BY <1>9 DEF Awaits
  <1> QED BY <1>3, <1>4, <1>5, <1>6, <1>7, <1>8, <1>9

LEMMA AccountOwner ==
    ASSUME NEW s \in Sessions, SessionInv(s), NEW a \in Accounts, acctLock[a] = s
    PROVE  /\ pc[s] \in {"lockAccounts", "checkHold", "insertHold"} \cup Late
           /\ pc[s] = "lockAccounts" => Writing(s)
PROOF
  <1>1. \/ Writing(s) /\ pc[s] \in {"lockAccounts"} \cup Late
        \/ call[s].op = "hold" /\ pc[s] \in {"checkHold", "insertHold", "commit"}
    BY DEF SessionInv, AccountInv
  <1> QED BY <1>1 DEF Late

\* An owner that waits itself: of an account, it is still locking accounts; of
\* a hold, it is the sweep or a capture on its way to the accounts.
LEMMA WaitingOwners ==
    ASSUME EngineInv, NEW p \in Procs, NEW q \in Procs, q \in Awaits(p),
           NEW S \in SUBSET Procs, Deadlocked(S), p \in S, q \in S
    PROVE  \/ /\ q \in Sessions /\ pc[q] = "lockAccounts" /\ want[q] # {}
              /\ call[q].op \in {"post", "capture"}
           \/ q \in Sessions /\ pc[q] = "lockHeld" /\ AwaitsHold(p, call[q].hold, q)
           \/ q = Sweeper /\ \E h \in HoldRefs : AwaitsHold(p, h, q)
PROOF
  <1>0. TypeOK BY DEF EngineInv
  <1>1. PICK r \in S : r \in Awaits(q) BY DEF Deadlocked
  <1>2. /\ q # p
        /\ \/ \E a \in Accounts : AwaitsAccount(p, a, q)
           \/ \E h \in HoldRefs : AwaitsHold(p, h, q)
           \/ pc[p] = "lockChain" /\ q = chainLock
    BY WhatIsAwaited
  <1>3. /\ pc[q] \in {"lockAccounts", "lockAccount", "lockHeld", "lockChain",
                      "insertHold", "lockHold", "markExpired", "sweep"}
        /\ pc[q] = "lockAccounts" => want[q] # {}
    BY <1>1 DEF Awaits
  <1>4. q \in Sessions => SessionInv(q) BY DEF EngineInv
  <1>5. ASSUME NEW m \in S, NEW n \in S, m \in Procs, n \in Awaits(m) PROVE pc[m] # "lockChain"
    <2> SUFFICES ASSUME pc[m] = "lockChain" PROVE FALSE OBVIOUS
    <2>1. n = chainLock BY <1>5 DEF Awaits
    <2>2. n \in Sessions /\ SessionInv(n)
      BY <1>0, <1>5, <2>1, WhatIsAwaited, NobodyIsNoProcess DEF TypeOK, EngineInv, Procs
    <2>3. pc[n] \in {"readTail", "insert", "guard", "commit"}
      BY <2>1, <2>2 DEF SessionInv, ChainInv, InChain, Late
    <2>4. Awaits(n) = {} BY <2>3 DEF Awaits
    <2> QED BY <1>5, <2>4 DEF Deadlocked
  <1>6. ASSUME NEW m \in S, NEW n \in S, m \in Procs, n \in Awaits(m) PROVE pc[m] # "insertHold"
    <2> SUFFICES ASSUME pc[m] = "insertHold" PROVE FALSE OBVIOUS
    <2>1. /\ \E h \in HoldRefs : AwaitsHold(m, h, n)
          /\ n \in Procs
      BY <1>5, <1>6, WhatIsAwaited DEF AwaitsAccount
    <2>2. PICK h \in HoldRefs : n = holdLock[h] /\ holds[h].status = "none"
      BY <2>1 DEF AwaitsHold
    <2>3. n \in Sessions /\ SessionInv(n)
      BY <2>1, <2>2 DEF EngineInv, SweepInv, Procs
    <2>4. pc[n] = "commit" BY <2>2, <2>3 DEF SessionInv, HoldInv
    <2>5. Awaits(n) = {} BY <2>4 DEF Awaits
    <2> QED BY <1>6, <2>5 DEF Deadlocked
  <1>7. pc[q] # "lockChain" /\ pc[q] # "insertHold" /\ pc[p] # "lockChain" /\ pc[p] # "insertHold"
    BY <1>1, <1>5, <1>6
  <1>8. ASSUME NEW a \in Accounts, AwaitsAccount(p, a, q)
        PROVE  /\ q \in Sessions /\ pc[q] = "lockAccounts" /\ want[q] # {}
               /\ call[q].op \in {"post", "capture"}
    <2>1. q = acctLock[a] BY <1>8 DEF AwaitsAccount
    <2>2. q \in Sessions BY <1>0, <2>1, NobodyIsNoProcess DEF TypeOK
    <2>3. pc[q] \in {"lockAccounts", "checkHold", "insertHold"} \cup Late
          /\ (pc[q] = "lockAccounts" => Writing(q))
      BY <1>4, <2>1, <2>2, AccountOwner
    <2> QED BY <1>3, <1>7, <2>2, <2>3 DEF Late, Writing
  <1>9. ASSUME NEW h \in HoldRefs, AwaitsHold(p, h, q), q \in Sessions
        PROVE  /\ call[q].op = "capture" /\ h = call[q].hold
               /\ pc[q] \in {"lockHeld", "lockAccounts"}
    <2>1. q = holdLock[h] BY <1>9 DEF AwaitsHold
    <2> QED BY <1>3, <1>4, <1>7, <1>9, <2>1 DEF SessionInv, HoldInv, Late
  <1>10. CASE q \in Sessions BY <1>2, <1>3, <1>7, <1>8, <1>9, <1>10
  <1>11. CASE q = Sweeper BY <1>2, <1>7, <1>8, <1>11, SessionsAssumption
  <1> QED BY <1>10, <1>11 DEF Procs

\* Somebody in a deadlock is locking the accounts of a transfer.
LEMMA DeadlockLocksAccounts ==
    ASSUME EngineInv, NEW S \in SUBSET Procs, Deadlocked(S)
    PROVE  \E m \in S : /\ m \in Sessions /\ pc[m] = "lockAccounts" /\ want[m] # {}
                        /\ call[m].op \in {"post", "capture"}
PROOF
  <1>1. \A p \in S : \E q \in S : q \in Awaits(p) /\ p \in Procs /\ q \in Procs
    BY DEF Deadlocked
  <1> SUFFICES ASSUME \A m \in S : ~ (/\ m \in Sessions /\ pc[m] = "lockAccounts"
                                      /\ want[m] # {} /\ call[m].op \in {"post", "capture"})
               PROVE  FALSE
    OBVIOUS
  <1>2. ASSUME NEW p \in S, NEW q \in S, q \in Awaits(p)
        PROVE  \/ q \in Sessions /\ pc[q] = "lockHeld" /\ AwaitsHold(p, call[q].hold, q)
               \/ q = Sweeper /\ \E h \in HoldRefs : AwaitsHold(p, h, q)
    BY <1>2, WaitingOwners
  \* A capture about to lock its account waits for an account, not for a hold.
  <1>3. ASSUME NEW p \in S, pc[p] = "lockHeld" PROVE FALSE
    <2>1. PICK q \in S : q \in Awaits(p) BY <1>1
    <2> QED BY <1>2, <1>3, <2>1 DEF AwaitsHold
  <1>4. \A p \in S : Sweeper \in S /\ Sweeper \in Awaits(p)
    BY <1>1, <1>2, <1>3
  <1>5. PICK p \in S : TRUE BY DEF Deadlocked
  <1>6. Sweeper \in S /\ Sweeper \in Awaits(Sweeper) BY <1>4, <1>5
  <1>7. ASSUME NEW r \in S, NEW q \in Awaits(r) PROVE q # r BY <1>7, WhatIsAwaited
  <1> QED BY <1>6, <1>7

LEMMA DeadlocksInv == EngineInv => DeadlockNeedsCapture
PROOF
  <1> SUFFICES ASSUME EngineInv, NEW S \in SUBSET Procs, Deadlocked(S),
                      \A p \in S : ~ (/\ call[p].op = "capture" /\ pc[p] = "lockAccounts"
                                      /\ acctLock[holds[call[p].hold].account] = p
                                      /\ MinOf(want[p]) < holds[call[p].hold].account)
               PROVE  FALSE
    BY DEF DeadlockNeedsCapture
  <1>0. TypeOK /\ RowsInv BY DEF EngineInv
  <1> DEFINE Locking(m) == /\ m \in Sessions /\ pc[m] = "lockAccounts" /\ want[m] # {}
                           /\ call[m].op \in {"post", "capture"}
             W == {a \in Accounts : \E m \in S : Locking(m) /\ a = MinOf(want[m])}
  <1>1. ASSUME NEW m \in S, Locking(m)
        PROVE  /\ want[m] \subseteq Accounts /\ MinOf(want[m]) \in want[m]
               /\ MinOf(want[m]) \in W
    <2>1. want[m] \subseteq Accounts BY <1>1 DEF EngineInv, SessionInv, AccountInv
    <2>2. MinOf(want[m]) \in want[m] BY <1>1, <2>1, SmallestElement
    <2> QED BY <1>1, <2>1, <2>2
  <1>2. PICK a \in W : \A b \in W : b =< a
    <2>1. W # {} BY <1>1, DeadlockLocksAccounts
    <2> QED BY <2>1, LargestElement
  <1>3. PICK m \in S : Locking(m) /\ a = MinOf(want[m]) OBVIOUS
  \* The owner of the largest account awaited waits for a larger one.
  <1>4. PICK q \in S : q \in Awaits(m) BY DEF Deadlocked
  <1>5. q = acctLock[a] /\ q # m BY <1>3, <1>4 DEF Awaits
  <1>6. Locking(q)
    <2>1. ~ \E h \in HoldRefs : AwaitsHold(m, h, q) BY <1>3 DEF AwaitsHold
    <2>2. \A h : ~ AwaitsHold(m, h, q) BY <1>3 DEF AwaitsHold
    <2> QED BY <1>4, <2>1, <2>2, WaitingOwners
  <1> HIDE DEF W
  <1>7. /\ want[q] \subseteq Accounts /\ MinOf(want[q]) \in want[q]
        /\ MinOf(want[q]) \in W
    BY <1>1, <1>6
  <1>8. MinOf(want[q]) =< a BY <1>2, <1>7
  <1>9. a \in Accounts /\ a \in Int /\ MinOf(want[q]) \in Int
    BY <1>2, <1>7, BoundsAssumption DEF Accounts, W
  <1>10. MinOf(want[q]) # a
    <2>1. PICK r \in S : r \in Awaits(q) BY DEF Deadlocked
    <2>2. r = acctLock[MinOf(want[q])] /\ r # q BY <1>6, <2>1 DEF Awaits
    <2> QED BY <1>5, <2>2
  <1>11. call[q].op = "capture" /\ a = holds[call[q].hold].account
    <2>1. SessionInv(q) BY <1>6 DEF EngineInv
    <2>2. \/ call[q].op = "capture" /\ a = holds[call[q].hold].account
          \/ \A w \in want[q] : a < w
      BY <1>5, <1>6, <1>9, <2>1 DEF SessionInv, AccountInv
    <2> QED BY <1>7, <1>8, <1>9, <2>2
  <1>12. MinOf(want[q]) < a BY <1>8, <1>9, <1>10
  <1>13. acctLock[holds[call[q].hold].account] = q /\ pc[q] = "lockAccounts"
    BY <1>5, <1>6, <1>11
  <1> HIDE DEF Locking
  <1> QED BY <1>11, <1>12, <1>13

\* lockAccounts takes rows in id order, so whoever owns the largest account a
\* deadlock waits for would wait for a larger one, unless Capture locked it
\* before: for any number of sessions, no other order of calls deadlocks.
THEOREM OnlyCapturesDeadlock == Spec => []DeadlockNeedsCapture
BY DeadlocksInv, EngineInvariant, PTL

-----------------------------------------------------------------------------
(* The engine implements Books                                             *)

\* Books computes on the tables with the very operators of LedgerData.
LEMMA SameSums ==
    /\ \A f, n : B!SumTo(f, n) = SumTo(f, n)
    /\ B!Accounts = Accounts /\ B!HoldRefs = HoldRefs /\ B!Directions = Directions
BY DEF B!SumTo, SumTo, B!PartialSums, PartialSums, B!Accounts, Accounts,
       B!HoldRefs, HoldRefs, B!Directions, Directions

LEMMA SamePosts ==
    /\ \A t : B!Validate(t) <=> Validate(t)
    /\ \A accs, t : B!AccountsAccept(accs, t) <=> AccountsAccept(accs, t)
    /\ \A trs, t : B!Unused(trs, t) <=> Unused(trs, t)
    /\ \A t, k, ref : B!Reversal(t, k, ref) = Reversal(t, k, ref)
    /\ \A t, h : B!Row(t, h) = Row(t, h)
    /\ \A t : B!Touched(t) = Touched(t)
    /\ B!TailHash = TailHash
PROOF
  <1>1. ASSUME NEW t PROVE B!Validate(t) <=> Validate(t)
    <2>1. \A c : B!Net(t, c) = Net(t, c) BY SameSums DEF B!Net, Net, B!Signed, Signed
    <2> QED BY <2>1, SameSums DEF B!Validate, Validate
  <1>2. ASSUME NEW accs, NEW t
        PROVE  B!AccountsAccept(accs, t) <=> AccountsAccept(accs, t)
    BY SameSums DEF B!AccountsAccept, AccountsAccept
  <1>3. ASSUME NEW trs, NEW t PROVE B!Unused(trs, t) <=> Unused(trs, t)
    BY DEF B!Unused, Unused
  <1>4. ASSUME NEW t, NEW k, NEW ref PROVE B!Reversal(t, k, ref) = Reversal(t, k, ref)
    BY DEF B!Reversal, Reversal, B!Flip, Flip
  <1>5. ASSUME NEW t, NEW h PROVE B!Row(t, h) = Row(t, h)
    BY DEF B!Row, Row, B!ChainDigest, ChainDigest
  <1>6. ASSUME NEW t PROVE B!Touched(t) = Touched(t) BY DEF B!Touched, Touched
  <1>7. B!TailHash = TailHash BY DEF B!TailHash, TailHash, B!NoHash, NoHash
  <1> QED BY <1>1, <1>2, <1>3, <1>4, <1>5, <1>6, <1>7

LEMMA SameBalances ==
    /\ \A bal, t : B!ApplyBalances(bal, t) = ApplyBalances(bal, t)
    /\ \A bal, hs, a, x : B!AvailableLocked(bal, hs, a, x) = AvailableLocked(bal, hs, a, x)
    /\ \A bal, hs, t, x : B!Covered(bal, hs, t, x) <=> Covered(bal, hs, t, x)
    /\ \A t, a, m : B!Draws(t, a, m) <=> Draws(t, a, m)
    /\ \A r : B!NewHold(r) = NewHold(r)
    /\ B!NoHold = NoHold
PROOF
  <1>1. \A t, a : B!Delta(t, a) = Delta(t, a)
    BY SameSums DEF B!Delta, Delta, B!Signed, Signed
  <1>2. \A raw, a : B!Normalise(raw, a) = Normalise(raw, a) BY DEF B!Normalise, Normalise
  <1>3. ASSUME NEW bal, NEW t PROVE B!ApplyBalances(bal, t) = ApplyBalances(bal, t)
    BY <1>1, SameSums DEF B!ApplyBalances, ApplyBalances
  <1>4. ASSUME NEW bal, NEW hs, NEW a, NEW x
        PROVE  B!AvailableLocked(bal, hs, a, x) = AvailableLocked(bal, hs, a, x)
    BY <1>2, SameSums DEF B!AvailableLocked, AvailableLocked, B!Held, Held
  <1>5. ASSUME NEW bal, NEW hs, NEW t, NEW x
        PROVE  B!Covered(bal, hs, t, x) <=> Covered(bal, hs, t, x)
    BY <1>3, <1>4, SamePosts DEF B!Covered, Covered
  <1>6. ASSUME NEW t, NEW a, NEW m PROVE B!Draws(t, a, m) <=> Draws(t, a, m)
    BY <1>1, <1>2 DEF B!Draws, Draws, B!Spent, Spent
  <1>7. ASSUME NEW r PROVE B!NewHold(r) = NewHold(r) BY DEF B!NewHold, NewHold
  <1>8. B!NoHold = NoHold BY DEF B!NoHold, NoHold
  <1> QED BY <1>3, <1>4, <1>5, <1>6, <1>7, <1>8

\* The commit of a transfer is the write of Books, all of its checks included.
LEMMA WriteMaps ==
    ASSUME EngineInv, NEW s \in Sessions, pc[s] = "commit", Writing(s), Write(s),
           accounts' = accounts
    PROVE  B!Write(call[s].arg, call[s].hold)
PROOF
  <1> DEFINE t == call[s].arg
  <1>0. TypeOK /\ SessionInv(s) BY DEF EngineInv
  <1>1. /\ transfers' = Append(transfers, Row(t, TailHash))
        /\ balances' = ApplyBalances(balances, t)
    BY CommitWrites
  <1>2. Validate(t) BY <1>0, CallArguments DEF SessionInv
  <1>3. /\ AccountsAccept(accounts, t) /\ Unused(transfers, t)
        /\ Covered(balances, holds, t, call[s].hold)
    BY <1>0 DEF SessionInv, AccountInv, ChainInv, InChain, Late
  <1> QED BY <1>1, <1>2, <1>3, SamePosts, SameBalances DEF B!Write

LEMMA CommitMaps ==
    ASSUME EngineInv, NEW s \in Sessions, Commit(s)
    PROVE  B!Next
PROOF
  <1> DEFINE t == call[s].arg
             h == call[s].hold
             op == call[s].op
  <1>0. TypeOK /\ SessionInv(s) /\ s \in Procs BY DEF EngineInv, Procs
  <1>1. pc[s] = "commit" /\ accounts' = accounts BY DEF Commit
  <1>2. op \in {"post", "capture", "hold", "release"} BY DEF Commit
  <1>3. CASE op = "post"
    <2>1. Write(s) /\ holds' = holds /\ Writing(s) BY <1>3 DEF Commit, Writing
    <2>2. B!Write(t, 0) BY <1>0, <1>1, <1>3, <2>1, WriteMaps DEF SessionInv, CallInv, NoCall
    <2>3. \/ t \in Requests
          \/ \E k \in DOMAIN transfers, ref \in ReversalRefs :
                t = Reversal(transfers[k], k, ref)
      BY <1>0, <1>3 DEF SessionInv, CallInv, NoCall
    <2>4. CASE t \in Requests
      <3>1. B!Post(t) BY <2>1, <2>2 DEF B!Post
      <3> QED BY <2>4, <3>1 DEF B!Next
    <2>5. ASSUME NEW k \in DOMAIN transfers, NEW ref \in ReversalRefs,
                 t = Reversal(transfers[k], k, ref)
          PROVE  B!Next
      <3>1. B!Reverse(k, ref) BY <2>1, <2>2, <2>5, SamePosts DEF B!Reverse
      <3> QED BY <3>1 DEF B!Next
    <2> QED BY <2>3, <2>4, <2>5
  <1>4. ASSUME op # "post"
        PROVE  /\ h \in HoldRefs
               /\ holds[h].status = IF op = "hold" THEN "none" ELSE "active"
    <2>1. h \in HoldRefs
      BY <1>0, <1>2, <1>4, CallArguments DEF SessionInv, CallInv, NoCall
    <2> QED BY <1>0, <1>1, <1>2, <1>4, <2>1 DEF SessionInv, HoldInv, Late
  <1>5. CASE op = "capture"
    <2>1. /\ Write(s) /\ Writing(s)
          /\ holds' = [holds EXCEPT ![h].status = "captured", ![h].transfer = newId[s]]
      BY <1>5 DEF Commit, Writing
    <2>2. B!Write(t, h) BY <1>1, <2>1, WriteMaps
    <2>3. newId[s] = Len(transfers) + 1 BY <1>1, <2>1, CommitWrites
    <2>4. Draws(t, holds[h].account, holds[h].amount)
      BY <1>0, <1>1, <1>5 DEF SessionInv, HoldInv, Late
    <2>5. <<h, t>> \in CaptureRequests BY <1>0, <1>5 DEF SessionInv, CallInv, NoCall
    <2>6. B!Capture(h, t)
      BY <1>4, <1>5, <2>1, <2>2, <2>3, <2>4, SameBalances DEF B!Capture
    <2>7. B!Capture(<<h, t>>[1], <<h, t>>[2]) BY <2>6
    <2> QED BY <2>5, <2>7 DEF B!Next
  <1>6. CASE op = "hold"
    <2>1. /\ holds' = [holds EXCEPT ![h] = NewHold(t)]
          /\ UNCHANGED <<accounts, transfers, balances>>
      BY <1>6 DEF Commit
    <2>2. t \in HoldRequests /\ h = t.reference /\ h # 0 /\ t.amount > 0
      BY <1>0, <1>6 DEF SessionInv, CallInv, NoCall
    <2>3. /\ t.account \in Accounts /\ accounts[t.account] = "open"
          /\ Chart[t.account].currency = t.currency
          /\ ~ Chart[t.account].allowNegative
               => AvailableLocked(balances, holds, t.account, 0) >= t.amount
      BY <1>0, <1>1, <1>6 DEF SessionInv, AccountInv
    <2>4. B!PlaceHold(t)
      BY <1>4, <1>6, <2>1, <2>2, <2>3, SameSums, SameBalances DEF B!PlaceHold
    <2> QED BY <2>2, <2>4 DEF B!Next
  <1>7. CASE op = "release"
    <2>1. /\ holds' = [holds EXCEPT ![h].status = "released"]
          /\ UNCHANGED <<accounts, transfers, balances>>
      BY <1>7 DEF Commit
    <2>2. B!Release(h) BY <1>4, <1>7, <2>1 DEF B!Release
    <2> QED BY <1>4, <1>7, <2>2, SameSums DEF B!Next
  <1> QED BY <1>2, <1>3, <1>5, <1>6, <1>7

\* The holds in H, active and with an expiry, expire together.
LEMMA ExpiryMaps ==
    ASSUME NEW H \in SUBSET HoldRefs, UNCHANGED <<accounts, transfers, balances>>,
           \A h \in H : holds[h].status = "active" /\ holds[h].expires,
           holds' = [h \in HoldRefs |->
                       IF h \in H THEN [holds[h] EXCEPT !.status = "expired"] ELSE holds[h]]
    PROVE  B!Next
PROOF
  <1>1. B!Expire(H) BY SameSums DEF B!Expire
  <1> QED BY <1>1, SameSums DEF B!Next

LEMMA MarkExpiredMaps ==
    ASSUME EngineInv, NEW s \in Sessions, MarkExpired(s)
    PROVE  [B!Next]_(B!vars)
PROOF
  <1>0. TypeOK /\ RowsInv /\ SessionInv(s) BY DEF EngineInv
  <1> DEFINE g == call[s].hold
  <1>1. /\ pc[s] = "markExpired" /\ UNCHANGED <<accounts, transfers, balances>>
        /\ holds' = IF holds[g].status = "active"
                    THEN [holds EXCEPT ![g].status = "expired"] ELSE holds
    BY DEF MarkExpired
  <1>2. CASE holds[g].status = "active"
    <2>1. call[s].op = "capture" /\ g \in pastDue["app"]
      BY <1>0, <1>1 DEF SessionInv, CallInv, Late
    <2>2. g \in HoldRefs /\ holds[g].expires
      BY <1>0, <2>1, CallArguments DEF SessionInv, RowsInv
    <2>3. holds \in [HoldRefs -> HoldRow] BY <1>0 DEF TypeOK
    <2> HIDE DEF g
    <2>4. holds' = [holds EXCEPT ![g].status = "expired"] BY <1>1, <1>2
    <2>5. holds' = [h \in HoldRefs |->
                      IF h \in {g} THEN [holds[h] EXCEPT !.status = "expired"] ELSE holds[h]]
      BY <2>2, <2>3, <2>4
    <2>6. B!Next BY <1>1, <1>2, <2>2, <2>5, ExpiryMaps
    <2> QED BY <2>6
  <1>3. CASE holds[g].status # "active" BY <1>1, <1>3 DEF B!vars
  <1> QED BY <1>2, <1>3

LEMMA SweepMaps ==
    ASSUME EngineInv, SweepCommit
    PROVE  B!Next
PROOF
  <1> DEFINE H == {h \in HoldRefs : holdLock[h] = Sweeper}
  <1>1. \A h \in H : holds[h].status = "active" /\ holds[h].expires
    BY DEF EngineInv, SweepInv, RowsInv
  <1>2. holds' = [h \in HoldRefs |->
                    IF h \in H THEN [holds[h] EXCEPT !.status = "expired"] ELSE holds[h]]
    BY DEF SweepCommit
  <1>3. H \in SUBSET HoldRefs /\ UNCHANGED <<accounts, transfers, balances>>
    BY DEF SweepCommit
  <1> HIDE DEF H
  <1> QED BY <1>1, <1>2, <1>3, ExpiryMaps

LEMMA AccountMaps ==
    ASSUME EngineInv, NEW a, \/ a \in Accounts /\ CreateAccount(a)
                             \/ a \in Archivable /\ Archive(a)
    PROVE  [B!Next]_(B!vars)
PROOF
  <1>1. CASE a \in Accounts /\ CreateAccount(a)
    <2>1. B!CreateAccount(a) BY <1>1 DEF CreateAccount, B!CreateAccount
    <2> QED BY <1>1, <2>1, SameSums DEF B!Next
  <1>2. CASE a \in Accounts /\ Archive(a)
    <2>1. B!Archive(a) BY <1>2 DEF Archive, B!Archive
    <2> QED BY <1>2, <2>1, SameSums DEF B!Next
  <1>3. CASE a \notin Accounts /\ Archive(a)
    <2>1. accounts' = accounts BY <1>3 DEF Archive, EngineInv, TypeOK
    <2> QED BY <1>3, <2>1 DEF Archive, B!vars
  <1> QED BY <1>1, <1>2, <1>3

\* Of the statements of a transaction only its commit shows in the tables.
LEMMA StatementMaps ==
    ASSUME NEW s \in Sessions, CallAny(s) \/ Acquire(s) \/ Proceed(s),
           ~ Commit(s), ~ MarkExpired(s)
    PROVE  UNCHANGED B!vars
PROOF
  <1> USE DEF B!vars, tables, Refuse
  <1>1. CASE CallAny(s)
    BY <1>1 DEF CallAny, CallPost, CallReverse, CallHold, CallCapture, CallRelease, Begin
  <1>2. CASE LockAccounts(s) \/ LockChain(s) \/ LockAccount(s) \/ InsertHold(s)
    BY <1>2 DEF LockAccounts, LockChain, LockAccount, InsertHold
  <1>3. CASE LockHold(s) \/ LockHeld(s) BY <1>3 DEF LockHold, LockHeld
  <1>4. CASE CheckAccounts(s) \/ ReadTail(s) \/ Insert(s) \/ Guard(s) \/ CheckHold(s)
    BY <1>4 DEF CheckAccounts, ReadTail, Insert, Guard, CheckHold
  <1> QED BY <1>1, <1>2, <1>3, <1>4 DEF Acquire, Proceed

LEMMA StepMaps == EngineInv /\ [Next]_vars => [B!Next]_(B!vars)
PROOF
  <1> SUFFICES ASSUME EngineInv, [Next]_vars PROVE [B!Next]_(B!vars) OBVIOUS
  <1>1. ASSUME NEW s \in Sessions, CallAny(s) \/ Acquire(s) \/ Proceed(s)
        PROVE  [B!Next]_(B!vars)
    BY <1>1, StatementMaps, CommitMaps, MarkExpiredMaps
  <1>2. ASSUME NEW a, \/ a \in Accounts /\ CreateAccount(a)
                      \/ a \in Archivable /\ Archive(a)
        PROVE  [B!Next]_(B!vars)
    BY <1>2, AccountMaps
  <1>3. CASE SweepCommit BY <1>3, SweepMaps
  <1>4. CASE \/ SweepStart
             \/ \E h \in HoldRefs : SweepRow(h)
             \/ \E clock \in {"app", "db"}, h \in HoldRefs : Lapse(clock, h)
             \/ \E p \in Procs : Abort(p)
             \/ UNCHANGED vars
    BY <1>4 DEF SweepStart, SweepRow, Lapse, Abort, vars, tables, B!vars
  <1> QED BY <1>1, <1>2, <1>3, <1>4 DEF Next, Step

LEMMA InitMaps == Init => B!Init
BY SameSums, SameBalances DEF Init, B!Init

\* Whatever the sessions, the sweep and the crashes do, the committed tables
\* move as Books lets them: every transaction of store.go and hold.go takes
\* effect at its commit, whole, or not at all.
THEOREM EngineImplementsBooks == Spec => ImplementsBooks
PROOF
  <1>1. EngineInv /\ [Next]_vars => [B!Next]_(B!vars) BY StepMaps
  <1> QED BY <1>1, InitMaps, EngineInvariant, PTL DEF Spec, ImplementsBooks, B!Spec

-----------------------------------------------------------------------------
(* What is proved of Books holds of the engine.  P is BooksProofs over the *)
(* same tables; its definitions and those of B expand to one formula.      *)

P == INSTANCE BooksProofs

LEMMA SameAssumptions ==
    /\ Accounts = P!Accounts /\ HoldRefs = P!HoldRefs
    /\ RawTransfer = P!RawTransfer /\ HoldRequest = P!HoldRequest
BY DEF Accounts, P!Accounts, HoldRefs, P!HoldRefs, RawTransfer, P!RawTransfer,
       RawPosting, P!RawPosting, Directions, P!Directions, HoldRequest, P!HoldRequest

LEMMA SameData ==
    /\ B!Accounts = P!Accounts /\ B!HoldRefs = P!HoldRefs
    /\ \A f, n : B!SumTo(f, n) = P!SumTo(f, n)
    /\ \A t, a : B!Delta(t, a) = P!Delta(t, a)
    /\ \A t, a : B!Spent(t, a) = P!Spent(t, a)
    /\ \A t, c : B!Net(t, c) = P!Net(t, c)
    /\ \A hs, a, x : B!Held(hs, a, x) = P!Held(hs, a, x)
    /\ \A bal, hs, a, x : B!AvailableLocked(bal, hs, a, x) = P!AvailableLocked(bal, hs, a, x)
BY DEF B!Accounts, P!Accounts, B!HoldRefs, P!HoldRefs, B!Delta, P!Delta, B!Spent, P!Spent,
       B!Net, P!Net, B!Held, P!Held, B!AvailableLocked, P!AvailableLocked,
       B!Normalise, P!Normalise, B!Signed, P!Signed,
       B!SumTo, P!SumTo, B!PartialSums, P!PartialSums

LEMMA SameWrite == \A t, x : B!Write(t, x) => P!Write(t, x)
PROOF
  <1>1. \A bal, t : B!ApplyBalances(bal, t) = P!ApplyBalances(bal, t)
    BY SameData DEF B!ApplyBalances, P!ApplyBalances
  <1>2. \A t : B!Validate(t) => P!Validate(t)
    BY SameData DEF B!Validate, P!Validate, B!Directions, P!Directions
  <1>3. \A bal, hs, t, x : B!Covered(bal, hs, t, x) => P!Covered(bal, hs, t, x)
    BY <1>1, SameData DEF B!Covered, P!Covered, B!Touched, P!Touched
  <1> QED
    BY <1>1, <1>2, <1>3, SameData
    DEF B!Write, P!Write, B!TailHash, P!TailHash, B!NoHash, P!NoHash, B!Row, P!Row,
        B!ChainDigest, P!ChainDigest, B!AccountsAccept, P!AccountsAccept, B!Unused, P!Unused

LEMMA SameNext == [B!Next]_(B!vars) => [P!Next]_(P!vars)
PROOF
  <1>1. \A t : B!Post(t) => P!Post(t) BY SameWrite DEF B!Post, P!Post
  <1>2. \A k, ref : B!Reverse(k, ref) => P!Reverse(k, ref)
    BY SameWrite DEF B!Reverse, P!Reverse, B!Reversal, P!Reversal, B!Flip, P!Flip
  <1>3. \A r : B!PlaceHold(r) => P!PlaceHold(r)
    BY SameData DEF B!PlaceHold, P!PlaceHold, B!NewHold, P!NewHold
  <1>4. \A h, t : B!Capture(h, t) => P!Capture(h, t)
    BY SameWrite, SameData DEF B!Capture, P!Capture, B!Draws, P!Draws
  <1>5. \A h : B!Release(h) => P!Release(h) BY DEF B!Release, P!Release
  <1>6. \A H : B!Expire(H) => P!Expire(H) BY SameData DEF B!Expire, P!Expire
  <1>7. \A a : /\ B!CreateAccount(a) => P!CreateAccount(a)
               /\ B!Archive(a) => P!Archive(a)
    BY DEF B!CreateAccount, P!CreateAccount, B!Archive, P!Archive
  <1> QED BY <1>1, <1>2, <1>3, <1>4, <1>5, <1>6, <1>7, SameData
          DEF B!Next, P!Next, B!vars, P!vars

LEMMA SameInit == B!Init => P!Init
BY SameData DEF B!Init, P!Init, B!NoHold, P!NoHold

\* What verify and the documentation promise of the tables.
BooksHold ==
    /\ B!GuardHolds /\ B!SumZero /\ B!BalancesMatchPostings
    /\ B!ChainIntact /\ B!ReversalsCancel /\ B!CapturesSettle

LEMMA SamePromises == P!BooksInv => BooksHold
PROOF
  <1>1. P!GuardHolds => B!GuardHolds BY SameData DEF B!GuardHolds, P!GuardHolds
  <1>2. P!SumZeroInv => B!SumZero
    <2>1. B!CheckTransfersBalance(transfers) = P!CheckTransfersBalance(transfers)
      BY SameData DEF B!CheckTransfersBalance, P!CheckTransfersBalance
    <2>2. \A c : B!TrialBalance(accounts, balances, c) = P!TrialBalance(accounts, balances, c)
      BY SameData DEF B!TrialBalance, P!TrialBalance
    <2> QED BY <2>1, <2>2 DEF P!SumZeroInv, B!SumZero, P!SumZero,
               B!CheckTrialBalance, P!CheckTrialBalance
  <1>3. P!BalancesMatchPostings => B!BalancesMatchPostings
    <2>1. \A a : B!PostingsTotal(transfers, a) = P!PostingsTotal(transfers, a)
      BY SameData DEF B!PostingsTotal, P!PostingsTotal
    <2> QED BY <2>1, SameData DEF P!BalancesMatchPostings, B!BalancesMatchPostings,
               B!CheckBalancesMatchPostings, P!CheckBalancesMatchPostings
  <1>4. P!ChainIntact => B!ChainIntact
    BY DEF P!ChainIntact, B!ChainIntact, B!CheckChain, P!CheckChain, B!NoHash, P!NoHash,
       B!ChainDigest, P!ChainDigest, B!Content, P!Content
  <1>5. P!ReversalsCancel => B!ReversalsCancel
    BY SameData DEF P!ReversalsCancel, B!ReversalsCancel
  <1>6. P!CapturesSettle => B!CapturesSettle
    BY SameData DEF P!CapturesSettle, B!CapturesSettle
  <1> QED BY <1>1, <1>2, <1>3, <1>4, <1>5, <1>6 DEF BooksHold, P!BooksInv

LEMMA BooksPreserved ==
    /\ Init => P!BooksInv
    /\ EngineInv /\ P!BooksInv /\ [Next]_vars => P!BooksInv' /\ P!Frozen
PROOF
  <1>1. Init => P!BooksInv
    BY InitMaps, SameInit, P!BooksInit, SameAssumptions, BoundsAssumption,
       ChartAssumption, RequestsAssumption
  <1>2. ASSUME EngineInv, P!BooksInv, [Next]_vars PROVE P!BooksInv' /\ P!Frozen
    <2>1. [P!Next]_(P!vars) BY <1>2, StepMaps, SameNext
    <2> QED BY <1>2, <2>1, P!BooksStep, SameAssumptions, BoundsAssumption,
               ChartAssumption, RequestsAssumption
  <1> QED BY <1>1, <1>2

\* The running engine keeps the books: under any interleaving of transactions,
\* sweeps and crashes the committed tables never overdraw a guarded account,
\* net to zero, match their postings, form one chain, and undo a transfer or
\* settle a hold at most once.
THEOREM EngineKeepsBooks == Spec => []BooksHold
PROOF
  <1>1. EngineInv /\ P!BooksInv /\ [Next]_vars => P!BooksInv' BY BooksPreserved
  <1>2. Init => P!BooksInv BY BooksPreserved
  <1>3. P!BooksInv => BooksHold BY SamePromises
  <1> QED BY <1>1, <1>2, <1>3, EngineInvariant, PTL DEF Spec

\* An account archived while others run is closed for good.
THEOREM EngineFreezesArchived == Spec => B!ArchivedIsFrozen
PROOF
  <1>1. EngineInv /\ P!BooksInv /\ [Next]_vars => P!BooksInv' BY BooksPreserved
  <1>2. Init => P!BooksInv BY BooksPreserved
  <1>3. EngineInv /\ P!BooksInv /\ [Next]_vars
          => [\A a \in B!Accounts :
                accounts[a] = "archived" =>
                  /\ accounts'[a] = "archived"
                  /\ balances'[a] = balances[a]
                  /\ B!Held(holds', a, 0) =< B!Held(holds, a, 0)]_(B!vars)
    BY BooksPreserved, SameData DEF P!Frozen
  <1> QED BY <1>1, <1>2, <1>3, EngineInvariant, PTL DEF Spec, B!ArchivedIsFrozen

=============================================================================
