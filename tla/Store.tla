------------------------------- MODULE Store --------------------------------
(***************************************************************************)
(* The engine of store.go and hold.go as it runs: every caller is a        *)
(* session with its own database transaction, every SQL statement a step,  *)
(* and the sessions interleave.  Postgres runs them at READ COMMITTED: a   *)
(* statement reads what is committed when it starts plus the transaction's *)
(* own writes, row and advisory locks are held to the end of the           *)
(* transaction, and a statement that waited for a row re-reads it.  A      *)
(* transaction's writes reach the tables at Commit; until then only the    *)
(* locks it owns are visible to others.  ExpireHolds runs beside the       *)
(* sessions, on the ticker of cmd/sumzero.                                 *)
(***************************************************************************)
EXTENDS Verify, FiniteSets

CONSTANTS
    Sessions,    \* concurrent callers of the ledger
    Sweeper,     \* the housekeeping goroutine
    Nobody,      \* the owner of a free lock
    Archivable   \* accounts somebody may archive

ASSUME SessionsAssumption ==
    Sweeper \notin Sessions /\ Nobody \notin Sessions /\ Sweeper # Nobody

Procs == Sessions \cup {Sweeper}

VARIABLES
    accounts, transfers, balances, holds,  \* the committed tables, as in Books
    acctLock,   \* [Accounts -> Procs \cup {Nobody}], FOR UPDATE on accounts rows
    holdLock,   \* same for holds rows, and for a reference being inserted
    chainLock,  \* the advisory lock chainLockKey
    pc,         \* the statement each process executes next
    call,       \* the call each session is serving
    want,       \* rows a multi-row statement has yet to lock
    link,       \* prev: the tail hash post has read
    newId,      \* the id INSERT INTO transfers returned
    pastDue     \* the holds whose expiry each clock has passed

tables == <<accounts, transfers, balances, holds>>
locks == <<acctLock, holdLock, chainLock>>
locals == <<pc, call, want, link, newId>>
vars == <<tables, locks, locals, pastDue>>

NoCall == [op |-> "none", arg |-> << >>, hold |-> 0]

MinOf(S) == CHOOSE a \in S : \A b \in S : a =< b

Init ==
    /\ accounts = [a \in Accounts |-> IF a \in InitiallyOpen THEN "open" ELSE "none"]
    /\ transfers = << >>
    /\ balances = [a \in Accounts |-> 0]
    /\ holds = [h \in HoldRefs |-> NoHold]
    /\ acctLock = [a \in Accounts |-> Nobody]
    /\ holdLock = [h \in HoldRefs |-> Nobody]
    /\ chainLock = Nobody
    /\ pc = [p \in Procs |-> "idle"]
    /\ call = [p \in Procs |-> NoCall]
    /\ want = [p \in Procs |-> {}]
    /\ link = [p \in Procs |-> NoHash]
    /\ newId = [p \in Procs |-> 0]
    /\ pastDue = [clock \in {"app", "db"} |-> {}]

-----------------------------------------------------------------------------
(* The end of a transaction releases its locks and forgets its locals.     *)

\* Mutant: a session-level advisory lock outlives the transaction.
UnlockRowsOnly(p) ==
    /\ acctLock' = [a \in Accounts |-> IF acctLock[a] = p THEN Nobody ELSE acctLock[a]]
    /\ holdLock' = [h \in HoldRefs |-> IF holdLock[h] = p THEN Nobody ELSE holdLock[h]]
    /\ chainLock' = chainLock

Unlock(p) ==
    /\ acctLock' = [a \in Accounts |-> IF acctLock[a] = p THEN Nobody ELSE acctLock[a]]
    /\ holdLock' = [h \in HoldRefs |-> IF holdLock[h] = p THEN Nobody ELSE holdLock[h]]
    /\ chainLock' = IF chainLock = p THEN Nobody ELSE chainLock

Forget(p) ==
    /\ pc' = [pc EXCEPT ![p] = "idle"]
    /\ call' = [call EXCEPT ![p] = NoCall]
    /\ want' = [want EXCEPT ![p] = {}]
    /\ link' = [link EXCEPT ![p] = NoHash]
    /\ newId' = [newId EXCEPT ![p] = 0]

\* A check failed: the deferred Rollback runs and the caller gets the error err.
Refuse(s, err) == Unlock(s) /\ Forget(s) /\ UNCHANGED <<tables, pastDue>>

\* The connection is lost, the process dies, the context is cancelled or
\* Postgres picks the transaction to break a deadlock.
Abort(p) ==
    /\ pc[p] # "idle"
    /\ Unlock(p) /\ Forget(p)
    /\ UNCHANGED <<tables, pastDue>>

Goto(p, label) == pc' = [pc EXCEPT ![p] = label]

-----------------------------------------------------------------------------
(* Calls.  Arguments a call rejects before touching the database change    *)
(* nothing and are left out.                                               *)

Begin(s, op, arg, hold, label) ==
    /\ pc[s] = "idle"
    /\ call' = [call EXCEPT ![s] = [op |-> op, arg |-> arg, hold |-> hold]]
    /\ Goto(s, label)
    /\ UNCHANGED <<tables, locks, link, newId, pastDue>>

\* The rows SELECT ... WHERE id = ANY($1) FOR UPDATE finds when it starts.
Existing(t) == {a \in Touched(t) \cap Accounts : accounts[a] # "none"}

CallPost(s, t) ==
    /\ Validate(t)
    /\ Begin(s, "post", t, 0, "lockAccounts")
    /\ want' = [want EXCEPT ![s] = Existing(t)]

\* Reverse reads the original before its transaction, then posts.
CallReverse(s, k, newReference) ==
    LET t == Reversal(transfers[k], k, newReference) IN
    /\ Validate(t)
    /\ Begin(s, "post", t, 0, "lockAccounts")
    /\ want' = [want EXCEPT ![s] = Existing(t)]

CallHold(s, r) ==
    /\ r.reference # 0 /\ r.amount > 0
    /\ Begin(s, "hold", r, r.reference, "lockAccount")
    /\ UNCHANGED want

CallCapture(s, h, t) ==
    /\ Validate(t)
    /\ Begin(s, "capture", t, h, "lockHold")
    /\ UNCHANGED want

CallRelease(s, h) ==
    /\ Begin(s, "release", << >>, h, "lockHold")
    /\ UNCHANGED want

-----------------------------------------------------------------------------
(* post: lockAccounts, one row at a time in id order.                      *)

\* Mutant: no ORDER BY.
LockAccountsAnyOrder(s) ==
    /\ pc[s] = "lockAccounts"
    /\ \E a \in want[s] :
       /\ acctLock[a] \in {Nobody, s}
       /\ acctLock' = [acctLock EXCEPT ![a] = s]
       /\ want' = [want EXCEPT ![s] = @ \ {a}]
    /\ UNCHANGED <<tables, holdLock, chainLock, pc, call, link, newId, pastDue>>

LockAccounts(s) ==
    /\ pc[s] = "lockAccounts" /\ want[s] # {}
    /\ LET a == MinOf(want[s]) IN
       /\ acctLock[a] \in {Nobody, s}
       /\ acctLock' = [acctLock EXCEPT ![a] = s]
       /\ want' = [want EXCEPT ![s] = @ \ {a}]
    /\ UNCHANGED <<tables, holdLock, chainLock, pc, call, link, newId, pastDue>>

CheckAccounts(s) ==
    /\ pc[s] = "lockAccounts" /\ want[s] = {}
    /\ LET t == call[s].arg IN
       IF /\ \A a \in Touched(t) : a \in Accounts /\ acctLock[a] = s
          /\ AccountsAccept(accounts, t)
       THEN Goto(s, "lockChain") /\ UNCHANGED <<tables, locks, call, want, link, newId, pastDue>>
       ELSE Refuse(s, "unknown account, archived account or currency mismatch")

\* Mutant: the chain is not locked.
LockChainNot(s) ==
    /\ pc[s] = "lockChain"
    /\ Goto(s, "readTail")
    /\ UNCHANGED <<tables, locks, call, want, link, newId, pastDue>>

LockChain(s) ==
    /\ pc[s] = "lockChain" /\ chainLock = Nobody
    /\ chainLock' = s
    /\ Goto(s, "readTail")
    /\ UNCHANGED <<tables, acctLock, holdLock, call, want, link, newId, pastDue>>

MaxId == IF DOMAIN transfers = {} THEN 0
         ELSE CHOOSE k \in DOMAIN transfers : \A j \in DOMAIN transfers : j =< k

ReadTail(s) ==
    /\ pc[s] = "readTail"
    /\ link' = [link EXCEPT ![s] = IF MaxId = 0 THEN NoHash ELSE transfers[MaxId].hash]
    /\ Goto(s, "insert")
    /\ UNCHANGED <<tables, locks, call, want, newId, pastDue>>

\* Mutant: ids from a row count.
CountId == Cardinality(DOMAIN transfers)

\* An id above every id handed out so far, to a committed row or a pending one.
FreshId ==
    LET used == DOMAIN transfers \cup {newId[p] : p \in Procs} \cup {0}
    IN  1 + CHOOSE k \in used : \A j \in used : j =< k

\* INSERT INTO transfers, its postings and the balances.
Insert(s) ==
    /\ pc[s] = "insert"
    /\ IF Unused(transfers, call[s].arg)
       THEN /\ newId' = [newId EXCEPT ![s] = FreshId]
            /\ Goto(s, "guard")
            /\ UNCHANGED <<tables, locks, call, want, link, pastDue>>
       ELSE Refuse(s, "duplicate reference or already reversed")

\* The overdraft guard, on the balances this transaction has just moved.
Guard(s) ==
    /\ pc[s] = "guard"
    /\ IF Covered(balances, holds, call[s].arg, call[s].hold)
       THEN Goto(s, "commit") /\ UNCHANGED <<tables, locks, call, want, link, newId, pastDue>>
       ELSE Refuse(s, "insufficient funds")

-----------------------------------------------------------------------------
(* Hold: lock the account, check, insert.                                  *)

LockAccount(s) ==
    /\ pc[s] = "lockAccount"
    /\ LET a == call[s].arg.account IN
       IF a \notin Accounts \/ (a \in Accounts /\ accounts[a] = "none")
       THEN Refuse(s, "unknown account")
       ELSE /\ acctLock[a] = Nobody
            /\ acctLock' = [acctLock EXCEPT ![a] = s]
            /\ Goto(s, "checkHold")
            /\ UNCHANGED <<tables, holdLock, chainLock, call, want, link, newId, pastDue>>

CheckHold(s) ==
    /\ pc[s] = "checkHold"
    /\ LET r == call[s].arg IN
       IF /\ accounts[r.account] = "open"
          /\ Chart[r.account].currency = r.currency
          /\ ~ Chart[r.account].allowNegative
               => AvailableLocked(balances, holds, r.account, 0) >= r.amount
       THEN Goto(s, "insertHold") /\ UNCHANGED <<tables, locks, call, want, link, newId, pastDue>>
       ELSE Refuse(s, "archived account, currency mismatch or insufficient funds")

\* The unique index rejects a committed reference and waits for a pending one.
InsertHold(s) ==
    /\ pc[s] = "insertHold"
    /\ LET h == call[s].hold IN
       IF holds[h].status # "none"
       THEN Refuse(s, "duplicate reference")
       ELSE /\ holdLock[h] = Nobody
            /\ holdLock' = [holdLock EXCEPT ![h] = s]
            /\ Goto(s, "commit")
            /\ UNCHANGED <<tables, acctLock, chainLock, call, want, link, newId, pastDue>>

-----------------------------------------------------------------------------
(* Capture and Release: lock the hold, check it.                           *)

LockHold(s) ==
    /\ pc[s] = "lockHold"
    /\ LET h == call[s].hold IN
       \/ /\ holds[h].status = "none"
          /\ Refuse(s, "unknown hold")
       \/ /\ holds[h].status # "none" /\ holdLock[h] = Nobody
          /\ holds[h].status # "active"
          /\ Refuse(s, "hold not active")
       \/ /\ holds[h].status = "active" /\ holdLock[h] = Nobody
          /\ call[s].op = "capture" /\ h \in pastDue["app"]
          /\ Goto(s, "markExpired")    \* the transaction rolls back first
          /\ UNCHANGED <<tables, locks, call, want, link, newId, pastDue>>
       \/ /\ holds[h].status = "active" /\ holdLock[h] = Nobody
          /\ ~ (call[s].op = "capture" /\ h \in pastDue["app"])
          /\ holdLock' = [holdLock EXCEPT ![h] = s]
          /\ Goto(s, IF call[s].op = "capture" THEN "lockHeld" ELSE "commit")
          /\ UNCHANGED <<tables, acctLock, chainLock, call, want, link, newId, pastDue>>

\* Mutant: without AND status = 'active'.
MarkExpiredAlways(s) ==
    /\ pc[s] = "markExpired" /\ holdLock[call[s].hold] = Nobody
    /\ holds' = [holds EXCEPT ![call[s].hold].status = "expired"]
    /\ Forget(s)
    /\ UNCHANGED <<accounts, transfers, balances, locks, pastDue>>

\* Capture outside its rolled-back transaction.
MarkExpired(s) ==
    /\ pc[s] = "markExpired"
    /\ LET h == call[s].hold IN
       /\ holdLock[h] = Nobody
       /\ holds' = IF holds[h].status = "active"
                   THEN [holds EXCEPT ![h].status = "expired"] ELSE holds
    /\ Forget(s)
    /\ UNCHANGED <<accounts, transfers, balances, locks, pastDue>>

\* Capture locks the held account, then goes on as post.
LockHeld(s) ==
    /\ pc[s] = "lockHeld"
    /\ LET a == holds[call[s].hold].account
           t == call[s].arg IN
       /\ acctLock[a] = Nobody
       /\ IF Draws(t, a, holds[call[s].hold].amount)
          THEN /\ acctLock' = [acctLock EXCEPT ![a] = s]
               /\ want' = [want EXCEPT ![s] = Existing(t)]
               /\ Goto(s, "lockAccounts")
               /\ UNCHANGED <<tables, holdLock, chainLock, call, link, newId, pastDue>>
          ELSE Refuse(s, "capture mismatch")

-----------------------------------------------------------------------------
(* Commit: the transaction's writes become visible and its locks go.       *)

Write(s) ==
    /\ transfers' = [k \in DOMAIN transfers \cup {newId[s]} |->
                        IF k = newId[s] THEN Row(call[s].arg, link[s]) ELSE transfers[k]]
    /\ balances' = ApplyBalances(balances, call[s].arg)

Commit(s) ==
    /\ pc[s] = "commit"
    /\ LET h == call[s].hold IN
       \/ /\ call[s].op = "post"
          /\ Write(s)
          /\ UNCHANGED holds
       \/ /\ call[s].op = "capture"
          /\ Write(s)
          /\ holds' = [holds EXCEPT ![h].status = "captured", ![h].transfer = newId[s]]
       \/ /\ call[s].op = "hold"
          /\ holds' = [holds EXCEPT ![h] = NewHold(call[s].arg)]
          /\ UNCHANGED <<transfers, balances>>
       \/ /\ call[s].op = "release"
          /\ holds' = [holds EXCEPT ![h].status = "released"]
          /\ UNCHANGED <<transfers, balances>>
    /\ Unlock(s) /\ Forget(s)
    /\ UNCHANGED <<accounts, pastDue>>

-----------------------------------------------------------------------------
(* Statements that are transactions of their own.                          *)

CreateAccount(a) ==
    /\ accounts[a] = "none"
    /\ accounts' = [accounts EXCEPT ![a] = "open"]
    /\ UNCHANGED <<transfers, balances, holds, locks, locals, pastDue>>

\* Mutant: archiving does not wait for transactions using the account.
ArchiveAtOnce(a) ==
    /\ accounts[a] # "none"
    /\ accounts' = [accounts EXCEPT ![a] = "archived"]
    /\ UNCHANGED <<transfers, balances, holds, locks, locals, pastDue>>

\* The UPDATE waits for the row lock of a transaction using the account.
Archive(a) ==
    /\ accounts[a] # "none" /\ acctLock[a] = Nobody
    /\ accounts' = [accounts EXCEPT ![a] = "archived"]
    /\ UNCHANGED <<transfers, balances, holds, locks, locals, pastDue>>

(* ExpireHolds: one UPDATE picks the due rows, locks them in any order,    *)
(* skips those no longer active, and expires the rest together.            *)

\* Mutant: the sweep compares against the application's clock.
SweepByAppClock ==
    /\ pc[Sweeper] = "idle"
    /\ LET due == {h \in pastDue["app"] : holds[h].status = "active"} IN
       /\ due # {}
       /\ want' = [want EXCEPT ![Sweeper] = due]
    /\ Goto(Sweeper, "sweep")
    /\ UNCHANGED <<tables, locks, call, link, newId, pastDue>>

SweepStart ==
    /\ pc[Sweeper] = "idle"
    /\ LET due == {h \in pastDue["db"] : holds[h].status = "active"} IN
       /\ due # {}
       /\ want' = [want EXCEPT ![Sweeper] = due]
    /\ Goto(Sweeper, "sweep")
    /\ UNCHANGED <<tables, locks, call, link, newId, pastDue>>

\* Mutant: the sweep takes a row another transaction has locked.
SweepLockedRow(h) ==
    /\ pc[Sweeper] = "sweep" /\ h \in want[Sweeper]
    /\ holdLock' = IF holds[h].status = "active"
                   THEN [holdLock EXCEPT ![h] = Sweeper] ELSE holdLock
    /\ want' = [want EXCEPT ![Sweeper] = @ \ {h}]
    /\ UNCHANGED <<tables, acctLock, chainLock, pc, call, link, newId, pastDue>>

SweepRow(h) ==
    /\ pc[Sweeper] = "sweep" /\ h \in want[Sweeper] /\ holdLock[h] = Nobody
    /\ holdLock' = IF holds[h].status = "active"
                   THEN [holdLock EXCEPT ![h] = Sweeper] ELSE holdLock
    /\ want' = [want EXCEPT ![Sweeper] = @ \ {h}]
    /\ UNCHANGED <<tables, acctLock, chainLock, pc, call, link, newId, pastDue>>

SweepCommit ==
    /\ pc[Sweeper] = "sweep" /\ want[Sweeper] = {}
    /\ holds' = [h \in HoldRefs |->
                    IF holdLock[h] = Sweeper THEN [holds[h] EXCEPT !.status = "expired"]
                    ELSE holds[h]]
    /\ Unlock(Sweeper) /\ Forget(Sweeper)
    /\ UNCHANGED <<accounts, transfers, balances, pastDue>>

\* Time passes: one clock goes past the expiry of a hold.
Lapse(clock, h) ==
    /\ holds[h].status = "active" /\ holds[h].expires /\ h \notin pastDue[clock]
    /\ pastDue' = [pastDue EXCEPT ![clock] = @ \cup {h}]
    /\ UNCHANGED <<tables, locks, locals>>

-----------------------------------------------------------------------------
CallAny(s) ==
    \/ \E t \in Requests : CallPost(s, t)
    \/ \E k \in DOMAIN transfers, ref \in ReversalRefs : CallReverse(s, k, ref)
    \/ \E r \in HoldRequests : CallHold(s, r)
    \/ \E c \in CaptureRequests : CallCapture(s, c[1], c[2])
    \/ \E h \in HoldRefs : CallRelease(s, h)

\* Statements that may have to wait for another transaction's lock ...
Acquire(s) ==
    \/ LockAccounts(s) \/ LockChain(s) \/ LockAccount(s) \/ InsertHold(s)
    \/ LockHold(s) \/ MarkExpired(s) \/ LockHeld(s)

\* ... and statements that never wait.
Proceed(s) ==
    \/ CheckAccounts(s) \/ ReadTail(s) \/ Insert(s) \/ Guard(s)
    \/ CheckHold(s) \/ Commit(s)

Step ==
    \/ \E s \in Sessions : CallAny(s) \/ Acquire(s) \/ Proceed(s)
    \/ \E a \in Accounts : CreateAccount(a)
    \/ \E a \in Archivable : Archive(a)
    \/ SweepStart \/ SweepCommit
    \/ \E h \in HoldRefs : SweepRow(h)
    \/ \E clock \in {"app", "db"}, h \in HoldRefs : Lapse(clock, h)

Next == Step \/ \E p \in Procs : Abort(p)

Spec == Init /\ [][Next]_vars

-----------------------------------------------------------------------------
(* Who waits for whom.                                                     *)

\* The owner of the lock the next statement of p has to wait for, if any.
Awaits(p) ==
    LET h == call[p].hold
        owners ==
          CASE pc[p] = "lockAccounts" /\ want[p] # {} -> {acctLock[MinOf(want[p])]}
            [] pc[p] = "lockAccount" -> {acctLock[a] : a \in {call[p].arg.account} \cap Accounts}
            [] pc[p] = "lockHeld" -> {acctLock[holds[h].account]}
            [] pc[p] = "lockChain" -> {chainLock}
            [] pc[p] = "insertHold" /\ holds[h].status = "none" -> {holdLock[h]}
            [] pc[p] \in {"lockHold", "markExpired"} -> {holdLock[h]}
            [] pc[p] = "sweep" -> {holdLock[g] : g \in want[p]}
            [] OTHER -> {}
    IN  owners \ {Nobody, p}

\* Every member of S waits for a member of S: none can ever go on.
Deadlocked(S) == S # {} /\ \A p \in S : Awaits(p) \cap S # {}

\* A cycle of waiters.
Cycle(S) == Deadlocked(S) /\ \A T \in SUBSET S : Deadlocked(T) => T = S

\* After deadlock_timeout Postgres aborts a member of the cycle.
BreakDeadlock == \E S \in SUBSET Procs : Cycle(S) /\ \E p \in S : Abort(p)

(* Fairness: a running statement finishes; a lock that keeps coming free   *)
(* is granted to each of its waiters (Postgres queues them); deadlocks are *)
(* broken; the housekeeping ticker keeps firing.  Connections stay up.     *)
LiveSpec ==
    /\ Init /\ [][Step \/ BreakDeadlock]_vars
    /\ \A s \in Sessions : WF_vars(Proceed(s)) /\ SF_vars(Acquire(s))
    /\ WF_vars(BreakDeadlock)
    /\ WF_vars(SweepStart) /\ WF_vars(SweepCommit)
    /\ \A h \in HoldRefs : SF_vars(SweepRow(h))

-----------------------------------------------------------------------------
(* Properties *)

Labels == {"idle", "lockAccounts", "lockChain", "readTail", "insert", "guard",
           "lockAccount", "checkHold", "insertHold", "lockHold", "lockHeld",
           "markExpired", "commit", "sweep"}

TypeOK ==
    /\ accounts \in [Accounts -> {"none", "open", "archived"}]
    /\ DOMAIN transfers = 1 .. Cardinality(DOMAIN transfers)
    /\ transfers \in Seq(RowType)
    /\ balances \in [Accounts -> Int]
    /\ holds \in [HoldRefs -> HoldRow]
    /\ acctLock \in [Accounts -> Sessions \cup {Nobody}]
    /\ holdLock \in [HoldRefs -> Procs \cup {Nobody}]
    /\ chainLock \in Sessions \cup {Nobody}
    /\ pc \in [Procs -> Labels]
    /\ DOMAIN call = Procs
    /\ want \in [Procs -> SUBSET (Accounts \cup HoldRefs)]
    /\ link \in [Procs -> Seq(Transfer)]
    /\ newId \in [Procs -> Nat]
    /\ pastDue \in [{"app", "db"} -> SUBSET HoldRefs]

\* The engine implements Books: every statement either leaves the committed
\* tables alone or performs one whole operation that Books allows.
B == INSTANCE Books
ImplementsBooks == B!Spec

TailHash == IF transfers = << >> THEN NoHash ELSE transfers[Len(transfers)].hash

(* The inductive invariant: what each statement of a transaction has left  *)
(* behind, and which locks keep it that way.                               *)

Writing(s) == call[s].op \in {"post", "capture"}

\* The statements after lockAccounts, and those after the chain lock.
Late == {"lockChain", "readTail", "insert", "guard", "commit"}
InChain(s) == Writing(s) /\ pc[s] \in Late \ {"lockChain"}

\* The arguments of a call and the statements it goes through.
CallInv(s) ==
    \/ pc[s] = "idle" /\ call[s] = NoCall
    \/ /\ call[s].op = "post" /\ call[s].hold = 0
       /\ pc[s] \in {"lockAccounts"} \cup Late
       /\ Validate(call[s].arg)
       /\ \/ call[s].arg \in Requests
          \/ \E k \in DOMAIN transfers, ref \in ReversalRefs :
                call[s].arg = Reversal(transfers[k], k, ref)
    \/ /\ call[s].op = "capture" /\ <<call[s].hold, call[s].arg>> \in CaptureRequests
       /\ pc[s] \in {"lockHold", "markExpired", "lockHeld", "lockAccounts"} \cup Late
       /\ Validate(call[s].arg)
       /\ pc[s] = "markExpired" => call[s].hold \in pastDue["app"]
    \/ /\ call[s].op = "hold" /\ call[s].arg \in HoldRequests
       /\ pc[s] \in {"lockAccount", "checkHold", "insertHold", "commit"}
       /\ call[s].hold = call[s].arg.reference
       /\ call[s].hold # 0 /\ call[s].arg.amount > 0
    \/ /\ call[s].op = "release" /\ call[s].hold \in HoldRefs
       /\ pc[s] \in {"lockHold", "commit"}

\* The account rows s has locked, in which order, and what they guarantee.
AccountInv(s) ==
    /\ \A a \in Accounts : acctLock[a] = s =>
          \/ Writing(s) /\ pc[s] \in {"lockAccounts"} \cup Late
          \/ call[s].op = "hold" /\ pc[s] \in {"checkHold", "insertHold", "commit"}
    /\ pc[s] = "lockAccounts" =>
          /\ want[s] \subseteq Accounts
          /\ \A a \in Accounts : acctLock[a] = s =>
                \/ call[s].op = "capture" /\ a = holds[call[s].hold].account
                \/ \A w \in want[s] : a < w
    /\ Writing(s) /\ pc[s] \in Late =>
          /\ AccountsAccept(accounts, call[s].arg)
          /\ \A a \in Touched(call[s].arg) : acctLock[a] = s
    /\ call[s].op = "hold" /\ pc[s] # "lockAccount" =>
          call[s].arg.account \in Accounts /\ acctLock[call[s].arg.account] = s
    /\ call[s].op = "hold" /\ pc[s] \in {"insertHold", "commit"} =>
          LET r == call[s].arg IN
          /\ accounts[r.account] = "open"
          /\ Chart[r.account].currency = r.currency
          /\ ~ Chart[r.account].allowNegative
               => AvailableLocked(balances, holds, r.account, 0) >= r.amount

\* One transaction at a time reads the tail, takes an id and passes the guard.
ChainInv(s) ==
    /\ (chainLock = s) <=> InChain(s)
    /\ newId[s] = IF InChain(s) /\ pc[s] \in {"guard", "commit"}
                  THEN Len(transfers) + 1 ELSE 0
    /\ InChain(s) /\ pc[s] # "readTail" => link[s] = TailHash
    /\ InChain(s) /\ pc[s] \in {"guard", "commit"} => Unused(transfers, call[s].arg)
    /\ InChain(s) /\ pc[s] = "commit"
         => Covered(balances, holds, call[s].arg, call[s].hold)

\* The hold row s has locked, and what it has checked of it.
HoldInv(s) ==
    /\ \A h \in HoldRefs : (holdLock[h] = s) <=>
          /\ h = call[s].hold
          /\ \/ /\ call[s].op = "capture"
                /\ pc[s] \in {"lockHeld", "lockAccounts"} \cup Late
             \/ call[s].op \in {"hold", "release"} /\ pc[s] = "commit"
    /\ \A h \in HoldRefs : holdLock[h] = s =>
          holds[h].status = IF call[s].op = "hold" THEN "none" ELSE "active"
    /\ call[s].op = "capture" /\ pc[s] \in {"lockAccounts"} \cup Late =>
          LET row == holds[call[s].hold] IN
          acctLock[row.account] = s /\ Draws(call[s].arg, row.account, row.amount)

\* The sweep owns active rows past their expiry.
SweepInv ==
    /\ pc[Sweeper] \in {"idle", "sweep"} /\ call[Sweeper] = NoCall /\ newId[Sweeper] = 0
    /\ want[Sweeper] \subseteq pastDue["db"]
    /\ \A h \in HoldRefs : holdLock[h] = Sweeper =>
          /\ pc[Sweeper] = "sweep"
          /\ holds[h].status = "active" /\ h \in pastDue["db"]

\* A hold row names an account, and only rows with an expiry lapse.
RowsInv ==
    /\ \A h \in HoldRefs : holds[h].status # "none" => holds[h].account \in Accounts
    /\ \A clock \in {"app", "db"} : \A h \in pastDue[clock] :
          holds[h].status # "none" /\ holds[h].expires

SessionInv(s) == CallInv(s) /\ AccountInv(s) /\ ChainInv(s) /\ HoldInv(s)

EngineInv ==
    TypeOK /\ RowsInv /\ SweepInv /\ \A s \in Sessions : SessionInv(s)

\* What a session checked is still true when it commits, although archiving,
\* releases, expiries and other sessions ran in between: the accounts accept
\* the transfer, its reference is free, the guard still covers it, the hold is
\* still active, and the link it computed still joins the tail of the chain.
ChecksStillHold ==
    \A s \in Sessions : pc[s] = "commit" =>
        LET arg == call[s].arg
            h   == call[s].hold IN
        /\ call[s].op \in {"post", "capture"} =>
             /\ AccountsAccept(accounts, arg)
             /\ Unused(transfers, arg)
             /\ Covered(balances, holds, arg, h)
             /\ newId[s] = Len(transfers) + 1 /\ link[s] = TailHash
        /\ call[s].op \in {"capture", "release"} => holds[h].status = "active"
        /\ call[s].op = "hold" =>
             /\ holds[h].status = "none" /\ accounts[arg.account] = "open"
             /\ ~ Chart[arg.account].allowNegative
                  => AvailableLocked(balances, holds, arg.account, 0) >= arg.amount

\* A deadlock needs a Capture: lockAccounts takes rows in id order, but Capture
\* has locked the held account before, and waits for one with a smaller id.
DeadlockNeedsCapture ==
    \A S \in SUBSET Procs : Deadlocked(S) =>
        \E p \in S :
            /\ call[p].op = "capture" /\ pc[p] = "lockAccounts"
            /\ acctLock[holds[call[p].hold].account] = p
            /\ MinOf(want[p]) < holds[call[p].hold].account

\* Two transactions that write transfers never wait for each other in a cycle.
TransfersNeverDeadlock ==
    \A S \in SUBSET {s \in Sessions : call[s].op \in {"post", "capture"}} : ~ Deadlocked(S)

\* Every call returns.
CallsFinish == \A s \in Sessions : (pc[s] # "idle") ~> (pc[s] = "idle")

\* A hold the database clock has passed stops reserving: the sweep, a capture
\* or a release gets to it.
LapsedHoldsStopReserving ==
    \A h \in HoldRefs : (h \in pastDue["db"]) ~> (holds[h].status # "active")

=============================================================================
