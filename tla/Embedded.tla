------------------------------ MODULE Embedded ------------------------------
(***************************************************************************)
(* The ledger inside its callers' transactions (NewTx): inTx runs the      *)
(* operation on the caller's transaction and leaves commit and rollback to *)
(* the caller.  A transaction makes several ledger calls and keeps every   *)
(* lock they took to its end; a call that fails returns an error and       *)
(* leaves the transaction open with whatever it had written; an SQL error  *)
(* leaves it good for a rollback only.  Callers choose the isolation level *)
(* and what to do about an error.                                          *)
(*                                                                         *)
(* A statement that has to wait is a step of its own, and rows are locked  *)
(* one at a time.  What a call reads and writes once it owns the chain is  *)
(* one step: nobody else gets between (module Store splits it).            *)
(***************************************************************************)
EXTENDS Verify, FiniteSets

CONSTANTS
    Callers,     \* concurrent transactions of the embedding program
    Programs,    \* how the embedding program may be written: which callers go
                 \* on, and commit, although a call failed, and which are at
                 \* REPEATABLE READ; the others are at READ COMMITTED
    Nobody,      \* the owner of a free lock
    Administered,  \* accounts somebody may create and archive
    MaxCalls     \* ledger calls in one transaction

ASSUME CallersAssumption ==
    /\ Programs \subseteq [careless : SUBSET Callers, snapshots : SUBSET Callers]
    /\ Nobody \notin Callers /\ MaxCalls \in Nat
    /\ Administered \subseteq Accounts

VARIABLES
    db,         \* the committed tables
    acctLock,   \* [Accounts -> Callers \cup {Nobody}]
    holdLock,   \* [HoldRefs -> Callers \cup {Nobody}]
    chainLock,
    pc,         \* what each transaction does next
    call,       \* the ledger call it is serving, and in want the rows its
                \* statement has yet to lock
    calls,      \* how many calls it has made
    failed,     \* whether one of them returned an error
    snapshot,   \* the tables as a REPEATABLE READ transaction found them
    writes,     \* what it has written, in order
    program     \* the way the callers are written, the same throughout

locks == <<acctLock, holdLock, chainLock>>
locals == <<pc, call, calls, failed, snapshot, writes>>
vars == <<db, locks, locals, program>>

Ask(op, arg, hold, want) == [op |-> op, arg |-> arg, hold |-> hold, want |-> want]
NoCall == Ask("none", << >>, 0, {})

MinOf(S) == CHOOSE a \in S : \A b \in S : a =< b

EmptyTables ==
    [accounts  |-> [a \in Accounts |-> IF a \in InitiallyOpen THEN "open" ELSE "none"],
     transfers |-> << >>,
     balances  |-> [a \in Accounts |-> 0],
     holds     |-> [h \in HoldRefs |-> NoHold]]

Init ==
    /\ db = EmptyTables
    /\ acctLock = [a \in Accounts |-> Nobody]
    /\ holdLock = [h \in HoldRefs |-> Nobody]
    /\ chainLock = Nobody
    /\ pc = [c \in Callers |-> "none"]
    /\ call = [c \in Callers |-> NoCall]
    /\ calls = [c \in Callers |-> 0]
    /\ failed = [c \in Callers |-> FALSE]
    /\ snapshot = [c \in Callers |-> EmptyTables]
    /\ writes = [c \in Callers |-> << >>]
    /\ program \in Programs

-----------------------------------------------------------------------------
(* The tables with a write of a transaction applied to them.  A transfer   *)
(* whose overdraft guard failed has been written like any other (ok is     *)
(* FALSE): only the update of the hold it captures comes after the guard.  *)

WriteTransfer(d, w) ==
    [d EXCEPT !.transfers = [k \in DOMAIN d.transfers \cup {w.id} |->
                                IF k = w.id THEN w.row ELSE d.transfers[k]],
              !.balances = ApplyBalances(d.balances, w.row),
              !.holds = IF w.ok /\ w.hold # 0
                        THEN [@ EXCEPT ![w.hold].status = "captured",
                                       ![w.hold].transfer = w.id]
                        ELSE @]

SetStatus(hs, H, status) ==
    [h \in HoldRefs |-> IF h \in H THEN [hs[h] EXCEPT !.status = status] ELSE hs[h]]

Apply(d, w) ==
    CASE w.kind = "transfer" -> WriteTransfer(d, w)
      [] w.kind = "hold"     -> [d EXCEPT !.holds[w.hold] = NewHold(w.row)]
      [] w.kind = "status"   -> [d EXCEPT !.holds = SetStatus(@, w.holds, w.status)]
      [] w.kind = "account"  -> [d EXCEPT !.accounts[w.account] = w.status]

\* The tables d with the first, the first two, ... of the writes ws applied.
After(d, ws) ==
    LET after[i \in Nat] == IF i = 0 THEN d ELSE Apply(after[i - 1], ws[i])
    IN  after

Replay(d, ws) == After(d, ws)[Len(ws)]

\* What a statement of c reads: the committed tables, or its snapshot of them,
\* and its own writes.
Sees(c) == Replay(IF c \in program.snapshots THEN snapshot[c] ELSE db, writes[c])

\* At REPEATABLE READ a row somebody has changed since cannot be locked.
AccountChanged(c, a) == c \in program.snapshots /\ db.accounts[a] # snapshot[c].accounts[a]
HoldChanged(c, h) == c \in program.snapshots /\ db.holds[h] # snapshot[c].holds[h]
BalanceChanged(c, a) ==
    /\ c \in program.snapshots
    /\ \E k \in DOMAIN db.transfers \ DOMAIN snapshot[c].transfers :
          Delta(db.transfers[k], a) # 0

-----------------------------------------------------------------------------
(* How a call ends: with the transaction open for the next one, ...        *)

Return(c) ==
    /\ pc' = [pc EXCEPT ![c] = "open"]
    /\ call' = [call EXCEPT ![c] = NoCall]
    /\ UNCHANGED <<db, calls, snapshot>>

Succeed(c, w) ==
    /\ writes' = [writes EXCEPT ![c] = Append(@, w)]
    /\ UNCHANGED failed
    /\ Return(c)

\* ... the same after an error of the package's own, ...
Fail(c, err) ==
    /\ failed' = [failed EXCEPT ![c] = TRUE]
    /\ UNCHANGED writes
    /\ Return(c)

\* ... or with an SQL error, after which Postgres accepts a rollback only.
SqlError(c) ==
    /\ pc' = [pc EXCEPT ![c] = "broken"]
    /\ call' = [call EXCEPT ![c] = NoCall]
    /\ failed' = [failed EXCEPT ![c] = TRUE]
    /\ UNCHANGED <<db, calls, snapshot, writes>>

Goto(c, label) ==
    /\ pc' = [pc EXCEPT ![c] = label]
    /\ UNCHANGED <<db, call, calls, failed, snapshot, writes>>

-----------------------------------------------------------------------------
(* The caller's transaction.                                               *)

Begin(c) ==
    /\ pc[c] = "none"
    /\ pc' = [pc EXCEPT ![c] = "open"]
    /\ snapshot' = IF c \in program.snapshots THEN [snapshot EXCEPT ![c] = db] ELSE snapshot
    /\ UNCHANGED <<db, locks, call, calls, failed, writes>>

\* Mutant: the chain lock belongs to the session.
FreeRowsOnly(c) ==
    /\ acctLock' = [a \in Accounts |-> IF acctLock[a] = c THEN Nobody ELSE acctLock[a]]
    /\ holdLock' = [h \in HoldRefs |-> IF holdLock[h] = c THEN Nobody ELSE holdLock[h]]
    /\ chainLock' = chainLock

Free(c) ==
    /\ acctLock' = [a \in Accounts |-> IF acctLock[a] = c THEN Nobody ELSE acctLock[a]]
    /\ holdLock' = [h \in HoldRefs |-> IF holdLock[h] = c THEN Nobody ELSE holdLock[h]]
    /\ chainLock' = IF chainLock = c THEN Nobody ELSE chainLock

End(c) ==
    /\ Free(c)
    /\ pc' = [pc EXCEPT ![c] = "none"]
    /\ call' = [call EXCEPT ![c] = NoCall]
    /\ calls' = [calls EXCEPT ![c] = 0]
    /\ failed' = [failed EXCEPT ![c] = FALSE]
    /\ snapshot' = [snapshot EXCEPT ![c] = EmptyTables]
    /\ writes' = [writes EXCEPT ![c] = << >>]
    /\ UNCHANGED db

\* The caller returns early, dies, or is chosen to break a deadlock.
Rollback(c) == pc[c] \notin {"none", "committing"} /\ End(c)

Commit(c) ==
    /\ pc[c] = "open" /\ (failed[c] => c \in program.careless)
    /\ Goto(c, "committing")
    /\ UNCHANGED locks

\* The writes become visible together: nothing else runs until the last one is
\* applied, so that each is one step of Books.
ApplyNext(c) ==
    /\ pc[c] = "committing" /\ writes[c] # << >>
    /\ db' = Apply(db, Head(writes[c]))
    /\ writes' = [writes EXCEPT ![c] = Tail(@)]
    /\ UNCHANGED <<locks, pc, call, calls, failed, snapshot>>

Committed(c) == pc[c] = "committing" /\ writes[c] = << >> /\ End(c)

-----------------------------------------------------------------------------
(* Calls of the ledger on that transaction.                                *)

MayCall(c) ==
    /\ pc[c] = "open" /\ calls[c] < MaxCalls
    /\ failed[c] => c \in program.careless

Enter(c, request, label) ==
    /\ pc' = [pc EXCEPT ![c] = label]
    /\ call' = [call EXCEPT ![c] = request]
    /\ calls' = [calls EXCEPT ![c] = @ + 1]
    /\ UNCHANGED <<db, locks, failed, snapshot, writes>>

\* The rows of A that a SELECT ... FOR UPDATE of c finds when it starts, and that
\* c does not have locked already.
Existing(c, A) == {a \in A \cap Accounts : Sees(c).accounts[a] # "none" /\ acctLock[a] # c}

CallPost(c, t) ==
    Validate(t) /\ Enter(c, Ask("post", t, 0, Existing(c, Touched(t))), "lockRows")

\* The original may be a row this transaction has written itself.
CallReverse(c, k, newReference) ==
    LET t == Reversal(Sees(c).transfers[k], k, newReference) IN
    Validate(t) /\ Enter(c, Ask("post", t, 0, Existing(c, Touched(t))), "lockRows")

CallHold(c, r) ==
    /\ r.reference # 0 /\ r.amount > 0
    /\ Enter(c, Ask("hold", r, r.reference, Existing(c, {r.account})), "lockRows")

CallCapture(c, h, t) == Validate(t) /\ Enter(c, Ask("capture", t, h, {}), "lockHold")

CallRelease(c, h) == Enter(c, Ask("release", << >>, h, {}), "lockHold")

CallCreateAccount(c, a) == Enter(c, Ask("create", << >>, 0, {a}), "createAccount")

CallArchive(c, a) == Enter(c, Ask("archive", << >>, 0, {a}), "archive")

\* The active holds of H are past due.
CallExpireHolds(c, H) ==
    /\ \A h \in H : Sees(c).holds[h].status = "active" /\ Sees(c).holds[h].expires
    /\ Enter(c, Ask("expire", << >>, 0, H), "expire")

-----------------------------------------------------------------------------
(* lockHold and the checks behind it.                                      *)

Mine(lock, c) == lock \in {Nobody, c}

\* Somebody else has written to the row and not committed: an INSERT of the
\* same key waits to see what becomes of it.
AccountPending(c, a) ==
    ~ Mine(acctLock[a], c) /\ Replay(db, writes[acctLock[a]]).accounts[a] # db.accounts[a]
HoldPending(c, h) ==
    ~ Mine(holdLock[h], c) /\ Replay(db, writes[holdLock[h]]).holds[h] # db.holds[h]

Closed(H, status) == [kind |-> "status", holds |-> H, status |-> status]

UnknownHold(c) ==
    /\ pc[c] = "lockHold" /\ Sees(c).holds[call[c].hold].status = "none"
    /\ Fail(c, "unknown hold")
    /\ UNCHANGED locks

\* Mutant: the hold is read without FOR UPDATE.
LockHoldNot(c) ==
    /\ pc[c] = "lockHold" /\ Sees(c).holds[call[c].hold].status = "active"
    /\ IF call[c].op = "release"
       THEN Succeed(c, Closed({call[c].hold}, "released"))
       ELSE Goto(c, "lockHeld")
    /\ UNCHANGED locks

LockHold(c) ==
    LET h == call[c].hold
        row == Sees(c).holds[h] IN
    /\ pc[c] = "lockHold" /\ row.status # "none" /\ Mine(holdLock[h], c)
    /\ IF HoldChanged(c, h) THEN SqlError(c) /\ UNCHANGED locks
       ELSE /\ holdLock' = [holdLock EXCEPT ![h] = c]
            /\ UNCHANGED <<acctLock, chainLock>>
            /\ \/ row.status # "active" /\ Fail(c, "hold not active")
               \/ /\ row.status = "active" /\ call[c].op = "release"
                  /\ Succeed(c, Closed({h}, "released"))
               \/ /\ row.status = "active" /\ call[c].op = "capture"
                  /\ Goto(c, "lockHeld")
               \/ \* past due: the mark follows the caller's transaction
                  /\ row.status = "active" /\ call[c].op = "capture" /\ row.expires
                  /\ failed' = [failed EXCEPT ![c] = TRUE]
                  /\ writes' = [writes EXCEPT ![c] = Append(@, Closed({h}, "expired"))]
                  /\ Return(c)

\* Capture locks the held account, looks at the draw, and goes on as post.
LockHeld(c) ==
    LET row == Sees(c).holds[call[c].hold]
        t   == call[c].arg
        a   == row.account
    IN
    /\ pc[c] = "lockHeld" /\ Mine(acctLock[a], c)
    /\ IF AccountChanged(c, a) THEN SqlError(c) /\ UNCHANGED locks
       ELSE /\ acctLock' = [acctLock EXCEPT ![a] = c]
            /\ UNCHANGED <<holdLock, chainLock>>
            /\ IF Draws(t, a, row.amount)
               THEN /\ pc' = [pc EXCEPT ![c] = "lockRows"]
                    /\ call' = [call EXCEPT ![c].want = Existing(c, Touched(t)) \ {a}]
                    /\ UNCHANGED <<db, calls, failed, snapshot, writes>>
               ELSE Fail(c, "capture mismatch")

(* lockAccounts or lockAccount, one row at a time in id order, and the     *)
(* checks on the rows.                                                     *)

\* Mutant: no ORDER BY.
LockRowsAnyOrder(c) ==
    /\ pc[c] = "lockRows"
    /\ \E a \in call[c].want :
       /\ Mine(acctLock[a], c)
       /\ acctLock' = [acctLock EXCEPT ![a] = c]
       /\ call' = [call EXCEPT ![c].want = @ \ {a}]
    /\ UNCHANGED <<db, holdLock, chainLock, pc, calls, failed, snapshot, writes>>

LockRows(c) ==
    LET a == MinOf(call[c].want) IN
    /\ pc[c] = "lockRows" /\ call[c].want # {}
    /\ Mine(acctLock[a], c)
    /\ IF AccountChanged(c, a) THEN SqlError(c) /\ UNCHANGED locks
       ELSE /\ acctLock' = [acctLock EXCEPT ![a] = c]
            /\ call' = [call EXCEPT ![c].want = @ \ {a}]
            /\ UNCHANGED <<db, holdLock, chainLock, pc, calls, failed, snapshot, writes>>

Acceptable(c) ==
    LET d == Sees(c)
        arg == call[c].arg
    IN  CASE call[c].op \in {"post", "capture"} ->
                /\ \A a \in Touched(arg) : a \in Accounts /\ acctLock[a] = c
                /\ AccountsAccept(d.accounts, arg)
          [] call[c].op = "hold" ->
                /\ arg.account \in Accounts /\ acctLock[arg.account] = c
                /\ d.accounts[arg.account] = "open"
                /\ Chart[arg.account].currency = arg.currency
                /\ ~ Chart[arg.account].allowNegative
                     => AvailableLocked(d.balances, d.holds, arg.account, 0) >= arg.amount

CheckRows(c) ==
    /\ pc[c] = "lockRows" /\ call[c].want = {}
    /\ UNCHANGED locks
    /\ IF Acceptable(c)
       THEN Goto(c, IF call[c].op = "hold" THEN "insertHold" ELSE "write")
       ELSE Fail(c, "unknown, archived, currency or insufficient funds")

\* A committed reference is a violation whether the transaction sees it or not;
\* a pending one has to be waited for.
Taken(c, h) == db.holds[h].status # "none" \/ Sees(c).holds[h].status # "none"

InsertHold(c) ==
    LET h == call[c].hold IN
    /\ pc[c] = "insertHold"
    /\ IF Taken(c, h) THEN ~ HoldPending(c, h) /\ SqlError(c) /\ UNCHANGED locks
       ELSE /\ Mine(holdLock[h], c)
            /\ holdLock' = [holdLock EXCEPT ![h] = c]
            /\ UNCHANGED <<acctLock, chainLock>>
            /\ Succeed(c, [kind |-> "hold", hold |-> h, row |-> call[c].arg])

-----------------------------------------------------------------------------
(* The rest of post: the chain lock, the tail, the rows, the guard.        *)

TailHash(trs) ==
    IF DOMAIN trs = {} THEN NoHash
    ELSE trs[CHOOSE k \in DOMAIN trs : \A j \in DOMAIN trs : j =< k].hash

\* The ids of rows that transactions have inserted and not committed.
PendingIds ==
    UNION {{writes[p][i].id : i \in {j \in DOMAIN writes[p] : writes[p][j].kind = "transfer"}}
             : p \in Callers}

\* Above every id in use.  The identity column also skips the ids of rows that
\* were rolled back; here they are handed out again.
FreshId == 1 + CHOOSE k \in {0} \cup DOMAIN db.transfers \cup PendingIds :
                   \A j \in DOMAIN db.transfers \cup PendingIds : j =< k

\* Mutant: the chain lock is let go when Post returns.
WriteAndUnlockChain(c) ==
    LET d == Sees(c)
        t == call[c].arg
    IN
    /\ pc[c] = "write" /\ Mine(chainLock, c)
    /\ UNCHANGED locks
    /\ IF ~ Unused(db.transfers, t) \/ ~ Unused(d.transfers, t) THEN SqlError(c)
       ELSE Succeed(c, [kind |-> "transfer", id |-> FreshId, row |-> Row(t, TailHash(d.transfers)),
                        hold |-> call[c].hold, ok |-> TRUE])

Write(c) ==
    LET d  == Sees(c)
        t  == call[c].arg
        ok == Covered(d.balances, d.holds, t, call[c].hold)
        w  == [kind |-> "transfer", id |-> FreshId, row |-> Row(t, TailHash(d.transfers)),
               hold |-> call[c].hold, ok |-> ok]
    IN
    /\ pc[c] = "write" /\ Mine(chainLock, c)
    /\ chainLock' = c
    /\ UNCHANGED <<acctLock, holdLock>>
    /\ \/ /\ \/ ~ Unused(db.transfers, t) \/ ~ Unused(d.transfers, t)
             \/ \E a \in Touched(t) : Delta(t, a) # 0 /\ BalanceChanged(c, a)
          /\ SqlError(c)
       \/ /\ Unused(db.transfers, t) /\ Unused(d.transfers, t)
          /\ \A a \in Touched(t) : Delta(t, a) # 0 => ~ BalanceChanged(c, a)
          /\ writes' = [writes EXCEPT ![c] = Append(@, w)]
          /\ failed' = [failed EXCEPT ![c] = @ \/ ~ ok]
          /\ Return(c)

-----------------------------------------------------------------------------
(* Calls of a single statement.                                            *)

\* INSERT ... ON CONFLICT DO NOTHING, which waits to see what becomes of a row
\* somebody is writing.
AccountTaken(c, a) == db.accounts[a] # "none" \/ Sees(c).accounts[a] # "none"

CreateAccount(c) ==
    /\ pc[c] = "createAccount"
    /\ \E a \in call[c].want :
       \/ /\ AccountTaken(c, a) /\ ~ AccountPending(c, a)
          /\ IF AccountChanged(c, a) THEN SqlError(c) ELSE Fail(c, "account exists")
          /\ UNCHANGED locks
       \/ /\ ~ AccountTaken(c, a) /\ Mine(acctLock[a], c)
          /\ acctLock' = [acctLock EXCEPT ![a] = c]
          /\ UNCHANGED <<holdLock, chainLock>>
          /\ Succeed(c, [kind |-> "account", account |-> a, status |-> "open"])

Archive(c) ==
    /\ pc[c] = "archive"
    /\ \E a \in call[c].want :
       IF Sees(c).accounts[a] = "none" THEN Fail(c, "unknown account") /\ UNCHANGED locks
       ELSE /\ Mine(acctLock[a], c)
            /\ IF AccountChanged(c, a) THEN SqlError(c) /\ UNCHANGED locks
               ELSE /\ acctLock' = [acctLock EXCEPT ![a] = c]
                    /\ UNCHANGED <<holdLock, chainLock>>
                    /\ Succeed(c, [kind |-> "account", account |-> a, status |-> "archived"])

\* The UPDATE takes its rows in whatever order its plan finds them, and passes
\* over one that no longer meets its condition.
ExpireRow(c, h) ==
    /\ pc[c] = "expire" /\ h \in call[c].want /\ Mine(holdLock[h], c)
    /\ IF HoldChanged(c, h) THEN SqlError(c) /\ UNCHANGED locks
       ELSE /\ call' = [call EXCEPT ![c].want = @ \ {h}]
            /\ UNCHANGED <<db, acctLock, chainLock, pc, calls, failed, snapshot>>
            /\ IF Sees(c).holds[h].status = "active" /\ Sees(c).holds[h].expires
               THEN /\ holdLock' = [holdLock EXCEPT ![h] = c]
                    /\ writes' = [writes EXCEPT ![c] = Append(@, Closed({h}, "expired"))]
               ELSE UNCHANGED <<holdLock, writes>>

ExpireReturns(c) ==
    /\ pc[c] = "expire" /\ call[c].want = {}
    /\ Return(c) /\ UNCHANGED <<locks, failed, writes>>

-----------------------------------------------------------------------------
Calls(c) ==
    /\ MayCall(c)
    /\ \/ \E t \in Requests : CallPost(c, t)
       \/ \E ref \in ReversalRefs : \E k \in DOMAIN Sees(c).transfers : CallReverse(c, k, ref)
       \/ \E r \in HoldRequests : CallHold(c, r)
       \/ \E q \in CaptureRequests : CallCapture(c, q[1], q[2])
       \/ \E h \in HoldRefs : CallRelease(c, h)
       \/ \E a \in Administered : CallCreateAccount(c, a)
       \/ \E a \in Administered : CallArchive(c, a)
       \/ \E H \in SUBSET HoldRefs \ {{}} : CallExpireHolds(c, H)

\* The next statement of a call.
Proceed(c) ==
    \/ UnknownHold(c) \/ LockHold(c) \/ LockHeld(c) \/ LockRows(c) \/ CheckRows(c)
    \/ InsertHold(c) \/ Write(c) \/ CreateAccount(c) \/ Archive(c)
    \/ ExpireReturns(c) \/ \E h \in HoldRefs : ExpireRow(c, h)

\* Nobody's writes are half visible.
Whole == (\A p \in Callers : pc[p] # "committing") /\ UNCHANGED program

Next ==
    \/ \E c \in Callers : ApplyNext(c) /\ UNCHANGED program
    \/ \E c \in Callers : Committed(c) /\ UNCHANGED program
    \/ \E c \in Callers : Whole /\ Begin(c)
    \/ \E c \in Callers : Whole /\ Calls(c)
    \/ \E c \in Callers : Whole /\ Proceed(c)
    \/ \E c \in Callers : Whole /\ Commit(c)
    \/ \E c \in Callers : Whole /\ Rollback(c)

Spec == Init /\ [][Next]_vars

-----------------------------------------------------------------------------
(* Who waits for whom.                                                     *)

\* The owners of the locks the next statement of c has to wait for.
Awaits(c) ==
    LET h == call[c].hold
        want == call[c].want
        owners ==
          CASE pc[c] = "lockHold" ->
                 IF Sees(c).holds[h].status = "none" THEN {} ELSE {holdLock[h]}
            [] pc[c] = "lockHeld" -> {acctLock[Sees(c).holds[h].account]}
            [] pc[c] = "lockRows" /\ want # {} -> {acctLock[MinOf(want)]}
            [] pc[c] = "insertHold" ->
                 IF Taken(c, h) /\ ~ HoldPending(c, h) THEN {} ELSE {holdLock[h]}
            [] pc[c] = "write" -> {chainLock}
            [] pc[c] = "createAccount" ->
                 {acctLock[a] : a \in {b \in want : AccountTaken(c, b) => AccountPending(c, b)}}
            [] pc[c] = "archive" ->
                 {acctLock[a] : a \in {b \in want : Sees(c).accounts[b] # "none"}}
            [] pc[c] = "expire" -> {holdLock[g] : g \in want}
            [] OTHER -> {}
    IN  owners \ {Nobody, c}

\* Each member of S waits for another one.
Stuck(S) == S # {} /\ \A c \in S : Awaits(c) \cap S # {}

-----------------------------------------------------------------------------
(* Properties *)

\* Locks belong to transactions that are open: none outlives the caller's.
TypeOK ==
    /\ db.accounts \in [Accounts -> {"none", "open", "archived"}]
    /\ DOMAIN db.transfers \subseteq Nat \ {0}
    /\ \A k \in DOMAIN db.transfers : db.transfers[k] \in RowType
    /\ db.balances \in [Accounts -> Int]
    /\ db.holds \in [HoldRefs -> HoldRow]
    /\ pc \in [Callers -> {"none", "open", "lockHold", "lockHeld", "lockRows", "insertHold",
                           "write", "createAccount", "archive", "expire", "broken", "committing"}]
    /\ acctLock \in [Accounts -> {c \in Callers : pc[c] # "none"} \cup {Nobody}]
    /\ holdLock \in [HoldRefs -> {c \in Callers : pc[c] # "none"} \cup {Nobody}]
    /\ chainLock \in {c \in Callers : pc[c] # "none"} \cup {Nobody}
    /\ calls \in [Callers -> 0 .. MaxCalls]
    /\ failed \in [Callers -> BOOLEAN]

\* Callers that roll back on an error, at READ COMMITTED, get the ledger that
\* Books promises: however many calls their transactions make, and whoever
\* runs beside them, each commit is a run of whole operations that Books allows
\* at that moment.
B == INSTANCE Books WITH accounts <- db.accounts, transfers <- db.transfers,
                         balances <- db.balances, holds <- db.holds
Disciplined == program.careless = {} /\ program.snapshots = {}
ImplementsBooks == B!Init /\ [][Disciplined => [B!Next]_B!vars]_vars

\* What takes locks out of the order the others keep: a second call, on top of
\* the locks of the first; a Capture that has the held account and wants a row
\* below it; and ExpireHolds, once it has a row, because its UPDATE has no order.
Disorderly(c) ==
    \/ calls[c] > 1
    \/ /\ call[c].op = "capture" /\ pc[c] = "lockRows"
       /\ \E a \in call[c].want, b \in Accounts : acctLock[b] = c /\ a < b
    \/ pc[c] = "expire" /\ \E h \in HoldRefs : holdLock[h] = c

\* Transactions that wait for each other in a cycle have one of these among
\* them: Post, Reverse, Hold, Release, CreateAccount and Archive, and a Capture
\* that pays to accounts above the held one, do not deadlock in first calls.
DeadlockNeedsDisorder ==
    \A S \in SUBSET Callers : Stuck(S) => \E c \in S : Disorderly(c)

\* Whatever the callers do about errors and whichever isolation level they are
\* at, the committed rows balance, the balances match the postings, a transfer
\* is undone at most once, by its mirror image, and a captured hold is settled
\* by a transfer of its own that drew on it.
BooksSurvive ==
    B!SumZero /\ B!BalancesMatchPostings /\ B!ReversalsCancel /\ B!CapturesSettle

=============================================================================
