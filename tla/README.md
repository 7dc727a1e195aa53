# Verification of sumzero

sumzero is a double-entry ledger on Postgres: a Go library (`ledger`), an HTTP
server around it (`httpapi`), a command line (`cmd/sumzero`) and SQL migrations.
This directory holds TLA+ models of everything in it that keeps state or
computes something, the TLC configurations that check them on small instances,
and TLAPS proofs of the main invariants for every instance.

## 1. Inventory

| Component | State | Operations | What makes it correct |
|---|---|---|---|
| Posting engine (`store.go`, `transfer.go`, `account.go`) | tables accounts, transfers, postings, account_balances; row locks and one advisory lock | CreateAccount, Archive, Post, Reverse | every transfer nets to zero; balances equal the postings; refused transfers leave nothing; each transfer reversed at most once and exactly; archived accounts do not move |
| Holds and guard (`hold.go`) | table holds | Hold, Capture, Release, ExpireHolds, Available | a guarded account always covers its active holds; a hold is closed once; a capture moves at most what was reserved; a lapsed hold stops reserving |
| Hash chain (`chain.go`) | prev_hash and hash of transfers | chainDigest, inside post | one straight line in id order, whatever runs concurrently |
| Verification (`verify.go`) | none | four read-only checks, one snapshot each | silent on every state the engine can reach, also while it is posting; after an edit it names the place |
| Housekeeping (`cmd/sumzero`) | two tickers | ExpireHolds, key sweep | runs beside the request handlers without disturbing them |
| Money (`money.go`) | none | int64 arithmetic, JSON as strings | no rounding, no silent wrap |
| Embedded mode (`NewTx`) | the caller's transaction | the engine's, commit left to the caller | several calls land together or not at all, each as the engine alone would have done it |
| Idempotency keys (`idempotency.go`, `requireIdempotencyKey`) | table idempotency_keys | Begin, Complete, Release, Sweep | one execution per key, replay of its own response, and an answer in the end |
| Migrations (`migrations.go`) | table sumzero_migrations | Apply | each file once, in order, whatever races or dies |
| Queries (`query.go`) | none | Balance, BalanceAsOf, Statement, TrialBalance, TransferByReference | cache and postings agree at every instant; what was reported for the past stays true |
| Reconciliation (`reconcile.go`) | none | Reconcile | every line in exactly one bucket; a clean report is an agreement |
| HTTP API, CLI | none of their own | wrappers | scope of a key, order of key and handler, windows of dates |

Components interact through the database only. Every request handler and the
housekeeping goroutine runs its own Postgres transaction at READ COMMITTED. What
is hard is what happens between their statements: rows checked early and used
late, locks taken in different orders, expiry judged by two clocks, a connection
lost half-way, a mark written after a rollback, a retry that overtakes its first
attempt, a deploy that dies between a file and its record. The list, with the line where
each bites, is under `hazards` in `PROJECT.json`.

## 2. Modules

| Module | Models |
|---|---|
| `Sums` | finite sums, as a recursive function |
| `LedgerData` | postings, transfers, rows, holds; Validate, Net, Delta, Reversal, Draws, AvailableLocked, ApplyBalances, the guard (Covered), the account checks, the unique indexes |
| `Verify` | the four checks of verify.go, each as the set of problems it reports |
| `Books` | **what the ledger promises**: each operation one atomic step on the committed tables |
| `Store` | **how it runs**: sessions and the sweeper, one step per SQL statement (or per row lock), Postgres locks, rollback, lost connections, deadlocks, two clocks |
| `Transfer64` | Net, Validate, delta and the bigint column with integers of a fixed width, beside the exact ones of `LedgerData` |
| `Embedded` | NewTx: callers' transactions of several ledger calls, their isolation level and what they do about errors; refines `Books` |
| `Idempotency` | clients that retry, the middleware, the key table statement by statement, expiry, the sweep, crashes |
| `Migrations` | Apply statement by statement, racing deploys, crashes |
| `History` | ledger dates; Balance, BalanceAsOf, Statement |
| `Reconcile` | extends `History`: windows, files, the report |
| `Audit` | a pass of verify beside posts, and edits past the append-only triggers |
| `LedgerDataProofs`, `BooksProofs`, `StoreProofs`, `EmbeddedProofs`, `AuditProofs`, `HistoryProofs`, `ServiceProofs` (keys and migrations), `Transfer64Proofs` | theorems and their proofs |
| `MCBooks`, `MCStore`, `MCEmbedded`, `MCIdempotency`, `MCMigrations`, `MCHistory`, `MCAudit`, `MCTransfer64` | instances for TLC |

How they compose: `LedgerData` holds the row formats and the pure functions that
`Books`, `Store`, `Embedded`, `History` and `Audit` share, so that a guard or a
sum is translated once. `Store` and `Embedded` each instantiate `Books` over their
committed tables and are shown to implement it. `Audit` instantiates the Post of
`Books` beside the checks of `Verify`; `Reconcile` reads the rows of `History`.
`Transfer64` builds a draft in the format of `LedgerData` and judges the balances it
leads to with the trial balance of `Verify`, so that the two arithmetics meet on the
same data.

### State and actions: Books and Store

`accounts`, `transfers`, `balances` and `holds` are the committed tables, in both
`Books` and `Store`. A transfer's id is its index in `transfers`. Postgres
identity values skip ids that rolled-back transactions drew; only their order
matters (the tail is the largest id), so a skipped id is reused in the model. A
row carries its postings, its link and its digest. The digest is
represented by what it commits to, the sequence of transfers up to the row, which
is what a collision-free hash gives. Account attributes are fixed by the constant
`Chart`, since CreateAccount sets them once and nothing changes them. Ledger
dates matter to readers only and are in `History`; descriptions are left out:
nothing branches on them.

In `Store` a process has a program counter `pc` naming its next statement, the
call it serves, the rows a multi-row statement has still to lock (`want`), the
tail hash it read (`link`) and the id it drew (`newId`). Its writes stay in those
locals until `Commit`, which is how others see them under READ COMMITTED; a
statement of its own that reads what it wrote (the guard) adds them explicitly.
Locks are owned from acquisition to the end of the transaction. `Refuse` is any
early return with an error inside `inTx`, hence the deferred Rollback; `Abort`
is a lost connection, a cancelled context or a deadlock victim, possible at every
statement.

| Code | Store |
|---|---|
| Post / Reverse | CallPost / CallReverse, LockAccounts (row by row, by id), CheckAccounts, LockChain, ReadTail, Insert, Guard, Commit |
| Hold | CallHold, LockAccount, CheckHold, InsertHold, Commit |
| Capture | CallCapture, LockHold, LockHeld, then as Post; or LockHold, MarkExpired when the hold is past due |
| Release | CallRelease, LockHold, Commit |
| ExpireHolds | SweepStart, SweepRow (any order), SweepCommit |
| CreateAccount, Archive | one step each: their transactions hold no lock over a wait |
| clocks | Lapse: the application's and the database's clock pass an expiry independently |

Simplifications, and why they lose nothing. Postings and balances are inserted
under the chain lock and the account locks, with nothing another transaction could
see or block, so they share the step of the INSERT into transfers. The guard
reads one account per statement; between two of those reads others can only close
holds on accounts this transaction has locked, which only adds to what is
available, so every outcome of the separate reads is the outcome of reading all
accounts at the moment of the last one. Requests that fail before
touching the database appear in `Books` (they are in `Requests` and must be
refused) and change nothing in `Store`.

### Embedded

A caller is a transaction: `pc`, the call it serves, how many it made (`calls`),
whether one failed, its snapshot when it is at REPEATABLE READ, and its
uncommitted rows in order (`writes`). `Sees` is what a statement reads: the
committed tables, or the snapshot, with its own rows applied one after the other
(`Replay`). `program` says how
the callers are written: which go on after an error, and which are at REPEATABLE
READ; it is chosen among `Programs` at the start and never changes.

| Code | Embedded |
|---|---|
| inTx with the caller's tx | Enter, then Succeed, Fail (an error of the package: the transaction stays open, rows stay) or SqlError (rollback only) |
| Post, Reverse | CallPost / CallReverse, LockRows (row by row, by id), CheckRows, Write (the chain lock and everything behind it) |
| Hold | CallHold, LockRows, CheckRows, InsertHold |
| Capture | CallCapture, LockHold / UnknownHold, LockHeld (the held account, then the draw), then as Post |
| Release | CallRelease, LockHold / UnknownHold |
| CreateAccount, Archive | CallCreateAccount / CallArchive, then the statement, which may have to wait for the row |
| ExpireHolds | CallExpireHolds, ExpireRow (any order), ExpireReturns |
| the caller | Begin, Commit, Rollback (also a crash, or a deadlock victim) |

A commit applies the rows one by one while nothing else runs (`ApplyNext`,
`Committed`), so that each is a step of `Books`; locks are kept to the end. Past
the chain lock a call waits for nobody, hence one step. `Awaits` names who owns what
the next statement needs, the single statements included; a statement that Postgres
refuses at once, because the key is committed already (`Taken`, `AccountTaken`) or the
row is not there, waits for nobody. `Existing` is the account rows a FOR UPDATE finds:
a row inserted by somebody who has not committed is not among them, and the check that
follows calls the account unknown. As in `Store`, the ids of rolled-back inserts are
handed out again (`FreshId`), where Postgres leaves gaps; only their order is used, and no
property speaks of gaps. `Administered` are the accounts somebody may create and archive.

### Idempotency

An attempt is a pair of a client and a number; `Attempts` fixes how many may be
under way together. `owner`, `stored` and `expired` are idempotency_keys: the row's
owner (Nobody when there is no row), the response (NoResponse while status_code is
NULL) and whether expires_at has passed. What a handler does to the books is
reduced to `Takes`, the things only one request can ever have: a reference, an
active hold, a transfer not yet reversed.

| Code | Idempotency |
|---|---|
| requireIdempotencyKey | StoreKey: the route and the key |
| Begin | Begin (the upsert) and Read (the SELECT of the loser), two statements |
| the handler and statusOf | Handle: Succeeds, Conflicts, Refuses or Fails, before or after the commit |
| Complete, Release | Complete, Release, StoreFails |
| Sweep, the ttl | Sweep, Lapse at any moment |
| a killed process, a lost request or answer | Crash |

The middleware is external and modelled from how `httpapi` and the store use it:
2xx and 4xx are completed, 5xx are released, another fingerprint is refused.

### Migrations, History, Reconcile, Audit, Transfer64

`Migrations`: a deploy is (variable `at`) at `check`, `exec` or `record` of a file. A file is one
transaction, its record another; `Needs` says which files it builds on, and on a
schema that has it already, or lacks those, Postgres refuses it. The creation of
the bookkeeping table is part of `Start`.

`History`: rows in id order, each with `posted_at`; Post may give any date. The
queries are operators over it: BalanceAsOf, InWindow, NewestFirst, Clamp,
Statement. `Reconcile`: Window, LedgerSide, Accepts, Report, Clean as in the code,
DayStart and DayEnd for the bare days of the command (a day has two microseconds).

`Audit`: `phase` is the check the pass runs next; `edit` is the one thing somebody
changed behind the engine's back: a balance, an amount, an account or a reference
in a row, a posting added, a transfer deleted.

`Transfer64`: `draft` is the Transfer a caller builds with Debit and Credit, `balances`
the bigint column, `exact` what the stored postings add up to. Post is Validate with the
sums of Net wrapping and applyBalances with those of delta; `Refused` is an error of
either. What else may refuse a transfer (accounts, currencies, overdraft) is in `Books`.

## 3. Runs

| Run | Instance | Shows |
|---|---|---|
| `books` | 4 accounts (a float that may overdraw, two guarded wallets, one opened late, one in EUR), 2 holds, 8 requests of which 5 are malformed, 5 captures, 2 reversals | every property of `Books` on 200,856 states |
| `store_posts` | 2 sessions, 4 accounts, posts that compete for money and two that share no account and so meet only at the chain lock, 2 reversals, an account opened late and archived | `Store` implements `Books`; what was checked still holds at commit |
| `store_holds` | 2 sessions and the sweeper, 2 accounts, 2 holds, captures, releases, both clocks, archiving | the same for holds; which deadlocks exist |
| `store_live` | 2 sessions and the sweeper, 1 post, 2 holds, 1 capture | every call returns; lapsed holds stop reserving |
| `store_deadlock` | as `store_holds` | **violated**: Capture and Post over the same two accounts deadlock |
| `transfer64` | 4-bit integers, 3 legs of -8, 0, 1 or 2, 3 accounts | sums inside the width: only balanced transfers accepted, balances exact up to overflow |
| `transfer64_wrap` | 4-bit integers, amounts up to 7 | **violated**: three debits, 5 + 5 + 6, net to 0 |
| `embedded` | 2 callers, 2 calls each: a post, its reversal, a hold, its capture and release, expiry, an account opened and archived; careful callers at READ COMMITTED, and careless ones of which one is at REPEATABLE READ | careful callers get `Books`; the others still get balanced books with unique reversals and captures; which calls deadlocks need; no lock outlives its transaction |
| `idempotency` | a client with two overlapping attempts to capture a hold, another with the same key on the route that releases it, one fault | one handler per key, own responses, true answers, an answer in the end |
| `migrations` | 3 deploys, the repository's 4 files, 2 crashes | order, record and schema; why a deploy may fail; the schema gets done |
| `history` | 3 accounts, 3 transfers in any order at 5 dates, statements of at most 3 lines, 57 files of at most 2 entries, every window of instants or days | the readers agree; reconciliation |
| `audit` | 3 accounts, 4 transfers, one edit anywhere, passes of verify at any moment | no false alarm; every edit located |

**Properties of Books.** `GuardHolds` (available balance of a guarded account never
negative), `SumZero` (verify's transfer and trial-balance checks find nothing),
`BalancesMatchPostings`, `ChainIntact`, `ReversalsCancel`, `CapturesSettle`,
`ArchivedIsFrozen`.

**Properties of Store.** `ImplementsBooks` is refinement under the identity on the
four tables: every statement leaves them alone or performs one whole operation of
`Books`. `EngineInv` says why: who owns which lock at which statement, in which order
locks are taken, and which rows a transaction has seen that nobody can change before
it ends. `ChecksStillHold` is what that amounts to: at the commit point every condition
a session evaluated in earlier statements is still true. `DeadlockNeedsCapture`
characterises the deadlocks; `CallsFinish` and `LapsedHoldsStopReserving` are the
liveness properties.

**Properties of Embedded.** `ImplementsBooks` is the same refinement, for the
programs whose callers roll back on an error at READ COMMITTED: a transaction of
several calls is a run of operations `Books` allows at the moment of the commit,
although the later calls read rows nobody else could see. `BooksSurvive` is what
is left for the others. `DeadlockNeedsDisorder` characterises the deadlocks: one of
the transactions in the cycle is in a second call, or is a Capture that has the held
account and wants one with a smaller id, or an ExpireHolds that has a row already. The
run reaches the second kind in first calls: a Capture has the wallet and wants account
1, a Post has account 1 and wants the wallet. `TypeOK` says besides the types that locks
belong to open transactions: a chain lock of the session (`pg_advisory_lock`) would break it.

**Properties of Idempotency.** `OneHandlerAtATime` and `ResponseOfThisReservation`
hold of keys that never expired under a running handler; `ReplaysBelong` holds of
all. `AnswersMatchBooks`: a 2xx is in the books; a no whose change is there all
the same was told to a client that outwaited its key, or after an error that came
behind the commit. `EveryClientLearns` is its liveness property.

**Properties of Migrations.** `RecordFollowsSchema`, `SuccessIsComplete`,
`FailureNeedsRaceOrCrash`, and `SchemaGetsDone` under fairness when nobody dies.

**Properties of History and Reconcile.** `AsOfMeetsBalance` and `StatementExplains`
relate the three readers, `CutShowsNewest` says what the limit drops, and
`PastIsSettled` that a late transfer with an early date changes nothing before it.
`OneBucket`, `CleanMeansAgreement` and `DaysPartition` quantify over every account,
window and accepted file in every reachable history.

**Properties of Transfer64.** `DebitsEqualCredits` (the trial balance of every currency
is zero) and `BalancesExact` (the bigint column against the exact sum of what was
posted), while `SumsFit`: as many legs as a transfer has, each of one amount, add up
within the width. -8 is the four-bit integer whose negation wraps, and 0 the other
amount Validate must refuse.

**Properties of Audit.** `NoFalseAlarm` and `EditIsLocated`.

**Bounds.** References are unique, so a finite set of requests bounds the number
of transfers: no other limit is put on histories. The races of the engine are between
two transactions over a row, a reference or the chain, and two sessions with the
sweeper, or two callers, reach them; queues of three sessions and lock cycles longer
than three processes are beyond these instances. Amounts are 1 or 2, so that a wallet
can cover one of two competing requests and not both. `MaxCalls` 2 in `embedded` is
the least with which a call follows another; one snapshot caller beside one that is
not reaches what a stale read can do. `embedded` has one hold, so two ExpireHolds cannot
wait for each other there; the theorem covers them. `ChecksStillHold` runs without holds
(`store_posts`): its clauses about holds rest on `EngineInv`, which `store_holds` checks,
and on the theorem `ChecksHoldAtCommit`. `MaxFaults` 1 in `idempotency` is one crash,
lost answer or failing statement; expiry and retries are not bounded. `MaxCrashes` 2
in `migrations` lets a second deploy die over the remains of the first. In `audit`
there is one edit in a behaviour: two can cancel out.

Deadlock checking is off in the `Books`, `Store`, `Idempotency` and `History` runs
because the requests run out, after which the system is idle. `SessionSymmetry` and
`CallerSymmetry` permute interchangeable processes; runs with liveness properties do
not use them.

**Fairness** (`LiveSpec` and `ApplyLiveSpec` only). `Store`: a statement that need not wait finishes (WF on
`Proceed`). A lock that keeps coming free is eventually granted to each waiter (SF
on `Acquire`, `SweepRow`): Postgres queues waiters. A deadlock is broken
after deadlock_timeout (WF on `BreakDeadlock`, whose victim is any member of the
cycle). The ticker of `housekeeping` keeps firing (WF on `SweepStart` and
`SweepCommit`). Callers need not call, time need not pass, and connections stay up.
`LapsedHoldsStopReserving` speaks of the database clock: the sweep uses no other.

`Idempotency`: a client that has learned nothing sends again (WF on `Send`), a
process that does not die goes on (WF on `Serve`; the store's statements do not wait
for one another beyond a row lock), and expires_at passes (WF on `Lapse`). Nobody has
to sweep, as the comment on Sweep promises: Begin takes expired rows over. A client
gives up on nothing but an answer, so this is a property of the server, not of
impatient clients.

`Migrations`: somebody deploys again (WF on `Start`) and a process that lives goes on
(WF on `Run`). Crashes are outside the premise of `SchemaGetsDone`, see section 4.

## 4. Findings

1. *Capture is outside the lock order.* `Capture` locks the held account and only
   then lets `post` lock the transfer's accounts by id, so a capture that pays an
   account with a smaller id can deadlock with a post over the same pair. The
   comment on `lockAccounts` and ADR 0003 say this cannot happen between two
   transfers. Postgres aborts one of them; no money is lost (`ImplementsBooks`) and
   every call still returns (`CallsFinish`), but one returns an error.
2. *Net wraps.* The int64 sums of `Net` have no overflow check. The documented rule
   that debits equal credits or the transfer is rejected holds only while the
   amounts of a transfer add up within 63 bits. What is left of it beyond is
   `OffByWholeTurns` (section 5): the books are then off by a multiple of 2^64.

These have a run that expects the violation. The other models show where the
documents promise more than the code keeps as the exceptions their properties have
to make; removing one from the definition makes TLC print the behaviour.

3. *A crash in Apply is for good.* `FailureNeedsRaceOrCrash` cannot drop `crashes >
   0`: the file and its record are two transactions (`migrations.go:47-57`), and after
   a crash between them every later Apply runs the file again and fails on what it
   finds. `src/README.md:53` calls it safe to run on every deploy. For the same reason
   `SchemaGetsDone` assumes that nobody dies.
4. *Embedded, a refused transfer leaves a trace.* `ImplementsBooks` needs
   `program.careless = {}`: the overdraft guard runs after the rows are written
   (`store.go:199-215`), and with the caller's transaction nothing takes them back.
   `store.go:101` says that a transfer which fails a check leaves no trace.
5. *Embedded, REPEATABLE READ.* It needs `program.snapshots = {}` as well: the chain
   lock and the row locks are waited for, but what is read behind them comes from the
   snapshot, so the tail can be an old one (ADR 0003: a straight line) and holds
   placed since are not counted (`hold.go:226-227`).
6. *Embedded, deadlocks.* `DeadlockNeedsDisorder` cannot say "never", nor "only over the
   locks of an earlier call": a second post locks account rows while the first holds the
   chain lock; finding 1 is there in first calls as well (`hold.go:141`, then
   `store.go:231`); and the UPDATE of ExpireHolds (`hold.go:202-204`) takes hold rows in no
   order. What always goes by the order that `store.go:218-220` asks for is the rest.
7. *A key that expires under its handler.* `OneHandlerAtATime` and
   `ResponseOfThisReservation` exempt `overran`: Complete and Release go by the key
   alone (`idempotency.go:90-108`), whoever has reserved it since. Of that case only
   `ReplaysBelong` speaks.
8. *A conflict with oneself.* `AnswersMatchBooks` exempts `broken`: an error after the
   commit (the read-back of reverseTransfer, `api.go:372-388`) releases the key, and
   the retry is answered 409 because of its own first attempt.
9. *The tail of the chain.* `EditIsLocated` asks the chain for rows rewritten or
   removed before the tail only: a transfer removed at the tail is noticed by the
   balances it moved.
10. *A statement without a limit.* Zero means `MaxLines` (1000), so "everything"
   (`query.go:65-66`) is the newest 1000 lines; `StatementExplains` is about windows
   that fit.

## 5. Proofs

**Books.** `BooksProofs` proves, for every number of accounts and holds, every chart, every
set of requests and histories of every length:

| Theorem | Statement | Rests on |
|---|---|---|
| `TypeCorrect` | `Spec => []TypeOK` | inductive by itself |
| `GuardedNeverOverdrawn` | `Spec => []GuardHolds` | with TypeOK; the sums of holds under update |
| `BalancesNeverDrift` | `Spec => []BalancesMatchPostings` | a sum over an appended sequence |
| `ChainNeverBreaks` | `Spec => []ChainIntact` | the tail hash |
| `AlwaysSumsToZero` | `Spec => []SumZero` | strengthened with `UnopenedIsEmpty`: an account that does not exist has balance 0, needed because the trial balance ranges over existing accounts; exchanging the sums over legs and accounts |
| `ReversalsAlwaysCancel` | `Spec => []ReversalsCancel` | the mirror image negates every Delta |
| `CapturesAlwaysSettle` | `Spec => []CapturesSettle` | holds point only at existing transfers, each at its own |
| `ArchivedStaysFrozen` | `Spec => ArchivedIsFrozen` | a transfer moves only accounts it touches |

The assumptions are those of `LedgerData` (`BoundsAssumption`, `ChartAssumption`,
`RequestsAssumption`): counts are naturals, the chart gives every account a
currency in use, and callers do not set `Reverses` themselves, which transfer.go
asks of them and the HTTP API enforces. Amounts are mathematical integers (see
*Integers* below).

`LedgerDataProofs` derives what the recursive sum is from its definition, by induction
over a *set* of naturals (the library's induction theorems take an operator
parameter, which the provers cannot instantiate): unfolding, extensionality,
additivity, updating one index, bounds, and exchange of two sums. It turns these
into facts about Delta, Held and ApplyBalances.

**Store.** `StoreProofs` proves the concurrent engine, for every number of sessions,
accounts, holds and requests, beside the sweep and both clocks:

| Theorem | Statement |
|---|---|
| `EngineInvariant` | `Spec => []EngineInv` |
| `ChecksHoldAtCommit` | `Spec => []ChecksStillHold` |
| `OnlyCapturesDeadlock` | `Spec => []DeadlockNeedsCapture` |
| `EngineImplementsBooks` | `Spec => ImplementsBooks`, the refinement |
| `EngineKeepsBooks` | the six invariants proved of `Books`, of the engine's committed tables |
| `EngineFreezesArchived` | `ArchivedIsFrozen` of `Books`, of the engine |

`ChecksStillHold` is not inductive: it speaks of the last statement only. `EngineInv`
is its strengthening to every statement: TypeOK, the rows (`RowsInv`), the sweep
(`SweepInv`) and, for each session, its call (`CallInv`), what it has seen of its
accounts (`AccountInv`), the tail (`ChainInv`) and its hold (`HoldInv`). The proof
separates what a step does to the process that takes it from what it does to the
others: the latter stay `Undisturbed` (their locals, their locks and the rows those
locks protect), which keeps their part of the invariant; so each action restores one
session's part only. A deadlock without a capture would have a session that awaits
the largest account anybody in it awaits, whose owner awaits a smaller one and would
have locked in the wrong order. For the refinement, the commit of each call is the
action of `Books` whose guard the invariant still provides, and every other step
leaves the tables alone. A module that is instantiated is a copy, so
the lemmas `Same...` first identify the operators of `Books` with the engine's. The two
last theorems rest on the step lemmas of `BooksProofs` and on the refinement.

**Embedded.** `EmbeddedProofs` proves embedded mode for every number of callers,
accounts, holds and requests, transactions of any length, every mixture of isolation
levels and of ways to treat an error:

| Theorem | Statement |
|---|---|
| `EmbeddedInvariant` | `Spec => []IInv` |
| `EmbeddedTypeCorrect` | `Spec => []TypeOK`: types, and no lock without an open transaction |
| `DeadlocksNeedDisorder` | `Spec => []DeadlockNeedsDisorder` |
| `EmbeddedImplementsBooks` | `Spec => ImplementsBooks`, the refinement for disciplined callers |
| `BooksAlwaysSurvive` | `Spec => []BooksSurvive`, for every program |

What is difficult is that a caller's rows are in nobody's tables until it commits,
and then go on top of tables that others have changed since. A write is `Lawful` in
tables if what does not depend on the caller's discipline holds there: the reference
is new, the reversed transfer is there and not reversed, the hold is in the status the
write needs, the row is the one the request asked for. `Laws` says that each of a
caller's writes is lawful in the committed tables with its earlier writes on top. To
carry that over the statements of others, `Owned` says that whatever a pending write
depends on is locked by its caller (accounts, hold rows and new references, the chain),
so two callers' pending writes touch disjoint rows, and lawfulness depends on those rows
alone. `Asked` and `Agree` say the same of a call under way and of the rows it has
checked, `Idle` that a caller without a transaction owns nothing, `Committing` that one
commit at a time goes row by row. For disciplined callers `Strictly` adds what only they
guarantee: the guard covers each pending row and the tail is the real one. Then

- a commit's row that is lawful and strict is a step of `Books` (`EmbeddedImplementsBooks`);
- a row that is lawful only still keeps `Sound`, which is `BooksSurvive` strengthened to
  an inductive invariant; no assumption on `program` is used;
- a transaction in its first call owns only what comes before what it waits for
  (`FirstCalls`): no hold row and no account before it waits for a hold, its hold at most
  before an account, lower account rows before the next one unless it is a Capture, rows
  but never the chain before a new reference or the chain. In a cycle without a
  `Disorderly` member nobody owns the chain, so nobody waits for it. Hold rows are then
  owned only by Captures on their way to account rows, and those holds are committed, so
  nobody waits to insert their reference. Accounts are owned at `LockRows` only, and the
  owner of the highest one any member owns would have to wait for a higher one. So no
  member owns an account, and a Capture, which would have to wait for one, is not among
  them, nor then anything to wait for.

**Verify.** `VerifyIsQuiet` (`AuditProofs`): `Spec => []NoFalseAlarm`, for histories of
any length and posts between any two of the four checks. Its invariant says that
while nobody has edited anything the tables satisfy what each check looks for and the
report is empty; that posting keeps this is taken from an instance of `BooksProofs`
under the substitution with which `Audit` instantiates `Books`. `AuditTypeCorrect`
covers the edits too. `VerifyLocates`: `Spec => []EditIsLocated`. Its invariant
(`Located`) follows an edit through everything posted on top of it: the row it
concerns stays among the rows the chain check reports, or the account among those
whose balance does not follow, since Post appends rows and moves balances and
postings alike; and a pass begun after the edit has that problem in its report once
it is past the check in question. Before the edit no row bears the forged reference,
which is what makes a rewritten row differ from the one it replaces.

**Queries.** `HistoryProofs`: `HistoryTypeCorrect`; `ReadersAgree` (`[]AsOfMeetsBalance`)
from the invariant that the cache is the sum of all movements, by splitting that sum
at the instant; `ThePastIsSettled` (`PastIsSettled`), since the sum over the rows dated
up to an instant gains a zero. `CutsShowNewest` (`[]CutShowsNewest`): ORDER BY is a strict
order of the lines, so the numbers of lines before each one are distinct and, there being
as many lines as numbers, each number occurs; the n-th line therefore exists and is
unique, and what LIMIT leaves out comes after what it shows. `StatementsExplain`
(`[]StatementExplains`): an enumeration of the lines has the sum of the window's rows, by
exchanging the sums over lines and rows and pairing the lines of one row with its legs.
For any accounts, requests, dates and any maximal length of a statement.

**Reconciliation.** Also in `HistoryProofs`. `ReferencesAreUnique` is the invariant the
report rests on: with unique references on both sides (an accepted file repeats none)
pairing is one-to-one. `BucketsPartition` (`[]OneBucket`) counts the two projections of
the pairs. `CleanIsAgreement` (`[]CleanMeansAgreement`): in a clean report the pairing is
a bijection that keeps amounts, so the two totals are the same sum exchanged over
lines and entries; and the ledger's total is the difference of two balances because
the movements up to the end of the window split at its start. `DaysCoverOnce`
(`[]DaysPartition`) is division with remainder by the length of a day. The constants'
assumptions are that dates are naturals, files are sequences of entries, and there is
a last date (`LastInstantAssumption`: a timestamp column holds only so late a date).

**Idempotency.** `ServiceProofs`: `KeysTypeCorrect`; `HandlersExclude` and
`ResponsesAreFresh` from the invariant `Reserved` (a running handler whose key has not
lapsed owns the row, live and empty: mutual exclusion alone is not inductive);
`ReplaysAreOwn` from `Labelled` (a stored or replayed response carries the route, key
and body of the request it answers); `AnswersAreTrue` (`[]AnswersMatchBooks`) from
`Decisions`: while a key has never expired, a handler that has not decided means that
nobody has been denied and nothing is in the books without an error, and a denial and
a change never stand side by side. For any clients, requests, attempts under way and
number of faults, different bodies under one key included.

**Migrations.** Also in `ServiceProofs`, which extends both modules (hence the names
`ApplySpec`, `ApplyNext` and so on in `Migrations`): `MigrationsTypeCorrect`, `RecordIsSound`,
`SuccessMeansComplete`, `NoRecordTwice` (the INSERT that records a file never collides)
and `FailuresExplained`, from one invariant: besides the properties, at most one deploy
is at `record`, what a deploy has passed is recorded, and deploys that run together
have met. For any number of files, dependencies, deploys and crashes.

**Integers.** `Transfer64Proofs` proves what fixed width does to all of this, for every
width, chart, set of amounts and number of legs:

| Theorem | Statement |
|---|---|
| `Transfer64TypeCorrect` | `Spec => []TypeOK`: drafts are typed and the column stays a bigint |
| `OffByWholeTurns` | `Spec => []WholeTurns`: balances are the exact ones, and every trial balance is zero, modulo 2^64 |
| `BalanceColumnIsExact` | `SumsFit => (Spec => []BalancesExact)` |
| `FixedWidthSumsBalance` | `SumsFit => (Spec => []DebitsEqualCredits)` |
| `FixedWidthImplementsExact` | `SumsFit => (Spec => [][StepsAreExact]_vars)` |

An integer that wraps is off by whole turns of the width and by nothing else
(`WrapFacts`: division with remainder), being congruent is kept by addition, so the
loops of Net and delta are congruent to the exact sums however often they wrap on the
way (`WrapSumFacts`). The first invariant needs no assumption on amounts: a posted
transfer has a Net of zero, hence an exact net of whole turns, and the trial balance
moves by the exact net up to whole turns. It is the general form of finding 2. Two
integers of the width that are congruent are equal (`CongruentInRange`), so a sum whose
exact value fits is exact in any order of the legs; `SumsFit` gives that for what
Validate lets through, whose amounts are positive (`SumsAreExact`). The last theorem is
what the other models rest on: there, a post is one `LedgerData`'s Validate accepts and
moves the balances as ApplyBalances does, and a refusal is one of that Validate or of a
balance that no bigint can hold. `SumsFit` is the condition on callers under which the
documents are right; nothing in the code enforces it.

The assumptions on the constants are the ASSUMEs of the modules: types, `Forged` not
in use, files that build on earlier files only, equal requests that need the same things.

**Only model-checked.** The liveness properties
(`CallsFinish`, `LapsedHoldsStopReserving`, `EveryClientLearns`, `SchemaGetsDone`):
liveness under fairness and ENABLED are out of the prover's reach.

## 6. Not modelled

- HTTP routing, the bearer token, JSON and single status codes; flags, CSV reading and
  printing of the command: they keep no state. Verdicts are modelled by class.
- Single-row lookups (Account, HoldByReference, Available outside a transaction), which
  read what the other operations are shown to keep.
- The contents of the migration files beyond which builds on which, and two first
  deploys that race to create the bookkeeping table itself.
- Description, metadata and the order of the report's lines; the limit of 50,000
  entries of a file.
- Bit-level facts: SHA-256 is taken to be collision-free, and the canonical encoding
  of a row to be injective.
