---------------------------- MODULE Idempotency -----------------------------
(***************************************************************************)
(* Keyed writes of the HTTP API.  A client repeats its request until it    *)
(* learns what became of it; every repetition is a process that passes     *)
(* through requireIdempotencyKey, the idempotent middleware (external),    *)
(* the IdempotencyStore and the handler.  Every SQL statement is a step.   *)
(* What a handler does to the books is reduced to the things only one      *)
(* request can ever have: a reference, an active hold, a transfer not yet  *)
(* reversed.  Keys expire at any moment, requests and answers are lost,    *)
(* and a process may die between any two steps.                            *)
(***************************************************************************)
EXTENDS Naturals

CONSTANTS
    Clients,     \* callers, each with one request to get through
    Attempts,    \* pairs of a client and the number of one of its attempts, as many
                 \* as it may have under way together
    Request,     \* [Clients -> [route, key, body]]
    Takes,       \* [Clients -> SUBSET Things], what its request needs unused: its
                 \* route and body tell
    Things,      \* references, active holds, transfers to reverse
    Nobody,      \* the owner of a key that has no row
    MaxFaults    \* bound: crashes, lost answers and internal errors

ASSUME ClientsAssumption ==
    /\ Request \in [Clients -> [route : STRING, key : STRING, body : STRING]]
    /\ Takes \in [Clients -> SUBSET Things]
    /\ \A c, d \in Clients : Request[c] = Request[d] => Takes[c] = Takes[d]
    /\ Attempts \subseteq Clients \X Nat /\ Nobody \notin Attempts
    /\ MaxFaults \in Nat

VARIABLES
    owner,     \* idempotency_keys: who reserved the row, Nobody when there is none
    stored,    \* its fingerprint, status and body, NoResponse while status is NULL
    expired,   \* the keys whose expires_at has passed
    taken,     \* the things the ledger has given away
    pc,        \* where each attempt is
    reply,     \* what the attempt is about to store or to answer
    told,      \* what each client has learned
    faults,    \* how many crashes, losses and internal errors there were
    did,       \* history: the clients whose request has changed the books
    overran,   \* history: the keys that expired under a running handler
    lapsed,    \* history: the keys that have ever expired
    broken     \* history: the clients told of a failure after a commit

table == <<owner, stored, expired>>
history == <<did, overran, lapsed, broken>>
vars == <<table, taken, pc, reply, told, faults, history>>

\* What handlers answer: 2xx, 409 from the ledger, another 4xx, 500.
Verdicts == {"created", "conflict", "refused", "failed"}

\* What ends a client's attempts; 409 from the middleware and 500 do not.
Answers == {"created", "conflict", "refused", "mismatch"}

\* Mutant: the key is not scoped to the route.
KeyWithoutRoute(p) == <<"any", Request[p[1]].key>>

\* The key as the store sees it.
StoreKey(p) == <<Request[p[1]].route, Request[p[1]].key>>
StoreKeys == {StoreKey(p) : p \in Attempts}

Fingerprint(p) == Request[p[1]].body

NoResponse == [what |-> "none", fingerprint |-> "", by |-> Nobody]
Responses == [what : Verdicts, fingerprint : STRING, by : Attempts]

\* The answers of the middleware itself.
InFlight == [what |-> "inflight", fingerprint |-> "", by |-> Nobody]
Mismatch == [what |-> "mismatch", fingerprint |-> "", by |-> Nobody]

Init ==
    /\ owner = [k \in StoreKeys |-> Nobody]
    /\ stored = [k \in StoreKeys |-> NoResponse]
    /\ expired = {} /\ taken = {}
    /\ pc = [p \in Attempts |-> "idle"]
    /\ reply = [p \in Attempts |-> NoResponse]
    /\ told = [c \in Clients |-> "nothing"]
    /\ faults = 0
    /\ did = {} /\ overran = {} /\ lapsed = {} /\ broken = {}

Goto(p, label) == pc' = [pc EXCEPT ![p] = label]
Set(p, r, label) == reply' = [reply EXCEPT ![p] = r] /\ Goto(p, label)

-----------------------------------------------------------------------------
\* The client sends its request, for the first time or again.
Send(p) ==
    /\ pc[p] = "idle" /\ told[p[1]] = "nothing"
    /\ Goto(p, "begin")
    /\ UNCHANGED <<table, taken, reply, told, faults, history>>

\* The row is inserted, or an expired one taken over.
Reserve(p, k) ==
    /\ owner' = [owner EXCEPT ![k] = p]
    /\ stored' = [stored EXCEPT ![k] = NoResponse]
    /\ expired' = expired \ {k}
    /\ Goto(p, "handle")

Free(k) == owner[k] = Nobody \/ k \in expired

\* Mutant: DO UPDATE without its WHERE.
BeginAlways(p) ==
    /\ pc[p] = "begin"
    /\ Reserve(p, StoreKey(p))
    /\ UNCHANGED <<taken, reply, told, faults, history>>

\* Mutant: DO UPDATE leaves the old response in the row.
BeginKeepsResponse(p) ==
    /\ pc[p] = "begin"
    /\ LET k == StoreKey(p) IN
       IF Free(k)
       THEN /\ owner' = [owner EXCEPT ![k] = p]
            /\ expired' = expired \ {k}
            /\ Goto(p, "handle")
            /\ UNCHANGED stored
       ELSE Goto(p, "read") /\ UNCHANGED table
    /\ UNCHANGED <<taken, reply, told, faults, history>>

\* Mutant: ON CONFLICT DO NOTHING.
BeginInsertOnly(p) ==
    /\ pc[p] = "begin"
    /\ LET k == StoreKey(p) IN
       IF owner[k] = Nobody THEN Reserve(p, k) ELSE Goto(p, "read") /\ UNCHANGED table
    /\ UNCHANGED <<taken, reply, told, faults, history>>

\* Begin, its INSERT.
Begin(p) ==
    /\ pc[p] = "begin"
    /\ LET k == StoreKey(p) IN
       IF Free(k) THEN Reserve(p, k) ELSE Goto(p, "read") /\ UNCHANGED table
    /\ UNCHANGED <<taken, reply, told, faults, history>>

\* Begin, the SELECT of a caller who did not get the row, whatever has become
\* of the row since; the middleware compares the fingerprint.
Read(p) ==
    /\ pc[p] = "read"
    /\ LET r == stored[StoreKey(p)] IN
       Set(p, IF r = NoResponse THEN InFlight
              ELSE IF r.fingerprint = Fingerprint(p) THEN r ELSE Mismatch, "answer")
    /\ UNCHANGED <<table, taken, told, faults, history>>

-----------------------------------------------------------------------------
(* The handler: one transaction of the ledger.                             *)

Verdict(p, what) == Set(p, [what |-> what, fingerprint |-> Fingerprint(p), by |-> p], "finish")

Change(p) ==
    /\ Takes[p[1]] \cap taken = {}
    /\ taken' = taken \cup Takes[p[1]]
    /\ did' = did \cup {p[1]}

\* 201 or 204: the transfer, hold, capture or release is in the books.
Succeeds(p) ==
    /\ Change(p) /\ Verdict(p, "created")
    /\ UNCHANGED <<faults, broken>>

\* 409: something the request needs was used before.
Conflicts(p) ==
    /\ Takes[p[1]] \cap taken # {}
    /\ Verdict(p, "conflict")
    /\ UNCHANGED <<taken, did, faults, broken>>

\* Another 4xx: the body is malformed, or the books refuse it for a reason of
\* their own.
Refuses(p) ==
    /\ Verdict(p, "refused")
    /\ UNCHANGED <<taken, did, faults, broken>>

\* 500: the database failed, or failed to acknowledge the commit, or failed
\* when reverseTransfer read back what it had committed.
Fails(p) ==
    /\ faults < MaxFaults /\ faults' = faults + 1
    /\ Verdict(p, "failed")
    /\ \/ UNCHANGED <<taken, did, broken>>
       \/ Change(p) /\ broken' = broken \cup {p[1]}

Handle(p) ==
    /\ pc[p] = "handle"
    /\ Succeeds(p) \/ Conflicts(p) \/ Refuses(p) \/ Fails(p)
    /\ UNCHANGED <<table, told, overran, lapsed>>

\* Complete stores the response in whatever row the key has.
Complete(p) ==
    /\ pc[p] = "finish" /\ reply[p].what # "failed"
    /\ LET k == StoreKey(p) IN
       stored' = IF owner[k] = Nobody THEN stored ELSE [stored EXCEPT ![k] = reply[p]]
    /\ Goto(p, "answer")
    /\ UNCHANGED <<owner, expired, taken, reply, told, faults, history>>

Delete(K) ==
    /\ owner' = [k \in StoreKeys |-> IF k \in K THEN Nobody ELSE owner[k]]
    /\ stored' = [k \in StoreKeys |-> IF k \in K THEN NoResponse ELSE stored[k]]
    /\ expired' = expired \ K

\* Release frees the key unless it holds a response.
Release(p) ==
    /\ pc[p] = "finish" /\ reply[p].what = "failed"
    /\ Delete({StoreKey(p)} \cap {k \in StoreKeys : stored[k] = NoResponse})
    /\ Goto(p, "answer")
    /\ UNCHANGED <<taken, reply, told, faults, history>>

\* Complete or Release returns an error; the handler's answer stands.
StoreFails(p) ==
    /\ pc[p] = "finish" /\ faults < MaxFaults
    /\ faults' = faults + 1
    /\ Goto(p, "answer")
    /\ UNCHANGED <<table, taken, reply, told, history>>

\* The answer arrives.
Answer(p) ==
    /\ pc[p] = "answer"
    /\ told' = IF told[p[1]] = "nothing" /\ reply[p].what \in Answers
               THEN [told EXCEPT ![p[1]] = reply[p].what] ELSE told
    /\ Set(p, NoResponse, "idle")
    /\ UNCHANGED <<table, taken, faults, history>>

\* The process dies, its connection breaks or its answer is lost.
Crash(p) ==
    /\ pc[p] # "idle" /\ faults < MaxFaults
    /\ faults' = faults + 1
    /\ Set(p, NoResponse, "idle")
    /\ UNCHANGED <<table, taken, told, history>>

-----------------------------------------------------------------------------
\* expires_at passes.
Lapse(k) ==
    /\ owner[k] # Nobody /\ k \notin expired
    /\ expired' = expired \cup {k}
    /\ lapsed' = lapsed \cup {k}
    /\ overran' = IF \E p \in Attempts : StoreKey(p) = k /\ pc[p] \in {"handle", "finish"}
                  THEN overran \cup {k} ELSE overran
    /\ UNCHANGED <<owner, stored, taken, pc, reply, told, faults, did, broken>>

\* Mutant: the sweep forgets its WHERE.
SweepEverything ==
    /\ \E k \in StoreKeys : owner[k] # Nobody
    /\ Delete(StoreKeys)
    /\ UNCHANGED <<taken, pc, reply, told, faults, history>>

\* The hourly sweep.
Sweep ==
    /\ expired # {}
    /\ Delete(expired)
    /\ UNCHANGED <<taken, pc, reply, told, faults, history>>

-----------------------------------------------------------------------------
Serve(p) ==
    Begin(p) \/ Read(p) \/ Handle(p) \/ Complete(p) \/ Release(p) \/ Answer(p)

Next ==
    \/ \E p \in Attempts : Send(p) \/ Serve(p) \/ StoreFails(p) \/ Crash(p)
    \/ \E k \in StoreKeys : Lapse(k)
    \/ Sweep

Spec == Init /\ [][Next]_vars

(* Fairness: a client that has learned nothing keeps trying, a process that *)
(* does not die goes on, and time passes.  Nobody has to sweep.             *)
LiveSpec ==
    /\ Spec
    /\ \A p \in Attempts : WF_vars(Send(p)) /\ WF_vars(Serve(p))
    /\ \A k \in StoreKeys : WF_vars(Lapse(k))

-----------------------------------------------------------------------------
(* Properties *)

TypeOK ==
    /\ owner \in [StoreKeys -> Attempts \cup {Nobody}]
    /\ stored \in [StoreKeys -> Responses \cup {NoResponse}]
    /\ expired \subseteq StoreKeys /\ taken \subseteq Things
    /\ pc \in [Attempts -> {"idle", "begin", "read", "handle", "finish", "answer"}]
    /\ reply \in [Attempts -> Responses \cup {NoResponse, InFlight, Mismatch}]
    /\ \A p \in Attempts : pc[p] = "finish" => reply[p] \in Responses
    /\ told \in [Clients -> Answers \cup {"nothing"}]
    /\ faults \in 0 .. MaxFaults
    /\ did \subseteq Clients /\ broken \subseteq Clients
    /\ overran \subseteq StoreKeys /\ lapsed \subseteq StoreKeys

Running(k) == {p \in Attempts : StoreKey(p) = k /\ pc[p] \in {"handle", "finish"}}

\* Begin is a lock: until a key expires under a running handler, no two
\* handlers of the same key ever run at once, retries, crashes, releases and
\* sweeps notwithstanding.
OneHandlerAtATime ==
    \A k \in StoreKeys \ overran :
        \A p, q \in Running(k) : p = q

\* The response in a row was produced under the reservation the row stands
\* for, never under an earlier one, until a key expires under its handler.
ResponseOfThisReservation ==
    \A k \in StoreKeys \ overran :
        stored[k] # NoResponse => stored[k].by = owner[k]

\* What is replayed was said to the same request: a caller is never given
\* the response another route or another body received, and a replayed 2xx
\* means that the books have changed.
ReplaysBelong ==
    \A p \in Attempts :
        pc[p] = "answer" /\ reply[p].what \in Verdicts =>
            LET from == reply[p].by IN
            /\ Request[from[1]] = Request[p[1]]
            /\ reply[p].what = "created" => from[1] \in did

\* What a client has learned is what happened: 2xx means its change is in the
\* books, and a client told no whose change is there all the same has either
\* outwaited its key or met an error after the commit.
AnswersMatchBooks ==
    \A p \in Attempts :
        LET c == p[1] IN
        /\ told[c] = "created" => Takes[c] \subseteq taken
        /\ told[c] \in {"conflict", "refused"} /\ c \in did =>
              StoreKey(p) \in lapsed \/ c \in broken

\* A client that keeps trying learns what became of its request, although
\* dead processes leave their reservations behind and nobody sweeps.
EveryClientLearns == <>(\A p \in Attempts : told[p[1]] # "nothing")

=============================================================================
