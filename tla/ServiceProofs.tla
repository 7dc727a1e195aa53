--------------------------- MODULE ServiceProofs ----------------------------
(***************************************************************************)
(* Theorems about the two parts of the service around the ledger: keyed    *)
(* writes, for any clients, requests and number of attempts under way, and *)
(* any number of faults; and migrations.                                   *)
(***************************************************************************)
EXTENDS Idempotency, Migrations, TLAPS

\* A reservation is what its owner left it: as long as no handler of the key
\* outlived it, a running handler has the row, live and without a response,
\* and a response in the row is its owner's.
Reserved ==
    /\ \A p \in Attempts :
          pc[p] \in {"handle", "finish"} /\ StoreKey(p) \notin overran =>
              /\ owner[StoreKey(p)] = p
              /\ StoreKey(p) \notin expired
              /\ stored[StoreKey(p)] = NoResponse
    /\ \A p \in Attempts : pc[p] = "finish" => reply[p].by = p
    /\ ResponseOfThisReservation

\* A response r that some handler produced is labelled truthfully.
Honest(r) ==
    r.what \in Verdicts =>
        /\ r.by \in Attempts
        /\ r.fingerprint = Fingerprint(r.by)
        /\ r.what = "created" => r.by[1] \in did

\* Where responses are kept: under the key of the request they answer.
Labelled ==
    /\ \A k \in StoreKeys :
          stored[k] # NoResponse => Honest(stored[k]) /\ StoreKey(stored[k].by) = k
    /\ \A p \in Attempts : pc[p] = "finish" => Honest(reply[p]) /\ reply[p].by = p
    /\ \A p \in Attempts :
          pc[p] = "answer" /\ reply[p].what \in Verdicts =>
              /\ Honest(reply[p])
              /\ StoreKey(reply[p].by) = StoreKey(p)
              /\ Fingerprint(reply[p].by) = Fingerprint(p)

-----------------------------------------------------------------------------
LEMMA KeyOfAttempt == \A p \in Attempts : StoreKey(p) \in StoreKeys
BY DEF StoreKeys

\* What a handler says is a response.
LEMMA VerdictType ==
    ASSUME NEW p \in Attempts, NEW what \in Verdicts
    PROVE  [what |-> what, fingerprint |-> Fingerprint(p), by |-> p] \in Responses
<1>1. p[1] \in Clients BY ClientsAssumption
<1>2. Request[p[1]] \in [route : STRING, key : STRING, body : STRING]
  BY <1>1, ClientsAssumption
<1>3. Fingerprint(p) \in STRING BY <1>2 DEF Fingerprint
<1> QED BY <1>3 DEF Responses

LEMMA InitType == Init => TypeOK
BY ClientsAssumption DEF Init, TypeOK

LEMMA NextType == TypeOK /\ [Next]_vars => TypeOK'
<1> SUFFICES ASSUME TypeOK, [Next]_vars PROVE TypeOK'
  OBVIOUS
<1> USE KeyOfAttempt DEF TypeOK, table, history
<1>1. ASSUME NEW p \in Attempts, Send(p) PROVE TypeOK'
  BY <1>1 DEF Send, Goto
<1>2. ASSUME NEW p \in Attempts, Begin(p) PROVE TypeOK'
  BY <1>2 DEF Begin, Reserve, Goto
<1>3. ASSUME NEW p \in Attempts, Read(p) PROVE TypeOK'
  BY <1>3 DEF Read, Set, Goto
<1>4. ASSUME NEW p \in Attempts, Handle(p) PROVE TypeOK'
  <2>1. p[1] \in Clients BY ClientsAssumption
  <2>2. Takes[p[1]] \subseteq Things BY <2>1, ClientsAssumption
  <2>3. ASSUME NEW what \in Verdicts, Verdict(p, what)
        PROVE  /\ reply' \in [Attempts -> Responses \cup {NoResponse, InFlight, Mismatch}]
               /\ pc' \in [Attempts -> {"idle", "begin", "read", "handle", "finish", "answer"}]
               /\ \A q \in Attempts : pc'[q] = "finish" => reply'[q] \in Responses
    BY <2>3, VerdictType DEF Verdict, Set, Goto
  <2>4. CASE Succeeds(p)
    BY <1>4, <2>1, <2>2, <2>3, <2>4 DEF Handle, Succeeds, Change, Verdicts
  <2>5. CASE Conflicts(p)
    BY <1>4, <2>3, <2>5 DEF Handle, Conflicts, Verdicts
  <2>6. CASE Refuses(p)
    BY <1>4, <2>3, <2>6 DEF Handle, Refuses, Verdicts
  <2>7. CASE Fails(p)
    BY <1>4, <2>1, <2>2, <2>3, <2>7, ClientsAssumption DEF Handle, Fails, Change, Verdicts
  <2> QED BY <1>4, <2>4, <2>5, <2>6, <2>7 DEF Handle
<1>5. ASSUME NEW p \in Attempts, Complete(p) PROVE TypeOK'
  BY <1>5 DEF Complete, Goto
<1>6. ASSUME NEW p \in Attempts, Release(p) PROVE TypeOK'
  BY <1>6 DEF Release, Delete, Goto
<1>7. ASSUME NEW p \in Attempts, Answer(p) PROVE TypeOK'
  BY <1>7 DEF Answer, Set, Goto
<1>8. ASSUME NEW p \in Attempts, StoreFails(p) PROVE TypeOK'
  BY <1>8, ClientsAssumption DEF StoreFails, Goto
<1>9. ASSUME NEW p \in Attempts, Crash(p) PROVE TypeOK'
  BY <1>9, ClientsAssumption DEF Crash, Set, Goto
<1>10. ASSUME NEW k \in StoreKeys, Lapse(k) PROVE TypeOK'
  BY <1>10 DEF Lapse
<1>11. CASE Sweep BY <1>11 DEF Sweep, Delete
<1>12. CASE UNCHANGED vars BY <1>12 DEF vars
<1> QED
  BY <1>1, <1>2, <1>3, <1>4, <1>5, <1>6, <1>7, <1>8, <1>9, <1>10, <1>11, <1>12
  DEF Next, Serve

\* The key table, the answers and the histories of the key protocol hold only
\* well-formed values, however many attempts and faults there are.
THEOREM KeysTypeCorrect == Spec => []TypeOK
BY InitType, NextType, PTL DEF Spec

-----------------------------------------------------------------------------
LEMMA InitReserved == Init => Reserved
BY KeyOfAttempt DEF Init, Reserved, ResponseOfThisReservation

LEMMA NextReserved == TypeOK /\ Reserved /\ [Next]_vars => Reserved'
<1> SUFFICES ASSUME TypeOK, Reserved, [Next]_vars PROVE Reserved'
  OBVIOUS
<1> USE KeyOfAttempt DEF TypeOK, Reserved, ResponseOfThisReservation, table, history
<1>0. \A p \in Attempts : p # Nobody BY ClientsAssumption
<1>1. ASSUME NEW p \in Attempts, Send(p) PROVE Reserved'
  BY <1>1 DEF Send, Goto
<1>2. ASSUME NEW p \in Attempts, Begin(p) PROVE Reserved'
  \* a key that is free has no running handler, unless one outlived it
  <2>1. CASE Free(StoreKey(p))
    <3>1. /\ owner' = [owner EXCEPT ![StoreKey(p)] = p]
          /\ stored' = [stored EXCEPT ![StoreKey(p)] = NoResponse]
          /\ expired' = expired \ {StoreKey(p)}
          /\ pc' = [pc EXCEPT ![p] = "handle"]
          /\ overran' = overran /\ reply' = reply
      BY <1>2, <2>1 DEF Begin, Reserve, Goto
    <3>2. ASSUME NEW q \in Attempts, q # p, pc[q] \in {"handle", "finish"},
                 StoreKey(q) \notin overran
          PROVE  StoreKey(q) # StoreKey(p)
      BY <1>0, <2>1, <3>2 DEF Free
    <3> QED BY <3>1, <3>2
  <2>2. CASE ~ Free(StoreKey(p))
    BY <1>2, <2>2 DEF Begin, Goto
  <2> QED BY <2>1, <2>2
<1>3. ASSUME NEW p \in Attempts, Read(p) PROVE Reserved'
  BY <1>3 DEF Read, Set, Goto
<1>4. ASSUME NEW p \in Attempts, Handle(p) PROVE Reserved'
  <2>1. /\ pc' = [pc EXCEPT ![p] = "finish"] /\ pc[p] = "handle"
        /\ \E what : reply' = [reply EXCEPT ![p] =
                       [what |-> what, fingerprint |-> Fingerprint(p), by |-> p]]
    BY <1>4 DEF Handle, Succeeds, Conflicts, Refuses, Fails, Verdict, Set, Goto
  <2> QED BY <1>4, <2>1 DEF Handle
<1>5. ASSUME NEW p \in Attempts, Complete(p) PROVE Reserved'
  BY <1>0, <1>5 DEF Complete, Goto
<1>6. ASSUME NEW p \in Attempts, Release(p) PROVE Reserved'
  BY <1>6 DEF Release, Delete, Goto
<1>7. ASSUME NEW p \in Attempts, Answer(p) PROVE Reserved'
  BY <1>7 DEF Answer, Set, Goto
<1>8. ASSUME NEW p \in Attempts, StoreFails(p) PROVE Reserved'
  BY <1>8 DEF StoreFails, Goto
<1>9. ASSUME NEW p \in Attempts, Crash(p) PROVE Reserved'
  BY <1>9 DEF Crash, Set, Goto
<1>10. ASSUME NEW k \in StoreKeys, Lapse(k) PROVE Reserved'
  BY <1>10 DEF Lapse
<1>11. CASE Sweep BY <1>11 DEF Sweep, Delete
<1>12. CASE UNCHANGED vars BY <1>12 DEF vars
<1> QED
  BY <1>1, <1>2, <1>3, <1>4, <1>5, <1>6, <1>7, <1>8, <1>9, <1>10, <1>11, <1>12
  DEF Next, Serve

\* Until a key expires under a running handler no two handlers of it run at
\* once: Begin's conditional upsert is a lock.
THEOREM HandlersExclude == Spec => []OneHandlerAtATime
<1>1. Reserved => OneHandlerAtATime
  BY DEF Reserved, OneHandlerAtATime, Running
<1> QED BY <1>1, InitType, NextType, InitReserved, NextReserved, PTL DEF Spec

\* A response in the key table is that of the request that reserved the row.
THEOREM ResponsesAreFresh == Spec => []ResponseOfThisReservation
<1>1. Reserved => ResponseOfThisReservation BY DEF Reserved
<1> QED BY <1>1, InitType, NextType, InitReserved, NextReserved, PTL DEF Spec

-----------------------------------------------------------------------------
LEMMA InitLabelled == Init => Labelled
BY KeyOfAttempt DEF Init, Labelled, NoResponse, Verdicts

LEMMA NextLabelled == TypeOK /\ Labelled /\ [Next]_vars => Labelled'
<1> SUFFICES ASSUME TypeOK, Labelled, [Next]_vars PROVE Labelled'
  OBVIOUS
<1> USE KeyOfAttempt DEF TypeOK, Labelled, Honest, table, history
<1>0. \A r \in Responses : r # NoResponse /\ r.what \in Verdicts
  <2>1. NoResponse.what \notin Verdicts BY DEF NoResponse, Verdicts
  <2>2. \A r \in Responses : r.what \in Verdicts BY DEF Responses
  <2> QED BY <2>1, <2>2
<1>1. ASSUME NEW p \in Attempts, Send(p) PROVE Labelled'
  BY <1>1 DEF Send, Goto
<1>2. ASSUME NEW p \in Attempts, Begin(p) PROVE Labelled'
  BY <1>2 DEF Begin, Reserve, Goto
<1>3. ASSUME NEW p \in Attempts, Read(p) PROVE Labelled'
  <2>1. InFlight.what \notin Verdicts /\ Mismatch.what \notin Verdicts
    BY DEF InFlight, Mismatch, Verdicts
  <2>2. pc' = [pc EXCEPT ![p] = "answer"] /\ UNCHANGED <<stored, did>>
    BY <1>3 DEF Read, Set, Goto
  <2>3. \/ reply' = [reply EXCEPT ![p] = InFlight]
        \/ reply' = [reply EXCEPT ![p] = Mismatch]
        \/ /\ stored[StoreKey(p)] # NoResponse
           /\ stored[StoreKey(p)].fingerprint = Fingerprint(p)
           /\ reply' = [reply EXCEPT ![p] = stored[StoreKey(p)]]
    BY <1>3 DEF Read, Set
  <2> QED BY <1>0, <2>1, <2>2, <2>3
<1>4. ASSUME NEW p \in Attempts, Handle(p) PROVE Labelled'
  <2>1. /\ pc' = [pc EXCEPT ![p] = "finish"] /\ pc[p] = "handle"
        /\ stored' = stored /\ did \subseteq did'
        /\ \E what : /\ reply' = [reply EXCEPT ![p] =
                          [what |-> what, fingerprint |-> Fingerprint(p), by |-> p]]
                     /\ what = "created" => p[1] \in did'
    BY <1>4 DEF Handle, Succeeds, Conflicts, Refuses, Fails, Change, Verdict, Set, Goto
  <2> QED BY <2>1
<1>5. ASSUME NEW p \in Attempts, Complete(p) PROVE Labelled'
  BY <1>0, <1>5 DEF Complete, Goto
<1>6. ASSUME NEW p \in Attempts, Release(p) PROVE Labelled'
  BY <1>6 DEF Release, Delete, Goto
<1>7. ASSUME NEW p \in Attempts, Answer(p) PROVE Labelled'
  BY <1>7 DEF Answer, Set, Goto
<1>8. ASSUME NEW p \in Attempts, StoreFails(p) PROVE Labelled'
  BY <1>8 DEF StoreFails, Goto
<1>9. ASSUME NEW p \in Attempts, Crash(p) PROVE Labelled'
  BY <1>9 DEF Crash, Set, Goto
<1>10. ASSUME NEW k \in StoreKeys, Lapse(k) PROVE Labelled'
  BY <1>10 DEF Lapse
<1>11. CASE Sweep BY <1>11 DEF Sweep, Delete
<1>12. CASE UNCHANGED vars BY <1>12 DEF vars
<1> QED
  BY <1>1, <1>2, <1>3, <1>4, <1>5, <1>6, <1>7, <1>8, <1>9, <1>10, <1>11, <1>12
  DEF Next, Serve

LEMMA LabelledReplies == TypeOK /\ Labelled => ReplaysBelong
<1> SUFFICES ASSUME TypeOK, Labelled, NEW p \in Attempts,
                    pc[p] = "answer", reply[p].what \in Verdicts
             PROVE  /\ Request[reply[p].by[1]] = Request[p[1]]
                    /\ reply[p].what = "created" => reply[p].by[1] \in did
  BY DEF ReplaysBelong
<1> DEFINE q == reply[p].by
<1>1. /\ q \in Attempts /\ StoreKey(q) = StoreKey(p) /\ Fingerprint(q) = Fingerprint(p)
      /\ reply[p].what = "created" => q[1] \in did
  BY DEF Labelled, Honest
<1>2. q[1] \in Clients /\ p[1] \in Clients BY <1>1, ClientsAssumption
<1>3. /\ Request[q[1]] \in [route : STRING, key : STRING, body : STRING]
      /\ Request[p[1]] \in [route : STRING, key : STRING, body : STRING]
  BY <1>2, ClientsAssumption
<1>4. /\ Request[q[1]].route = Request[p[1]].route
      /\ Request[q[1]].key = Request[p[1]].key
      /\ Request[q[1]].body = Request[p[1]].body
  BY <1>1 DEF StoreKey, Fingerprint
<1> QED BY <1>1, <1>3, <1>4

\* A replay was said to the same route and body, and a replayed 2xx is true:
\* whatever expires, and whoever stores into whose row.
THEOREM ReplaysAreOwn == Spec => []ReplaysBelong
BY LabelledReplies, InitType, NextType, InitLabelled, NextLabelled, PTL DEF Spec

-----------------------------------------------------------------------------
(* What clients are told.  Of a key that has never expired at most one     *)
(* verdict other than 500 is ever given, because the handler that gives it *)
(* leaves the row reserved for good.                                       *)

\* Attempts and clients of a key, and the verdicts that say no.
Of(k) == {p \in Attempts : StoreKey(p) = k}
Denials == {"conflict", "refused"}

\* The key was denied: the row, a reply on its way or a client says so.
Denied(k) ==
    \/ stored[k].what \in Denials
    \/ \E p \in Of(k) : pc[p] \in {"finish", "answer"} /\ reply[p].what \in Denials
    \/ \E p \in Of(k) : told[p[1]] \in Denials

\* A request of the key changed the books and met no error afterwards.
Done(k) == \E p \in Of(k) : p[1] \in did \ broken

\* The key has a handler under way that has not decided, or may get one.
Undecided(k) ==
    \/ owner[k] = Nobody
    \/ \E p \in Of(k) : pc[p] = "handle"
    \/ \E p \in Of(k) : pc[p] = "finish" /\ reply[p].what = "failed"

Decisions ==
    /\ expired \subseteq lapsed /\ overran \subseteq lapsed
    /\ \A k \in StoreKeys \ lapsed :
          /\ Undecided(k) => ~ Denied(k) /\ ~ Done(k)
          /\ ~ (Denied(k) /\ Done(k))

\* Who changed the books took what it needs, and a client told 2xx made a
\* request that changed them.
Settled ==
    /\ \A c \in did : Takes[c] \subseteq taken
    /\ \A c \in Clients : told[c] = "created" => Takes[c] \subseteq taken

LEMMA InitDecisions == Init => Decisions /\ Settled
<1> SUFFICES ASSUME Init PROVE Decisions /\ Settled
  OBVIOUS
<1>1. Settled BY DEF Init, Settled
<1>2. ASSUME NEW k \in StoreKeys PROVE ~ Denied(k) /\ ~ Done(k)
  <2>1. stored[k].what \notin Denials BY <1>2 DEF Init, NoResponse, Denials
  <2>2. \A p \in Attempts : p[1] \in Clients BY ClientsAssumption
  <2> QED BY <2>1, <2>2 DEF Init, Denied, Done, Of, Denials
<1> QED BY <1>1, <1>2 DEF Init, Decisions

\* A step that gives no new verdict and opens no key to another handler.
LEMMA NothingDecided ==
    ASSUME Decisions, expired' \subseteq lapsed', overran' \subseteq lapsed',
           lapsed \subseteq lapsed',
           \A k \in StoreKeys \ lapsed' :
              /\ Denied(k)' => Denied(k)
              /\ Done(k)' => Done(k)
              /\ Undecided(k)' => Undecided(k)
    PROVE  Decisions'
BY DEF Decisions

LEMMA NextDecisions == TypeOK /\ Reserved /\ Decisions /\ [Next]_vars => Decisions'
<1> SUFFICES ASSUME TypeOK, Reserved, Decisions, [Next]_vars PROVE Decisions'
  OBVIOUS
<1> USE KeyOfAttempt DEF TypeOK, table, history
<1> USE DEF Denied, Done, Undecided, Of, Denials
<1>a. expired \subseteq lapsed /\ overran \subseteq lapsed BY DEF Decisions
<1>b. \A q \in Attempts : q # Nobody BY ClientsAssumption
<1>c. NoResponse.what \notin Denials /\ InFlight.what \notin Denials /\ Mismatch.what \notin Denials
  BY DEF NoResponse, InFlight, Mismatch
<1>d. \A q \in Attempts : q[1] \in Clients BY ClientsAssumption
<1>1. ASSUME NEW p \in Attempts, Send(p) PROVE Decisions'
  <2>1. \A k \in StoreKeys : (Denied(k)' => Denied(k)) /\ (Undecided(k)' => Undecided(k))
    BY <1>1 DEF Send, Goto
  <2> QED BY <1>1, <1>a, <2>1, NothingDecided DEF Send
<1>2. ASSUME NEW p \in Attempts, Begin(p) PROVE Decisions'
  <2>1. CASE Free(StoreKey(p))
    <3>1. /\ owner' = [owner EXCEPT ![StoreKey(p)] = p]
          /\ stored' = [stored EXCEPT ![StoreKey(p)] = NoResponse]
          /\ expired' \subseteq expired
          /\ pc' = [pc EXCEPT ![p] = "handle"]
          /\ UNCHANGED <<reply, told, lapsed, overran, did, broken>>
      BY <1>2, <2>1 DEF Begin, Reserve, Goto
    <3>2. \A k \in StoreKeys : (Denied(k)' => Denied(k)) /\ (Done(k)' => Done(k))
      BY <1>c, <3>1
    <3>3. ASSUME NEW k \in StoreKeys \ lapsed, Undecided(k)' PROVE Undecided(k)
      <4>1. CASE k = StoreKey(p) BY <1>a, <2>1, <4>1 DEF Free
      <4>2. CASE k # StoreKey(p) BY <3>1, <3>3, <4>2
      <4> QED BY <4>1, <4>2
    <3> QED BY <1>a, <3>1, <3>2, <3>3, NothingDecided
  <2>2. CASE ~ Free(StoreKey(p))
    <3>1. UNCHANGED <<owner, stored, expired, lapsed, overran, reply, told, did, broken>>
          /\ pc' = [pc EXCEPT ![p] = "read"]
      BY <1>2, <2>2 DEF Begin, Goto
    <3>2. \A k \in StoreKeys : (Denied(k)' => Denied(k)) /\ (Undecided(k)' => Undecided(k))
                               /\ (Done(k)' => Done(k))
      BY <3>1
    <3> QED BY <1>a, <3>1, <3>2, NothingDecided
  <2> QED BY <2>1, <2>2
<1>3. ASSUME NEW p \in Attempts, Read(p) PROVE Decisions'
  <2>1. pc' = [pc EXCEPT ![p] = "answer"]
        /\ UNCHANGED <<owner, stored, expired, lapsed, overran, told, did, broken>>
    BY <1>3 DEF Read, Set, Goto
  <2>2. \/ reply' = [reply EXCEPT ![p] = InFlight]
        \/ reply' = [reply EXCEPT ![p] = Mismatch]
        \/ reply' = [reply EXCEPT ![p] = stored[StoreKey(p)]]
    BY <1>3 DEF Read, Set
  <2>3. \A k \in StoreKeys : Denied(k)' => Denied(k)
    BY <1>c, <2>1, <2>2
  <2>4. \A k \in StoreKeys : (Undecided(k)' => Undecided(k)) /\ (Done(k)' => Done(k))
    BY <2>1, <2>2
  <2> QED BY <1>a, <2>1, <2>3, <2>4, NothingDecided
<1>4. ASSUME NEW p \in Attempts, Handle(p) PROVE Decisions'
  <2> DEFINE j == StoreKey(p)
  <2>1. /\ pc' = [pc EXCEPT ![p] = "finish"] /\ pc[p] = "handle"
        /\ UNCHANGED <<owner, stored, expired, lapsed, overran, told>>
    BY <1>4 DEF Handle, Succeeds, Conflicts, Refuses, Fails, Verdict, Set, Goto
  <2>2. PICK what \in Verdicts : Verdict(p, what) /\
           \/ what = "created" /\ did' = did \cup {p[1]} /\ broken' = broken
           \/ what \in Denials /\ did' = did /\ broken' = broken
           \/ what = "failed" /\ did' = did /\ broken' = broken
           \/ what = "failed" /\ did' = did \cup {p[1]} /\ broken' = broken \cup {p[1]}
    BY <1>4 DEF Handle, Succeeds, Conflicts, Refuses, Fails, Change, Verdicts
  <2>3. reply' = [reply EXCEPT ![p] =
                    [what |-> what, fingerprint |-> Fingerprint(p), by |-> p]]
    BY <2>2 DEF Verdict, Set
  <2>4. /\ reply'[p].what = what /\ pc'[p] = "finish"
        /\ \A q \in Attempts : q # p => reply'[q] = reply[q] /\ pc'[q] = pc[q]
    BY <2>1, <2>3
  <2>5. ASSUME NEW k \in StoreKeys \ lapsed', k # j
        PROVE  /\ Undecided(k)' => ~ Denied(k)' /\ ~ Done(k)'
               /\ ~ (Denied(k)' /\ Done(k)')
    <3>1. Denied(k)' => Denied(k) BY <2>1, <2>4, <2>5
    <3>2. Undecided(k)' => Undecided(k) BY <2>1, <2>4, <2>5
    <3>3. Done(k)' => Done(k)
      <4>1. \A q \in Attempts : StoreKey(q) = k => q[1] # p[1]
        BY <2>5 DEF StoreKey
      <4> QED BY <2>2, <4>1
    <3> QED BY <2>1, <2>5, <3>1, <3>2, <3>3 DEF Decisions
  <2>6. ASSUME j \notin lapsed
        PROVE  /\ Undecided(j)' => ~ Denied(j)' /\ ~ Done(j)'
               /\ ~ (Denied(j)' /\ Done(j)')
    <3>1. ~ Denied(j) /\ ~ Done(j)
      BY <2>1, <2>6 DEF Decisions
    <3>2. \A q \in Attempts :
             StoreKey(q) = j /\ pc[q] \in {"handle", "finish"} => q = p
      BY <1>a, <2>1, <2>6 DEF Reserved
    <3>3. owner[j] = p BY <1>a, <2>1, <2>6 DEF Reserved
    <3>4. what \notin Denials => ~ Denied(j)'
      BY <2>1, <2>4, <3>1
    <3>5. what # "created" => ~ Done(j)'
      BY <2>2, <3>1
    <3>6. what # "failed" => ~ Undecided(j)'
      BY <1>b, <2>1, <2>4, <3>2, <3>3
    <3> QED BY <2>2, <3>4, <3>5, <3>6
  <2> QED BY <1>a, <2>1, <2>5, <2>6 DEF Decisions
<1>5. ASSUME NEW p \in Attempts, Complete(p) PROVE Decisions'
  <2>1. /\ pc[p] = "finish" /\ pc' = [pc EXCEPT ![p] = "answer"]
        /\ UNCHANGED <<owner, expired, reply, told, lapsed, overran, did, broken>>
        /\ stored' = stored \/ stored' = [stored EXCEPT ![StoreKey(p)] = reply[p]]
    BY <1>5 DEF Complete, Goto
  <2>2. \A k \in StoreKeys : Denied(k)' => Denied(k) BY <2>1
  <2>3. \A k \in StoreKeys : (Undecided(k)' => Undecided(k)) /\ (Done(k)' => Done(k))
    BY <2>1
  <2> QED BY <1>a, <2>1, <2>2, <2>3, NothingDecided
<1>6. ASSUME NEW p \in Attempts, Release(p) PROVE Decisions'
  <2>1. /\ pc[p] = "finish" /\ reply[p].what = "failed"
        /\ pc' = [pc EXCEPT ![p] = "answer"]
        /\ expired' \subseteq expired
        /\ UNCHANGED <<reply, told, lapsed, overran, did, broken>>
        /\ \A k \in StoreKeys : k # StoreKey(p) => owner'[k] = owner[k] /\ stored'[k] = stored[k]
        /\ \A k \in StoreKeys : stored'[k] \in {stored[k], NoResponse}
    BY <1>6 DEF Release, Delete, Goto
  <2>2. \A k \in StoreKeys : (Denied(k)' => Denied(k)) /\ (Done(k)' => Done(k))
    BY <1>c, <2>1
  <2>3. \A k \in StoreKeys : Undecided(k)' => Undecided(k)
    BY <2>1
  <2> QED BY <1>a, <2>1, <2>2, <2>3, NothingDecided
<1>7. ASSUME NEW p \in Attempts, Answer(p) PROVE Decisions'
  <2>1. /\ pc[p] = "answer" /\ pc' = [pc EXCEPT ![p] = "idle"]
        /\ reply' = [reply EXCEPT ![p] = NoResponse]
        /\ UNCHANGED <<owner, stored, expired, lapsed, overran, did, broken>>
        /\ told' = told \/ told' = [told EXCEPT ![p[1]] = reply[p].what]
    BY <1>7 DEF Answer, Set, Goto
  <2>2. \A q \in Attempts : q[1] = p[1] => StoreKey(q) = StoreKey(p)
    BY DEF StoreKey
  <2>3. \A k \in StoreKeys : Denied(k)' => Denied(k)
    BY <1>d, <2>1, <2>2
  <2>4. \A k \in StoreKeys : (Undecided(k)' => Undecided(k)) /\ (Done(k)' => Done(k))
    BY <2>1
  <2> QED BY <1>a, <2>1, <2>3, <2>4, NothingDecided
<1>8. ASSUME NEW p \in Attempts, StoreFails(p) PROVE Decisions'
  <2>1. /\ pc[p] = "finish" /\ pc' = [pc EXCEPT ![p] = "answer"]
        /\ UNCHANGED <<owner, stored, expired, reply, told, lapsed, overran, did, broken>>
    BY <1>8 DEF StoreFails, Goto
  <2>2. \A k \in StoreKeys : (Denied(k)' => Denied(k)) /\ (Undecided(k)' => Undecided(k))
                             /\ (Done(k)' => Done(k))
    BY <2>1
  <2> QED BY <1>a, <2>1, <2>2, NothingDecided
<1>9. ASSUME NEW p \in Attempts, Crash(p) PROVE Decisions'
  <2>1. /\ pc' = [pc EXCEPT ![p] = "idle"]
        /\ reply' = [reply EXCEPT ![p] = NoResponse]
        /\ UNCHANGED <<owner, stored, expired, told, lapsed, overran, did, broken>>
    BY <1>9 DEF Crash, Set, Goto
  <2>2. \A k \in StoreKeys : (Denied(k)' => Denied(k)) /\ (Undecided(k)' => Undecided(k))
                             /\ (Done(k)' => Done(k))
    BY <2>1
  <2> QED BY <1>a, <2>1, <2>2, NothingDecided
<1>10. ASSUME NEW k \in StoreKeys, Lapse(k) PROVE Decisions'
  BY <1>a, <1>10, NothingDecided DEF Lapse
<1>11. CASE Sweep
  <2>1. /\ expired' = {} /\ UNCHANGED <<pc, reply, told, lapsed, overran, did, broken>>
        /\ \A k \in StoreKeys \ lapsed : owner'[k] = owner[k] /\ stored'[k] = stored[k]
    BY <1>a, <1>11 DEF Sweep, Delete
  <2> QED BY <1>a, <2>1, NothingDecided
<1>12. CASE UNCHANGED vars BY <1>12 DEF vars, Decisions
<1> QED
  BY <1>1, <1>2, <1>3, <1>4, <1>5, <1>6, <1>7, <1>8, <1>9, <1>10, <1>11, <1>12
  DEF Next, Serve

LEMMA NextSettled == TypeOK /\ Labelled /\ Settled /\ [Next]_vars => Settled'
<1> SUFFICES ASSUME TypeOK, Labelled, Settled, [Next]_vars PROVE Settled'
  OBVIOUS
<1> USE DEF TypeOK, Settled, table, history
<1>1. ASSUME UNCHANGED <<taken, told, did>> PROVE Settled'
  BY <1>1
<1>2. ASSUME NEW p \in Attempts, Handle(p) PROVE Settled'
  BY <1>2 DEF Handle, Succeeds, Conflicts, Refuses, Fails, Change
<1>3. ASSUME NEW p \in Attempts, Answer(p) PROVE Settled'
  <2>1. UNCHANGED <<taken, did>> /\ pc[p] = "answer" BY <1>3 DEF Answer
  <2>2. ASSUME NEW c \in Clients, told'[c] = "created", told[c] # "created"
        PROVE  Takes[c] \subseteq taken
    <3>1. c = p[1] /\ reply[p].what = "created"
      BY <1>3, <2>2, ClientsAssumption DEF Answer
    <3>2. /\ Request[reply[p].by[1]] = Request[c] /\ reply[p].by[1] \in did
      BY <2>1, <3>1, LabelledReplies DEF ReplaysBelong, Verdicts
    <3>3. Takes[reply[p].by[1]] = Takes[c]
      BY <2>2, <3>2, ClientsAssumption
    <3> QED BY <3>2, <3>3
  <2> QED BY <2>1, <2>2
<1> QED
  BY <1>1, <1>2, <1>3
  DEF Next, Serve, Send, Begin, Reserve, Read, Complete, Release, StoreFails, Crash,
      Lapse, Sweep, vars

\* What a client has learned is what happened, whoever shares its key and
\* whatever fails, crashes or expires: a 2xx was earned by an equal request, and
\* a denial of what is in the books takes an expired key or a failed commit.
THEOREM AnswersAreTrue == Spec => []AnswersMatchBooks
<1>1. TypeOK /\ Decisions /\ Settled => AnswersMatchBooks
  <2> SUFFICES ASSUME TypeOK, Decisions, Settled, NEW p \in Attempts
               PROVE  /\ told[p[1]] = "created" => Takes[p[1]] \subseteq taken
                      /\ told[p[1]] \in Denials /\ p[1] \in did =>
                            StoreKey(p) \in lapsed \/ p[1] \in broken
    BY DEF AnswersMatchBooks, Denials
  <2>1. p[1] \in Clients BY ClientsAssumption
  <2>2. told[p[1]] \in Denials => Denied(StoreKey(p)) BY DEF Denied, Of
  <2>3. p[1] \in did \ broken => Done(StoreKey(p)) BY DEF Done, Of
  <2> QED BY <2>1, <2>2, <2>3, KeyOfAttempt DEF Decisions, Settled
<1> QED
  BY <1>1, InitType, NextType, InitReserved, NextReserved, InitLabelled, NextLabelled,
     InitDecisions, NextDecisions, NextSettled, PTL DEF Spec

-----------------------------------------------------------------------------
(* Apply, for any number of files, deploys and crashes.                    *)

\* Where a deploy is and what it has seen.
Progress ==
    /\ \A d \in Deploys : at[d] # "idle" => 1 .. next[d] - 1 \subseteq recorded
    /\ RecordNeverCollides
    /\ \A d, e \in Deploys : at[d] = "record" /\ at[e] = "record" => d = e
    /\ SuccessIsComplete

\* Deploys that run together have met; a deploy that is about to fail has met
\* the one that was faster, or follows a crash.
Overlap ==
    /\ \A d, e \in Deploys : d # e /\ at[d] # "idle" /\ at[e] # "idle" => d \in met
    /\ \A d \in Deploys :
          at[d] = "exec" /\ next[d] \in schema => d \in met \/ crashes > 0
    /\ FailureNeedsRaceOrCrash

DeployInv == ApplyTypeOK /\ RecordFollowsSchema /\ Progress /\ Overlap

-----------------------------------------------------------------------------
LEMMA InitDeployInv == ApplyInit => DeployInv
BY FilesAssumption
DEF ApplyInit, DeployInv, ApplyTypeOK, RecordFollowsSchema, Progress, RecordNeverCollides,
    SuccessIsComplete, Overlap, FailureNeedsRaceOrCrash, Files

LEMMA DeployTypeStep == DeployInv /\ [ApplyNext]_applyVars => ApplyTypeOK'
<1> SUFFICES ASSUME DeployInv, [ApplyNext]_applyVars PROVE ApplyTypeOK'
  OBVIOUS
<1> USE FilesAssumption DEF DeployInv, ApplyTypeOK, MoveTo, Return
<1>1. ASSUME NEW d \in Deploys, Start(d) PROVE ApplyTypeOK'
  <2>1. 1 \in 1 .. NumFiles + 1 OBVIOUS
  <2>2. /\ next' = [next EXCEPT ![d] = 1] /\ at' = [at EXCEPT ![d] = "check"]
        /\ result' = [result EXCEPT ![d] = "none"]
        /\ UNCHANGED <<schema, recorded, crashes>>
        /\ met' \subseteq Deploys
    BY <1>1 DEF Start, Deploying
  <2>3. at' \in [Deploys -> {"idle", "check", "exec", "record"}] BY <2>2
  <2>4. next' \in [Deploys -> 1 .. NumFiles + 1] BY <2>1, <2>2
  <2>5. result' \in [Deploys -> {"none", "applied", "failed"}] BY <2>2
  <2>6. \A e \in Deploys : at'[e] \in {"exec", "record"} => next'[e] \in Files BY <2>2
  <2> QED BY <2>2, <2>3, <2>4, <2>5, <2>6
<1>2. ASSUME NEW d \in Deploys, Check(d) PROVE ApplyTypeOK'
  <2>1. next[d] \in Files /\ next[d] + 1 \in 1 .. NumFiles + 1
    BY <1>2 DEF Check, Files
  <2>2. /\ \/ next' = [next EXCEPT ![d] = next[d] + 1] /\ at' = at /\ at[d] = "check"
           \/ at' = [at EXCEPT ![d] = "exec"] /\ next' = next
        /\ UNCHANGED <<schema, recorded, result, crashes, met>>
    BY <1>2 DEF Check
  <2>3. at' \in [Deploys -> {"idle", "check", "exec", "record"}] BY <2>2
  <2>4. next' \in [Deploys -> 1 .. NumFiles + 1] BY <2>1, <2>2
  <2>5. \A e \in Deploys : at'[e] \in {"exec", "record"} => next'[e] \in Files
    BY <2>1, <2>2
  <2> QED BY <2>2, <2>3, <2>4, <2>5
<1>3. ASSUME NEW d \in Deploys, Exec(d) PROVE ApplyTypeOK'
  <2>1. next[d] \in Files BY <1>3 DEF Exec
  <2>2. \/ /\ schema' = schema \cup {next[d]} /\ at' = [at EXCEPT ![d] = "record"]
           /\ UNCHANGED <<recorded, next, result, crashes, met>>
        \/ /\ at' = [at EXCEPT ![d] = "idle"]
           /\ result' = [result EXCEPT ![d] = "failed"]
           /\ UNCHANGED <<schema, recorded, next, crashes, met>>
    BY <1>3 DEF Exec
  <2>3. schema' \subseteq Files BY <2>1, <2>2
  <2>4. at' \in [Deploys -> {"idle", "check", "exec", "record"}] BY <2>2
  <2>5. result' \in [Deploys -> {"none", "applied", "failed"}] BY <2>2
  <2>6. \A e \in Deploys : at'[e] \in {"exec", "record"} => next'[e] \in Files
    BY <2>1, <2>2
  <2> QED BY <2>2, <2>3, <2>4, <2>5, <2>6
<1>4. ASSUME NEW d \in Deploys, Record(d) PROVE ApplyTypeOK'
  <2>1. next[d] \in Files /\ next[d] + 1 \in 1 .. NumFiles + 1
    BY <1>4 DEF Record, Files
  <2>2. /\ next[d] \notin recorded
        /\ next' = [next EXCEPT ![d] = next[d] + 1]
        /\ at' = [at EXCEPT ![d] = "check"]
        /\ recorded' = recorded \cup {next[d]}
        /\ UNCHANGED <<schema, result, crashes, met>>
    BY <1>4 DEF Record, Progress, RecordNeverCollides
  <2>3. at' \in [Deploys -> {"idle", "check", "exec", "record"}] BY <2>2
  <2>4. next' \in [Deploys -> 1 .. NumFiles + 1] BY <2>1, <2>2
  <2>5. \A e \in Deploys : at'[e] \in {"exec", "record"} => next'[e] \in Files
    BY <2>2
  <2> QED BY <2>1, <2>2, <2>3, <2>4, <2>5
<1>5. ASSUME NEW d \in Deploys, Finish(d) PROVE ApplyTypeOK'
  BY <1>5 DEF Finish
<1>6. ASSUME NEW d \in Deploys, Die(d) PROVE ApplyTypeOK'
  BY <1>6 DEF Die
<1>7. CASE UNCHANGED applyVars BY <1>7 DEF applyVars
<1> QED BY <1>1, <1>2, <1>3, <1>4, <1>5, <1>6, <1>7 DEF ApplyNext, Run

\* The file a deploy is about to run is the one after those on record.
LEMMA NextInLine ==
    ASSUME DeployInv, NEW d \in Deploys, at[d] # "idle", next[d] \in Files,
           next[d] \notin schema
    PROVE  /\ Needs[next[d]] \subseteq schema
           /\ \A e \in Deploys : at[e] # "record"
<1> USE DEF DeployInv, ApplyTypeOK, Files
<1>1. 1 .. next[d] - 1 \subseteq recorded /\ recorded \subseteq schema
  BY DEF Progress, RecordFollowsSchema
<1>2. Needs[next[d]] \subseteq schema BY <1>1, FilesAssumption
<1>3. ASSUME NEW e \in Deploys, at[e] = "record" PROVE FALSE
  <2>1. next[e] \in schema \ recorded /\ next[e] \in Files
    BY <1>3 DEF Progress, RecordNeverCollides
  <2>2. 1 .. next[e] - 1 \subseteq recorded BY <2>1 DEF RecordFollowsSchema
  <2>3. next[e] \in 1 .. next[d] - 1 \/ next[d] \in 1 .. next[e] - 1 \/ next[d] = next[e]
    BY <2>1, FilesAssumption
  <2> QED BY <1>1, <2>1, <2>2, <2>3
<1> QED BY <1>2, <1>3

LEMMA DeploySchemaStep == DeployInv /\ [ApplyNext]_applyVars => RecordFollowsSchema'
<1> SUFFICES ASSUME DeployInv, [ApplyNext]_applyVars PROVE RecordFollowsSchema'
  OBVIOUS
<1> USE DEF DeployInv, ApplyTypeOK, RecordFollowsSchema, MoveTo, Return
<1>1. ASSUME NEW d \in Deploys, Start(d) PROVE RecordFollowsSchema'
  BY <1>1 DEF Start
<1>2. ASSUME NEW d \in Deploys, Check(d) PROVE RecordFollowsSchema'
  BY <1>2 DEF Check
<1>3. ASSUME NEW d \in Deploys, Exec(d) PROVE RecordFollowsSchema'
  <2>1. CASE next[d] \in schema
    BY <1>3, <2>1 DEF Exec
  <2>2. CASE next[d] \notin schema
    <3>1. 1 .. next[d] - 1 \subseteq recorded BY <1>3 DEF Exec, Progress
    <3>2. next[d] \in Files BY <1>3 DEF Exec
    <3>3. /\ schema' = schema \cup {next[d]}
          /\ at' = [at EXCEPT ![d] = "record"]
          /\ UNCHANGED <<recorded, next, crashes>>
      BY <1>3, <2>2, <3>2, NextInLine DEF Exec
    <3> QED BY <1>3, <3>1, <3>3 DEF Exec
  <2> QED BY <2>1, <2>2
<1>4. ASSUME NEW d \in Deploys, Record(d) PROVE RecordFollowsSchema'
  <2>1. next[d] \in schema \ recorded BY <1>4 DEF Record, Progress, RecordNeverCollides
  <2>2. /\ recorded' = recorded \cup {next[d]}
        /\ at' = [at EXCEPT ![d] = "check"]
        /\ next' = [next EXCEPT ![d] = @ + 1]
        /\ UNCHANGED <<schema, crashes>>
    BY <1>4, <2>1 DEF Record
  <2>3. \A e \in Deploys : at[e] = "record" => e = d BY <1>4 DEF Record, Progress
  <2> QED BY <2>1, <2>2, <2>3
<1>5. ASSUME NEW d \in Deploys, Finish(d) PROVE RecordFollowsSchema'
  BY <1>5 DEF Finish
<1>6. ASSUME NEW d \in Deploys, Die(d) PROVE RecordFollowsSchema'
  BY <1>6, FilesAssumption DEF Die
<1>7. CASE UNCHANGED applyVars BY <1>7 DEF applyVars
<1> QED BY <1>1, <1>2, <1>3, <1>4, <1>5, <1>6, <1>7 DEF ApplyNext, Run

LEMMA DeployProgressStep == DeployInv /\ [ApplyNext]_applyVars => Progress'
<1> SUFFICES ASSUME DeployInv, [ApplyNext]_applyVars PROVE Progress'
  OBVIOUS
<1> USE DEF DeployInv, ApplyTypeOK, Progress, RecordNeverCollides, SuccessIsComplete, MoveTo, Return
<1>1. ASSUME NEW d \in Deploys, Start(d) PROVE Progress'
  BY <1>1 DEF Start
<1>2. ASSUME NEW d \in Deploys, Check(d) PROVE Progress'
  <2>1. CASE next[d] \in recorded
    <3>1. next[d] \in Nat /\ 1 .. next[d] - 1 \subseteq recorded
      BY <1>2 DEF Check, Files
    <3>2. 1 .. (next[d] + 1) - 1 \subseteq recorded BY <2>1, <3>1
    <3> QED BY <1>2, <2>1, <3>2 DEF Check
  <2>2. CASE next[d] \notin recorded BY <1>2, <2>2 DEF Check
  <2> QED BY <2>1, <2>2
<1>3. ASSUME NEW d \in Deploys, Exec(d) PROVE Progress'
  <2>1. CASE next[d] \in schema
    BY <1>3, <2>1 DEF Exec
  <2>2. CASE next[d] \notin schema
    <3>1. next[d] \in Files BY <1>3 DEF Exec
    <3>2. /\ schema' = schema \cup {next[d]}
          /\ at' = [at EXCEPT ![d] = "record"]
          /\ UNCHANGED <<recorded, next, crashes, result>>
      BY <1>3, <2>2, <3>1, NextInLine DEF Exec
    <3>3. \A e \in Deploys : at[e] # "record" BY <1>3, <2>2, <3>1, NextInLine DEF Exec
    <3>4. next[d] \notin recorded BY <2>2 DEF RecordFollowsSchema
    <3> QED BY <1>3, <3>1, <3>2, <3>3, <3>4 DEF Exec
  <2> QED BY <2>1, <2>2
<1>4. ASSUME NEW d \in Deploys, Record(d) PROVE Progress'
  <2>1. next[d] \in schema \ recorded /\ next[d] \in Nat BY <1>4 DEF Record, Files
  <2>2. /\ recorded' = recorded \cup {next[d]}
        /\ at' = [at EXCEPT ![d] = "check"]
        /\ next' = [next EXCEPT ![d] = @ + 1]
        /\ UNCHANGED <<schema, crashes, result>>
    BY <1>4, <2>1 DEF Record
  <2>3. 1 .. next[d] - 1 \subseteq recorded BY <1>4 DEF Record
  <2>4. 1 .. (next[d] + 1) - 1 \subseteq recorded' BY <2>1, <2>2, <2>3
  <2>5. \A e \in Deploys : at[e] = "record" => e = d BY <1>4 DEF Record
  <2> QED BY <2>1, <2>2, <2>4, <2>5
<1>5. ASSUME NEW d \in Deploys, Finish(d) PROVE Progress'
  <2>1. next[d] = NumFiles + 1 BY <1>5, FilesAssumption DEF Finish, Files
  <2>2. 1 .. next[d] - 1 \subseteq recorded BY <1>5 DEF Finish
  <2>3. (NumFiles + 1) - 1 = NumFiles BY FilesAssumption
  <2>4. Files \subseteq recorded BY <2>1, <2>2, <2>3 DEF Files
  <2> QED BY <1>5, <2>4 DEF Finish, RecordFollowsSchema
<1>6. ASSUME NEW d \in Deploys, Die(d) PROVE Progress'
  BY <1>6 DEF Die
<1>7. CASE UNCHANGED applyVars BY <1>7 DEF applyVars
<1> QED BY <1>1, <1>2, <1>3, <1>4, <1>5, <1>6, <1>7 DEF ApplyNext, Run

LEMMA DeployOverlapStep == DeployInv /\ [ApplyNext]_applyVars => Overlap'
<1> SUFFICES ASSUME DeployInv, [ApplyNext]_applyVars PROVE Overlap'
  OBVIOUS
<1> USE DEF DeployInv, ApplyTypeOK, Overlap, FailureNeedsRaceOrCrash, MoveTo, Return
<1>1. ASSUME NEW d \in Deploys, Start(d) PROVE Overlap'
  BY <1>1 DEF Start, Deploying
<1>2. ASSUME NEW d \in Deploys, Check(d) PROVE Overlap'
  <2>1. CASE next[d] \in recorded BY <1>2, <2>1 DEF Check
  <2>2. CASE next[d] \notin recorded /\ next[d] \in schema
    <3>1. crashes = 0 =>
             \E e \in Deploys : at[e] = "record" /\ e # d
      BY <1>2, <2>2 DEF Check, RecordFollowsSchema
    <3>2. d \in met \/ crashes > 0 BY <1>2, <3>1, FilesAssumption DEF Check
    <3> QED BY <1>2, <2>2, <3>2 DEF Check
  <2>3. CASE next[d] \notin schema
    BY <1>2, <2>3 DEF Check, RecordFollowsSchema
  <2> QED BY <2>1, <2>2, <2>3
<1>3. ASSUME NEW d \in Deploys, Exec(d) PROVE Overlap'
  <2>1. CASE next[d] \in schema
    BY <1>3, <2>1 DEF Exec
  <2>2. CASE next[d] \notin schema
    <3>1. next[d] \in Files BY <1>3 DEF Exec
    <3>2. /\ schema' = schema \cup {next[d]}
          /\ at' = [at EXCEPT ![d] = "record"]
          /\ UNCHANGED <<recorded, next, crashes, result, met>>
      BY <1>3, <2>2, <3>1, NextInLine DEF Exec
    <3> QED BY <1>3, <3>2 DEF Exec
  <2> QED BY <2>1, <2>2
<1>4. ASSUME NEW d \in Deploys, Record(d) PROVE Overlap'
  BY <1>4 DEF Record, Progress, RecordNeverCollides
<1>5. ASSUME NEW d \in Deploys, Finish(d) PROVE Overlap'
  BY <1>5 DEF Finish
<1>6. ASSUME NEW d \in Deploys, Die(d) PROVE Overlap'
  BY <1>6, FilesAssumption DEF Die
<1>7. CASE UNCHANGED applyVars BY <1>7 DEF applyVars
<1> QED BY <1>1, <1>2, <1>3, <1>4, <1>5, <1>6, <1>7 DEF ApplyNext, Run

LEMMA DeployInvHolds == ApplySpec => []DeployInv
<1>1. DeployInv /\ [ApplyNext]_applyVars => DeployInv'
  BY DeployTypeStep, DeploySchemaStep, DeployProgressStep, DeployOverlapStep DEF DeployInv
<1> QED BY <1>1, InitDeployInv, PTL DEF ApplySpec

-----------------------------------------------------------------------------
\* Schema, record and deploys stay well-formed: no deploy runs past the files.
THEOREM MigrationsTypeCorrect == ApplySpec => []ApplyTypeOK
<1>1. DeployInv => ApplyTypeOK BY DEF DeployInv
<1> QED BY <1>1, DeployInvHolds, PTL

\* A file is recorded only after it succeeded, files are applied in order, and
\* without a crash nothing is applied that its deploy is not about to record.
THEOREM RecordIsSound == ApplySpec => []RecordFollowsSchema
<1>1. DeployInv => RecordFollowsSchema BY DEF DeployInv
<1> QED BY <1>1, DeployInvHolds, PTL

\* A deploy that returns no error leaves the whole schema, on record.
THEOREM SuccessMeansComplete == ApplySpec => []SuccessIsComplete
<1>1. DeployInv => SuccessIsComplete BY DEF DeployInv, Progress
<1> QED BY <1>1, DeployInvHolds, PTL

\* The INSERT that records a file never meets a row of the same name.
THEOREM NoRecordTwice == ApplySpec => []RecordNeverCollides
<1>1. DeployInv => RecordNeverCollides BY DEF DeployInv, Progress
<1> QED BY <1>1, DeployInvHolds, PTL

\* Only a race or an earlier crash makes Apply fail.
THEOREM FailuresExplained == ApplySpec => []FailureNeedsRaceOrCrash
<1>1. DeployInv => FailureNeedsRaceOrCrash BY DEF DeployInv, Overlap
<1> QED BY <1>1, DeployInvHolds, PTL

=============================================================================
