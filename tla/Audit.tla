------------------------------- MODULE Audit --------------------------------
(***************************************************************************)
(* Verification at work: Verify runs its four checks one after the other,  *)
(* each a statement with a snapshot of its own, while transfers go on      *)
(* being posted; and somebody with a psql prompt, past the append-only     *)
(* triggers, edits the tables as the tests of verify do.                   *)
(***************************************************************************)
EXTENDS Verify, SequencesExt

CONSTANT
    Forged     \* a reference no request uses

ASSUME ForgedAssumption == Forged \in STRING /\ \A t \in Requests : t.reference # Forged

VARIABLES
    transfers,  \* the rows left in the table, in id order
    balances,
    edit,       \* what was done to the tables: [kind, row, accounts]
    phase,      \* the check the pass runs next; 5 when it has returned
    problems,   \* the report so far, as pairs of a kind and a subject
    warned      \* whether the edit came before the pass

tables == <<transfers, balances>>
vars == <<tables, edit, phase, problems, warned>>

NoEdit == [kind |-> "none", row |-> 0, accounts |-> {}]

Init ==
    /\ transfers = << >>
    /\ balances = [a \in Accounts |-> 0]
    /\ edit = NoEdit
    /\ phase = 0
    /\ problems = {}
    /\ warned = FALSE

\* Post as in Books, all accounts open and nothing reserved.
B == INSTANCE Books WITH accounts <- [a \in Accounts |-> "open"],
                         holds <- [h \in HoldRefs |-> NoHold]

Post(t) == B!Post(t) /\ UNCHANGED <<edit, phase, problems, warned>>

-----------------------------------------------------------------------------
(* Edits, one in a behaviour: two can cancel out.                          *)

Edit(kind, row, accs) ==
    /\ edit = NoEdit
    /\ edit' = [kind |-> kind, row |-> row, accounts |-> accs]
    /\ UNCHANGED <<phase, problems, warned>>

EditBalance(a) ==
    /\ Edit("balance", 0, {a})
    /\ balances' = [balances EXCEPT ![a] = @ + 1]
    /\ UNCHANGED transfers

EditAmount(k, i) ==
    /\ Edit("row", k, {})
    /\ transfers' = [transfers EXCEPT ![k].postings[i].amount = @ + 1]
    /\ UNCHANGED balances

EditAccount(k, i, a) ==
    /\ transfers[k].postings[i].account # a
    /\ Edit("row", k, {})
    /\ transfers' = [transfers EXCEPT ![k].postings[i].account = a]
    /\ UNCHANGED balances

\* The description and the date are covered by the digest in the same way.
EditReference(k) ==
    /\ Edit("row", k, {})
    /\ transfers' = [transfers EXCEPT ![k].reference = Forged]
    /\ UNCHANGED balances

AddPosting(k, i, a) ==
    /\ Edit("row", k, {})
    /\ transfers' = [transfers EXCEPT ![k].postings = Append(@, [@[i] EXCEPT !.account = a])]
    /\ UNCHANGED balances

DeleteTransfer(k) ==
    /\ Edit(IF k = Len(transfers) THEN "tail" ELSE "deleted", k,
            {a \in Accounts : Delta(transfers[k], a) # 0})
    /\ transfers' = RemoveAt(transfers, k)
    /\ UNCHANGED balances

-----------------------------------------------------------------------------
(* The pass.                                                               *)

StartVerify ==
    /\ phase \in {0, 5}
    /\ phase' = 1
    /\ problems' = {}
    /\ warned' = (edit # NoEdit)
    /\ UNCHANGED <<tables, edit>>

Found(kind, subjects) ==
    /\ problems' = problems \cup ({kind} \X subjects)
    /\ phase' = phase + 1
    /\ UNCHANGED <<tables, edit, warned>>

RunCheck ==
    \/ /\ phase = 1
       /\ Found("unbalanced-transfer", {kc[1] : kc \in CheckTransfersBalance(transfers)})
    \/ /\ phase = 2
       /\ Found("balance-drift", CheckBalancesMatchPostings(balances, transfers))
    \/ /\ phase = 3
       /\ Found("trial-balance", CheckTrialBalance([a \in Accounts |-> "open"], balances))
    \/ /\ phase = 4
       /\ Found("chain", CheckChain(transfers))

Edits ==
    \/ \E a \in Accounts : EditBalance(a)
    \/ \E k \in DOMAIN transfers : EditReference(k) \/ DeleteTransfer(k)
    \/ \E k \in DOMAIN transfers : \E i \in DOMAIN transfers[k].postings :
          \/ EditAmount(k, i)
          \/ \E a \in Accounts : EditAccount(k, i, a) \/ AddPosting(k, i, a)

Next == (\E t \in Requests : Post(t)) \/ Edits \/ StartVerify \/ RunCheck

Spec == Init /\ [][Next]_vars

-----------------------------------------------------------------------------
(* Properties *)

TypeOK ==
    /\ transfers \in Seq(RowType)
    /\ balances \in [Accounts -> Int]
    /\ edit.kind \in {"none", "balance", "row", "deleted", "tail"}
    /\ phase \in 0 .. 5 /\ warned \in BOOLEAN

\* Verify raises no false alarm: its checks read the tables at four different
\* moments with posts in between, and still never report a ledger that nobody
\* edited.
NoFalseAlarm == edit = NoEdit => problems = {}

\* Verify says where: a pass that begins after an edit names the row that was
\* rewritten, the row behind the one deleted or the account whose balance no
\* longer follows, however many transfers have been chained on since.  A
\* transfer deleted at the tail is noticed by the balances it moved alone.
EditIsLocated ==
    (phase = 5 /\ warned) =>
        /\ edit.kind \in {"row", "deleted"} => <<"chain", edit.row>> \in problems
        /\ edit.kind \in {"balance", "tail"} =>
              \A a \in edit.accounts : <<"balance-drift", a>> \in problems

=============================================================================
