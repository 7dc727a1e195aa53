----------------------------- MODULE Migrations -----------------------------
(***************************************************************************)
(* migrations.Apply as deploys run it: several processes at once, each     *)
(* statement a step, and any of them may die between two statements.  A    *)
(* file is one transaction (it wraps itself in BEGIN and COMMIT) and the   *)
(* row that records it is another.  A file creates tables, columns and     *)
(* indexes without IF NOT EXISTS: on a schema that has them already, or    *)
(* lacks those it builds on, Postgres refuses it as a whole.               *)
(***************************************************************************)
EXTENDS Integers

CONSTANTS
    Deploys,      \* processes that run Apply
    NumFiles,     \* the files are 1 .. NumFiles, sorted by name
    Needs,        \* [Files -> SUBSET Files], the files a file builds on
    MaxCrashes    \* bound: deploys that die half-way

Files == 1 .. NumFiles

ASSUME FilesAssumption ==
    /\ NumFiles \in Nat /\ MaxCrashes \in Nat
    /\ Needs \in [Files -> SUBSET Files]
    /\ \A f \in Files : Needs[f] \subseteq 1 .. f - 1

VARIABLES
    schema,     \* the files whose changes the database has
    recorded,   \* the rows of sumzero_migrations
    at,         \* where each deploy is
    next,       \* the file its loop is at
    result,     \* what its last Apply returned
    crashes,    \* how many deploys have died
    met         \* history: the deploys that ran while another did

applyVars == <<schema, recorded, at, next, result, crashes, met>>

ApplyInit ==
    /\ schema = {} /\ recorded = {}
    /\ at = [d \in Deploys |-> "idle"]
    /\ next = [d \in Deploys |-> 1]
    /\ result = [d \in Deploys |-> "none"]
    /\ crashes = 0 /\ met = {}

MoveTo(d, label) == at' = [at EXCEPT ![d] = label]

\* Apply returns.
Return(d, value) ==
    /\ MoveTo(d, "idle")
    /\ result' = [result EXCEPT ![d] = value]
    /\ UNCHANGED <<next, crashes, met>>

Deploying == {d \in Deploys : at[d] # "idle"}

-----------------------------------------------------------------------------
\* A deploy calls Apply, which creates sumzero_migrations if need be.
Start(d) ==
    /\ at[d] = "idle"
    /\ MoveTo(d, "check")
    /\ next' = [next EXCEPT ![d] = 1]
    /\ result' = [result EXCEPT ![d] = "none"]
    /\ met' = IF Deploying = {} THEN met \ {d} ELSE met \cup Deploying \cup {d}
    /\ UNCHANGED <<schema, recorded, crashes>>

\* SELECT exists, at the head of the loop.
Check(d) ==
    /\ at[d] = "check" /\ next[d] \in Files
    /\ IF next[d] \in recorded
       THEN next' = [next EXCEPT ![d] = @ + 1] /\ UNCHANGED at
       ELSE MoveTo(d, "exec") /\ UNCHANGED next
    /\ UNCHANGED <<schema, recorded, result, crashes, met>>

\* The loop is over.
Finish(d) ==
    /\ at[d] = "check" /\ next[d] \notin Files
    /\ Return(d, "applied")
    /\ UNCHANGED <<schema, recorded>>

\* Mutant: a file that fails is logged and skipped.
ExecSkips(d) ==
    /\ at[d] = "exec"
    /\ IF next[d] \notin schema /\ Needs[next[d]] \subseteq schema
       THEN /\ schema' = schema \cup {next[d]}
            /\ MoveTo(d, "record") /\ UNCHANGED next
       ELSE /\ MoveTo(d, "check") /\ next' = [next EXCEPT ![d] = @ + 1]
            /\ UNCHANGED schema
    /\ UNCHANGED <<recorded, result, crashes, met>>

\* The file runs, entirely or not at all.
Exec(d) ==
    /\ at[d] = "exec"
    /\ IF next[d] \notin schema /\ Needs[next[d]] \subseteq schema
       THEN /\ schema' = schema \cup {next[d]}
            /\ MoveTo(d, "record")
            /\ UNCHANGED <<next, result, crashes, met>>
       ELSE Return(d, "failed") /\ UNCHANGED schema
    /\ UNCHANGED recorded

\* Mutant: the record is not written.
RecordNot(d) ==
    /\ at[d] = "record"
    /\ next' = [next EXCEPT ![d] = @ + 1]
    /\ MoveTo(d, "check")
    /\ UNCHANGED <<schema, recorded, result, crashes, met>>

\* The row that says so; the primary key refuses a second one.
Record(d) ==
    /\ at[d] = "record"
    /\ IF next[d] \notin recorded
       THEN /\ recorded' = recorded \cup {next[d]}
            /\ next' = [next EXCEPT ![d] = @ + 1]
            /\ MoveTo(d, "check")
            /\ UNCHANGED <<result, crashes, met>>
       ELSE Return(d, "failed") /\ UNCHANGED recorded
    /\ UNCHANGED schema

\* The process is killed, is told to stop or loses its connection.
Die(d) ==
    /\ at[d] # "idle" /\ crashes < MaxCrashes
    /\ crashes' = crashes + 1
    /\ MoveTo(d, "idle")
    /\ UNCHANGED <<schema, recorded, next, result, met>>

Run(d) == Check(d) \/ Exec(d) \/ Record(d) \/ Finish(d)

ApplyNext == \E d \in Deploys : Start(d) \/ Run(d) \/ Die(d)

ApplySpec == ApplyInit /\ [][ApplyNext]_applyVars

(* Fairness: somebody keeps deploying, and a process that lives goes on.   *)
ApplyLiveSpec ==
    /\ ApplySpec
    /\ \A d \in Deploys : WF_applyVars(Start(d)) /\ WF_applyVars(Run(d))

-----------------------------------------------------------------------------
(* Properties *)

ApplyTypeOK ==
    /\ schema \subseteq Files /\ recorded \subseteq Files
    /\ at \in [Deploys -> {"idle", "check", "exec", "record"}]
    /\ next \in [Deploys -> 1 .. NumFiles + 1]
    /\ \A d \in Deploys : at[d] \in {"exec", "record"} => next[d] \in Files
    /\ result \in [Deploys -> {"none", "applied", "failed"}]
    /\ crashes \in 0 .. MaxCrashes
    /\ met \subseteq Deploys

\* A file is recorded only after it succeeded, and however deploys interleave
\* and die, files are applied in order and at most one is not on record: the
\* last, which whoever ran it is about to record or died recording.
RecordFollowsSchema ==
    /\ recorded \subseteq schema
    /\ \A f \in schema : 1 .. f - 1 \subseteq recorded
    /\ \A f \in schema \ recorded :
          crashes = 0 => \E d \in Deploys : at[d] = "record" /\ next[d] = f

\* A deploy that reports success found or made the whole schema.
SuccessIsComplete ==
    \A d \in Deploys : result[d] = "applied" => schema = Files /\ recorded = Files

\* No deploy records a file another has recorded: the INSERT never collides.
RecordNeverCollides ==
    \A d \in Deploys : at[d] = "record" => next[d] \in schema \ recorded

\* A deploy fails only if it overlaps another one or follows a crash.
FailureNeedsRaceOrCrash ==
    \A d \in Deploys : result[d] = "failed" => d \in met \/ crashes > 0

\* Deploys that race get the schema done unless one of them dies, although all
\* but one of them may fail.
SchemaGetsDone == [](crashes = 0) => <>(recorded = Files)

=============================================================================
