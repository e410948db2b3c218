------------------------------- MODULE Deploy -------------------------------
(***************************************************************************)
(* Migrations and deployments on the server.  deploy.sh applies the        *)
(* migrations the database has no record of and then builds and starts the *)
(* API; migrate.sh --baseline records, once, those applied by hand before. *)
(*                                                                         *)
(* A run is a process: one of the deploy workflow, which a concurrency     *)
(* group keeps to one at a time, or one that somebody starts by hand and   *)
(* that overlaps with any other.  A run may die at every step.             *)
(* Migrations are numbered in the order of their names; the code of        *)
(* version n needs the migrations up to n.                                 *)
(***************************************************************************)
EXTENDS Integers

CONSTANTS
  CI,         \* runs of the workflow: one, as it starts the next after the last
  Hand,       \* runs by hand
  Given,      \* the last migration applied before there were records
  Last        \* bound: the newest version

ASSUME DeployAssumption ==
  /\ Given \in Nat /\ Last \in Nat /\ Given <= Last
  /\ CI \cap Hand = {}

VARIABLES
  prod,       \* the version of origin/prod
  checkout,   \* the version of the working tree on the server
  container,  \* the version nafil-api runs
  table,      \* whether schema_migrations exists
  recorded,   \* the migrations it lists
  ran,        \* those that ever took effect, at least in part
  twice,      \* history: those that took effect more than once
  torn,       \* history: those that took effect and left no record
  call        \* what each run is executing

schema == <<table, recorded>>
effects == <<ran, twice, torn>>
vars == <<prod, checkout, container, schema, effects, call>>

-----------------------------------------------------------------------------
Run == CI \cup Hand
File == 1..Last

Call == [pc: {"idle", "table", "count", "list", "apply", "up", "existing", "baseline"},
         version: 0..Last,       \* the files of the tree, read at the start
         todo: SUBSET File]      \* those that are still to be applied or recorded

Idle == [pc |-> "idle", version |-> 0, todo |-> {}]

TypeOK ==
  /\ prod \in Given..Last
  /\ checkout \in Given..Last
  /\ container \in 0..Last
  /\ table \in BOOLEAN
  /\ recorded \in SUBSET File
  /\ ran \in SUBSET File /\ twice \in SUBSET File /\ torn \in SUBSET File
  /\ call \in [Run -> Call]

Init ==
  /\ prod = Given /\ checkout = Given /\ container = Given
  /\ table = FALSE /\ recorded = {}
  /\ ran = 1..Given /\ twice = {} /\ torn = {}
  /\ call = [r \in Run |-> Idle]

-----------------------------------------------------------------------------
At(r, pc) == call[r].pc = pc
Move(r, pc) == call' = [call EXCEPT ![r].pc = pc]
Return(r) == call' = [call EXCEPT ![r] = Idle]
First(f, S) == f \in S /\ \A g \in S : f <= g

\* A change with a migration is merged to prod.
Merge ==
  /\ prod < Last
  /\ prod' = prod + 1
  /\ UNCHANGED <<checkout, container, schema, effects, call>>

\* The forced command fetches prod, fast-forwards the tree and runs deploy.sh,
\* whose first act is migrate.sh: it lists the files of the tree.
Pull(r) ==
  /\ r \in CI /\ At(r, "idle")
  /\ checkout' = prod
  /\ call' = [call EXCEPT ![r] = [Idle EXCEPT !.pc = "table", !.version = prod]]
  /\ UNCHANGED <<prod, container, schema, effects>>

ByHand(r) ==
  /\ r \in Hand /\ At(r, "idle")
  /\ call' = [call EXCEPT ![r] = [Idle EXCEPT !.pc = "table", !.version = checkout]]
  /\ UNCHANGED <<prod, checkout, container, schema, effects>>

\* The table of records is created where it is missing.
Table(r) ==
  /\ At(r, "table")
  /\ table' = TRUE
  /\ Move(r, "count")
  /\ UNCHANGED <<prod, checkout, container, recorded, effects>>

\* No records at all: the database has not been baselined, and the run stops.
Count(r) ==
  /\ At(r, "count")
  /\ IF recorded = {} THEN Return(r) ELSE Move(r, "list")
  /\ UNCHANGED <<prod, checkout, container, schema, effects>>

\* What is recorded now is skipped, whoever records more meanwhile.
List(r) ==
  /\ At(r, "list")
  /\ call' = [call EXCEPT ![r].pc = "apply", ![r].todo = (1..call[r].version) \ recorded]
  /\ UNCHANGED <<prod, checkout, container, schema, effects>>

-----------------------------------------------------------------------------
\* A migration takes effect.
TakesEffect(f) ==
  /\ ran' = ran \cup {f}
  /\ twice' = IF f \in ran THEN twice \cup {f} ELSE twice

\* It is struck off the list.
Strike(r, f) == call' = [call EXCEPT ![r].todo = @ \ {f}]

\* Mutant: the record is a statement of its own, after the migration is committed.
ApplyApart(r, f) ==
  /\ At(r, "apply") /\ First(f, call[r].todo)
  /\ TakesEffect(f)
  /\ recorded' = recorded \cup {f}
  /\ IF f \in recorded THEN Return(r) ELSE Strike(r, f)
  /\ UNCHANGED <<prod, checkout, container, table, torn>>

\* The file and its record are one transaction.
Apply(r, f) ==
  /\ At(r, "apply") /\ First(f, call[r].todo) /\ f \notin recorded
  /\ TakesEffect(f)
  /\ recorded' = recorded \cup {f}
  /\ Strike(r, f)
  /\ UNCHANGED <<prod, checkout, container, table, torn>>

\* Mutant: a failed migration does not stop the loop.
FailGoesOn(r, f) ==
  /\ At(r, "apply") /\ First(f, call[r].todo)
  /\ Strike(r, f)
  /\ UNCHANGED <<prod, checkout, container, schema, effects>>

\* The migration fails, or its record is there already, as an overlapping run
\* applied it: all is rolled back and the run stops, before the API is touched.
ApplyFails(r, f) ==
  /\ At(r, "apply") /\ First(f, call[r].todo)
  /\ Return(r)
  /\ UNCHANGED <<prod, checkout, container, schema, effects>>

\* The run dies while it feeds psql: psql takes the end of its input for the end
\* of the transaction, and commits what it got, without a record.
Tear(r, f) ==
  /\ At(r, "apply") /\ First(f, call[r].todo)
  /\ TakesEffect(f)
  /\ torn' = torn \cup {f}
  /\ Return(r)
  /\ UNCHANGED <<prod, checkout, container, schema>>

Applied(r) ==
  /\ At(r, "apply") /\ call[r].todo = {}
  /\ Move(r, "up")
  /\ UNCHANGED <<prod, checkout, container, schema, effects>>

\* docker compose builds whatever the tree is by now, and replaces the container.
Up(r) ==
  /\ At(r, "up")
  /\ container' = checkout
  /\ Return(r)
  /\ UNCHANGED <<prod, checkout, schema, effects>>

-----------------------------------------------------------------------------
\* migrate.sh --baseline, with the number of the last migration applied by hand.
BaselineBegin(r) ==
  /\ r \in Hand /\ At(r, "idle")
  /\ table' = TRUE
  /\ call' = [call EXCEPT ![r] = [pc |-> "existing", version |-> Given, todo |-> File \cap 1..Given]]
  /\ UNCHANGED <<prod, checkout, container, recorded, effects>>

\* It refuses when there are records.
BaselineExisting(r) ==
  /\ At(r, "existing")
  /\ IF recorded = {} THEN Move(r, "baseline") ELSE Return(r)
  /\ UNCHANGED <<prod, checkout, container, schema, effects>>

\* Mutant: the newest is recorded first.
RecordLast(r, f) ==
  /\ At(r, "baseline") /\ f \in call[r].todo /\ f \notin recorded
  /\ \A g \in call[r].todo : g <= f
  /\ recorded' = recorded \cup {f}
  /\ Strike(r, f)
  /\ UNCHANGED <<prod, checkout, container, table, effects>>

\* One row after the other, each committed; one that is there stops the run.
Record(r, f) ==
  /\ At(r, "baseline") /\ First(f, call[r].todo) /\ f \notin recorded
  /\ recorded' = recorded \cup {f}
  /\ Strike(r, f)
  /\ UNCHANGED <<prod, checkout, container, table, effects>>

Baselined(r) ==
  /\ At(r, "baseline")
  /\ call[r].todo = {} \/ \E f \in call[r].todo : First(f, call[r].todo) /\ f \in recorded
  /\ Return(r)
  /\ UNCHANGED <<prod, checkout, container, schema, effects>>

\* The run dies, or loses the database, between two of these steps; the build
\* or the start of the new container fails.
Die(r) ==
  /\ ~At(r, "idle")
  /\ Return(r)
  /\ UNCHANGED <<prod, checkout, container, schema, effects>>

Step(r) ==
  \/ Pull(r) \/ ByHand(r)
  \/ Table(r) \/ Count(r) \/ List(r) \/ Applied(r) \/ Up(r)
  \/ \E f \in File : Apply(r, f) \/ ApplyFails(r, f) \/ Tear(r, f)
  \/ BaselineBegin(r) \/ BaselineExisting(r) \/ Baselined(r)
  \/ \E f \in File : Record(r, f)
  \/ Die(r)

Next == Merge \/ \E r \in Run : Step(r)

Spec == Init /\ [][Next]_vars

-----------------------------------------------------------------------------
\* The strengthening: a run works down its list in order, so that what it has
\* no more to do is recorded; it is past the count only if there are records;
\* and what took effect without a record was given or torn.
CallOK(r) ==
  LET c == call[r]
  IN /\ c.pc \in {"list", "apply", "up"} => recorded # {}
     /\ c.pc \in {"apply", "up", "baseline"} => (1..c.version) \ c.todo \subseteq recorded
     /\ c.pc \in {"apply", "up", "baseline"} => c.todo \subseteq 1..c.version
     /\ c.pc = "up" => c.todo = {}
     /\ c.pc \in {"existing", "baseline"} => c.todo \subseteq 1..Given
     /\ c.pc = "existing" => c.version = Given /\ c.todo = 1..Given

EffectsOK == /\ ran \subseteq recorded \cup torn \cup 1..Given
             /\ recorded \cup torn \cup 1..Given \subseteq ran

\* The records have no gaps: whatever overlaps, fails or dies, a migration is
\* recorded only when all before it are, by one run or another.
RecordedInOrder == \A f \in recorded : 1..f \subseteq recorded

DeployInv == TypeOK /\ RecordedInOrder /\ EffectsOK /\ \A r \in Run : CallOK(r)

BaselineShort == recorded # {} /\ ~(1..Given \subseteq recorded)

\* No migration takes effect again, of two overlapping runs or after a failure,
\* but for one whose record was lost as its run died, and, while the baseline
\* is incomplete, those it has still to record.
AppliedOnce ==
  [][\A f \in twice' \ twice :
       f \in torn' \/ (BaselineShort /\ f \in 1..Given \ recorded)]_vars

\* The API is never started from a tree whose migrations are not all in the
\* database, unless another run changed that tree since this one listed it.
SchemaBeforeCode ==
  [][\A r \in Run :
       Up(r) /\ checkout = call[r].version => 1..container' \subseteq recorded]_vars
=============================================================================
