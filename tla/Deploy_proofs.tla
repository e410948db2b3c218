---------------------------- MODULE Deploy_proofs ----------------------------
(***************************************************************************)
(* Proofs about Deploy, for any number of runs and versions: what holds of *)
(* the records and the container although runs overlap, fail and die.      *)
(***************************************************************************)
EXTENDS Deploy, TLAPS

-----------------------------------------------------------------------------
(* The invariant.                                                          *)

LEMMA IdleOK == Idle \in Call /\ Idle.pc = "idle"
  BY DeployAssumption DEF Idle, Call

LEMMA InitInv == Init => DeployInv
<1> SUFFICES ASSUME Init PROVE DeployInv
  OBVIOUS
<1> USE DeployAssumption
<1>1. 1..Given \subseteq File
  BY DEF File
<1>2. TypeOK
  <2>1. Given \in Given..Last /\ Given \in 0..Last
    OBVIOUS
  <2>. QED  BY <1>1, <2>1, IdleOK DEF Init, TypeOK
<1>3. RecordedInOrder /\ EffectsOK
  BY DEF Init, RecordedInOrder, EffectsOK
<1>4. ASSUME NEW r \in Run PROVE CallOK(r)
  BY <1>4, IdleOK DEF Init, CallOK
<1>. QED  BY <1>2, <1>3, <1>4 DEF DeployInv

\* What the variables besides call have to keep.
DataTypeOK ==
  /\ prod \in Given..Last /\ checkout \in Given..Last /\ container \in 0..Last
  /\ table \in BOOLEAN
  /\ recorded \in SUBSET File
  /\ ran \in SUBSET File /\ twice \in SUBSET File /\ torn \in SUBSET File

\* A step of one run leaves the others as they are: records are never removed.
LEMMA Assemble ==
  ASSUME DeployInv, NEW r \in Run, NEW c \in Call, call' = [call EXCEPT ![r] = c],
         recorded \subseteq recorded',
         DataTypeOK', RecordedInOrder', EffectsOK', CallOK(r)'
  PROVE  DeployInv'
<1>1. call \in [Run -> Call] /\ call' \in [Run -> Call]
  BY DEF DeployInv, TypeOK
<1>2. TypeOK'
  BY <1>1 DEF DataTypeOK, TypeOK
<1>3. ASSUME NEW q \in Run, q # r PROVE CallOK(q)'
  <2>1. call'[q] = call[q]
    BY <1>1, <1>3
  <2>. QED  BY <2>1, <1>3 DEF DeployInv, CallOK
<1>. QED  BY <1>2, <1>3 DEF DeployInv

\* A run that changes nothing but its own state, or ends, keeps the rest.
LEMMA Quiet ==
  ASSUME DeployInv, NEW r \in Run, NEW c \in Call, call' = [call EXCEPT ![r] = c],
         UNCHANGED <<recorded, effects>>,
         prod' = prod, checkout' \in Given..Last, container' \in 0..Last, table' \in BOOLEAN,
         CallOK(r)'
  PROVE  DeployInv'
<1>1. DataTypeOK' /\ RecordedInOrder' /\ EffectsOK' /\ recorded \subseteq recorded'
  BY DEF DeployInv, TypeOK, DataTypeOK, RecordedInOrder, EffectsOK, effects
<1>. QED  BY <1>1, Assemble

\* To record the first of a list, all before which is recorded, leaves no gap.
LEMMA RecordFirst ==
  ASSUME DeployInv, NEW r \in Run, NEW f \in File,
         call[r].pc \in {"apply", "baseline"}, First(f, call[r].todo),
         recorded' = recorded \cup {f}
  PROVE  RecordedInOrder' /\ f <= call[r].version
<1>1. call[r] \in Call /\ CallOK(r)
  BY DEF DeployInv, TypeOK
<1>2. f \in 1..call[r].version
  BY <1>1 DEF CallOK, First
<1>3. \A g \in 1..f : g # f => g \in (1..call[r].version) \ call[r].todo
  BY <1>1, <1>2 DEF First, Call, File
<1>4. 1..f \subseteq recorded'
  BY <1>1, <1>3 DEF CallOK
<1>. QED  BY <1>2, <1>4 DEF DeployInv, RecordedInOrder

LEMMA StepKeeps ==
  ASSUME DeployInv, NEW r \in Run, Step(r)
  PROVE  DeployInv'
<1> USE DeployAssumption
<1>1. /\ TypeOK /\ call[r] \in Call /\ CallOK(r) /\ RecordedInOrder /\ EffectsOK
      /\ call \in [Run -> Call] /\ Idle \in Call /\ Idle.pc = "idle"
  BY IdleOK DEF DeployInv, TypeOK
<1>2. ASSUME Return(r), UNCHANGED <<recorded, effects>>, prod' = prod, checkout' = checkout,
             container' \in 0..Last, table' = table
      PROVE  DeployInv'
  <2>1. CallOK(r)'
    BY <1>1, <1>2 DEF Return, CallOK
  <2>. QED  BY <1>1, <1>2, <2>1, Quiet DEF Return, TypeOK
<1>3. ASSUME NEW pc \in {"count", "list", "up", "baseline"}, Move(r, pc),
             UNCHANGED <<recorded, effects>>, prod' = prod, checkout' = checkout,
             container' = container, table' \in BOOLEAN, CallOK(r)'
      PROVE  DeployInv'
  <2>1. PICK c : c = [call[r] EXCEPT !.pc = pc]
    OBVIOUS
  <2>2. c \in Call /\ call' = [call EXCEPT ![r] = c]
    BY <1>1, <1>3, <2>1 DEF Call, Move
  <2>. QED  BY <1>1, <1>3, <2>2, Quiet DEF TypeOK
<1>4. CASE Pull(r) \/ ByHand(r)
  <2>1. PICK v \in {prod, checkout} :
          call' = [call EXCEPT ![r] = [Idle EXCEPT !.pc = "table", !.version = v]]
    BY <1>4 DEF Pull, ByHand
  <2>2. v \in 0..Last
    BY <1>1, <2>1 DEF TypeOK
  <2>3. PICK c : c = [Idle EXCEPT !.pc = "table", !.version = v]
    OBVIOUS
  <2>4. c \in Call /\ c.pc = "table"
    BY <1>1, <2>2, <2>3 DEF Idle, Call
  <2>5. call' = [call EXCEPT ![r] = c]
    BY <2>1, <2>3
  <2>6. CallOK(r)'
    BY <1>1, <2>4, <2>5 DEF CallOK
  <2>. QED  BY <1>1, <1>4, <2>4, <2>5, <2>6, Quiet DEF Pull, ByHand, TypeOK, schema
<1>5. CASE Table(r)
  <2>1. CallOK(r)'
    BY <1>1, <1>5 DEF Table, Move, CallOK, At
  <2>. QED  BY <1>3, <1>5, <2>1 DEF Table
<1>6. CASE Count(r)
  <2>1. ASSUME recorded # {} PROVE CallOK(r)'
    <3>1. call' = [call EXCEPT ![r].pc = "list"] /\ recorded' = recorded
      BY <1>6, <2>1 DEF Count, Move, schema
    <3>2. /\ call'[r].pc = "list"
          /\ call'[r].version = call[r].version /\ call'[r].todo = call[r].todo
      BY <1>1, <3>1 DEF Call
    <3>3. At(r, "count")
      BY <1>6 DEF Count
    <3>. QED  BY <1>1, <2>1, <3>1, <3>2, <3>3 DEF CallOK, At
  <2>2. UNCHANGED <<prod, checkout, container, table, recorded, effects>>
    BY <1>6 DEF Count, schema
  <2>3. container \in 0..Last /\ table \in BOOLEAN
    BY <1>1 DEF TypeOK
  <2>4. CASE recorded = {}
    BY <1>2, <1>6, <2>2, <2>3, <2>4 DEF Count
  <2>5. CASE recorded # {}
    BY <1>3, <1>6, <2>1, <2>2, <2>3, <2>5 DEF Count
  <2>. QED  BY <2>4, <2>5
<1>7. CASE List(r)
  <2>1. PICK c : c = [call[r] EXCEPT !.pc = "apply", !.todo = (1..call[r].version) \ recorded]
    OBVIOUS
  <2>2. call[r].version \in 0..Last /\ 1..call[r].version \subseteq File
    BY <1>1 DEF Call, File
  <2>3. /\ c \in Call /\ c.pc = "apply" /\ c.version = call[r].version
        /\ c.todo = (1..call[r].version) \ recorded
        /\ call' = [call EXCEPT ![r] = c]
    BY <1>1, <1>7, <2>1, <2>2 DEF Call, List
  <2>4. recorded # {} /\ UNCHANGED recorded
    BY <1>1, <1>7 DEF List, CallOK, At, schema
  <2>5. CallOK(r)'
    BY <1>1, <2>3, <2>4 DEF CallOK
  <2>. QED  BY <1>1, <1>7, <2>3, <2>5, Quiet DEF List, TypeOK, schema
<1>8. CASE Applied(r)
  <2>1. CallOK(r)'
    BY <1>1, <1>8 DEF Applied, Move, CallOK, At, schema
  <2>. QED  BY <1>1, <1>3, <1>8, <2>1 DEF Applied, TypeOK, schema
<1>9. CASE Up(r)
  BY <1>1, <1>2, <1>9 DEF Up, TypeOK, schema
<1>10. ASSUME NEW f \in File, ApplyFails(r, f) \/ Baselined(r) \/ Die(r) PROVE DeployInv'
  BY <1>1, <1>2, <1>10 DEF ApplyFails, Baselined, Die, TypeOK, schema
<1>11. ASSUME NEW f \in File, Apply(r, f) \/ Record(r, f) PROVE DeployInv'
  <2>1. PICK c : c = [call[r] EXCEPT !.todo = @ \ {f}]
    OBVIOUS
  <2>2. /\ c \in Call /\ c.pc = call[r].pc /\ c.version = call[r].version
        /\ c.todo = call[r].todo \ {f}
        /\ call' = [call EXCEPT ![r] = c]
    BY <1>1, <1>11, <2>1 DEF Call, Apply, Record, Strike
  <2>3. call[r].pc \in {"apply", "baseline"} /\ First(f, call[r].todo)
        /\ recorded' = recorded \cup {f}
    BY <1>11 DEF Apply, Record, At
  <2>4. RecordedInOrder' /\ f <= call[r].version
    BY <2>3, RecordFirst
  <2>5. CallOK(r)'
    BY <1>1, <2>2, <2>3 DEF CallOK
  <2>6. EffectsOK' /\ DataTypeOK'
    <3>1. CASE Apply(r, f)
      BY <1>1, <3>1 DEF Apply, TakesEffect, EffectsOK, TypeOK, DataTypeOK
    <3>2. CASE Record(r, f)
      <4>1. f \in 1..Given
        BY <1>1, <3>2 DEF Record, At, First, CallOK
      <4>. QED  BY <1>1, <3>2, <4>1 DEF Record, EffectsOK, TypeOK, DataTypeOK, effects
    <3>. QED  BY <1>11, <3>1, <3>2
  <2>. QED  BY <2>2, <2>3, <2>4, <2>5, <2>6, Assemble
<1>12. ASSUME NEW f \in File, Tear(r, f) PROVE DeployInv'
  <2>1. CallOK(r)'
    BY <1>1, <1>12 DEF Tear, Return, CallOK
  <2>2. UNCHANGED recorded /\ EffectsOK' /\ DataTypeOK'
    BY <1>1, <1>12 DEF Tear, TakesEffect, EffectsOK, TypeOK, DataTypeOK, schema
  <2>3. RecordedInOrder'
    BY <1>1, <2>2 DEF RecordedInOrder
  <2>. QED  BY <1>1, <1>12, <2>1, <2>2, <2>3, Assemble DEF Tear, Return
<1>13. CASE BaselineBegin(r)
  <2>1. File \cap 1..Given = 1..Given
    BY DEF File
  <2>2. PICK c : c = [pc |-> "existing", version |-> Given, todo |-> File \cap 1..Given]
    OBVIOUS
  <2>3. /\ c \in Call /\ c.pc = "existing" /\ c.version = Given /\ c.todo = 1..Given
        /\ call' = [call EXCEPT ![r] = c]
    BY <1>13, <2>1, <2>2 DEF BaselineBegin, Call
  <2>4. CallOK(r)'
    BY <1>1, <2>3 DEF CallOK
  <2>. QED  BY <1>1, <1>13, <2>3, <2>4, Quiet DEF BaselineBegin, TypeOK
<1>14. CASE BaselineExisting(r)
  <2>1. ASSUME recorded = {} PROVE CallOK(r)'
    <3>1. call' = [call EXCEPT ![r].pc = "baseline"] /\ recorded' = recorded
      BY <1>14, <2>1 DEF BaselineExisting, Move, schema
    <3>2. /\ call'[r].pc = "baseline"
          /\ call'[r].version = call[r].version /\ call'[r].todo = call[r].todo
      BY <1>1, <3>1 DEF Call
    <3>3. At(r, "existing")
      BY <1>14 DEF BaselineExisting
    <3>. QED  BY <1>1, <2>1, <3>1, <3>2, <3>3 DEF CallOK, At
  <2>2. UNCHANGED <<prod, checkout, container, table, recorded, effects>>
    BY <1>14 DEF BaselineExisting, schema
  <2>3. container \in 0..Last /\ table \in BOOLEAN
    BY <1>1 DEF TypeOK
  <2>4. CASE recorded = {}
    BY <1>3, <1>14, <2>1, <2>2, <2>3, <2>4 DEF BaselineExisting
  <2>5. CASE recorded # {}
    BY <1>2, <1>14, <2>2, <2>3, <2>5 DEF BaselineExisting
  <2>. QED  BY <2>4, <2>5
<1>15. CASE Baselined(r) \/ Die(r)
  BY <1>1, <1>2, <1>15 DEF Baselined, Die, TypeOK, schema
<1>. QED
  BY <1>4, <1>5, <1>6, <1>7, <1>8, <1>9, <1>10, <1>11, <1>12, <1>13, <1>14, <1>15 DEF Step

LEMMA NextInv == DeployInv /\ [Next]_vars => DeployInv'
<1> SUFFICES ASSUME DeployInv, [Next]_vars PROVE DeployInv'
  OBVIOUS
<1> USE DeployAssumption
<1>1. CASE Merge
  BY <1>1 DEF Merge, DeployInv, TypeOK, RecordedInOrder, EffectsOK, CallOK, schema, effects
<1>2. CASE UNCHANGED vars
  BY <1>2 DEF vars, DeployInv, TypeOK, RecordedInOrder, EffectsOK, CallOK, schema, effects
<1>. QED  BY <1>1, <1>2, StepKeeps DEF Next

LEMMA InvCorrect == Spec => []DeployInv
  BY InitInv, NextInv, PTL DEF Spec

-----------------------------------------------------------------------------
\* All variables keep their types.
THEOREM TypeCorrect == Spec => []TypeOK
<1>1. DeployInv => TypeOK
  BY DEF DeployInv
<1>. QED  BY <1>1, InvCorrect, PTL

\* For any number of runs and versions, the records have no gaps.
THEOREM RecordedInOrderCorrect == Spec => []RecordedInOrder
<1>1. DeployInv => RecordedInOrder
  BY DEF DeployInv
<1>. QED  BY <1>1, InvCorrect, PTL

\* For any number of runs, no migration takes effect again, but for the two
\* ways in which migrate.sh loses its record.
THEOREM AppliedOnceCorrect == Spec => AppliedOnce
<1> DEFINE Kept == \A f \in twice' \ twice :
                     f \in torn' \/ (BaselineShort /\ f \in 1..Given \ recorded)
<1>1. DeployInv /\ [Next]_vars => [Kept]_vars
  <2> SUFFICES ASSUME DeployInv, Next, NEW f \in twice' \ twice
               PROVE  f \in torn' \/ (BaselineShort /\ f \in 1..Given \ recorded)
    BY DEF vars
  <2>1. ASSUME NEW r \in Run, NEW g \in File, Apply(r, g)
        PROVE  f \in torn' \/ (BaselineShort /\ f \in 1..Given \ recorded)
    <3>1. f = g /\ f \in ran /\ f \notin recorded /\ torn' = torn
      BY <2>1 DEF Apply, TakesEffect
    <3>2. recorded # {}
      BY <2>1 DEF DeployInv, CallOK, Apply, At
    <3>. QED  BY <3>1, <3>2 DEF DeployInv, EffectsOK, BaselineShort
  <2>2. ASSUME NEW r \in Run, NEW g \in File, Tear(r, g)
        PROVE  f \in torn' \/ (BaselineShort /\ f \in 1..Given \ recorded)
    BY <2>2 DEF Tear, TakesEffect
  <2>3. (\E r \in Run, g \in File : Apply(r, g) \/ Tear(r, g)) \/ twice' = twice
    BY DEF Next, Merge, Step, Pull, ByHand, Table, Count, List, Applied, Up, ApplyFails,
           BaselineBegin, BaselineExisting, Baselined, Record, Die, effects
  <2>. QED  BY <2>1, <2>2, <2>3
<1>. QED  BY <1>1, InvCorrect, PTL DEF Spec, AppliedOnce

\* For any number of runs, the API is started only from a tree whose migrations
\* are in the database, unless that tree changed since the run listed it.
THEOREM SchemaBeforeCodeCorrect == Spec => SchemaBeforeCode
<1> DEFINE Kept == \A r \in Run :
                     Up(r) /\ checkout = call[r].version => 1..container' \subseteq recorded
<1>1. DeployInv /\ [Next]_vars => [Kept]_vars
  <2> SUFFICES ASSUME DeployInv, NEW r \in Run, Up(r), checkout = call[r].version
               PROVE  1..container' \subseteq recorded
    BY DEF vars
  <2>. QED  BY DEF DeployInv, CallOK, Up, At
<1>. QED  BY <1>1, InvCorrect, PTL DEF Spec, SchemaBeforeCode
=============================================================================
