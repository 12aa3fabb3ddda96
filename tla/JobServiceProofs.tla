-------------------------- MODULE JobServiceProofs --------------------------
(***************************************************************************)
(* JobService for every number of jobs and pods, every budget, batch size,  *)
(* lease length and bound on requeues.                                      *)
(*                                                                          *)
(* A statement of the service changes each row on its own, so the argument  *)
(* has two halves.  RowStep lists what one step may do to one row; lemmas   *)
(* about pairs of rows show that each of these keeps a row's invariant.     *)
(* StepMovesRows then says that every action of JobService does to every    *)
(* row something RowStep lists, which is where ClaimsDisjoint is needed:    *)
(* the commit of a claim does not look at the status of its rows.           *)
(***************************************************************************)
EXTENDS JobService, JobRowsProofs, FiniteSetTheorems

\* What one statement may do to the row r it matches; s is the row after it.
RowStep(r, s) ==
    \/ s = r
    \/ r.status = "absent" /\ \E a \in AttemptBudgets, m \in RetryBudgets : s = NewRow(a, m)
    \/ \E t \in DOMAIN AllowedEntry : r.status \in AllowedEntry[t] /\ s = UpdatedRow(r, t)
    \/ r.status = "queued" /\ \E o \in Pods \cup {NoOwner} : s = StartedRow(r, o)
    \/ r.status = "running" /\ s = FailedRow(r)
    \/ r.status = "failed" /\ s = RetriedRow(r)
    \/ r.status = "running" /\ s = RenewedRow(r)
    \/ s = AgedRow(r)

\* LeaseMatchesStatus and ManualBudgetKept, for one row.
LeaseOK(r) ==
    /\ r.status = "running" => r.lease # NoLease
    /\ r.status \in {"queued", "failed", "waiting_approval"} =>
          r.lease = NoLease /\ r.owner = NoOwner

BudgetOK(r) ==
    /\ r.retry_count <= r.max_retries
    /\ r.status = "failed" => r.attempts >= r.max_attempts /\ r.retry_count < r.max_retries

-----------------------------------------------------------------------------

LEMMA RowTypes ==
    ASSUME NEW r \in Row, NEW s, RowStep(r, s)
    PROVE  s \in Row
  <1>1. ASSUME NEW a \in AttemptBudgets, NEW m \in RetryBudgets
        PROVE  NewRow(a, m) \in Row
    BY FieldTypes, BudgetAssumption DEF NewRow, Row
  <1>2. RenewedRow(r) \in Row
    BY FieldTypes DEF RenewedRow, Row
  <1>3. AgedRow(r) \in Row
    BY AgedLease DEF AgedRow, Row
  <1> QED
    BY <1>1, <1>2, <1>3, StartedType, FailedType, RetriedType, UpdatedType
       DEF RowStep, Owner

LEMMA RowLeases ==
    ASSUME NEW r \in Row, LeaseOK(r), NEW s, RowStep(r, s)
    PROVE  LeaseOK(s)
  <1> USE LeaseAssumption DEF Row, RowStatus, Status, NoLease, LeaseOK
  <1>1. ASSUME NEW a \in AttemptBudgets, NEW m \in RetryBudgets
        PROVE  LeaseOK(NewRow(a, m))
    BY DEF NewRow
  <1>2. ASSUME NEW t \in DOMAIN AllowedEntry, r.status \in AllowedEntry[t]
        PROVE  LeaseOK(UpdatedRow(r, t))
    BY <1>2, AllowedTargets DEF UpdatedRow, Released
  <1>3. ASSUME NEW o \in Pods \cup {NoOwner}
        PROVE  LeaseOK(StartedRow(r, o))
    BY DEF StartedRow
  <1>4. LeaseOK(FailedRow(r)) /\ LeaseOK(RetriedRow(r))
    <2>1. /\ FailedRow(r).status \in {"queued", "failed", "dead"}
          /\ FailedRow(r).lease = NoLease
          /\ FailedRow(r).owner = NoOwner
      BY DEF FailedRow, Released, NextStatusAfterFailure
    <2>2. /\ RetriedRow(r).status = "queued"
          /\ RetriedRow(r).lease = NoLease
          /\ RetriedRow(r).owner = NoOwner
      BY DEF RetriedRow, Released
    <2> QED BY <2>1, <2>2
  <1>5. r.status = "running" => LeaseOK(RenewedRow(r))
    BY DEF RenewedRow
  <1>6. LeaseOK(AgedRow(r))
    BY DEF AgedRow, Lease
  <1> QED BY <1>1, <1>2, <1>3, <1>4, <1>5, <1>6 DEF RowStep

LEMMA RowBudgets ==
    ASSUME NEW r \in Row, BudgetOK(r), NEW s, RowStep(r, s)
    PROVE  BudgetOK(s)
  <1> USE BudgetAssumption DEF Row, RowStatus, Status, BudgetOK
  <1>1. ASSUME NEW a \in AttemptBudgets, NEW m \in RetryBudgets
        PROVE  BudgetOK(NewRow(a, m))
    BY DEF NewRow
  <1>2. ASSUME NEW t \in DOMAIN AllowedEntry
        PROVE  BudgetOK(UpdatedRow(r, t))
    BY AllowedTargets DEF UpdatedRow, Released
  <1>3. ASSUME NEW o \in Pods \cup {NoOwner}
        PROVE  BudgetOK(StartedRow(r, o))
    BY DEF StartedRow
  <1>4. BudgetOK(FailedRow(r))
    BY DEF FailedRow, Released, NextStatusAfterFailure
  <1>5. r.status = "failed" => BudgetOK(RetriedRow(r))
    BY DEF RetriedRow, Released
  <1>6. BudgetOK(RenewedRow(r)) /\ BudgetOK(AgedRow(r))
    BY DEF RenewedRow, AgedRow
  <1> QED BY <1>1, <1>2, <1>3, <1>4, <1>5, <1>6 DEF RowStep

-----------------------------------------------------------------------------

LEMMA OldestIsSubset ==
    ASSUME NEW S, NEW n PROVE Oldest(S, n) \subseteq S
  BY DEF Oldest

\* Every action does to every row something RowStep lists.
LEMMA StepMovesRows ==
    ASSUME TypeOK, ClaimsDisjoint, [Next]_vars
    PROVE  \A j \in Jobs : RowStep(row[j], row'[j])
  <1> SUFFICES ASSUME NEW i \in Jobs PROVE RowStep(row[i], row'[i])
    OBVIOUS
  <1> USE DEF TypeOK
  <1>1. ASSUME NEW j \in Jobs, Create(j) PROVE RowStep(row[i], row'[i])
    BY <1>1 DEF Create, RowStep
  <1>2. ASSUME NEW j \in Jobs, Requeue(j) PROVE RowStep(row[i], row'[i])
    BY <1>2, AllowedTargets DEF Requeue, GuardedUpdate, RowStep
  <1>3. ASSUME NEW j \in Jobs, Start(j) PROVE RowStep(row[i], row'[i])
    BY <1>3 DEF Start, GuardedUpdate, RowStep
  <1>4. ASSUME NEW j \in Jobs, Fail(j) PROVE RowStep(row[i], row'[i])
    BY <1>4 DEF Fail, GuardedUpdate, RowStep
  <1>5. ASSUME NEW j \in Jobs, Retry(j) PROVE RowStep(row[i], row'[i])
    BY <1>5 DEF Retry, GuardedUpdate, RowStep
  <1>6. ASSUME NEW j \in Jobs, RenewLease(j) PROVE RowStep(row[i], row'[i])
    BY <1>6 DEF RenewLease, RowStep
  <1>7. ASSUME NEW j \in Jobs, NEW t \in DOMAIN AllowedEntry, Update(j, t)
        PROVE  RowStep(row[i], row'[i])
    BY <1>7 DEF Update, GuardedUpdate, RowStep
  <1>8. ASSUME NEW p \in Pods, ClaimSelect(p) \/ ClaimAbort(p)
        PROVE  RowStep(row[i], row'[i])
    BY <1>8 DEF ClaimSelect, ClaimAbort, RowStep
  <1>9. ASSUME NEW p \in Pods, ClaimCommit(p) PROVE RowStep(row[i], row'[i])
    <2>1. i \in locks[p] => row[i].status = "queued"
      BY DEF ClaimsDisjoint
    <2> QED BY <1>9, <2>1 DEF ClaimCommit, RowStep
  <1>10. CASE ReapExpired
    BY <1>10 DEF ReapExpired, Expired, RowStep
  <1>11. CASE Tick
    BY <1>11 DEF Tick, RowStep
  <1>12. CASE UNCHANGED vars
    BY <1>12 DEF vars, RowStep
  <1> QED
    BY <1>1, <1>2, <1>3, <1>4, <1>5, <1>6, <1>7, <1>8, <1>9, <1>10, <1>11, <1>12
       DEF Next

LEMMA TypeStep ==
    ASSUME TypeOK, ClaimsDisjoint, [Next]_vars
    PROVE  TypeOK'
  <1>0. \A j \in Jobs : row'[j] \in Row
    BY StepMovesRows, RowTypes DEF TypeOK
  <1> USE <1>0 DEF TypeOK
  <1>1. ASSUME NEW j \in Jobs, Create(j) PROVE TypeOK'
    <2>1. Cardinality(Jobs \ With("absent")) \in Nat
      BY JobsAssumption, FS_Subset, FS_CardinalityType
    <2> QED BY <1>1, <2>1 DEF Create, history
  <1>2. ASSUME NEW j \in Jobs, Requeue(j) PROVE TypeOK'
    BY <1>2, BudgetAssumption DEF Requeue, GuardedUpdate
  <1>3. ASSUME NEW j \in Jobs, Start(j) PROVE TypeOK'
    BY <1>3 DEF Start, GuardedUpdate
  <1>4. ASSUME NEW j \in Jobs, Fail(j) PROVE TypeOK'
    BY <1>4 DEF Fail, GuardedUpdate, history
  <1>5. ASSUME NEW j \in Jobs, Retry(j) PROVE TypeOK'
    BY <1>5 DEF Retry, GuardedUpdate, history
  <1>6. ASSUME NEW j \in Jobs, RenewLease(j) PROVE TypeOK'
    BY <1>6 DEF RenewLease, history
  <1>7. ASSUME NEW j \in Jobs, NEW t \in DOMAIN AllowedEntry, Update(j, t)
        PROVE  TypeOK'
    BY <1>7 DEF Update, GuardedUpdate, history
  <1>8. ASSUME NEW p \in Pods, ClaimSelect(p) PROVE TypeOK'
    BY <1>8, OldestIsSubset DEF ClaimSelect, With, history
  <1>9. ASSUME NEW p \in Pods, ClaimAbort(p) PROVE TypeOK'
    BY <1>9 DEF ClaimAbort, history
  <1>10. ASSUME NEW p \in Pods, ClaimCommit(p) PROVE TypeOK'
    BY <1>10 DEF ClaimCommit
  <1>11. CASE ReapExpired
    BY <1>11 DEF ReapExpired, history
  <1>12. CASE Tick
    BY <1>12 DEF Tick, history
  <1>13. CASE UNCHANGED vars
    BY <1>13 DEF vars
  <1> QED
    BY <1>1, <1>2, <1>3, <1>4, <1>5, <1>6, <1>7, <1>8, <1>9, <1>10, <1>11, <1>12, <1>13
       DEF Next

LEMMA DisjointStep ==
    ASSUME TypeOK, ClaimsDisjoint, [Next]_vars
    PROVE  ClaimsDisjoint'
  <1> USE DEF TypeOK, ClaimsDisjoint
  <1>1. ASSUME NEW j \in Jobs, Create(j) PROVE ClaimsDisjoint'
    BY <1>1 DEF Create, history
  <1>2. ASSUME NEW j \in Jobs, Requeue(j) PROVE ClaimsDisjoint'
    BY <1>2 DEF Requeue, GuardedUpdate, Locked
  <1>3. ASSUME NEW j \in Jobs, Start(j) PROVE ClaimsDisjoint'
    BY <1>3 DEF Start, GuardedUpdate, Locked
  <1>4. ASSUME NEW j \in Jobs, Fail(j) PROVE ClaimsDisjoint'
    BY <1>4 DEF Fail, GuardedUpdate, Locked
  <1>5. ASSUME NEW j \in Jobs, Retry(j) PROVE ClaimsDisjoint'
    BY <1>5 DEF Retry, GuardedUpdate, Locked
  <1>6. ASSUME NEW j \in Jobs, RenewLease(j) PROVE ClaimsDisjoint'
    BY <1>6 DEF RenewLease
  <1>7. ASSUME NEW j \in Jobs, NEW t \in DOMAIN AllowedEntry, Update(j, t)
        PROVE  ClaimsDisjoint'
    BY <1>7 DEF Update, GuardedUpdate, Locked
  <1>8. ASSUME NEW p \in Pods, ClaimSelect(p) PROVE ClaimsDisjoint'
    <2> DEFINE free == {j \in With("queued") : ~ Locked(j)}
    <2>1. locks'[p] \subseteq free
      BY <1>8, OldestIsSubset DEF ClaimSelect
    <2>2. \A q \in Pods : q # p => locks'[q] = locks[q] /\ free \cap locks[q] = {}
      BY <1>8 DEF ClaimSelect, Locked
    <2>3. row' = row /\ \A j \in free : row[j].status = "queued"
      BY <1>8 DEF ClaimSelect, With
    <2> QED BY <2>1, <2>2, <2>3
  <1>9. ASSUME NEW p \in Pods, ClaimAbort(p) PROVE ClaimsDisjoint'
    BY <1>9 DEF ClaimAbort
  <1>10. ASSUME NEW p \in Pods, ClaimCommit(p) PROVE ClaimsDisjoint'
    BY <1>10 DEF ClaimCommit
  <1>11. CASE ReapExpired
    BY <1>11 DEF ReapExpired, Expired
  <1>12. CASE Tick
    BY <1>12 DEF Tick, AgedRow, Row
  <1>13. CASE UNCHANGED vars
    BY <1>13 DEF vars
  <1> QED
    BY <1>1, <1>2, <1>3, <1>4, <1>5, <1>6, <1>7, <1>8, <1>9, <1>10, <1>11, <1>12, <1>13
       DEF Next

-----------------------------------------------------------------------------

\* The inductive strengthening of RunsWithinBudget.  A row has been granted
\* Charge(r) runs so far: all of max_attempts for each RetryJob spent, and in
\* the current cycle its attempts up to max_attempts.  A row that waits in
\* `queued` with its attempts already spent got there by a plain requeue it
\* has not run for yet, so that one is still owed.
Owed(r) == IF r.status = "queued" /\ r.attempts >= r.max_attempts THEN 1 ELSE 0

Used(r) == IF r.attempts < r.max_attempts THEN r.attempts ELSE r.max_attempts

Charge(r) == r.max_attempts * r.retry_count + Used(r) - Owed(r)

RunsCharged ==
    \A j \in Jobs : /\ runs[j] <= Charge(row[j]) + requeues[j]
                    /\ row[j].status = "absent" => runs[j] = 0

LEMMA ChargeType ==
    ASSUME NEW r \in Row
    PROVE  /\ Charge(r) \in Int
           /\ r.max_attempts * r.retry_count \in Nat
           /\ Used(r) \in 0 .. r.max_attempts
           /\ Owed(r) \in {0, 1}
  <1>1. r.max_attempts \in Nat /\ r.retry_count \in Nat /\ r.attempts \in Nat
    BY DEF Row
  <1> QED BY <1>1 DEF Charge, Used, Owed

LEMMA StartCharges ==
    ASSUME NEW r \in Row, r.status = "queued", NEW o \in Owner
    PROVE  Charge(StartedRow(r, o)) = Charge(r) + 1
  <1> DEFINE s == StartedRow(r, o)
  <1>1. /\ s.status = "running" /\ s.attempts = r.attempts + 1
        /\ s.max_attempts = r.max_attempts /\ s.retry_count = r.retry_count
    BY DEF StartedRow, Row
  <1>2. Used(s) - Owed(s) = Used(r) - Owed(r) + 1
    BY <1>1 DEF Used, Owed, Row
  <1> QED BY <1>1, <1>2, ChargeType, StartedType DEF Charge

LEMMA RequeueCharges ==
    ASSUME NEW r \in Row
    PROVE  Charge(UpdatedRow(r, "queued")) >= Charge(r) - 1
  <1> DEFINE s == UpdatedRow(r, "queued")
  <1>1. /\ s.attempts = r.attempts /\ s.max_attempts = r.max_attempts
        /\ s.retry_count = r.retry_count
    BY DEF UpdatedRow, Released, Row
  <1>2. Used(s) - Owed(s) >= Used(r) - Owed(r) - 1
    BY <1>1 DEF Used, Owed, Row
  <1> QED BY <1>1, <1>2, ChargeType, UpdatedType, AllowedTargets DEF Charge

LEMMA UpdateKeepsCharge ==
    ASSUME NEW r \in Row, NEW t \in DOMAIN AllowedEntry, t # "queued"
    PROVE  Charge(UpdatedRow(r, t)) >= Charge(r)
  <1> DEFINE s == UpdatedRow(r, t)
  <1>1. /\ s.attempts = r.attempts /\ s.max_attempts = r.max_attempts
        /\ s.retry_count = r.retry_count /\ s.status # "queued"
    BY DEF UpdatedRow, Released, Row
  <1>2. Used(s) - Owed(s) >= Used(r) - Owed(r)
    BY <1>1 DEF Used, Owed, Row
  <1> QED BY <1>1, <1>2, ChargeType, UpdatedType DEF Charge

LEMMA FailKeepsCharge ==
    ASSUME NEW r \in Row PROVE Charge(FailedRow(r)) >= Charge(r)
  <1> DEFINE s == FailedRow(r)
  <1>1. /\ s.attempts = r.attempts /\ s.max_attempts = r.max_attempts
        /\ s.retry_count = r.retry_count
        /\ s.status = "queued" => r.attempts < r.max_attempts
    BY DEF FailedRow, NextStatusAfterFailure, Released, Row
  <1>2. Used(s) - Owed(s) >= Used(r) - Owed(r)
    BY <1>1 DEF Used, Owed, Row
  <1> QED BY <1>1, <1>2, ChargeType, FailedType DEF Charge

LEMMA RetryKeepsCharge ==
    ASSUME NEW r \in Row, BudgetOK(r), r.status = "failed"
    PROVE  Charge(RetriedRow(r)) = Charge(r)
  <1> DEFINE s == RetriedRow(r)
  <1>1. /\ s.attempts = 0 /\ s.max_attempts = r.max_attempts
        /\ s.retry_count = r.retry_count + 1
    BY DEF RetriedRow, Released, Row
  <1>2. Used(s) - Owed(s) = 0 /\ Used(r) - Owed(r) = r.max_attempts
    BY <1>1 DEF Used, Owed, Row, BudgetOK
  <1>3. r.max_attempts * (r.retry_count + 1)
           = r.max_attempts * r.retry_count + r.max_attempts
    BY DEF Row
  <1> QED BY <1>1, <1>2, <1>3, ChargeType, RetriedType DEF Charge, Row

LEMMA TimeKeepsCharge ==
    ASSUME NEW r \in Row
    PROVE  Charge(RenewedRow(r)) = Charge(r) /\ Charge(AgedRow(r)) = Charge(r)
  BY DEF Charge, Used, Owed, RenewedRow, AgedRow, Row

LEMMA NewChargesNothing ==
    ASSUME NEW a \in AttemptBudgets, NEW m \in RetryBudgets
    PROVE  Charge(NewRow(a, m)) = 0
  <1>1. a \in Nat \ {0} /\ m \in Nat
    BY BudgetAssumption
  <1> QED BY <1>1 DEF Charge, Used, Owed, NewRow

\* The invariant every theorem below follows from.
IInv ==
    /\ TypeOK
    /\ ClaimsDisjoint
    /\ LeaseMatchesStatus
    /\ ManualBudgetKept
    /\ RunsCharged

LEMMA RowInvariants ==
    /\ LeaseMatchesStatus <=> \A j \in Jobs : LeaseOK(row[j])
    /\ ManualBudgetKept <=> \A j \in Jobs : BudgetOK(row[j])
  BY DEF LeaseMatchesStatus, LeaseOK, ManualBudgetKept, BudgetOK

LEMMA RowInvariantsStep ==
    ASSUME TypeOK, ClaimsDisjoint, LeaseMatchesStatus, ManualBudgetKept, [Next]_vars
    PROVE  LeaseMatchesStatus' /\ ManualBudgetKept'
  <1> SUFFICES ASSUME NEW j \in Jobs
               PROVE  LeaseOK(row'[j]) /\ BudgetOK(row'[j])
    BY DEF LeaseMatchesStatus, LeaseOK, ManualBudgetKept, BudgetOK
  <1>1. row[j] \in Row /\ RowStep(row[j], row'[j])
    BY StepMovesRows DEF TypeOK
  <1>2. LeaseOK(row[j]) /\ BudgetOK(row[j])
    BY RowInvariants
  <1> QED BY <1>1, <1>2, RowLeases, RowBudgets

LEMMA StatusAfter ==
    ASSUME NEW r \in Row
    PROVE  /\ \A o \in Owner : StartedRow(r, o).status = "running"
           /\ \A t \in DOMAIN AllowedEntry : UpdatedRow(r, t).status = t
           /\ FailedRow(r).status \in {"queued", "failed", "dead"}
           /\ RetriedRow(r).status = "queued"
           /\ RenewedRow(r).status = r.status
           /\ AgedRow(r).status = r.status
           /\ \A a, m : NewRow(a, m).status = "queued"
  BY DEF Row, StartedRow, UpdatedRow, FailedRow, NextStatusAfterFailure, RetriedRow,
         RenewedRow, AgedRow, NewRow, Released

LEMMA RunsStep ==
    ASSUME IInv, [Next]_vars
    PROVE  RunsCharged'
  <1> SUFFICES ASSUME NEW i \in Jobs
               PROVE  /\ runs'[i] <= Charge(row'[i]) + requeues'[i]
                      /\ row'[i].status = "absent" => runs'[i] = 0
    BY DEF RunsCharged, Charge, Used, Owed
  <1> DEFINE Goal == /\ runs'[i] <= Charge(row'[i]) + requeues'[i]
                     /\ row'[i].status = "absent" => runs'[i] = 0
  <1>0. /\ row[i] \in Row /\ runs[i] \in Nat /\ requeues[i] \in Nat
        /\ Charge(row[i]) \in Int
        /\ runs[i] <= Charge(row[i]) + requeues[i]
        /\ row[i].status = "absent" => runs[i] = 0
        /\ BudgetOK(row[i])
        /\ row'[i] \in Row /\ Charge(row'[i]) \in Int
    BY ChargeType, RowInvariants, TypeStep DEF IInv, TypeOK, RunsCharged
  <1>keeps. ASSUME runs'[i] = runs[i], requeues'[i] = requeues[i],
                   Charge(row'[i]) >= Charge(row[i]),
                   row'[i].status = "absent" => row[i].status = "absent"
            PROVE  Goal
    BY <1>0, <1>keeps
  <1>1. ASSUME NEW j \in Jobs, Create(j) PROVE Goal
    <2>1. CASE i = j
      <3>1. PICK a \in AttemptBudgets, m \in RetryBudgets : row'[i] = NewRow(a, m)
        BY <1>1, <2>1 DEF Create, IInv, TypeOK
      <3>2. runs'[i] = 0 /\ requeues'[i] = requeues[i]
        BY <1>0, <1>1, <2>1 DEF Create, history
      <3> QED BY <1>0, <3>1, <3>2, NewChargesNothing
    <2>2. CASE i # j
      BY <1>0, <1>1, <2>2, <1>keeps DEF Create, history, IInv, TypeOK
    <2> QED BY <2>1, <2>2
  <1>2. ASSUME NEW j \in Jobs, Requeue(j) PROVE Goal
    <2>1. CASE i = j
      <3>1. row'[i] = UpdatedRow(row[i], "queued") /\ row'[i].status = "queued"
        BY <1>0, <1>2, <2>1, StatusAfter, AllowedTargets
           DEF Requeue, GuardedUpdate, IInv, TypeOK
      <3>2. runs'[i] = runs[i] /\ requeues'[i] = requeues[i] + 1
        BY <1>2, <2>1 DEF Requeue, IInv, TypeOK
      <3> QED BY <1>0, <3>1, <3>2, RequeueCharges
    <2>2. CASE i # j
      BY <1>0, <1>2, <2>2, <1>keeps DEF Requeue, GuardedUpdate, IInv, TypeOK
    <2> QED BY <2>1, <2>2
  <1>3. ASSUME NEW j \in Jobs, Start(j) PROVE Goal
    <2>1. CASE i = j
      <3>1. /\ row[i].status = "queued"
            /\ row'[i] = StartedRow(row[i], NoOwner) /\ row'[i].status = "running"
            /\ runs'[i] = runs[i] + 1 /\ requeues'[i] = requeues[i]
        BY <1>0, <1>3, <2>1, StatusAfter, FieldTypes
           DEF Start, GuardedUpdate, IInv, TypeOK
      <3> QED BY <1>0, <3>1, StartCharges, FieldTypes
    <2>2. CASE i # j
      BY <1>0, <1>3, <2>2, <1>keeps DEF Start, GuardedUpdate, IInv, TypeOK
    <2> QED BY <2>1, <2>2
  <1>4. ASSUME NEW j \in Jobs, Fail(j) PROVE Goal
    <2>1. runs'[i] = runs[i] /\ requeues'[i] = requeues[i]
      BY <1>4 DEF Fail, history
    <2>2. row'[i] = row[i] \/ row'[i] = FailedRow(row[i])
      BY <1>4 DEF Fail, GuardedUpdate, IInv, TypeOK
    <2> QED BY <1>0, <2>1, <2>2, <1>keeps, FailKeepsCharge, StatusAfter
  <1>5. ASSUME NEW j \in Jobs, Retry(j) PROVE Goal
    <2>1. runs'[i] = runs[i] /\ requeues'[i] = requeues[i]
      BY <1>5 DEF Retry, history
    <2>2. \/ row'[i] = row[i]
          \/ row[i].status = "failed" /\ row'[i] = RetriedRow(row[i])
      BY <1>5 DEF Retry, GuardedUpdate, IInv, TypeOK
    <2> QED BY <1>0, <2>1, <2>2, <1>keeps, RetryKeepsCharge, StatusAfter
  <1>6. ASSUME NEW j \in Jobs, RenewLease(j) PROVE Goal
    <2>1. runs'[i] = runs[i] /\ requeues'[i] = requeues[i]
      BY <1>6 DEF RenewLease, history
    <2>2. row'[i] = row[i] \/ row'[i] = RenewedRow(row[i])
      BY <1>6 DEF RenewLease, IInv, TypeOK
    <2> QED BY <1>0, <2>1, <2>2, <1>keeps, TimeKeepsCharge, StatusAfter
  <1>7. ASSUME NEW j \in Jobs, NEW t \in DOMAIN AllowedEntry, Update(j, t) PROVE Goal
    <2>1. runs'[i] = runs[i] /\ requeues'[i] = requeues[i] /\ t # "queued" /\ t # "absent"
      BY <1>7, AllowedTargets DEF Update, history
    <2>2. row'[i] = row[i] \/ row'[i] = UpdatedRow(row[i], t)
      BY <1>7 DEF Update, GuardedUpdate, IInv, TypeOK
    <2> QED BY <1>0, <2>1, <2>2, <1>keeps, UpdateKeepsCharge, StatusAfter
  <1>8. ASSUME NEW p \in Pods, ClaimSelect(p) \/ ClaimAbort(p) PROVE Goal
    BY <1>0, <1>8, <1>keeps DEF ClaimSelect, ClaimAbort, history
  <1>9. ASSUME NEW p \in Pods, ClaimCommit(p) PROVE Goal
    <2>1. CASE i \in locks[p]
      <3>1. /\ row[i].status = "queued" /\ p \in Owner
            /\ row'[i] = StartedRow(row[i], p) /\ row'[i].status = "running"
            /\ runs'[i] = runs[i] + 1 /\ requeues'[i] = requeues[i]
        BY <1>0, <1>9, <2>1, StatusAfter DEF ClaimCommit, IInv, ClaimsDisjoint, Owner
      <3> QED BY <1>0, <3>1, StartCharges
    <2>2. CASE i \notin locks[p]
      BY <1>0, <1>9, <2>2, <1>keeps DEF ClaimCommit
    <2> QED BY <2>1, <2>2
  <1>10. CASE ReapExpired
    <2>1. runs'[i] = runs[i] /\ requeues'[i] = requeues[i]
      BY <1>10 DEF ReapExpired, history
    <2>2. row'[i] = row[i] \/ row'[i] = FailedRow(row[i])
      BY <1>10 DEF ReapExpired
    <2> QED BY <1>0, <2>1, <2>2, <1>keeps, FailKeepsCharge, StatusAfter
  <1>11. CASE Tick
    BY <1>0, <1>11, <1>keeps, TimeKeepsCharge, StatusAfter DEF Tick, history
  <1>12. CASE UNCHANGED vars
    BY <1>0, <1>12, <1>keeps DEF vars
  <1> QED
    BY <1>1, <1>2, <1>3, <1>4, <1>5, <1>6, <1>7, <1>8, <1>9, <1>10, <1>11, <1>12, Zenon
       DEF Next, IInv

-----------------------------------------------------------------------------

LEMMA InitInv == Init => IInv
  <1> SUFFICES ASSUME Init PROVE IInv
    OBVIOUS
  <1>1. AbsentRow \in Row /\ AbsentRow.status = "absent" /\ Charge(AbsentRow) = 0
        /\ BudgetOK(AbsentRow)
    BY FieldTypes DEF AbsentRow, NewRow, Row, Charge, Used, Owed, BudgetOK
  <1>2. TypeOK
    BY <1>1, BudgetAssumption DEF Init, TypeOK
  <1>3. ClaimsDisjoint
    BY DEF Init, ClaimsDisjoint
  <1>4. LeaseMatchesStatus /\ ManualBudgetKept
    BY <1>1 DEF Init, LeaseMatchesStatus, ManualBudgetKept, BudgetOK
  <1>5. RunsCharged
    BY <1>1 DEF Init, RunsCharged
  <1> QED BY <1>2, <1>3, <1>4, <1>5 DEF IInv

LEMMA StepInv == IInv /\ [Next]_vars => IInv'
  BY TypeStep, DisjointStep, RowInvariantsStep, RunsStep DEF IInv

LEMMA Invariance == Spec => []IInv
  BY InitInv, StepInv, PTL DEF Spec

\* The table, the locks and the histories keep their types.
THEOREM TypeCorrect == Spec => []TypeOK
  <1>1. IInv => TypeOK
    BY DEF IInv
  <1> QED BY <1>1, Invariance, PTL

\* A running job is always within the reaper's reach, and a job that waits
\* for a claim or a human holds no lease.
THEOREM LeasesMatch == Spec => []LeaseMatchesStatus
  <1>1. IInv => LeaseMatchesStatus
    BY DEF IInv
  <1> QED BY <1>1, Invariance, PTL

\* retry() never overdraws max_retries, which it does not look at.
THEOREM ManualBudget == Spec => []ManualBudgetKept
  <1>1. IInv => ManualBudgetKept
    BY DEF IInv
  <1> QED BY <1>1, Invariance, PTL

\* Concurrent claim transactions take disjoint sets of queued jobs.
THEOREM Disjointness == Spec => []ClaimsDisjoint
  <1>1. IInv => ClaimsDisjoint
    BY DEF IInv
  <1> QED BY <1>1, Invariance, PTL

\* How often a job can run, whatever happens to it.
THEOREM RunBudget == Spec => []RunsWithinBudget
  <1>1. IInv => RunsWithinBudget
    <2> SUFFICES ASSUME IInv, NEW j \in Jobs
                 PROVE  runs[j] <= row[j].max_attempts * (row[j].retry_count + 1)
                                     + requeues[j]
      BY DEF RunsWithinBudget
    <2>1. row[j] \in Row /\ runs[j] \in Nat /\ requeues[j] \in Nat
      BY DEF IInv, TypeOK
    <2>2. runs[j] <= Charge(row[j]) + requeues[j]
      BY DEF IInv, RunsCharged
    <2>3. row[j].max_attempts * (row[j].retry_count + 1)
             = row[j].max_attempts * row[j].retry_count + row[j].max_attempts
      BY <2>1 DEF Row
    <2>4. row[j].max_attempts \in Nat
      BY <2>1 DEF Row
    <2> QED BY <2>1, <2>2, <2>3, <2>4, ChargeType DEF Charge
  <1> QED BY <1>1, Invariance, PTL

-----------------------------------------------------------------------------

RetriesLeft(q) == q.max_retries - q.retry_count

\* What one statement does to a row is a lifecycle step or none at all.
LEMMA RowStepIsLifecycleStep ==
    ASSUME NEW r \in Row, BudgetOK(r), NEW s, RowStep(r, s)
    PROVE  \/ s.status = r.status /\ RetriesLeft(s) = RetriesLeft(r)
           \/ r.status = "absent" /\ s.status = "queued" /\ RetriesLeft(s) \in RetryBudgets
           \/ r.status = "queued" /\ s.status = "running" /\ RetriesLeft(s) = RetriesLeft(r)
           \/ /\ r.status = "running" /\ RetriesLeft(s) = RetriesLeft(r)
              /\ s.status \in {"succeeded", "queued", "waiting_approval",
                               "cancelled", "dead", "failed"}
              /\ s.status = "failed" => RetriesLeft(r) > 0
           \/ /\ r.status = "failed" /\ s.status = "queued"
              /\ RetriesLeft(r) > 0 /\ RetriesLeft(s) = RetriesLeft(r) - 1
           \/ /\ RetriesLeft(s) = RetriesLeft(r)
              /\ \/ r.status \in {"queued", "waiting_approval"} /\ s.status = "cancelled"
                 \/ r.status = "failed" /\ s.status = "dead"
                 \/ /\ r.status \in {"failed", "dead", "cancelled", "waiting_approval"}
                    /\ s.status = "queued"
  <1>1. CASE s = r
    BY <1>1
  <1>2. ASSUME r.status = "absent", NEW a \in AttemptBudgets, NEW m \in RetryBudgets,
               s = NewRow(a, m)
        PROVE  s.status = "queued" /\ RetriesLeft(s) \in RetryBudgets
    BY <1>2, BudgetAssumption DEF NewRow, RetriesLeft
  <1>3. ASSUME NEW t \in DOMAIN AllowedEntry, r.status \in AllowedEntry[t],
               s = UpdatedRow(r, t)
        PROVE  s.status = t /\ RetriesLeft(s) = RetriesLeft(r)
    BY <1>3, AllowedTargets DEF UpdatedRow, Released, Row, RetriesLeft
  <1>4. ASSUME NEW o \in Owner, s = StartedRow(r, o)
        PROVE  s.status = "running" /\ RetriesLeft(s) = RetriesLeft(r)
    BY <1>4 DEF StartedRow, Row, RetriesLeft
  <1>5. ASSUME s = FailedRow(r)
        PROVE  /\ s.status \in {"queued", "failed", "dead"} /\ RetriesLeft(s) = RetriesLeft(r)
               /\ s.status = "failed" => RetriesLeft(r) > 0
    BY <1>5 DEF FailedRow, NextStatusAfterFailure, Released, Row, RetriesLeft
  <1>6. ASSUME r.status = "failed", s = RetriedRow(r)
        PROVE  s.status = "queued" /\ RetriesLeft(r) > 0 /\ RetriesLeft(s) = RetriesLeft(r) - 1
    BY <1>6 DEF RetriedRow, Released, Row, RetriesLeft, BudgetOK
  <1>7. ASSUME s = RenewedRow(r) \/ s = AgedRow(r)
        PROVE  s.status = r.status /\ RetriesLeft(s) = RetriesLeft(r)
    BY <1>7 DEF RenewedRow, AgedRow, Row, RetriesLeft
  <1>8. CASE \E t \in DOMAIN AllowedEntry : r.status \in AllowedEntry[t] /\ s = UpdatedRow(r, t)
    BY <1>3, <1>8, AllowedTargets
  <1> QED BY <1>1, <1>2, <1>4, <1>5, <1>6, <1>7, <1>8 DEF RowStep, Owner

LEMMA StepRefines ==
    ASSUME IInv, IInv', [Next]_vars
    PROVE  [Lifecycle!Next]_(Lifecycle!lifecycleVars)
  <1> USE DEF RetriesLeft
  <1> DEFINE ph == [j \in Jobs |-> row[j].status]
             rl == [j \in Jobs |-> row[j].max_retries - row[j].retry_count]
  <1>1. ph' \in [Jobs -> Lifecycle!Phase] /\ rl' \in [Jobs -> Nat]
    BY DEF IInv, TypeOK, Row, RowStatus, Status, Lifecycle!Phase, ManualBudgetKept
  <1>2. ASSUME NEW j \in Jobs PROVE Lifecycle!JobStep(j) \/ Lifecycle!Keeps(j)
    <2>1. row[j] \in Row /\ BudgetOK(row[j]) /\ RowStep(row[j], row'[j])
      BY StepMovesRows, RowInvariants DEF IInv, TypeOK
    <2> QED
      BY <2>1, RowStepIsLifecycleStep
         DEF Lifecycle!JobStep, Lifecycle!Keeps, Lifecycle!Submit, Lifecycle!Begin,
             Lifecycle!End, Lifecycle!Retry, Lifecycle!Steer, Lifecycle!Moves
  <1> QED BY <1>1, <1>2 DEF Lifecycle!Next

\* The service implements the lifecycle its callers rely on.
THEOREM Refinement == Spec => ImplementsLifecycle
  <1>1. Init => Lifecycle!Init
    <2>1. /\ AbsentRow.status = "absent"
          /\ AbsentRow.max_retries - AbsentRow.retry_count = 0
      BY DEF AbsentRow, NewRow
    <2> QED BY <2>1 DEF Init, Lifecycle!Init
  <1>2. IInv /\ IInv' /\ [Next]_vars => [Lifecycle!Next]_(Lifecycle!lifecycleVars)
    BY StepRefines
  <1> QED
    BY <1>1, <1>2, Invariance, PTL DEF Spec, ImplementsLifecycle, Lifecycle!Spec

=============================================================================
