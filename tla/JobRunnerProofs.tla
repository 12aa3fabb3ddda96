-------------------------- MODULE JobRunnerProofs --------------------------
(***************************************************************************)
(* JobRunner for every number of pods, jobs, steps, calls and accidents.     *)
(*                                                                           *)
(* Four layers.  Types, that a cancellation sticks, and that every step is   *)
(* one of JobLifecycle, hold of every instance.  The safety properties of    *)
(* the claim, the heartbeat and the checkpoint are proved of the Calm        *)
(* instances: a tick claims one job, every type has a runner, nobody         *)
(* cancels, and the lease has room for every renewal that may be missed.  A  *)
(* larger batch and a cancellation that is taken back break them.  What is   *)
(* remembered of approvals and executions is proved of the Undisturbed       *)
(* instances, in which moreover no pod crashes and no statement fails: a     *)
(* crash between an answer and its checkpoint repeats the step.  Of the Solo *)
(* instances, one pod that neither crashes nor sees a statement fail but     *)
(* claims batches of any size while callers cancel and requeue, it is proved *)
(* that nothing but a cancellation taken back runs an unapproved step.       *)
(*                                                                           *)
(* The invariant of the second layer is CalmInv: a pod that executes a job   *)
(* owns its row, under a lease no older than its heartbeat and the renewals  *)
(* missed so far account for, and its copy of the checkpoint extends the     *)
(* table's (and equals it, except while it is being saved).                  *)
(***************************************************************************)
EXTENDS JobRunner, JobRowsProofs, FiniteSetTheorems, WellFoundedInduction, SequenceTheorems

\* A finite set of numbers has a least one: the sets of the members below each
\* of them are ordered by inclusion, and that is well-founded.
LEMMA LeastOf ==
    ASSUME NEW S \in SUBSET Nat, S # {}, IsFiniteSet(S)
    PROVE  \E i \in S : \A k \in S : i <= k
<1> DEFINE Below(i) == {k \in S : k < i}
           T == {Below(i) : i \in S}
<1>1. IsWellFoundedOn(StrictSubsetOrdering(S), FiniteSubsetsOf(S))
  BY FS_StrictSubsetOrderingWellFounded
<1>2. T \subseteq FiniteSubsetsOf(S)
  BY FS_Subset DEF FiniteSubsetsOf
<1>3. \E x \in T : \A y \in T : ~ (<<y, x>> \in StrictSubsetOrdering(S))
  <2> HIDE DEF T
  <2>1. T # {} BY DEF T
  <2> QED BY <1>1, <1>2, <2>1, WFMin
<1>4. PICK i \in S : \A k \in S : <<Below(k), Below(i)>> \notin StrictSubsetOrdering(S)
  BY <1>3
<1> HIDE DEF T
<1>5. ASSUME NEW k \in S, k < i PROVE FALSE
  <2>1. k \in Nat /\ i \in Nat /\ \A m \in S : m \in Nat
    OBVIOUS
  <2>2. k \in Below(i) /\ k \notin Below(k)
    BY <1>5, <2>1
  <2>4. ASSUME NEW m \in Below(k) PROVE m \in Below(i)
    <3>1. m \in S /\ m \in Nat /\ m < k
      BY <2>1
    <3> QED BY <3>1, <2>1, <1>5
  <2>3. Below(k) \in SUBSET S /\ Below(i) \in SUBSET S
    OBVIOUS
  <2> HIDE DEF Below
  <2> QED BY <2>2, <2>3, <2>4, <1>4 DEF StrictSubsetOrdering
<1>6. \A k \in S : k \in Nat /\ i \in Nat
  OBVIOUS
<1> QED BY <1>5, <1>6

\* The next step is the first that is not done.
LEMMA NextStepIsFirst ==
    ASSUME NEW g, Undone(g) # {}
    PROVE  /\ NextStep(g) \in Undone(g) /\ NextStep(g) \in Step
           /\ \A k \in Undone(g) : NextStep(g) <= k
<1>1. Undone(g) \subseteq Step /\ Step \subseteq Nat
  BY RunnerAssumption DEF Undone, Step
<1>3. IsFiniteSet(Step)
  BY FS_Interval, RunnerAssumption DEF Step
<1>4. Undone(g) \in SUBSET Nat /\ IsFiniteSet(Undone(g))
  BY <1>1, <1>3, FS_Subset
<1>2. \E i \in Undone(g) : \A k \in Undone(g) : i <= k
  BY <1>4, LeastOf
<1> QED BY <1>1, <1>2 DEF NextStep

-----------------------------------------------------------------------------
(* Types, for any batch size and any accident.                               *)

LEMMA RowTypes ==
    ASSUME NEW r \in Row
    PROVE  /\ FailedRow(r) \in Row /\ RetriedRow(r) \in Row /\ RenewedRow(r) \in Row
           /\ AgedRow(r) \in Row
           /\ \A p \in Pods : StartedRow(r, p) \in Row
           /\ \A t \in DOMAIN AllowedEntry : UpdatedRow(r, t) \in Row
  BY FailedType, RetriedType, RenewedType, AgedType, StartedType, UpdatedType DEF Owner

LEMMA InitialRow == NewRow(MaxAttempts, MaxRetries) \in Row
  BY FieldTypes, RunnerAssumption DEF NewRow, Row

LEMMA SpendTypes ==
    ASSUME budget \in Budget,
           NEW kind \in {"calls", "crashes", "chatErrors", "dbErrors"}, Spend(kind)
    PROVE  /\ budget' \in Budget
           /\ budget'.dbErrors = IF kind = "dbErrors" THEN budget.dbErrors - 1
                                                      ELSE budget.dbErrors
           /\ kind = "dbErrors" => budget.dbErrors > 0
           /\ kind = "crashes" => budget.crashes > 0
           /\ kind # "crashes" => budget'.crashes = budget.crashes
  BY RunnerAssumption DEF Spend, Budget

\* A pod's state, and that it knows what it is doing.
PodOK(s) ==
    /\ s \in PodState
    /\ s.pc \in Running => s.job \in Jobs
    /\ s.pc = "chat" => Undone(s.prog) # {}

TypeInv == TypeOK /\ \A p \in Pods : PodOK(pod[p])

LEMMA IdleOK == PodOK(Idle) /\ Idle.pc = "idle" /\ Idle.batch = <<>> /\ Idle.beat = 0
  BY RunnerAssumption DEF PodOK, Idle, PodState, Running, NoProgress, Progress

LEMMA SavingOK ==
    ASSUME NEW s \in PodState, NEW g \in Progress, s.job \in Jobs,
           NEW then \in {"resume", "park", "succeed", "fail"}
    PROVE  PodOK(Saving(s, g, then))
  BY DEF PodOK, Saving, PodState, Running

LEMMA ErredOK ==
    ASSUME NEW s \in PodState, s.job \in Jobs
    PROVE  PodOK(Erred(s))
<1>1. [s.prog EXCEPT !.error = TRUE] \in Progress
  BY DEF PodState, Progress
<1> QED BY <1>1, SavingOK DEF Erred

LEMMA FinalizedOK ==
    ASSUME NEW g \in Progress
    PROVE  Finalized(g) \in Progress
  BY DEF Finalized, Progress

LEMMA ResumedOK ==
    ASSUME NEW s \in PodState, s.job \in Jobs
    PROVE  PodOK(Resumed(s))
<1>1. s.prog \in Progress
  BY DEF PodState
<1>2. PodOK([s EXCEPT !.pc = "plan"])
  BY DEF PodOK, PodState, Running
<1>3. Undone(s.prog) # {} => PodOK([s EXCEPT !.pc = "chat"])
  BY DEF PodOK, PodState, Running
<1>4. PodOK(Erred(s)) /\ PodOK(Saving(s, Finalized(s.prog), "succeed"))
  BY <1>1, ErredOK, FinalizedOK, SavingOK
<1> QED BY <1>2, <1>3, <1>4 DEF Resumed

LEMMA DispatchedOK ==
    ASSUME NEW batch \in Seq(Item)
    PROVE  PodOK(Dispatched(batch))
<1>1. CASE batch = <<>>
  BY <1>1, IdleOK DEF Dispatched
<1>2. CASE batch # <<>>
  <2> DEFINE s == [Idle EXCEPT !.batch = Tail(batch), !.job = Head(batch).job,
                               !.prog = Head(batch).prog]
  <2>1. Tail(batch) \in Seq(Item) /\ Head(batch) \in Item
    BY <1>2
  <2>2. s \in PodState /\ s.job \in Jobs
    BY <2>1, IdleOK DEF PodOK, PodState, Item, Idle
  <2> HIDE DEF s
  <2>3. PodOK([s EXCEPT !.pc = "fail"])
    BY <2>2 DEF PodOK, PodState, Running
  <2> QED BY <1>2, <2>2, <2>3, ResumedOK DEF Dispatched, s
<1> QED BY <1>1, <1>2

\* A statement that reads no more than the statuses of rows keeps them rows.
LEMMA EndRunTypes ==
    ASSUME TypeInv, NEW p \in Pods, pod[p].job \in Jobs, NEW new \in Row, EndRun(p, new)
    PROVE  row' \in [Jobs -> Row]
  BY DEF EndRun, TypeInv, TypeOK

LEMMA CallTypes ==
    ASSUME TypeInv, NEW kind, NEW j \in Jobs, NEW from, NEW new \in Row,
           Call(kind, j, from, new)
    PROVE  /\ row' \in [Jobs -> Row]
           /\ budget' \in Budget /\ budget'.dbErrors = budget.dbErrors
           /\ progress' = progress /\ pod' = pod /\ stopping' = stopping
           /\ executed' = executed
  BY SpendTypes DEF Call, TypeInv, TypeOK

\* The rows that a claim returns, with the checkpoints that the table has.
Claimed(order) == [k \in DOMAIN order |-> [job |-> order[k], prog |-> progress[order[k]]]]

Batch == Oldest({j \in Jobs : row[j].status = "queued"}, BatchSize)

LEMMA ClaimedTypes ==
    ASSUME TypeInv, NEW order \in Orders(Batch)
    PROVE  Claimed(order) \in Seq(Item)
<1>1. Batch \subseteq Jobs
  BY DEF Batch, Oldest
<1>2. Cardinality(Batch) \in Nat
  BY <1>1, RunnerAssumption, FS_Subset, FS_CardinalityType
<1>3. \A j \in Batch : [job |-> j, prog |-> progress[j]] \in Item
  BY <1>1 DEF TypeInv, TypeOK, Item
<1> HIDE DEF Batch
<1> DEFINE n == Cardinality(Batch)
<1>4. order \in [1 .. n -> Batch]
  BY DEF Orders
<1> HIDE DEF n
<1>5. Claimed(order) \in [1 .. n -> Item]
  BY <1>3, <1>4 DEF Claimed
<1> QED BY <1>2, <1>5, SeqDef DEF n

LEMMA TypeInit == Init => TypeInv
<1>1. NoProgress \in Progress
  BY RunnerAssumption DEF NoProgress, Progress
<1>2. [calls |-> MaxCalls, crashes |-> MaxCrashes,
       chatErrors |-> MaxChatErrors, dbErrors |-> MaxDbErrors] \in Budget
  BY RunnerAssumption DEF Budget
<1> QED BY <1>1, <1>2, InitialRow, IdleOK DEF Init, TypeInv, TypeOK, PodOK

\* What a pod's own step leaves, when its new state is one.
LEMMA PodTypes ==
    ASSUME TypeInv, NEW p \in Pods, NEW s, PodOK(s), pod' = [pod EXCEPT ![p] = s]
    PROVE  pod' \in [Pods -> PodState] /\ \A q \in Pods : PodOK(pod'[q])
  BY DEF TypeInv, TypeOK, PodOK

LEMMA AnswerTypes ==
    ASSUME TypeInv, NEW p \in Pods, Answer(p)
    PROVE  TypeInv'
<1>1. pod[p] \in PodState /\ pod[p].prog \in Progress
  BY DEF TypeInv, TypeOK, PodState
<1>2. pod[p].pc \in {"plan", "chat"} => pod[p].job \in Jobs
  BY DEF TypeInv, PodOK, Running
<1>3. CASE PlanReply(p)
  <2>1. PICK q \in Plans : pod' = [pod EXCEPT ![p] =
           Saving(pod[p], [pod[p].prog EXCEPT !.plan = q, !.phase = "executing"], "resume")]
    BY <1>3 DEF PlanReply, TypeInv, TypeOK
  <2>2. [pod[p].prog EXCEPT !.plan = q, !.phase = "executing"] \in Progress
    BY <1>1 DEF Progress
  <2> QED BY <1>1, <1>2, <1>3, <2>1, <2>2, SavingOK, PodTypes DEF PlanReply, TypeInv, TypeOK
<1>4. CASE ChatError(p)
  <2>1. pod' = [pod EXCEPT ![p] = Erred(pod[p])]
    BY <1>4 DEF ChatError, TypeInv, TypeOK
  <2> QED BY <1>1, <1>2, <1>4, <2>1, ErredOK, PodTypes, SpendTypes
        DEF ChatError, TypeInv, TypeOK
<1>5. CASE StepReply(p) \/ StepPause(p)
  <2> DEFINE i == NextStep(pod[p].prog)
  <2>1. i \in Step /\ pod[p].pc = "chat"
    BY <1>5, NextStepIsFirst DEF StepReply, StepPause, TypeInv, PodOK
  <2>2. [pod[p].prog EXCEPT !.pending = i] \in Progress
    BY <1>1, <2>1 DEF Progress
  <2>3. [pod[p].prog EXCEPT !.pending = 0, !.steps[i] = pod[p].prog.plan] \in Progress
    BY <1>1, <2>1 DEF Progress
  <2> HIDE DEF i
  <2>4. CASE StepReply(p)
    <3>1. pod' = [pod EXCEPT ![p] = Saving(pod[p],
             [pod[p].prog EXCEPT !.pending = 0, !.steps[i] = pod[p].prog.plan], "resume")]
      BY <2>4 DEF StepReply, i
    <3>2. executed' \subseteq Jobs \X Step
      BY <1>2, <2>1, <2>4 DEF StepReply, TypeInv, TypeOK, i
    <3>3. pod' \in [Pods -> PodState] /\ \A q \in Pods : PodOK(pod'[q])
      BY <1>1, <1>2, <2>1, <2>3, <3>1, SavingOK, PodTypes
    <3> QED BY <2>4, <3>2, <3>3 DEF StepReply, TypeInv, TypeOK
  <2>5. CASE StepPause(p)
    <3>1. pod' = [pod EXCEPT ![p] = Saving(pod[p],
             [pod[p].prog EXCEPT !.pending = i], "park")]
      BY <2>5 DEF StepPause, TypeInv, TypeOK, i
    <3> QED BY <1>1, <1>2, <2>1, <2>2, <2>5, <3>1, SavingOK, PodTypes
          DEF StepPause, TypeInv, TypeOK
  <2> QED BY <1>5, <2>4, <2>5
<1> QED BY <1>3, <1>4, <1>5 DEF Answer

LEMMA AfterSaveOK ==
    ASSUME NEW s \in PodState, s.job \in Jobs
    PROVE  PodOK(AfterSave(s))
<1>1. s.after # "resume" => PodOK([s EXCEPT !.pc = s.after])
  BY DEF PodOK, PodState, Running
<1> QED BY <1>1, ResumedOK DEF AfterSave

LEMMA WorkTypes ==
    ASSUME TypeInv, NEW p \in Pods, Work(p) \/ DbError(p)
    PROVE  TypeInv'
<1> USE DEF TypeInv, TypeOK
<1>1. pod[p] \in PodState /\ pod[p].batch \in Seq(Item)
  BY DEF PodState
<1>2. pod[p].pc \in Running => pod[p].job \in Jobs
  BY DEF PodOK
<1>3. CASE Reap(p)
  <2>1. PodOK([pod[p] EXCEPT !.pc = "reaped"])
    BY <1>1 DEF PodOK, PodState, Running
  <2>2. pod' = [pod EXCEPT ![p] = [pod[p] EXCEPT !.pc = "reaped"]]
    BY <1>3 DEF Reap
  <2>3. row' \in [Jobs -> Row]
    BY <1>3, RowTypes DEF Reap
  <2> QED BY <1>3, <2>1, <2>2, <2>3, PodTypes DEF Reap
<1>4. CASE Claim(p)
  <2>1. PICK order \in Orders(Batch) : pod' = [pod EXCEPT ![p] = Dispatched(Claimed(order))]
    BY <1>4 DEF Claim, Batch, Claimed
  <2>2. row' \in [Jobs -> Row]
    BY <1>4, RowTypes DEF Claim
  <2> QED BY <1>4, <2>1, <2>2, ClaimedTypes, DispatchedOK, PodTypes DEF Claim
<1>5. CASE Exit(p)
  <2>1. PodOK([pod[p] EXCEPT !.pc = "stopped"])
    BY <1>1 DEF PodOK, PodState, Running
  <2>2. pod' = [pod EXCEPT ![p] = [pod[p] EXCEPT !.pc = "stopped"]]
    BY <1>5 DEF Exit
  <2> QED BY <1>5, <2>1, <2>2, PodTypes DEF Exit
<1>6. CASE Save(p)
  <2>1. pod[p].job \in Jobs /\ pod[p].prog \in Progress
    BY <1>1, <1>2, <1>6 DEF Save, Running, PodState
  <2>2. pod' = [pod EXCEPT ![p] = AfterSave(pod[p])]
    BY <1>6 DEF Save
  <2> QED BY <1>1, <1>6, <2>1, <2>2, AfterSaveOK, PodTypes DEF Save
<1>7. CASE Succeed(p)
  <2>1. pod[p].job \in Jobs
    BY <1>2, <1>7 DEF Succeed, Running
  <2>2. row' \in [Jobs -> Row]
    BY <1>7, <2>1, RowTypes, EndRunTypes DEF Succeed, AllowedEntry
  <2>3. \E s : PodOK(s) /\ pod' = [pod EXCEPT ![p] = s]
    BY <1>1, <1>7, <2>1, DispatchedOK, ErredOK DEF Succeed
  <2> QED BY <1>7, <2>2, <2>3, PodTypes DEF Succeed
<1>8. CASE Park(p)
  <2>1. pod[p].job \in Jobs
    BY <1>2, <1>8 DEF Park, Running
  <2>2. row' \in [Jobs -> Row]
    BY <1>8, <2>1, RowTypes, EndRunTypes DEF Park, AllowedEntry
  <2>3. pod' = [pod EXCEPT ![p] = Dispatched(pod[p].batch)]
    BY <1>8 DEF Park
  <2> QED BY <1>1, <1>8, <2>2, <2>3, DispatchedOK, PodTypes DEF Park
<1>9. CASE Fail(p)
  <2>1. pod[p].job \in Jobs
    BY <1>2, <1>9 DEF Fail, Running
  <2>2. row' \in [Jobs -> Row]
    BY <1>9, <2>1, RowTypes, EndRunTypes DEF Fail
  <2>3. pod' = [pod EXCEPT ![p] = Dispatched(pod[p].batch)]
    BY <1>9 DEF Fail
  <2> QED BY <1>1, <1>9, <2>2, <2>3, DispatchedOK, PodTypes DEF Fail
<1>10. CASE DbError(p)
  <2>1. pod[p].pc \in Running \cup {"reaped"} /\ budget' \in Budget
    BY <1>10, SpendTypes DEF DbError, Running
  <2>2. PodOK([pod[p] EXCEPT !.pc = "fail"]) \/ pod[p].pc = "reaped"
    BY <1>1, <1>2, <2>1 DEF PodOK, PodState, Running
  <2>3. PodOK(Idle) /\ PodOK(Dispatched(pod[p].batch))
    BY <1>1, IdleOK, DispatchedOK
  <2>4. pod[p].pc # "reaped" => PodOK(Erred(pod[p]))
    BY <1>1, <1>2, <2>1, ErredOK
  <2>5. \E s : PodOK(s) /\ pod' = [pod EXCEPT ![p] = s]
    BY <1>10, <2>2, <2>3, <2>4 DEF DbError
  <2> QED BY <1>10, <2>1, <2>5, PodTypes DEF DbError
<1> QED BY <1>3, <1>4, <1>5, <1>6, <1>7, <1>8, <1>9, <1>10 DEF Work

LEMMA OtherTypes ==
    ASSUME TypeInv, NEW p \in Pods, Beat(p) \/ MissedBeat(p) \/ Stop(p) \/ Crash(p)
    PROVE  TypeInv'
<1> USE DEF TypeInv, TypeOK
<1>1. pod[p] \in PodState
  OBVIOUS
<1>2. pod[p].pc \in Running => pod[p].job \in Jobs
  BY DEF PodOK
<1>3. PodOK([pod[p] EXCEPT !.beat = 0])
  <2>1. 0 \in 0 .. HeartbeatTicks /\ PodOK(pod[p])
    BY RunnerAssumption
  <2> QED BY <2>1 DEF PodOK, PodState
<1>4. CASE Beat(p)
  <2>1. pod' = [pod EXCEPT ![p] = [pod[p] EXCEPT !.beat = 0]]
    BY <1>4 DEF Beat
  <2>2. row' \in [Jobs -> Row]
    BY <1>2, <1>4, RowTypes, EndRunTypes DEF Beat, Heartbeats
  <2> QED BY <1>3, <1>4, <2>1, <2>2, PodTypes DEF Beat
<1>5. CASE MissedBeat(p)
  <2>1. pod' = [pod EXCEPT ![p] = [pod[p] EXCEPT !.beat = 0]]
    BY <1>5 DEF MissedBeat
  <2> QED BY <1>3, <1>5, <2>1, PodTypes, SpendTypes DEF MissedBeat
<1>6. CASE Stop(p)
  BY <1>6 DEF Stop
<1>7. CASE Crash(p)
  BY <1>7, IdleOK, PodTypes, SpendTypes DEF Crash
<1> QED BY <1>4, <1>5, <1>6, <1>7

LEMMA TickTypes ==
    ASSUME TypeInv, Tick
    PROVE  TypeInv'
<1> USE DEF TypeInv, TypeOK
<1>1. row' \in [Jobs -> Row]
  BY RowTypes DEF Tick
<1>2. ASSUME NEW p \in Pods PROVE pod'[p] \in PodState /\ PodOK(pod'[p])
  <2>1. CASE Heartbeats(p)
    <3>1. pod[p].beat + 1 \in 0 .. HeartbeatTicks
      BY <2>1, RunnerAssumption DEF Tick, PodState
    <3>2. pod'[p] = [pod[p] EXCEPT !.beat = pod[p].beat + 1]
      BY <2>1 DEF Tick
    <3> QED BY <3>1, <3>2 DEF PodOK, PodState
  <2>2. CASE ~Heartbeats(p)
    BY <2>2 DEF Tick
  <2> QED BY <2>1, <2>2
<1>3. pod' \in [Pods -> PodState]
  BY <1>2 DEF Tick
<1> QED BY <1>1, <1>2, <1>3 DEF Tick

LEMMA CallerTypes ==
    ASSUME TypeInv, NEW j \in Jobs, Approve(j) \/ Requeue(j) \/ Cancel(j) \/ Retry(j)
    PROVE  TypeInv'
<1>1. row[j] \in Row
  BY DEF TypeInv, TypeOK
<1>2. /\ UpdatedRow(row[j], "queued") \in Row /\ UpdatedRow(row[j], "cancelled") \in Row
      /\ RetriedRow(row[j]) \in Row
  BY <1>1, RowTypes DEF AllowedEntry
<1>3. granted' \subseteq Jobs \X Step /\ revived' \subseteq Jobs
  BY DEF Approve, Requeue, Cancel, Retry, TypeInv, TypeOK
<1>4. /\ row' \in [Jobs -> Row] /\ budget' \in Budget
      /\ progress' = progress /\ pod' = pod /\ stopping' = stopping /\ executed' = executed
  BY <1>2, CallTypes DEF Approve, Requeue, Cancel, Retry
<1> QED BY <1>3, <1>4 DEF TypeInv, TypeOK

LEMMA TypeStep == TypeInv /\ [Next]_vars => TypeInv'
<1>1. TypeInv /\ UNCHANGED vars => TypeInv'
  BY DEF TypeInv, TypeOK, vars
<1> QED BY <1>1, AnswerTypes, WorkTypes, OtherTypes, TickTypes, CallerTypes DEF Next

\* Pods, rows, checkpoints and the bounds stay well typed, for any number of
\* pods and jobs, any batch size and any accident (poller.py, runner.py).
THEOREM TypeCorrect == Spec => []TypeOK
<1>1. TypeInv => TypeOK
  BY DEF TypeInv
<1> QED BY <1>1, TypeInit, TypeStep, PTL DEF Spec

\* No step, whatever its accidents, takes a cancelled row out of its status, but
\* for the caller's requeue.
LEMMA CancelledStays ==
    ASSUME TypeInv, [Next]_vars, NEW j \in Jobs, row[j].status = "cancelled"
    PROVE  row'[j].status = "cancelled" \/ Requeue(j)
<1>1. ASSUME NEW p \in Pods, NEW new, pod[p].job \in Jobs, EndRun(p, new)
      PROVE  row'[j] = row[j]
  BY <1>1 DEF EndRun, TypeInv, TypeOK
<1>2. ASSUME NEW p \in Pods, pod[p].pc \in Running
      PROVE  pod[p].job \in Jobs
  BY <1>2 DEF TypeInv, PodOK
<1>3. ASSUME NEW p \in Pods, Answer(p) \/ MissedBeat(p) \/ DbError(p) \/ Stop(p) \/ Crash(p)
      PROVE  row'[j] = row[j]
  BY <1>3 DEF Answer, PlanReply, ChatError, StepReply, StepPause, MissedBeat, DbError,
              Stop, Crash
<1>4. ASSUME NEW p \in Pods, Work(p) \/ Beat(p)
      PROVE  row'[j] = row[j]
  <2>1. CASE Reap(p)
    BY <2>1 DEF Reap, Expired
  <2>2. CASE Claim(p)
    BY <2>2 DEF Claim, Oldest
  <2>3. CASE Exit(p) \/ Save(p)
    BY <2>3 DEF Exit, Save
  <2>4. CASE Succeed(p) \/ Park(p) \/ Fail(p)
    BY <2>4, <1>1, <1>2 DEF Succeed, Park, Fail, Running
  <2>5. CASE Beat(p)
    BY <2>5, <1>1, <1>2 DEF Beat, Heartbeats
  <2> QED BY <1>4, <2>1, <2>2, <2>3, <2>4, <2>5 DEF Work
<1>5. ASSUME NEW k \in Jobs, Approve(k) \/ Cancel(k) \/ Retry(k)
      PROVE  row'[j].status = "cancelled"
  BY <1>5 DEF Approve, Cancel, Retry, Call, AllowedEntry, TypeInv, TypeOK
<1>6. ASSUME NEW k \in Jobs, Requeue(k)
      PROVE  row'[j].status = "cancelled" \/ Requeue(j)
  BY <1>6 DEF Requeue, Call, TypeInv, TypeOK
<1>7. CASE Tick
  <2>1. AgedRow(row[j]).status = row[j].status
    BY DEF AgedRow, TypeInv, TypeOK, Row
  <2> QED BY <1>7, <2>1 DEF Tick
<1>8. CASE UNCHANGED vars
  BY <1>8 DEF vars
<1> QED BY <1>3, <1>4, <1>5, <1>6, <1>7, <1>8 DEF Next

LEMMA TypesAlways == Spec => []TypeInv
  BY TypeInit, TypeStep, PTL DEF Spec

\* A cancellation is never undone by what the runner still reports of the run, in
\* batches of any size and with any pods and crashes (runner.py:242, 249, 258 and
\* the guard of jobs.py:341-363).
THEOREM CancelledStaysCancelled == Spec => CancelSticks
<1>1. TypeInv /\ [Next]_vars =>
        [\A j \in Jobs : row[j].status = "cancelled" =>
            row'[j].status = "cancelled" \/ Requeue(j)]_vars
  BY CancelledStays
<1> QED BY <1>1, TypesAlways, PTL DEF Spec, CancelSticks

-----------------------------------------------------------------------------
(* The lifecycle, step by step: what each statement makes of a row.          *)

BudgetOK(r) ==
    /\ r.retry_count <= r.max_retries
    /\ r.status = "failed" => r.retry_count < r.max_retries

BudgetInv == TypeInv /\ \A j \in Jobs : BudgetOK(row[j]) /\ row[j].status # "absent"

\* What a step may make of the row r.
SameBudget(r, s) == s.max_retries = r.max_retries /\ s.retry_count = r.retry_count
SameRow(r, s) == s.status = r.status /\ SameBudget(r, s)
RunEnds(r, s) ==
    /\ r.status = "running" /\ SameBudget(r, s)
    /\ s.status \in {"succeeded", "waiting_approval", "queued", "failed", "dead"}
    /\ s.status = "failed" => r.retry_count < r.max_retries
    /\ s.status = "dead" => r.attempts >= r.max_attempts /\ r.retry_count >= r.max_retries
ByPod(r, s) ==
    \/ SameRow(r, s) \/ RunEnds(r, s)
    \/ r.status = "queued" /\ s.status = "running" /\ SameBudget(r, s)
ByRpc(r, s) ==
    \/ SameRow(r, s)
    \/ /\ SameBudget(r, s)
       /\ \/ /\ r.status \in {"failed", "dead", "cancelled", "waiting_approval"}
             /\ s.status = "queued"
          \/ /\ r.status \in {"queued", "running", "waiting_approval"}
             /\ s.status = "cancelled"
    \/ /\ r.status = "failed" /\ s.status = "queued"
       /\ s.max_retries = r.max_retries /\ s.retry_count = r.retry_count + 1

LEMMA RowEffects ==
    ASSUME NEW r \in Row
    PROVE  /\ r.status = "queued" => \A p \in Pods : ByPod(r, StartedRow(r, p))
           /\ r.status = "running" => RunEnds(r, FailedRow(r))
           /\ r.status = "running" =>
                \A t \in {"succeeded", "waiting_approval"} : RunEnds(r, UpdatedRow(r, t))
           /\ SameRow(r, RenewedRow(r)) /\ SameRow(r, AgedRow(r))
           /\ r.status \in AllowedEntry["queued"] => ByRpc(r, UpdatedRow(r, "queued"))
           /\ r.status \in AllowedEntry["cancelled"] => ByRpc(r, UpdatedRow(r, "cancelled"))
           /\ r.status = "failed" => ByRpc(r, RetriedRow(r))
<1>1. Released(r) \in Row /\ Released(r).status = r.status /\ SameBudget(r, Released(r))
      /\ Released(r).attempts = r.attempts /\ Released(r).max_attempts = r.max_attempts
  BY ReleasedType DEF Released, SameBudget, Row
<1>2. \A p \in Pods : StartedRow(r, p).status = "running" /\ SameBudget(r, StartedRow(r, p))
  BY DEF StartedRow, SameBudget, Row
<1>3. r.status = "running" => RunEnds(r, FailedRow(r))
  <2> HAVE r.status = "running"
  <2>1. /\ FailedRow(r).status = NextStatusAfterFailure(r)
        /\ SameBudget(r, FailedRow(r))
    BY <1>1 DEF FailedRow, SameBudget, Row
  <2>2. /\ r.attempts \in Nat /\ r.max_attempts \in Nat
        /\ r.retry_count \in Nat /\ r.max_retries \in Nat
    BY DEF Row
  <2> QED BY <1>1, <2>1, <2>2 DEF RunEnds, NextStatusAfterFailure, SameBudget
<1>4. ASSUME NEW t \in {"succeeded", "waiting_approval", "queued", "cancelled"}
      PROVE  UpdatedRow(r, t).status = t /\ SameBudget(r, UpdatedRow(r, t))
  BY <1>1, <1>4 DEF UpdatedRow, SameBudget, Row
<1>5. SameRow(r, RenewedRow(r)) /\ SameRow(r, AgedRow(r))
  BY DEF RenewedRow, AgedRow, SameRow, SameBudget, Row
<1>6. /\ RetriedRow(r).status = "queued" /\ RetriedRow(r).max_retries = r.max_retries
      /\ RetriedRow(r).retry_count = r.retry_count + 1
  BY <1>1 DEF RetriedRow, SameBudget, Row
<1> QED BY <1>2, <1>3, <1>4, <1>5, <1>6, AllowedTargets DEF ByPod, ByRpc, RunEnds

\* A statement of a pod, about its own job, comes to nothing unless the job runs.
LEMMA EndRunMoves ==
    ASSUME TypeInv, NEW p \in Pods, pod[p].job \in Jobs, NEW new,
           row[pod[p].job].status = "running" => ByPod(row[pod[p].job], new),
           EndRun(p, new), NEW j \in Jobs
    PROVE  ByPod(row[j], row'[j])
<1>1. ByPod(row[j], row[j])
  BY DEF ByPod, SameRow, SameBudget
<1>2. row \in [Jobs -> Row]
  BY DEF TypeInv, TypeOK
<1> QED BY <1>1, <1>2 DEF EndRun

LEMMA PodsMove ==
    ASSUME TypeInv, NEW j \in Jobs,
           Tick \/ \E p \in Pods : Answer(p) \/ Work(p) \/ Beat(p) \/ MissedBeat(p)
                                   \/ DbError(p) \/ Stop(p) \/ Crash(p)
    PROVE  ByPod(row[j], row'[j])
<1>1. row \in [Jobs -> Row] /\ \A k \in Jobs : ByPod(row[k], row[k])
  BY DEF TypeInv, TypeOK, ByPod, SameRow, SameBudget
<1>2. ASSUME NEW p \in Pods, pod[p].pc \in Running
      PROVE  pod[p].job \in Jobs /\ row[pod[p].job] \in Row
  BY <1>1, <1>2 DEF TypeInv, PodOK
<1>3. CASE Tick
  <2>1. row'[j] = AgedRow(row[j])
    BY <1>3 DEF Tick
  <2> QED BY <1>1, <2>1, RowEffects DEF ByPod
<1>4. ASSUME NEW p \in Pods, Answer(p) \/ MissedBeat(p) \/ DbError(p) \/ Stop(p) \/ Crash(p)
      PROVE  row' = row
  BY <1>4 DEF Answer, PlanReply, ChatError, StepReply, StepPause, MissedBeat, DbError,
              Stop, Crash
<1>5. ASSUME NEW p \in Pods, Work(p) \/ Beat(p)
      PROVE  ByPod(row[j], row'[j])
  <2>1. CASE Reap(p)
    <3>1. row'[j] = IF Expired(row[j]) THEN FailedRow(row[j]) ELSE row[j]
      BY <2>1 DEF Reap
    <3> QED BY <1>1, <3>1, RowEffects DEF Expired, ByPod
  <2>2. CASE Claim(p)
    <3>1. row'[j] = IF j \in Batch THEN StartedRow(row[j], p) ELSE row[j]
      BY <2>2 DEF Claim, Batch
    <3>2. j \in Batch => row[j].status = "queued"
      BY DEF Batch, Oldest
    <3> QED BY <1>1, <3>1, <3>2, RowEffects
  <2>3. CASE Exit(p) \/ Save(p)
    BY <1>1, <2>3 DEF Exit, Save
  <2>4. CASE Succeed(p) \/ Park(p) \/ Fail(p) \/ Beat(p)
    <3> DEFINE r == row[pod[p].job]
    <3>1. pod[p].pc \in Running
      BY <2>4 DEF Succeed, Park, Fail, Beat, Heartbeats, Running
    <3>2. PICK new \in {UpdatedRow(r, "succeeded"), UpdatedRow(r, "waiting_approval"),
                        FailedRow(r), RenewedRow(r)} : EndRun(p, new)
      BY <2>4 DEF Succeed, Park, Fail, Beat
    <3>3. r.status = "running" => ByPod(r, new)
      BY <1>2, <3>1, <3>2, RowEffects DEF ByPod
    <3> QED BY <1>2, <3>1, <3>2, <3>3, EndRunMoves
  <2> QED BY <1>5, <2>1, <2>2, <2>3, <2>4 DEF Work
<1> QED BY <1>1, <1>3, <1>4, <1>5

LEMMA CallersMove ==
    ASSUME TypeInv, ByCaller, NEW j \in Jobs
    PROVE  ByRpc(row[j], row'[j])
<1>1. row \in [Jobs -> Row] /\ \A k \in Jobs : ByRpc(row[k], row[k])
  BY DEF TypeInv, TypeOK, ByRpc, SameRow, SameBudget
<1>2. PICK k \in Jobs : Approve(k) \/ Requeue(k) \/ Cancel(k) \/ Retry(k)
  BY DEF ByCaller
<1>3. PICK new : row' = [row EXCEPT ![k] = new] /\ ByRpc(row[k], new)
  BY <1>1, <1>2, RowEffects, AllowedTargets DEF Approve, Requeue, Cancel, Retry, Call
<1> QED BY <1>1, <1>3

LEMMA MovesKeepBudget ==
    ASSUME NEW r \in Row, NEW s \in Row, BudgetOK(r), r.status # "absent",
           ByPod(r, s) \/ ByRpc(r, s)
    PROVE  BudgetOK(s) /\ s.status # "absent"
<1>1. /\ r.retry_count \in Nat /\ r.max_retries \in Nat
      /\ s.retry_count \in Nat /\ s.max_retries \in Nat
  BY DEF Row
<1> QED BY <1>1 DEF BudgetOK, ByPod, ByRpc, SameRow, SameBudget, RunEnds

LEMMA BudgetStep == BudgetInv /\ [Next]_vars => BudgetInv'
<1> SUFFICES ASSUME BudgetInv, [Next]_vars PROVE BudgetInv'
  OBVIOUS
<1>1. TypeInv /\ TypeInv'
  BY TypeStep DEF BudgetInv
<1>2. ASSUME NEW j \in Jobs PROVE BudgetOK(row'[j]) /\ row'[j].status # "absent"
  <2>1. row[j] \in Row /\ row'[j] \in Row /\ BudgetOK(row[j]) /\ row[j].status # "absent"
    BY <1>1 DEF BudgetInv, TypeInv, TypeOK
  <2>2. CASE UNCHANGED vars
    BY <2>1, <2>2 DEF vars
  <2>3. CASE Next
    BY <1>1, <2>1, <2>3, PodsMove, CallersMove, MovesKeepBudget DEF Next, ByCaller
  <2> QED BY <2>2, <2>3
<1> QED BY <1>1, <1>2 DEF BudgetInv, BudgetOK

\* What a row may become is a step of the lifecycle of its job.
LEMMA MovesAreLifecycle ==
    ASSUME BudgetInv, BudgetInv', NEW j \in Jobs
    PROVE  /\ ByPod(row[j], row'[j]) => WorkerMoves(j) \/ Lifecycle!Keeps(j)
           /\ ByPod(row[j], row'[j]) \/ ByRpc(row[j], row'[j]) =>
                Lifecycle!JobStep(j) \/ Lifecycle!Keeps(j)
<1> DEFINE r == row[j]
           s == row'[j]
           ph == [k \in Jobs |-> row[k].status]
           rl == [k \in Jobs |-> row[k].max_retries - row[k].retry_count]
<1>1. /\ r.retry_count \in Nat /\ r.max_retries \in Nat /\ BudgetOK(r)
      /\ s.retry_count \in Nat /\ s.max_retries \in Nat
  BY DEF BudgetInv, TypeInv, TypeOK, Row
<1>2. /\ ph[j] = r.status /\ ph'[j] = s.status
      /\ rl[j] = r.max_retries - r.retry_count /\ rl'[j] = s.max_retries - s.retry_count
  OBVIOUS
<1>3. SameBudget(r, s) => rl'[j] = rl[j]
  BY <1>2 DEF SameBudget
<1>4. SameRow(r, s) => Lifecycle!Keeps(j)
  BY <1>2, <1>3 DEF SameRow, Lifecycle!Keeps
<1>5. RunEnds(r, s) => Lifecycle!End(j)
  BY <1>1, <1>2, <1>3 DEF RunEnds, Lifecycle!End, Lifecycle!Moves
<1>6. r.status = "queued" /\ s.status = "running" /\ SameBudget(r, s) => Lifecycle!Begin(j)
  BY <1>2, <1>3 DEF Lifecycle!Begin, Lifecycle!Moves
<1>7. ByPod(r, s) => WorkerMoves(j) \/ Lifecycle!Keeps(j)
  BY <1>4, <1>5, <1>6 DEF ByPod, RunEnds, WorkerMoves
<1>8. /\ SameBudget(r, s)
      /\ \/ /\ r.status \in {"failed", "dead", "cancelled", "waiting_approval"}
            /\ s.status = "queued"
         \/ r.status \in {"queued", "waiting_approval"} /\ s.status = "cancelled"
      => Lifecycle!Steer(j)
  BY <1>2, <1>3 DEF Lifecycle!Steer, Lifecycle!Moves
<1>9. SameBudget(r, s) /\ r.status = "running" /\ s.status = "cancelled" => Lifecycle!End(j)
  BY <1>2, <1>3 DEF Lifecycle!End, Lifecycle!Moves
<1>10. /\ r.status = "failed" /\ s.status = "queued"
       /\ s.max_retries = r.max_retries /\ s.retry_count = r.retry_count + 1
       => Lifecycle!Retry(j)
  BY <1>1, <1>2 DEF BudgetOK, Lifecycle!Retry, Lifecycle!Moves
<1>11. ByRpc(r, s) => Lifecycle!JobStep(j) \/ Lifecycle!Keeps(j)
  BY <1>4, <1>8, <1>9, <1>10 DEF ByRpc, Lifecycle!JobStep
<1> QED BY <1>7, <1>11 DEF WorkerMoves, Lifecycle!JobStep

LEMMA LifecycleStep ==
    ASSUME BudgetInv, BudgetInv', Next
    PROVE  /\ Lifecycle!Next
           /\ ByCaller \/ \A j \in Jobs : WorkerMoves(j) \/ Lifecycle!Keeps(j)
<1> DEFINE ph == [k \in Jobs |-> row[k].status]
           rl == [k \in Jobs |-> row[k].max_retries - row[k].retry_count]
<1>1. ph' \in [Jobs -> Lifecycle!Phase] /\ rl' \in [Jobs -> Nat]
  BY DEF BudgetInv, BudgetOK, TypeInv, TypeOK, Row, RowStatus, Status, Lifecycle!Phase
<1>2. TypeInv
  BY DEF BudgetInv
<1>3. \/ ByCaller
      \/ \A j \in Jobs : ByPod(row[j], row'[j])
  BY <1>2, PodsMove DEF Next, ByCaller
<1>4. \A j \in Jobs : ByPod(row[j], row'[j]) \/ ByRpc(row[j], row'[j])
  BY <1>2, <1>3, CallersMove
<1> QED BY <1>1, <1>3, <1>4, MovesAreLifecycle DEF Lifecycle!Next

LEMMA BudgetInit == Init => BudgetInv
<1> SUFFICES ASSUME Init PROVE BudgetInv
  OBVIOUS
<1>1. NewRow(MaxAttempts, MaxRetries).status = "queued"
      /\ BudgetOK(NewRow(MaxAttempts, MaxRetries))
  BY RunnerAssumption DEF NewRow, BudgetOK
<1> QED BY <1>1, TypeInit DEF Init, BudgetInv

\* The workers and their callers together keep the lifecycle of every job, in
\* batches of any size, with any pods, crashes and failing statements; and the
\* workers do no more to a job than agent_execution_service relies on
\* (jobs.py:341-363, poller.py, runner.py).
THEOREM LifecycleKept == Spec => KeepsLifecycle
<1>1. BudgetInv /\ BudgetInv' /\ [Next]_vars =>
        [/\ Lifecycle!Next
         /\ ByCaller \/ \A j \in Jobs : WorkerMoves(j) \/ Lifecycle!Keeps(j)]_vars
  BY LifecycleStep
<1> QED BY <1>1, BudgetInit, BudgetStep, PTL DEF Spec, KeepsLifecycle

-----------------------------------------------------------------------------
(* Batches of one job, of a type that has a runner, without cancellations, and *)
(* a lease that outlasts every renewal that may be missed.                     *)

Slack(d) == HeartbeatTicks * (MaxDbErrors - d)

Calm ==
    /\ BatchSize = 1
    /\ Jobs \cap NoRunner = {}
    /\ "cancel" \notin Calls
    /\ HeartbeatTicks + Slack(0) <= LeaseTicks

\* What a checkpoint is, the table's and a pod's copy of it.
Ordered(g) ==
    \A i \in Step : g.steps[i] # 0 =>
        g.steps[i] = g.plan /\ \A k \in 1 .. i : g.steps[k] # 0
ProgOK(g) ==
    /\ g \in Progress /\ Ordered(g)
    /\ g.pending # 0 => g.pending \in Undone(g)

Extends(g, t) ==
    /\ t.plan # 0 => g.plan = t.plan
    /\ \A i \in Step : t.steps[i] # 0 => g.steps[i] = t.steps[i]

Waiting(g) == Undone(g) # {} /\ g.pending = NextStep(g)

Complete(g) ==
    /\ Undone(g) = {} /\ g.phase = "completed" /\ g.result
    /\ ~ g.error /\ g.pending = 0

\* A pod with state s executes a job whose checkpoint in the table is t.
RunOK(s, t) ==
    /\ s.pc \in Running /\ ProgOK(s.prog)
    /\ s.pc = "save" => Extends(s.prog, t)
    /\ s.pc \in {"plan", "chat", "succeed", "park"} => s.prog = t
    /\ s.pc = "plan" => s.prog.plan = 0
    /\ s.pc = "chat" => Undone(s.prog) # {}
    /\ s.pc = "park" \/ (s.pc = "save" /\ s.after = "park") => Waiting(s.prog)
    /\ s.pc = "succeed" \/ (s.pc = "save" /\ s.after = "succeed") => Complete(s.prog)

\* Its row is p's, and the lease is no older than the missed renewals allow.
OwnsRow(s, p, r, d) ==
    /\ r.status = "running" /\ r.owner = p
    /\ 0 <= r.lease /\ r.lease <= s.beat + Slack(d)
    /\ s.batch = <<>>

PodRuns(p) ==
    Executing(p) => /\ OwnsRow(pod[p], p, row[pod[p].job], budget.dbErrors)
                    /\ RunOK(pod[p], progress[pod[p].job])

RunInv == \A p \in Pods : PodRuns(p)

TableInv ==
    \A j \in Jobs :
        /\ ProgOK(progress[j])
        /\ row[j].status = "waiting_approval" => Waiting(progress[j])
        /\ row[j].status = "succeeded" => Complete(progress[j])

CalmInv == TypeInv /\ RunInv /\ TableInv

LEMMA SlackFacts ==
    ASSUME NEW d \in 0 .. MaxDbErrors
    PROVE  /\ Slack(d) \in Nat /\ \A e \in 0 .. d : Slack(d) <= Slack(e)
           /\ d > 0 => Slack(d - 1) = Slack(d) + HeartbeatTicks
<1>1. MaxDbErrors - d \in Nat /\ MaxDbErrors \in Nat /\ HeartbeatTicks \in Nat
  BY RunnerAssumption
<1>2. ASSUME NEW a \in Nat, NEW b \in Nat, NEW k \in Nat, a <= b
      PROVE  k * a <= k * b /\ k * (a + 1) = k * a + k /\ k * a \in Nat
  BY <1>2
<1> QED BY <1>1, <1>2 DEF Slack

LEMMA UniqueRunner ==
    ASSUME RunInv, NEW p \in Pods, NEW q \in Pods, Executing(p), Executing(q),
           pod[p].job = pod[q].job
    PROVE  p = q
  BY DEF RunInv, PodRuns, OwnsRow

\* The states that the runner's control leads to.
LEMMA ErredRun ==
    ASSUME NEW s \in PodState, NEW t, ProgOK(s.prog), Extends(s.prog, t)
    PROVE  /\ RunOK(Erred(s), t)
           /\ Erred(s).job = s.job /\ Erred(s).batch = s.batch /\ Erred(s).beat = s.beat
<1> DEFINE g == [s.prog EXCEPT !.error = TRUE]
<1>1. /\ g \in Progress /\ g.plan = s.prog.plan /\ g.steps = s.prog.steps
      /\ g.pending = s.prog.pending
  BY DEF PodState, Progress
<1>2. ProgOK(g) /\ Extends(g, t)
  BY <1>1 DEF ProgOK, Ordered, Extends, Undone
<1> HIDE DEF g
<1> QED BY <1>2 DEF Erred, Saving, RunOK, PodState, Running, g

LEMMA FinalizedRun ==
    ASSUME NEW g, ProgOK(g), Undone(g) = {}
    PROVE  /\ ProgOK(Finalized(g)) /\ Complete(Finalized(g)) /\ Extends(Finalized(g), g)
<1> DEFINE f == Finalized(g)
<1>1. /\ f \in Progress /\ f.plan = g.plan /\ f.steps = g.steps /\ f.pending = g.pending
      /\ f.phase = "completed" /\ f.result /\ ~ f.error
  BY DEF Finalized, ProgOK, Progress
<1> HIDE DEF f
<1>2. Undone(f) = {} /\ f.pending = 0
  BY <1>1 DEF ProgOK, Undone
<1>3. ProgOK(f) /\ Complete(f) /\ Extends(f, g)
  BY <1>1, <1>2 DEF ProgOK, Ordered, Complete, Extends
<1> QED BY <1>3 DEF f

LEMMA ResumedRun ==
    ASSUME NEW s \in PodState, ProgOK(s.prog)
    PROVE  /\ RunOK(Resumed(s), s.prog)
           /\ Resumed(s).job = s.job /\ Resumed(s).batch = s.batch
           /\ Resumed(s).beat = s.beat
<1>1. Extends(s.prog, s.prog)
  BY DEF Extends
<1>2. s.prog.plan = 0 => RunOK([s EXCEPT !.pc = "plan"], s.prog)
  BY DEF RunOK, PodState, Running
<1>3. Undone(s.prog) # {} => RunOK([s EXCEPT !.pc = "chat"], s.prog)
  BY DEF RunOK, PodState, Running
<1>4. Undone(s.prog) = {} => RunOK(Saving(s, Finalized(s.prog), "succeed"), s.prog)
  BY FinalizedRun DEF RunOK, PodState, Running, Saving
<1>5. /\ [s EXCEPT !.pc = "plan"].job = s.job /\ [s EXCEPT !.pc = "chat"].job = s.job
      /\ [s EXCEPT !.pc = "plan"].batch = s.batch /\ [s EXCEPT !.pc = "chat"].batch = s.batch
      /\ [s EXCEPT !.pc = "plan"].beat = s.beat /\ [s EXCEPT !.pc = "chat"].beat = s.beat
      /\ Saving(s, Finalized(s.prog), "succeed").job = s.job
      /\ Saving(s, Finalized(s.prog), "succeed").batch = s.batch
      /\ Saving(s, Finalized(s.prog), "succeed").beat = s.beat
  BY DEF PodState, Saving
<1> QED BY <1>1, <1>2, <1>3, <1>4, <1>5, ErredRun DEF Resumed

\* A pod whose own state, job and checkpoint stay goes on as it is.
Stays(q) ==
    /\ pod'[q] = pod[q] \/ (~Executing(q) /\ pod'[q].pc \notin Running)
    /\ Executing(q) => /\ row'[pod[q].job] = row[pod[q].job]
                       /\ progress'[pod[q].job] = progress[pod[q].job]

ErrorsOnlySpent ==
    /\ budget.dbErrors \in 0 .. MaxDbErrors /\ budget'.dbErrors \in 0 .. MaxDbErrors
    /\ budget'.dbErrors <= budget.dbErrors

LEMMA OwnsLonger ==
    ASSUME NEW s, s.beat \in Nat, NEW p, NEW r, r.lease \in Int,
           ErrorsOnlySpent, OwnsRow(s, p, r, budget.dbErrors)
    PROVE  OwnsRow(s, p, r, budget'.dbErrors)
<1>1. Slack(budget.dbErrors) <= Slack(budget'.dbErrors)
      /\ Slack(budget.dbErrors) \in Nat /\ Slack(budget'.dbErrors) \in Nat
  BY SlackFacts DEF ErrorsOnlySpent
<1> QED BY <1>1 DEF OwnsRow

\* The numbers in the invariant are numbers.
LEMMA Numbers ==
    ASSUME TypeInv
    PROVE  /\ \A p \in Pods : pod[p].beat \in 0 .. HeartbeatTicks /\ pod[p].beat \in Nat
           /\ \A j \in Jobs : row[j].lease \in Lease /\ row[j].lease \in Int
           /\ budget.dbErrors \in 0 .. MaxDbErrors
<1>1. ASSUME NEW p \in Pods
      PROVE  pod[p].beat \in 0 .. HeartbeatTicks /\ pod[p].beat \in Nat
  BY RunnerAssumption DEF TypeInv, TypeOK, PodState
<1>2. ASSUME NEW j \in Jobs PROVE row[j].lease \in Lease /\ row[j].lease \in Int
  BY LeaseAssumption DEF TypeInv, TypeOK, Row, Lease, NoLease
<1>3. budget.dbErrors \in 0 .. MaxDbErrors
  BY DEF TypeInv, TypeOK, Budget
<1> QED BY <1>1, <1>2, <1>3

LEMMA Frame ==
    ASSUME TypeInv, NEW q \in Pods, PodRuns(q), Stays(q), ErrorsOnlySpent
    PROVE  PodRuns(q)'
<1>1. CASE ~Executing(q)
  BY <1>1 DEF Stays, PodRuns, Executing
<1>2. CASE Executing(q)
  <2>1. pod[q].job \in Jobs
    BY <1>2 DEF TypeInv, PodOK, Executing
  <2>2. OwnsRow(pod[q], q, row[pod[q].job], budget'.dbErrors)
    BY <1>2, <2>1, Numbers, OwnsLonger DEF PodRuns
  <2> QED BY <1>2, <2>2 DEF Stays, PodRuns, Executing
<1> QED BY <1>1, <1>2

\* A pod goes on with its run: the table is left alone.
LEMMA GoesOn ==
    ASSUME CalmInv, NEW p \in Pods, Executing(p), NEW s,
           RunOK(s, progress[pod[p].job]),
           s.job = pod[p].job /\ s.batch = pod[p].batch /\ s.beat = pod[p].beat,
           pod' = [pod EXCEPT ![p] = s], row' = row, progress' = progress,
           ErrorsOnlySpent
    PROVE  RunInv' /\ TableInv'
<1>1. TableInv'
  BY DEF CalmInv, TableInv
<1>2. ASSUME NEW q \in Pods, q # p PROVE PodRuns(q)'
  BY <1>2, Frame DEF CalmInv, RunInv, TypeInv, TypeOK, Stays
<1>3. PodRuns(p)'
  <2>1. pod[p].job \in Jobs
    BY DEF CalmInv, TypeInv, PodOK, Executing
  <2>2. OwnsRow(pod[p], p, row[pod[p].job], budget'.dbErrors)
    BY <2>1, Numbers, OwnsLonger DEF PodRuns, CalmInv, RunInv
  <2>3. pod'[p] = s
    BY DEF CalmInv, TypeInv, TypeOK
  <2> QED BY <2>2, <2>3 DEF PodRuns, OwnsRow
<1> QED BY <1>1, <1>2, <1>3 DEF RunInv

\* A pod lets go of its job, whose row it may end.
LEMMA LetsGo ==
    ASSUME CalmInv, NEW p \in Pods, NEW s, s.pc \notin Running,
           pod' = [pod EXCEPT ![p] = s], progress' = progress, ErrorsOnlySpent,
           \/ row' = row
           \/ /\ Executing(p)
              /\ \E new : /\ row' = [row EXCEPT ![pod[p].job] = new]
                          /\ new.status = "waiting_approval" => Waiting(progress[pod[p].job])
                          /\ new.status = "succeeded" => Complete(progress[pod[p].job])
    PROVE  RunInv' /\ TableInv'
<1>1. pod'[p] = s
  BY DEF CalmInv, TypeInv, TypeOK
<1>2. TableInv'
  BY DEF CalmInv, TableInv, TypeInv, TypeOK
<1>3. PodRuns(p)'
  BY <1>1 DEF PodRuns, Executing
<1>4. ASSUME NEW q \in Pods, q # p PROVE PodRuns(q)'
  <2>1. pod'[q] = pod[q]
    BY <1>4 DEF CalmInv, TypeInv, TypeOK
  <2>2. Executing(q) /\ Executing(p) => pod[p].job # pod[q].job
    BY <1>4, UniqueRunner DEF CalmInv
  <2>3. Executing(q) => row'[pod[q].job] = row[pod[q].job]
    <3>1. Executing(q) => pod[q].job \in Jobs
      BY DEF CalmInv, TypeInv, PodOK, Executing
    <3>2. row \in [Jobs -> Row]
      BY DEF CalmInv, TypeInv, TypeOK
    <3> QED BY <2>2, <3>1, <3>2
  <2>4. Stays(q)
    BY <2>1, <2>3 DEF Stays
  <2>5. TypeInv /\ PodRuns(q)
    BY DEF CalmInv, RunInv
  <2> QED BY <2>4, <2>5, Frame
<1> QED BY <1>2, <1>3, <1>4 DEF RunInv

\* The rows change, but not those of the jobs that are executed.
LEMMA RowsChange ==
    ASSUME CalmInv, row' \in [Jobs -> Row],
           \A j \in Jobs : \/ row'[j].status = row[j].status
                           \/ row'[j].status \notin {"waiting_approval", "succeeded"},
           \A q \in Pods : Executing(q) => row'[pod[q].job] = row[pod[q].job],
           progress' = progress,
           \A q \in Pods : pod'[q] = pod[q] \/ (~Executing(q) /\ pod'[q].pc \notin Running),
           ErrorsOnlySpent
    PROVE  RunInv' /\ TableInv'
<1>1. TableInv'
  BY DEF CalmInv, TableInv
<1>2. ASSUME NEW q \in Pods PROVE PodRuns(q)'
  BY Frame DEF CalmInv, RunInv, Stays
<1> QED BY <1>1, <1>2 DEF RunInv

LEMMA AnswerKeeps ==
    ASSUME Calm, CalmInv, NEW p \in Pods, Answer(p)
    PROVE  RunInv' /\ TableInv'
<1> DEFINE g == pod[p].prog
           t == progress[pod[p].job]
<1>1. pod[p] \in PodState /\ g \in Progress /\ pod \in [Pods -> PodState]
  BY DEF CalmInv, TypeInv, TypeOK, PodState
<1>2. Executing(p) /\ pod[p].pc \in {"plan", "chat"}
  BY DEF Answer, PlanReply, ChatError, StepReply, StepPause, Executing, Running
<1>3. RunOK(pod[p], t) /\ g = t /\ ProgOK(g)
  BY <1>2 DEF CalmInv, RunInv, PodRuns, RunOK
<1>4. budget.dbErrors \in 0 .. MaxDbErrors
  BY Numbers DEF CalmInv
<1>5. ASSUME NEW s, pod' = [pod EXCEPT ![p] = s], RunOK(s, t),
             s.job = pod[p].job /\ s.batch = pod[p].batch /\ s.beat = pod[p].beat,
             row' = row, progress' = progress, budget' = budget
      PROVE  RunInv' /\ TableInv'
  <2>1. ErrorsOnlySpent
    BY <1>4, <1>5, RunnerAssumption DEF ErrorsOnlySpent
  <2> QED BY <1>2, <1>5, <2>1, GoesOn
<1>6. ASSUME NEW f, NEW then
      PROVE  /\ Saving(pod[p], f, then).job = pod[p].job
             /\ Saving(pod[p], f, then).batch = pod[p].batch
             /\ Saving(pod[p], f, then).beat = pod[p].beat
             /\ Saving(pod[p], f, then).pc = "save"
             /\ Saving(pod[p], f, then).prog = f
             /\ Saving(pod[p], f, then).after = then
  BY <1>1 DEF Saving, PodState
<1> HIDE DEF g, t
<1>7. CASE PlanReply(p)
  <2>1. PICK q \in Plans : pod' = [pod EXCEPT ![p] =
           Saving(pod[p], [g EXCEPT !.plan = q, !.phase = "executing"], "resume")]
    BY <1>1, <1>7 DEF PlanReply, g
  <2> DEFINE f == [g EXCEPT !.plan = q, !.phase = "executing"]
  <2>2. f \in Progress /\ f.plan = q /\ f.steps = g.steps /\ f.pending = g.pending
    BY <1>1 DEF Progress
  <2>3. g.plan = 0
    BY <1>3, <1>7 DEF PlanReply, RunOK, g
  <2>4. \A i \in Step : g.steps[i] = 0
    BY <1>3, <2>3 DEF ProgOK, Ordered
  <2> HIDE DEF f
  <2>5. ProgOK(f) /\ Extends(f, t)
    BY <1>3, <2>2, <2>3, <2>4 DEF ProgOK, Ordered, Extends, Undone
  <2>6. RunOK(Saving(pod[p], f, "resume"), t)
    BY <1>6, <2>5 DEF RunOK, Running
  <2>7. row' = row /\ progress' = progress /\ budget' = budget
    BY <1>7 DEF PlanReply
  <2>8. pod' = [pod EXCEPT ![p] = Saving(pod[p], f, "resume")]
    BY <2>1 DEF f
  <2>9. /\ Saving(pod[p], f, "resume").job = pod[p].job
        /\ Saving(pod[p], f, "resume").batch = pod[p].batch
        /\ Saving(pod[p], f, "resume").beat = pod[p].beat
    BY <1>6
  <2> QED BY <1>5, <2>6, <2>7, <2>8, <2>9
<1>8. CASE ChatError(p)
  <2>1. pod' = [pod EXCEPT ![p] = Erred(pod[p])] /\ budget'.dbErrors = budget.dbErrors
    BY <1>1, <1>8, SpendTypes DEF ChatError, CalmInv, TypeInv, TypeOK
  <2>2. Extends(g, t)
    BY <1>3 DEF Extends
  <2>3. row' = row /\ progress' = progress
    BY <1>8 DEF ChatError
  <2>4. ErrorsOnlySpent
    BY <1>4, <2>1, RunnerAssumption DEF ErrorsOnlySpent
  <2>5. /\ RunOK(Erred(pod[p]), t)
        /\ Erred(pod[p]).job = pod[p].job /\ Erred(pod[p]).batch = pod[p].batch
        /\ Erred(pod[p]).beat = pod[p].beat
    BY <1>1, <1>3, <2>2, ErredRun DEF g
  <2> QED BY <1>2, <2>1, <2>3, <2>4, <2>5, GoesOn DEF t
<1>9. CASE StepReply(p) \/ StepPause(p)
  <2> DEFINE i == NextStep(g)
  <2>1. /\ pod[p].pc = "chat" /\ Undone(g) # {} /\ i \in Undone(g) /\ i \in Step
        /\ \A k \in Undone(g) : i <= k
    BY <1>3, <1>9, NextStepIsFirst DEF StepReply, StepPause, RunOK, g
  <2>2. CASE StepReply(p)
    <3> DEFINE f == [g EXCEPT !.pending = 0, !.steps[i] = g.plan]
    <3>1. pod' = [pod EXCEPT ![p] = Saving(pod[p], f, "resume")]
      BY <1>1, <2>2 DEF StepReply, g
    <3> HIDE DEF i
    <3>2. /\ f \in Progress /\ f.plan = g.plan /\ f.pending = 0
          /\ f.steps = [g.steps EXCEPT ![i] = g.plan]
      BY <1>1, <2>1 DEF Progress
    <3> HIDE DEF f
    <3>3. \A k \in Step : k < i => g.steps[k] # 0
      BY <2>1, RunnerAssumption DEF Undone, Step
    <3>4. \A k \in Step : f.steps[k] = IF k = i THEN g.plan ELSE g.steps[k]
      BY <1>1, <3>2 DEF Progress
    <3>5. Ordered(f)
      <4>1. ASSUME NEW k \in Step, f.steps[k] # 0 PROVE f.steps[k] = f.plan
        BY <1>3, <3>2, <3>4, <4>1 DEF ProgOK, Ordered
      <4>2. ASSUME NEW k \in Step, f.steps[k] # 0, NEW m \in 1 .. k PROVE f.steps[m] # 0
        <5>1. m \in Step /\ m <= k /\ i \in Nat /\ k \in Nat /\ m \in Nat
          BY <2>1, RunnerAssumption DEF Step
        <5>2. CASE k = i
          BY <3>3, <3>4, <4>2, <5>1, <5>2
        <5>3. CASE k # i
          <6>1. g.steps[k] # 0 /\ g.steps[m] # 0
            BY <1>3, <3>4, <4>2, <5>3 DEF ProgOK, Ordered
          <6>2. m # i
            BY <2>1, <6>1 DEF Undone
          <6> QED BY <3>4, <5>1, <6>1, <6>2
        <5> QED BY <5>2, <5>3
      <4> QED BY <4>1, <4>2 DEF Ordered
    <3>6. ProgOK(f) /\ Extends(f, t)
      BY <1>3, <2>1, <3>2, <3>4, <3>5 DEF ProgOK, Extends, Undone
    <3>7. RunOK(Saving(pod[p], f, "resume"), t)
      BY <1>6, <3>6 DEF RunOK, Running
    <3>8. row' = row /\ progress' = progress /\ budget' = budget
      BY <2>2 DEF StepReply
    <3>9. /\ Saving(pod[p], f, "resume").job = pod[p].job
          /\ Saving(pod[p], f, "resume").batch = pod[p].batch
          /\ Saving(pod[p], f, "resume").beat = pod[p].beat
      BY <1>6
    <3> QED BY <1>5, <3>1, <3>7, <3>8, <3>9
  <2>3. CASE StepPause(p)
    <3> DEFINE f == [g EXCEPT !.pending = i]
    <3>1. pod' = [pod EXCEPT ![p] = Saving(pod[p], f, "park")]
      BY <1>1, <2>3 DEF StepPause, g
    <3>2. NextStep(f) = i /\ Undone(f) = Undone(g)
      BY <1>1 DEF NextStep, Undone, Progress
    <3> HIDE DEF i
    <3>3. /\ f \in Progress /\ f.plan = g.plan /\ f.pending = i /\ f.steps = g.steps
      BY <1>1, <2>1 DEF Progress
    <3> HIDE DEF f
    <3>4. ProgOK(f) /\ Extends(f, t) /\ Waiting(f)
      BY <1>3, <2>1, <3>2, <3>3 DEF ProgOK, Ordered, Extends, Waiting
    <3>5. RunOK(Saving(pod[p], f, "park"), t)
      BY <1>6, <3>4 DEF RunOK, Running
    <3>6. row' = row /\ progress' = progress /\ budget' = budget
      BY <2>3 DEF StepPause
    <3>7. /\ Saving(pod[p], f, "park").job = pod[p].job
          /\ Saving(pod[p], f, "park").batch = pod[p].batch
          /\ Saving(pod[p], f, "park").beat = pod[p].beat
      BY <1>6
    <3> QED BY <1>5, <3>1, <3>5, <3>6, <3>7
  <2> QED BY <1>9, <2>2, <2>3
<1> QED BY <1>7, <1>8, <1>9 DEF Answer

\* The reaper never finds the job of a pod that executes it.
LEMMA NotExpired ==
    ASSUME Calm, CalmInv, NEW q \in Pods, Executing(q)
    PROVE  /\ pod[q].job \in Jobs
           /\ row[pod[q].job].status = "running" /\ row[pod[q].job].owner = q
           /\ row[pod[q].job].lease \in 0 .. LeaseTicks
           /\ row[pod[q].job].lease <= pod[q].beat + Slack(budget.dbErrors)
           /\ pod[q].batch = <<>>
<1>1. pod[q].job \in Jobs
  BY DEF CalmInv, TypeInv, PodOK, Executing
<1>2. OwnsRow(pod[q], q, row[pod[q].job], budget.dbErrors)
  BY DEF CalmInv, RunInv, PodRuns
<1>3. /\ Slack(budget.dbErrors) \in Nat /\ Slack(0) \in Nat
      /\ Slack(budget.dbErrors) <= Slack(0)
  BY Numbers, SlackFacts, RunnerAssumption DEF CalmInv
<1>4. pod[q].beat \in 0 .. HeartbeatTicks /\ row[pod[q].job].lease \in Int
  BY <1>1, Numbers DEF CalmInv
<1>5. HeartbeatTicks \in Nat /\ LeaseTicks \in Nat
  BY RunnerAssumption, LeaseAssumption
<1> QED BY <1>1, <1>2, <1>3, <1>4, <1>5 DEF OwnsRow, Calm

LEMMA FailedStatus ==
    ASSUME NEW r \in Row
    PROVE  FailedRow(r).status \in {"queued", "failed", "dead"}
  BY ReleasedType DEF FailedRow, NextStatusAfterFailure, Row

LEMMA ReapKeeps ==
    ASSUME Calm, CalmInv, NEW p \in Pods, Reap(p)
    PROVE  RunInv' /\ TableInv'
<1>1. row' \in [Jobs -> Row]
  BY RowTypes DEF Reap, CalmInv, TypeInv, TypeOK
<1>2. ASSUME NEW j \in Jobs
      PROVE  \/ row'[j].status = row[j].status
             \/ row'[j].status \notin {"waiting_approval", "succeeded"}
  BY FailedStatus DEF Reap, CalmInv, TypeInv, TypeOK
<1>3. ASSUME NEW q \in Pods, Executing(q)
      PROVE  row'[pod[q].job] = row[pod[q].job]
  <2>1. ~ Expired(row[pod[q].job])
    BY <1>3, NotExpired, LeaseAssumption DEF Expired
  <2> QED BY <1>3, <2>1, NotExpired DEF Reap
<1>4. ASSUME NEW q \in Pods
      PROVE  pod'[q] = pod[q] \/ (~Executing(q) /\ pod'[q].pc \notin Running)
  BY DEF Reap, CalmInv, TypeInv, TypeOK, PodState, Executing, Running
<1>5. progress' = progress /\ ErrorsOnlySpent
  BY Numbers, RunnerAssumption DEF Reap, ErrorsOnlySpent, CalmInv
<1> QED BY <1>1, <1>2, <1>3, <1>4, <1>5, RowsChange

LEMMA OneClaimed ==
    ASSUME Calm, TypeInv
    PROVE  \/ Batch = {}
           \/ \E j \in Jobs : Batch = {j} /\ row[j].status = "queued"
<1> DEFINE S == {j \in Jobs : row[j].status = "queued"}
<1>1. Batch \subseteq S /\ S \subseteq Jobs /\ Jobs \subseteq Nat
  BY RunnerAssumption DEF Batch, Oldest
<1>2. ASSUME NEW a \in Batch, NEW b \in Batch, a < b PROVE FALSE
  <2> DEFINE Below == {k \in S : k < b}
  <2>1. Cardinality(Below) < 1
    BY DEF Batch, Oldest, Calm
  <2>2. IsFiniteSet(Below)
    BY RunnerAssumption, FS_Subset
  <2>3. a \in Below
    BY <1>1, <1>2
  <2> HIDE DEF Below
  <2>4. Cardinality(Below) \in Nat
    BY <2>2, FS_CardinalityType
  <2>5. Cardinality(Below) = 0
    BY <2>1, <2>4
  <2> QED BY <2>2, <2>3, <2>5, FS_EmptySet
<1>3. ASSUME NEW a \in Batch, NEW b \in Batch PROVE a = b
  <2>1. a \in Nat /\ b \in Nat
    BY <1>1
  <2> QED BY <1>2, <2>1
<1>4. CASE Batch # {}
  <2>1. PICK j \in Batch : TRUE
    BY <1>4
  <2>2. Batch = {j}
    BY <1>3
  <2> QED BY <1>1, <2>1, <2>2
<1> QED BY <1>4

\* A claim finds nothing, or one queued job, which it starts and resumes.
ClaimedState(j) == [Idle EXCEPT !.batch = <<>>, !.job = j, !.prog = progress[j]]

LEMMA ClaimedStateOK ==
    ASSUME CalmInv, NEW j \in Jobs
    PROVE  LET s == ClaimedState(j)
           IN  s \in PodState /\ s.job = j /\ s.batch = <<>> /\ s.beat = 0 /\ s.prog = progress[j]
  BY IdleOK DEF ClaimedState, Idle, PodOK, PodState, CalmInv, TypeInv, TypeOK

LEMMA ClaimOutcome ==
    ASSUME Calm, CalmInv, NEW p \in Pods, Claim(p)
    PROVE  \/ row' = row /\ pod' = [pod EXCEPT ![p] = Idle]
           \/ \E j \in Jobs : /\ row[j].status = "queued"
                              /\ row' = [row EXCEPT ![j] = StartedRow(row[j], p)]
                              /\ pod' = [pod EXCEPT ![p] = Resumed(ClaimedState(j))]
<1>1. PICK order \in Orders(Batch) : pod' = [pod EXCEPT ![p] = Dispatched(Claimed(order))]
  BY DEF Claim, Batch, Claimed
<1>2. row' = [j \in Jobs |-> IF j \in Batch THEN StartedRow(row[j], p) ELSE row[j]]
  BY DEF Claim, Batch
<1>3. order \in [1 .. Cardinality(Batch) -> Batch]
  BY DEF Orders
<1>4. row \in [Jobs -> Row]
  BY DEF CalmInv, TypeInv, TypeOK
<1> HIDE DEF Batch
<1>5. CASE Batch = {}
  <2>1. 1 .. Cardinality(Batch) = {}
    BY <1>5, FS_EmptySet
  <2>2. Claimed(order) = <<>>
    <3>1. Claimed(order) \in Seq(Item)
      BY ClaimedTypes DEF CalmInv
    <3>2. DOMAIN Claimed(order) = {}
      BY <1>3, <2>1 DEF Claimed
    <3> QED BY <3>1, <3>2, LenProperties, EmptySeq
  <2>3. Dispatched(Claimed(order)) = Idle
    BY <2>2 DEF Dispatched
  <2>4. row' = row
    BY <1>2, <1>4, <1>5
  <2> QED BY <1>1, <2>3, <2>4
<1>6. ASSUME NEW j \in Jobs, Batch = {j}, row[j].status = "queued"
      PROVE  /\ row' = [row EXCEPT ![j] = StartedRow(row[j], p)]
             /\ pod' = [pod EXCEPT ![p] = Resumed(ClaimedState(j))]
  <2>1. 1 .. Cardinality(Batch) = {1} /\ order[1] = j
    <3>1. Cardinality(Batch) = 1
      BY <1>6, FS_Singleton
    <3>2. 1 .. Cardinality(Batch) = {1}
      BY <3>1
    <3> QED BY <1>3, <1>6, <3>2
  <2>2. Claimed(order) = <<[job |-> j, prog |-> progress[j]]>>
    BY <1>3, <2>1 DEF Claimed
  <2>3. Dispatched(Claimed(order)) = Resumed(ClaimedState(j))
    <3> DEFINE s == ClaimedState(j)
    <3>1. Claimed(order) # <<>> /\ Tail(Claimed(order)) = <<>>
          /\ Head(Claimed(order)) = [job |-> j, prog |-> progress[j]]
      BY <2>2
    <3>2. s.job = j /\ j \notin NoRunner
      BY DEF Calm, Idle, ClaimedState
    <3>3. Head(Claimed(order)).job = j /\ Head(Claimed(order)).prog = progress[j]
      BY <3>1
    <3>4. s = [Idle EXCEPT !.batch = Tail(Claimed(order)), !.job = Head(Claimed(order)).job,
                           !.prog = Head(Claimed(order)).prog]
      BY <3>1, <3>3 DEF ClaimedState
    <3> HIDE DEF s
    <3>5. Dispatched(Claimed(order)) = Resumed(s)
      BY <3>1, <3>2, <3>4 DEF Dispatched
    <3> QED BY <3>5 DEF s
  <2>4. row' = [row EXCEPT ![j] = StartedRow(row[j], p)]
    BY <1>2, <1>4, <1>6
  <2> QED BY <1>1, <2>3, <2>4
<1>7. TypeInv
  BY DEF CalmInv
<1> QED BY <1>5, <1>6, <1>7, OneClaimed

LEMMA ClaimKeeps ==
    ASSUME Calm, CalmInv, NEW p \in Pods, Claim(p)
    PROVE  RunInv' /\ TableInv'
<1>1. progress' = progress /\ budget' = budget /\ ErrorsOnlySpent
  BY Numbers, RunnerAssumption DEF Claim, ErrorsOnlySpent, CalmInv
<1>2. row \in [Jobs -> Row] /\ pod \in [Pods -> PodState]
  BY DEF CalmInv, TypeInv, TypeOK
<1>3. CASE row' = row /\ pod' = [pod EXCEPT ![p] = Idle]
  <2>1. Idle.pc \notin Running
    BY IdleOK DEF Running
  <2> QED BY <1>1, <1>3, <2>1, LetsGo
<1>4. ASSUME NEW j \in Jobs, row[j].status = "queued",
             row' = [row EXCEPT ![j] = StartedRow(row[j], p)],
             pod' = [pod EXCEPT ![p] = Resumed(ClaimedState(j))]
      PROVE  RunInv' /\ TableInv'
  <2> DEFINE s == ClaimedState(j)
             n == Resumed(s)
  <2>1. s \in PodState /\ s.job = j /\ s.batch = <<>> /\ s.beat = 0 /\ s.prog = progress[j]
    BY ClaimedStateOK
  <2>2. ProgOK(progress[j])
    BY DEF CalmInv, TableInv
  <2>3. pod' = [pod EXCEPT ![p] = n]
    BY <1>4
  <2> HIDE DEF s
  <2>4. RunOK(n, progress[j]) /\ n.job = j /\ n.batch = <<>> /\ n.beat = 0
    BY <2>1, <2>2, ResumedRun
  <2> HIDE DEF n
  <2>5. pod'[p] = n /\ \A q \in Pods : q # p => pod'[q] = pod[q]
    BY <1>2, <2>3
  <2>6. /\ row'[j] = StartedRow(row[j], p)
        /\ \A k \in Jobs : k # j => row'[k] = row[k]
    BY <1>2, <1>4
  <2>7. row'[j].status = "running" /\ row'[j].owner = p /\ row'[j].lease = 0
    BY <1>2, <2>6 DEF StartedRow, Row
  <2>8. TableInv'
    BY <1>1, <2>6, <2>7 DEF CalmInv, TableInv
  <2>9. PodRuns(p)'
    <3>1. Slack(budget'.dbErrors) \in Nat
      BY <1>1, SlackFacts DEF ErrorsOnlySpent
    <3>2. OwnsRow(n, p, row'[j], budget'.dbErrors)
      BY <2>4, <2>7, <3>1 DEF OwnsRow
    <3> QED BY <1>1, <2>4, <2>5, <3>2 DEF PodRuns
  <2>10. ASSUME NEW q \in Pods, q # p PROVE PodRuns(q)'
    <3>1. Executing(q) => pod[q].job \in Jobs /\ pod[q].job # j
      BY <1>4, NotExpired
    <3>2. Stays(q)
      BY <1>1, <2>5, <2>6, <2>10, <3>1 DEF Stays
    <3>3. TypeInv /\ PodRuns(q)
      BY DEF CalmInv, RunInv
    <3> QED BY <1>1, <3>2, <3>3, Frame
  <2> QED BY <2>8, <2>9, <2>10 DEF RunInv
<1> QED BY <1>3, <1>4, ClaimOutcome

LEMMA SaveKeeps ==
    ASSUME Calm, CalmInv, NEW p \in Pods, Save(p)
    PROVE  RunInv' /\ TableInv'
<1> DEFINE s == pod[p]
           j == pod[p].job
           n == AfterSave(pod[p])
<1>1. s \in PodState /\ j \in Jobs /\ Executing(p) /\ s.pc = "save"
  BY DEF Save, CalmInv, TypeInv, TypeOK, PodOK, Executing, Running
<1>2. OwnsRow(s, p, row[j], budget.dbErrors) /\ RunOK(s, progress[j])
  BY <1>1 DEF CalmInv, RunInv, PodRuns
<1>3. ProgOK(s.prog) /\ s.after \in {"resume", "park", "succeed", "fail"}
  BY <1>1, <1>2 DEF RunOK, PodState
<1>4. pod \in [Pods -> PodState] /\ progress \in [Jobs -> Progress]
  BY DEF CalmInv, TypeInv, TypeOK
<1>5. row' = row /\ budget' = budget /\ ErrorsOnlySpent
  BY Numbers, RunnerAssumption DEF Save, ErrorsOnlySpent, CalmInv
<1>6. /\ pod'[p] = n /\ \A q \in Pods : q # p => pod'[q] = pod[q]
      /\ progress'[j] = s.prog /\ \A k \in Jobs : k # j => progress'[k] = progress[k]
  BY <1>1, <1>4 DEF Save
<1>7. RunOK(n, s.prog) /\ n.job = j /\ n.batch = s.batch /\ n.beat = s.beat
  <2>1. CASE s.after = "resume"
    BY <1>1, <1>3, <2>1, ResumedRun DEF AfterSave
  <2>2. CASE s.after # "resume"
    <3>1. n = [s EXCEPT !.pc = s.after]
      BY <2>2 DEF AfterSave
    <3>2. n.pc = s.after /\ n.prog = s.prog
      BY <1>1, <3>1 DEF PodState
    <3>3. n.job = j /\ n.batch = s.batch /\ n.beat = s.beat
      BY <1>1, <3>1 DEF PodState
    <3>4. RunOK(n, s.prog)
      BY <1>1, <1>2, <1>3, <2>2, <3>2 DEF RunOK, Running
    <3> QED BY <3>3, <3>4
  <2> QED BY <2>1, <2>2
<1> HIDE DEF s, n, j
<1>8. TableInv'
  <2>1. row[j].status = "running"
    BY <1>2 DEF OwnsRow
  <2> QED BY <1>3, <1>5, <1>6, <2>1 DEF CalmInv, TableInv
<1>9. PodRuns(p)'
  <2>1. OwnsRow(n, p, row[j], budget.dbErrors)
    BY <1>2, <1>7 DEF OwnsRow
  <2> QED BY <1>5, <1>6, <1>7, <2>1 DEF PodRuns
<1>10. ASSUME NEW q \in Pods, q # p PROVE PodRuns(q)'
  <2>1. Executing(q) => pod[q].job \in Jobs /\ pod[q].job # j
    BY <1>1, <1>10, NotExpired, UniqueRunner DEF CalmInv, j
  <2>2. Stays(q)
    BY <1>5, <1>6, <1>10, <2>1 DEF Stays
  <2>3. TypeInv /\ PodRuns(q)
    BY DEF CalmInv, RunInv
  <2> QED BY <1>5, <2>2, <2>3, Frame
<1> QED BY <1>8, <1>9, <1>10 DEF RunInv

\* With nothing else claimed a pod that is done with its job waits.
LEMMA EmptyBatch ==
    ASSUME Calm, CalmInv, NEW p \in Pods, Executing(p)
    PROVE  Dispatched(pod[p].batch) = Idle
  BY NotExpired DEF Dispatched

LEMMA EndKeeps ==
    ASSUME Calm, CalmInv, NEW p \in Pods, Succeed(p) \/ Park(p) \/ Fail(p)
    PROVE  RunInv' /\ TableInv'
<1> DEFINE j == pod[p].job
<1>1. Executing(p) /\ j \in Jobs /\ row[j].status = "running"
  BY NotExpired DEF Succeed, Park, Fail, Executing, Running
<1>2. RunOK(pod[p], progress[j])
  BY <1>1 DEF CalmInv, RunInv, PodRuns
<1>3. row \in [Jobs -> Row] /\ row[j] \in Row /\ pod \in [Pods -> PodState]
  BY <1>1 DEF CalmInv, TypeInv, TypeOK
<1>4. progress' = progress /\ budget' = budget /\ ErrorsOnlySpent
  BY Numbers, RunnerAssumption DEF Succeed, Park, Fail, ErrorsOnlySpent, CalmInv
<1>5. pod' = [pod EXCEPT ![p] = Idle] /\ Idle.pc \notin Running
  BY <1>1, <1>3, EmptyBatch, IdleOK DEF Succeed, Park, Fail, Running
<1>6. CASE Succeed(p)
  <2> DEFINE new == UpdatedRow(row[j], "succeeded")
  <2>1. row' = [row EXCEPT ![j] = new]
    BY <1>1, <1>6 DEF Succeed, EndRun
  <2>2. new.status = "succeeded"
    BY <1>3 DEF UpdatedRow, Row
  <2>3. Complete(progress[j])
    BY <1>2, <1>6 DEF Succeed, RunOK
  <2> HIDE DEF new
  <2> QED BY <1>1, <1>4, <1>5, <2>1, <2>2, <2>3, LetsGo
<1>7. CASE Park(p)
  <2> DEFINE new == UpdatedRow(row[j], "waiting_approval")
  <2>1. row' = [row EXCEPT ![j] = new]
    BY <1>1, <1>7 DEF Park, EndRun
  <2>2. new.status = "waiting_approval"
    BY <1>3, ReleasedType DEF UpdatedRow, Row
  <2>3. Waiting(progress[j])
    BY <1>2, <1>7 DEF Park, RunOK
  <2> HIDE DEF new
  <2> QED BY <1>1, <1>4, <1>5, <2>1, <2>2, <2>3, LetsGo
<1>8. CASE Fail(p)
  <2> DEFINE new == FailedRow(row[j])
  <2>1. row' = [row EXCEPT ![j] = new]
    BY <1>1, <1>8 DEF Fail, EndRun
  <2>2. new.status \notin {"waiting_approval", "succeeded"}
    BY <1>3, FailedStatus
  <2> HIDE DEF new
  <2> QED BY <1>1, <1>4, <1>5, <2>1, <2>2, LetsGo
<1> QED BY <1>6, <1>7, <1>8

LEMMA StopsKeep ==
    ASSUME Calm, CalmInv, NEW p \in Pods, Exit(p) \/ Crash(p)
    PROVE  RunInv' /\ TableInv'
<1>1. \E s : s.pc \notin Running /\ pod' = [pod EXCEPT ![p] = s]
  <2>1. CASE Exit(p)
    <3>1. pod' = [pod EXCEPT ![p] = [pod[p] EXCEPT !.pc = "stopped"]]
      BY <2>1 DEF Exit
    <3>2. [pod[p] EXCEPT !.pc = "stopped"].pc \notin Running
      BY DEF CalmInv, TypeInv, TypeOK, PodState, Running
    <3> QED BY <3>1, <3>2
  <2>2. CASE Crash(p)
    BY <2>2, IdleOK DEF Crash, Running
  <2> QED BY <2>1, <2>2
<1>2. row' = row /\ progress' = progress
  BY DEF Exit, Crash
<1>3. budget'.dbErrors = budget.dbErrors
  BY SpendTypes DEF Exit, Crash, CalmInv, TypeInv, TypeOK
<1>4. ErrorsOnlySpent
  BY <1>3, Numbers, RunnerAssumption DEF ErrorsOnlySpent, CalmInv
<1> QED BY <1>1, <1>2, <1>4, LetsGo

\* What a failed statement costs.
LEMMA ErrorSpent ==
    ASSUME TypeInv, Spend("dbErrors")
    PROVE  /\ ErrorsOnlySpent /\ budget'.dbErrors = budget.dbErrors - 1
           /\ budget.dbErrors > 0
<1>1. /\ budget' \in Budget /\ budget'.dbErrors = budget.dbErrors - 1
      /\ budget.dbErrors > 0
  BY SpendTypes DEF TypeInv, TypeOK
<1>2. budget.dbErrors \in 0 .. MaxDbErrors /\ budget'.dbErrors \in 0 .. MaxDbErrors
  BY <1>1 DEF TypeInv, TypeOK, Budget
<1> QED BY <1>1, <1>2, RunnerAssumption DEF ErrorsOnlySpent

LEMMA DbErrorKeeps ==
    ASSUME Calm, CalmInv, NEW p \in Pods, DbError(p)
    PROVE  RunInv' /\ TableInv'
<1> DEFINE s == pod[p]
           t == progress[pod[p].job]
<1>1. s \in PodState /\ pod \in [Pods -> PodState]
  BY DEF CalmInv, TypeInv, TypeOK
<1>2. row' = row /\ progress' = progress /\ ErrorsOnlySpent
  BY ErrorSpent DEF DbError, CalmInv
<1>3. s.pc \in {"save", "succeed", "park", "fail"} =>
         Executing(p) /\ RunOK(s, t) /\ Dispatched(s.batch) = Idle
  BY EmptyBatch DEF Executing, Running, CalmInv, RunInv, PodRuns
<1>4. Idle.pc \notin Running
  BY IdleOK DEF Running
<1>5. CASE s.pc = "reaped" \/ s.pc \in {"park", "fail"}
  <2>1. pod' = [pod EXCEPT ![p] = Idle]
    BY <1>3, <1>5 DEF DbError
  <2> QED BY <1>2, <1>4, <2>1, LetsGo
<1>6. CASE s.pc = "save" /\ s.after = "fail"
  <2> DEFINE n == [s EXCEPT !.pc = "fail"]
  <2>1. pod' = [pod EXCEPT ![p] = n]
    BY <1>6 DEF DbError
  <2>2. n.job = s.job /\ n.batch = s.batch /\ n.beat = s.beat /\ n.pc = "fail" /\ n.prog = s.prog
    BY <1>1 DEF PodState
  <2> HIDE DEF n
  <2>3. RunOK(n, t)
    BY <1>3, <1>6, <2>2 DEF RunOK, Running
  <2> QED BY <1>2, <1>3, <1>6, <2>1, <2>2, <2>3, GoesOn
<1>7. CASE s.pc = "succeed" \/ (s.pc = "save" /\ s.after # "fail")
  <2>1. pod' = [pod EXCEPT ![p] = Erred(s)]
    BY <1>7 DEF DbError
  <2>2. ProgOK(s.prog) /\ Extends(s.prog, t)
    BY <1>3, <1>7 DEF RunOK, Extends
  <2>3. /\ RunOK(Erred(s), t)
        /\ Erred(s).job = s.job /\ Erred(s).batch = s.batch /\ Erred(s).beat = s.beat
    BY <1>1, <2>2, ErredRun
  <2> QED BY <1>2, <1>3, <1>7, <2>1, <2>3, GoesOn
<1> QED BY <1>5, <1>6, <1>7 DEF DbError

\* A heartbeat: renewed, or skipped at the cost of one failed statement.
LEMMA BeatKeeps ==
    ASSUME Calm, CalmInv, NEW p \in Pods, Beat(p) \/ MissedBeat(p)
    PROVE  RunInv' /\ TableInv'
<1> DEFINE s == pod[p]
           n == [s EXCEPT !.beat = 0]
           j == pod[p].job
<1>1. Executing(p) /\ s.beat = HeartbeatTicks /\ pod' = [pod EXCEPT ![p] = n]
  BY DEF Beat, MissedBeat, Heartbeats, Executing
<1>2. /\ s \in PodState /\ pod \in [Pods -> PodState]
      /\ j \in Jobs /\ row \in [Jobs -> Row] /\ row[j] \in Row
  BY <1>1, NotExpired DEF CalmInv, TypeInv, TypeOK
<1>3. OwnsRow(s, p, row[j], budget.dbErrors) /\ RunOK(s, progress[j])
  BY <1>1 DEF CalmInv, RunInv, PodRuns
<1>4. /\ n.pc = s.pc /\ n.batch = s.batch /\ n.job = j /\ n.prog = s.prog
      /\ n.after = s.after /\ n.beat = 0
  BY <1>2 DEF PodState
<1>5. /\ pod'[p] = n /\ \A q \in Pods : q # p => pod'[q] = pod[q]
      /\ progress' = progress
  BY <1>1, <1>2 DEF Beat, MissedBeat
<1> HIDE DEF n
<1>6. RunOK(n, progress[j])
  BY <1>3, <1>4 DEF RunOK
<1>7. /\ ErrorsOnlySpent /\ OwnsRow(n, p, row'[j], budget'.dbErrors)
      /\ row'[j].status = row[j].status
      /\ \A k \in Jobs : k # j => row'[k] = row[k]
  <2>1. CASE Beat(p)
    <3>1. row' = [row EXCEPT ![j] = RenewedRow(row[j])]
      BY <1>3, <2>1 DEF Beat, EndRun, OwnsRow
    <3>2. /\ RenewedRow(row[j]).status = row[j].status
          /\ RenewedRow(row[j]).owner = row[j].owner /\ RenewedRow(row[j]).lease = 0
      BY <1>2 DEF RenewedRow, Row
    <3>3. ErrorsOnlySpent /\ budget' = budget
      BY <2>1, Numbers, RunnerAssumption DEF Beat, ErrorsOnlySpent, CalmInv
    <3>4. Slack(budget.dbErrors) \in Nat
      BY <3>3, SlackFacts DEF ErrorsOnlySpent
    <3> QED BY <1>2, <1>3, <1>4, <3>1, <3>2, <3>3, <3>4 DEF OwnsRow
  <2>2. CASE MissedBeat(p)
    <3>1. /\ ErrorsOnlySpent /\ budget'.dbErrors = budget.dbErrors - 1
          /\ budget.dbErrors > 0 /\ row' = row
      BY <2>2, ErrorSpent DEF MissedBeat, CalmInv
    <3>2. /\ Slack(budget'.dbErrors) = Slack(budget.dbErrors) + HeartbeatTicks
          /\ Slack(budget.dbErrors) \in Nat
      BY <3>1, SlackFacts DEF ErrorsOnlySpent
    <3>3. row[j].lease \in Int /\ HeartbeatTicks \in Nat
      BY <1>2, Numbers, RunnerAssumption DEF CalmInv
    <3> QED BY <1>1, <1>3, <1>4, <3>1, <3>2, <3>3 DEF OwnsRow
  <2> QED BY <2>1, <2>2
<1>8. TableInv'
  BY <1>2, <1>5, <1>7 DEF CalmInv, TableInv
<1>9. PodRuns(p)'
  BY <1>4, <1>5, <1>6, <1>7 DEF PodRuns
<1>10. ASSUME NEW q \in Pods, q # p PROVE PodRuns(q)'
  <2>1. Executing(q) => pod[q].job \in Jobs /\ pod[q].job # j
    BY <1>1, <1>10, NotExpired, UniqueRunner DEF CalmInv
  <2>2. Stays(q)
    BY <1>5, <1>7, <1>10, <2>1 DEF Stays
  <2>3. TypeInv /\ PodRuns(q)
    BY DEF CalmInv, RunInv
  <2> QED BY <1>7, <2>2, <2>3, Frame
<1> QED BY <1>8, <1>9, <1>10 DEF RunInv

LEMMA TickKeeps ==
    ASSUME Calm, CalmInv, Tick
    PROVE  RunInv' /\ TableInv'
<1>1. progress' = progress /\ budget' = budget
  BY DEF Tick
<1>2. ASSUME NEW j \in Jobs
      PROVE  /\ row'[j] = AgedRow(row[j])
             /\ row'[j].status = row[j].status /\ row'[j].owner = row[j].owner
             /\ row[j].lease >= 0 => 0 <= row'[j].lease /\ row'[j].lease <= row[j].lease + 1
  <2>1. row[j] \in Row /\ row'[j] = AgedRow(row[j])
    BY DEF Tick, CalmInv, TypeInv, TypeOK
  <2>2. row[j].lease \in Int /\ LeaseTicks \in Nat
    BY Numbers, LeaseAssumption DEF CalmInv
  <2>3. /\ AgedRow(row[j]).status = row[j].status /\ AgedRow(row[j]).owner = row[j].owner
        /\ AgedRow(row[j]).lease = IF row[j].lease = NoLease \/ row[j].lease = LeaseTicks + 1
                                   THEN row[j].lease ELSE row[j].lease + 1
    BY <2>1 DEF AgedRow, Row
  <2> QED BY <2>1, <2>2, <2>3
<1>3. TableInv'
  BY <1>1, <1>2 DEF CalmInv, TableInv
<1>4. ASSUME NEW q \in Pods PROVE PodRuns(q)'
  <2>1. CASE ~ Executing(q)
    BY <2>1 DEF Tick, Heartbeats, Executing, PodRuns
  <2>2. CASE Executing(q)
    <3> DEFINE s == pod[q]
               n == [s EXCEPT !.beat = s.beat + 1]
               j == pod[q].job
    <3>1. j \in Jobs /\ OwnsRow(s, q, row[j], budget.dbErrors) /\ RunOK(s, progress[j])
      BY <2>2, NotExpired DEF CalmInv, RunInv, PodRuns
    <3>2. Heartbeats(q)
      BY <2>2, <3>1 DEF Calm, Heartbeats, Executing
    <3>3. pod'[q] = n
      BY <3>2 DEF Tick
    <3>4. /\ n.pc = s.pc /\ n.batch = s.batch /\ n.job = j /\ n.prog = s.prog
          /\ n.after = s.after /\ n.beat = s.beat + 1
      BY DEF CalmInv, TypeInv, TypeOK, PodState
    <3>5. s.beat \in Nat /\ row[j].lease \in Int /\ Slack(budget.dbErrors) \in Nat
      BY <3>1, Numbers, SlackFacts DEF CalmInv
    <3>6. row'[j].lease \in Int
      BY <3>1, Numbers, TickTypes DEF CalmInv, TypeInv, TypeOK, Row, Lease
    <3>7. /\ row'[j].status = row[j].status /\ row'[j].owner = row[j].owner
          /\ 0 <= row'[j].lease /\ row'[j].lease <= row[j].lease + 1
      BY <1>2, <3>1 DEF OwnsRow
    <3> HIDE DEF n
    <3>8. OwnsRow(n, q, row'[j], budget.dbErrors)
      <4>1. ASSUME NEW a \in Int, NEW b \in Int, NEW e \in Int, NEW k \in Int,
                   a <= b + 1, b <= e + k
            PROVE  a <= (e + 1) + k
        BY <4>1
      <4>2. row[j].lease <= s.beat + Slack(budget.dbErrors)
        BY <3>1 DEF OwnsRow
      <4>3. row'[j].lease <= (s.beat + 1) + Slack(budget.dbErrors)
        <5> HIDE DEF s, j
        <5> QED BY <3>5, <3>6, <3>7, <4>1, <4>2
      <4>4. n.batch = <<>> /\ row'[j].status = "running" /\ row'[j].owner = q
        BY <3>1, <3>4, <3>7 DEF OwnsRow
      <4> QED BY <3>4, <3>7, <4>3, <4>4 DEF OwnsRow
    <3>9. RunOK(n, progress[j])
      BY <3>1, <3>4 DEF RunOK
    <3> QED BY <1>1, <3>3, <3>4, <3>8, <3>9 DEF PodRuns
  <2> QED BY <2>1, <2>2
<1> QED BY <1>3, <1>4 DEF RunInv

LEMMA CallersKeep ==
    ASSUME Calm, CalmInv, NEW j \in Jobs,
           Approve(j) \/ Requeue(j) \/ Cancel(j) \/ Retry(j)
    PROVE  RunInv' /\ TableInv'
<1>1. row[j] \in Row /\ row \in [Jobs -> Row]
  BY DEF CalmInv, TypeInv, TypeOK
<1>2. ~ Cancel(j)
  BY DEF Calm, Cancel, Call
<1>3. row[j].status # "running"
  BY <1>2 DEF Approve, Requeue, Retry, Call, AllowedEntry
<1>4. \E new : new.status = "queued" /\ row' = [row EXCEPT ![j] = new]
  <2>1. UpdatedRow(row[j], "queued").status = "queued"
    BY <1>1, ReleasedType DEF UpdatedRow, Row
  <2>2. RetriedRow(row[j]).status = "queued"
    BY <1>1, ReleasedType DEF RetriedRow, Row
  <2> QED BY <1>2, <2>1, <2>2 DEF Approve, Requeue, Retry, Call
<1>5. progress' = progress /\ pod' = pod /\ ErrorsOnlySpent
  <2>1. progress' = progress /\ pod' = pod
    BY DEF Approve, Requeue, Cancel, Retry, Call
  <2>2. Spend("calls")
    BY DEF Approve, Requeue, Cancel, Retry, Call
  <2>3. budget'.dbErrors = budget.dbErrors
    BY <2>2, SpendTypes DEF CalmInv, TypeInv, TypeOK
  <2> QED BY <2>1, <2>3, Numbers, RunnerAssumption DEF ErrorsOnlySpent, CalmInv
<1>6. row' \in [Jobs -> Row]
  BY CallerTypes DEF CalmInv, TypeInv, TypeOK
<1>7. ASSUME NEW q \in Pods, Executing(q) PROVE row'[pod[q].job] = row[pod[q].job]
  BY <1>1, <1>3, <1>4, <1>7, NotExpired
<1>8. ASSUME NEW k \in Jobs
      PROVE  \/ row'[k].status = row[k].status
             \/ row'[k].status \notin {"waiting_approval", "succeeded"}
  BY <1>1, <1>4
<1> QED BY <1>5, <1>6, <1>7, <1>8, RowsChange

LEMMA CalmInit == Init => CalmInv
<1>1. ASSUME Init PROVE RunInv
  BY <1>1, IdleOK DEF Init, RunInv, PodRuns, Executing, Running
<1>2. ASSUME Init PROVE TableInv
  <2>1. NoProgress \in Progress
    BY RunnerAssumption DEF NoProgress, Progress
  <2>2. ProgOK(NoProgress)
    BY <2>1 DEF ProgOK, Ordered, NoProgress
  <2> QED BY <1>2, <2>2 DEF Init, TableInv, NewRow
<1> QED BY <1>1, <1>2, TypeInit DEF CalmInv

LEMMA CalmStep == Calm /\ CalmInv /\ [Next]_vars => CalmInv'
<1> SUFFICES ASSUME Calm, CalmInv, [Next]_vars PROVE RunInv' /\ TableInv'
  BY TypeStep DEF CalmInv
<1>1. CASE UNCHANGED vars
  BY <1>1 DEF vars, CalmInv, RunInv, PodRuns, Executing, TableInv
<1>2. ASSUME NEW p \in Pods, Stop(p) PROVE RunInv' /\ TableInv'
  BY <1>2 DEF Stop, CalmInv, RunInv, PodRuns, Executing, TableInv
<1>3. ASSUME NEW p \in Pods, Work(p) PROVE RunInv' /\ TableInv'
  BY <1>3, ReapKeeps, ClaimKeeps, StopsKeep, SaveKeeps, EndKeeps DEF Work
<1> QED BY <1>1, <1>2, <1>3, AnswerKeeps, BeatKeeps, DbErrorKeeps, StopsKeep, TickKeeps,
           CallersKeep DEF Next

LEMMA CalmAlways == Calm /\ Spec => [](Calm /\ CalmInv)
<1>1. Init /\ Calm => Calm /\ CalmInv
  BY CalmInit
<1>2. Calm /\ CalmInv /\ [Next]_vars => Calm' /\ CalmInv'
  BY CalmStep DEF Calm, Slack
<1> QED BY <1>1, <1>2, PTL DEF Spec

\* Claims of one job at a time keep a pod the owner of what it runs until it
\* lets go: for any number of pods and jobs, crashes, retries and failed chats,
\* and as many missed renewals as the lease has room for (poller.py:97-109,
\* runner.py:137-146, jobs.py:231-323).
THEOREM OwnerRunsProved == Calm /\ Spec => []OwnerRuns
<1>1. CalmInv => OwnerRuns
  BY DEF CalmInv, RunInv, PodRuns, OwnsRow, OwnerRuns
<1> QED BY <1>1, CalmAlways, PTL

\* No job is in the hands of two pods, under the same conditions: the claim and
\* the heartbeat together are a lock (poller.py:97-109, jobs.py:231-323).
THEOREM SingleRunnerProved == Calm /\ Spec => []SingleRunner
<1>1. CalmInv => SingleRunner
  BY UniqueRunner DEF CalmInv, SingleRunner
<1> QED BY <1>1, CalmAlways, PTL

\* A resumed run asks neither for a plan nor for a step that the table holds,
\* after any crash (runner.py:148-242).
THEOREM NoRedoProved == Calm /\ Spec => []NoRedo
<1>1. ASSUME CalmInv, NEW p \in Pods, pod[p].pc \in {"plan", "chat"}
      PROVE  /\ pod[p].pc = "plan" => progress[pod[p].job].plan = 0
             /\ pod[p].pc = "chat" =>
                   progress[pod[p].job].steps[NextStep(pod[p].prog)] = 0
  <2>1. RunOK(pod[p], progress[pod[p].job])
    BY <1>1 DEF CalmInv, RunInv, PodRuns, Executing, Running
  <2>2. pod[p].pc = "chat" => NextStep(pod[p].prog) \in Undone(pod[p].prog)
    BY <2>1, NextStepIsFirst DEF RunOK
  <2> QED BY <1>1, <2>1, <2>2 DEF RunOK, Undone
<1>2. CalmInv => NoRedo
  BY <1>1 DEF NoRedo
<1> QED BY <1>2, CalmAlways, PTL

\* Steps are done in order and from one plan, and a job that waits for approval
\* names its first step not done, for plans of any length (runner.py:190-232).
THEOREM StepsInOrderProved == Calm /\ Spec => []StepsInOrder
<1>1. CalmInv => StepsInOrder
  BY DEF CalmInv, TableInv, StepsInOrder, ProgOK, Ordered, Waiting
<1> QED BY <1>1, CalmAlways, PTL

\* A job that succeeded did all of its steps and carries no leftover of an
\* earlier, failed or paused, attempt (runner.py:234-242).
THEOREM SucceededIsCompleteProved == Calm /\ Spec => []SucceededIsComplete
<1>1. CalmInv => SucceededIsComplete
  BY DEF CalmInv, TableInv, SucceededIsComplete, Complete
<1> QED BY <1>1, CalmAlways, PTL

\* No step of the system but a save touches a checkpoint.
LEMMA OnlySaves ==
    ASSUME [Next]_vars, \A p \in Pods : ~ Save(p)
    PROVE  progress' = progress
<1>1. ASSUME NEW p \in Pods, Answer(p) \/ Work(p) \/ Beat(p) \/ MissedBeat(p) \/ DbError(p)
                              \/ Stop(p) \/ Crash(p)
      PROVE  progress' = progress
  BY <1>1 DEF Answer, PlanReply, ChatError, StepReply, StepPause, Work, Reap, Claim, Exit,
              Succeed, Park, Fail, Beat, MissedBeat, DbError, Stop, Crash
<1>2. ASSUME NEW j \in Jobs, Approve(j) \/ Requeue(j) \/ Cancel(j) \/ Retry(j)
      PROVE  progress' = progress
  BY <1>2 DEF Approve, Requeue, Cancel, Retry, Call
<1> QED BY <1>1, <1>2 DEF Next, Tick, vars

\* What a checkpoint holds is never lost: save_progress overwrites by id, yet
\* with what extends the table's (runner.py:164, 187, 219, 232, 241, jobs.py:325-339).
THEOREM CheckpointKeptProved == Calm /\ Spec => CheckpointKept
<1> DEFINE Kept == \A j \in Jobs :
                      /\ progress[j].plan # 0 => progress'[j].plan = progress[j].plan
                      /\ \A i \in Step : progress[j].steps[i] # 0 =>
                            progress'[j].steps[i] = progress[j].steps[i]
<1>1. ASSUME CalmInv, NEW p \in Pods, Save(p) PROVE Kept
  <2>1. pod[p].job \in Jobs /\ Extends(pod[p].prog, progress[pod[p].job])
    BY <1>1 DEF Save, CalmInv, TypeInv, PodOK, RunInv, PodRuns, Executing, RunOK, Running
  <2>2. progress' = [progress EXCEPT ![pod[p].job] = pod[p].prog]
        /\ progress \in [Jobs -> Progress]
    BY <1>1 DEF Save, CalmInv, TypeInv, TypeOK
  <2> QED BY <2>1, <2>2 DEF Extends
<1>2. CalmInv /\ [Next]_vars => Kept
  BY <1>1, OnlySaves
<1>3. CalmInv /\ [Next]_vars => [Kept]_vars
  BY <1>2
<1> QED BY <1>3, CalmAlways, PTL DEF Spec, CheckpointKept

-----------------------------------------------------------------------------
(* And without crashes and failed statements: what a pod has in its hands      *)
(* always reaches the table.                                                   *)

Undisturbed == Calm /\ MaxCrashes = 0 /\ MaxDbErrors = 0

\* A checkpoint that waits for approval: approved, parked or about to be.
PendingKnown ==
    \A j \in Jobs : progress[j].pending # 0 =>
        \/ <<j, progress[j].pending>> \in granted
        \/ row[j].status = "waiting_approval"
        \/ \E p \in Pods : pod[p].job = j /\ pod[p].pc = "park"

SavesPending(s) ==
    s.pc = "save" /\ s.prog.pending # 0 =>
        <<s.job, s.prog.pending>> \in granted \/ s.after = "park"

\* A step that was executed is in the table, or in the hands of a pod.
ExecutedKept ==
    \A j \in Jobs, i \in Step : <<j, i>> \in executed =>
        \/ progress[j].steps[i] # 0
        \/ \E p \in Pods : pod[p].pc = "save" /\ pod[p].job = j /\ pod[p].prog.steps[i] # 0

HistoryInv ==
    /\ CalmInv /\ PendingKnown /\ ExecutedKept
    /\ \A p \in Pods : SavesPending(pod[p]) /\ (pod[p].pc = "chat" => pod[p].prog.plan # 0)

LEMMA NoAccident ==
    ASSUME Undisturbed, TypeInv, NEW p \in Pods
    PROVE  ~ Crash(p) /\ ~ DbError(p) /\ ~ MissedBeat(p)
<1>1. budget.crashes \in 0 .. 0 /\ budget.dbErrors \in 0 .. 0
  BY DEF Undisturbed, TypeInv, TypeOK, Budget
<1>2. ~ Spend("crashes") /\ ~ Spend("dbErrors")
  BY <1>1 DEF Spend
<1> QED BY <1>2 DEF Crash, DbError, MissedBeat

\* A pod that runs a job finds the checkpoint's pending step approved.
LEMMA PendingGranted ==
    ASSUME HistoryInv, NEW p \in Pods, Executing(p), pod[p].pc # "park",
           progress[pod[p].job].pending # 0
    PROVE  <<pod[p].job, progress[pod[p].job].pending>> \in granted
<1>1. pod[p].job \in Jobs /\ row[pod[p].job].status = "running"
  BY DEF HistoryInv, CalmInv, TypeInv, PodOK, RunInv, PodRuns, OwnsRow, Executing
<1>2. ASSUME NEW q \in Pods, pod[q].job = pod[p].job, pod[q].pc = "park" PROVE FALSE
  <2>1. Executing(q)
    BY <1>2 DEF Executing, Running
  <2> QED BY <1>2, <2>1, UniqueRunner DEF HistoryInv, CalmInv
<1> QED BY <1>1, <1>2 DEF HistoryInv, PendingKnown

\* One pod changes its state, and no checkpoint.
LEMMA HistoryFrame ==
    ASSUME HistoryInv, CalmInv', NEW p \in Pods, NEW s, pod' = [pod EXCEPT ![p] = s],
           progress' = progress, granted' = granted, executed' = executed,
           pod[p].pc # "save",
           \A j \in Jobs : row[j].status = "waiting_approval" =>
                               row'[j].status = "waiting_approval",
           pod[p].pc = "park" => row'[pod[p].job].status = "waiting_approval",
           SavesPending(s), s.pc = "chat" => s.prog.plan # 0
    PROVE  HistoryInv'
<1>1. pod'[p] = s /\ \A q \in Pods : q # p => pod'[q] = pod[q]
  BY DEF HistoryInv, CalmInv, TypeInv, TypeOK
<1>2. PendingKnown'
  <2> SUFFICES ASSUME NEW j \in Jobs, progress[j].pending # 0
               PROVE  \/ <<j, progress[j].pending>> \in granted
                      \/ row'[j].status = "waiting_approval"
                      \/ \E q \in Pods : pod'[q].job = j /\ pod'[q].pc = "park"
    BY DEF PendingKnown
  <2>1. CASE \E q \in Pods : pod[q].job = j /\ pod[q].pc = "park"
    BY <1>1, <2>1
  <2> QED BY <2>1 DEF HistoryInv, PendingKnown
<1>3. ExecutedKept'
  <2> SUFFICES ASSUME NEW j \in Jobs, NEW i \in Step, <<j, i>> \in executed,
                      progress[j].steps[i] = 0
               PROVE  \E q \in Pods : pod'[q].pc = "save" /\ pod'[q].job = j
                                      /\ pod'[q].prog.steps[i] # 0
    BY DEF ExecutedKept
  <2>1. PICK q \in Pods : pod[q].pc = "save" /\ pod[q].job = j /\ pod[q].prog.steps[i] # 0
    BY DEF HistoryInv, ExecutedKept
  <2> QED BY <1>1, <2>1
<1>4. ASSUME NEW q \in Pods
      PROVE  SavesPending(pod[q])' /\ (pod'[q].pc = "chat" => pod'[q].prog.plan # 0)
  BY <1>1 DEF HistoryInv, SavesPending
<1> QED BY <1>2, <1>3, <1>4 DEF HistoryInv

\* The states of a pod that Resumed leads to.
LEMMA ResumedHistory ==
    ASSUME NEW s \in PodState
    PROVE  /\ Resumed(s).pc \in {"save", "plan", "chat"} /\ Resumed(s).job = s.job
           /\ Resumed(s).pc = "chat" => Resumed(s).prog.plan # 0
           /\ Resumed(s).prog.pending = s.prog.pending
           /\ Resumed(s).prog.steps = s.prog.steps
<1>1. s.prog \in Progress
  BY DEF PodState
<1>2. /\ [s.prog EXCEPT !.error = TRUE].pending = s.prog.pending
      /\ [s.prog EXCEPT !.error = TRUE].steps = s.prog.steps
      /\ Finalized(s.prog).pending = s.prog.pending /\ Finalized(s.prog).steps = s.prog.steps
  BY <1>1 DEF Progress, Finalized
<1>3. ASSUME NEW g, NEW then
      PROVE  /\ Saving(s, g, then).pc = "save" /\ Saving(s, g, then).prog = g
             /\ Saving(s, g, then).job = s.job
  BY DEF Saving, PodState
<1>4. ASSUME NEW c \in {"plan", "chat"}
      PROVE  /\ [s EXCEPT !.pc = c].pc = c /\ [s EXCEPT !.pc = c].prog = s.prog
             /\ [s EXCEPT !.pc = c].job = s.job
  BY DEF PodState
<1>5. CASE Resumed(s) = Erred(s)
  <2>1. /\ Erred(s).pc = "save" /\ Erred(s).job = s.job
        /\ Erred(s).prog = [s.prog EXCEPT !.error = TRUE]
    BY DEF Erred, Saving, PodState
  <2> QED BY <1>2, <1>5, <2>1
<1>6. CASE Resumed(s) = Saving(s, Finalized(s.prog), "succeed")
  BY <1>2, <1>3, <1>6
<1>7. CASE Resumed(s) = [s EXCEPT !.pc = "plan"]
  BY <1>4, <1>7
<1>8. CASE Resumed(s) = [s EXCEPT !.pc = "chat"] /\ s.prog.plan # 0
  BY <1>4, <1>8
<1> QED BY <1>5, <1>6, <1>7, <1>8 DEF Resumed

\* The pods stay where they are, but for their heartbeats.
LEMMA HistorySame ==
    ASSUME HistoryInv, CalmInv', progress' = progress, executed' = executed,
           granted \subseteq granted',
           \A q \in Pods : /\ pod'[q].pc = pod[q].pc /\ pod'[q].job = pod[q].job
                           /\ pod'[q].prog = pod[q].prog /\ pod'[q].after = pod[q].after,
           \A j \in Jobs : row[j].status = "waiting_approval" /\ progress[j].pending # 0 =>
                  row'[j].status = "waiting_approval" \/ <<j, progress[j].pending>> \in granted'
    PROVE  HistoryInv'
<1>1. PendingKnown'
  BY DEF HistoryInv, PendingKnown
<1>2. ExecutedKept'
  BY DEF HistoryInv, ExecutedKept
<1>3. ASSUME NEW q \in Pods
      PROVE  SavesPending(pod[q])' /\ (pod'[q].pc = "chat" => pod'[q].prog.plan # 0)
  BY DEF HistoryInv, SavesPending
<1> QED BY <1>1, <1>2, <1>3 DEF HistoryInv

LEMMA HistoryAnswer ==
    ASSUME HistoryInv, CalmInv', NEW p \in Pods, Answer(p)
    PROVE  HistoryInv'
<1> DEFINE g == pod[p].prog
<1>1. pod[p] \in PodState /\ g \in Progress /\ pod \in [Pods -> PodState]
  BY DEF HistoryInv, CalmInv, TypeInv, TypeOK, PodState
<1>2. Executing(p) /\ pod[p].pc \in {"plan", "chat"}
  BY DEF Answer, PlanReply, ChatError, StepReply, StepPause, Executing, Running
<1>3. g = progress[pod[p].job] /\ RunOK(pod[p], g)
  BY <1>2 DEF HistoryInv, CalmInv, RunInv, PodRuns, RunOK
<1>4. g.pending # 0 => <<pod[p].job, g.pending>> \in granted
  BY <1>2, <1>3, PendingGranted
<1>5. row' = row /\ progress' = progress /\ granted' = granted
  BY DEF Answer, PlanReply, ChatError, StepReply, StepPause
<1>6. ASSUME NEW f, NEW then
      PROVE  /\ Saving(pod[p], f, then).job = pod[p].job
             /\ Saving(pod[p], f, then).pc = "save"
             /\ Saving(pod[p], f, then).prog = f
             /\ Saving(pod[p], f, then).after = then
  BY <1>1 DEF Saving, PodState
<1> HIDE DEF g
<1>7. CASE PlanReply(p)
  <2>1. PICK q \in Plans : pod' = [pod EXCEPT ![p] =
           Saving(pod[p], [g EXCEPT !.plan = q, !.phase = "executing"], "resume")]
    BY <1>1, <1>7 DEF PlanReply, g
  <2> DEFINE f == [g EXCEPT !.plan = q, !.phase = "executing"]
             s == Saving(pod[p], f, "resume")
  <2>2. f.pending = g.pending
    BY <1>1 DEF Progress
  <2>3. pod' = [pod EXCEPT ![p] = s]
    BY <2>1
  <2> HIDE DEF f
  <2>4. s.pc = "save" /\ s.prog = f /\ s.job = pod[p].job
    BY <1>6
  <2> HIDE DEF s
  <2>5. SavesPending(s)
    BY <1>4, <2>2, <2>4 DEF SavesPending
  <2>6. executed' = executed
    BY <1>7 DEF PlanReply
  <2> QED BY <1>2, <1>5, <2>3, <2>4, <2>5, <2>6, HistoryFrame
<1>8. CASE ChatError(p)
  <2> DEFINE f == [g EXCEPT !.error = TRUE]
             s == Saving(pod[p], f, "fail")
  <2>1. pod' = [pod EXCEPT ![p] = s]
    BY <1>1, <1>8 DEF ChatError, Erred, g
  <2>2. f.pending = g.pending
    BY <1>1 DEF Progress
  <2> HIDE DEF f
  <2>3. s.pc = "save" /\ s.prog = f /\ s.job = pod[p].job
    BY <1>6
  <2> HIDE DEF s
  <2>4. SavesPending(s)
    BY <1>4, <2>2, <2>3 DEF SavesPending
  <2>5. executed' = executed
    BY <1>8 DEF ChatError
  <2> QED BY <1>2, <1>5, <2>1, <2>3, <2>4, <2>5, HistoryFrame
<1>9. CASE StepPause(p)
  <2> DEFINE f == [g EXCEPT !.pending = NextStep(g)]
             s == Saving(pod[p], f, "park")
  <2>1. pod' = [pod EXCEPT ![p] = s]
    BY <1>1, <1>9 DEF StepPause, g
  <2> HIDE DEF f
  <2>2. s.pc = "save" /\ s.after = "park"
    BY <1>6
  <2> HIDE DEF s
  <2>3. SavesPending(s) /\ executed' = executed
    BY <1>9, <2>2 DEF SavesPending, StepPause
  <2> QED BY <1>2, <1>5, <2>1, <2>2, <2>3, HistoryFrame
<1>10. CASE StepReply(p)
  <2> DEFINE i == NextStep(g)
             f == [g EXCEPT !.pending = 0, !.steps[i] = g.plan]
             s == Saving(pod[p], f, "resume")
  <2>1. pod' = [pod EXCEPT ![p] = s] /\ executed' = executed \cup {<<pod[p].job, i>>}
    BY <1>1, <1>10 DEF StepReply, g
  <2>2. i \in Step /\ g.plan # 0
    BY <1>3, <1>10, NextStepIsFirst DEF StepReply, RunOK, g, HistoryInv
  <2> HIDE DEF i
  <2>3. f.pending = 0 /\ f.steps[i] # 0
    BY <1>1, <2>2 DEF Progress
  <2> HIDE DEF f
  <2>4. s.pc = "save" /\ s.prog = f /\ s.job = pod[p].job
    BY <1>6
  <2> HIDE DEF s
  <2>5. pod'[p] = s /\ \A q \in Pods : q # p => pod'[q] = pod[q]
    BY <1>1, <2>1
  <2>6. PendingKnown'
    <3>1. \A q \in Pods : pod[q].pc = "park" => q # p
      BY <1>2
    <3> QED BY <1>5, <2>5, <3>1 DEF HistoryInv, PendingKnown
  <2>7. ExecutedKept'
    <3> SUFFICES ASSUME NEW j \in Jobs, NEW k \in Step, <<j, k>> \in executed',
                        progress[j].steps[k] = 0
                 PROVE  \E q \in Pods : pod'[q].pc = "save" /\ pod'[q].job = j
                                        /\ pod'[q].prog.steps[k] # 0
      BY <1>5 DEF ExecutedKept
    <3>1. CASE <<j, k>> = <<pod[p].job, i>>
      BY <2>3, <2>4, <2>5, <3>1
    <3>2. CASE <<j, k>> \in executed
      <4>1. PICK q \in Pods : /\ pod[q].pc = "save" /\ pod[q].job = j
                              /\ pod[q].prog.steps[k] # 0
        BY <3>2 DEF HistoryInv, ExecutedKept
      <4> QED BY <1>2, <2>5, <4>1
    <3> QED BY <2>1, <3>1, <3>2
  <2>8. ASSUME NEW q \in Pods
        PROVE  SavesPending(pod[q])' /\ (pod'[q].pc = "chat" => pod'[q].prog.plan # 0)
    BY <1>5, <2>3, <2>4, <2>5 DEF HistoryInv, SavesPending
  <2> QED BY <2>6, <2>7, <2>8 DEF HistoryInv
<1> QED BY <1>7, <1>8, <1>9, <1>10 DEF Answer

LEMMA HistoryPoller ==
    ASSUME Calm, HistoryInv, CalmInv', NEW p \in Pods,
           Reap(p) \/ Claim(p) \/ Exit(p)
    PROVE  HistoryInv'
<1>1. /\ pod \in [Pods -> PodState] /\ row \in [Jobs -> Row] /\ CalmInv
      /\ pod[p].pc \in {"idle", "reaped"}
      /\ progress' = progress /\ granted' = granted /\ executed' = executed
  BY DEF HistoryInv, CalmInv, TypeInv, TypeOK, Reap, Claim, Exit
<1>2. CASE Reap(p)
  <2>1. pod' = [pod EXCEPT ![p] = [pod[p] EXCEPT !.pc = "reaped"]]
    BY <1>2 DEF Reap
  <2>2. [pod[p] EXCEPT !.pc = "reaped"].pc = "reaped"
    BY <1>1 DEF PodState
  <2>3. \A j \in Jobs : row[j].status = "waiting_approval" => row'[j].status = row[j].status
    BY <1>2 DEF Reap, Expired
  <2> QED BY <1>1, <2>1, <2>2, <2>3, HistoryFrame DEF SavesPending
<1>3. CASE Exit(p)
  <2>1. pod' = [pod EXCEPT ![p] = [pod[p] EXCEPT !.pc = "stopped"]] /\ row' = row
    BY <1>3 DEF Exit
  <2>2. [pod[p] EXCEPT !.pc = "stopped"].pc = "stopped"
    BY <1>1 DEF PodState
  <2> QED BY <1>1, <2>1, <2>2, HistoryFrame DEF SavesPending
<1>4. CASE row' = row /\ pod' = [pod EXCEPT ![p] = Idle]
  <2>1. Idle.pc = "idle"
    BY IdleOK
  <2> QED BY <1>1, <1>4, <2>1, HistoryFrame DEF SavesPending
<1>5. ASSUME NEW j \in Jobs, row[j].status = "queued",
             row' = [row EXCEPT ![j] = StartedRow(row[j], p)],
             pod' = [pod EXCEPT ![p] = Resumed(ClaimedState(j))]
      PROVE  HistoryInv'
  <2> DEFINE s == ClaimedState(j)
             n == Resumed(s)
  <2>1. s \in PodState /\ s.job = j /\ s.prog = progress[j]
    BY <1>1, ClaimedStateOK
  <2>2. pod' = [pod EXCEPT ![p] = n]
    BY <1>5
  <2> HIDE DEF s
  <2>3. /\ n.job = j /\ n.pc = "chat" => n.prog.plan # 0
        /\ n.prog.pending = progress[j].pending /\ n.job = j
    BY <2>1, ResumedHistory
  <2> HIDE DEF n
  <2>4. \A q \in Pods : ~ (pod[q].job = j /\ pod[q].pc = "park")
    BY <1>1, <1>5, NotExpired DEF Executing, Running
  <2>5. SavesPending(n)
    BY <1>5, <2>3, <2>4 DEF SavesPending, HistoryInv, PendingKnown
  <2>6. \A k \in Jobs : row[k].status = "waiting_approval" => row'[k].status = row[k].status
    BY <1>1, <1>5
  <2> QED BY <1>1, <2>2, <2>3, <2>5, <2>6, HistoryFrame
<1> QED BY <1>1, <1>2, <1>3, <1>4, <1>5, ClaimOutcome

LEMMA HistorySave ==
    ASSUME HistoryInv, CalmInv', NEW p \in Pods, Save(p)
    PROVE  HistoryInv'
<1> DEFINE s == pod[p]
           j == pod[p].job
           n == AfterSave(pod[p])
<1>1. /\ s \in PodState /\ j \in Jobs /\ Executing(p) /\ s.pc = "save"
      /\ pod \in [Pods -> PodState] /\ progress \in [Jobs -> Progress]
      /\ s.after \in {"resume", "park", "succeed", "fail"}
  BY DEF Save, HistoryInv, CalmInv, TypeInv, TypeOK, PodOK, Executing, Running, PodState
<1>2. /\ pod'[p] = n /\ \A q \in Pods : q # p => pod'[q] = pod[q]
      /\ progress'[j] = s.prog /\ \A k \in Jobs : k # j => progress'[k] = progress[k]
      /\ row' = row /\ granted' = granted /\ executed' = executed
  BY <1>1 DEF Save
<1>3. Extends(s.prog, progress[j])
  BY <1>1 DEF HistoryInv, CalmInv, RunInv, PodRuns, RunOK
<1>4. /\ n.job = j /\ n.prog.pending = s.prog.pending /\ n.prog.steps = s.prog.steps
      /\ n.pc = "chat" => n.prog.plan # 0
      /\ n.pc = "save" => s.after = "resume"
      /\ s.after = "park" => n.pc = "park"
  <2>1. CASE s.after = "resume"
    BY <1>1, <2>1, ResumedHistory DEF AfterSave
  <2>2. CASE s.after # "resume"
    <3>1. n = [s EXCEPT !.pc = s.after]
      BY <2>2 DEF AfterSave
    <3>2. n.pc = s.after /\ n.prog = s.prog /\ n.job = j
      BY <1>1, <3>1 DEF PodState
    <3> QED BY <1>1, <2>2, <3>2
  <2> QED BY <2>1, <2>2
<1>5. s.prog.pending # 0 => <<j, s.prog.pending>> \in granted \/ s.after = "park"
  BY <1>1 DEF HistoryInv, SavesPending
<1> HIDE DEF s, n, j
<1>6. PendingKnown'
  <2> SUFFICES ASSUME NEW k \in Jobs, progress'[k].pending # 0
               PROVE  \/ <<k, progress'[k].pending>> \in granted
                      \/ row[k].status = "waiting_approval"
                      \/ \E q \in Pods : pod'[q].job = k /\ pod'[q].pc = "park"
    BY <1>2 DEF PendingKnown
  <2>1. CASE k = j
    BY <1>2, <1>4, <1>5, <2>1
  <2>2. CASE k # j
    <3>1. \A q \in Pods : pod[q].pc = "park" => pod'[q] = pod[q]
      BY <1>1, <1>2 DEF s
    <3> QED BY <1>2, <2>2, <3>1 DEF HistoryInv, PendingKnown
  <2> QED BY <2>1, <2>2
<1>7. ExecutedKept'
  <2> SUFFICES ASSUME NEW k \in Jobs, NEW i \in Step, <<k, i>> \in executed,
                      progress'[k].steps[i] = 0
               PROVE  \E q \in Pods : pod'[q].pc = "save" /\ pod'[q].job = k
                                      /\ pod'[q].prog.steps[i] # 0
    BY <1>2 DEF ExecutedKept
  <2>1. progress[k].steps[i] = 0
    BY <1>2, <1>3 DEF Extends
  <2>2. PICK q \in Pods : pod[q].pc = "save" /\ pod[q].job = k /\ pod[q].prog.steps[i] # 0
    BY <2>1 DEF HistoryInv, ExecutedKept
  <2>3. q # p
    BY <1>2, <2>2 DEF s, j
  <2> QED BY <1>2, <2>2, <2>3
<1>8. ASSUME NEW q \in Pods
      PROVE  SavesPending(pod[q])' /\ (pod'[q].pc = "chat" => pod'[q].prog.plan # 0)
  <2>1. CASE q = p
    <3>1. n.pc = "save" /\ n.prog.pending # 0 => <<n.job, n.prog.pending>> \in granted
      BY <1>4, <1>5
    <3> QED BY <1>2, <1>4, <2>1, <3>1 DEF SavesPending
  <2>2. CASE q # p
    BY <1>2, <2>2 DEF HistoryInv, SavesPending
  <2> QED BY <2>1, <2>2
<1> QED BY <1>6, <1>7, <1>8 DEF HistoryInv

LEMMA HistoryEnd ==
    ASSUME Calm, HistoryInv, CalmInv', NEW p \in Pods, Succeed(p) \/ Park(p) \/ Fail(p)
    PROVE  HistoryInv'
<1> DEFINE j == pod[p].job
<1>1. CalmInv /\ Executing(p) /\ pod[p].pc \in {"succeed", "park", "fail"}
  BY DEF HistoryInv, Succeed, Park, Fail, Executing, Running
<1>2. j \in Jobs /\ row[j].status = "running" /\ row \in [Jobs -> Row] /\ row[j] \in Row
  BY <1>1, NotExpired DEF CalmInv, TypeInv, TypeOK
<1>3. pod' = [pod EXCEPT ![p] = Idle] /\ Idle.pc = "idle"
  BY <1>1, <1>2, EmptyBatch, IdleOK DEF Succeed, Park, Fail, CalmInv, TypeInv, TypeOK
<1>4. progress' = progress /\ granted' = granted /\ executed' = executed
  BY DEF Succeed, Park, Fail
<1>5. \A k \in Jobs : row[k].status = "waiting_approval" => row'[k].status = row[k].status
  BY <1>2 DEF Succeed, Park, Fail, EndRun
<1>6. pod[p].pc = "park" => row'[j].status = "waiting_approval"
  <2>1. UpdatedRow(row[j], "waiting_approval").status = "waiting_approval"
    BY <1>2, ReleasedType DEF UpdatedRow, Row
  <2> QED BY <1>2, <2>1 DEF Succeed, Park, Fail, EndRun
<1> QED BY <1>1, <1>3, <1>4, <1>5, <1>6, HistoryFrame DEF SavesPending

LEMMA HistoryOther ==
    ASSUME Calm, HistoryInv, CalmInv', NEW p \in Pods, Beat(p) \/ Stop(p) \/ Tick
    PROVE  HistoryInv'
<1>1. pod \in [Pods -> PodState] /\ row \in [Jobs -> Row] /\ CalmInv
  BY DEF HistoryInv, CalmInv, TypeInv, TypeOK
<1>2. progress' = progress /\ granted' = granted /\ executed' = executed
  BY DEF Beat, Stop, Tick
<1>3. ASSUME NEW q \in Pods
      PROVE  /\ pod'[q].pc = pod[q].pc /\ pod'[q].job = pod[q].job
             /\ pod'[q].prog = pod[q].prog /\ pod'[q].after = pod[q].after
  <2>1. pod[q] \in PodState
    BY <1>1
  <2>2. CASE Beat(p)
    BY <1>1, <2>1, <2>2 DEF Beat, PodState
  <2>3. CASE Tick
    BY <1>1, <2>1, <2>3 DEF Tick, PodState
  <2> QED BY <2>2, <2>3 DEF Stop
<1>4. ASSUME NEW j \in Jobs PROVE row'[j].status = row[j].status
  <2>1. row[j] \in Row
    BY <1>1
  <2>2. RenewedRow(row[j]).status = row[j].status /\ AgedRow(row[j]).status = row[j].status
    BY <2>1 DEF RenewedRow, AgedRow, Row
  <2> QED BY <1>1, <2>2 DEF Beat, EndRun, Stop, Tick
<1> QED BY <1>2, <1>3, <1>4, HistorySame

LEMMA HistoryCallers ==
    ASSUME Calm, HistoryInv, CalmInv', NEW j \in Jobs,
           Approve(j) \/ Requeue(j) \/ Cancel(j) \/ Retry(j)
    PROVE  HistoryInv'
<1>1. row \in [Jobs -> Row] /\ progress \in [Jobs -> Progress]
  BY DEF HistoryInv, CalmInv, TypeInv, TypeOK
<1>2. ~ Cancel(j)
  BY DEF Calm, Cancel, Call
<1>3. progress' = progress /\ executed' = executed /\ pod' = pod /\ granted \subseteq granted'
  BY DEF Approve, Requeue, Cancel, Retry, Call
<1>4. \A k \in Jobs : k # j => row'[k] = row[k]
  BY <1>1 DEF Approve, Requeue, Cancel, Retry, Call
<1>5. row[j].status = "waiting_approval" /\ progress[j].pending # 0 =>
          <<j, progress[j].pending>> \in granted'
  <2>1. CASE Approve(j)
    <3>1. progress[j].pending \in Step \cup {0}
      BY <1>1 DEF Progress
    <3> QED BY <2>1, <3>1 DEF Approve
  <2>2. CASE Requeue(j) \/ Retry(j)
    BY <2>2 DEF Requeue, Retry, Call
  <2> QED BY <1>2, <2>1, <2>2
<1> QED BY <1>3, <1>4, <1>5, HistorySame

LEMMA HistoryInit == Init => HistoryInv
  BY CalmInit, IdleOK DEF Init, HistoryInv, PendingKnown, ExecutedKept, SavesPending, NoProgress

LEMMA HistoryStep == Undisturbed /\ HistoryInv /\ [Next]_vars => HistoryInv'
<1> SUFFICES ASSUME Undisturbed, HistoryInv, [Next]_vars PROVE HistoryInv'
  OBVIOUS
<1>1. Calm /\ CalmInv /\ TypeInv
  BY DEF Undisturbed, HistoryInv, CalmInv
<1>2. CalmInv'
  BY <1>1, CalmStep
<1>3. CASE UNCHANGED vars
  BY <1>2, <1>3, HistorySame DEF vars
<1>4. ASSUME NEW p \in Pods, Work(p) PROVE HistoryInv'
  BY <1>1, <1>2, <1>4, HistoryPoller, HistorySave, HistoryEnd DEF Work
<1>5. ASSUME NEW p \in Pods, Answer(p) PROVE HistoryInv'
  BY <1>2, <1>5, HistoryAnswer
<1>6. ASSUME NEW p \in Pods, Beat(p) \/ Stop(p) PROVE HistoryInv'
  BY <1>1, <1>2, <1>6, HistoryOther
<1>7. CASE Tick
  <2>1. CASE Pods = {}
    <3>1. /\ progress' = progress /\ granted' = granted /\ executed' = executed
          /\ \A j \in Jobs : row'[j].status = row[j].status
      BY <1>1, <1>7 DEF Tick, AgedRow, CalmInv, TypeInv, TypeOK, Row
    <3> QED BY <1>2, <2>1, <3>1, HistorySame
  <2>2. CASE Pods # {}
    BY <1>1, <1>2, <1>7, <2>2, HistoryOther
  <2> QED BY <2>1, <2>2
<1>8. ASSUME NEW j \in Jobs, Approve(j) \/ Requeue(j) \/ Cancel(j) \/ Retry(j)
      PROVE  HistoryInv'
  BY <1>1, <1>2, <1>8, HistoryCallers
<1> QED BY <1>1, <1>3, <1>4, <1>5, <1>6, <1>7, <1>8, NoAccident DEF Next

LEMMA HistoryAlways == Undisturbed /\ Spec => [](Undisturbed /\ HistoryInv)
<1>1. Undisturbed /\ HistoryInv /\ [Next]_vars => Undisturbed' /\ HistoryInv'
  BY HistoryStep DEF Undisturbed, Calm, Slack
<1> QED BY <1>1, HistoryInit, PTL DEF Spec

\* Where a tick claims one job, nobody cancels, no pod crashes and no statement
\* fails, no chat is sent with approved = True that a caller did not approve for
\* the very step it is about, whatever chats fail and however failed and dead jobs
\* are retried or requeued (runner.py:204-221, jobs.py:141-162).  A cancellation
\* that is taken back refutes it, and so does a crash.
THEOREM ApprovalIsHumanProved == Undisturbed /\ Spec => []ApprovalIsHuman
<1>1. ASSUME HistoryInv, NEW p \in Pods, pod[p].pc = "chat", Approved(pod[p].prog)
      PROVE  <<pod[p].job, NextStep(pod[p].prog)>> \in granted
  <2>1. Executing(p) /\ RunOK(pod[p], progress[pod[p].job])
    BY <1>1 DEF HistoryInv, CalmInv, RunInv, PodRuns, Executing, Running
  <2>2. NextStep(pod[p].prog) \in Step
    BY <1>1, <2>1, NextStepIsFirst DEF RunOK
  <2>3. progress[pod[p].job].pending = NextStep(pod[p].prog)
    BY <1>1, <2>1 DEF RunOK, Approved
  <2>4. progress[pod[p].job].pending # 0
    BY <2>2, <2>3, RunnerAssumption DEF Step
  <2>5. <<pod[p].job, progress[pod[p].job].pending>> \in granted
    BY <1>1, <2>1, <2>4, PendingGranted
  <2> QED BY <2>3, <2>5
<1>2. HistoryInv => ApprovalIsHuman
  BY <1>1 DEF ApprovalIsHuman
<1> QED BY <1>2, HistoryAlways, PTL

\* Nor, under the same conditions, is a step executed twice, as runner.py:22-24
\* promises: the answer to a step is in the table before anyone else may run the job.
THEOREM StepsRunOnceProved == Undisturbed /\ Spec => StepsRunOnce
<1> DEFINE Once == \A p \in Pods : StepReply(p) =>
                       <<pod[p].job, NextStep(pod[p].prog)>> \notin executed
<1>1. ASSUME HistoryInv, NEW p \in Pods, StepReply(p)
      PROVE  <<pod[p].job, NextStep(pod[p].prog)>> \notin executed
  <2>1. /\ Executing(p) /\ pod[p].pc = "chat" /\ pod[p].job \in Jobs
        /\ RunOK(pod[p], progress[pod[p].job])
    BY <1>1 DEF StepReply, HistoryInv, CalmInv, RunInv, PodRuns, Executing, Running,
                TypeInv, PodOK
  <2>2. /\ NextStep(pod[p].prog) \in Step
        /\ progress[pod[p].job].steps[NextStep(pod[p].prog)] = 0
    BY <2>1, NextStepIsFirst DEF RunOK, Undone
  <2>3. ASSUME NEW q \in Pods, pod[q].pc = "save", pod[q].job = pod[p].job PROVE FALSE
    <3>1. Executing(q)
      BY <2>3 DEF Executing, Running
    <3> QED BY <1>1, <2>1, <2>3, <3>1, UniqueRunner DEF HistoryInv, CalmInv
  <2> QED BY <1>1, <2>1, <2>2, <2>3 DEF HistoryInv, ExecutedKept
<1>2. HistoryInv /\ [Next]_vars => [Once]_vars
  BY <1>1
<1> QED BY <1>2, HistoryAlways, PTL DEF Spec, StepsRunOnce

-----------------------------------------------------------------------------
(* One pod, with batches of any size, and callers that cancel, requeue,       *)
(* approve and retry as they like.  A checkpoint that waits for approval is    *)
(* then known: approved, of a revived job, or of one that still waits, is      *)
(* cancelled or is about to be parked.                                         *)

Solo == (\A p, q \in Pods : p = q) /\ MaxCrashes = 0 /\ MaxDbErrors = 0

Known == granted \cup (revived \X Step)
Mine == {j \in Jobs : row[j].status \in {"running", "cancelled"} \/ j \in revived}

\* The checkpoint g of j waits for nothing outside K.
Knows(j, g, K) == g.pending # 0 => <<j, g.pending>> \in K

\* What a pod has in its hands: jobs of M, each once, none of them waiting for
\* anything outside K, but for the one that is being parked.
BatchOK(b, K, M) ==
    \A k \in DOMAIN b : /\ b[k].job \in M /\ Knows(b[k].job, b[k].prog, K)
                        /\ \A l \in DOMAIN b : l # k => b[l].job # b[k].job
AtHandOK(s, K, M) ==
    /\ s.job \in M /\ \A k \in DOMAIN s.batch : s.batch[k].job # s.job
    /\ s.pc \in {"plan", "chat", "succeed"} => Knows(s.job, s.prog, K)
    /\ s.pc = "save" => Knows(s.job, s.prog, K) \/ s.after = "park"
HandsOK(s, K, M) ==
    /\ BatchOK(s.batch, K, M)
    /\ s.pc \in Running => AtHandOK(s, K, M)
    /\ s.pc \notin Running => s.batch = <<>>

TableKnown ==
    \A j \in Jobs : \/ Knows(j, progress[j], Known)
                    \/ row[j].status \in {"waiting_approval", "cancelled"}
                    \/ \E p \in Pods : pod[p].pc = "park" /\ pod[p].job = j

SoloInv == TypeInv /\ TableKnown /\ \A p \in Pods : HandsOK(pod[p], Known, Mine)

LEMMA HandsGrow ==
    ASSUME NEW s, NEW K, NEW M, NEW K2, NEW M2, HandsOK(s, K, M), K \subseteq K2, M \subseteq M2
    PROVE  HandsOK(s, K2, M2)
  BY DEF HandsOK, BatchOK, AtHandOK, Knows

LEMMA HandsSame ==
    ASSUME NEW s, NEW t, NEW K, NEW M, HandsOK(s, K, M), t.pc = s.pc, t.batch = s.batch,
           t.job = s.job, t.prog = s.prog, t.after = s.after
    PROVE  HandsOK(t, K, M)
  BY DEF HandsOK, AtHandOK

LEMMA SavingHands ==
    ASSUME NEW s \in PodState, NEW K, NEW M, BatchOK(s.batch, K, M), s.job \in M,
           \A k \in DOMAIN s.batch : s.batch[k].job # s.job,
           NEW g, NEW then, Knows(s.job, g, K) \/ then = "park"
    PROVE  HandsOK(Saving(s, g, then), K, M)
<1> DEFINE t == Saving(s, g, then)
<1>1. /\ t.pc = "save" /\ t.batch = s.batch /\ t.job = s.job /\ t.prog = g
      /\ t.after = then
  BY DEF Saving, PodState
<1> HIDE DEF t
<1>2. HandsOK(t, K, M)
  BY <1>1 DEF HandsOK, AtHandOK, Running
<1> QED BY <1>2 DEF t

LEMMA ErredHands ==
    ASSUME NEW s \in PodState, NEW K, NEW M, BatchOK(s.batch, K, M), s.job \in M,
           \A k \in DOMAIN s.batch : s.batch[k].job # s.job, Knows(s.job, s.prog, K)
    PROVE  HandsOK(Erred(s), K, M)
<1> DEFINE g == [s.prog EXCEPT !.error = TRUE]
<1>1. g.pending = s.prog.pending
  BY DEF PodState, Progress
<1>2. Erred(s) = Saving(s, g, "fail")
  BY DEF Erred
<1> HIDE DEF g
<1>3. Knows(s.job, g, K)
  BY <1>1 DEF Knows
<1> QED BY <1>2, <1>3, SavingHands

LEMMA ResumedHands ==
    ASSUME NEW s \in PodState, NEW K, NEW M, BatchOK(s.batch, K, M), s.job \in M,
           \A k \in DOMAIN s.batch : s.batch[k].job # s.job, Knows(s.job, s.prog, K)
    PROVE  HandsOK(Resumed(s), K, M)
<1>1. HandsOK(Erred(s), K, M)
  BY ErredHands
<1>2. HandsOK(Saving(s, Finalized(s.prog), "succeed"), K, M)
  <2>1. Finalized(s.prog).pending = s.prog.pending
    BY DEF Finalized, PodState, Progress
  <2>2. Knows(s.job, Finalized(s.prog), K)
    BY <2>1 DEF Knows
  <2> QED BY <2>2, SavingHands
<1>3. ASSUME NEW c \in {"plan", "chat"} PROVE HandsOK([s EXCEPT !.pc = c], K, M)
  <2> DEFINE t == [s EXCEPT !.pc = c]
  <2>1. t.pc = c /\ t.batch = s.batch /\ t.job = s.job /\ t.prog = s.prog
    BY DEF PodState
  <2> HIDE DEF t
  <2>2. t.pc \in Running /\ t.pc # "save"
    BY <2>1 DEF Running
  <2>3. AtHandOK(t, K, M)
    BY <2>1, <2>2 DEF AtHandOK
  <2> QED BY <2>1, <2>2, <2>3 DEF HandsOK, t
<1> QED BY <1>1, <1>2, <1>3 DEF Resumed

\* The next job of the batch, or none.
LEMMA DispatchedHands ==
    ASSUME NEW b \in Seq(Item), NEW K, NEW M, BatchOK(b, K, M)
    PROVE  HandsOK(Dispatched(b), K, M)
<1>1. CASE b = <<>>
  BY <1>1, IdleOK DEF Dispatched, HandsOK, BatchOK, Running
<1>2. CASE b # <<>>
  <2> DEFINE s == [Idle EXCEPT !.batch = Tail(b), !.job = Head(b).job, !.prog = Head(b).prog]
  <2>1. /\ Tail(b) \in Seq(Item) /\ Head(b) \in Item /\ Head(b) = b[1] /\ 1 \in DOMAIN b
        /\ \A k \in DOMAIN Tail(b) : k + 1 \in DOMAIN b /\ k \in Nat /\ k + 1 # 1
                                     /\ Tail(b)[k] = b[k + 1]
    BY <1>2
  <2>2. s \in PodState /\ s.job \in Jobs
    BY <2>1, IdleOK DEF PodOK, PodState, Item, Idle
  <2>3. s.batch = Tail(b) /\ s.job = b[1].job /\ s.prog = b[1].prog
    BY <2>1 DEF Idle
  <2> HIDE DEF s
  <2>4. b[1].job \in M /\ Knows(b[1].job, b[1].prog, K)
    BY <2>1 DEF BatchOK
  <2>5. \A k \in DOMAIN s.batch : s.batch[k].job # s.job
    BY <2>1, <2>3 DEF BatchOK
  <2>6. BatchOK(s.batch, K, M)
    <3> SUFFICES ASSUME NEW k \in DOMAIN Tail(b)
                 PROVE  /\ Tail(b)[k].job \in M /\ Knows(Tail(b)[k].job, Tail(b)[k].prog, K)
                        /\ \A l \in DOMAIN Tail(b) : l # k => Tail(b)[l].job # Tail(b)[k].job
      BY <2>3 DEF BatchOK
    <3>1. Tail(b)[k].job \in M /\ Knows(Tail(b)[k].job, Tail(b)[k].prog, K)
      BY <2>1 DEF BatchOK
    <3>2. ASSUME NEW l \in DOMAIN Tail(b), l # k PROVE Tail(b)[l].job # Tail(b)[k].job
      <4>1. l + 1 # k + 1 /\ l + 1 \in DOMAIN b /\ k + 1 \in DOMAIN b
        BY <2>1, <3>2
      <4>2. b[l + 1].job # b[k + 1].job
        BY <4>1 DEF BatchOK
      <4> QED BY <2>1, <4>2
    <3> QED BY <3>1, <3>2
  <2>7. HandsOK(Resumed(s), K, M)
    BY <2>2, <2>3, <2>4, <2>5, <2>6, ResumedHands
  <2>8. HandsOK([s EXCEPT !.pc = "fail"], K, M)
    <3> DEFINE t == [s EXCEPT !.pc = "fail"]
    <3>1. t.pc = "fail" /\ t.batch = s.batch /\ t.job = s.job
      BY <2>2 DEF PodState
    <3> HIDE DEF t
    <3>2. AtHandOK(t, K, M)
      BY <2>3, <2>4, <2>5, <3>1 DEF AtHandOK
    <3>3. t.pc \in Running
      BY <3>1 DEF Running
    <3> QED BY <2>6, <3>1, <3>2, <3>3 DEF HandsOK, t
  <2> QED BY <1>2, <2>7, <2>8 DEF Dispatched, s
<1> QED BY <1>1, <1>2

\* The pod makes a step of its own.
LEMMA SoloFrame ==
    ASSUME Solo, SoloInv, TypeInv', NEW p \in Pods, NEW s, pod' = [pod EXCEPT ![p] = s],
           HandsOK(s, Known', Mine'), TableKnown'
    PROVE  SoloInv'
<1>1. pod'[p] = s /\ \A q \in Pods : q = p
  BY DEF Solo, SoloInv, TypeInv, TypeOK
<1> QED BY <1>1 DEF SoloInv

\* Every row is known, waits or is cancelled while the pod parks nothing.
LEMMA TableSettled ==
    ASSUME Solo, SoloInv, NEW p \in Pods, pod[p].pc # "park", NEW j \in Jobs
    PROVE  Knows(j, progress[j], Known) \/ row[j].status \in {"waiting_approval", "cancelled"}
  BY DEF Solo, SoloInv, TableKnown

LEMMA SoloAnswer ==
    ASSUME Solo, SoloInv, TypeInv', NEW p \in Pods, Answer(p)
    PROVE  SoloInv'
<1> DEFINE g == pod[p].prog
<1>1. pod \in [Pods -> PodState] /\ pod[p] \in PodState /\ g \in Progress
  BY DEF SoloInv, TypeInv, TypeOK, PodState
<1>2. pod[p].pc \in {"plan", "chat"} /\ pod[p].pc \in Running
  BY DEF Answer, PlanReply, ChatError, StepReply, StepPause, Running
<1>3. row' = row /\ progress' = progress /\ Known' = Known /\ Mine' = Mine
  BY DEF Answer, PlanReply, ChatError, StepReply, StepPause, Known, Mine
<1>4. HandsOK(pod[p], Known, Mine)
  BY DEF SoloInv
<1>5. /\ BatchOK(pod[p].batch, Known, Mine) /\ pod[p].job \in Mine
      /\ \A k \in DOMAIN pod[p].batch : pod[p].batch[k].job # pod[p].job
      /\ Knows(pod[p].job, g, Known)
  BY <1>2, <1>4 DEF HandsOK, AtHandOK
<1>6. TableKnown'
  BY <1>2, <1>3, TableSettled DEF TableKnown
<1>7. ASSUME NEW f, NEW then, Knows(pod[p].job, f, Known) \/ then = "park",
             pod' = [pod EXCEPT ![p] = Saving(pod[p], f, then)]
      PROVE  SoloInv'
  <2>1. HandsOK(Saving(pod[p], f, then), Known', Mine')
    BY <1>1, <1>3, <1>5, <1>7, SavingHands
  <2> QED BY <1>6, <1>7, <2>1, SoloFrame
<1> HIDE DEF g
<1>8. CASE PlanReply(p)
  <2>1. PICK q \in Plans : pod' = [pod EXCEPT ![p] =
           Saving(pod[p], [g EXCEPT !.plan = q, !.phase = "executing"], "resume")]
    BY <1>1, <1>8 DEF PlanReply, g
  <2> DEFINE f == [g EXCEPT !.plan = q, !.phase = "executing"]
  <2>2. f.pending = g.pending
    BY <1>1 DEF Progress
  <2>3. pod' = [pod EXCEPT ![p] = Saving(pod[p], f, "resume")]
    BY <2>1
  <2> HIDE DEF f
  <2> QED BY <1>5, <1>7, <2>2, <2>3 DEF Knows
<1>9. CASE ChatError(p)
  <2> DEFINE f == [g EXCEPT !.error = TRUE]
  <2>1. f.pending = g.pending
    BY <1>1 DEF Progress
  <2>2. pod' = [pod EXCEPT ![p] = Saving(pod[p], f, "fail")]
    BY <1>1, <1>9 DEF ChatError, Erred, g
  <2> HIDE DEF f
  <2> QED BY <1>5, <1>7, <2>1, <2>2 DEF Knows
<1>10. CASE StepReply(p)
  <2> DEFINE f == [g EXCEPT !.pending = 0, !.steps[NextStep(g)] = g.plan]
  <2>1. f.pending = 0
    BY <1>1 DEF Progress
  <2>2. pod' = [pod EXCEPT ![p] = Saving(pod[p], f, "resume")]
    BY <1>1, <1>10 DEF StepReply, g
  <2> HIDE DEF f
  <2> QED BY <1>7, <2>1, <2>2 DEF Knows
<1>11. CASE StepPause(p)
  <2>1. pod' = [pod EXCEPT ![p] = Saving(pod[p], [g EXCEPT !.pending = NextStep(g)], "park")]
    BY <1>1, <1>11 DEF StepPause, g
  <2> QED BY <1>7, <2>1
<1> QED BY <1>8, <1>9, <1>10, <1>11 DEF Answer

\* Steps that leave a pod what it has in its hands, and lose no knowledge.
LEMMA SoloSame ==
    ASSUME Solo, SoloInv, TypeInv', progress' = progress, Known \subseteq Known',
           Mine \subseteq Mine',
           \A q \in Pods : /\ pod'[q].pc = pod[q].pc /\ pod'[q].batch = pod[q].batch
                          /\ pod'[q].job = pod[q].job /\ pod'[q].prog = pod[q].prog
                          /\ pod'[q].after = pod[q].after,
           \A j \in Jobs : row[j].status \in {"waiting_approval", "cancelled"} =>
               \/ row'[j].status \in {"waiting_approval", "cancelled"}
               \/ Knows(j, progress[j], Known')
    PROVE  SoloInv'
<1>1. ASSUME NEW q \in Pods PROVE HandsOK(pod'[q], Known', Mine')
  <2>1. HandsOK(pod[q], Known', Mine')
    BY HandsGrow DEF SoloInv
  <2> QED BY <2>1, HandsSame
<1>2. TableKnown'
  BY DEF SoloInv, TableKnown, Knows
<1> QED BY <1>1, <1>2 DEF SoloInv

LEMMA SoloOther ==
    ASSUME Solo, SoloInv, TypeInv', NEW p \in Pods, Beat(p) \/ Stop(p) \/ Tick
    PROVE  SoloInv'
<1>1. pod \in [Pods -> PodState] /\ row \in [Jobs -> Row]
  BY DEF SoloInv, TypeInv, TypeOK
<1>2. progress' = progress /\ Known' = Known /\ revived' = revived
  BY DEF Beat, Stop, Tick, Known
<1>3. ASSUME NEW q \in Pods
      PROVE  /\ pod'[q].pc = pod[q].pc /\ pod'[q].batch = pod[q].batch
             /\ pod'[q].job = pod[q].job /\ pod'[q].prog = pod[q].prog
             /\ pod'[q].after = pod[q].after
  <2>1. pod[q] \in PodState
    BY <1>1
  <2>2. CASE Beat(p)
    BY <1>1, <2>1, <2>2 DEF Beat, PodState
  <2>3. CASE Tick
    BY <1>1, <2>1, <2>3 DEF Tick, PodState
  <2> QED BY <2>2, <2>3 DEF Stop
<1>4. ASSUME NEW j \in Jobs PROVE row'[j].status = row[j].status
  <2>1. row[j] \in Row
    BY <1>1
  <2>2. RenewedRow(row[j]).status = row[j].status /\ AgedRow(row[j]).status = row[j].status
    BY <2>1 DEF RenewedRow, AgedRow, Row
  <2> QED BY <1>1, <2>2 DEF Beat, EndRun, Stop, Tick
<1>5. Mine' = Mine
  BY <1>2, <1>4 DEF Mine
<1> QED BY <1>2, <1>3, <1>4, <1>5, SoloSame

\* The callers.  An approval is granted, and a cancellation that is taken back is
\* on record.
LEMMA SoloCallers ==
    ASSUME Solo, SoloInv, TypeInv', NEW j \in Jobs,
           Approve(j) \/ Requeue(j) \/ Cancel(j) \/ Retry(j)
    PROVE  SoloInv'
<1>1. row \in [Jobs -> Row] /\ progress \in [Jobs -> Progress] /\ row[j] \in Row
  BY DEF SoloInv, TypeInv, TypeOK
<1>2. /\ progress' = progress /\ pod' = pod
      /\ granted \subseteq granted' /\ revived \subseteq revived'
  BY DEF Approve, Requeue, Cancel, Retry, Call
<1>3. \A k \in Jobs : k # j => row'[k] = row[k]
  BY <1>1 DEF Approve, Requeue, Cancel, Retry, Call
<1>4. UpdatedRow(row[j], "cancelled").status = "cancelled"
  BY <1>1 DEF UpdatedRow, Row
<1>5. CASE Cancel(j)
  <2>1. row'[j].status = "cancelled"
    BY <1>1, <1>4, <1>5 DEF Cancel, Call
  <2>2. Known \subseteq Known' /\ Mine \subseteq Mine'
    BY <1>2, <1>3, <2>1 DEF Known, Mine
  <2> QED BY <1>2, <1>3, <2>1, <2>2, SoloSame
<1>6. CASE Approve(j)
  <2>1. row[j].status = "waiting_approval" /\ progress[j].pending \in Step \cup {0}
    BY <1>1, <1>6 DEF Approve, Call, Progress
  <2>2. Known \subseteq Known' /\ Mine \subseteq Mine'
    BY <1>2, <1>3, <2>1 DEF Known, Mine
  <2>3. Knows(j, progress[j], Known')
    BY <1>6, <2>1 DEF Approve, Knows, Known
  <2> QED BY <1>2, <1>3, <2>2, <2>3, SoloSame
<1>7. CASE Requeue(j)
  <2>1. row[j].status \in {"failed", "dead", "cancelled"}
    BY <1>7, AllowedTargets DEF Requeue, Call
  <2>2. row[j].status = "cancelled" => j \in revived'
    BY <1>7 DEF Requeue
  <2>3. Known \subseteq Known' /\ Mine \subseteq Mine'
    BY <1>2, <1>3, <2>1, <2>2 DEF Known, Mine
  <2>4. progress[j].pending \in Step \cup {0}
    BY <1>1 DEF Progress
  <2>5. j \in revived' => Knows(j, progress[j], Known')
    BY <2>4 DEF Knows, Known
  <2> QED BY <1>2, <1>3, <2>1, <2>2, <2>3, <2>5, SoloSame
<1>8. CASE Retry(j)
  <2>1. row[j].status = "failed"
    BY <1>8 DEF Retry, Call
  <2>2. Known \subseteq Known' /\ Mine \subseteq Mine'
    BY <1>2, <1>3, <2>1 DEF Known, Mine
  <2> QED BY <1>2, <1>3, <2>1, <2>2, SoloSame
<1> QED BY <1>5, <1>6, <1>7, <1>8

LEMMA SoloPoller ==
    ASSUME Solo, SoloInv, TypeInv', NEW p \in Pods, Reap(p) \/ Claim(p) \/ Exit(p)
    PROVE  SoloInv'
<1>1. /\ pod \in [Pods -> PodState] /\ pod[p] \in PodState /\ row \in [Jobs -> Row]
      /\ TypeInv /\ pod[p].pc \in {"idle", "reaped"}
      /\ pod[p].pc # "park" /\ pod[p].pc \notin Running
      /\ progress' = progress /\ Known' = Known /\ revived' = revived
  BY DEF SoloInv, TypeInv, TypeOK, Reap, Claim, Exit, Known, Running
<1>2. pod[p].batch = <<>>
  BY <1>1 DEF SoloInv, HandsOK
<1>3. ASSUME \A j \in Jobs : row[j].status \in {"waiting_approval", "cancelled"} =>
                                 row'[j].status = row[j].status
      PROVE  TableKnown'
  BY <1>1, <1>3, TableSettled DEF TableKnown
<1>4. ASSUME NEW c \in {"reaped", "stopped"}, pod' = [pod EXCEPT ![p].pc = c], TableKnown'
      PROVE  SoloInv'
  <2> DEFINE t == [pod[p] EXCEPT !.pc = c]
  <2>1. t.pc = c /\ t.batch = <<>> /\ pod' = [pod EXCEPT ![p] = t]
    BY <1>1, <1>2, <1>4 DEF PodState
  <2> HIDE DEF t
  <2>2. HandsOK(t, Known', Mine')
    BY <2>1 DEF HandsOK, BatchOK, Running
  <2> QED BY <1>4, <2>1, <2>2, SoloFrame
<1>5. CASE Reap(p)
  <2>1. \A j \in Jobs : row[j].status \in {"waiting_approval", "cancelled"} => row'[j] = row[j]
    BY <1>5 DEF Reap, Expired
  <2> QED BY <1>3, <1>4, <1>5, <2>1 DEF Reap
<1>6. CASE Exit(p)
  BY <1>3, <1>4, <1>6 DEF Exit
<1>7. CASE Claim(p)
  <2>1. PICK order \in Orders(Batch) : pod' = [pod EXCEPT ![p] = Dispatched(Claimed(order))]
    BY <1>7 DEF Claim, Batch, Claimed
  <2>2. row' = [j \in Jobs |-> IF j \in Batch THEN StartedRow(row[j], p) ELSE row[j]]
    BY <1>7 DEF Claim, Batch
  <2>3. \A j \in Batch : j \in Jobs /\ row[j].status = "queued"
    BY DEF Batch, Oldest
  <2>4. \A j \in Batch : j \in Mine' /\ Knows(j, progress[j], Known)
    <3> TAKE j \in Batch
    <3>1. row[j] \in Row /\ row'[j] = StartedRow(row[j], p)
      BY <1>1, <2>2, <2>3
    <3>2. row'[j].status = "running"
      BY <3>1 DEF StartedRow, Row
    <3> QED BY <1>1, <2>3, <3>2, TableSettled DEF Mine
  <2>5. TableKnown'
    BY <1>3, <2>2, <2>3
  <2>6. /\ \A k \in DOMAIN order : order[k] \in Batch
        /\ \A k, l \in DOMAIN order : k # l => order[k] # order[l]
    BY DEF Orders
  <2>7. BatchOK(Claimed(order), Known', Mine')
    BY <1>1, <2>4, <2>6 DEF BatchOK, Claimed
  <2>8. HandsOK(Dispatched(Claimed(order)), Known', Mine')
    BY <1>1, <2>7, ClaimedTypes, DispatchedHands
  <2> QED BY <2>1, <2>5, <2>8, SoloFrame
<1> QED BY <1>5, <1>6, <1>7

LEMMA SoloSave ==
    ASSUME Solo, SoloInv, TypeInv', NEW p \in Pods, Save(p)
    PROVE  SoloInv'
<1> DEFINE s == pod[p]
           n == AfterSave(pod[p])
<1>1. /\ s \in PodState /\ s.pc = "save" /\ s.job \in Jobs /\ s.prog \in Progress
      /\ pod \in [Pods -> PodState] /\ progress \in [Jobs -> Progress]
  BY DEF Save, SoloInv, TypeInv, TypeOK, PodOK, Running, PodState
<1>2. /\ pod' = [pod EXCEPT ![p] = n] /\ progress' = [progress EXCEPT ![s.job] = s.prog]
      /\ row' = row /\ Known' = Known /\ Mine' = Mine
  BY DEF Save, Known, Mine
<1>3. /\ BatchOK(s.batch, Known, Mine) /\ s.job \in Mine
      /\ \A k \in DOMAIN s.batch : s.batch[k].job # s.job
      /\ Knows(s.job, s.prog, Known) \/ s.after = "park"
  BY <1>1 DEF SoloInv, HandsOK, AtHandOK, Running
<1>4. HandsOK(n, Known, Mine) /\ (s.after = "park" => n.pc = "park" /\ n.job = s.job)
  <2>1. CASE s.after = "resume"
    BY <1>1, <1>3, <2>1, ResumedHands DEF AfterSave
  <2>2. CASE s.after # "resume"
    <3>1. n.pc = s.after /\ n.batch = s.batch /\ n.job = s.job /\ n.prog = s.prog
      BY <1>1, <2>2 DEF AfterSave, PodState
    <3>2. n.pc \in {"park", "succeed", "fail"}
      BY <1>1, <2>2, <3>1 DEF PodState
    <3> HIDE DEF n
    <3>3. AtHandOK(n, Known, Mine)
      BY <1>3, <3>1, <3>2 DEF AtHandOK
    <3> QED BY <1>3, <3>1, <3>2, <3>3 DEF HandsOK, Running
  <2> QED BY <2>1, <2>2
<1>5. pod'[p] = n
  BY <1>1, <1>2
<1> HIDE DEF n
<1>6. TableKnown'
  <2> SUFFICES ASSUME NEW j \in Jobs
               PROVE  \/ Knows(j, progress'[j], Known)
                      \/ row[j].status \in {"waiting_approval", "cancelled"}
                      \/ pod'[p].pc = "park" /\ pod'[p].job = j
    BY <1>2 DEF TableKnown
  <2>1. CASE j = s.job
    BY <1>1, <1>2, <1>3, <1>4, <1>5, <2>1
  <2>2. CASE j # s.job
    <3>1. progress'[j] = progress[j]
      BY <1>1, <1>2, <2>2
    <3> QED BY <1>1, <3>1, TableSettled
  <2> QED BY <2>1, <2>2
<1> QED BY <1>2, <1>4, <1>6, SoloFrame

\* A run ends.  If its job does not run any more it was cancelled, and revived if
\* it is not cancelled now.
LEMMA SoloEnd ==
    ASSUME Solo, SoloInv, TypeInv', NEW p \in Pods, Succeed(p) \/ Park(p) \/ Fail(p)
    PROVE  SoloInv'
<1> DEFINE s == pod[p]
           j == pod[p].job
<1>1. /\ s \in PodState /\ s.pc \in {"succeed", "park", "fail"} /\ j \in Jobs
      /\ pod \in [Pods -> PodState] /\ row \in [Jobs -> Row] /\ row[j] \in Row
      /\ TypeInv /\ s.batch \in Seq(Item)
  BY DEF Succeed, Park, Fail, SoloInv, TypeInv, TypeOK, PodOK, Running, PodState
<1>2. /\ progress' = progress /\ Known' = Known /\ revived' = revived
      /\ \A k \in Jobs : k # j => row'[k] = row[k]
      /\ row[j].status # "running" => row' = row
  BY <1>1 DEF Succeed, Park, Fail, EndRun, Known
<1>3. /\ BatchOK(s.batch, Known, Mine) /\ j \in Mine
      /\ \A k \in DOMAIN s.batch : s.batch[k].job # j
      /\ s.pc = "succeed" => Knows(j, s.prog, Known)
  BY <1>1 DEF SoloInv, HandsOK, AtHandOK, Running
<1>4. s.pc = "park" /\ row[j].status = "running" => row'[j].status = "waiting_approval"
  <2>1. UpdatedRow(row[j], "waiting_approval").status = "waiting_approval"
    BY <1>1, ReleasedType DEF UpdatedRow, Row
  <2> QED BY <1>1, <2>1 DEF Succeed, Park, Fail, EndRun
<1>5. ASSUME NEW k \in Jobs
      PROVE  \/ Knows(k, progress[k], Known)
             \/ row'[k].status \in {"waiting_approval", "cancelled"}
  <2>1. CASE s.pc # "park" \/ k # j
    <3>1. Knows(k, progress[k], Known) \/ row[k].status \in {"waiting_approval", "cancelled"}
      BY <2>1 DEF SoloInv, TableKnown, Solo
    <3> QED BY <1>2, <3>1
  <2>2. CASE s.pc = "park" /\ k = j /\ row[j].status # "running"
    <3>1. progress[j].pending \in Step \cup {0}
      BY <1>1 DEF TypeInv, TypeOK, Progress
    <3>2. j \in revived => Knows(j, progress[j], Known)
      BY <3>1 DEF Knows, Known
    <3> QED BY <1>2, <1>3, <2>2, <3>2 DEF Mine
  <2> QED BY <1>4, <2>1, <2>2
<1>6. TableKnown'
  BY <1>2, <1>5 DEF TableKnown
<1>7. BatchOK(s.batch, Known', Mine')
  <2>1. \A k \in Mine : k # j => k \in Mine'
    BY <1>2 DEF Mine
  <2> QED BY <1>2, <1>3, <2>1 DEF BatchOK
<1>8. HandsOK(Dispatched(s.batch), Known', Mine')
  BY <1>1, <1>7, DispatchedHands
<1>9. ASSUME s.pc = "succeed", row[j].status # "running"
      PROVE  HandsOK(Erred(s), Known', Mine')
  <2>1. Mine' = Mine
    BY <1>2, <1>9 DEF Mine
  <2> QED BY <1>1, <1>2, <1>3, <1>9, <2>1, ErredHands
<1>10. \/ pod' = [pod EXCEPT ![p] = Dispatched(s.batch)]
       \/ /\ pod' = [pod EXCEPT ![p] = Erred(s)]
          /\ s.pc = "succeed" /\ row[j].status # "running"
  BY <1>1 DEF Succeed, Park, Fail
<1> HIDE DEF s, j
<1> QED BY <1>6, <1>8, <1>9, <1>10, SoloFrame

LEMMA SoloInit == Init => SoloInv
<1> SUFFICES ASSUME Init PROVE SoloInv
  OBVIOUS
<1>1. TypeInv
  BY TypeInit
<1>2. TableKnown
  BY DEF Init, TableKnown, Knows, NoProgress
<1>3. HandsOK(Idle, Known, Mine)
  BY IdleOK DEF HandsOK, BatchOK, Running
<1> QED BY <1>1, <1>2, <1>3 DEF Init, SoloInv

LEMMA SoloStep == Solo /\ SoloInv /\ [Next]_vars => SoloInv'
<1> SUFFICES ASSUME Solo, SoloInv, [Next]_vars PROVE SoloInv'
  OBVIOUS
<1>1. TypeInv /\ TypeInv'
  BY TypeStep DEF SoloInv
<1>2. ASSUME UNCHANGED vars PROVE SoloInv'
  BY <1>2 DEF vars, SoloInv, TypeInv, TypeOK, TableKnown, Known, Mine
<1>3. ASSUME NEW p \in Pods PROVE ~ Crash(p) /\ ~ DbError(p) /\ ~ MissedBeat(p)
  <2>1. budget.crashes \in 0 .. 0 /\ budget.dbErrors \in 0 .. 0
    BY <1>1 DEF Solo, TypeInv, TypeOK, Budget
  <2>2. ~ Spend("crashes") /\ ~ Spend("dbErrors")
    BY <2>1 DEF Spend
  <2> QED BY <2>2 DEF Crash, DbError, MissedBeat
<1>4. ASSUME NEW p \in Pods, Work(p) PROVE SoloInv'
  BY <1>1, <1>4, SoloPoller, SoloSave, SoloEnd DEF Work
<1>5. ASSUME NEW p \in Pods, Answer(p) PROVE SoloInv'
  BY <1>1, <1>5, SoloAnswer
<1>6. ASSUME NEW p \in Pods, Beat(p) \/ Stop(p) PROVE SoloInv'
  BY <1>1, <1>6, SoloOther
<1>7. CASE Tick
  <2>1. CASE Pods # {}
    BY <1>1, <1>7, <2>1, SoloOther
  <2>2. CASE Pods = {}
    <3>1. \A j \in Jobs : row'[j].status = row[j].status
      BY <1>1, <1>7 DEF Tick, AgedRow, TypeInv, TypeOK, Row
    <3>2. progress' = progress /\ Known' = Known /\ revived' = revived
      BY <1>7 DEF Tick, Known
    <3> QED BY <1>1, <2>2, <3>1, <3>2 DEF SoloInv, TableKnown
  <2> QED BY <2>1, <2>2
<1>8. ASSUME NEW j \in Jobs, Approve(j) \/ Requeue(j) \/ Cancel(j) \/ Retry(j)
      PROVE  SoloInv'
  BY <1>1, <1>8, SoloCallers
<1> QED BY <1>2, <1>3, <1>4, <1>5, <1>6, <1>7, <1>8 DEF Next

LEMMA SoloAlways == Solo /\ Spec => []SoloInv
<1>1. Solo /\ SoloInv /\ [Next]_vars => Solo' /\ SoloInv'
  BY SoloStep DEF Solo
<1> QED BY <1>1, SoloInit, PTL DEF Spec

\* Of one pod that neither dies nor sees a statement fail: the one way to run a
\* step as approved that no caller approved is that a caller takes a cancellation
\* of the job back, whatever the batch and however callers cancel, requeue, retry
\* and approve (runner.py:200-221, jobs.py:70-72, 325-339).
THEOREM ApprovedOrRevivedProved == Solo /\ Spec => []ApprovedOrRevived
<1>1. ASSUME SoloInv, NEW p \in Pods, pod[p].pc = "chat", Approved(pod[p].prog)
      PROVE  <<pod[p].job, NextStep(pod[p].prog)>> \in granted \/ pod[p].job \in revived
  <2>1. Knows(pod[p].job, pod[p].prog, Known)
    BY <1>1 DEF SoloInv, HandsOK, AtHandOK, Running
  <2>2. NextStep(pod[p].prog) \in Step
    BY <1>1, NextStepIsFirst DEF SoloInv, TypeInv, PodOK
  <2>3. NextStep(pod[p].prog) # 0
    BY <2>2, RunnerAssumption DEF Step
  <2> QED BY <1>1, <2>1, <2>3 DEF Knows, Known, Approved
<1>2. SoloInv => ApprovedOrRevived
  BY <1>1 DEF ApprovedOrRevived
<1> QED BY <1>2, SoloAlways, PTL
=============================================================================
