------------------------- MODULE TaskServiceProofs -------------------------
(***************************************************************************)
(* What holds of TaskService for any number of tasks and of RPCs in flight, *)
(* and for any bounds.                                                      *)
(***************************************************************************)
EXTENDS TaskService, TLAPS

\* A snapshot of t that says `completed` tells the truth.
Honest(s, t) ==
    s.status = "completed" =>
        phase[t] = "succeeded" /\ (t \in stray \/ s.result = output[t])

\* Only what has a job has a row or an RPC that proceeds.
HasJob ==
    /\ \A t \in Tasks : task[t] # NoTask => phase[t] # "absent"
    /\ \A c \in Callers : call[c].pc # "idle" => phase[call[c].task] # "absent"

\* CompletedIsTrue is not inductive: what is written was read some steps
\* earlier, so the snapshots in the hands of the RPCs must be honest too.
IInv ==
    /\ TypeOK
    /\ HasJob
    /\ \A t \in Tasks : Honest(task[t], t)
    /\ \A c \in Callers : Honest(call[c].seen, call[c].task)

\* All an RPC needs of the steps of the jobs: a succeeded job stays, with its
\* output unless a pod has lost it, and no job vanishes.
JobsAdvance ==
    /\ phase' \in [Tasks -> Job!Phase]
    /\ retriesLeft' \in [Tasks -> Nat]
    /\ output' \in [Tasks -> Outputs \cup {NoOutput}]
    /\ stray \subseteq stray' /\ stray' \subseteq Tasks
    /\ \A t \in Tasks :
          /\ phase[t] = "succeeded" =>
                phase'[t] = "succeeded" /\ (t \in stray' \/ output'[t] = output[t])
          /\ phase[t] # "absent" => phase'[t] # "absent"

-----------------------------------------------------------------------------

\* An idle RPC is a call: CHOOSE finds a task as there is one.
LEMMA NoCallType == NoCall \in Call
<1>1. (CHOOSE t \in Tasks : TRUE) \in Tasks
  BY TaskAssumption
<1> QED
  BY <1>1 DEF NoCall, Call, NoTask

\* An answer of job_svc is a snapshot, whatever the state of the job.
LEMMA RefType ==
    ASSUME TypeOK, NEW t \in Tasks, phase[t] # "absent"
    PROVE  Ref(t) \in Snapshot
<1>1. phase[t] \in Job!Phase /\ output[t] \in Outputs \cup {NoOutput}
  BY DEF TypeOK
<1>2. TaskStatus(phase[t]) \in {"pending", "running", "waiting_approval", "completed", "failed"}
  BY <1>1 DEF TaskStatus, Job!Phase
<1> QED
  BY <1>1, <1>2 DEF Ref, Snapshot, TaskStatuses

\* A fresh answer is honest: only `succeeded` reads as completed.
LEMMA RefHonest ==
    ASSUME TypeOK, NEW t \in Tasks
    PROVE  Honest(Ref(t), t)
<1>1. phase[t] \in Job!Phase
  BY DEF TypeOK
<1>2. TaskStatus(phase[t]) = "completed" => phase[t] = "succeeded"
  BY <1>1 DEF TaskStatus, Job!Phase
<1> QED
  BY <1>2 DEF Ref, Honest

\* A pod that has lost its job may be there for good.
LEMMA StrayGrows ==
    ASSUME TypeOK, NEW t \in Tasks, MayStray(t)
    PROVE  stray \subseteq stray' /\ stray' \subseteq Tasks
  BY DEF MayStray, TypeOK

\* The jobs advance when one of them takes a step of its lifecycle.
LEMMA OneJobAdvances ==
    ASSUME TypeOK, NEW t \in Tasks, OneJob(t), UNCHANGED output,
           stray \subseteq stray', stray' \subseteq Tasks,
           Job!Submit(t) \/ Job!Begin(t) \/ Job!End(t) \/ Job!Retry(t) \/ Job!Steer(t)
    PROVE  JobsAdvance
<1>1. PICK s \in Job!Phase, n \in RetryBudgets \cup {0} :
          /\ phase' = [phase EXCEPT ![t] = s]
          /\ retriesLeft' = [retriesLeft EXCEPT ![t] = n]
  BY DEF OneJob
<1>2. n \in Nat
  BY TaskAssumption
<1>3. phase' \in [Tasks -> Job!Phase] /\ retriesLeft' \in [Tasks -> Nat]
  BY <1>1, <1>2 DEF TypeOK
<1>4. phase[t] # "succeeded" /\ phase'[t] # "absent"
  BY DEF Job!Submit, Job!Begin, Job!End, Job!Retry, Job!Steer, Job!Moves
<1>5. \A u \in Tasks : u # t => phase'[u] = phase[u]
  BY <1>1 DEF TypeOK
<1> QED
  BY <1>3, <1>4, <1>5 DEF JobsAdvance, TypeOK

\* They also advance when nothing happens to them.
LEMMA IdleJobsAdvance ==
    ASSUME TypeOK, UNCHANGED jobVars
    PROVE  JobsAdvance
  BY DEF JobsAdvance, TypeOK, jobVars

\* Jobs that advance leave alone what the rows and the RPCs in hand say.
LEMMA AdvanceKeeps ==
    ASSUME IInv, JobsAdvance, UNCHANGED <<task, call>>,
           budget' \in [calls : 0 .. MaxCalls, direct : 0 .. MaxDirect, lost : 0 .. MaxLost],
           approvals' \in [Tasks -> Nat \cup {NeverPaused}]
    PROVE  IInv'
<1>1. TypeOK'
  BY DEF IInv, JobsAdvance, TypeOK
<1>2. \A c \in Callers : call[c].task \in Tasks
  BY DEF IInv, TypeOK, Call
<1>3. HasJob'
  BY <1>2 DEF IInv, HasJob, JobsAdvance
<1>4. \A t \in Tasks : Honest(task[t], t)'
  BY DEF IInv, Honest, JobsAdvance
<1>5. \A c \in Callers : Honest(call[c].seen, call[c].task)'
  BY <1>2 DEF IInv, Honest, JobsAdvance
<1> QED
  BY <1>1, <1>3, <1>4, <1>5 DEF IInv

\* Budgets are spent within their types.
LEMMA SpendType ==
    ASSUME TypeOK, NEW kind \in {"calls", "direct", "lost"}, Spend(kind)
    PROVE  budget' \in [calls : 0 .. MaxCalls, direct : 0 .. MaxDirect, lost : 0 .. MaxLost]
  BY TaskAssumption DEF TypeOK, Spend

\* An RPC begins for a task with a job, with an honest snapshot in hand.
LEMMA BeginKeeps ==
    ASSUME IInv, JobsAdvance, UNCHANGED task,
           NEW c \in Callers, NEW t \in Tasks, NEW pc \in {"insert", "fetch", "save"},
           NEW seen \in Snapshot \cup {NoTask}, Begins(c, pc, t, seen), phase'[t] # "absent",
           seen.status # "completed",
           budget' \in [calls : 0 .. MaxCalls, direct : 0 .. MaxDirect, lost : 0 .. MaxLost],
           approvals' \in [Tasks -> Nat \cup {NeverPaused}]
    PROVE  IInv'
<1>1. [pc |-> pc, task |-> t, seen |-> seen] \in Call
  BY DEF Call
<1>2. /\ call' \in [Callers -> Call]
      /\ call'[c] = [pc |-> pc, task |-> t, seen |-> seen]
      /\ \A d \in Callers : d # c => call'[d] = call[d]
  BY <1>1 DEF Begins, IInv, TypeOK
<1>3. \A d \in Callers : call[d].task \in Tasks
  BY DEF IInv, TypeOK, Call
<1>4. TypeOK'
  BY <1>2 DEF IInv, JobsAdvance, TypeOK
<1>5. HasJob'
  BY <1>2, <1>3 DEF IInv, HasJob, JobsAdvance
<1>6. \A u \in Tasks : Honest(task[u], u)'
  BY DEF IInv, Honest, JobsAdvance
<1>7. \A d \in Callers : Honest(call[d].seen, call[d].task)'
  BY <1>2, <1>3 DEF IInv, Honest, JobsAdvance
<1> QED
  BY <1>4, <1>5, <1>6, <1>7 DEF IInv

\* An RPC ends, having left the table alone or written what it had in hand.
LEMMA EndKeeps ==
    ASSUME IInv, UNCHANGED <<jobVars, approvals>>, NEW c \in Callers, call[c].pc # "idle", Ends(c),
           \/ UNCHANGED task
           \/ task' = [task EXCEPT ![call[c].task] = call[c].seen],
           budget' \in [calls : 0 .. MaxCalls, direct : 0 .. MaxDirect, lost : 0 .. MaxLost]
    PROVE  IInv'
<1>1. /\ call[c].task \in Tasks /\ call[c].seen \in Snapshot \cup {NoTask}
      /\ phase[call[c].task] # "absent"
      /\ Honest(call[c].seen, call[c].task)
  BY DEF IInv, HasJob, TypeOK, Call
<1>2. /\ call' \in [Callers -> Call]
      /\ call'[c] = NoCall
      /\ \A d \in Callers : d # c => call'[d] = call[d]
  BY NoCallType DEF Ends, IInv, TypeOK
<1>3. /\ task' \in [Tasks -> Snapshot \cup {NoTask}]
      /\ \A t \in Tasks : task'[t] = task[t] \/ (t = call[c].task /\ task'[t] = call[c].seen)
  BY <1>1 DEF IInv, TypeOK
<1>4. TypeOK'
  BY <1>2, <1>3 DEF IInv, TypeOK, jobVars
<1>5. HasJob'
  BY <1>1, <1>2, <1>3 DEF IInv, HasJob, NoCall, jobVars
<1>6. \A t \in Tasks : Honest(task[t], t)'
  BY <1>1, <1>3 DEF IInv, Honest, jobVars
<1>7. \A d \in Callers : Honest(call[d].seen, call[d].task)'
  BY <1>2 DEF IInv, Honest, NoCall, NoTask, jobVars
<1> QED
  BY <1>4, <1>5, <1>6, <1>7 DEF IInv

-----------------------------------------------------------------------------

LEMMA InitInv == Init => IInv
<1> SUFFICES ASSUME Init PROVE IInv
  OBVIOUS
<1>1. TypeOK
  BY NoCallType, TaskAssumption DEF Init, TypeOK, Job!Init, Job!Phase
<1>2. HasJob
  BY DEF Init, HasJob, NoCall
<1> QED
  BY <1>1, <1>2 DEF Init, IInv, Honest, NoCall, NoTask

LEMMA NextInv == IInv /\ [Next]_vars => IInv'
<1> SUFFICES ASSUME IInv, [Next]_vars PROVE IInv'
  OBVIOUS
<1> USE DEF Proceed
<1>0. TypeOK
  BY DEF IInv
<1>1. ASSUME NEW t \in Tasks, Work(t) PROVE IInv'
  <2>1. JobsAdvance
    <3>1. stray \subseteq stray' /\ stray' \subseteq Tasks
      BY <1>0, <1>1, StrayGrows DEF Work, TypeOK
    <3> QED BY <1>0, <1>1, <3>1, OneJobAdvances DEF Work
  <2>2. budget' = budget /\ approvals' \in [Tasks -> Nat \cup {NeverPaused}]
    BY <1>0, <1>1 DEF Work, Pauses, TypeOK
  <2> QED
    BY <1>0, <1>1, <2>1, <2>2, AdvanceKeeps DEF Work, TypeOK
<1>2. ASSUME NEW t \in Tasks, Output(t) PROVE IInv'
  <2>1. JobsAdvance
    BY <1>0, <1>2 DEF Output, JobsAdvance, TypeOK
  <2> QED
    BY <1>0, <1>2, <2>1, AdvanceKeeps DEF Output, TypeOK
<1>3. ASSUME NEW t \in Tasks, Direct(t) PROVE IInv'
  <2>1. JobsAdvance
    <3>1. stray \subseteq stray' /\ stray' \subseteq Tasks
      BY <1>0, <1>3, StrayGrows DEF Direct
    <3> QED BY <1>0, <1>3, <3>1, OneJobAdvances DEF Direct
  <2>2. approvals' \in [Tasks -> Nat \cup {NeverPaused}]
    BY <1>0, <1>3 DEF Direct, Pauses, TypeOK
  <2> QED
    BY <1>0, <1>3, <2>1, <2>2, SpendType, AdvanceKeeps DEF Direct
<1>4. ASSUME NEW c \in Callers, NEW t \in Tasks, CreateTask(c, t) PROVE IInv'
  <2>1. JobsAdvance
    BY <1>0, <1>4, OneJobAdvances DEF CreateTask, TypeOK
  <2>2. phase'[t] # "absent"
    BY <1>4 DEF CreateTask, Job!Submit, Job!Moves
  <2> DEFINE seen == [status |-> "pending", result |-> NoOutput]
  <2>3. seen \in Snapshot /\ seen.status # "completed"
    BY DEF Snapshot, TaskStatuses
  <2>4. Begins(c, "insert", t, seen)
    BY <1>4 DEF CreateTask
  <2> HIDE DEF seen
  <2> QED
    BY <1>0, <1>4, <2>1, <2>2, <2>3, <2>4, BeginKeeps DEF CreateTask, TypeOK
<1>5. ASSUME NEW c \in Callers, NEW t \in Tasks, GetTask(c, t) PROVE IInv'
  <2>1. JobsAdvance
    BY <1>0, <1>5, IdleJobsAdvance DEF GetTask
  <2>2. phase'[t] # "absent"
    BY <1>5 DEF GetTask, IInv, HasJob, jobVars
  <2>3. task[t] \in Snapshot \cup {NoTask} /\ task[t].status # "completed"
    BY <1>0, <1>5 DEF GetTask, Terminal, TypeOK
  <2> QED
    BY <1>0, <1>5, <2>1, <2>2, <2>3, BeginKeeps DEF GetTask, TypeOK
<1>6. ASSUME NEW c \in Callers, NEW t \in Tasks, ApproveTask(c, t) PROVE IInv'
  <2>1. JobsAdvance
    BY <1>0, <1>6, OneJobAdvances DEF ApproveTask, TypeOK
  <2>2. phase'[t] # "absent"
    BY <1>6 DEF ApproveTask
  <2> DEFINE seen == [status |-> "pending", result |-> output[t]]
  <2>3. seen \in Snapshot /\ seen.status # "completed"
    BY <1>0 DEF Snapshot, TaskStatuses, TypeOK
  <2>4. Begins(c, "save", t, seen) /\ UNCHANGED task
    BY <1>6 DEF ApproveTask
  <2>5. approvals' \in [Tasks -> Nat \cup {NeverPaused}]
    <3>1. (IF approvals[t] = NeverPaused THEN approvals[t] ELSE approvals[t] + 1)
              \in Nat \cup {NeverPaused}
      BY <1>0 DEF TypeOK
    <3> QED
      BY <1>0, <1>6, <3>1 DEF ApproveTask, TypeOK
  <2>6. budget' \in [calls : 0 .. MaxCalls, direct : 0 .. MaxDirect, lost : 0 .. MaxLost]
    BY <1>0, <1>6, SpendType DEF ApproveTask
  <2> HIDE DEF seen
  <2> QED
    BY <2>1, <2>2, <2>3, <2>4, <2>5, <2>6, BeginKeeps
<1>7. ASSUME NEW c \in Callers, NEW t \in Tasks, RetryTask(c, t) PROVE IInv'
  <2>1. JobsAdvance
    BY <1>0, <1>7, OneJobAdvances DEF RetryTask, TypeOK
  <2>2. phase'[t] # "absent"
    BY <1>7 DEF RetryTask, Job!Retry, Job!Moves
  <2> DEFINE seen == [status |-> "pending", result |-> output[t]]
  <2>3. seen \in Snapshot /\ seen.status # "completed"
    BY <1>0 DEF Snapshot, TaskStatuses, TypeOK
  <2>4. Begins(c, "save", t, seen) /\ UNCHANGED <<task, approvals>>
    BY <1>7 DEF RetryTask
  <2>5. budget' \in [calls : 0 .. MaxCalls, direct : 0 .. MaxDirect, lost : 0 .. MaxLost]
    BY <1>0, <1>7, SpendType DEF RetryTask
  <2> HIDE DEF seen
  <2> QED
    BY <1>0, <2>1, <2>2, <2>3, <2>4, <2>5, BeginKeeps DEF TypeOK
<1>8. ASSUME NEW c \in Callers, Insert(c) \/ Refresh(c) \/ SaveStatus(c) PROVE IInv'
  <2>1. budget' = budget
    BY <1>8 DEF Insert, Refresh, SaveStatus
  <2> QED
    BY <1>0, <1>8, <2>1, EndKeeps DEF Insert, Refresh, SaveStatus, TypeOK
<1>9. ASSUME NEW c \in Callers, Lost(c) PROVE IInv'
  BY <1>0, <1>9, SpendType, EndKeeps DEF Lost
<1>10. ASSUME NEW c \in Callers, Fetch(c) PROVE IInv'
  <2> DEFINE u == call[c].task
  <2>1. u \in Tasks /\ call[c] \in Call /\ phase[u] # "absent"
    BY <1>0, <1>10 DEF Fetch, IInv, HasJob, TypeOK, Call
  <2>2. CASE Ref(u) = call[c].seen
    BY <1>0, <1>10, <2>2, EndKeeps DEF Fetch, TypeOK
  <2>3. CASE Ref(u) # call[c].seen
    <3>1. /\ Ref(u) \in Snapshot
          /\ Honest(Ref(u), u)
      BY <1>0, <2>1, RefType, RefHonest
    <3>2. call' = [call EXCEPT ![c] = [pc |-> "refresh", task |-> u, seen |-> Ref(u)]]
      BY <1>0, <1>10, <2>1, <2>3 DEF Fetch, TypeOK, Call
    <3>3. [pc |-> "refresh", task |-> u, seen |-> Ref(u)] \in Call
      BY <2>1, <3>1 DEF Call
    <3>4. TypeOK'
      BY <1>0, <1>10, <3>2, <3>3 DEF Fetch, TypeOK, jobVars
    <3>5. HasJob'
      BY <1>0, <1>10, <2>1, <3>2 DEF Fetch, IInv, HasJob, TypeOK, jobVars
    <3>6. \A t \in Tasks : Honest(task[t], t)'
      BY <1>10 DEF Fetch, IInv, Honest, jobVars
    <3>7. \A d \in Callers : Honest(call[d].seen, call[d].task)'
      BY <1>0, <1>10, <3>1, <3>2 DEF Fetch, IInv, Honest, TypeOK, jobVars
    <3> QED
      BY <3>4, <3>5, <3>6, <3>7 DEF IInv
  <2> QED
    BY <2>2, <2>3
<1>11. CASE UNCHANGED vars
  BY <1>0, <1>11, IdleJobsAdvance, AdvanceKeeps DEF vars, jobVars, TypeOK
<1> QED
  BY <1>1, <1>2, <1>3, <1>4, <1>5, <1>6, <1>7, <1>8, <1>9, <1>10, <1>11 DEF Next

LEMMA Invariance == Spec => []IInv
  BY InitInv, NextInv, PTL DEF Spec

\* Every row, job and RPC keeps its type.
THEOREM TypeCorrect == Spec => []TypeOK
<1>1. IInv => TypeOK
  BY DEF IInv
<1> QED
  BY <1>1, Invariance, PTL

\* Whatever is lost, stale or retried, for any number of tasks, of results and of
\* RPCs in flight: a task shown as completed is, with the output of its job, unless
\* a pod has lost the job and may still write another (tasks.py:189-217,
\* jobs.py:325-339).
THEOREM CompletedTruth == Spec => []CompletedIsTrue
<1>1. IInv => CompletedIsTrue
  BY DEF IInv, Honest, CompletedIsTrue
<1> QED
  BY <1>1, Invariance, PTL

\* No task row without a job: create submits the job first, and a job is
\* never deleted.
THEOREM NoOrphanTask == Spec => [](\A t \in Tasks : task[t] # NoTask => phase[t] # "absent")
<1>1. IInv => \A t \in Tasks : task[t] # NoTask => phase[t] # "absent"
  BY DEF IInv, HasJob
<1> QED
  BY <1>1, Invariance, PTL

=============================================================================
