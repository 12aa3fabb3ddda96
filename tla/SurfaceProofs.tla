---------------------------- MODULE SurfaceProofs ----------------------------
(***************************************************************************)
(* What holds of Surface for any tenants, ids, rows and callers, and for a   *)
(* plan of any length.                                                       *)
(***************************************************************************)
EXTENDS Surface, TLAPS

----------------------------------------------------------------------------
(* The inductive invariant.  None of the properties is inductive alone: what *)
(* a call reports in the end is about the row it has looked up some steps     *)
(* before, and about what it has changed since.                              *)

Active == {"agents", "load", "remote", "store"}
Writers == {"CreateTask", "ApproveTask", "RetryTask"}

\* A call taken by itself: it changes nothing before job_svc has acted, and of
\* the calls that write a task none gets there without having changed the job.
CallInv(d) ==
    /\ {d.changed, d.shown} \subseteq {d.tenant, NoTenant}
    /\ d.pc \in Active =>
          /\ d.tenant \in Tenants /\ d.method \in TaskMethods /\ d.code = "none"
          /\ d.method = "CreateTask" => ~d.had
    /\ d.pc \in Active \ {"store"} => d.changed = NoTenant
    /\ d.pc = "agents" => d.method = "CreateTask"
    /\ d.pc = "load" => d.method # "CreateTask"
    /\ d.pc = "store" => d.method # "GetTaskProgress"
    /\ d.pc = "store" /\ d.method \in Writers => d.changed = d.tenant
    /\ d.code \in Refusals => d.changed = NoTenant
    /\ d.code = "OK" /\ d.method \in Writers => d.changed = d.tenant
    /\ d.had => d.code # "NOT_FOUND"

\* A call and the tables: the row that it has found stays its tenant's.
HoldsRow(d, tasks, jobs, known) ==
    /\ d.pc \in Active /\ d.had => tasks[d.id].tenant = d.tenant
    /\ d.pc \in {"remote", "store"} /\ d.method # "CreateTask" =>
          tasks[d.id].tenant = d.tenant
    /\ d.pc = "store" /\ d.method = "CreateTask" => jobs[d.id].tenant = d.tenant
    /\ d.pc \in {"remote", "store"} /\ d.method = "CreateTask" => d.tenant \in known

\* Agents and tools.
CatalogInv ==
    /\ agent \in [Agents -> Agent] /\ tool \in [Tools -> Owner]
    /\ configured \subseteq Tenants
    /\ \A a \in Agents :
          /\ agent[a].links # {} => agent[a].tenant # NoTenant
          /\ agent[a].tenant \in configured \cup {NoTenant}
          /\ \A t \in agent[a].links : tool[t] = agent[a].tenant

\* No step is done without a plan, and a row that is there has a status.
Whole(r) == (r.steps > 0 => r.plan) /\ (r.tenant # NoTenant => r.status # "absent")

\* Tasks and jobs.
TablesInv ==
    /\ job \in [Ids -> Job] /\ task \in [Ids -> Task]
    /\ \A i \in Ids :
          /\ task[i].tenant # NoTenant => job[i].tenant = task[i].tenant
          /\ task[i].tenant \in configured \cup {NoTenant}
          /\ Whole(job[i])

CallsInv ==
    /\ call \in [Callers -> Call] /\ left \in 0 .. MaxCalls
    /\ \A c \in Callers : CallInv(call[c]) /\ HoldsRow(call[c], task, job, configured)

IInv == CatalogInv /\ TablesInv /\ CallsInv

\* What any step may do to a job: it keeps its tenant, a success stays, and the
\* checkpoint only grows, unless pods that share the job overwrite it.
Rises(r, s) ==
    /\ s.tenant = r.tenant
    /\ r.status = "succeeded" => s.status = "succeeded"
Grows(r, s) ==
    /\ r.plan => s.plan
    /\ r.steps <= s.steps

JobsRise ==
    /\ job' \in [Ids -> Job]
    /\ \A i \in Ids : /\ job[i] # NoJob =>
                           /\ Rises(job[i], job'[i])
                           /\ Grows(job[i], job'[i]) \/ Overwrite(i)
                      /\ Whole(job'[i])

\* And to a task and to the history.
TasksKept ==
    /\ task' \in [Ids -> Task]
    /\ configured \subseteq configured' /\ configured' \subseteq Tenants
    /\ \A i \in Ids :
          /\ task[i].tenant # NoTenant => task'[i].tenant = task[i].tenant
          /\ task'[i].tenant # NoTenant => job'[i].tenant = task'[i].tenant
          /\ task'[i].tenant \in configured' \cup {NoTenant}

----------------------------------------------------------------------------
(* Calls                                                                     *)

LEMMA SomeId == (CHOOSE i \in Ids : TRUE) \in Ids
  BY SurfaceAssumption

LEMMA NoCallType ==
    /\ NoCall \in Call /\ NoCall.pc = "idle" /\ NoCall.method = "other"
    /\ NoCall.tenant = NoTenant /\ ~NoCall.had /\ NoCall.row = NoSnapshot
    /\ NoCall.changed = NoTenant /\ NoCall.shown = NoTenant /\ NoCall.code = "none"
  BY SomeId DEF NoCall, Call, Owner, Codes

LEMMA AnsweredFields ==
    ASSUME NEW d \in Call, NEW code \in Codes, NEW shown \in Owner
    PROVE  /\ Answered(d, code, shown) \in Call
           /\ Answered(d, code, shown).pc = "done"
           /\ Answered(d, code, shown).method = d.method
           /\ Answered(d, code, shown).tenant = d.tenant
           /\ Answered(d, code, shown).had = d.had
           /\ Answered(d, code, shown).changed = d.changed
           /\ Answered(d, code, shown).shown = shown
           /\ Answered(d, code, shown).code = code
  BY NoCallType DEF Answered, Call

\* An answer is in order if its code fits what the call has changed.
LEMMA AnsweredInv ==
    ASSUME NEW d \in Call, NEW code \in Codes, NEW shown \in {d.tenant, NoTenant},
           d.changed \in {d.tenant, NoTenant},
           code \in Refusals => d.changed = NoTenant,
           code = "OK" /\ d.method \in Writers => d.changed = d.tenant,
           d.had => code # "NOT_FOUND",
           NEW tasks, NEW jobs, NEW known
    PROVE  /\ Answered(d, code, shown) \in Call
           /\ CallInv(Answered(d, code, shown))
           /\ HoldsRow(Answered(d, code, shown), tasks, jobs, known)
<1>1. shown \in Owner
  BY DEF Call, Owner
<1> QED
  BY <1>1, AnsweredFields DEF CallInv, HoldsRow, Active

\* The statuses of errors.
LEMMA Statuses ==
    /\ Status("NotFoundError") = "NOT_FOUND"
    /\ Status("ValidationError") = "INVALID_ARGUMENT"
    /\ Status("AuthenticationError") = "UNAUTHENTICATED"
    /\ Status("ConflictError") = "ALREADY_EXISTS"
    /\ Status("StateError") = "FAILED_PRECONDITION"
    /\ Status("SQLAlchemyError") = "INTERNAL" /\ Status("AppError") = "INTERNAL"
  BY DEF Status, StatusByError

\* And what becomes of those that another service sends.
LEMMA Relayed ==
    /\ Raised("NOT_FOUND") = "NotFoundError"
    /\ Raised("FAILED_PRECONDITION") = "StateError"
    /\ Raised("UNAVAILABLE") = "AppError"
  BY DEF Raised, ErrorByCode

\* Whatever the tables go through, a call keeps the row that it holds.
LEMMA HeldRowStays ==
    ASSUME JobsRise, TasksKept, NEW e \in Call, CallInv(e),
           HoldsRow(e, task, job, configured)
    PROVE  HoldsRow(e, task', job', configured')
<1>1. e.id \in Ids /\ (e.pc \in Active => e.tenant # NoTenant)
  BY SurfaceAssumption DEF Call, CallInv
<1>2. /\ task[e.id].tenant # NoTenant => task'[e.id].tenant = task[e.id].tenant
      /\ job[e.id].tenant # NoTenant => job'[e.id].tenant = job[e.id].tenant
  BY <1>1 DEF TasksKept, JobsRise, Rises, NoJob
<1> QED BY <1>1, <1>2 DEF HoldsRow, TasksKept, Active

LEMMA CallsKept ==
    ASSUME IInv, JobsRise, TasksKept, CatalogInv', left' \in 0 .. MaxCalls,
           NEW c \in Callers, NEW new \in Call, call' = [call EXCEPT ![c] = new],
           CallInv(new), HoldsRow(new, task', job', configured')
    PROVE  IInv'
<1>1. TablesInv'
  BY DEF JobsRise, TasksKept, TablesInv
<1>2. call' \in [Callers -> Call]
  BY DEF IInv, CallsInv
<1>3. ASSUME NEW d \in Callers
      PROVE  CallInv(call'[d]) /\ HoldsRow(call'[d], task', job', configured')
  <2>1. CASE d = c
    BY <2>1 DEF IInv, CallsInv
  <2>2. CASE d # c
    <3> DEFINE e == call[d]
    <3>1. call'[d] = e
      BY <2>2 DEF IInv, CallsInv
    <3>2. e \in Call /\ CallInv(e) /\ HoldsRow(e, task, job, configured)
      BY DEF IInv, CallsInv
    <3> HIDE DEF e
    <3>3. HoldsRow(e, task', job', configured')
      BY <3>2, HeldRowStays
    <3> QED BY <3>1, <3>2, <3>3
  <2> QED BY <2>1, <2>2
<1> QED BY <1>1, <1>2, <1>3 DEF IInv, CallsInv

----------------------------------------------------------------------------
(* Jobs                                                                      *)

LEMMA NothingRises ==
    ASSUME TablesInv, UNCHANGED job
    PROVE  JobsRise
  BY DEF TablesInv, JobsRise, Rises, Grows, Job

LEMMA OneRises ==
    ASSUME TablesInv, NEW i \in Ids, NEW r \in Job, job' = [job EXCEPT ![i] = r],
           job[i] # NoJob => Rises(job[i], r) /\ (Grows(job[i], r) \/ Overwrite(i)),
           Whole(r)
    PROVE  JobsRise
<1>1. job' \in [Ids -> Job]
  BY DEF TablesInv
<1>2. ASSUME NEW k \in Ids
      PROVE  /\ job[k] # NoJob =>
                    /\ Rises(job[k], job'[k])
                    /\ Grows(job[k], job'[k]) \/ Overwrite(k)
             /\ Whole(job'[k])
  <2>1. job[k] \in Job /\ Rises(job[k], job[k]) /\ Grows(job[k], job[k])
    BY DEF TablesInv, Rises, Grows, Job
  <2>2. CASE k = i
    BY <2>2 DEF TablesInv
  <2>3. CASE k # i
    BY <2>1, <2>3 DEF TablesInv
  <2> QED BY <2>2, <2>3
<1> QED BY <1>1, <1>2 DEF JobsRise

\* Nothing leads out of `succeeded`, whether a pod loses the job by it or not.
LEMMA TakenRises ==
    ASSUME TablesInv, NEW i \in Ids, NEW s \in Rows!Status, NEW lost \in BOOLEAN,
           job[i].status # "succeeded",
           job' = [job EXCEPT ![i].status = s, ![i].lost = lost]
    PROVE  JobsRise
<1> DEFINE r == [job[i] EXCEPT !.status = s, !.lost = lost]
<1>1. job[i] \in Job /\ Whole(job[i])
  BY DEF TablesInv
<1>2. /\ r \in Job /\ r.plan = job[i].plan /\ r.steps = job[i].steps
      /\ r.tenant = job[i].tenant /\ r.status = s
  BY <1>1 DEF Job
<1>3. Rises(job[i], r) /\ Grows(job[i], r) /\ s # "absent"
  BY <1>1, <1>2 DEF Rises, Grows, Job, Rows!Status
<1>4. job' = [job EXCEPT ![i] = r]
  BY DEF TablesInv
<1> HIDE DEF r
<1>5. Whole(r)
  BY <1>1, <1>2, <1>3 DEF Whole
<1> QED BY <1>2, <1>3, <1>4, <1>5, OneRises

LEMMA StatusRises ==
    ASSUME TablesInv, NEW i \in Ids, NEW s \in Rows!Status, job[i].status # "succeeded",
           job' = [job EXCEPT ![i].status = s]
    PROVE  JobsRise
<1> DEFINE lost == job[i].lost
<1>1. job[i] \in Job /\ lost \in BOOLEAN
  BY DEF TablesInv, Job
<1>2. [job[i] EXCEPT !.status = s] = [job[i] EXCEPT !.status = s, !.lost = lost]
  BY <1>1 DEF Job
<1>3. job' = [job EXCEPT ![i].status = s, ![i].lost = lost]
  BY <1>2 DEF TablesInv
<1> HIDE DEF lost
<1> QED BY <1>1, <1>3, TakenRises

LEMMA LosesType ==
    ASSUME TablesInv, NEW i \in Ids
    PROVE  Loses(i) \subseteq BOOLEAN
<1>1. job[i] \in Job
  BY DEF TablesInv
<1> QED BY <1>1 DEF Loses, Job

LEMMA NewJobType ==
    ASSUME NEW n \in Tenants
    PROVE  /\ NewJob(n) \in Job /\ NewJob(n).steps = 0 /\ NewJob(n).tenant = n
           /\ NewJob(n).status = "queued" /\ NoJob \in Job /\ NewJob(n).plan = FALSE
<1>1. NoJob \in Job
  BY SurfaceAssumption DEF NoJob, Job, Owner
<1>2. n \in Owner /\ "queued" \in Rows!Status
  BY DEF Owner, Rows!Status
<1>3. NewJob(n) = [NoJob EXCEPT !.tenant = n, !.status = "queued"]
  BY DEF NewJob
<1>4. NewJob(n) \in Job
  BY <1>1, <1>2, <1>3 DEF Job
<1>5. NoJob.steps = 0 /\ NoJob.plan = FALSE
  BY DEF NoJob
<1>6. /\ NewJob(n).steps = NoJob.steps /\ NewJob(n).plan = NoJob.plan /\ NewJob(n).tenant = n
      /\ NewJob(n).status = "queued"
  BY <1>1, <1>3 DEF Job
<1> QED BY <1>1, <1>4, <1>5, <1>6

LEMMA NewJobRises ==
    ASSUME TablesInv, NEW i \in Ids, NEW n \in Tenants, job[i] = NoJob,
           job' = [job EXCEPT ![i] = NewJob(n)]
    PROVE  JobsRise /\ job'[i].tenant = n
<1> DEFINE r == NewJob(n)
<1>1. r \in Job /\ r.steps = 0 /\ r.tenant = n /\ r.status = "queued"
  BY NewJobType
<1>2. job' = [job EXCEPT ![i] = r] /\ job'[i] = r
  BY DEF TablesInv
<1>3. Whole(r)
  BY <1>1 DEF Whole
<1> HIDE DEF r
<1>4. JobsRise
  BY <1>1, <1>2, <1>3, OneRises
<1> QED BY <1>1, <1>2, <1>4

\* What a guarded update matches is the tenant's and in the source.
LEMMA GuardPasses ==
    ASSUME NEW n \in Owner, NEW i \in Ids, NEW from, Guard(n, i, from) = "none"
    PROVE  n # NoTenant /\ job[i].tenant = n /\ job[i].status \in from
  BY DEF Guard, Found

LEMMA GuardMisses ==
    ASSUME NEW n \in Owner, NEW i \in Ids, NEW from, Guard(n, i, from) # "none"
    PROVE  /\ Guard(n, i, from) \in {"NotFoundError", "StateError"}
           /\ n # NoTenant /\ job[i].tenant = n => Guard(n, i, from) = "StateError"
  BY DEF Guard, Found

LEMMA Transitions ==
    ASSUME NEW target \in Rows!Status, NEW i \in Ids
    PROVE  "succeeded" \notin Sources(target) /\ Targets(i, target) \subseteq Rows!Status
  BY DEF Sources, Targets, Rows!Status, Rows!AllowedEntry

LEMMA WorkRises ==
    ASSUME TablesInv, Work
    PROVE  JobsRise
<1>1. PICK i \in Ids : Claim(i) \/ Checkpoint(i) \/ EndRun(i) \/ Reap(i)
  BY DEF Work
<1>2. job[i] \in Job /\ Whole(job[i])
  BY DEF TablesInv
<1>3. CASE Claim(i)
  BY <1>3, StatusRises DEF Claim, Rows!Status
<1>4. CASE EndRun(i)
  <2>1. PICK s \in {"succeeded", "waiting_approval", "queued", "failed", "dead"} :
          job' = [job EXCEPT ![i].status = s]
    BY <1>4 DEF EndRun
  <2> QED BY <1>4, <2>1, StatusRises DEF EndRun, Rows!Status
<1>5. CASE Advance(i)
  <2>1. CASE job' = [job EXCEPT ![i].plan = TRUE]
    <3> DEFINE r == [job[i] EXCEPT !.plan = TRUE]
    <3>1. /\ r \in Job /\ r.plan = TRUE /\ r.steps = job[i].steps
          /\ r.status = job[i].status /\ r.tenant = job[i].tenant
      BY <1>2 DEF Job
    <3>2. job' = [job EXCEPT ![i] = r]
      BY <2>1 DEF TablesInv
    <3> HIDE DEF r
    <3>3. Whole(r) /\ Rises(job[i], r) /\ Grows(job[i], r)
      BY <1>2, <3>1 DEF Rises, Grows, Job, Whole
    <3> QED BY <3>1, <3>2, <3>3, OneRises
  <2>2. CASE /\ job[i].plan /\ job[i].steps < PlanLength
             /\ job' = [job EXCEPT ![i].steps = @ + 1]
    <3> DEFINE n == job[i].steps + 1
               r == [job[i] EXCEPT !.steps = n]
    <3>1. n \in 0 .. PlanLength /\ job[i].steps <= n
      BY <1>2, <2>2, SurfaceAssumption DEF Job
    <3>2. job' = [job EXCEPT ![i] = r]
      BY <2>2 DEF TablesInv
    <3> HIDE DEF n
    <3>3. r \in Job /\ Whole(r) /\ Rises(job[i], r) /\ Grows(job[i], r)
      BY <1>2, <2>2, <3>1 DEF Rises, Grows, Job, Whole
    <3> HIDE DEF r
    <3> QED BY <3>2, <3>3, OneRises
  <2>3. CASE job' = [job EXCEPT ![i].result = TRUE]
    <3> DEFINE r == [job[i] EXCEPT !.result = TRUE]
    <3>1. /\ r \in Job /\ r.plan = job[i].plan /\ r.steps = job[i].steps
          /\ r.status = job[i].status /\ r.tenant = job[i].tenant
      BY <1>2 DEF Job
    <3>2. job' = [job EXCEPT ![i] = r]
      BY <2>3 DEF TablesInv
    <3> HIDE DEF r
    <3>3. Whole(r) /\ Rises(job[i], r) /\ Grows(job[i], r)
      BY <1>2, <3>1 DEF Rises, Grows, Job, Whole
    <3> QED BY <3>1, <3>2, <3>3, OneRises
  <2> QED BY <1>5, <2>1, <2>2, <2>3 DEF Advance
<1>6. CASE Overwrite(i)
  <2>1. PICK steps \in 0 .. PlanLength, result \in BOOLEAN :
          job' = [job EXCEPT ![i].plan = TRUE, ![i].steps = steps, ![i].result = result]
    BY <1>6 DEF Overwrite
  <2> DEFINE r == [job[i] EXCEPT !.plan = TRUE, !.steps = steps, !.result = result]
  <2>2. r \in Job /\ r.plan /\ r.status = job[i].status /\ r.tenant = job[i].tenant
    BY <1>2 DEF Job
  <2>3. job' = [job EXCEPT ![i] = r]
    BY <2>1 DEF TablesInv
  <2> HIDE DEF r
  <2>4. Whole(r) /\ Rises(job[i], r)
    BY <1>2, <2>2 DEF Rises, Whole
  <2> QED BY <1>6, <2>2, <2>3, <2>4, OneRises
<1>7. CASE Reap(i)
  <2>1. PICK s \in {"queued", "failed", "dead"}, lost \in Loses(i) :
          job' = [job EXCEPT ![i].status = s, ![i].lost = lost]
    BY <1>7 DEF Reap
  <2>2. s \in Rows!Status /\ lost \in BOOLEAN /\ job[i].status # "succeeded"
    BY <1>7, <2>1, LosesType DEF Reap, Rows!Status
  <2> QED BY <2>1, <2>2, TakenRises
<1> QED BY <1>1, <1>3, <1>4, <1>5, <1>6, <1>7 DEF Checkpoint

----------------------------------------------------------------------------
(* Calls that are one statement                                              *)

\* A step that leaves all tables but that of the jobs alone.
LEMMA OnlyJobs ==
    ASSUME IInv, JobsRise, UNCHANGED <<agent, tool, task, configured>>
    PROVE  TasksKept /\ CatalogInv'
<1>1. ASSUME NEW i \in Ids, task[i].tenant # NoTenant
      PROVE  job'[i].tenant = task[i].tenant
  <2>1. job[i].tenant = task[i].tenant /\ job[i] # NoJob
    BY <1>1 DEF IInv, TablesInv, NoJob
  <2> QED BY <2>1 DEF JobsRise, Rises
<1>2. TasksKept
  BY <1>1 DEF IInv, TablesInv, CatalogInv, TasksKept
<1>3. CatalogInv'
  BY DEF IInv, CatalogInv
<1> QED BY <1>2, <1>3

LEMMA NoTables ==
    ASSUME IInv, UNCHANGED <<agent, tool, job, task, configured>>
    PROVE  JobsRise /\ TasksKept /\ CatalogInv'
  BY NothingRises, OnlyJobs DEF IInv

LEMMA RequestType ==
    ASSUME NEW n \in Owner
    PROVE  /\ Request(n) \in Call /\ Request(n).tenant = n /\ Request(n).method = "other"
           /\ Request(n).changed = NoTenant /\ ~Request(n).had
  BY NoCallType DEF Request, Call

LEMMA BeginsKeeps ==
    ASSUME IInv, JobsRise, TasksKept, CatalogInv', NEW c \in Callers, NEW new \in Call,
           Begins(c, new), CallInv(new), HoldsRow(new, task', job', configured')
    PROVE  IInv'
<1>1. left' \in 0 .. MaxCalls
  BY SurfaceAssumption DEF Begins, IInv, CallsInv
<1> QED BY <1>1, CallsKept DEF Begins

LEMMA RefuseKeeps ==
    ASSUME IInv, NEW c \in Callers, NEW n \in Owner,
           NEW error \in {"NotFoundError", "ValidationError", "AuthenticationError",
                           "ConflictError", "StateError"},
           Refuse(c, n, error)
    PROVE  IInv'
<1> DEFINE new == Answered(Request(n), Status(error), NoTenant)
<1>1. Begins(c, new) /\ UNCHANGED <<agent, tool, job, task, configured>>
  BY DEF Refuse
<1>2. Status(error) \in Codes /\ Status(error) # "OK"
  BY Statuses DEF Codes
<1>3. new \in Call /\ CallInv(new) /\ HoldsRow(new, task', job', configured')
  BY <1>2, RequestType, AnsweredInv
<1> HIDE DEF new
<1> QED BY <1>1, <1>3, NoTables, BeginsKeeps

LEMMA ShowKeeps ==
    ASSUME IInv, NEW c \in Callers, NEW n \in Tenants, NEW whose \in {n, NoTenant},
           Show(c, n, whose)
    PROVE  IInv'
<1> DEFINE new == Answered(Request(n), "OK", whose)
<1>1. Begins(c, new) /\ UNCHANGED <<agent, tool, job, task, configured>>
  BY DEF Show
<1>2. "OK" \in Codes /\ "OK" \notin Refusals /\ "other" \notin Writers /\ n \in Owner
  BY DEF Codes, Refusals, Writers, Owner
<1>3. new \in Call /\ CallInv(new) /\ HoldsRow(new, task', job', configured')
  BY <1>2, RequestType, AnsweredInv
<1> HIDE DEF new
<1> QED BY <1>1, <1>3, NoTables, BeginsKeeps

LEMMA ChangeKeeps ==
    ASSUME IInv, JobsRise, TasksKept, CatalogInv', NEW c \in Callers, NEW n \in Tenants,
           Change(c, n, n)
    PROVE  IInv'
<1> DEFINE d == [Request(n) EXCEPT !.changed = n]
           new == Answered(d, "OK", n)
<1>1. Begins(c, new)
  BY DEF Change
<1>2. n \in Owner /\ "OK" \in Codes /\ "OK" \notin Refusals /\ "other" \notin Writers
  BY DEF Codes, Refusals, Writers, Owner
<1>3. d \in Call /\ d.tenant = n /\ d.changed = n /\ d.method = "other" /\ ~d.had
  BY <1>2, RequestType DEF Call
<1> HIDE DEF d
<1>4. new \in Call /\ CallInv(new) /\ HoldsRow(new, task', job', configured')
  BY <1>2, <1>3, AnsweredInv
<1> HIDE DEF new
<1> QED BY <1>1, <1>4, BeginsKeeps

LEMMA InvalidKeeps ==
    ASSUME IInv, NEW c \in Callers, NEW n \in Owner, NEW valid \in BOOLEAN,
           Invalid(c, n, valid)
    PROVE  IInv'
<1>1. Rejects(n, valid) \in {"AuthenticationError", "ValidationError"}
  BY DEF Invalid, Rejects
<1> QED BY <1>1, RefuseKeeps DEF Invalid

LEMMA JobRpcRises ==
    ASSUME TablesInv, NEW c \in Callers, NEW n \in Tenants, JobRpc(c, n)
    PROVE  JobsRise
<1>1. CASE CreateJob(c, n)
  <2>1. PICK i \in Ids : job[i] = NoJob /\ job' = [job EXCEPT ![i] = NewJob(n)]
    BY <1>1 DEF CreateJob
  <2> QED BY <2>1, NewJobRises
<1>2. ASSUME NEW i \in Ids, GetJob(c, n, i) PROVE JobsRise
  BY <1>2, NothingRises DEF GetJob, Show
<1>3. ASSUME NEW i \in Ids, NEW from, NEW to \in SUBSET Rows!Status,
             "succeeded" \notin from, Transition(c, n, i, from, to)
      PROVE  JobsRise
  <2>1. CASE Refuse(c, n, Guard(n, i, from))
    BY <2>1, NothingRises DEF Refuse
  <2>2. ASSUME Guard(n, i, from) = "none", NEW s \in to, NEW lost \in Loses(i),
               job' = [job EXCEPT ![i].status = s, ![i].lost = lost]
        PROVE  JobsRise
    <3>1. n \in Owner /\ s \in Rows!Status /\ lost \in BOOLEAN
      BY <2>2, LosesType DEF Owner
    <3>2. job[i].status \in from
      BY <2>2, <3>1, GuardPasses
    <3> QED BY <1>3, <2>2, <3>1, <3>2, TakenRises
  <2> QED BY <1>3, <2>1, <2>2 DEF Transition
<1>4. ASSUME NEW i \in Ids, RetryJob(c, n, i) PROVE JobsRise
  BY <1>3, <1>4 DEF RetryJob, Rows!Status
<1>5. ASSUME NEW i \in Ids, NEW target \in Rows!Status, UpdateJob(c, n, i, target)
      PROVE  JobsRise
  BY <1>3, <1>5, Transitions DEF UpdateJob
<1> QED BY <1>1, <1>2, <1>4, <1>5 DEF JobRpc

LEMMA JobRpcKeeps ==
    ASSUME IInv, NEW c \in Callers, NEW n \in Tenants, JobRpc(c, n)
    PROVE  IInv'
<1>1. JobsRise /\ n \in Owner
  BY JobRpcRises DEF IInv, Owner
<1>2. CASE CreateJob(c, n)
  BY <1>1, <1>2, OnlyJobs, ChangeKeeps DEF CreateJob
<1>3. ASSUME NEW i \in Ids, GetJob(c, n, i) PROVE IInv'
  <2>1. (IF Found(n, i) THEN job[i].tenant ELSE NoTenant) \in {n, NoTenant}
    BY DEF Found
  <2> QED BY <1>3, <2>1, ShowKeeps DEF GetJob
<1>4. ASSUME NEW i \in Ids, NEW from, NEW to, Transition(c, n, i, from, to)
      PROVE  IInv'
  <2>1. CASE Guard(n, i, from) # "none" /\ Refuse(c, n, Guard(n, i, from))
    BY <1>1, <2>1, GuardMisses, RefuseKeeps
  <2>2. CASE /\ Guard(n, i, from) = "none" /\ Change(c, n, job[i].tenant)
             /\ UNCHANGED <<agent, tool, task, configured>>
    <3>1. Change(c, n, n)
      BY <1>1, <2>2, GuardPasses
    <3> QED BY <1>1, <2>2, <3>1, OnlyJobs, ChangeKeeps
  <2> QED BY <1>4, <2>1, <2>2 DEF Transition
<1>5. ASSUME NEW i \in Ids, RetryJob(c, n, i) PROVE IInv'
  BY <1>4, <1>5 DEF RetryJob
<1>6. ASSUME NEW i \in Ids, NEW target \in Rows!Status, UpdateJob(c, n, i, target)
      PROVE  IInv'
  BY <1>4, <1>6 DEF UpdateJob
<1> QED BY <1>2, <1>3, <1>5, <1>6 DEF JobRpc

----------------------------------------------------------------------------
(* Agents and tools                                                          *)

LEMMA OnlyCatalog ==
    ASSUME IInv, UNCHANGED <<job, task>>, configured \subseteq configured',
           configured' \subseteq Tenants
    PROVE  JobsRise /\ TasksKept
<1>1. JobsRise
  BY NothingRises DEF IInv
<1> QED BY <1>1 DEF IInv, TablesInv, TasksKept

\* An agent's row is written whole: its grants are tools of its tenant.
LEMMA AgentWritten ==
    ASSUME CatalogInv, NEW a \in Agents, NEW n \in Tenants, NEW links \in SUBSET Tools,
           \A t \in links : tool[t] = n,
           agent' = [agent EXCEPT ![a] = [tenant |-> n, links |-> links]],
           UNCHANGED tool, configured' = configured \cup {n}
    PROVE  CatalogInv'
<1> DEFINE r == [tenant |-> n, links |-> links]
<1>1. r \in Agent /\ r.tenant = n /\ r.links = links /\ n # NoTenant
  BY SurfaceAssumption DEF Agent, Owner
<1>2. agent' = [agent EXCEPT ![a] = r]
  OBVIOUS
<1> HIDE DEF r
<1>3. agent' \in [Agents -> Agent] /\ agent'[a] = r /\ \A b \in Agents \ {a} : agent'[b] = agent[b]
  BY <1>1, <1>2 DEF CatalogInv
<1> QED BY <1>1, <1>3 DEF CatalogInv

LEMMA CreateAgentKeeps ==
    ASSUME IInv, NEW c \in Callers, NEW n \in Tenants, NEW a \in Agents,
           NEW wanted \in SUBSET Tools, CreateAgent(c, n, a, wanted)
    PROVE  IInv'
<1>1. CatalogInv'
  BY AgentWritten DEF CreateAgent, OwnTools, IInv
<1>2. JobsRise /\ TasksKept
  BY OnlyCatalog DEF CreateAgent, IInv, CatalogInv
<1> QED BY <1>1, <1>2, ChangeKeeps DEF CreateAgent

LEMMA UpdateAgentKeeps ==
    ASSUME IInv, NEW c \in Callers, NEW n \in Tenants, NEW a \in Agents,
           NEW wanted \in SUBSET Tools, UpdateAgent(c, n, a, wanted)
    PROVE  IInv'
<1>0. n \in Owner
  BY DEF Owner
<1>1. CASE Refuse(c, n, "NotFoundError")
  BY <1>0, <1>1, RefuseKeeps
<1>2. CASE /\ agent[a].tenant = n
           /\ agent' = [agent EXCEPT ![a].links = OwnTools(n, wanted)]
           /\ Change(c, n, agent[a].tenant)
           /\ UNCHANGED <<tool, job, task, configured>>
  <2> DEFINE links == OwnTools(n, wanted)
  <2>1. links \in SUBSET Tools /\ \A t \in links : tool[t] = n
    BY DEF OwnTools
  <2>2. agent[a] \in Agent /\ n \in configured
    BY <1>2, SurfaceAssumption DEF IInv, CatalogInv
  <2>3. agent' = [agent EXCEPT ![a] = [tenant |-> n, links |-> links]]
    <3>1. [agent[a] EXCEPT !.links = links] = [tenant |-> n, links |-> links]
      BY <1>2, <2>2 DEF Agent
    <3> QED BY <1>2, <3>1 DEF IInv, CatalogInv
  <2> HIDE DEF links
  <2>4. CatalogInv'
    <3>1. configured' = configured \cup {n}
      BY <1>2, <2>2
    <3>2. UNCHANGED tool /\ CatalogInv
      BY <1>2 DEF IInv
    <3> QED BY <2>1, <2>3, <3>1, <3>2, AgentWritten
  <2>5. JobsRise /\ TasksKept
    BY <1>2, OnlyCatalog DEF IInv, CatalogInv
  <2> QED BY <1>2, <2>4, <2>5, ChangeKeeps
<1> QED BY <1>1, <1>2 DEF UpdateAgent

LEMMA DeleteAgentKeeps ==
    ASSUME IInv, NEW c \in Callers, NEW n \in Tenants, NEW a \in Agents,
           DeleteAgent(c, n, a)
    PROVE  IInv'
<1>0. n \in Owner
  BY DEF Owner
<1>1. CASE Refuse(c, n, "NotFoundError")
  BY <1>0, <1>1, RefuseKeeps
<1>2. CASE /\ agent[a].tenant = n /\ agent' = [agent EXCEPT ![a] = NoAgent]
           /\ Change(c, n, agent[a].tenant)
           /\ UNCHANGED <<tool, job, task, configured>>
  <2>1. NoAgent \in Agent /\ NoAgent.links = {} /\ NoAgent.tenant = NoTenant
    BY DEF NoAgent, Agent, Owner
  <2>2. /\ agent' \in [Agents -> Agent] /\ agent'[a] = NoAgent
        /\ \A b \in Agents \ {a} : agent'[b] = agent[b]
    BY <1>2, <2>1 DEF IInv, CatalogInv
  <2>3. CatalogInv'
    BY <1>2, <2>1, <2>2 DEF IInv, CatalogInv
  <2>4. JobsRise /\ TasksKept
    BY <1>2, OnlyCatalog DEF IInv, CatalogInv
  <2> QED BY <1>2, <2>3, <2>4, ChangeKeeps
<1> QED BY <1>1, <1>2 DEF DeleteAgent

LEMMA CreateToolKeeps ==
    ASSUME IInv, NEW c \in Callers, NEW n \in Tenants, NEW t \in Tools,
           NEW taken \in BOOLEAN, CreateTool(c, n, t, taken)
    PROVE  IInv'
<1>0. n \in Owner
  BY DEF Owner
<1>1. CASE Refuse(c, n, "ConflictError")
  BY <1>0, <1>1, RefuseKeeps
<1>2. CASE /\ tool[t] = NoTenant /\ tool' = [tool EXCEPT ![t] = n] /\ Change(c, n, n)
           /\ UNCHANGED <<agent, job, task, configured>>
  <2>1. tool' \in [Tools -> Owner] /\ \A u \in Tools \ {t} : tool'[u] = tool[u]
    BY <1>0, <1>2 DEF IInv, CatalogInv
  <2>2. ASSUME NEW a \in Agents, NEW u \in agent[a].links
        PROVE  tool'[u] = agent[a].tenant
    <3>1. u \in Tools /\ tool[u] = agent[a].tenant /\ agent[a].tenant # NoTenant
      BY <2>2 DEF IInv, CatalogInv, Agent
    <3> QED BY <1>2, <2>1, <3>1
  <2>3. CatalogInv'
    BY <1>2, <2>1, <2>2 DEF IInv, CatalogInv
  <2>4. JobsRise /\ TasksKept
    BY <1>2, OnlyCatalog DEF IInv, CatalogInv
  <2> QED BY <1>2, <2>3, <2>4, ChangeKeeps
<1> QED BY <1>1, <1>2 DEF CreateTool

LEMMA UpdateToolKeeps ==
    ASSUME IInv, NEW c \in Callers, NEW n \in Tenants, NEW t \in Tools,
           NEW taken \in BOOLEAN, UpdateTool(c, n, t, taken)
    PROVE  IInv'
<1>0. n \in Owner
  BY DEF Owner
<1>1. CASE Refuse(c, n, "NotFoundError") \/ Refuse(c, n, "ConflictError")
  BY <1>0, <1>1, RefuseKeeps
<1>2. CASE Change(c, n, n) /\ UNCHANGED <<agent, tool, job, task, configured>>
  BY <1>2, NoTables, ChangeKeeps
<1> QED BY <1>1, <1>2 DEF UpdateTool

LEMMA DeleteToolKeeps ==
    ASSUME IInv, NEW c \in Callers, NEW n \in Tenants, NEW t \in Tools,
           DeleteTool(c, n, t)
    PROVE  IInv'
<1>0. n \in Owner
  BY DEF Owner
<1>1. CASE Refuse(c, n, "NotFoundError")
  BY <1>0, <1>1, RefuseKeeps
<1>2. CASE /\ tool[t] = n /\ tool' = [tool EXCEPT ![t] = NoTenant]
           /\ agent' = [a \in Agents |-> [agent[a] EXCEPT !.links = @ \ {t}]]
           /\ Change(c, n, tool[t]) /\ UNCHANGED <<job, task, configured>>
  <2>1. tool' \in [Tools -> Owner] /\ \A u \in Tools \ {t} : tool'[u] = tool[u]
    BY <1>2 DEF IInv, CatalogInv, Owner
  <2>2. ASSUME NEW a \in Agents
        PROVE  /\ agent'[a] \in Agent /\ agent'[a].tenant = agent[a].tenant
               /\ agent'[a].links = agent[a].links \ {t} /\ agent[a].links \subseteq Tools
    <3>1. agent[a] \in Agent /\ agent'[a] = [agent[a] EXCEPT !.links = @ \ {t}]
      BY <1>2 DEF IInv, CatalogInv
    <3> QED BY <3>1 DEF Agent
  <2>3. CatalogInv'
    <3>1. agent' \in [Agents -> Agent]
      BY <1>2, <2>2
    <3>2. ASSUME NEW a \in Agents
          PROVE  /\ agent'[a].links # {} => agent'[a].tenant # NoTenant
                 /\ agent'[a].tenant \in configured' \cup {NoTenant}
                 /\ \A u \in agent'[a].links : tool'[u] = agent'[a].tenant
      <4>1. /\ agent[a].links # {} => agent[a].tenant # NoTenant
            /\ agent[a].tenant \in configured \cup {NoTenant}
            /\ \A u \in agent[a].links : tool[u] = agent[a].tenant
        BY DEF IInv, CatalogInv
      <4> QED BY <1>2, <2>1, <2>2, <4>1
    <3>3. configured' \subseteq Tenants
      BY <1>2 DEF IInv, CatalogInv
    <3> QED BY <2>1, <3>1, <3>2, <3>3 DEF CatalogInv
  <2>4. JobsRise /\ TasksKept
    BY <1>2, OnlyCatalog DEF IInv, CatalogInv
  <2> QED BY <1>2, <2>3, <2>4, ChangeKeeps
<1> QED BY <1>1, <1>2 DEF DeleteTool

LEMMA CatalogRpcKeeps ==
    ASSUME IInv, NEW c \in Callers, NEW n \in Tenants, CatalogRpc(c, n)
    PROVE  IInv'
<1>1. ASSUME NEW a \in Agents, GetAgent(c, n, a) PROVE IInv'
  BY <1>1, ShowKeeps DEF GetAgent
<1>2. ASSUME NEW t \in Tools, GetTool(c, n, t) PROVE IInv'
  BY <1>2, ShowKeeps DEF GetTool
<1>3. ASSUME NEW a \in Agents, NEW wanted \in SUBSET Tools \ {{}},
             CreateAgent(c, n, a, wanted) \/ UpdateAgent(c, n, a, wanted)
      PROVE  IInv'
  BY <1>3, CreateAgentKeeps, UpdateAgentKeeps
<1>4. ASSUME NEW t \in Tools, NEW taken \in BOOLEAN,
             CreateTool(c, n, t, taken) \/ UpdateTool(c, n, t, taken)
      PROVE  IInv'
  BY <1>4, CreateToolKeeps, UpdateToolKeeps
<1> QED BY <1>1, <1>2, <1>3, <1>4, DeleteAgentKeeps, DeleteToolKeeps DEF CatalogRpc

----------------------------------------------------------------------------
(* The RPCs of a task, step by step                                          *)

\* What the invariant says of a call that is between its steps.
LEMMA InFlight ==
    ASSUME IInv, NEW c \in Callers, call[c].pc \in Active
    PROVE  LET d == call[c] IN
           /\ d \in Call /\ d.tenant \in Tenants /\ d.tenant # NoTenant /\ d.tenant \in Owner
           /\ d.id \in Ids /\ d.method \in TaskMethods /\ d.code = "none"
           /\ d.changed \in {d.tenant, NoTenant}
           /\ CallInv(d) /\ HoldsRow(d, task, job, configured)
  BY SurfaceAssumption DEF IInv, CallsInv, CallInv, Call

LEMMA AnswerKeeps ==
    ASSUME IInv, JobsRise, TasksKept, CatalogInv', left' = left, NEW c \in Callers,
           call[c].pc \in Active, NEW code \in Codes,
           NEW shown \in {call[c].tenant, NoTenant}, Answer(c, code, shown),
           code \in Refusals => call[c].changed = NoTenant,
           code = "OK" /\ call[c].method \in Writers => call[c].changed = call[c].tenant,
           call[c].had => code # "NOT_FOUND"
    PROVE  IInv'
<1> DEFINE d == call[c]
           new == Answered(d, code, shown)
<1>1. d \in Call /\ d.changed \in {d.tenant, NoTenant}
  BY InFlight
<1>2. call' = [call EXCEPT ![c] = new]
  BY DEF Answer
<1>3. new \in Call /\ CallInv(new) /\ HoldsRow(new, task', job', configured')
  BY <1>1, AnsweredInv
<1>4. left' \in 0 .. MaxCalls
  BY DEF IInv, CallsInv
<1> HIDE DEF new
<1> QED BY <1>2, <1>3, <1>4, CallsKept

\* An error that is no refusal, or that comes before anything has changed.
LEMMA AbortKeeps ==
    ASSUME IInv, JobsRise, TasksKept, CatalogInv', left' = left, NEW c \in Callers,
           call[c].pc \in Active, NEW error, Abort(c, error),
           \/ Status(error) = "INTERNAL"
           \/ Status(error) = "FAILED_PRECONDITION" /\ call[c].changed = NoTenant
           \/ Status(error) = "NOT_FOUND" /\ call[c].changed = NoTenant /\ ~call[c].had
    PROVE  IInv'
<1>1. /\ Status(error) \in Codes /\ Status(error) # "OK"
      /\ Status(error) \in Refusals => call[c].changed = NoTenant
      /\ call[c].had => Status(error) # "NOT_FOUND"
  BY DEF Codes, Refusals
<1> QED BY <1>1, AnswerKeeps DEF Abort

LEMMA OkKeeps ==
    ASSUME IInv, JobsRise, TasksKept, CatalogInv', left' = left, NEW c \in Callers,
           call[c].pc \in Active, NEW shown \in {call[c].tenant, NoTenant},
           Answer(c, "OK", shown),
           call[c].method \in Writers => call[c].changed = call[c].tenant
    PROVE  IInv'
<1>1. "OK" \in Codes /\ "OK" \notin Refusals
  BY DEF Codes, Refusals
<1> QED BY <1>1, AnswerKeeps

\* The call goes on with what it has found or changed.
LEMMA GoesOn ==
    ASSUME IInv, JobsRise, TasksKept, CatalogInv', left' = left, NEW c \in Callers,
           NEW new \in Call, call' = [call EXCEPT ![c] = new],
           CallInv(new), HoldsRow(new, task', job', configured')
    PROVE  IInv'
<1>1. left' \in 0 .. MaxCalls
  BY DEF IInv, CallsInv
<1> QED BY <1>1, CallsKept

LEMMA ArriveKeeps ==
    ASSUME IInv, NEW c \in Callers, NEW n \in Tenants, NEW m \in TaskMethods, NEW i \in Ids,
           Arrive(c, n, m, i)
    PROVE  IInv'
<1> DEFINE pc == IF m = "CreateTask" THEN "agents" ELSE "load"
           had == m # "CreateTask" /\ task[i].tenant = n
           id == IF m = "CreateTask" THEN NoCall.id ELSE i
           new == [NoCall EXCEPT !.pc = pc, !.method = m, !.tenant = n, !.id = id, !.had = had]
<1>1. Begins(c, new) /\ UNCHANGED <<agent, tool, job, task, configured>>
  BY DEF Arrive
<1>2. /\ pc \in {"agents", "load"} /\ n \in Owner /\ id \in Ids /\ had \in BOOLEAN
      /\ pc = "agents" <=> m = "CreateTask"
      /\ had => m # "CreateTask" /\ id = i /\ task[id].tenant = n
  BY SomeId, NoCallType DEF Owner, Call
<1> HIDE DEF pc, had, id
<1>3. /\ new \in Call /\ new.pc = pc /\ new.method = m /\ new.tenant = n /\ new.id = id
      /\ new.had = had /\ new.code = "none" /\ new.changed = NoTenant /\ new.shown = NoTenant
  BY <1>2, NoCallType DEF Call
<1> HIDE DEF new
<1>4. CallInv(new)
  BY <1>2, <1>3 DEF CallInv, Active, Refusals
<1>5. HoldsRow(new, task', job', configured')
  BY <1>1, <1>2, <1>3 DEF HoldsRow
<1> QED BY <1>1, <1>3, <1>4, <1>5, NoTables, BeginsKeeps

LEMMA CheckAgentsKeeps ==
    ASSUME IInv, NEW c \in Callers, CheckAgents(c)
    PROVE  IInv'
<1> DEFINE d == call[c]
<1>0. d.pc = "agents" /\ UNCHANGED <<agent, tool, job, task, left, configured>>
  BY DEF CheckAgents
<1>1. /\ d \in Call /\ d.tenant \in Tenants /\ d.tenant # NoTenant
      /\ CallInv(d) /\ HoldsRow(d, task, job, configured)
  BY <1>0, InFlight DEF Active
<1>2. d.changed = NoTenant /\ d.method = "CreateTask" /\ d.pc \in Active
  BY <1>0, <1>1 DEF CallInv, Active
<1>3. CASE HasAny(d.tenant)
  <2> DEFINE new == [d EXCEPT !.pc = "remote"]
  <2>1. call' = [call EXCEPT ![c] = new]
    BY <1>3 DEF CheckAgents, IInv, CallsInv
  <2>2. d.tenant \in configured
    <3>1. PICK a \in Agents : agent[a].tenant = d.tenant
      BY <1>3 DEF HasAny
    <3> QED BY <1>1, <3>1 DEF IInv, CatalogInv
  <2>3. /\ new \in Call /\ new.pc = "remote" /\ new.method = d.method /\ new.tenant = d.tenant
        /\ new.id = d.id /\ new.had = d.had /\ new.code = d.code /\ new.changed = d.changed
        /\ new.shown = d.shown
    BY <1>1 DEF Call
  <2> HIDE DEF new, d
  <2>4. CallInv(new)
    BY <1>0, <1>1, <1>2, <2>3 DEF CallInv, Active
  <2>5. HoldsRow(new, task', job', configured')
    BY <1>0, <1>1, <1>2, <2>2, <2>3 DEF HoldsRow, CallInv, Active
  <2> QED BY <1>0, <2>1, <2>3, <2>4, <2>5, NoTables, GoesOn
<1>4. CASE ~HasAny(d.tenant)
  <2>1. Abort(c, "StateError")
    BY <1>4 DEF CheckAgents
  <2> QED BY <1>0, <1>2, <2>1, Statuses, NoTables, AbortKeeps
<1> QED BY <1>3, <1>4

LEMMA LoadKeeps ==
    ASSUME IInv, NEW c \in Callers, Load(c)
    PROVE  IInv'
<1> DEFINE d == call[c]
           row == task[d.id].row
           mine == task[d.id].tenant = d.tenant
<1>0. d.pc = "load" /\ UNCHANGED <<agent, tool, job, task, left, configured>>
  BY DEF Load
<1>1. /\ d \in Call /\ d.tenant \in Tenants /\ d.tenant # NoTenant /\ d.id \in Ids
      /\ CallInv(d) /\ HoldsRow(d, task, job, configured)
  BY <1>0, InFlight DEF Active
<1>2. d.changed = NoTenant /\ d.method # "CreateTask" /\ d.pc \in Active
  BY <1>0, <1>1 DEF CallInv, Active
<1>3. CASE ~mine /\ d.method # "GetTask"
  <2>1. Abort(c, "NotFoundError") /\ ~d.had
    BY <1>1, <1>2, <1>3 DEF Load, HoldsRow
  <2> QED BY <1>0, <1>2, <2>1, Statuses, NoTables, AbortKeeps
<1>4. CASE d.method = "GetTask" /\ (Answer(c, "OK", NoTenant) \/ Answer(c, "OK", d.tenant))
  <2>1. d.method \notin Writers
    BY <1>4 DEF Writers
  <2> QED BY <1>0, <1>2, <1>4, <2>1, NoTables, OkKeeps
<1>5. CASE mine /\ call' = [call EXCEPT ![c].pc = "remote", ![c].row = row]
  <2> DEFINE new == [d EXCEPT !.pc = "remote", !.row = row]
  <2>1. call' = [call EXCEPT ![c] = new]
    BY <1>5 DEF IInv, CallsInv
  <2>2. row \in Snapshot \cup {NoSnapshot}
    BY <1>1 DEF IInv, TablesInv, Task
  <2> HIDE DEF row
  <2>3. /\ new \in Call /\ new.pc = "remote" /\ new.method = d.method /\ new.tenant = d.tenant
        /\ new.id = d.id /\ new.had = d.had /\ new.code = d.code /\ new.changed = d.changed
        /\ new.shown = d.shown
    BY <1>1, <2>2 DEF Call
  <2> HIDE DEF new
  <2>4. task'[d.id].tenant = d.tenant
    BY <1>0, <1>5
  <2> HIDE DEF d
  <2>5. CallInv(new)
    BY <1>0, <1>1, <1>2, <2>3 DEF CallInv, Active
  <2>6. HoldsRow(new, task', job', configured')
    BY <1>2, <2>3, <2>4 DEF HoldsRow
  <2> QED BY <1>0, <2>1, <2>3, <2>5, <2>6, NoTables, GoesOn
<1> QED BY <1>3, <1>4, <1>5 DEF Load

LEMMA SubmitKeeps ==
    ASSUME IInv, NEW c \in Callers, Submit(c)
    PROVE  IInv'
<1> DEFINE d == call[c]
           n == d.tenant
           row == [status |-> "pending", result |-> FALSE]
<1>0. /\ d.pc = "remote" /\ d.method = "CreateTask"
      /\ UNCHANGED <<agent, tool, task, left, configured>>
  BY DEF Submit
<1>1. /\ d \in Call /\ n \in Tenants /\ n \in Owner /\ d.code = "none"
      /\ CallInv(d) /\ HoldsRow(d, task, job, configured)
  BY <1>0, InFlight DEF Active
<1>2. PICK i \in Ids :
        /\ job[i] = NoJob /\ job' = [job EXCEPT ![i] = NewJob(n)]
        /\ call' = [call EXCEPT ![c].pc = "store", ![c].id = i, ![c].changed = n, ![c].row = row]
  BY DEF Submit
<1>3. JobsRise /\ job'[i].tenant = n
  BY <1>1, <1>2, NewJobRises DEF IInv
<1> DEFINE new == [d EXCEPT !.pc = "store", !.id = i, !.changed = n, !.row = row]
<1>4. call' = [call EXCEPT ![c] = new]
  BY <1>2 DEF IInv, CallsInv
<1>5. row \in Snapshot
  BY DEF Snapshot, TaskStatuses
<1> HIDE DEF row
<1>6. /\ new \in Call /\ new.pc = "store" /\ new.method = d.method /\ new.tenant = n
      /\ new.id = i /\ new.had = d.had /\ new.code = d.code /\ new.changed = n
      /\ new.shown = d.shown
  BY <1>1, <1>5 DEF Call
<1>7. n = d.tenant
  OBVIOUS
<1> HIDE DEF new, d, n
<1>8. CallInv(new)
  BY <1>0, <1>1, <1>6, <1>7 DEF CallInv, Active, Refusals
<1>9. ~d.had /\ n \in configured
  BY <1>0, <1>1, <1>7 DEF CallInv, HoldsRow, Active
<1>10. HoldsRow(new, task', job', configured')
  BY <1>0, <1>3, <1>6, <1>9 DEF HoldsRow
<1> QED BY <1>0, <1>3, <1>4, <1>6, <1>8, <1>10, OnlyJobs, GoesOn

LEMMA RequeueKeeps ==
    ASSUME IInv, NEW c \in Callers, Requeue(c)
    PROVE  IInv'
<1> DEFINE d == call[c]
           from == From(d.method)
           error == Guard(d.tenant, d.id, from)
           row == [status |-> "pending", result |-> job[d.id].result]
<1>0. /\ d.pc = "remote" /\ d.method \in {"ApproveTask", "RetryTask"}
      /\ UNCHANGED <<agent, tool, task, left, configured>>
  BY DEF Requeue
<1>1. /\ d \in Call /\ d.tenant \in Owner /\ d.tenant # NoTenant /\ d.id \in Ids
      /\ d.tenant \in Tenants /\ CallInv(d) /\ HoldsRow(d, task, job, configured)
  BY <1>0, InFlight DEF Active
<1>2. /\ d.changed = NoTenant /\ d.method # "CreateTask" /\ d.pc \in Active
      /\ task[d.id].tenant = d.tenant
  BY <1>0, <1>1 DEF CallInv, Active, HoldsRow
<1>3. job[d.id].tenant = d.tenant
  BY <1>1, <1>2 DEF IInv, TablesInv
<1>4. CASE error # "none" /\ Abort(c, Raised(Status(error))) /\ UNCHANGED job
  <2>1. error = "StateError"
    BY <1>1, <1>3, <1>4, GuardMisses
  <2>2. Status(Raised(Status(error))) = "FAILED_PRECONDITION"
    BY <2>1, Statuses, Relayed
  <2> QED BY <1>0, <1>2, <1>4, <2>2, NoTables, AbortKeeps
<1>5. CASE /\ error = "none" /\ job' = [job EXCEPT ![d.id].status = "queued"]
           /\ call' = [call EXCEPT ![c].pc = "store", ![c].changed = job[d.id].tenant,
                                   ![c].row = row]
  <2>1. "succeeded" \notin from /\ "queued" \in Rows!Status
    BY DEF From, Rows!AllowedEntry, Rows!Status
  <2>2. job[d.id].status # "succeeded"
    BY <1>1, <1>5, <2>1, GuardPasses
  <2>3. JobsRise
    BY <1>1, <1>5, <2>1, <2>2, StatusRises DEF IInv
  <2> DEFINE new == [d EXCEPT !.pc = "store", !.changed = d.tenant, !.row = row]
  <2>4. call' = [call EXCEPT ![c] = new]
    BY <1>3, <1>5 DEF IInv, CallsInv
  <2>5. row \in Snapshot
    BY <1>1 DEF Snapshot, TaskStatuses, IInv, TablesInv, Job
  <2> HIDE DEF row, from
  <2>6. /\ new \in Call /\ new.pc = "store" /\ new.method = d.method /\ new.tenant = d.tenant
        /\ new.id = d.id /\ new.had = d.had /\ new.code = d.code /\ new.changed = d.tenant
        /\ new.shown = d.shown
    BY <1>1, <2>5 DEF Call
  <2>7. task'[d.id].tenant = d.tenant
    BY <1>0, <1>2
  <2> HIDE DEF new, d
  <2>8. CallInv(new)
    BY <1>0, <1>1, <1>2, <2>6 DEF CallInv, Active, Refusals
  <2>9. HoldsRow(new, task', job', configured')
    BY <1>2, <2>6, <2>7 DEF HoldsRow
  <2> QED BY <1>0, <2>3, <2>4, <2>6, <2>8, <2>9, OnlyJobs, GoesOn
<1> QED BY <1>4, <1>5 DEF Requeue

\* What job_svc answers of a row that is there is a task's status.
LEMMA RefType ==
    ASSUME TablesInv, NEW i \in Ids, job[i].tenant # NoTenant
    PROVE  Ref(i) \in Snapshot
<1>1. job[i].status \in Rows!Status /\ job[i].result \in BOOLEAN
  BY DEF TablesInv, Whole, Job
<1>2. TaskStatus(job[i].status) \in TaskStatuses
  BY <1>1 DEF TaskStatus, TaskStatuses, Rows!Status
<1> QED BY <1>1, <1>2 DEF Ref, Snapshot

LEMMA ReadKeeps ==
    ASSUME IInv, NEW c \in Callers, Read(c)
    PROVE  IInv'
<1> DEFINE d == call[c]
           found == Found(d.tenant, d.id)
           row == Ref(d.id)
<1>0. /\ d.pc = "remote" /\ d.method \in {"GetTask", "GetTaskProgress"}
      /\ UNCHANGED <<agent, tool, job, task, left, configured>>
  BY DEF Read
<1>1. /\ d \in Call /\ d.tenant \in Tenants /\ d.tenant # NoTenant /\ d.id \in Ids
      /\ CallInv(d) /\ HoldsRow(d, task, job, configured)
  BY <1>0, InFlight DEF Active
<1>2. /\ d.changed = NoTenant /\ d.method # "CreateTask" /\ d.pc \in Active
      /\ d.method \notin Writers /\ task[d.id].tenant = d.tenant
  BY <1>0, <1>1 DEF CallInv, Active, HoldsRow, Writers
<1>3. job[d.id].tenant = d.tenant /\ found
  BY <1>1, <1>2 DEF IInv, TablesInv, Found
<1>4. CASE Answer(c, "OK", job[d.id].tenant) \/ Answer(c, "OK", d.tenant)
  BY <1>0, <1>2, <1>3, <1>4, NoTables, OkKeeps
<1>5. CASE d.method = "GetTask" /\ call' = [call EXCEPT ![c].pc = "store", ![c].row = row]
  <2> DEFINE new == [d EXCEPT !.pc = "store", !.row = row]
  <2>1. call' = [call EXCEPT ![c] = new]
    BY <1>5 DEF IInv, CallsInv
  <2>2. row \in Snapshot
    BY <1>1, <1>3, RefType DEF IInv
  <2> HIDE DEF row, found
  <2>3. /\ new \in Call /\ new.pc = "store" /\ new.method = d.method /\ new.tenant = d.tenant
        /\ new.id = d.id /\ new.had = d.had /\ new.code = d.code /\ new.changed = d.changed
        /\ new.shown = d.shown
    BY <1>1, <2>2 DEF Call
  <2>4. task'[d.id].tenant = d.tenant
    BY <1>0, <1>2
  <2> HIDE DEF new, d
  <2>5. CallInv(new)
    BY <1>0, <1>1, <1>2, <1>5, <2>3 DEF CallInv, Active, Refusals
  <2>6. HoldsRow(new, task', job', configured')
    BY <1>2, <2>3, <2>4 DEF HoldsRow
  <2> QED BY <1>0, <2>1, <2>3, <2>5, <2>6, NoTables, GoesOn
<1> QED BY <1>0, <1>3, <1>4, <1>5 DEF Read

LEMMA UnreachedKeeps ==
    ASSUME IInv, NEW c \in Callers, Unreached(c)
    PROVE  IInv'
<1> DEFINE d == call[c]
<1>0. d.pc \in Active /\ UNCHANGED <<agent, tool, job, task, left, configured>>
  BY DEF Unreached, Active
<1>1. CASE d.method = "GetTask"
  <2>1. d.method \notin Writers /\ Answer(c, "OK", d.tenant)
    BY <1>1 DEF Unreached, Writers
  <2> QED BY <1>0, <2>1, NoTables, OkKeeps
<1>2. CASE d.method # "GetTask"
  <2>1. Abort(c, Raised("UNAVAILABLE")) /\ Status(Raised("UNAVAILABLE")) = "INTERNAL"
    BY <1>2, Statuses, Relayed DEF Unreached
  <2> QED BY <1>0, <2>1, NoTables, AbortKeeps
<1> QED BY <1>1, <1>2

LEMMA LostAnswerKeeps ==
    ASSUME IInv, NEW c \in Callers, LostAnswer(c)
    PROVE  IInv'
<1>1. call[c].pc \in Active /\ UNCHANGED <<agent, tool, job, task, left, configured>>
  BY DEF LostAnswer, Active
<1>2. Abort(c, Raised("UNAVAILABLE")) /\ Status(Raised("UNAVAILABLE")) = "INTERNAL"
  BY Statuses, Relayed DEF LostAnswer
<1> QED BY <1>1, <1>2, NoTables, AbortKeeps

LEMMA DbErrorKeeps ==
    ASSUME IInv, NEW c \in Callers, DbError(c)
    PROVE  IInv'
<1>1. call[c].pc \in Active /\ UNCHANGED <<agent, tool, job, task, left, configured>>
  BY DEF DbError, Active
<1>2. Abort(c, "SQLAlchemyError") /\ Status("SQLAlchemyError") = "INTERNAL"
  BY Statuses DEF DbError
<1> QED BY <1>1, <1>2, NoTables, AbortKeeps

\* The row that is stored is the one of the job, and of the tenant that calls.
LEMMA StoreKeeps ==
    ASSUME IInv, NEW c \in Callers, Store(c)
    PROVE  IInv'
<1> DEFINE d == call[c]
           r == [tenant |-> d.tenant, row |-> d.row]
<1>0. d.pc = "store" /\ UNCHANGED <<agent, tool, job, left, configured>>
  BY DEF Store
<1>1. /\ d \in Call /\ d.tenant \in Owner /\ d.tenant # NoTenant /\ d.id \in Ids
      /\ CallInv(d) /\ HoldsRow(d, task, job, configured)
  BY <1>0, InFlight DEF Active
<1>2. d.pc \in Active /\ (d.method \in Writers => d.changed = d.tenant)
  BY <1>0, <1>1 DEF CallInv, Active
<1>3. JobsRise /\ CatalogInv'
  BY <1>0, NothingRises DEF IInv, CatalogInv
\* The row is the tenant's in both tables, so the statement matches.
<1>4. /\ job[d.id].tenant = d.tenant /\ d.tenant \in configured
      /\ task[d.id].tenant # NoTenant => task[d.id].tenant = d.tenant
      /\ d.method # "CreateTask" => task[d.id].tenant = d.tenant
  <2>1. CASE d.method = "CreateTask"
    <3>1. job[d.id].tenant = d.tenant /\ d.tenant \in configured
      BY <1>0, <1>1, <2>1 DEF HoldsRow
    <3> QED BY <1>1, <2>1, <3>1 DEF IInv, TablesInv
  <2>2. CASE d.method # "CreateTask"
    <3>1. task[d.id].tenant = d.tenant
      BY <1>0, <1>1, <2>2 DEF HoldsRow
    <3> QED BY <1>1, <3>1 DEF IInv, TablesInv
  <2> QED BY <2>1, <2>2
<1>5. task' = [task EXCEPT ![d.id] = r] /\ Answer(c, "OK", d.tenant)
  BY <1>4 DEF Store
<1>6. r \in Task /\ r.tenant = d.tenant
  BY <1>1 DEF Task, Call
<1> HIDE DEF r
<1>7. TasksKept
  <2>1. task' \in [Ids -> Task]
    BY <1>5, <1>6 DEF IInv, TablesInv
  <2>2. ASSUME NEW i \in Ids
        PROVE  /\ task[i].tenant # NoTenant => task'[i].tenant = task[i].tenant
               /\ task'[i].tenant # NoTenant => job'[i].tenant = task'[i].tenant
               /\ task'[i].tenant \in configured' \cup {NoTenant}
    <3>1. CASE i = d.id
      <4>1. task'[i] = r
        BY <1>5, <3>1 DEF IInv, TablesInv
      <4> QED BY <1>0, <1>4, <1>6, <3>1, <4>1
    <3>2. CASE i # d.id
      <4>1. task'[i] = task[i]
        BY <1>5, <3>2 DEF IInv, TablesInv
      <4> QED BY <1>0, <4>1 DEF IInv, TablesInv
    <3> QED BY <3>1, <3>2
  <2> QED BY <1>0, <2>1, <2>2 DEF IInv, CatalogInv, TasksKept
<1> QED BY <1>0, <1>2, <1>3, <1>5, <1>7, OkKeeps

LEMMA ReturnKeeps ==
    ASSUME IInv, NEW c \in Callers, Return(c)
    PROVE  IInv'
<1>1. /\ call' = [call EXCEPT ![c] = NoCall]
      /\ UNCHANGED <<agent, tool, job, task, left, configured>>
  BY DEF Return
<1>2. CallInv(NoCall) /\ HoldsRow(NoCall, task', job', configured')
  BY NoCallType DEF CallInv, HoldsRow, Active, Refusals
<1> QED BY <1>1, <1>2, NoCallType, NoTables, GoesOn

\* The workers leave the calls as they are.
LEMMA WorkKeeps ==
    ASSUME IInv, Work
    PROVE  IInv'
<1>1. JobsRise /\ UNCHANGED <<agent, tool, task, call, left, configured>>
  BY WorkRises DEF IInv, Work
<1>2. TasksKept /\ CatalogInv'
  BY <1>1, OnlyJobs
<1>3. TablesInv'
  BY <1>1, <1>2 DEF JobsRise, TasksKept, TablesInv
<1>4. ASSUME NEW c \in Callers
      PROVE  CallInv(call'[c]) /\ HoldsRow(call'[c], task', job', configured')
  <2>1. call'[c] = call[c] /\ call[c] \in Call /\ CallInv(call[c])
    BY <1>1 DEF IInv, CallsInv
  <2>2. HoldsRow(call[c], task, job, configured)
    BY DEF IInv, CallsInv
  <2> QED BY <1>1, <1>2, <2>1, <2>2, HeldRowStays
<1>5. CallsInv'
  BY <1>1, <1>4 DEF IInv, CallsInv
<1> QED BY <1>2, <1>3, <1>5 DEF IInv

----------------------------------------------------------------------------
(* The invariant                                                             *)

LEMMA InitInv == Init => IInv
<1> SUFFICES ASSUME Init PROVE IInv
  OBVIOUS
<1>1. CatalogInv
  BY DEF Init, CatalogInv, NoAgent, Agent, Owner
<1>2. NoJob \in Job /\ Whole(NoJob)
  BY SurfaceAssumption DEF NoJob, Job, Owner, Whole
<1>3. NoTask \in Task /\ NoTask.tenant = NoTenant
  BY DEF NoTask, Task, Owner
<1>4. TablesInv
  BY <1>2, <1>3 DEF Init, TablesInv
<1>5. ASSUME NEW c \in Callers
      PROVE  CallInv(call[c]) /\ HoldsRow(call[c], task, job, configured)
  <2>1. call[c] = NoCall
    BY DEF Init
  <2> QED BY <2>1, NoCallType DEF CallInv, HoldsRow, Active, Refusals
<1>6. CallsInv
  BY <1>5, NoCallType, SurfaceAssumption DEF Init, CallsInv
<1> QED BY <1>1, <1>4, <1>6 DEF IInv

LEMMA ProceedKeeps ==
    ASSUME IInv, NEW c \in Callers, Proceed(c)
    PROVE  IInv'
  BY CheckAgentsKeeps, LoadKeeps, SubmitKeeps, RequeueKeeps, ReadKeeps, UnreachedKeeps,
     LostAnswerKeeps, StoreKeeps, DbErrorKeeps, ReturnKeeps DEF Proceed

LEMMA NextInv == IInv /\ [Next]_vars => IInv'
<1> SUFFICES ASSUME IInv, [Next]_vars PROVE IInv'
  OBVIOUS
<1>1. CASE Work
  BY <1>1, WorkKeeps
<1>2. ASSUME NEW c \in Callers, Proceed(c) PROVE IInv'
  BY <1>2, ProceedKeeps
<1>3. ASSUME NEW c \in Callers, NEW n \in Owner, NEW valid \in BOOLEAN, Invalid(c, n, valid)
      PROVE  IInv'
  BY <1>3, InvalidKeeps
<1>4. ASSUME NEW c \in Callers, NEW n \in Tenants, JobRpc(c, n) PROVE IInv'
  BY <1>4, JobRpcKeeps
<1>5. ASSUME NEW c \in Callers, NEW n \in Tenants, CatalogRpc(c, n) PROVE IInv'
  BY <1>5, CatalogRpcKeeps
<1>6. ASSUME NEW c \in Callers, NEW n \in Tenants, NEW m \in TaskMethods, NEW i \in Ids,
             Arrive(c, n, m, i)
      PROVE  IInv'
  BY <1>6, ArriveKeeps
<1>7. CASE UNCHANGED vars
  BY <1>7 DEF vars, IInv, CatalogInv, TablesInv, CallsInv
<1> QED BY <1>1, <1>2, <1>3, <1>4, <1>5, <1>6, <1>7 DEF Next

THEOREM Inductive == Spec => []IInv
  BY InitInv, NextInv, PTL DEF Spec

\* The tables, the calls in flight and the answers have the types of the rows and
\* messages they stand for.
THEOREM TypeCorrect == Spec => []TypeOK
<1>1. IInv => TypeOK
  BY DEF IInv, CatalogInv, TablesInv, CallsInv, TypeOK
<1> QED BY <1>1, Inductive, PTL

\* A tenant sees and changes rows of its own only, whatever ids it names, and its
\* agents are granted its own tools; a task is of the tenant of its job.
THEOREM TenantsIsolated == Spec => []Isolation
<1>1. IInv => Isolation
  BY DEF IInv, CatalogInv, TablesInv, CallsInv, CallInv, Isolation
<1> QED BY <1>1, Inductive, PTL

\* What is refused has not happened, and what is answered OK has, across both
\* services.
THEOREM AnswersAreTrue == Spec => []AnswersTellTruth
<1>1. IInv => AnswersTellTruth
  BY DEF IInv, CallsInv, CallInv, AnswersTellTruth, Writers
<1> QED BY <1>1, Inductive, PTL

\* A task that its tenant had when it called is not NOT_FOUND, neither in the
\* table nor in the other service.
THEOREM OwnTasksFound == Spec => []OwnTaskIsFound
<1>1. IInv => OwnTaskIsFound
  BY DEF IInv, CallsInv, CallInv, OwnTaskIsFound
<1> QED BY <1>1, Inductive, PTL

\* Every task is of a tenant that has had an agent.
THEOREM OwnersConfigured == Spec => []OnlyConfigured
<1>1. IInv => OnlyConfigured
  BY DEF IInv, TablesInv, OnlyConfigured
<1> QED BY <1>1, Inductive, PTL

----------------------------------------------------------------------------
(* The percentage                                                            *)

LEMMA StepRises ==
    ASSUME IInv, Next
    PROVE  JobsRise
<1>0. TablesInv
  BY DEF IInv
<1>1. CASE Work
  BY <1>0, <1>1, WorkRises
<1>2. ASSUME NEW c \in Callers, Proceed(c) PROVE JobsRise
  <2>1. CASE Submit(c)
    <3>1. call[c].pc \in Active /\ call[c].tenant \in Tenants
      BY <2>1, InFlight DEF Submit, Active
    <3>2. PICK i \in Ids : job[i] = NoJob /\ job' = [job EXCEPT ![i] = NewJob(call[c].tenant)]
      BY <2>1 DEF Submit
    <3> QED BY <1>0, <3>1, <3>2, NewJobRises
  <2>2. CASE Requeue(c)
    <3> DEFINE d == call[c]
               from == From(d.method)
    <3>1. d.id \in Ids /\ d.tenant \in Owner
      BY <2>2, InFlight DEF Requeue, Active
    <3>2. CASE UNCHANGED job
      BY <1>0, <3>2, NothingRises
    <3>3. CASE /\ Guard(d.tenant, d.id, from) = "none"
               /\ job' = [job EXCEPT ![d.id].status = "queued"]
      <4>1. "succeeded" \notin from /\ "queued" \in Rows!Status
        BY DEF From, Rows!AllowedEntry, Rows!Status
      <4>2. job[d.id].status # "succeeded"
        BY <3>1, <3>3, <4>1, GuardPasses
      <4> QED BY <1>0, <3>1, <3>3, <4>1, <4>2, StatusRises
    <3> QED BY <2>2, <3>2, <3>3 DEF Requeue
  <2>3. CASE UNCHANGED job
    BY <1>0, <2>3, NothingRises
  <2> QED BY <1>2, <2>1, <2>2, <2>3 DEF Proceed, CheckAgents, Load, Read, Unreached,
             LostAnswer, Store, DbError, Return
<1>3. ASSUME NEW c \in Callers, NEW n \in Owner, NEW valid \in BOOLEAN, Invalid(c, n, valid)
      PROVE  JobsRise
  BY <1>0, <1>3, NothingRises DEF Invalid, Refuse
<1>4. ASSUME NEW c \in Callers, NEW n \in Tenants, JobRpc(c, n) PROVE JobsRise
  BY <1>0, <1>4, JobRpcRises
<1>5. ASSUME NEW c \in Callers, NEW n \in Tenants, CatalogRpc(c, n) PROVE JobsRise
  <2>1. UNCHANGED job
    BY <1>5 DEF CatalogRpc, GetAgent, DeleteAgent, CreateAgent, UpdateAgent, GetTool,
       DeleteTool, CreateTool, UpdateTool, Show, Refuse
  <2> QED BY <1>0, <2>1, NothingRises
<1>6. ASSUME NEW c \in Callers, NEW n \in Tenants, NEW m \in TaskMethods, NEW i \in Ids,
             Arrive(c, n, m, i)
      PROVE  JobsRise
  BY <1>0, <1>6, NothingRises DEF Arrive
<1> QED BY <1>1, <1>2, <1>3, <1>4, <1>5, <1>6 DEF Next

\* Tenths of a percent, rounded: between none and all, and no fewer of more.
LEMMA Division ==
    ASSUME NEW a \in Nat, NEW n \in Nat \ {0}
    PROVE  /\ a \div n \in Nat /\ n * (a \div n) <= a /\ a < n * (a \div n) + n
  OBVIOUS

LEMMA DivisionMonotone ==
    ASSUME NEW a \in Nat, NEW b \in Nat, a <= b, NEW n \in Nat \ {0}
    PROVE  a \div n <= b \div n
<1> DEFINE q == a \div n
           r == b \div n
<1>1. q \in Nat /\ r \in Nat /\ n * q <= a /\ b < n * r + n
  BY Division
<1> HIDE DEF q, r
<1>2. ~(r + 1 <= q)
  <2> SUFFICES ASSUME r + 1 <= q PROVE FALSE
    OBVIOUS
  <2>1. PICK k \in Nat : q = r + 1 + k
    <3>1. q - (r + 1) \in Nat /\ q = r + 1 + (q - (r + 1))
      BY <1>1
    <3> QED BY <3>1
  <2>2. n * q = n * r + n + n * k /\ n * k >= 0
    BY <1>1, <2>1
  <2>3. n * r \in Nat /\ n * k \in Nat
    BY <1>1, <2>1
  <2> QED BY <1>1, <2>2, <2>3
<1>3. q <= r
  BY <1>1, <1>2
<1> QED BY <1>3 DEF q, r

\* Steps done of all of them, in tenths of a percent, rounded.
Share(done, total) == (2000 * done + total) \div (2 * total)
Tenths == 0 .. 1000

LEMMA ShareRises ==
    ASSUME NEW total \in Nat \ {0}, NEW done \in 0 .. total, NEW more \in done .. total
    PROVE  Share(done, total) \in Tenths /\ Share(done, total) <= Share(more, total)
<1> DEFINE n == 2 * total
           a == 2000 * done + total
           b == 2000 * more + total
           all == 2000 * total + total
<1>1. /\ n \in Nat \ {0} /\ a \in Nat /\ b \in Nat /\ all \in Nat /\ a <= b /\ a <= all
      /\ all < n * 1000 + n
  OBVIOUS
<1> HIDE DEF a, b, n, all
<1>2. a \div n <= b \div n /\ a \div n <= all \div n /\ a \div n \in Nat
  BY <1>1, DivisionMonotone, Division
<1>3. all \div n <= 1000
  <2>1. n * (all \div n) <= all /\ all \div n \in Nat
    BY <1>1, Division
  <2> DEFINE q == all \div n
  <2>2. n * q < n * 1001 /\ q \in Nat
    BY <1>1, <2>1
  <2> HIDE DEF q
  <2>3. ~(q >= 1001)
    <3> SUFFICES ASSUME q >= 1001 PROVE FALSE
      OBVIOUS
    <3>1. PICK k \in Nat : q = 1001 + k
      <4>1. q - 1001 \in Nat /\ q = 1001 + (q - 1001)
        BY <2>2
      <4> QED BY <4>1
    <3>2. n * q = n * 1001 + n * k /\ n * k \in Nat
      BY <1>1, <3>1
    <3> QED BY <1>1, <2>2, <3>2
  <2>4. q <= 1000
    BY <2>2, <2>3
  <2> QED BY <2>4 DEF q
<1>4. all \div n \in Nat
  BY <1>1, Division
<1>5. a \div n \in 0 .. 1000 /\ a \div n <= b \div n
  <2> DEFINE q == a \div n
             r == all \div n
  <2>1. q \in Nat /\ r \in Nat /\ q <= r /\ r <= 1000
    BY <1>2, <1>3, <1>4
  <2> HIDE DEF q, r
  <2>2. q \in 0 .. 1000
    BY <2>1
  <2> QED BY <1>2, <2>2 DEF q
<1>6. a \div n = Share(done, total) /\ b \div n = Share(more, total)
  BY DEF a, b, n, Share
<1> QED BY <1>5, <1>6 DEF Tenths

PercentOf(r) ==
    PercentComplete(TaskStatus(r.status), r.steps,
                    StepsTotal(IF r.plan THEN PlanLength ELSE 0, r.steps))

LEMMA PercentOfRow ==
    ASSUME NEW r \in Job, Whole(r)
    PROVE  /\ r.status = "succeeded" => PercentOf(r) = 1000
           /\ r.status # "succeeded" /\ ~r.plan => PercentOf(r) = 0
           /\ r.status # "succeeded" /\ r.plan =>
                 PercentOf(r) = Share(r.steps, PlanLength)
<1>1. /\ r.steps \in 0 .. PlanLength /\ r.plan \in BOOLEAN
      /\ r.status \in Rows!Status \cup {"absent"} /\ PlanLength \in Nat \ {0}
  BY SurfaceAssumption DEF Job
<1>2. TaskStatus(r.status) = "completed" <=> r.status = "succeeded"
  BY <1>1 DEF TaskStatus, Rows!Status
<1>3. CASE r.status = "succeeded"
  BY <1>2, <1>3 DEF PercentOf, PercentComplete
<1>4. CASE r.status # "succeeded" /\ ~r.plan
  <2>1. r.steps = 0
    BY <1>1, <1>4 DEF Whole
  <2>2. StepsTotal(IF r.plan THEN PlanLength ELSE 0, r.steps) = 0
    BY <1>4, <2>1 DEF StepsTotal
  <2> QED BY <1>2, <1>4, <2>2 DEF PercentOf, PercentComplete
<1>5. CASE r.status # "succeeded" /\ r.plan
  <2>1. StepsTotal(IF r.plan THEN PlanLength ELSE 0, r.steps) = PlanLength
    BY <1>1, <1>5 DEF StepsTotal
  <2>2. ~(PlanLength <= 0)
    BY <1>1
  <2> QED BY <1>2, <1>5, <2>1, <2>2 DEF PercentOf, PercentComplete, Share
<1> QED BY <1>3, <1>4, <1>5

LEMMA PercentRises ==
    ASSUME NEW r \in Job, NEW s \in Job, Whole(r), Whole(s), Rises(r, s), Grows(r, s)
    PROVE  PercentOf(s) >= PercentOf(r)
<1> DEFINE p == PercentOf(r)
           q == PercentOf(s)
           n == PlanLength
           done == r.steps
           more == s.steps
           x == Share(done, n)
           y == Share(more, n)
<1>1. /\ n \in Nat \ {0} /\ done \in 0 .. n /\ more \in done .. n
      /\ more \in 0 .. n /\ n \in more .. n
  BY SurfaceAssumption DEF Job, Grows
<1>2. x \in Tenths /\ x <= y
  <2>1. n \in Nat \ {0} /\ done \in 0 .. n /\ more \in done .. n
    BY <1>1
  <2> HIDE DEF n, done, more, p, q
  <2> QED BY ONLY <2>1, ShareRises
<1>3. y \in Tenths
  <2>1. n \in Nat \ {0} /\ more \in 0 .. n /\ n \in more .. n
    BY <1>1
  <2> HIDE DEF n, done, more, p, q, x
  <2> QED BY ONLY <2>1, ShareRises
<1>4. /\ r.status = "succeeded" => p = 1000
      /\ r.status # "succeeded" /\ ~r.plan => p = 0
      /\ r.status # "succeeded" /\ r.plan => p = x
  BY PercentOfRow
<1>5. /\ s.status = "succeeded" => q = 1000
      /\ s.status # "succeeded" /\ ~s.plan => q = 0
      /\ s.status # "succeeded" /\ s.plan => q = y
  BY PercentOfRow
<1>6. /\ r.status = "succeeded" => s.status = "succeeded"
      /\ r.plan => s.plan
  BY DEF Rises, Grows
<1>7. q >= p
  <2> HIDE DEF p, q, x, y, n
  <2>1. CASE s.status = "succeeded"
    BY <1>2, <1>4, <1>5, <2>1 DEF Tenths
  <2>2. CASE s.status # "succeeded" /\ r.plan
    BY <1>2, <1>3, <1>4, <1>5, <1>6, <2>2 DEF Tenths
  <2>3. CASE s.status # "succeeded" /\ ~r.plan
    BY <1>3, <1>4, <1>5, <1>6, <2>3 DEF Tenths
  <2> QED BY <2>1, <2>2, <2>3
<1> QED BY <1>7

\* The percentage that GetTaskProgress shows of a task never drops, whoever moves
\* its job and wherever to, unless pods that share the job overwrite each other's
\* checkpoints (jobs.py:325-339).
THEOREM PercentKept == Spec => PercentNeverDrops
<1>1. IInv /\ [Next]_vars =>
        [\A i \in Ids : job[i] # NoJob => Percent(i)' >= Percent(i) \/ Overwrite(i)]_vars
  <2> SUFFICES ASSUME IInv, Next, NEW i \in Ids, job[i] # NoJob, ~Overwrite(i)
               PROVE  Percent(i)' >= Percent(i)
    OBVIOUS
  <2>1. job[i] \in Job /\ Whole(job[i])
    BY DEF IInv, TablesInv
  <2>2. job'[i] \in Job /\ Whole(job'[i]) /\ Rises(job[i], job'[i]) /\ Grows(job[i], job'[i])
    BY StepRises DEF JobsRise
  <2>3. PercentOf(job'[i]) >= PercentOf(job[i])
    BY <2>1, <2>2, PercentRises
  <2>4. Percent(i) = PercentOf(job[i]) /\ Percent(i)' = PercentOf(job'[i])
    BY DEF Percent, PercentOf
  <2> QED BY <2>3, <2>4
<1> QED BY <1>1, Inductive, PTL DEF Spec, PercentNeverDrops
=============================================================================
