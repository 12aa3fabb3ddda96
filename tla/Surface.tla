------------------------------ MODULE Surface ------------------------------
(***************************************************************************)
(* The RPCs of agent_execution_service and of job_svc as their callers see  *)
(* them: the tenant out of the metadata, the validators, the row of the     *)
(* tenant, the call to job_svc in the tenant's name, the write of what it    *)
(* answered, and the errors of both services on their way back (servicer.py  *)
(* of both, job_client.py, services/tasks.py).                               *)
(*                                                                          *)
(* The workers are seen through what they do to a job and its checkpoint     *)
(* (JobRunner), an update of an agent as one step (Catalog); messages of     *)
(* errors and the texts in a view are left out.                              *)
(***************************************************************************)
EXTENDS TaskRows

CONSTANTS
    Tenants,
    NoTenant,     \* no metadata, no row
    Ids,          \* of tasks; a task and its job share one
    Agents,
    Tools,
    Callers,      \* RPCs that may be in flight at the same time
    PlanLength,   \* sub-prompts in a plan
    MaxCalls      \* bound: RPCs

ASSUME SurfaceAssumption ==
    /\ NoTenant \notin Tenants
    /\ Ids # {}
    /\ PlanLength \in Nat \ {0} /\ MaxCalls \in Nat

Rows == INSTANCE JobRows WITH Pods <- {}, LeaseTicks <- 1

VARIABLES
    agent,        \* the `agents` table and its grants
    tool,         \* the tenant of each row of `tools`
    job,          \* the `jobs` table
    task,         \* the `tasks` table
    call,         \* the RPCs
    left,         \* what is left of MaxCalls
    configured    \* history: the tenants that have ever had an agent

vars == <<agent, tool, job, task, call, left, configured>>

Owner == Tenants \cup {NoTenant}

\* The checkpoint: whether there is a plan, its steps that are done, whether
\* the final result is there.  `lost` says that a pod may still be running the
\* job that it has been taken from.
Job == [tenant : Owner, status : Rows!Status \cup {"absent"}, lost : BOOLEAN,
        plan : BOOLEAN, steps : 0 .. PlanLength, result : BOOLEAN]
NoJob == [tenant |-> NoTenant, status |-> "absent", lost |-> FALSE, plan |-> FALSE,
          steps |-> 0, result |-> FALSE]

Agent == [tenant : Owner, links : SUBSET Tools]
NoAgent == [tenant |-> NoTenant, links |-> {}]

Snapshot == [status : TaskStatuses, result : BOOLEAN]
NoSnapshot == [status |-> "absent", result |-> FALSE]
Task == [tenant : Owner, row : Snapshot \cup {NoSnapshot}]
NoTask == [tenant |-> NoTenant, row |-> NoSnapshot]

TaskMethods == {"CreateTask", "GetTask", "ApproveTask", "RetryTask", "GetTaskProgress"}

\* What each call awaits, and of an answered one its code, the tenant whose row
\* it has changed and the tenant whose row it has shown.  `had` says that the
\* row it is about was there when it arrived.
Codes == {"none", "OK", "NOT_FOUND", "INVALID_ARGUMENT", "UNAUTHENTICATED",
          "ALREADY_EXISTS", "FAILED_PRECONDITION", "INTERNAL"}
Call == [pc : {"idle", "agents", "load", "remote", "store", "done"},
         method : TaskMethods \cup {"other"}, tenant : Owner, id : Ids,
         had : BOOLEAN, row : Snapshot \cup {NoSnapshot},
         changed : Owner, shown : Owner, code : Codes]
NoCall == [pc |-> "idle", method |-> "other", tenant |-> NoTenant,
           id |-> CHOOSE i \in Ids : TRUE, had |-> FALSE, row |-> NoSnapshot,
           changed |-> NoTenant, shown |-> NoTenant, code |-> "none"]

Init ==
    /\ agent = [a \in Agents |-> NoAgent]
    /\ tool = [t \in Tools |-> NoTenant]
    /\ job = [i \in Ids |-> NoJob]
    /\ task = [i \in Ids |-> NoTask]
    /\ call = [c \in Callers |-> NoCall]
    /\ left = MaxCalls
    /\ configured = {}

----------------------------------------------------------------------------
(* Errors.  A call to a service raises one of its typed errors, and          *)
(* _handle_errors makes a status of it; JobClient makes an error of the       *)
(* status again.                                                             *)

StatusByError == [NotFoundError |-> "NOT_FOUND",
                  ValidationError |-> "INVALID_ARGUMENT",
                  AuthenticationError |-> "UNAUTHENTICATED",
                  ConflictError |-> "ALREADY_EXISTS",
                  StateError |-> "FAILED_PRECONDITION"]
Status(error) == IF error \in DOMAIN StatusByError THEN StatusByError[error] ELSE "INTERNAL"

ErrorByCode == [NOT_FOUND |-> "NotFoundError",
                INVALID_ARGUMENT |-> "ValidationError",
                FAILED_PRECONDITION |-> "StateError",
                ALREADY_EXISTS |-> "ConflictError",
                ABORTED |-> "ConflictError"]
Raised_State(code) == IF code \in DOMAIN ErrorByCode THEN ErrorByCode[code] ELSE "StateError"
Raised(code) == IF code \in DOMAIN ErrorByCode THEN ErrorByCode[code] ELSE "AppError"

\* The metadata first, then the validators.
Rejects(tenant, valid) ==
    CASE tenant = NoTenant -> "AuthenticationError"
      [] tenant # NoTenant /\ ~valid -> "ValidationError"
      [] OTHER -> "none"

----------------------------------------------------------------------------
(* Calls                                                                     *)

Begins(c, new) ==
    /\ call[c].pc = "idle" /\ left > 0
    /\ left' = left - 1
    /\ call' = [call EXCEPT ![c] = new]

\* The answer to the call d.
Answered(d, code, shown) ==
    [NoCall EXCEPT !.pc = "done", !.method = d.method, !.tenant = d.tenant,
                   !.had = d.had, !.changed = d.changed, !.shown = shown, !.code = code]
Answer(c, code, shown) == call' = [call EXCEPT ![c] = Answered(@, code, shown)]
Abort(c, error) == Answer(c, Status(error), NoTenant)

\* A call that is one statement, and its code, error or OK.
Request(tenant) == [NoCall EXCEPT !.tenant = tenant]
Refuse(c, tenant, error) ==
    /\ Begins(c, Answered(Request(tenant), Status(error), NoTenant))
    /\ UNCHANGED <<agent, tool, job, task, configured>>
Show(c, tenant, whose) ==
    /\ Begins(c, Answered(Request(tenant), "OK", whose))
    /\ UNCHANGED <<agent, tool, job, task, configured>>
Change(c, tenant, whose) ==
    Begins(c, Answered([Request(tenant) EXCEPT !.changed = whose], "OK", whose))

\* The caller has its answer.
Return(c) ==
    /\ call[c].pc = "done"
    /\ call' = [call EXCEPT ![c] = NoCall]
    /\ UNCHANGED <<agent, tool, job, task, left, configured>>

----------------------------------------------------------------------------
(* job_svc, called by anyone                                                 *)

Invalid(c, tenant, valid) ==
    /\ Rejects(tenant, valid) # "none"
    /\ Refuse(c, tenant, Rejects(tenant, valid))

\* The rows that a statement WHERE tenant_id = n finds.
Found_AnyTenant(tenant, i) == job[i].tenant # NoTenant
Found(tenant, i) == tenant # NoTenant /\ job[i].tenant = tenant

Guard_AnyMiss(tenant, i, from) ==
    IF Found(tenant, i) /\ job[i].status \in from THEN "none" ELSE "NotFoundError"

\* _guarded_update: what the statement has missed for.
Guard(tenant, i, from) ==
    CASE ~Found(tenant, i) -> "NotFoundError"
      [] Found(tenant, i) /\ job[i].status \notin from -> "StateError"
      [] OTHER -> "none"

NewJob(tenant) == [NoJob EXCEPT !.tenant = tenant, !.status = "queued"]

CreateJob(c, n) ==
    /\ \E i \in Ids :
         /\ job[i] = NoJob
         /\ job' = [job EXCEPT ![i] = NewJob(n)]
    /\ Change(c, n, n)
    /\ UNCHANGED <<agent, tool, task, configured>>

\* A filter names ids, and unknown ones are left out of the answer.
GetJob(c, n, i) == Show(c, n, IF Found(n, i) THEN job[i].tenant ELSE NoTenant)

\* Where a job may come to by UpdateJob; a failed run may be requeued.
Targets(i, target) ==
    IF target = "failed" THEN {"queued", "failed", "dead"} ELSE {target}
Sources(target) ==
    CASE target = "running" -> {"queued"}
      [] target = "failed" -> {"running"}
      [] OTHER -> Rows!AllowedEntry[target]

\* A statement that is not the pod's own takes the job from it, if it is there.
Loses(i) == {job[i].lost, job[i].lost \/ job[i].status = "running"}

Transition(c, n, i, from, to) ==
    \/ /\ Guard(n, i, from) # "none"
       /\ Refuse(c, n, Guard(n, i, from))
    \/ /\ Guard(n, i, from) = "none"
       /\ \E s \in to, lost \in Loses(i) :
            job' = [job EXCEPT ![i].status = s, ![i].lost = lost]
       /\ Change(c, n, job[i].tenant)
       /\ UNCHANGED <<agent, tool, task, configured>>

UpdateJob(c, n, i, target) == Transition(c, n, i, Sources(target), Targets(i, target))
RetryJob(c, n, i) == Transition(c, n, i, {"failed"}, {"queued"})

JobRpc(c, n) ==
    \/ CreateJob(c, n)
    \/ \E i \in Ids : \/ GetJob(c, n, i) \/ RetryJob(c, n, i)
                      \/ \E target \in Rows!Status : UpdateJob(c, n, i, target)

----------------------------------------------------------------------------
(* The workers, for any tenant: a claim, a checkpoint, the end of a run, and *)
(* a lease that ran out, with its pod dead or late.                          *)

Claim(i) ==
    /\ job[i].status = "queued"
    /\ job' = [job EXCEPT ![i].status = "running"]

\* The pod of the running job adds to its checkpoint.
Advance(i) ==
    /\ job[i].status = "running"
    /\ \/ ~job[i].plan /\ job' = [job EXCEPT ![i].plan = TRUE]
       \/ /\ job[i].plan /\ job[i].steps < PlanLength
          /\ job' = [job EXCEPT ![i].steps = @ + 1]
       \/ /\ job[i].steps = PlanLength /\ ~job[i].result
          /\ job' = [job EXCEPT ![i].result = TRUE]

\* save_progress writes by id: a pod that has lost the job replaces what is there
\* by its own checkpoint, whatever the job's status, and so does the next one.
Overwrite(i) ==
    /\ job[i].lost
    /\ \E steps \in 0 .. PlanLength, result \in BOOLEAN :
         /\ result => steps = PlanLength
         /\ job' = [job EXCEPT ![i].plan = TRUE, ![i].steps = steps, ![i].result = result]

Checkpoint(i) == Advance(i) \/ Overwrite(i)

\* A pod that shares the job ends its run by what it has seen itself.
EndRun(i) ==
    /\ job[i].status = "running"
    /\ \E s \in {"succeeded", "waiting_approval", "queued", "failed", "dead"} :
         /\ s = "succeeded" => job[i].result \/ job[i].lost
         /\ s = "waiting_approval" =>
              \/ job[i].plan /\ job[i].steps < PlanLength
              \/ job[i].lost
         /\ job' = [job EXCEPT ![i].status = s]

Reap(i) ==
    /\ job[i].status = "running"
    /\ \E s \in {"queued", "failed", "dead"}, lost \in Loses(i) :
         job' = [job EXCEPT ![i].status = s, ![i].lost = lost]

Work == /\ \E i \in Ids : Claim(i) \/ Checkpoint(i) \/ EndRun(i) \/ Reap(i)
        /\ UNCHANGED <<agent, tool, task, call, left, configured>>

----------------------------------------------------------------------------
(* AgentService and ToolService                                              *)

OwnTools_Any(tenant, wanted) == {t \in wanted : tool[t] # NoTenant}
OwnTools(tenant, wanted) == {t \in wanted : tool[t] = tenant}

CreateAgent(c, n, a, wanted) ==
    /\ agent[a] = NoAgent
    /\ agent' = [agent EXCEPT ![a] = [tenant |-> n, links |-> OwnTools(n, wanted)]]
    /\ configured' = configured \cup {n}
    /\ Change(c, n, n)
    /\ UNCHANGED <<tool, job, task>>

GetAgent(c, n, a) == Show(c, n, IF agent[a].tenant = n THEN n ELSE NoTenant)

UpdateAgent(c, n, a, wanted) ==
    \/ agent[a].tenant # n /\ Refuse(c, n, "NotFoundError")
    \/ /\ agent[a].tenant = n
       /\ agent' = [agent EXCEPT ![a].links = OwnTools(n, wanted)]
       /\ Change(c, n, agent[a].tenant)
       /\ UNCHANGED <<tool, job, task, configured>>

DeleteAgent(c, n, a) ==
    \/ agent[a].tenant # n /\ Refuse(c, n, "NotFoundError")
    \/ /\ agent[a].tenant = n
       /\ agent' = [agent EXCEPT ![a] = NoAgent]
       /\ Change(c, n, agent[a].tenant)
       /\ UNCHANGED <<tool, job, task, configured>>

\* Whether a name is taken is left open.
CreateTool(c, n, t, taken) ==
    \/ taken /\ Refuse(c, n, "ConflictError")
    \/ /\ ~taken /\ tool[t] = NoTenant
       /\ tool' = [tool EXCEPT ![t] = n]
       /\ Change(c, n, n)
       /\ UNCHANGED <<agent, job, task, configured>>

GetTool(c, n, t) == Show(c, n, IF tool[t] = n THEN n ELSE NoTenant)

UpdateTool(c, n, t, taken) ==
    \/ tool[t] # n /\ Refuse(c, n, "NotFoundError")
    \/ tool[t] = n /\ taken /\ Refuse(c, n, "ConflictError")
    \/ /\ tool[t] = n /\ ~taken
       /\ Change(c, n, tool[t])
       /\ UNCHANGED <<agent, tool, job, task, configured>>

DeleteTool(c, n, t) ==
    \/ tool[t] # n /\ Refuse(c, n, "NotFoundError")
    \/ /\ tool[t] = n
       /\ tool' = [tool EXCEPT ![t] = NoTenant]
       /\ agent' = [a \in Agents |-> [agent[a] EXCEPT !.links = @ \ {t}]]
       /\ Change(c, n, tool[t])
       /\ UNCHANGED <<job, task, configured>>

CatalogRpc(c, n) ==
    \/ \E a \in Agents : \/ GetAgent(c, n, a) \/ DeleteAgent(c, n, a)
                         \/ \E wanted \in SUBSET Tools \ {{}} :
                              CreateAgent(c, n, a, wanted) \/ UpdateAgent(c, n, a, wanted)
    \/ \E t \in Tools : \/ GetTool(c, n, t) \/ DeleteTool(c, n, t)
                        \/ \E taken \in BOOLEAN :
                             CreateTool(c, n, t, taken) \/ UpdateTool(c, n, t, taken)

----------------------------------------------------------------------------
(* The RPCs of a task                                                        *)

Arrive(c, n, m, i) ==
    /\ Begins(c, [NoCall EXCEPT !.pc = IF m = "CreateTask" THEN "agents" ELSE "load",
                                !.method = m, !.tenant = n,
                                !.id = IF m = "CreateTask" THEN @ ELSE i,
                                !.had = m # "CreateTask" /\ task[i].tenant = n])
    /\ UNCHANGED <<agent, tool, job, task, configured>>

\* CreateTask asks whether the tenant has an agent.
HasAny_Anyones(tenant) == \E a \in Agents : agent[a].tenant # NoTenant
HasAny(tenant) == \E a \in Agents : agent[a].tenant = tenant

CheckAgents(c) ==
    /\ call[c].pc = "agents"
    /\ IF HasAny(call[c].tenant) THEN call' = [call EXCEPT ![c].pc = "remote"]
                                 ELSE Abort(c, "StateError")
    /\ UNCHANGED <<agent, tool, job, task, left, configured>>

\* The tenant's row.  GetTask leaves out what it does not find, and asks nothing
\* about a terminal task.
Load(c) ==
    /\ call[c].pc = "load"
    /\ LET d == call[c]
           mine == task[d.id].tenant = d.tenant
           row == task[d.id].row IN
       IF ~mine THEN IF d.method = "GetTask" THEN Answer(c, "OK", NoTenant)
                                             ELSE Abort(c, "NotFoundError")
       ELSE IF d.method = "GetTask" /\ row.status \in Terminal
            THEN Answer(c, "OK", task[d.id].tenant)
       ELSE call' = [call EXCEPT ![c].pc = "remote", ![c].row = row]
    /\ UNCHANGED <<agent, tool, job, task, left, configured>>

\* What job_svc answers of the job, and what it is made of: _task_status.
Ref_RawStatus(i) == [status |-> job[i].status, result |-> job[i].result]
Ref(i) == [status |-> TaskStatus(job[i].status), result |-> job[i].result]

\* The sources and the target of approve and retry.
From(m) == IF m = "ApproveTask" THEN Rows!AllowedEntry["queued"] ELSE {"failed"}

\* The job is made, of the tenant whose metadata the client forwards ...
Submit(c) ==
    /\ call[c].pc = "remote" /\ call[c].method = "CreateTask"
    /\ \E i \in Ids :
         /\ job[i] = NoJob
         /\ job' = [job EXCEPT ![i] = NewJob(call[c].tenant)]
         /\ call' = [call EXCEPT ![c].pc = "store", ![c].id = i,
                                 ![c].changed = call[c].tenant,
                                 ![c].row = [status |-> "pending", result |-> FALSE]]
    /\ UNCHANGED <<agent, tool, task, left, configured>>

\* ... or it is requeued ...
Requeue(c) ==
    /\ call[c].pc = "remote" /\ call[c].method \in {"ApproveTask", "RetryTask"}
    /\ LET d == call[c]
           error == Guard(d.tenant, d.id, From(d.method)) IN
       \/ /\ error # "none"
          /\ Abort(c, Raised(Status(error)))
          /\ UNCHANGED job
       \/ /\ error = "none"
          /\ job' = [job EXCEPT ![d.id].status = "queued"]
          /\ call' = [call EXCEPT ![c].pc = "store", ![c].changed = job[d.id].tenant,
                                  ![c].row = [status |-> "pending", result |-> job[d.id].result]]
    /\ UNCHANGED <<agent, tool, task, left, configured>>

\* ... or it is read.  An empty answer is an error, which GetTask swallows.
Read(c) ==
    /\ call[c].pc = "remote" /\ call[c].method \in {"GetTask", "GetTaskProgress"}
    /\ LET d == call[c]
           found == Found(d.tenant, d.id) IN
       CASE d.method = "GetTaskProgress" /\ found -> Answer(c, "OK", job[d.id].tenant)
         [] d.method = "GetTaskProgress" /\ ~found -> Abort(c, "NotFoundError")
         [] d.method = "GetTask" /\ (~found \/ Ref(d.id) = d.row) -> Answer(c, "OK", d.tenant)
         [] d.method = "GetTask" /\ found /\ Ref(d.id) # d.row ->
              call' = [call EXCEPT ![c].pc = "store", ![c].row = Ref(d.id)]
    /\ UNCHANGED <<agent, tool, job, task, left, configured>>

\* job_svc is not reached, or its answer is lost after it has acted.
Unreached(c) ==
    /\ call[c].pc = "remote"
    /\ IF call[c].method = "GetTask" THEN Answer(c, "OK", call[c].tenant)
                                     ELSE Abort(c, Raised("UNAVAILABLE"))
    /\ UNCHANGED <<agent, tool, job, task, left, configured>>

LostAnswer(c) ==
    /\ call[c].pc = "store" /\ call[c].method # "GetTask"
    /\ Abort(c, Raised("UNAVAILABLE"))
    /\ UNCHANGED <<agent, tool, job, task, left, configured>>

\* The row is inserted, or updated where it is the tenant's.
Store(c) ==
    /\ call[c].pc = "store"
    /\ LET d == call[c]
           mine == d.method = "CreateTask" \/ task[d.id].tenant = d.tenant IN
       IF mine THEN /\ task' = [task EXCEPT ![d.id] = [tenant |-> d.tenant, row |-> d.row]]
                    /\ Answer(c, "OK", d.tenant)
               ELSE Abort(c, "NotFoundError") /\ UNCHANGED task
    /\ UNCHANGED <<agent, tool, job, left, configured>>

\* A statement fails.
DbError(c) ==
    /\ call[c].pc \in {"agents", "load", "store"}
    /\ Abort(c, "SQLAlchemyError")
    /\ UNCHANGED <<agent, tool, job, task, left, configured>>

Proceed(c) == \/ CheckAgents(c) \/ Load(c) \/ Submit(c) \/ Requeue(c) \/ Read(c)
              \/ Unreached(c) \/ LostAnswer(c) \/ Store(c) \/ DbError(c) \/ Return(c)

Next ==
    \/ Work
    \/ \E c \in Callers :
         \/ Proceed(c)
         \/ \E n \in Owner, valid \in BOOLEAN : Invalid(c, n, valid)
         \/ \E n \in Tenants : \/ JobRpc(c, n) \/ CatalogRpc(c, n)
                               \/ \E m \in TaskMethods, i \in Ids : Arrive(c, n, m, i)

Spec == Init /\ [][Next]_vars

----------------------------------------------------------------------------
TypeOK ==
    /\ agent \in [Agents -> Agent]
    /\ tool \in [Tools -> Owner]
    /\ job \in [Ids -> Job]
    /\ task \in [Ids -> Task]
    /\ call \in [Callers -> Call]
    /\ left \in 0 .. MaxCalls
    /\ configured \subseteq Tenants

\* A tenant sees and changes rows of its own only, whatever ids it names, and
\* its agents are granted its own tools; a task is of the tenant of its job
\* (services/*.py of both services; "isolation is enforced by discipline in the
\* query layer", README.md of agent_execution_service).
Isolation ==
    /\ \A c \in Callers : {call[c].changed, call[c].shown} \subseteq {call[c].tenant, NoTenant}
    /\ \A a \in Agents : \A t \in agent[a].links : tool[t] = agent[a].tenant
    /\ \A i \in Ids : task[i].tenant # NoTenant => job[i].tenant = task[i].tenant

\* A caller that is refused can rely on nothing having happened, also when the
\* refusal came from the other service; one that gets an OK, on its having
\* happened.  Only INTERNAL leaves it open (job_client.py:91-99, 179-184).
Refusals == {"NOT_FOUND", "INVALID_ARGUMENT", "UNAUTHENTICATED", "ALREADY_EXISTS",
             "FAILED_PRECONDITION"}
AnswersTellTruth ==
    \A c \in Callers :
        /\ call[c].code \in Refusals => call[c].changed = NoTenant
        /\ call[c].code = "OK" /\ call[c].method \in {"CreateTask", "ApproveTask", "RetryTask"} =>
              call[c].changed = call[c].tenant

\* A task that its tenant had when it called is found, in the table and then in
\* the other service (tasks.py:156-161, 229-234).
OwnTaskIsFound ==
    \A c \in Callers : call[c].had => call[c].code # "NOT_FOUND"

\* No task is accepted of a tenant that has never had an agent
\* (servicer.py:183-187); its agents may be gone by the time.
OnlyConfigured == \A i \in Ids : task[i].tenant \in configured \cup {NoTenant}

\* The percentage that GetTaskProgress shows of a task never drops: not when its
\* run fails or pauses and is queued again, nor when its pod dies, nor when a
\* caller ends the job with steps left (tasks.py:90-98, 146-180).  What may lower
\* it is a save of a pod that the job was taken from while it ran, or of the next
\* one, which share the row then (jobs.py:325-339).
Percent(i) ==
    PercentComplete(TaskStatus(job[i].status), job[i].steps,
                    StepsTotal(IF job[i].plan THEN PlanLength ELSE 0, job[i].steps))
PercentNeverDrops ==
    [][\A i \in Ids : job[i] # NoJob => Percent(i)' >= Percent(i) \/ Overwrite(i)]_vars
=============================================================================
