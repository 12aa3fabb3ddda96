# A TLA+ model of the agent execution platform

The platform runs prompts as *tasks*: a task is backed by a *job*, a worker
decomposes the job's prompt into steps, and every step is a turn of an agent
group chat that may call tools, some of which need a human's approval.  This
directory models it end to end: the `jobs` table and its statements, the workers
that drain it, the `tasks` rows that mirror jobs in another service, the group
chat that a step is, with its approval gate and the catalog it reads while
callers edit it, what is said in the chats of a job on its way through the
model client, the gateway's guardrails and the tools, and the RPCs of two
services as callers of several tenants see them.

Paths below are relative to the repository; `job_svc/` stands for
`services/job_svc/src/job_svc/` and `aes/` for
`services/agent_execution_service/src/agent_execution_service/`.

## 1. Inventory of the system

| component | state | operations | talks to |
| --- | --- | --- | --- |
| **JobService** (`job_svc/services/jobs.py`) | the `jobs` table: status, attempts, retry count, lease, progress | CreateJob, GetJob, UpdateJob, RetryJob; claim_batch, reap_expired, renew_lease, save_progress | PostgreSQL; called by the RPC servicer and by the poller of every pod |
| **poller, runner, dispatcher** (`job_svc/poller.py`, `runner.py`, `main.py`) | per pod: the claimed batch, the job being run, a copy of its progress, a heartbeat, the stop event | tick (reap, claim, dispatch), plan, execute steps, finalize, pause, fail, heartbeat, shutdown | JobService; the orchestrator through `Chat` |
| **TaskService** (`aes/services/tasks.py`, `job_client.py`) | the `tasks` table: a snapshot of status and result | CreateTask, GetTask, GetTaskProgress, ApproveTask, RetryTask | job_svc over gRPC |
| **agents and tools catalog** (`aes/services/agents.py`, `tools.py`) | agents, tools, links, versions | create, get, update, delete | the database; read by the orchestrator |
| **group chat** (`orchestrator/groupchat.py`, `run.py`, `agents_repo.py`) | one chat: participants, transcript, selector, termination | Chat | the model client and the workbench |
| **model client** (`orchestrator/model_client.py`) | per client: the tokens it has used | one request per answer: the transcript as wire messages, with calls and their results paired | the gateway, with a deadline |
| **MCP workbench** (`orchestrator/mcp_workbench.py`) | per chat: mutating flags, approval flag, whether a call was refused | list_tools, call_tool | mcp_svc |
| **gateway** (`gateway/`) | none | GenerateChat: blocklist, length, redaction, then one of two providers | LLM providers over HTTP |
| **mcp_svc** (`handlers.py`, `server.py`) | none | list tools, call a tool: `http_request`, `query_database` | HTTP, database (read only) |
| **RPC surfaces** (`servicer.py`, `validators.py`, `auth.py`, `errors.py`, `job_client.py`) | none | metadata, validation, tenant scoping, errors as statuses and back | |
| configuration, database set-up | none | | |
| generated protobuf code, tests | | | |

How they interact: CreateTask submits a job, then inserts the task row.  Every
pod's poller reaps jobs whose lease expired, claims the oldest queued ones in
one statement (`FOR UPDATE SKIP LOCKED`) and runs them one after the other,
renewing the lease of the one being run.  A run plans once, executes the steps
that are not done, checkpoints after each, and ends in `succeeded`,
`waiting_approval`, or a failure whose target the two budgets decide.  A
mutating tool called in a chat that is not approved makes the chat pause; the
job is then parked until ApproveTask requeues it, and the paused step alone is
sent again as approved.  GetTask refreshes the snapshot of a task that is not
terminal from its job.

What is hard:

- *several writers of one row*: RPC callers, the reaper of every pod, and a
  runner that may have lost its job to another pod, none of whose statements
  names the owner, and whose checkpoint not even looks at the status;
- *leases and time*: heartbeats that fail, batches longer than a lease;
- *crashes* between the two writes that pause a step or finish a job, and
  between a chat and its checkpoint;
- *two budgets* and a plain requeue that resets neither;
- *snapshots across services*: each RPC is a remote call and a local write
  that others may overtake, or of which one half is lost;
- *a chat works from a copy*: it reads agents, grants and tools in three
  statements, keeps the tools' names and flags to its end, and is answered by
  a server that looks the names up again, while tools are renamed, deleted and
  created anew under the same names;
- *a pause inside a conversation*: one agent's call is refused, others go on
  talking, and what ends the chat may be anybody's message or the cap;
- *texts that change roles*: a tool's result is a tool message to the agent that
  called it, a user's message to the others and part of the selector's prompt,
  and a plan the model wrote comes back as a user's message of the next chat,
  while screening goes by role and redaction leaves out arguments;
- *errors that cross services*: each hop maps them anew, and an answer may be
  lost after the other service has acted.

The properties that make each component correct:

- JobService: callers see only the documented lifecycle; budgets are never
  overdrawn; every run can be reaped; claims are disjoint.
- Workers: one runner at a time; checkpoints only grow; steps in order; a
  paused step runs approved only if somebody approved it; a success is
  complete; a cancelled job stays cancelled; every job comes to rest.  Some of
  these hold under conditions only, which section 3 names with what refutes
  them otherwise.
- TaskService: a snapshot never claims more than the job did; once the job is
  at rest, the snapshot converges.
- Group chat and workbench: what has been mutating since the chat arrived does
  not run unapproved; a chat pauses exactly if a call was withheld in it; a plan
  is the planner's and runs no tool; every chat ends, and not before somebody
  spoke.
- Conversation: what the gateway holds back reaches the model by no detour;
  a query's tables are the tenant's; every call has its result; tokens add up; a
  request that was rejected does not look retryable.
- Surface: tenants see and change their own rows only; a refusal means that
  nothing has happened; progress drops by a late pod's checkpoint only.
- Catalog: an agent has no grant that its last update did not name, and a name
  belongs to one tool.

`PROJECT.json` lists all components with their status, and the hazards with
the properties that cover each.

## 2. The modules

| module | models | extends |
| --- | --- | --- |
| `JobRows` | one row of `jobs`, and the effect of every UPDATE on it (pure operators) | |
| `JobLifecycle` | the abstract promise: which status may follow which, what a retry costs | |
| `JobService` | every statement of `jobs.py` against the table, any callers | `JobRows`; implements `JobLifecycle` |
| `JobRunner` | pods running poller, dispatcher and runner against the table with its progress column, callers, clock, crashes | `JobRows`; implements `JobLifecycle` |
| `TaskRows` | what a task makes of a job: status, steps, percentage (pure operators) | |
| `TaskService` | the `tasks` rows and RPCs, over `JobLifecycle` | `TaskRows`; instantiates `JobLifecycle` |
| `Catalog` | one tenant's tools, agents and grants, and the calls that edit them | |
| `ChatLifecycle` | the abstract promise of the Chat RPC: when tools may run, and what the `finish_reason` says of those that did not | |
| `GroupChat` | Chat calls of the orchestrator, with the workbench and mcp_svc, while the catalog is edited | `Catalog`; implements `ChatLifecycle` |
| `ToolHandlers` | what the handlers of mcp_svc refuse and may answer (pure operators) | |
| `Conversation` | what is said in the chats of one job: requests, gateway, providers, results, usage, errors | `GroupChat`, `ToolHandlers`; implements `GroupChat` |
| `Surface` | the RPCs of agent_execution_service and job_svc, for callers of several tenants | `TaskRows`; instantiates `JobRows` |
| `MCJobService`, `MCJobRunner`, `MCTaskService`, `MCGroupChat`, `MCConversation`, `MCSurface` | symmetry sets, or a restricted initial state, for TLC | |
| `JobRowsProofs`, `JobServiceProofs`, `JobRunnerProofs`, `TaskServiceProofs`, `GroupChatProofs`, `ConversationProofs`, `SurfaceProofs` | theorems | |
| `FoldProofs` | what the two folds of the model compute: a sum over a finite set, and sequences put together | |

The layers fit together as follows.  `JobRows` holds the effects once, so
that `JobService` and `JobRunner` cannot disagree about what `_fail`, `retry`
or `claim_batch` do to a row.  `JobService` is the service under *arbitrary*
callers and is shown to implement `JobLifecycle`; `TaskService` lives in
another process and uses job_svc through exactly that promise.  `JobRunner`
replaces the arbitrary callers by the real worker, and is shown to implement the
same promise step by step, with its workers doing no more to a job than
`TaskService` expects of them.  `GroupChat` runs in a
third process against the catalog's tables and implements `ChatLifecycle`, which
is what `JobRunner` sees of it: a chat that completes, pauses or fails.  `Conversation` adds the texts
to it: each of its steps is a step of `GroupChat`, which is proved, so that the
gate holds in it as well.  `Surface` is the other end: it keeps of the workers
only what they do to a job, and looks at whose rows each call touches and what
it is told.

Some definitions have faulty variants, named `<definition>_<fault>` and placed
before it.  They are plausible bugs (a dropped guard, an off-by-one, a missing
reset), used only to see that each property notices one.

### JobRows

A row is a record of status, both budgets and counts, lease and owner.
`locked_at` is the *age* of the lease in ticks: `NoLease` is NULL, 0 is "just
renewed", `AgedRow` adds one per tick, ages stop at `LeaseTicks + 1` (expired).
`NoLease` is below every age, so that the comparison in `Expired` is false of
it, as the SQL comparison with NULL is.  `AllowedEntry` is `_ALLOWED_ENTRY`,
`NextStatusAfterFailure` the CASE expression `_fail` and `reap_expired` share.

### JobService

One action per statement: `Create`, `Update` (to succeeded, cancelled, dead,
waiting_approval), `Requeue` (UpdateJob to queued), `Start`, `Fail`, `Retry`,
`RenewLease`, `ReapExpired` (one UPDATE over all expired rows), `Tick`.  An
UPDATE is atomic in PostgreSQL.  `claim_batch` is the one statement whose locks
matter: its outer UPDATE names ids and does not look at the status, so it is
split into `ClaimSelect` (the subselect locks the oldest queued rows that
nobody has locked), `ClaimCommit` and `ClaimAbort`, and every guarded update
waits for a locked row.  A call that matches no row raises `StateError` or
`NotFoundError` and changes nothing; it is not a step.  Two history variables
count runs and plain requeues.

### JobRunner

The actions are the stretches of code between two awaits.  A pod's `pc` says
what it awaits: the interval (`idle`), the claim that follows a reap
(`reaped`), a chat (`plan`, `chat`), `save_progress` (`save`), or one of the
updates that end a run (`succeed`, `park`, `fail`).  `prog` is the pod's copy
of the progress; only `Save` writes the table's, and it overwrites it by id
as the code does.

| code | actions |
| --- | --- |
| `JobPoller.tick` | `Reap`, `Claim` (with the dispatch of the first row) |
| `JobPoller.run`, stop event | `Exit`, `Stop` |
| `_ensure_plan` | `PlanReply`, `ChatError`, then `Save` |
| `_execute_steps` | `StepReply`, `StepPause`, `ChatError`, then `Save` |
| `_finalize` | `Finalized`, `Save`, `Succeed` |
| `_mark_waiting_approval`, `_mark_failed` | `Park`, `Fail` |
| `RunnerDispatcher.run` | `Dispatched` (unknown types go to `Fail` without a heartbeat) |
| `_heartbeat` | `Beat`, `MissedBeat` |
| exceptions of the database | `DbError`, by where they are caught |
| process death | `Crash` (all memory is lost; the replacement starts idle) |
| ApproveTask, UpdateJob, RetryJob | `Approve`, `Requeue`, `Cancel`, `Retry` |

The claim is one step here: that two claims are disjoint is what `JobService`
shows.  Prompts and outputs are abstracted: a plan is an identity in `Plans`
(two of them, so that re-planning would be noticed), a step remembers the plan
it was executed from, `result` and `error` say whether the key is set.
`Gated` are the steps whose agent may call a mutating tool; such a step may
pause, and may pause even when approved, because a tool may answer that it
needs approval by itself.  Three histories serve properties only: `granted`, the
steps that a caller approved; `revived`, the jobs of which a caller took a
cancellation back; `executed`, how often a step was done.

A heartbeat that is due is sent before the next tick: it waits for the event
loop only, and the calls of a run do not block that.  Ticks are a third of a
lease, as in `main.py:75`, so `LeaseTicks = 3`, `HeartbeatTicks = 1`.

### TaskService

Every RPC is a remote call followed by a write, with everything else able to
happen in between: CreateTask (`CreateTask`, `Insert`), GetTask (`GetTask`,
`Fetch`, `Refresh`), ApproveTask and RetryTask (`ApproveTask`/`RetryTask`, then
`SaveStatus`).  `Lost` ends an RPC between its steps: the answer of job_svc is
lost, the statement fails, the caller goes away, or the process dies.  The
job's side is `JobLifecycle` plus the job's output: `Work`, `Output`, and
`Direct` for callers that talk to job_svc themselves.  A worker never cancels a
job, and dead-letters one only with both budgets spent.  A job that leaves
`running` by the reaper or by a caller may have a pod that does not know and
goes on (`MayStray`); such a job is in `stray` from then on, and `Output` may
replace its output in any status, as `save_progress` does.

### TaskRows and Surface

`TaskRows` has `_TASK_STATUS_FROM_JOB` and `_percent_complete`; the percentage
is computed in tenths, rounded as the code rounds it (ties, which the code
rounds to even, fall on no tenth with the plans checked).

In `Surface` every RPC names a tenant, the one in its metadata or none, and
any ids.  Calls that are one statement (all of job_svc, agents and tools) are
one step; those of tasks go through `agents` (CreateTask's check), `load` (the
tenant's row), `remote` (the call to job_svc in the tenant's name) and `store`
(the insert or update), with anything between them.  `Status` and `Raised` are
the two tables of errors.  `Unreached` loses the call before job_svc acts,
`LostAnswer` after it; `DbError` fails a statement here.  A call remembers whose
row it changed and showed: `changed`, `shown`; `had`, whether its row was there
when it came.  A task and its job share an id, which is made up by job_svc and
looked up by both.  `Claim`, `Checkpoint`, `EndRun` and `Reap` are the workers
seen from here.  `lost` says of a job that a pod which no longer has it may go on:
then a checkpoint is not only added to (`Advance`) but replaced by anything that
a pod can hold (`Overwrite`), and the run of the job ends by what the pod has seen.

### Catalog

`tool` and `agent` are the tables; an absent row is `NoTool` or `NoAgent`, and
an agent's row holds its rows of `agent_tools` as `links`.  A call that raises
(`NotFoundError`, `ConflictError`, `ValidationError`) changes nothing and is not
a step.  `CreateTool`, `UpdateTool`, `DeleteTool`, `CreateAgent` and
`DeleteAgent` are single steps.  `UpdateAgent` is a transaction of two:
`UpdateAgent` (the row is locked, the grants deleted, the tools looked up) and
`CommitUpdate`, or `AbortUpdate` when the new grants violate the foreign key or
the statement fails; until then readers see the old grants.  Under READ
COMMITTED its DELETE finds the grants committed when it runs, so the update is
recorded as what it removes and what it adds (`gone`, `new`).  Two locks matter:
that of the row, taken by the UPDATE that the DELETE flushes first (`Locked`),
and those of deleted grants, on which the cascade of a DeleteTool waits.
`wanted` is a history: the ids that the last committed call named.

### GroupChat

A chat's `pc` says what it awaits: the SELECTs for the grants and for the tools,
a model (`turn`), or tools (`calls`).

| code | actions |
| --- | --- |
| `run_chat`, `list_agents_for_tenant` | `ReadAgents`, `ReadGrants`, `ReadTools`: three statements, each of what is committed by then |
| `build_group_chat` | `ReadTools` (names and flags are copied), `Speakers`, `InputAnswers`, `Capped` |
| AutoGen's team | `Text`, `ToolCalls`, `Summary`; the message counts and the termination conditions in `Said` |
| `AgentToolWorkbench.call_tool` | `ToolCalls` up to its first await, then `ToolError`, `RunTool` |
| mcp_svc `_on_call_tool` | `RunTool`: the *name* is looked up in the catalog of that moment |
| `finish_reason` | `Ended`: a workbench with pending approvals overrides the stop |
| exceptions | `Fail` |
| RPCs of the execution service | `Edit` |

AutoGen is not part of the repository; of it the model takes what the code
relies on and says: the selection function comes first, the calls of one answer
run concurrently, their results are one message that is not a text, the caller's
input counts as messages and runs through the termination condition
(groupchat.py:126).  Models answer anything: any speaker the selection leaves
open, a text, or any set of tool calls, whether or not those tools were offered.
Calls are a set of names: two calls of one tool in an answer differ only in
their arguments.  The input is one user message, or a system and a user
message, as `job_svc` sends it.  `user` says whether a participant's slug is
`user`, in which case the input of an execution call counts as its answer.

The placeholder that pads a team of one has no action: the selection function
never picks it.  The planner's tool calls have none either: it has no
workbench, AutoGen answers them with errors, and the summary of those errors is
a message of the planner, which ends the chat as a text does.

`ChatLifecycle` is a chat as job_svc sees it.  Its actions are the arrival, a call
that is withheld, a tool that runs, the reply and the abort; turns, speakers and
SELECTs are stutters.  The mapping takes the status from `pc` and `outcome`.

| `ChatLifecycle` | in `GroupChat` | at the other end, in `JobRunner` |
| --- | --- | --- |
| `Arrive` | `ReadAgents` | a pod gets to `plan` or `chat` |
| `Withhold`, `Run` | `ToolCalls`, `RunTool` | |
| `Reply`, `stop` | `Ended` | `PlanReply`, `StepReply` |
| `Reply`, `requires_approval` | `Ended` | `StepPause` |
| `Abort`, or no agents | `Fail`, `ReadAgents` | `ChatError` |

The runner reads the `finish_reason` of a step and not that of a plan
(runner.py:174-180): `PlanReply` has no pause because a planner call withholds
nothing, which is a guard of `ChatLifecycle` and a theorem about `GroupChat`.
`StepPause` is possible in an approved chat as well, as there: of a tool that
ran.  `JobRunner` does not instantiate `ChatLifecycle`, since it keeps no chat
beyond its reply; the table is by inspection.

Histories, for properties only: `held` is the set of names that were mutating
in the catalog at every moment since a chat without approval arrived,
`executed` what mcp_svc ran for the chat, `withheld` whether a call was refused
or answered with the marker.

### ToolHandlers and Conversation

A text is the set of what a guardrail or a property can tell of it: `pii`, an
identifier a pattern catches; `term`, a blocked term a caller or a tool wrote;
`own`, one the model wrote; `long`; `foreign`, rows of another tenant from a
table that a query names; and `fetched`, rows that a function called in the query
reads by itself.  The model writes any subset of what it has read, plus terms of
its own.  `ToolHandlers` enumerates URLs and queries by what the handlers look at,
and gives what a call may bring in; quoted arguments come on top.  The handler
looks at table references and rewrites them; of a query that calls a function
which reads rows (`reads`) the model keeps that nothing looks at the call.

A fault is what goes wrong with a request, told apart as far as some hop does
it: the providers' adapters take a 400 (OpenAI) or any 4xx (Zen) for a
`ValidationError`, and every other answer, OpenAI's 401, 403, 404, 413, 422 among
them (`refused`), is a `ProviderError`.

A `thread` is a chat's messages.  `Request` is what `model_client.py` makes of
it for one participant, in *groups*: one message of the context may be several
on the wire (calls, then one result each).  `Passes` is
`screen_and_sanitize`, `Redacted` the redaction, `Items` the provider's form of
it, one item per call for Zen.  `told` collects everything that has reached the
model, over all the chats of the job.

| code | actions |
| --- | --- |
| `_ensure_plan`, `_execute_steps`, up to the chat | `Open` (the prompt, or the plan as a user's message) |
| `build_group_chat` | `Build` |
| the selector | `Choose`: a request of its own, with the history in it |
| `create`, `generate_chat`, the provider | `Ask`, inside `Choose`, `Say`, `Call` |
| a text, and `_parse_plan` of the planner's | `Say` |
| tool calls, refused or forwarded | `Call`, `CallRuns`, `CallFails`, in any order, then `Summarise` |
| errors of any hop | `Abort`: raised by guardrails or provider, mapped by the gateway and by the orchestrator, `wrapped` if AutoGen hands it on as its own |
| `run_chat`'s usage | `Used`, `TotalUsage`, in `Return` |

A request and its answer are one step: a chat awaits nothing else meanwhile, and
the chats of a job follow one another.

## 3. The runs

Passing runs:

| run | instance | what it shows |
| --- | --- | --- |
| `JobService` | 2 jobs, 2 pods, lease 1 tick, budgets {1,2} and {0,1}, 1 plain requeue per job | type, `LeaseMatchesStatus`, `ManualBudgetKept`, `ClaimsDisjoint`, `RunsWithinBudget`, and that it implements `JobLifecycle` |
| `JobRunner` | 2 pods, 1 job, 2 plans of 2 steps, batch 1; 3 calls, 2 crashes, 2 failing chats, 2 failing statements, fairness | `OwnerRuns`, `NoRedo`, `StepsInOrder`, `SucceededIsComplete`, `CheckpointKept`, `Settles` |
| `JobRunnerBatch` | 1 pod, 3 jobs in one batch (one unknown type, one without instructions), cancellations and requeues, SIGTERM, fairness | `ApprovedOrRevived`, `KeepsLifecycle`, `StepsRunOnce`, `Drains` |
| `TaskService` | 1 task, 2 RPCs at a time, 2 accepted approvals or retries, 1 direct call, 1 loss, pods that outlive their claim, fairness | `CompletedIsTrue`, `OnlyFailedLingers` |
| `GroupChat` | 2 agents, 2 tools, 2 names, 1 chat of at most 3 messages, 2 calls that edit the catalog, fairness | `GrantsMatchUpdate`, `GateOfRecord`, `PlanIsPlanners`, `SomebodySpeaks`, `ChatEnds`, and that it implements `ChatLifecycle` (`ImplementsChatLifecycle`) |
| `Conversation` | 2 agents, of which at most one has both tools; `http_request` and `query_database`; a plan and a step, 3 messages each; either provider | `NoIdentifierLeaves`, `NoBlockedReachesModel`, `TablesAreScoped`, `CallsAnswered`, `UsageAddsUp`, `RejectionIsFinal` |
| `Surface` | 2 tenants, 2 calls at a time, 4 in all, one row of each table, ids known to everybody | `Isolation`, `AnswersTellTruth`, `OwnTaskIsFound`, `OnlyConfigured`, `PercentNeverDrops` |

Runs that TLC refutes, each a disagreement between the code and what the
repository says of it (quoted in `PROJECT.json`, "findings"):

| run | claim refuted | how |
| --- | --- | --- |
| `TwoPodsBatch` | a job is never owned by two pods | the rest of a claimed batch waits without a heartbeat, expires, and is claimed elsewhere |
| `UnapprovedRerun` | a mutating tool runs after approval by a human only | a crash after the `pending_approval` checkpoint and before `waiting_approval` |
| `StaleRefresh` | the job of a terminal task cannot change any more | a GetTask writes `failed` after a retry or an approval has requeued the job |
| `LateApproval` | a second ApproveTask fails | approval is UpdateJob(queued), which `failed` and `dead` admit too, so that `dead` is not terminal either |
| `OwnWords` | the model's own turns cannot trip the blocklist | a checkpointed plan comes back as a user's message, and is refused at every run of the job |

Five more configurations, which are no runs of `PROJECT.json`, refute the properties
that passing runs state with an exception, so that a reader can see why each
exception is there.  Each contradicts a comment, too: models.py:56 of the execution
service (every call of a mutating tool is approved), jobs.py:326-329 (a job has one
writer of its checkpoint), tasks.py:62-63 (the job of a finished task produces no new
result), handlers.py:226-230 of mcp_svc (no shape of SELECT sees another tenant's
rows) and provider.py:110-111 of the gateway (what is left beside a 400 is
connectivity, rate limiting or a 5xx).

| configuration | of | refutes | how |
| --- | --- | --- | --- |
| `RevivedRerun.cfg` | `MCJobRunner` | `ApprovalIsHuman` | a job in `waiting_approval` is cancelled and requeued; its checkpoint keeps `pending_approval`, which the next run takes for an approval |
| `LostCheckpoint.cfg` | `MCJobRunner` | `CheckpointKept` | a running job is cancelled and requeued, a second pod takes it up, and the first, which nobody told, saves its own checkpoint over it |
| `LateResult.cfg` | `MCTaskService` | `ResultIsFinal` | a pod that has lost the job saves its result after the job has succeeded in another run; the snapshot is never refreshed again |
| `ScopedRows.cfg` | `MCConversation` | `RowsAreScoped` | the tenant's scope is put into table references; rows that a function reads by itself are not in it |
| `RetryableRefusal.cfg` | `MCConversation` | `RetryableIsUpstream` | a refusal with another 4xx is UNAVAILABLE at the caller of the Chat RPC |

Two more sentences of the repository hold only under conditions, which the
passing runs name: that a step runs at most once (runner.py:22-24) needs a pod
that lives to save the step, and that shutdown is prompt (main.py:89) means after
the whole of the claimed batch, with every chat of it (`Drains` assumes that
chats are answered).

Why the bounds are enough.  The hazards need two actors on one row and one
accident between two writes.  One job already has all the interleavings of its
writers (statements touch other jobs only in the claim and the reap, which
`JobService` and `JobRunnerBatch` exercise with several); two pods are a pod
that lost its job and one that gained it; two steps are a completed one and a
pending one; `MaxAttempts = 2` and `MaxRetries = 1` reach requeue, rest at
`failed`, retry and dead letter; two crashes spend the attempts by accidents alone;
two calls in `JobRunnerBatch` cancel a job and bring it back.  `JobService` is bounded only by plain
requeues, and is proved for all values.  In `TaskService` two RPCs are a
reader with an old answer and the writer that overtakes it; each writes one
row absolutely, so a GetTask of several ids adds no interleaving of its own.
One output besides none is enough there: a completed task that shows none, or the
output of a job that has lost its, differs from the job's already.

In `GroupChat` two edits (`MaxWrites`) are two concurrent updates of an agent,
or a tool that is deleted or renamed and another that takes its name, anywhere
between the reads and the calls of the chat.  Two agents are one whose call is
withheld and one that goes on to answer; three messages are the input and two
turns, or the two messages of a planner's input and its plan (the code's cap is
6, and what matters of it is that it is above the input).  Chats share nothing
but the catalog, so one is enough for TLC; the proofs are for any number.
`MCGroupChat` lets the first tool start under the first name, which leaves out
only what renaming the values gives back; symmetry sets are not sound for
`ChatEnds`.

In `Conversation` the catalog is not edited (`GroupChat` does that).  Two chats
are the plan and a step that repeats it; a third would repeat another part of
the same plan.  Two agents are one that calls tools and one that hears of their
results as a user's message; three messages of a step are its input, the calls
and the message that ends it; the proofs are for any number of everything.

In `Surface` one row of each table is enough for two tenants to collide on it,
and to create it after the other has deleted it; two calls are one that is
between its steps and another that goes through; four calls are an agent and a
task of either tenant and then two that race, or that cancel and requeue its job.
Statements there find
rows by id and tenant only, so rows do not interact but for grants, and an
agent and a tool are there for those.

What the passing runs leave out on purpose:

- `JobRunner` uses batch size 1; with larger batches `SingleRunner` fails
  (`TwoPodsBatch`).
- `JobRunner` has no cancellation: a job cancelled while it runs and then
  requeued is claimed by a second pod while the first still executes it, as no
  statement checks the owner.  Nothing in the code protects against that
  (`LostCheckpoint.cfg`).
- That a step runs approved only if it was approved, `ApprovalIsHuman`, is false
  of the code, in two ways: by a crash (`UnapprovedRerun`) and by a
  cancellation that is taken back (`RevivedRerun.cfg`).  What `JobRunnerBatch` checks
  is that for one pod, without crashes and failing statements, the second is the
  only way: `ApprovedOrRevived`.
- `StepsRunOnce` is checked for one pod without crashes and failing statements: a
  crash between a step's answer and its checkpoint repeats the step.
- `CompletedIsTrue` lets the output differ while a pod that has lost the job may
  still write it; without that exception it is `LateResult.cfg`.
- `PercentNeverDrops` exempts one step, the overwriting of a checkpoint by a pod
  that shares or has lost the job; every other step keeps the percentage, in jobs
  that have such a pod as well.
- `TablesAreScoped` is about the tables that a query names.  What a function
  called in it reads is `ScopedRows.cfg`.
- `GateOfRecord` is about names that were mutating *throughout*.  The stronger
  sentence of models.py:56, that every call of a mutating tool is approved, does
  not hold of a tool that starts to be mutating once the chat has read it; the
  chat keeps the old flag to its end.  An approved chat is exempt altogether:
  approval is for the step, not for a tool.
- `SomebodySpeaks` excludes an agent that is called `user`: the input of an
  execution call then counts as that agent's answer, and the chat ends with
  nothing said.
- `ImplementsChatLifecycle` lets a chat be aborted after a call was withheld, when
  a model fails: the caller then gets an error and no pause.
- `NoBlockedReachesModel` is about terms that a caller or a tool wrote; the
  model's own do reach it, and may stop the job (`OwnWords`).  The tenant's
  instructions are not screened, by intent (guardrails.py:41-44).
- `RejectionIsFinal` is about requests that the catalog, the guardrails or the
  adapter of the provider rejects.  OpenAI's adapter takes a 400 alone for a
  rejection, so its other refusals do look retryable (`RetryableRefusal.cfg`).  The
  converse is not claimed: a rate limit of Zen is an `INVALID_ARGUMENT` there and
  does not look retryable.
- `AnswersTellTruth` excludes INTERNAL, after which a caller knows nothing: a
  CreateTask may have left a job that no task refers to, and which runs anyway.
- `OnlyConfigured` is what is left of CreateTask's check once agents are deleted
  between it and the job.
- `CHECK_DEADLOCK FALSE` in the runs of `TaskService`, `GroupChat`,
  `Conversation` and `Surface` and the refuted claims about them: the job is
  done, the chats have ended, or the calls are used up, and nothing is left to
  happen.  The runs of `JobService` and `JobRunner` do not need it.

Fairness.  `PodFairness`: the clock ticks, a poller that is not stopped ticks
again (`while not stop_event.is_set()`), a pod's own statements and heartbeats
get their turn on its event loop.  `ChatFairness`: chats are answered.  This is
an assumption about the orchestrator: the Chat RPC has no deadline
(`src/README.md` lists that as a known gap), and with a chat that hangs for
ever the heartbeat keeps the job in `running` and its pod from polling.
Crashes, errors, calls and stops are never fair.  `JobRunner` leaves
`Stoppable` empty: a platform whose pods are all shut down settles nothing;
`JobRunnerBatch` stops its pod.  In
`TaskService`, RPCs in flight proceed and every task is read again and again;
the jobs may stop anywhere.  In `GroupChat` a chat that awaits something gets
an answer or a failure.  For models that is the gateway's timeout
(model_client.py:149).  For tools it is an assumption: the workbench opens its
session without `[mcp] timeout_seconds`, which nothing reads.  What is left to
show is that no conversation goes on for ever, however many of its turns are
tool calls.  Edits and their commits are not fair.

## 4. The proofs

`JobServiceProofs` proves, for any finite set of jobs, any pods, lease, batch
size and budgets, every safety property of the run `JobService` and its
refinement.  The assumptions are those of `JobRows` and `JobService`: a lease
of at least a tick, `NoOwner` is no pod, budgets are naturals and an attempt
budget is at least one (the validator refuses others).

None of the properties but the type invariant is inductive alone.  The
invariant is

    IInv == TypeOK /\ ClaimsDisjoint /\ LeaseMatchesStatus
            /\ ManualBudgetKept /\ RunsCharged

- `ClaimsDisjoint` is needed by everything about `ClaimCommit`: that the rows a
  claim starts are queued follows from no guard of its UPDATE, only from the
  locks.
- `ManualBudgetKept` says of a job at rest in `failed` that its automatic
  budget is spent and a retry is left; without that second half `retry()`
  could overdraw.
- `RunsCharged` strengthens `RunsWithinBudget` into an accounting: every run
  is charged to an attempt of the current or an earlier cycle or to a plain
  requeue.  A requeue with the budget spent may push `attempts` past
  `max_attempts`, so the plain bound `attempts <= max_attempts` is false and
  the charge caps it (`Used`, `Owed`).

The proof is by rows: `StepMovesRows` shows that every step either keeps a row
or changes it by one of the operators of `JobRows`; lemmas about those
operators (`RowTypes`, `RowLeases`, `RowBudgets`, the charge lemmas) then
carry each conjunct.  `Refinement` maps every such row step to a step of
`JobLifecycle`, using `IInv` for the `failed` and the retry cases.

`JobRowsProofs` holds what both sides need of `JobRows`: which targets there
are, and that each operator leaves a row a row.

`JobRunnerProofs` proves every safety and action property of the passing runs
about `JobRunner`, in layers of assumptions on top of `RunnerAssumption`.

- *Any instance*: `TypeOK`, with the addition that a pod that runs has a job and
  a pod that awaits a step's chat has a step left; `CancelSticks`, from the
  guard on `running` of everything a runner reports; and `KeepsLifecycle`.
- *`Calm` instances*: `BatchSize = 1`, every type has a runner (a job without one
  has no heartbeat), nobody cancels, and `HeartbeatTicks * (1 + MaxDbErrors) <=
  LeaseTicks`, that is, the lease has room for every renewal that may be missed.
  Any number of pods, jobs, steps, crashes, failing chats, approvals, retries
  and requeues.  Proved: `OwnerRuns`, `SingleRunner`, `NoRedo`, `StepsInOrder`,
  `SucceededIsComplete`, `CheckpointKept`.  `TwoPodsBatch` shows why the first
  condition is there, `LostCheckpoint.cfg` why nobody cancels; the run `JobRunner` is
  a Calm instance.
- *`Undisturbed` instances*: Calm ones with no crash and no failing statement.
  Proved: `ApprovalIsHuman` and `StepsRunOnce`.  `UnapprovedRerun` shows why the
  first needs no crash, and `RevivedRerun.cfg`, which has batches of one and one pod,
  why it needs that nobody cancels.
- *`Solo` instances*: one pod, no crash and no failing statement, but batches of
  any size, jobs of unknown type, and all calls, cancellations and requeues among
  them.  Proved: `ApprovedOrRevived`.  The run `JobRunnerBatch` is a Solo instance.

`KeepsLifecycle` says that `JobRunner` implements `JobLifecycle`, job by job and
with the retries left as the second coordinate of the mapping, and that what is
not a caller's doing is a `Begin` or an `End` that neither cancels nor
dead-letters a job with a budget left: the assumption that `TaskService` makes of
`Work`.  `RowEffects` has, for each operator of `JobRows`, the step of the
lifecycle that it is.  That needs `BudgetInv`, which says of every job that its
retries are within their budget and that one at rest in `failed` has one left;
without it `retry()` could leave `JobLifecycle`, whose `Retry` has to be paid for.
A stale report, of a pod that has lost its job, is covered by the guard in
`EndRun`, not by ownership, so this layer needs neither batch size nor lease.

The invariant of the second layer, `CalmInv`, joins what only holds together:

- `OwnsRow`: the row of a job being executed is running and its executor's, with
  a lease no older than the pod's heartbeat plus `Slack`, one heartbeat for each
  renewal already missed.  The reaper therefore never finds it, and the claim,
  which takes queued rows, neither; hence one pod per job (`UniqueRunner`).
- `RunOK`: the pod's copy of the checkpoint equals the table's, except between a
  reply and its save, when it extends it.  It is an overwrite by id that the
  code relies on, so this needs `UniqueRunner` for nobody else to have written.
- `TableInv`: the table's checkpoint is in order, names an undone step if it
  waits, and is complete if the job has succeeded.

Each action is one of four kinds, each with a lemma: a pod goes on with its run
(`GoesOn`), lets go of its job (`LetsGo`), other rows change (`RowsChange`), or
the checkpoint, the heartbeat or the clock moves (`SaveKeeps`, `BeatKeeps`,
`TickKeeps`).  That the next step is a least element, `NextStepIsFirst`, comes
from well-foundedness of finite sets under inclusion, as induction is not
available.  The third layer adds `PendingKnown` (a checkpoint that waits is
approved, parked, or about to be) and `ExecutedKept` (an executed step is in the
table or in the hands of the pod that saves it).

The fourth, `SoloInv`, does without the second: the jobs of a batch may be
cancelled, and requeued, while they wait.  `Known` are the steps that were approved
and all those of revived jobs, `Mine` the jobs that run, are cancelled or were
revived; neither ever loses a member (`HandsGrow`).  `TableKnown` says that a
checkpoint waits for nothing unknown unless its job waits or is cancelled or its
pod is about to park it, and `HandsOK` the same of what the pod holds, each job of
it once and out of `Mine`, so that nobody else's row is in its hands.

`TaskServiceProofs` proves type correctness, `CompletedIsTrue` and that no task
row exists without a job, from `TaskAssumption`, for any number of tasks,
callers and losses.  `CompletedIsTrue` is strengthened to *honesty* of every
answer in flight as well as every row: a snapshot that reads completed is about
a job that has succeeded, and shows its output or the job is in `stray`.  That the
job never moves again `JobLifecycle` supplies.  It says nothing of the output,
which stays for another reason: only a pod that runs the job or has lost it saves
one, the first does so before the success, and no job leaves `stray`
(`StrayGrows`).  Of jobs in `stray` nothing is claimed, and `LateResult.cfg` shows that
nothing could be.

`GroupChatProofs` proves every safety property of the run `GroupChat`, for any
agents, tools, names, chats and edits, and any message cap above the input, from
`CatalogAssumption` and `ChatAssumption`.  The invariant is

    IInv == TypeOK /\ CatalogInv /\ ChatInv

- `CatalogInv` has the uniqueness of names and `UpdatesLocked`: at most one
  update of an agent in flight, which has found all of the agent's grants that
  still exist, and adds only what it was asked to.  Without the lock
  `GrantsMatchUpdate` is false.
- `ChatInv` says of each chat what its copies are worth.  At its heart is
  `HeldIsGated`: a name in `held` is among the mutating names that the chat reads
  for whatever grant bears it.  A name could be read as harmless only from a
  tool that bears it and is not mutating; by uniqueness no other tool then makes
  the name mutating, so it has dropped out of `held`.  From then on `held` can
  only shrink, and the chat's copy stays.
- A call has been withheld if and only if an agent is in `pending`, until the chat
  ends; only a planner speaks in a planner call; and in an approved chat a call
  is withheld only by a tool that ran.  All are carried through every turn.

Catalog steps and chat steps are proved separately (`CatalogStep`, one
`...Keeps` lemma per action of a chat, `EditKeeps`), since neither touches the
variables of the other but for `held`.

From the same invariant `Refinement` maps every step to one of `ChatLifecycle` or
to a stutter.  Most steps are seen by nobody; a message is (`SaidStatus`) if it
ends the chat, and then the reply says what `pending` says, which by the second
part above is what happened.  Hence what job_svc concludes from each reply
(`FinishReasons`).  `ConversationIsChatLifecycle` carries this over to the chats
with texts in them.

`ChatEnds` itself is out of reach, but what is not fairness in it is proved.
`Advances`: every step of a chat, whatever the models answer, makes it `Nearer` to
its end, in the stages before and after the turns, then in messages, then in
calls that are answered.  `RunsOut`: `Nearer` is well-founded on chats whose calls
are finitely many, by least numbers and a smallest set of calls.  What TLC alone
shows is that a chat which has not ended has a step to take.

`ConversationProofs` first proves that `Conversation` implements `GroupChat`
(`ConversationIsGroupChat`), action by action, so that the theorems about chats
hold of a job's conversation; `ConversationIsGated` is the one that matters
most.  About texts the invariant is `OwnInv`: the model's own words carry no
mark but `own` and `fetched` (`ModelWords`), so everything it has been told
(`told`), has planned and has put into arguments is harmless but for rows that a
function of a query has read, whereas messages of callers and tools may be
anything but foreign: of several table references `Rewritten` leaves none out
(`TablesAreTenants`).  Screening by role then catches every message that
carries a tool's or a caller's text (`SafeMessage`), because the two roles that
are not screened hold only the tenant's instructions and the calls of the
model.  That a repeated result is there at all needs `Complete`: only the last
message of a chat may still await results; and `HeardInv`, that a chat which
awaits results has such a message.  `RejectionsAreFinal` is a case analysis of the
tables of errors, over either provider and wrapping.

Two properties are about data that folds compute.  Both folds are recursive
functions that the community modules choose by their equation, so what they
compute is nothing until there is a function that satisfies it.  `FoldProofs`
shows that there is, by a least counterexample: a smallest set, from
well-foundedness of finite sets under inclusion, or a least number.  No induction
theorem with an operator parameter is needed.

- `UsageAddsUp` (`UsageReported`) follows from `UsageInv`: of a chat that is not
  over, the tokens of its clients, the selector's included, sum to what the
  provider has billed.  `SumOfOneMore` carries the sum through a request.
- `CallsAnswered` (`EveryCallIsAnswered`) is about two sequences of sequences:
  the groups of the request and the items the provider makes of each message.
  `FlattenPlaces` says where in the whole each element of a part is, in order.
  The group of a message with calls answers its own calls and no others, because
  ids carry the message's place in the thread (`CallsGroup`), so any sequence of
  such groups is well-formed (`GroupsWellFormed`); and splitting a message of
  calls into one item per call keeps it well-formed (`ItemsWellFormed`), because
  a result is one item.  The invariant behind it, `OnceInv`, is that no message of
  a thread holds a call twice.  That there *is* a text in each result is
  `Complete` above.

Two assumptions are about the constants only: agents and names are finite sets,
and `Missing`, which stands for None, is no text and no id.

`SurfaceProofs` proves every property of the run `Surface`, for any tenants, ids,
agents, tools and callers and a plan of any length, from `SurfaceAssumption`.
The invariant is

    IInv == CatalogInv /\ TablesInv /\ CallsInv

- `CallInv` is about a call alone: it changes nothing before job_svc has acted,
  and a call that writes a task is at the write only if it has changed the job.
  An INTERNAL may then come at any time, a refusal no more.
- `HoldsRow` ties a call to the tables between its steps: the row that it has
  found is still its tenant's, in `tasks` and so in `jobs`, since no step takes
  a row from its tenant; hence neither service misses it (`OwnTaskIsFound`).
- `TablesInv` has that a task is of the tenant of its job, which `Isolation`
  needs of the update of a task, and that no step is done without a plan.

Every step is a step of the tables and one of a call: `JobsRise` and `TasksKept`
say what any step may do to the rows, `HeldRowStays` that this costs no call the
row it holds, `AnswerKeeps` and `GoesOn` what a call may become.  `JobsRise` also
gives the action property: the tenant stays, a success stays, and the checkpoint
grows except by an `Overwrite`, which needs `lost`; the arithmetic of the rounded
percentage (`ShareRises`) does the rest.

Only model-checked: liveness (`Settles`, `Drains`, `OnlyFailedLingers`,
`ChatEnds`), which TLAPS cannot do, and the refuted claims.  Every safety
property of a passing run has a theorem, under the conditions above; `StepsRunOnce`
is checked beyond them, with a batch of three and cancellations.

## 5. Not modelled

- Wording: prompts, outputs and instructions beyond their marks, the splitting
  of a plan into steps (a plan is one text, and none is left of a blank one),
  the summary of a task's progress, the messages of errors.
- Lengths: a text is long or not; that several texts together are too long, that
  the model's own are, and that an input the execution service admits (10 000
  characters) is more than the gateway takes (8 000) are a refusal by `Abort`.
- AutoGen: what it does with errors of a client is the choice `wrapped`; that a
  selector is asked again when its answer names nobody, and schemas and
  descriptions of tools, are left out.
- Columns that nothing here depends on: names, instructions and versions of
  agents and tools.  `JobStepRef.requires_approval`, which is never true.
- Observe-only polling, which `main.py` never configures.
- Failing statements of the catalog and of job_svc in `Surface`: such a call is
  one statement and leaves nothing behind.
- SQL beyond what the handler of `query_database` tells apart: expressions, the
  kinds of joins, and which functions a database has.
- HTTP, the database engine and the providers themselves; configuration,
  database set-up, generated protobuf code.

## 6. Plan

1. (done) `JobRows`, `JobLifecycle`, `JobService`, its proofs and refinement.
2. (done) `JobRunner`: pods, crashes, heartbeats, approvals.
3. (done) `TaskService` over `JobLifecycle`, and its proofs.
4. (done) `Catalog` and `GroupChat`: a chat under concurrent edits, and their
   proofs.
5. (done) `Conversation` over `ToolHandlers`: the gateway's guardrails, the
   providers' formats, errors and usage; its refinement of `GroupChat` and the
   proofs of what never reaches the model.
6. (done) `Surface` over `TaskRows`: tenants, validation, errors, progress.
7. (done) Proofs about `JobRunner`, by layers of assumptions.
8. (done) Proofs about `Surface`.
9. (done) `JobRunner` implements `JobLifecycle`, and does to a job what
   `TaskService` expects; proofs about sums and sequences of any length, and with
   them about usage and about calls and their results.
10. (done) `ChatLifecycle`, which `GroupChat` implements, and the proof that a chat
    runs down.
11. `JobRunner` with chats that outlive the pod that asked for them: a reply nobody
    reads, of a step that is sent again, so that `ChatLifecycle` can be
    instantiated for each chat of a job.
