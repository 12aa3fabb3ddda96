---------------------------- MODULE TaskService ----------------------------
(***************************************************************************)
(* The TaskService of agent_execution_service (services/tasks.py): the      *)
(* `tasks` row as a snapshot of a job that lives in another service.  Every *)
(* RPC is a remote call to job_svc followed, in a transaction of its own,   *)
(* by a write of what the call returned; any number of RPCs run at a time,  *)
(* and each may be lost between its steps.                                  *)
(*                                                                          *)
(* job_svc is seen through its promise, JobLifecycle, which JobService      *)
(* implements.  Only the final output is added to it, which the runner of a *)
(* running job writes (runner._finalize).  A pod may lose its job, to the   *)
(* reaper or to a caller, and go on running it: as save_progress looks at   *)
(* the id only (jobs.py:325-339), what such a pod saves lands at any time,  *)
(* after the job has succeeded too, with an output of its own or with none. *)
(*                                                                          *)
(* A GetTask of several ids fetches their jobs independently and writes     *)
(* each row absolutely, so one id at a time shows every interleaving.       *)
(* Definitions named <definition>_<fault> are faulty variants; no           *)
(* specification uses them.                                                 *)
(***************************************************************************)
EXTENDS TaskRows

CONSTANTS
    Tasks,         \* task ids; the task and its job share one
    Callers,       \* RPCs that may be in flight at the same time
    RetryBudgets,  \* values of max_retries; job_svc applies its default
    Outputs,       \* the results that runs of a job may come to
    MaxCalls,      \* bound: ApproveTask and RetryTask calls accepted
    MaxDirect,     \* bound: calls job_svc accepts from elsewhere
    MaxLost        \* bound: RPCs and fetches that fail half-way

\* No result has been saved.
NoOutput == "no_output"

ASSUME TaskAssumption == /\ Tasks # {}
                         /\ RetryBudgets \subseteq Nat
                         /\ \A b \in RetryBudgets : 0 .. b \subseteq RetryBudgets
                         /\ NoOutput \notin Outputs
                         /\ MaxCalls \in Nat /\ MaxDirect \in Nat /\ MaxLost \in Nat

VARIABLES
    phase, retriesLeft,  \* the jobs
    output,              \* the results in the checkpoints of the jobs
    stray,               \* jobs that a pod which has lost them may still be running
    task,                \* the `tasks` table
    call,                \* the RPCs in flight
    budget,              \* what is left of each bound
    approvals            \* history: approvals accepted since the job last paused,
                         \* or NeverPaused

jobVars == <<phase, retriesLeft, output, stray>>
vars == <<phase, retriesLeft, output, stray, task, call, budget, approvals>>

Job == INSTANCE JobLifecycle WITH Jobs <- Tasks

-----------------------------------------------------------------------------

Snapshot == [status : TaskStatuses, result : Outputs \cup {NoOutput}]

NeverPaused == -1

NoTask == [status |-> "absent", result |-> NoOutput]

Ref_RawStatus(t) == [status |-> phase[t], result |-> output[t]]

\* What job_svc answers about the job of t, as a snapshot.
Ref(t) == [status |-> TaskStatus(phase[t]), result |-> output[t]]

\* An RPC: the task it is for, and the row or the answer it has in hand.
NoCall == [pc |-> "idle", task |-> CHOOSE t \in Tasks : TRUE, seen |-> NoTask]

Call == [pc : {"idle", "insert", "fetch", "refresh", "save"}, task : Tasks,
         seen : Snapshot \cup {NoTask}]

TypeOK ==
    /\ phase \in [Tasks -> Job!Phase]
    /\ retriesLeft \in [Tasks -> Nat]
    /\ output \in [Tasks -> Outputs \cup {NoOutput}]
    /\ stray \subseteq Tasks
    /\ task \in [Tasks -> Snapshot \cup {NoTask}]
    /\ call \in [Callers -> Call]
    /\ budget \in [calls : 0 .. MaxCalls, direct : 0 .. MaxDirect, lost : 0 .. MaxLost]
    /\ approvals \in [Tasks -> Nat \cup {NeverPaused}]

Init ==
    /\ Job!Init
    /\ output = [t \in Tasks |-> NoOutput]
    /\ stray = {}
    /\ task = [t \in Tasks |-> NoTask]
    /\ call = [c \in Callers |-> NoCall]
    /\ budget = [calls |-> MaxCalls, direct |-> MaxDirect, lost |-> MaxLost]
    /\ approvals = [t \in Tasks |-> NeverPaused]

Spend(kind) == budget[kind] > 0 /\ budget' = [budget EXCEPT ![kind] = @ - 1]

-----------------------------------------------------------------------------
(* job_svc.                                                                *)

\* Only the job of t moves.
OneJob(t) ==
    \E s \in Job!Phase, n \in RetryBudgets \cup {0} :
        /\ phase' = [phase EXCEPT ![t] = s]
        /\ retriesLeft' = [retriesLeft EXCEPT ![t] = n]

\* A pause opens the job to one more approval.
Pauses(t) ==
    approvals' = [approvals EXCEPT ![t] = IF phase'[t] = "waiting_approval" THEN 0 ELSE @]

\* The pod that runs the job of t may go on with it, now that its run is over
\* for job_svc.
MayStray(t) == stray' \in {stray, IF phase[t] = "running" THEN stray \cup {t} ELSE stray}

\* A worker takes the job up, or a run of it ends, by the pod that runs it, when
\* its result is saved if it succeeds, or by the reaper, which the pod may
\* outlive.  A job is dead-lettered only with both budgets spent.
Work(t) ==
    /\ OneJob(t) /\ (Job!Begin(t) \/ Job!End(t))
    /\ phase'[t] # "cancelled" /\ (phase'[t] = "dead" => retriesLeft[t] = 0)
    /\ phase'[t] = "succeeded" => output[t] # NoOutput \/ t \in stray
    /\ IF phase'[t] \in {"queued", "failed", "dead"} THEN MayStray(t) ELSE UNCHANGED stray
    /\ Pauses(t)
    /\ UNCHANGED <<output, task, call, budget>>

\* The output of the job of t is saved: once, while it is running, or by a pod
\* that has lost it, over whatever is there.
Output(t) ==
    /\ \/ phase[t] = "running" /\ output[t] = NoOutput
       \/ t \in stray
    /\ \E o \in Outputs \cup {NoOutput} :
          /\ o = NoOutput => t \in stray
          /\ output' = [output EXCEPT ![t] = o]
    /\ UNCHANGED <<phase, retriesLeft, stray, task, call, budget, approvals>>

\* Somebody calls UpdateJob or RetryJob without going through a task.  A pod that
\* runs the job is not told.
Direct(t) ==
    /\ Spend("direct")
    /\ OneJob(t) /\ (Job!Steer(t) \/ Job!Retry(t) \/ Job!End(t))
    /\ MayStray(t)
    /\ Pauses(t)
    /\ UNCHANGED <<output, task, call>>

-----------------------------------------------------------------------------
(* The RPCs.                                                               *)

Begins(c, pc, t, seen) ==
    /\ call[c].pc = "idle"
    /\ call' = [call EXCEPT ![c] = [pc |-> pc, task |-> t, seen |-> seen]]

Ends(c) == call' = [call EXCEPT ![c] = NoCall]

\* create: the job first ...
CreateTask(c, t) ==
    /\ OneJob(t) /\ Job!Submit(t)
    /\ Begins(c, "insert", t, [status |-> "pending", result |-> NoOutput])
    /\ UNCHANGED <<output, stray, task, budget, approvals>>

\* ... then the row.
Insert(c) ==
    /\ call[c].pc = "insert"
    /\ task' = [task EXCEPT ![call[c].task] = call[c].seen]
    /\ Ends(c)
    /\ UNCHANGED <<jobVars, budget, approvals>>

\* get loads the row.  A terminal one is returned as it is.
GetTask(c, t) ==
    /\ task[t] # NoTask /\ task[t].status \notin Terminal
    /\ Begins(c, "fetch", t, task[t])
    /\ UNCHANGED <<jobVars, task, budget, approvals>>

\* _refresh: GetJob answers; there is something to write only if the answer
\* differs from the row that was loaded.
Fetch(c) ==
    /\ call[c].pc = "fetch"
    /\ LET ref == Ref(call[c].task)
       IN  IF ref = call[c].seen THEN Ends(c)
           ELSE call' = [call EXCEPT ![c].pc = "refresh", ![c].seen = ref]
    /\ UNCHANGED <<jobVars, task, budget, approvals>>

Refresh_StatusOnly(c) ==
    /\ call[c].pc = "refresh"
    /\ task' = [task EXCEPT ![call[c].task].status = call[c].seen.status]
    /\ Ends(c)
    /\ UNCHANGED <<jobVars, budget, approvals>>

\* _refresh writes the answer, whatever the row has become meanwhile.
Refresh(c) ==
    /\ call[c].pc = "refresh"
    /\ task' = [task EXCEPT ![call[c].task] = call[c].seen]
    /\ Ends(c)
    /\ UNCHANGED <<jobVars, budget, approvals>>

\* approve: UpdateJob(queued), with whatever job_svc admits it from; the
\* answer is the requeued job.
ApproveTask(c, t) ==
    /\ task[t] # NoTask /\ Spend("calls")
    /\ OneJob(t) /\ Job!Steer(t) /\ phase'[t] = "queued"
    /\ Begins(c, "save", t, [status |-> "pending", result |-> output[t]])
    /\ approvals' = [approvals EXCEPT ![t] = IF @ = NeverPaused THEN @ ELSE @ + 1]
    /\ UNCHANGED <<output, stray, task>>

\* retry: RetryJob.
RetryTask(c, t) ==
    /\ task[t] # NoTask /\ Spend("calls")
    /\ OneJob(t) /\ Job!Retry(t)
    /\ Begins(c, "save", t, [status |-> "pending", result |-> output[t]])
    /\ UNCHANGED <<output, stray, task, approvals>>

\* _save_status.
SaveStatus(c) ==
    /\ call[c].pc = "save"
    /\ task' = [task EXCEPT ![call[c].task] = call[c].seen]
    /\ Ends(c)
    /\ UNCHANGED <<jobVars, budget, approvals>>

\* The RPC goes no further: its answer was lost on the way from job_svc, its
\* statement failed, its caller hung up or the process died.  A failed fetch
\* is swallowed, which comes to the same.
Lost(c) ==
    /\ call[c].pc # "idle" /\ Spend("lost")
    /\ Ends(c)
    /\ UNCHANGED <<jobVars, task, approvals>>

\* The next step of an RPC in flight.
Proceed(c) == Insert(c) \/ Fetch(c) \/ Refresh(c) \/ SaveStatus(c)

Next ==
    \/ \E t \in Tasks : Work(t) \/ Output(t) \/ Direct(t)
    \/ \E c \in Callers, t \in Tasks :
          CreateTask(c, t) \/ GetTask(c, t) \/ ApproveTask(c, t) \/ RetryTask(c, t)
    \/ \E c \in Callers : Proceed(c) \/ Lost(c)

Spec == Init /\ [][Next]_vars

\* RPCs in flight proceed, and a task is read again and again; the jobs may
\* stop anywhere.
FairSpec == /\ Spec
            /\ \A c \in Callers : WF_vars(Proceed(c))
            /\ \A t \in Tasks : WF_vars(\E c \in Callers : GetTask(c, t))

-----------------------------------------------------------------------------

\* A task shown as completed is: its job has succeeded, for good, and the
\* task shows the job's output, unless a pod that has lost the job may still
\* write over that.  Stale answers, lost calls and retries can never make a
\* task look finished when it is not.
CompletedIsTrue ==
    \A t \in Tasks : task[t].status = "completed" =>
        phase[t] = "succeeded" /\ (t \in stray \/ task[t].result = output[t])

\* What tasks.py:62 says of a completed task, that its job can no longer
\* "produce a new result": what it shows should be the result of its job.
ResultIsFinal ==
    \A t \in Tasks : task[t].status = "completed" => task[t].result = output[t]

\* Once a job stops moving, so does the snapshot of its task, at the status
\* of the job.  The one lie that can last is `failed`, because a failed task
\* is never refreshed again.
OnlyFailedLingers ==
    \A t \in Tasks, s \in Job!Phase \ {"absent"} :
        <>[](phase[t] = s) =>
            <>[](task[t].status \in {TaskStatus(s), "failed", "absent"})

\* What tasks.py says of a terminal task: "its backing job can no longer
\* change status or produce a new result".  At least when nothing is in
\* flight, a terminal snapshot should agree with the job, as it is never
\* compared with it again.
TerminalIsFinal ==
    (\A c \in Callers : call[c].pc = "idle") =>
        \A t \in Tasks : task[t].status \in Terminal => task[t].status = TaskStatus(phase[t])

\* What ARCHITECTURE.md says of ApproveTask: "Approval is not re-appliable":
\* for one pause of the job, one approval is accepted.
ApprovedOnce == \A t \in Tasks : approvals[t] <= 1

=============================================================================
