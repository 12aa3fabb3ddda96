----------------------------- MODULE JobRunner -----------------------------
(***************************************************************************)
(* The workers of job_svc: every pod runs one poller (poller.py), which     *)
(* reaps, claims a batch and runs its jobs one after the other through      *)
(* JobRunner (runner.py), against the `jobs` table of JobRows.  The actions *)
(* are the stretches of code between two awaits, so other pods, the         *)
(* callers of the RPCs and the clock interleave wherever the event loop     *)
(* lets them, and a crash may fall between any two of them.                 *)
(*                                                                          *)
(* A pod works from the row its claim returned.  Its copy of `progress` is  *)
(* pod[p].prog; the table is written by save_progress only.                 *)
(***************************************************************************)
EXTENDS JobRows, Sequences, FiniteSets

CONSTANTS
    Jobs,            \* numbers: the order of created_at
    Plans,           \* the decompositions the planner may come up with
    PlanLength,      \* sub-prompts in each of them
    Gated,           \* the steps whose agent may call a mutating tool
    NoPrompt,        \* jobs whose spec carries no instructions
    NoRunner,        \* jobs of a type the dispatcher has no runner for
    MaxAttempts,     \* max_attempts of every job
    MaxRetries,      \* max_retries of every job
    BatchSize,       \* settings.poller.batch_size
    HeartbeatTicks,  \* heartbeat_interval_seconds, in ticks
    Calls,           \* the RPCs the callers make
    Stoppable,       \* pods that may receive SIGTERM
    MaxCalls,        \* bound: RPCs by callers
    MaxCrashes,      \* bound: pod crashes
    MaxChatErrors,   \* bound: Chat calls that fail or return an empty plan
    MaxDbErrors      \* bound: statements of a worker that fail

Step == 1 .. PlanLength

ASSUME RunnerAssumption ==
    /\ Jobs \subseteq Nat /\ IsFiniteSet(Jobs)
    /\ 0 \notin Plans /\ PlanLength \in Nat \ {0}
    /\ Gated \subseteq Step
    /\ MaxAttempts \in Nat \ {0} /\ MaxRetries \in Nat
    /\ HeartbeatTicks \in Nat \ {0}
    /\ Calls \subseteq {"approve", "requeue", "cancel", "retry"}
    /\ {MaxCalls, MaxCrashes, MaxChatErrors, MaxDbErrors} \subseteq Nat

VARIABLES
    row,        \* the table, without `progress`
    progress,   \* its `progress` column
    pod,        \* the poller and the runner of each pod
    stopping,   \* pods whose stop_event is set
    budget,     \* what is left of each bound
    granted,    \* history: <<job, step>> pairs a caller approved
    revived,    \* history: jobs whose cancellation a caller took back
    executed    \* history: <<job, step>> pairs whose chat completed

vars == <<row, progress, pod, stopping, budget, granted, revived, executed>>

\* The progress checkpoint.  steps[i] is the plan that step i was executed
\* from, or 0; pending is pending_approval.step, or 0; error and result say
\* whether the key is set.
Progress == [plan : Plans \cup {0}, steps : [Step -> Plans \cup {0}],
             pending : Step \cup {0}, phase : {"none", "executing", "completed"},
             error : BOOLEAN, result : BOOLEAN]

NoProgress == [plan |-> 0, steps |-> [i \in Step |-> 0], pending |-> 0,
               phase |-> "none", error |-> FALSE, result |-> FALSE]

\* A claimed row: the job and the checkpoint it had at the claim.
Item == [job : Jobs, prog : Progress]

\* What a pod awaits: the interval or its stop ("idle"), the claim that
\* follows a reap ("reaped"), a planner or a step chat, a save_progress, or
\* the update to succeeded / waiting_approval / failed that ends a run.
Running == {"plan", "chat", "save", "succeed", "park", "fail"}

NoJob == 0

PodState == [pc : Running \cup {"idle", "reaped", "stopped"},
             batch : Seq(Item),                \* claimed, not yet dispatched
             job : Jobs \cup {NoJob},
             prog : Progress,
             after : {"resume", "park", "succeed", "fail"},  \* once saved
             beat : 0 .. HeartbeatTicks]       \* since the last renewal

Idle == [pc |-> "idle", batch |-> <<>>, job |-> NoJob, prog |-> NoProgress,
         after |-> "resume", beat |-> 0]

Budget == [calls : 0 .. MaxCalls, crashes : 0 .. MaxCrashes,
           chatErrors : 0 .. MaxChatErrors, dbErrors : 0 .. MaxDbErrors]

TypeOK ==
    /\ row \in [Jobs -> Row]
    /\ progress \in [Jobs -> Progress]
    /\ pod \in [Pods -> PodState]
    /\ stopping \subseteq Pods
    /\ budget \in Budget
    /\ granted \subseteq Jobs \X Step
    /\ revived \subseteq Jobs
    /\ executed \subseteq Jobs \X Step

Init ==
    /\ row = [j \in Jobs |-> NewRow(MaxAttempts, MaxRetries)]
    /\ progress = [j \in Jobs |-> NoProgress]
    /\ pod = [p \in Pods |-> Idle]
    /\ stopping = {}
    /\ budget = [calls |-> MaxCalls, crashes |-> MaxCrashes,
                 chatErrors |-> MaxChatErrors, dbErrors |-> MaxDbErrors]
    /\ granted = {}
    /\ revived = {}
    /\ executed = {}

-----------------------------------------------------------------------------
(* The runner's control, as functions on the state of a pod.               *)

Undone(g) == {i \in Step : g.steps[i] = 0}

\* _execute_steps goes through the plan in order and skips what is done.
NextStep(g) == CHOOSE i \in Undone(g) : \A k \in Undone(g) : i <= k

Approved_Always(g) == TRUE

\* Whether the chat for the next step is sent with approved = True.
Approved(g) == g.pending = NextStep(g)

Spend(kind) == budget[kind] > 0 /\ budget' = [budget EXCEPT ![kind] = @ - 1]

Saving(s, g, then) == [s EXCEPT !.pc = "save", !.prog = g, !.after = then]

Erred_FreshDict(s) == Saving(s, [NoProgress EXCEPT !.error = TRUE], "fail")

\* An exception inside _execute: checkpoint the reason, then mark failed.
Erred(s) == Saving(s, [s.prog EXCEPT !.error = TRUE], "fail")

Finalized_KeepsError(g) == [g EXCEPT !.phase = "completed", !.result = TRUE]

\* _finalize, up to its save_progress.
Finalized(g) == [g EXCEPT !.phase = "completed", !.error = FALSE, !.result = TRUE]

\* Where _execute gets to with the checkpoint in s.prog.
Resumed(s) ==
    IF s.job \in NoPrompt THEN Erred(s)
    ELSE IF s.prog.plan = 0 THEN [s EXCEPT !.pc = "plan"]
    ELSE IF Undone(s.prog) # {} THEN [s EXCEPT !.pc = "chat"]
    ELSE Saving(s, Finalized(s.prog), "succeed")

\* The poller dispatches the rest of its batch; the heartbeat of the next
\* run starts afresh.
Dispatched(batch) ==
    IF batch = <<>> THEN Idle
    ELSE LET s == [Idle EXCEPT !.batch = Tail(batch), !.job = Head(batch).job,
                               !.prog = Head(batch).prog]
         IN  IF s.job \in NoRunner THEN [s EXCEPT !.pc = "fail"] ELSE Resumed(s)

Heartbeats(p) == pod[p].pc \in Running /\ pod[p].job \notin NoRunner

EndRun_Unguarded(p, new) == row' = [row EXCEPT ![pod[p].job] = new]

\* An update() of the pod's own job, which matches it only if it is still in
\* `running`; otherwise StateError is raised and the row is left alone.
EndRun(p, new) ==
    LET j == pod[p].job
    IN  row' = IF row[j].status = "running" THEN [row EXCEPT ![j] = new] ELSE row

-----------------------------------------------------------------------------
(* The poller.                                                             *)

Oldest(S, n) == {j \in S : Cardinality({k \in S : k < j}) < n}

\* UPDATE ... RETURNING gives the claimed rows in no particular order.
Orders(S) == {s \in [1 .. Cardinality(S) -> S] : \A a, b \in DOMAIN s : a # b => s[a] # s[b]}

Reap_IgnoresStop(p) ==
    /\ pod[p].pc = "idle"
    /\ row' = [j \in Jobs |-> IF Expired(row[j]) THEN FailedRow(row[j]) ELSE row[j]]
    /\ pod' = [pod EXCEPT ![p].pc = "reaped"]
    /\ UNCHANGED <<progress, stopping, budget, granted, revived, executed>>

\* tick() begins: reap_expired.
Reap(p) ==
    /\ pod[p].pc = "idle" /\ p \notin stopping
    /\ row' = [j \in Jobs |-> IF Expired(row[j]) THEN FailedRow(row[j]) ELSE row[j]]
    /\ pod' = [pod EXCEPT ![p].pc = "reaped"]
    /\ UNCHANGED <<progress, stopping, budget, granted, revived, executed>>

Claim_NoProgress(p) ==
    /\ pod[p].pc = "reaped"
    /\ LET batch == Oldest({j \in Jobs : row[j].status = "queued"}, BatchSize)
       IN  /\ row' = [j \in Jobs |-> IF j \in batch THEN StartedRow(row[j], p) ELSE row[j]]
           /\ \E order \in Orders(batch) :
                 pod' = [pod EXCEPT ![p] = Dispatched(
                            [k \in DOMAIN order |-> [job |-> order[k], prog |-> NoProgress]])]
    /\ UNCHANGED <<progress, stopping, budget, granted, revived, executed>>

\* claim_batch, and the dispatch of the first claimed row.
Claim(p) ==
    /\ pod[p].pc = "reaped"
    /\ LET batch == Oldest({j \in Jobs : row[j].status = "queued"}, BatchSize)
       IN  /\ row' = [j \in Jobs |-> IF j \in batch THEN StartedRow(row[j], p) ELSE row[j]]
           /\ \E order \in Orders(batch) :
                 pod' = [pod EXCEPT ![p] = Dispatched(
                            [k \in DOMAIN order |->
                                [job |-> order[k], prog |-> progress[order[k]]]])]
    /\ UNCHANGED <<progress, stopping, budget, granted, revived, executed>>

\* run() sees the stop event at the top of its loop, and only there.
Exit(p) ==
    /\ pod[p].pc = "idle" /\ p \in stopping
    /\ pod' = [pod EXCEPT ![p].pc = "stopped"]
    /\ UNCHANGED <<row, progress, stopping, budget, granted, revived, executed>>

-----------------------------------------------------------------------------
(* The runner.                                                             *)

\* The planner answers.
PlanReply(p) ==
    /\ pod[p].pc = "plan"
    /\ \E q \in Plans :
          pod' = [pod EXCEPT ![p] = Saving(@, [@.prog EXCEPT !.plan = q, !.phase = "executing"],
                                           "resume")]
    /\ UNCHANGED <<row, progress, stopping, budget, granted, revived, executed>>

\* The planner's chat fails, or no sub-prompt can be read out of its answer;
\* or a step's chat fails.
ChatError(p) ==
    /\ pod[p].pc \in {"plan", "chat"}
    /\ Spend("chatErrors")
    /\ pod' = [pod EXCEPT ![p] = Erred(@)]
    /\ UNCHANGED <<row, progress, stopping, granted, revived, executed>>

\* A step completes.
StepReply(p) ==
    LET g == pod[p].prog
        i == NextStep(g)
    IN  /\ pod[p].pc = "chat"
        /\ pod' = [pod EXCEPT ![p] =
                      Saving(@, [g EXCEPT !.pending = 0, !.steps[i] = g.plan], "resume")]
        /\ executed' = executed \cup {<<pod[p].job, i>>}
        /\ UNCHANGED <<row, progress, stopping, budget, granted, revived>>

StepPause_RecordsStep(p) ==
    LET g == pod[p].prog
        i == NextStep(g)
    IN  /\ pod[p].pc = "chat" /\ i \in Gated
        /\ pod' = [pod EXCEPT ![p] =
                      Saving(@, [g EXCEPT !.pending = i, !.steps[i] = g.plan], "park")]
        /\ UNCHANGED <<row, progress, stopping, budget, granted, revived, executed>>

\* A step pauses: a mutating tool was refused, or (even in an approved chat)
\* a tool answered that it needs approval.
StepPause(p) ==
    LET g == pod[p].prog
    IN  /\ pod[p].pc = "chat" /\ NextStep(g) \in Gated
        /\ pod' = [pod EXCEPT ![p] = Saving(@, [g EXCEPT !.pending = NextStep(g)], "park")]
        /\ UNCHANGED <<row, progress, stopping, budget, granted, revived, executed>>

AfterSave(s) == IF s.after = "resume" THEN Resumed(s) ELSE [s EXCEPT !.pc = s.after]

\* save_progress: an overwrite by id, whoever owns the job by now.
Save(p) ==
    /\ pod[p].pc = "save"
    /\ progress' = [progress EXCEPT ![pod[p].job] = pod[p].prog]
    /\ pod' = [pod EXCEPT ![p] = AfterSave(@)]
    /\ UNCHANGED <<row, stopping, budget, granted, revived, executed>>

\* _finalize's update to succeeded.  Its StateError is an exception inside
\* _execute like any other.
Succeed(p) ==
    /\ pod[p].pc = "succeed"
    /\ EndRun(p, UpdatedRow(row[pod[p].job], "succeeded"))
    /\ pod' = [pod EXCEPT ![p] = IF row[@.job].status = "running" THEN Dispatched(@.batch)
                                                                  ELSE Erred(@)]
    /\ UNCHANGED <<progress, stopping, budget, granted, revived, executed>>

\* _mark_waiting_approval; an exception is logged by the poller.
Park(p) ==
    /\ pod[p].pc = "park"
    /\ EndRun(p, UpdatedRow(row[pod[p].job], "waiting_approval"))
    /\ pod' = [pod EXCEPT ![p] = Dispatched(@.batch)]
    /\ UNCHANGED <<progress, stopping, budget, granted, revived, executed>>

\* _mark_failed, or the dispatcher's answer to an unknown type; an exception
\* is logged by the poller.
Fail(p) ==
    /\ pod[p].pc = "fail"
    /\ EndRun(p, FailedRow(row[pod[p].job]))
    /\ pod' = [pod EXCEPT ![p] = Dispatched(@.batch)]
    /\ UNCHANGED <<progress, stopping, budget, granted, revived, executed>>

\* A statement fails without effect.  In tick() it ends the tick; in
\* _execute it is an error of the run, except that one more failure while
\* the error is saved leads straight to _mark_failed; in the handlers that
\* end a run it is left to the poller, and the row stays in `running`.
DbError(p) ==
    /\ pod[p].pc \in {"reaped", "save", "succeed", "park", "fail"}
    /\ Spend("dbErrors")
    /\ pod' = [pod EXCEPT ![p] =
                  CASE @.pc = "reaped" -> Idle
                    [] @.pc = "save" /\ @.after = "fail" -> [@ EXCEPT !.pc = "fail"]
                    [] @.pc = "save" /\ @.after # "fail" -> Erred(@)
                    [] @.pc = "succeed" -> Erred(@)
                    [] @.pc \in {"park", "fail"} -> Dispatched(@.batch)]
    /\ UNCHANGED <<row, progress, stopping, granted, revived, executed>>

Beat_NoRenewal(p) ==
    /\ Heartbeats(p) /\ pod[p].beat = HeartbeatTicks
    /\ pod' = [pod EXCEPT ![p].beat = 0]
    /\ UNCHANGED <<row, progress, stopping, budget, granted, revived, executed>>

\* _heartbeat: renew_lease by id, if the job is running at all.
Beat(p) ==
    /\ Heartbeats(p) /\ pod[p].beat = HeartbeatTicks
    /\ EndRun(p, RenewedRow(row[pod[p].job]))
    /\ pod' = [pod EXCEPT ![p].beat = 0]
    /\ UNCHANGED <<progress, stopping, budget, granted, revived, executed>>

\* A renewal that fails is skipped.
MissedBeat(p) ==
    /\ Heartbeats(p) /\ pod[p].beat = HeartbeatTicks
    /\ Spend("dbErrors")
    /\ pod' = [pod EXCEPT ![p].beat = 0]
    /\ UNCHANGED <<row, progress, stopping, granted, revived, executed>>

-----------------------------------------------------------------------------
(* The clock, the callers, and what befalls a pod.                         *)

\* A heartbeat that is due comes before the next tick: it waits for nothing
\* but the event loop, and the calls of the run do not block that.
Tick ==
    /\ \A p \in Pods : Heartbeats(p) => pod[p].beat < HeartbeatTicks
    /\ row' = [j \in Jobs |-> AgedRow(row[j])]
    /\ pod' = [p \in Pods |-> IF Heartbeats(p) THEN [pod[p] EXCEPT !.beat = @ + 1] ELSE pod[p]]
    /\ UNCHANGED <<progress, stopping, budget, granted, revived, executed>>

Call(kind, j, from, new) ==
    /\ kind \in Calls /\ Spend("calls")
    /\ row[j].status \in from
    /\ row' = [row EXCEPT ![j] = new]
    /\ UNCHANGED <<progress, pod, stopping, executed>>

\* ApproveTask on a job that waits for approval: UpdateJob(queued).
Approve(j) ==
    /\ Call("approve", j, {"waiting_approval"}, UpdatedRow(row[j], "queued"))
    /\ granted' = granted \cup ({<<j, progress[j].pending>>} \cap (Jobs \X Step))
    /\ UNCHANGED revived

\* UpdateJob(queued) on a job that does not: it has failed, is dead, or was
\* cancelled, and what it was waiting for then is still in its checkpoint.
Requeue(j) ==
    /\ Call("requeue", j, AllowedEntry["queued"] \ {"waiting_approval"},
            UpdatedRow(row[j], "queued"))
    /\ revived' = IF row[j].status = "cancelled" THEN revived \cup {j} ELSE revived
    /\ UNCHANGED granted

\* UpdateJob(cancelled).
Cancel(j) ==
    /\ Call("cancel", j, AllowedEntry["cancelled"], UpdatedRow(row[j], "cancelled"))
    /\ UNCHANGED <<granted, revived>>

\* RetryJob.
Retry(j) ==
    /\ Call("retry", j, {"failed"}, RetriedRow(row[j]))
    /\ UNCHANGED <<granted, revived>>

\* SIGTERM sets the stop event.
Stop(p) ==
    /\ p \in Stoppable \ stopping
    /\ stopping' = stopping \cup {p}
    /\ UNCHANGED <<row, progress, pod, budget, granted, revived, executed>>

\* The process dies with everything it had in memory; another takes its place.
Crash(p) ==
    /\ pod[p].pc \notin {"idle", "stopped"}
    /\ Spend("crashes")
    /\ pod' = [pod EXCEPT ![p] = Idle]
    /\ stopping' = stopping \ {p}
    /\ UNCHANGED <<row, progress, granted, revived, executed>>

\* A chat is answered, one way or the other.
Answer(p) == PlanReply(p) \/ ChatError(p) \/ StepReply(p) \/ StepPause(p)

\* The pod's own statements.
Work(p) == Reap(p) \/ Claim(p) \/ Exit(p) \/ Save(p) \/ Succeed(p) \/ Park(p) \/ Fail(p)

Next ==
    \/ \E p \in Pods : Answer(p) \/ Work(p) \/ Beat(p) \/ MissedBeat(p) \/ DbError(p)
                       \/ Stop(p) \/ Crash(p)
    \/ \E j \in Jobs : Approve(j) \/ Requeue(j) \/ Cancel(j) \/ Retry(j)
    \/ Tick

Spec == Init /\ [][Next]_vars

-----------------------------------------------------------------------------
(* Fairness.  The clock advances, the event loop of a pod gets round to     *)
(* whatever is ready, and a poller that is not stopped ticks again.  That   *)
(* chats are answered is an assumption about the orchestrator, kept apart:  *)
(* the Chat RPC has no timeout.  The steps of a claim or of a run are       *)
(* finished however long the pod waits between them.                        *)

PodFairness == /\ WF_vars(Tick)
               /\ \A p \in Pods : WF_vars(Work(p)) /\ WF_vars(Beat(p))

ChatFairness == \A p \in Pods : WF_vars(Answer(p))

FairSpec == Spec /\ PodFairness /\ ChatFairness

-----------------------------------------------------------------------------

Executing(p) == pod[p].pc \in Running

\* Whoever executes a job is the one whose claim the table records, and the
\* job is running: a heartbeat at a third of the lease keeps the reaper away
\* even if a couple of renewals are missed, so nobody else can claim it.
OwnerRuns ==
    \A p \in Pods : Executing(p) =>
        row[pod[p].job].status = "running" /\ row[pod[p].job].owner = p

\* The same job is never in the hands of two pods.
SingleRunner ==
    \A p, q \in Pods : Executing(p) /\ Executing(q) /\ pod[p].job = pod[q].job => p = q

\* A chat is never sent for a plan or a step the table already holds: a
\* resumed run starts from a checkpoint nobody has moved past.
NoRedo ==
    \A p \in Pods :
        /\ pod[p].pc = "plan" => progress[pod[p].job].plan = 0
        /\ pod[p].pc = "chat" =>
              progress[pod[p].job].steps[NextStep(pod[p].prog)] = 0

\* What is checkpointed stays: the plan is computed once, and a completed
\* step never disappears, whatever crashes, retries and other pods do.
CheckpointKept ==
    [][\A j \in Jobs :
          /\ progress[j].plan # 0 => progress'[j].plan = progress[j].plan
          /\ \A i \in Step : progress[j].steps[i] # 0 =>
                progress'[j].steps[i] = progress[j].steps[i]]_vars

\* Steps are done in order and from the plan the job holds, and a job that
\* waits for approval names the first step that is not done.
StepsInOrder ==
    \A j \in Jobs : LET g == progress[j] IN
        /\ \A i \in Step : g.steps[i] # 0 =>
              g.steps[i] = g.plan /\ \A k \in 1 .. i : g.steps[k] # 0
        /\ row[j].status = "waiting_approval" =>
              Undone(g) # {} /\ g.pending = NextStep(g)

\* A succeeded job has done every step, carries its result and no error, and
\* waits for no approval.
SucceededIsComplete ==
    \A j \in Jobs : row[j].status = "succeeded" =>
        /\ Undone(progress[j]) = {}
        /\ progress[j].phase = "completed" /\ progress[j].result
        /\ ~ progress[j].error /\ progress[j].pending = 0

\* models.py:56 of agent_execution_service says of a mutating tool that "every
\* call to this tool must be approved by a human before it runs".  No chat
\* should be sent with approved = True for a step unless a caller approved the
\* job while it was waiting on that very step.
ApprovalIsHuman ==
    \A p \in Pods : pod[p].pc = "chat" /\ Approved(pod[p].prog) =>
        <<pod[p].job, NextStep(pod[p].prog)>> \in granted

\* What the code keeps of it when no pod dies and no statement fails: the one
\* other way to run a step as approved is that a caller took a cancellation of
\* the job back, which leaves pending_approval as it was (jobs.py:70-72,
\* runner.py:201-202).  Failures, retries, plain requeues of failed and dead
\* jobs, and pauses reported about a cancelled job do not.
ApprovedOrRevived ==
    \A p \in Pods : pod[p].pc = "chat" /\ Approved(pod[p].prog) =>
        <<pod[p].job, NextStep(pod[p].prog)>> \in granted \/ pod[p].job \in revived

\* A job that a caller cancelled stays cancelled until a caller requeues it,
\* whatever the pod that was running it still reports.
CancelSticks ==
    [][\A j \in Jobs : row[j].status = "cancelled" =>
          row'[j].status = "cancelled" \/ Requeue(j)]_vars

\* What job_svc promises about each job, as JobService does.
Lifecycle == INSTANCE JobLifecycle WITH
    RetryBudgets <- {MaxRetries},
    phase <- [j \in Jobs |-> row[j].status],
    retriesLeft <- [j \in Jobs |-> row[j].max_retries - row[j].retry_count]

ByCaller == \E j \in Jobs : Approve(j) \/ Requeue(j) \/ Cancel(j) \/ Retry(j)

\* A worker takes the job up, or a run of it ends: never as cancelled, and in a
\* dead letter only with both budgets spent.
WorkerMoves(j) ==
    /\ Lifecycle!Begin(j) \/ Lifecycle!End(j)
    /\ row'[j].status # "cancelled"
    /\ row'[j].status = "dead" =>
          row[j].attempts >= row[j].max_attempts /\ row[j].retry_count >= row[j].max_retries

\* Whatever poller, runner, reaper, crashes and callers make of a job together
\* is a step of its lifecycle, and the workers' part of it is no more than what
\* agent_execution_service expects of them (Work of TaskService): a report about
\* a run that is over, or was cancelled, moves nothing (jobs.py:341-363).
KeepsLifecycle ==
    [][/\ Lifecycle!Next
       /\ ByCaller \/ \A j \in Jobs : WorkerMoves(j) \/ Lifecycle!Keeps(j)]_vars

\* Every job comes to rest, whatever pods crash, statements fail and chats
\* go wrong, as long as chats are answered: it succeeds, is dead-lettered or
\* cancelled, or waits for a caller.
AtRest(j) == row[j].status \in {"succeeded", "failed", "dead", "cancelled", "waiting_approval"}
Settles == \A j \in Jobs : <>[]AtRest(j)

\* No step is executed twice, whatever chats fail or pause and however often the
\* job is retried, approved or cancelled (runner.py:22: "a step runs at most
\* once across all attempts").  It takes a pod that lives to save the step: a
\* crash between the answer and its checkpoint repeats the step.
StepsRunOnce ==
    [][\A p \in Pods : StepReply(p) =>
          <<pod[p].job, NextStep(pod[p].prog)>> \notin executed]_vars

\* A pod that is told to stop comes to its stop, out of the middle of a batch
\* too, as long as chats are answered (poller.py:70-86, main.py:85-93).
Drains == \A p \in Pods : p \in stopping ~> pod[p].pc = "stopped"

=============================================================================
