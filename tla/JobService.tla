----------------------------- MODULE JobService -----------------------------
(***************************************************************************)
(* The JobService of job_svc (services/jobs.py) as the state machine of the *)
(* `jobs` table: every RPC and every poller statement that changes a row,   *)
(* in any order and from any number of callers.  Each UPDATE is atomic; the *)
(* claim is the one statement whose row locks matter, so it is two steps:   *)
(* the SELECT ... FOR UPDATE SKIP LOCKED and the commit.                    *)
(*                                                                          *)
(* A call whose WHERE clause matches no row raises NotFoundError or         *)
(* StateError and changes nothing: it is a step this specification leaves   *)
(* out.  get() and list_queued() only read.  The progress column, and       *)
(* save_progress(), are in JobRunner.                                       *)
(***************************************************************************)
EXTENDS JobRows, FiniteSets

CONSTANTS
    Jobs,             \* job ids
    AttemptBudgets,   \* values of max_attempts a CreateJob may carry
    RetryBudgets,     \* values of max_retries a CreateJob may carry
    BatchSize,        \* settings.poller.batch_size
    MaxRequeues       \* bound: plain UpdateJob(queued) calls per job

ASSUME JobsAssumption == IsFiniteSet(Jobs)

ASSUME BudgetAssumption == /\ AttemptBudgets \subseteq Nat \ {0}
                           /\ RetryBudgets \subseteq Nat
                           /\ MaxRequeues \in Nat

VARIABLES
    row,       \* the table: Jobs -> Row
    born,      \* created_at of each job, as its rank of creation
    locks,     \* the rows each pod's open claim transaction has locked
    runs,      \* history: how often the job was started
    requeues   \* history: how often it was requeued by UpdateJob(queued)

history == <<runs, requeues>>
vars == <<row, born, locks, runs, requeues>>

TypeOK ==
    /\ row \in [Jobs -> Row]
    /\ born \in [Jobs -> Nat]
    /\ locks \in [Pods -> SUBSET Jobs]
    /\ runs \in [Jobs -> Nat]
    /\ requeues \in [Jobs -> 0 .. MaxRequeues]

Init ==
    /\ row = [j \in Jobs |-> AbsentRow]
    /\ born = [j \in Jobs |-> 0]
    /\ locks = [p \in Pods |-> {}]
    /\ runs = [j \in Jobs |-> 0]
    /\ requeues = [j \in Jobs |-> 0]

-----------------------------------------------------------------------------

With(status) == {j \in Jobs : row[j].status = status}

Locked(j) == \E p \in Pods : j \in locks[p]

\* An UPDATE ... WHERE id = j AND status IN allowed_from that matches.  It
\* waits for a row another transaction has locked.
GuardedUpdate(j, allowed_from, new) ==
    /\ row[j].status \in allowed_from
    /\ ~ Locked(j)
    /\ row' = [row EXCEPT ![j] = new]

\* The n oldest of the jobs in S.
Oldest(S, n) == {j \in S : Cardinality({k \in S : born[k] < born[j]}) < n}

-----------------------------------------------------------------------------

Create(j) ==
    /\ row[j].status = "absent"
    /\ \E a \in AttemptBudgets, m \in RetryBudgets :
          row' = [row EXCEPT ![j] = NewRow(a, m)]
    /\ born' = [born EXCEPT ![j] = Cardinality(Jobs \ With("absent"))]
    /\ UNCHANGED <<locks, history>>

\* UpdateJob to succeeded, cancelled, dead or waiting_approval.
Update(j, target) ==
    /\ target # "queued"
    /\ GuardedUpdate(j, AllowedEntry[target], UpdatedRow(row[j], target))
    /\ UNCHANGED <<born, locks, history>>

\* UpdateJob(queued): the requeue that keeps both counts.  ApproveTask of
\* agent_execution_service is this call.
Requeue(j) ==
    /\ requeues[j] < MaxRequeues
    /\ GuardedUpdate(j, AllowedEntry["queued"], UpdatedRow(row[j], "queued"))
    /\ requeues' = [requeues EXCEPT ![j] = @ + 1]
    /\ UNCHANGED <<born, locks, runs>>

\* UpdateJob(running): a start that names no worker.
Start(j) ==
    /\ GuardedUpdate(j, {"queued"}, StartedRow(row[j], NoOwner))
    /\ runs' = [runs EXCEPT ![j] = @ + 1]
    /\ UNCHANGED <<born, locks, requeues>>

\* UpdateJob(failed).
Fail(j) ==
    /\ GuardedUpdate(j, {"running"}, FailedRow(row[j]))
    /\ UNCHANGED <<born, locks, history>>

\* RetryJob.
Retry(j) ==
    /\ GuardedUpdate(j, {"failed"}, RetriedRow(row[j]))
    /\ UNCHANGED <<born, locks, history>>

-----------------------------------------------------------------------------

ClaimSelect_NoSkipLocked(p) ==
    /\ locks[p] = {}
    /\ With("queued") # {}
    /\ locks' = [locks EXCEPT ![p] = Oldest(With("queued"), BatchSize)]
    /\ UNCHANGED <<row, born, history>>

\* claim_batch: the subquery locks the oldest queued rows nobody has locked.
ClaimSelect(p) ==
    LET free == {j \in With("queued") : ~ Locked(j)}
    IN  /\ locks[p] = {}
        /\ free # {}
        /\ locks' = [locks EXCEPT ![p] = Oldest(free, BatchSize)]
        /\ UNCHANGED <<row, born, history>>

\* claim_batch commits.  Its WHERE names the ids only, not their status.
ClaimCommit(p) ==
    /\ locks[p] # {}
    /\ row' = [j \in Jobs |-> IF j \in locks[p] THEN StartedRow(row[j], p)
                                                ELSE row[j]]
    /\ runs' = [j \in Jobs |-> IF j \in locks[p] THEN runs[j] + 1 ELSE runs[j]]
    /\ locks' = [locks EXCEPT ![p] = {}]
    /\ UNCHANGED <<born, requeues>>

\* The transaction rolls back: the pod crashed or the connection was lost.
ClaimAbort(p) ==
    /\ locks[p] # {}
    /\ locks' = [locks EXCEPT ![p] = {}]
    /\ UNCHANGED <<row, born, history>>

\* reap_expired: one UPDATE over every expired run.
ReapExpired ==
    /\ \E j \in Jobs : Expired(row[j])
    /\ row' = [j \in Jobs |-> IF Expired(row[j]) THEN FailedRow(row[j])
                                                 ELSE row[j]]
    /\ UNCHANGED <<born, locks, history>>

\* renew_lease, by the heartbeat of a runner.
RenewLease(j) ==
    /\ row[j].status = "running"
    /\ row' = [row EXCEPT ![j] = RenewedRow(row[j])]
    /\ UNCHANGED <<born, locks, history>>

Tick ==
    /\ row' = [j \in Jobs |-> AgedRow(row[j])]
    /\ UNCHANGED <<born, locks, history>>

Next ==
    \/ \E j \in Jobs :
          \/ Create(j) \/ Requeue(j) \/ Start(j) \/ Fail(j) \/ Retry(j)
          \/ RenewLease(j)
          \/ \E target \in DOMAIN AllowedEntry : Update(j, target)
    \/ \E p \in Pods : ClaimSelect(p) \/ ClaimCommit(p) \/ ClaimAbort(p)
    \/ ReapExpired
    \/ Tick

Spec == Init /\ [][Next]_vars

-----------------------------------------------------------------------------

\* Every job in `running` carries a lease, so the reaper can always recover
\* it (reap_expired skips NULL leases); a job that waits for a claim or a
\* human carries none, so nothing about an earlier run clings to it.
LeaseMatchesStatus ==
    \A j \in Jobs :
        /\ row[j].status = "running" => row[j].lease # NoLease
        /\ row[j].status \in {"queued", "failed", "waiting_approval"} =>
              row[j].lease = NoLease /\ row[j].owner = NoOwner

\* The manual budget is never overdrawn, although retry() itself does not
\* check it, because a job rests at `failed` only with its automatic budget
\* spent and a RetryJob still to its credit.
ManualBudgetKept ==
    \A j \in Jobs :
        /\ row[j].retry_count <= row[j].max_retries
        /\ row[j].status = "failed" =>
              /\ row[j].attempts >= row[j].max_attempts
              /\ row[j].retry_count < row[j].max_retries

\* Two open claims never hold the same row, and a row a claim holds stays
\* queued until the claim commits: the outer UPDATE of claim_batch, which
\* does not look at the status, starts queued jobs only, each once.
ClaimsDisjoint ==
    /\ \A p, q \in Pods : p # q => locks[p] \cap locks[q] = {}
    /\ \A p \in Pods : \A j \in locks[p] : row[j].status = "queued"

\* However starts, failures, expiries, pauses, retries and requeues
\* interleave, a job runs at most max_attempts times for each automatic cycle
\* it was granted, and once more for each plain requeue.
RunsWithinBudget ==
    \A j \in Jobs :
        runs[j] <= row[j].max_attempts * (row[j].retry_count + 1) + requeues[j]

\* The abstract status of a job is its status; a RetryJob is worth one unit
\* of max_retries - retry_count.
Lifecycle == INSTANCE JobLifecycle WITH
    phase <- [j \in Jobs |-> row[j].status],
    retriesLeft <- [j \in Jobs |-> row[j].max_retries - row[j].retry_count]

\* Every step of the service, batches included, is a step the callers of the
\* RPCs were promised: a succeeded job never moves again, a RetryJob is only
\* ever accepted while one is left, nothing but a start makes a job run.
ImplementsLifecycle == Lifecycle!Spec

=============================================================================
