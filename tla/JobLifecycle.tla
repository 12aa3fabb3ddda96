---------------------------- MODULE JobLifecycle ----------------------------
(***************************************************************************)
(* What job_svc promises the callers of its RPCs about one job, with the   *)
(* leases, the owners, the batches and the attempts left out: which status *)
(* may follow which, and what a RetryJob costs.  JobService implements it. *)
(* Several jobs may move in one step, as a claimed or a reaped batch does. *)
(***************************************************************************)
EXTENDS Naturals

CONSTANTS Jobs, RetryBudgets

VARIABLES
    phase,       \* the status of each job, or "absent"
    retriesLeft  \* how many RetryJob calls the job can still accept

lifecycleVars == <<phase, retriesLeft>>

Phase == {"absent", "queued", "running", "succeeded", "failed", "cancelled",
          "dead", "waiting_approval"}

Init ==
    /\ phase = [j \in Jobs |-> "absent"]
    /\ retriesLeft = [j \in Jobs |-> 0]

Moves(j, from, to) == phase[j] \in from /\ phase'[j] \in to

\* CreateJob.
Submit(j) ==
    /\ Moves(j, {"absent"}, {"queued"})
    /\ retriesLeft'[j] \in RetryBudgets

\* A worker, or UpdateJob(running), takes the job up.
Begin(j) ==
    /\ Moves(j, {"queued"}, {"running"})
    /\ retriesLeft'[j] = retriesLeft[j]

\* A run ends.  It rests at `failed` only if a RetryJob can still help.
End(j) ==
    /\ Moves(j, {"running"}, {"succeeded", "queued", "waiting_approval",
                              "cancelled", "dead", "failed"})
    /\ phase'[j] = "failed" => retriesLeft[j] > 0
    /\ retriesLeft'[j] = retriesLeft[j]

\* RetryJob.
Retry(j) ==
    /\ Moves(j, {"failed"}, {"queued"})
    /\ retriesLeft[j] > 0
    /\ retriesLeft'[j] = retriesLeft[j] - 1

\* A caller cancels, dead-letters or requeues a job that is not running.
Steer(j) ==
    /\ \/ Moves(j, {"queued", "waiting_approval"}, {"cancelled"})
       \/ Moves(j, {"failed"}, {"dead"})
       \/ Moves(j, {"failed", "dead", "cancelled", "waiting_approval"}, {"queued"})
    /\ retriesLeft'[j] = retriesLeft[j]

JobStep(j) == Submit(j) \/ Begin(j) \/ End(j) \/ Retry(j) \/ Steer(j)

Keeps(j) == phase'[j] = phase[j] /\ retriesLeft'[j] = retriesLeft[j]

Next ==
    /\ phase' \in [Jobs -> Phase]
    /\ retriesLeft' \in [Jobs -> Nat]
    /\ \A j \in Jobs : JobStep(j) \/ Keeps(j)

Spec == Init /\ [][Next]_lifecycleVars

=============================================================================
