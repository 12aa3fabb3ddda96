------------------------------ MODULE JobRows ------------------------------
(***************************************************************************)
(* One row of the `jobs` table of job_svc (models.py) and what each UPDATE  *)
(* statement of JobService (services/jobs.py) does to the row it matches.   *)
(* The operators here are pure: JobService decides which rows a call may    *)
(* touch, JobRunner adds the `progress` column and the workers.             *)
(*                                                                          *)
(* `locked_at` is modelled by the AGE of the lease, in ticks: RenewLease    *)
(* and the claims set it to 0, the passage of time adds 1.  Ages past       *)
(* LeaseTicks + 1 are not told apart: such a lease has expired already.     *)
(* Faulty variants of a definition (named <definition>_<fault>) stand       *)
(* before it; no specification uses them.                                   *)
(***************************************************************************)
EXTENDS Integers

CONSTANTS
    Pods,        \* job_svc processes; each runs one poller with its own owner id
    LeaseTicks   \* settings.poller.lease_seconds, in ticks

ASSUME LeaseAssumption == LeaseTicks \in Nat \ {0}

\* locked_by IS NULL
NoOwner == "no_owner"

ASSUME OwnerAssumption == NoOwner \notin Pods

\* locked_at IS NULL.  It is below every age, so that comparing it with the
\* lease is false, as the comparison with NULL is in SQL.
NoLease == -1

Status == {"queued", "running", "succeeded", "failed", "cancelled", "dead",
           "waiting_approval"}

\* "absent": no row has this id yet.
RowStatus == Status \cup {"absent"}

Lease == NoLease .. LeaseTicks + 1
Owner == Pods \cup {NoOwner}

Row == [status       : RowStatus,
        attempts     : Nat,
        max_attempts : Nat \ {0},
        retry_count  : Nat,
        max_retries  : Nat,
        lease        : Lease,
        owner        : Owner]

-----------------------------------------------------------------------------

\* The row create() inserts: the column defaults, no lease.
NewRow(max_attempts, max_retries) ==
    [status |-> "queued", attempts |-> 0, max_attempts |-> max_attempts,
     retry_count |-> 0, max_retries |-> max_retries,
     lease |-> NoLease, owner |-> NoOwner]

\* An id no row has.
AbsentRow == [NewRow(1, 0) EXCEPT !.status = "absent"]

AllowedEntry_ReopenSucceeded ==
    [succeeded        |-> {"running"},
     cancelled        |-> {"queued", "running", "waiting_approval"},
     queued           |-> {"failed", "dead", "cancelled", "waiting_approval", "succeeded"},
     dead             |-> {"failed", "running"},
     waiting_approval |-> {"running"}]

\* Target status of update() -> the statuses the row must be in.
AllowedEntry ==
    [succeeded        |-> {"running"},
     cancelled        |-> {"queued", "running", "waiting_approval"},
     queued           |-> {"failed", "dead", "cancelled", "waiting_approval"},
     dead             |-> {"failed", "running"},
     waiting_approval |-> {"running"}]

NextStatusAfterFailure_NoSuchStatus(r) ==
    IF r.attempts < r.max_attempts THEN "pending"
    ELSE IF r.retry_count < r.max_retries THEN "failed"
    ELSE "dead"

NextStatusAfterFailure_OffByOne(r) ==
    IF r.attempts <= r.max_attempts THEN "queued"
    ELSE IF r.retry_count < r.max_retries THEN "failed"
    ELSE "dead"

NextStatusAfterFailure_RetriesOffByOne(r) ==
    IF r.attempts < r.max_attempts THEN "queued"
    ELSE IF r.retry_count <= r.max_retries THEN "failed"
    ELSE "dead"

\* Where a running job lands when its run fails or its lease expires.
NextStatusAfterFailure(r) ==
    IF r.attempts < r.max_attempts THEN "queued"
    ELSE IF r.retry_count < r.max_retries THEN "failed"
    ELSE "dead"

Released(r) == [r EXCEPT !.lease = NoLease, !.owner = NoOwner]

StartedRow_NoLease(r, owner) ==
    [r EXCEPT !.status = "running", !.attempts = @ + 1, !.owner = owner]

\* queued -> running, by _start (owner NULL) or claim_batch (owner a poller):
\* one attempt is consumed and the lease stamped.
StartedRow(r, owner) ==
    [r EXCEPT !.status = "running", !.attempts = @ + 1,
              !.lease = 0, !.owner = owner]

\* _fail and reap_expired: escalate and release the lease.
FailedRow(r) ==
    [Released(r) EXCEPT !.status = NextStatusAfterFailure(r)]

\* retry(): a fresh automatic cycle for one unit of the manual budget.
RetriedRow(r) ==
    [Released(r) EXCEPT !.status = "queued", !.attempts = 0,
                        !.retry_count = @ + 1]

UpdatedRow_AlwaysKeepsLease(r, target) == [r EXCEPT !.status = target]

\* update() to any other target.  Only a requeue and a pause release the
\* lease; a succeeded, cancelled or dead row keeps the one it had.
UpdatedRow(r, target) ==
    [(IF target \in {"queued", "waiting_approval"} THEN Released(r) ELSE r)
        EXCEPT !.status = target]

\* renew_lease() on a running row.
RenewedRow(r) == [r EXCEPT !.lease = 0]

\* Time passes.
AgedRow(r) ==
    [r EXCEPT !.lease = IF @ = NoLease \/ @ = LeaseTicks + 1 THEN @ ELSE @ + 1]

Expired_TooSoon(r) == r.status = "running" /\ r.lease >= LeaseTicks

\* running, and locked_at < now - lease_seconds
Expired(r) == r.status = "running" /\ r.lease > LeaseTicks

=============================================================================
