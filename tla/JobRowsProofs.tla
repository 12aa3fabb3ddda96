--------------------------- MODULE JobRowsProofs ---------------------------
(***************************************************************************)
(* What the operators of JobRows preserve: the statements of JobService and  *)
(* those of the workers leave a row a row.                                   *)
(***************************************************************************)
EXTENDS JobRows, TLAPS

LEMMA AllowedTargets ==
    /\ DOMAIN AllowedEntry = {"succeeded", "cancelled", "queued", "dead", "waiting_approval"}
    /\ AllowedEntry["succeeded"] = {"running"}
    /\ AllowedEntry["cancelled"] = {"queued", "running", "waiting_approval"}
    /\ AllowedEntry["queued"] = {"failed", "dead", "cancelled", "waiting_approval"}
    /\ AllowedEntry["dead"] = {"failed", "running"}
    /\ AllowedEntry["waiting_approval"] = {"running"}
  BY DEF AllowedEntry

\* The field types kept folded: membership of a changed row in Row is then
\* a matter of its fields only.
LEMMA FieldTypes ==
    /\ 0 \in Lease /\ NoLease \in Lease /\ NoOwner \in Owner
    /\ {"queued", "running", "succeeded", "failed", "cancelled", "dead",
        "waiting_approval", "absent"} \subseteq RowStatus
  BY LeaseAssumption DEF Lease, Owner, NoLease, RowStatus, Status

LEMMA AgedLease ==
    ASSUME NEW l \in Lease
    PROVE  (IF l = NoLease \/ l = LeaseTicks + 1 THEN l ELSE l + 1) \in Lease
  BY LeaseAssumption DEF Lease, NoLease

LEMMA ReleasedType ==
    ASSUME NEW r \in Row PROVE Released(r) \in Row
  BY FieldTypes DEF Released, Row

LEMMA StartedType ==
    ASSUME NEW r \in Row, NEW o \in Owner PROVE StartedRow(r, o) \in Row
  <1> DEFINE n == r.attempts + 1
  <1>1. n \in Nat
    BY DEF Row
  <1>2. StartedRow(r, o) =
           [r EXCEPT !.status = "running", !.attempts = n, !.lease = 0, !.owner = o]
    BY DEF StartedRow
  <1> HIDE DEF n
  <1> QED BY <1>1, <1>2, FieldTypes DEF Row

LEMMA FailedType ==
    ASSUME NEW r \in Row PROVE FailedRow(r) \in Row
  BY FieldTypes, ReleasedType DEF FailedRow, NextStatusAfterFailure, Row

LEMMA RetriedType ==
    ASSUME NEW r \in Row PROVE RetriedRow(r) \in Row
  <1>1. ASSUME NEW q \in Row, NEW n \in Nat
        PROVE  [q EXCEPT !.status = "queued", !.attempts = 0, !.retry_count = n] \in Row
    <2>1. [q EXCEPT !.status = "queued", !.attempts = 0] \in Row
      BY FieldTypes DEF Row
    <2> QED BY <2>1 DEF Row
  <1>2. Released(r).retry_count + 1 \in Nat
    BY ReleasedType DEF Row
  <1> QED BY <1>1, <1>2, ReleasedType DEF RetriedRow

LEMMA UpdatedType ==
    ASSUME NEW r \in Row, NEW t \in DOMAIN AllowedEntry PROVE UpdatedRow(r, t) \in Row
  BY FieldTypes, ReleasedType, AllowedTargets DEF UpdatedRow, Row

LEMMA RenewedType ==
    ASSUME NEW r \in Row PROVE RenewedRow(r) \in Row
  BY FieldTypes DEF RenewedRow, Row

LEMMA AgedType ==
    ASSUME NEW r \in Row PROVE AgedRow(r) \in Row
  BY AgedLease DEF AgedRow, Row

=============================================================================
