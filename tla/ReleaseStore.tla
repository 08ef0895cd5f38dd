---------------------------- MODULE ReleaseStore ----------------------------
(***************************************************************************)
(* The tables behind a release and the SQL transactions on them            *)
(* (internal/repository/release.go and deploy.go).  Every operator in the  *)
(* "Transactions" part is one database transaction or one autocommitted    *)
(* statement: it is atomic, its WHERE clause is its guard, and it says     *)
(* nothing of who runs it.  DeployWorker and ReleaseService call them,     *)
(* ReleaseSystem composes the two.                                         *)
(*                                                                         *)
(* A Release identifier stands for one fixed request: its deployment       *)
(* target, and through it its service and environment, are constants.  The *)
(* deploy record of a release is keyed by the release, as the unique index *)
(* on deploy_records.release_request_id makes it.  A Ref stands for a pair *)
(* (target_type, target_ref_id): a server, a Kubernetes deployment or a    *)
(* mock target; Refs are numbers in the order of server_id, the order in   *)
(* which a snapshot lists them.                                            *)
(***************************************************************************)
EXTENDS Naturals, FiniteSets

CONSTANTS
  Release,        \* identifiers of release requests
  Target,         \* deployment targets
  Ref,            \* execution targets: servers, k8s deployments, mocks
  Environment,
  Service,
  TargetOf,       \* the deployment target of each release
  EnvironmentOf,  \* the environment of each deployment target
  ServiceOf,      \* the service of each deployment target
  Memberships,    \* the sets of Refs a target may expand to when it is read
  Audited,        \* the event types an instance keeps track of
  NoRelease       \* the value of a reference to no release

EventType ==
  {"release_created", "release_confirmed", "release_rejected", "release_cancelled",
   "deploy_started", "target_finished", "deploy_finished"}

ASSUME StoreAssumption ==
  /\ Ref \subseteq Nat
  /\ TargetOf \in [Release -> Target]
  /\ EnvironmentOf \in [Target -> Environment]
  /\ ServiceOf \in [Target -> Service]
  /\ Memberships \in [Target -> SUBSET SUBSET Ref]
  /\ \A t \in Target : \A refs \in Memberships[t] : IsFiniteSet(refs)
  /\ Audited \subseteq EventType
  /\ NoRelease \notin Release

VARIABLES
  release,    \* release_requests.status, "none" before the insert
  record,     \* deploy_records.status, "none" when there is no record
  createdAt,  \* deploy_records.created_at, 0 when there is no record
  now,        \* the last timestamp given to a record
  logs,       \* deploy_target_logs.status; "none": not in the snapshot
  lease,      \* deploy_records.lease_expires_at against the clock
  state,      \* deployment_states: the release whose record wrote the row
  frozen,     \* environments.release_frozen
  events      \* the audited event types release_events holds for the release

tables == <<release, record, createdAt, now, logs, lease, state>>
storeVars == <<release, record, createdAt, now, logs, lease, state, frozen, events>>

ReleaseStatus ==
  {"none", "pending_confirm", "rejected", "cancelled", "queued", "running", "success", "failed"}
RecordStatus ==
  {"none", "queued", "cancelled", "running", "success", "partial", "failed"}
LogStatus == {"none", "queued", "running", "success", "failed", "skipped"}
LeaseStatus == {"none", "live", "expired"}

\* Statuses from which a release, or a deploy record, has nowhere to go.
Closed == {"rejected", "cancelled", "success", "failed"}
Executed == {"success", "partial", "failed"}

\* Type invariant of the tables: every column holds one of the values the
\* code writes into it.
StoreTypeOK ==
  /\ release \in [Release -> ReleaseStatus]
  /\ record \in [Release -> RecordStatus]
  /\ createdAt \in [Release -> Nat]
  /\ now \in Nat
  /\ logs \in [Release -> [Ref -> LogStatus]]
  /\ lease \in [Release -> LeaseStatus]
  /\ state \in [Target -> [Ref -> Release \cup {NoRelease}]]
  /\ frozen \in [Environment -> BOOLEAN]
  /\ events \in [Release -> SUBSET EventType]

\* An empty installation: no release yet, nothing deployed, nothing frozen.
StoreInit ==
  /\ release = [r \in Release |-> "none"]
  /\ record = [r \in Release |-> "none"]
  /\ createdAt = [r \in Release |-> 0]
  /\ now = 0
  /\ logs = [r \in Release |-> [ref \in Ref |-> "none"]]
  /\ lease = [r \in Release |-> "none"]
  /\ state = [t \in Target |-> [ref \in Ref |-> NoRelease]]
  /\ frozen = [e \in Environment |-> FALSE]
  /\ events = [r \in Release |-> {}]

-----------------------------------------------------------------------------
(* Queries.                                                                *)

Snapshot(r) == {ref \in Ref : logs[r][ref] # "none"}

SameServiceAndEnvironment(q, r) ==
  /\ ServiceOf[TargetOf[q]] = ServiceOf[TargetOf[r]]
  /\ EnvironmentOf[TargetOf[q]] = EnvironmentOf[TargetOf[r]]

\* CountRunningReleases > 0, for the service and the environment of r.
RunningConflict(r) ==
  \E q \in Release : SameServiceAndEnvironment(q, r) /\ release[q] = "running"

\* Mutant: a running release holds only the target it is working on.
Holds_OnlyRunning(q, ref) == record[q] = "running" /\ logs[q][ref] = "running"

\* Mutant: a record that has not run yet already occupies its targets.
Holds_AnyRecord(q, ref) == logs[q][ref] \in {"queued", "running"}

\* Record q is running and has not finished with ref.
Holds(q, ref) ==
  /\ record[q] = "running"
  /\ logs[q][ref] \in {"queued", "running"}

\* The rows ClaimNextDeploy selects from: queued on both sides, environment
\* not frozen, and no target still held by a running record.
Claimable(r) ==
  /\ record[r] = "queued"
  /\ release[r] = "queued"
  /\ ~ \E q \in Release : \E ref \in Snapshot(r) : Holds(q, ref)
  /\ ~frozen[EnvironmentOf[TargetOf[r]]]

\* Mutant: the selection has lost its ORDER BY.
NextToClaim_AnyOrder(r) == Claimable(r)

\* ORDER BY created_at LIMIT 1.
NextToClaim(r) ==
  /\ Claimable(r)
  /\ \A q \in Release : Claimable(q) => createdAt[r] <= createdAt[q]

Expired == {r \in Release : record[r] = "running" /\ lease[r] = "expired"}

\* Mutant: one target that worked makes the whole deploy a success.
Outcome_Optimistic(r) ==
  IF \E ref \in Ref : logs[r][ref] = "success" THEN "success" ELSE "failed"

\* aggregateDeployStatus over the counts of the logs of r.
Outcome(r) ==
  LET Some(S) == \E ref \in Ref : logs[r][ref] \in S
  IN  IF ~Some({"failed", "skipped"}) THEN "success"
      ELSE IF Some({"success"}) THEN "partial"
      ELSE "failed"

\* The status a release gets from the outcome of its record.
Summary(outcome) == IF outcome = "partial" THEN "failed" ELSE outcome

-----------------------------------------------------------------------------
(* Transactions of the API.                                                *)

CreateReleaseRequest(r) ==
  /\ release[r] = "none"
  /\ release' = [release EXCEPT ![r] = "pending_confirm"]
  /\ UNCHANGED <<record, createdAt, now, logs, lease, state>>

\* Mutant: the update lost its WHERE status = 'pending_confirm'.
QueueGuard_Unconditional(r) == release[r] # "none" /\ record[r] = "none"

\* The update of release_requests must have affected one row.
QueueGuard(r) == release[r] = "pending_confirm"

\* ConfirmAndQueueRelease: the release is queued, its record is created with
\* the targets found in this transaction, and one log per target.
ConfirmAndQueueRelease(r, refs) ==
  /\ refs # {}
  /\ QueueGuard(r)
  /\ release' = [release EXCEPT ![r] = "queued"]
  /\ record' = [record EXCEPT ![r] = "queued"]
  /\ now' = now + 1
  /\ createdAt' = [createdAt EXCEPT ![r] = now + 1]
  /\ logs' = [logs EXCEPT ![r] =
                 [ref \in Ref |-> IF ref \in refs THEN "queued" ELSE "none"]]
  /\ UNCHANGED <<lease, state>>

\* RejectRelease: a conditional update; matching no row is not an error.
RejectRelease(r) ==
  /\ release' = [release EXCEPT ![r] = IF @ = "pending_confirm" THEN "rejected" ELSE @]
  /\ UNCHANGED <<record, createdAt, now, logs, lease, state>>

\* Mutant: a running release can be cancelled too.
CancelRelease_EvenRunning(r) ==
  /\ release' = [release EXCEPT ![r] =
                   IF @ \in {"pending_confirm", "queued", "running"} THEN "cancelled" ELSE @]
  /\ record' = [record EXCEPT ![r] = IF @ \in {"queued", "running"} THEN "cancelled" ELSE @]
  /\ UNCHANGED <<createdAt, now, logs, lease, state>>

\* CancelRelease: the record is cancelled only together with the release; the
\* target logs keep their status.
CancelRelease(r) ==
  /\ release' = [release EXCEPT ![r] =
                   IF @ \in {"pending_confirm", "queued"} THEN "cancelled" ELSE @]
  /\ record' = [record EXCEPT ![r] =
                   IF @ = "queued" /\ release[r] \in {"pending_confirm", "queued"}
                   THEN "cancelled" ELSE @]
  /\ UNCHANGED <<createdAt, now, logs, lease, state>>

\* CreateReleaseEvent, for each release of S.  Its callers ignore its error, so
\* any of the inserts may be missing; an instance follows the types in Audited
\* only.
CreateReleaseEvent(S, type) ==
  \E written \in SUBSET S :
    events' = [r \in Release |->
                 IF r \in written THEN events[r] \cup ({type} \cap Audited) ELSE events[r]]

-----------------------------------------------------------------------------
(* Transactions of the worker.                                             *)

\* Mutant: the claim forgets lease_expires_at, which stays NULL.
ClaimDeploy_NoLease(r) ==
  /\ NextToClaim(r)
  /\ record' = [record EXCEPT ![r] = "running"]
  /\ release' = [release EXCEPT ![r] = "running"]
  /\ UNCHANGED <<createdAt, now, logs, lease, state>>

\* Mutant: the claim updates the record only.
ClaimDeploy_RecordOnly(r) ==
  /\ NextToClaim(r)
  /\ record' = [record EXCEPT ![r] = "running"]
  /\ lease' = [lease EXCEPT ![r] = "live"]
  /\ UNCHANGED <<release, createdAt, now, logs, state>>

\* The transaction of ClaimNextDeploy.
ClaimDeploy(r) ==
  /\ NextToClaim(r)
  /\ record' = [record EXCEPT ![r] = "running"]
  /\ release' = [release EXCEPT ![r] = "running"]
  /\ lease' = [lease EXCEPT ![r] = "live"]
  /\ UNCHANGED <<createdAt, now, logs, state>>

\* HeartbeatDeploy, when its update affects the row.
HeartbeatDeploy(r) ==
  /\ record[r] = "running"
  /\ lease' = [lease EXCEPT ![r] = "live"]
  /\ UNCHANGED <<release, record, createdAt, now, logs, state>>

\* The logs the recovery fails: those of targets with no result.
Abandoned(status) == status \in {"queued", "running"}

\* RecoverExpiredDeploys: every running record past its lease is failed, with
\* the logs that have no result and with the release.
RecoverExpiredDeploys ==
  /\ record' = [r \in Release |-> IF r \in Expired THEN "failed" ELSE record[r]]
  /\ release' = [r \in Release |->
                   IF r \in Expired /\ release[r] = "running" THEN "failed" ELSE release[r]]
  /\ logs' = [r \in Release |-> [ref \in Ref |->
                IF r \in Expired /\ Abandoned(logs[r][ref]) THEN "failed" ELSE logs[r][ref]]]
  /\ UNCHANGED <<createdAt, now, lease, state>>

MarkTargetRunning(r, ref) ==
  /\ logs[r][ref] = "queued"
  /\ logs' = [logs EXCEPT ![r][ref] = "running"]
  /\ UNCHANGED <<release, record, createdAt, now, lease, state>>

\* The update has no condition on the status: any log of the record that
\* exists takes the result.
MarkTargetFinished(r, ref, result) ==
  /\ logs' = [logs EXCEPT ![r][ref] = IF @ = "none" THEN @ ELSE result]
  /\ UNCHANGED <<release, record, createdAt, now, lease, state>>

\* Mutant: every log of the record is overwritten.
Skippable_Any(status) == status # "none"

Skippable(status) == status \in {"queued", "running"}

MarkQueuedTargetsSkipped(r) ==
  /\ logs' = [logs EXCEPT ![r] =
                 [ref \in Ref |-> IF Skippable(@[ref]) THEN "skipped" ELSE @[ref]]]
  /\ UNCHANGED <<release, record, createdAt, now, lease, state>>

\* Mutant: deployment_states is written for complete successes only.
DeployedRefs_OnlyIfAll(r) == IF Outcome(r) = "success" THEN Snapshot(r) ELSE {}

\* The targets whose deployment_states row FinishDeploy replaces.
DeployedRefs(r) == {ref \in Ref : logs[r][ref] = "success"}

\* FinishDeploy: no condition on the status of the record or on its worker.
FinishDeploy(r) ==
  /\ record' = [record EXCEPT ![r] = Outcome(r)]
  /\ release' = [release EXCEPT ![r] = Summary(Outcome(r))]
  /\ lease' = [lease EXCEPT ![r] = "none"]
  /\ state' = [state EXCEPT ![TargetOf[r]] =
                 [ref \in Ref |-> IF ref \in DeployedRefs(r) THEN r ELSE @[ref]]]
  /\ UNCHANGED <<createdAt, now, logs>>

-----------------------------------------------------------------------------
(* A step of nobody's code: the clock.                                     *)

LeaseExpires(r) ==
  /\ record[r] = "running"
  /\ lease[r] = "live"
  /\ lease' = [lease EXCEPT ![r] = "expired"]
  /\ UNCHANGED <<release, record, createdAt, now, logs, state, frozen, events>>
=============================================================================
