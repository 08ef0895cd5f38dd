# AI Pub: verification project

AI Pub (`src/`) is a release server: people, CI jobs and AI agents ask for a
version of a service to be deployed to an environment, somebody confirms, and a
built-in worker executes the deploy on servers over SSH, on a Kubernetes
deployment, or on a mock. The server is one Go process over SQLite or MySQL.
This directory holds TLA+ modules of its behaviour, TLC configurations that
check them, and theorems that TLAPS checks.

## 1. The system

| Component | Source | State | Operations | Module |
|---|---|---|---|---|
| Release tables | `internal/repository/release.go`, `deploy.go` | `release_requests`, `deploy_records`, `deploy_target_logs`, `deployment_states`, `release_events` | one SQL transaction each: insert, confirm-and-queue, reject, cancel, claim, heartbeat, recover, target running / finished / skipped, finish | `ReleaseStore` |
| Deploy worker | `internal/worker/worker.go` | its position in `RunOnce`, the claimed deploy, the heartbeat goroutine and its channel | recover, claim, execute targets in order, stop at the first failure, finish; heartbeat every minute | `DeployWorker` |
| Release handlers | `internal/app/release.go`, `internal/httpapi/release.go` | nothing but the request in flight | create, confirm, reject, cancel: reads and transactions in sequence, without a lock | `ReleaseService` |
| Composition | `cmd/server/main.go` | | one worker loop ticking every 2 s, an HTTP server with any number of requests | `ReleaseSystem` |
| Idempotent create, rollback, retry | `internal/app/release.go` | `idempotency_key`, `rollback_of_id` | create with a key, rollback to a candidate, retry | `ReleaseCreation`, abstractly `IdempotentKeys` |
| Preflight | `internal/app/release.go`, `internal/executor/k8s.go` | none | freeze, running conflict, digest, Kubernetes target; version, target, variables | the first two in `ReleaseService`, the next two in `K8sRollout` |
| Kubernetes executor | `internal/executor/k8s.go` | one execution; remotely a Deployment | check, patch an image, poll the rollout until its deadline | `K8sRollout` |
| Infrastructure | `internal/repository/repository.go`, `k8s.go`, `credential.go`, `internal/app/credential.go`, `internal/httpapi/inventory.go` | credentials, servers and gateways, clusters, deployment targets | create and patch after checks; delete after counts | `Infrastructure` |
| Migrations and start-up | `internal/migration/runner.go`, `cmd/server/main.go` | `schema_migrations`, the schema, the first administrator | apply statement by statement, verify checksums, create the administrator, serve | `Startup` |
| Version registration | `internal/app/version_registration.go` | `service_versions`, `service_version_events` | register by CI with a key, register by hand | `VersionRegistration` |
| Users and sessions | `internal/httpapi/inventory.go`, `auth.go`, `session.go` | `users`, signed tokens | login, create, patch, delete, reset; protection and count of administrators | `UserAdmin` |
| Environments | `internal/httpapi/inventory.go` | `environments` | patch as read-modify-write | `is_production` and the freeze, in `ReleaseService` |
| API keys, server groups, projects, services | `internal/httpapi/inventory.go` | a table each | create, patch, delete | not modelled |
| Notifications | `internal/app/notification.go` | configurations, deliveries | send, then record | not modelled |
| SSH and mock executors | `internal/executor/executor.go` | remote | one command, its exit status | an answer in `DeployWorker` |
| Lists, agent documents, web UI, configuration, encryption | rest | none of their own | | not modelled |

The parts interact through the tables only. A handler runs in the goroutine of
its request, the worker in its own, the heartbeat in a third; none of them
holds a lock across two statements, so everything they read can be stale when
they write. The SQL statements carry the guards (`WHERE status = ...`), and
what makes the system right is that these guards are enough. Where there is no
guard in the statement, as in most of the inventory, only what a foreign key or
a unique index enforces survives requests that cross.

Hard behaviours: a claim racing a cancellation; two confirmations; a freeze
between the preflight and the confirmation; an environment that is made one of
production, or a user who loses a role, while a confirmation is on its way;
groups that overlap and are edited; a crash after a claim, after a target,
before the finish, or between the finish and its event; a heartbeat that fails
while the executor is busy; the recovery of a deploy whose worker is gone; two
worker loops when a process outlives its replacement; two calls with the same
idempotency key; a rollback that stops before it is linked; two registrations of
one version; two administrators who remove each other; a credential, a gateway
or a cluster that changes under a request that names it; a rollout whose status
is read while the controller, or another target of the same Deployment, changes
it; a migration that stops between two statements, and two starts that apply it
together. `PROJECT.json` lists them one by one with their lines, under
"hazards", with the properties that would catch each.

What makes each part correct:

- the tables: a release's status is the summary of its record's, an executed
  record has a result for every target, `deployment_states` only shows what a
  successful log backs, results and final statuses are never overwritten;
- the worker: it holds what it claimed until it ends it, targets are exclusive,
  a running deploy ends and a queued one moves whatever crashes;
- the handlers: nobody but those whom the environment names brings a release
  into the queue, also while environments and users are patched, what was
  withdrawn never runs, and the events do not claim what did not happen;
- creation: one release per key, an answer is what was asked for, and a rollback
  without a version goes back to the last other one;
- registration: one version per number and per key, and conflicts have a reason;
- users: there is always an administrator, and a revoked session stays revoked;
- infrastructure: what a target or a server names is there, and a gateway with
  servers behind it is one, when it is needed;
- the Kubernetes executor: success means that this image runs on all replicas,
  what the preflight saw is not reported missing, and every execution ends;
- start-up: what is recorded as migrated is complete, what is not left no trace
  (on SQLite), and nobody serves on a schema other than its own.

## 2. Modules

| Module | Stands for | State | Actions |
|---|---|---|---|
| `ReleaseStore` | the SQL of `repository/release.go` and `deploy.go` | one function of releases per table (`release`, `record`, `logs`, `state`, `frozen`, `events`), with the lease and the order of the records beside them (`lease`, `createdAt`, `now`) | one operator per transaction, `ClaimDeploy`, `RecoverExpiredDeploys`, `FinishDeploy`, ... |
| `DeployWorker` | `worker.go` | the loop's place in `RunOnce` (`pc`), the deploy and targets it works on, the heartbeat; `applied`, which is not in the code: what a server really runs | one action per statement that touches a table or a server; `LoseHeartbeat` and `Abandon` for the goroutine, errors and crashes |
| `ReleaseService` | `Create`, `Confirm`, `Reject`, `Cancel`, and what `patchEnvironment` and `patchUser` do to the rows that `Confirm` reads | the step of each request in flight; `production` (`is_production`), `standing` (role and enabled of a user). `met` is history: what was so while a `Confirm` ran | one action per read or transaction, `GiveUp` for every early return; `PatchEnvironment`, `PatchUser` |
| `ReleaseSystem` | the process | | interleaving of the three and the lease clock; the properties |
| `ReleaseLifecycle` | abstract: the documented status machine, with exclusive targets | `status`, `held` | one action per arrow of the lifecycle |
| `ReleaseInvariant` | the inductive invariant, and what it says of several loops | | |
| `ReleaseCreation` | `Create`, `CreateRollback`, `Retry` and their SQL | `release_requests` with key, link and status, the order of `updated_at`, `release_events`; the requests in flight. `later` is history: which release was deployed after which | lookup, replay, conflict, insert, refused insert, events, link |
| `IdempotentKeys` | abstract: what a key promises | the binding of each key, the last answer of each client | bind, reply, call again |
| `VersionRegistration` | `RegisterVersion`, `createServiceVersion` and their SQL | `service_versions`, `service_version_events`, the requests in flight | lookups, insert, refused insert, event; implements `IdempotentKeys` with the number of a service for the key |
| `UserAdmin` | `login`, `createSessionUser`, `patchUser`, `deleteUser`, `resetUserPassword` | `users`, the tokens issued, the requests in flight. `overtaken` is history: the requests in flight since whose first read another one changed the users | begin, check and write of each handler |
| `Infrastructure` | create, patch and delete of credentials, servers, clusters and targets, with `validateServerGateway` and the other checks | a function of ids per table (`None`, a row or `Gone`); the requests in flight with the row they will write. `crossed` and `overtaken` are history: rows whose credential was deleted while they were written, requests since whose check of a gateway another server was written | `Ask...`: the checks; `CheckGateway`; `Write...`: the statement; one action for each deletion, which is one transaction |
| `K8sRollout` | the Kubernetes checks of the preflight, and `Execute` | the Deployment: template, what its controller has seen, rolled out and reported; what is missing; the stage of each target's release. `live`, `disturbed`, `overwritten` are history | one action per request to the cluster; `Timeout`, `RequestFails`, `Lose`; externally `Observe` and `Progress` of the controller, `Overwrite` and `Reconfigure` of other hands |
| `Startup` | `Runner.Run` and `apply`, `ensureBootstrapAdmin`, `main` | `schema_migrations`, the statements whose effect is committed, SQLite's write lock, the administrator; the place of each process | one action per statement; `Stop` anywhere |
| `SchemaHistory` | abstract: what the runner of migrations promises | the content applied as each version, the schema | apply the next version; where scripts are not transactions, a statement ahead of it |
| `XProofs` of `ReleaseSystem`, `ReleaseCreation`, `VersionRegistration`, `UserAdmin`, `Infrastructure`, `K8sRollout`, `Startup` | the theorems about X | | |
| `ReleaseOutcomeProofs` | the theorems about what a release comes to, on top of `ReleaseSystemProofs` | | |
| `MCX` of the same | instances for TLC; `MCOverlap` is a second one of `ReleaseSystem` | `slice` in four of them, below | |

Conventions. An action carries the name of the function it stands for. A read
that a later statement depends on is an action of its own and its result a
variable of the request, so that it can be stale. A check that fails, a database
error and the end of the process all leave a handler in the same place, and are
one action, `GiveUp` or `Abandon`. Definitions named `X_Y`, with the
comment *Mutant*, are deliberate mistakes: each is a plausible bug in `X`, and
replacing `X` by it makes a property fail. An event type is kept only if it is in
the constant `Audited`, so that an instance does not pay for events no property
of it reads.

How the modules meet. `ReleaseSystem` composes the first three. It leaves a
release's key and rollback link to `ReleaseCreation`, which in turn ends a
release in one step, `Conclude`; the two meet in the insert,
`CreateReleaseRequest`, which is in both with the columns each needs.
`K8sRollout` is the inside of `DeployWorker`'s `Execute` for a Kubernetes target:
what `ReleaseSystem` proves of targets (`TargetExclusive`, one execution per
target at a time) is why a container has one stage here, and what `K8sRollout`
checks of an execution (it answers, and truthfully) is what `Execute` takes an
executor to do. `Infrastructure` explains what can be missing there: it keeps
the rows a target names, and leaves to `Reconfigure` that a cluster is disabled
or its credential lost. `Startup` ends where the others begin.

## 3. Model checking

Each run takes from a few seconds to three minutes on two cores.

| Run | Instance | States | What it shows |
|---|---|---|---|
| `pipeline` | 2 releases to one group of 2 servers, 1 worker, 1 request | 126 000 | `WorkerOwnsDeploy`, `StateReflectsTarget`, `NewestConfirmedWins`, final statuses and results (`TerminalIsFinal`, `LogsOnlyAdvance`), and under `FairSpec` `RunningEnds` and `QueuedLeaves` |
| `overlap` | 2 releases to targets that share a server, edited groups, 2 environments, 2 users and an API key; either the worker runs, or one environment and both users are patched | 1 127 000 | `TargetExclusive`, the refinement of `ReleaseLifecycle`, and `ConfirmedByAuthority` |
| `races` | 1 release, 2 requests, 2 workers, five kinds of events | 1 157 000 | the inductive invariant of the proofs, `ReleaseInv`, with two loops; `AuditTruthful` and `OutcomesLast` under races on one row, and `DeploysRunOut`: each step of a loop brings its deploy nearer to its end |
| `creation` | 1 key; either 2 releases with 2 targets of one line, 2 versions and all endings, or 3 releases with 3 versions and rollbacks that name none, or 2 requests of 2 creators that cross, or 2 of one creator whose releases fail | 378 000 | the invariant of the proofs (`CreationInv`: one release per key, right answers), the refinement of `IdempotentKeys`, what a rollback chooses (`RecommendedIsTheLast`), links and events of rollbacks and retries |
| `registration` | 2 numbers, 2 contents, 2 keys, 2 requests | 45 000 | unique numbers and keys, conflicts with a reason, and the refinement of `IdempotentKeys` by the numbers |
| `users` | 2 requests; either a protected administrator and a user created later, versions up to 3, or an administrator and a user whom nothing protects, versions up to 2 | 958 000 | `UserInv`; `LastAdminStays`: the last administrator goes only to a request that was overtaken; revocation is final and follows every change |
| `infrastructure` | either 3 servers and 2 requests; or a target, a cluster, 2 credentials and 2 requests; or servers and a key that is deleted, 2 of them or 2 requests for one | 644 000 | `InfrastructureInv`, `CredentialLostInFlight`, `TargetIsDeployable`, `GatewayLostInFlight` |
| `rollout` | 1 Deployment of 2 containers, one of them also set by other hands, a digest and a tag, one thing missing at a time | 412 000 | `RolloutInv`, `SuccessMeansRolledOut`, `PreflightPredicts`, and under its fairness `ExecutionAnswers` |
| `startup` | both dialects; an old, a new and an edited build, a check and a start without migrations, all at once | 140 000 | `StartupInv`, `RecordedIsDone`, `NothingHalfDone`, `ServesItsSchema`, and the refinement of `SchemaHistory` |
| `one_running` | 2 releases of one service and environment, 3 servers | | disagreement 1 |
| `reject_audit` | 1 release, 2 requests | | disagreement 2 |
| `stale_rollout` | 2 containers of one Deployment | | disagreement 3 |

Why these bounds are enough to be interesting. Two releases are what it takes
for a queue with an order, for two claims that overlap, for a recovered deploy
with another one behind it, and for an older result over a newer one; the guards
of the SQL compare a release with *some* other one, never with two. Three are
what it takes for a rollback to choose: the one taken back and two to choose
from. Two servers give the first failure that skips the second, and partial
results; they also make a gateway with a server behind it; a third server lets that
gateway go behind another. Two requests give every crossing of one read with one
write. Two workers are one more than the design has. Three session versions are
two revocations, enough for a token that is old twice. Two containers are two
targets that patch one object. Three migrations are one before, one at and one
after the point where two builds differ. Bounds stated in guards: `createdAt`
counts confirmations, of which there is one per release; `MaxVersion` in
`UserAdmin`, and `PlainVersion` in its instance; there are no others.

Four instances are explored in slices: a behaviour is in one of several parts
of the instance, fixed when it begins, and the run has all of them.

- In `MCInfrastructure` servers and targets have no column in common, so nothing
  they do together is lost except a credential that both use, which their checks
  read alone. Gateways and credentials are columns of one row, but no check looks
  at both: two servers, two requests and a credential all at once are in the
  proofs only.
- In `MCReleaseCreation` the order of deploys decides what one request chooses, and
  two requests decide what a key is bound to; the slices with both clients have
  one version and one target, and either both creators or releases that fail and
  are retried. Two rollbacks to the recommended version that cross are in the
  proofs only.
- In `MCOverlap` the worker looks at no user and at no `is_production`, so that it
  stands still where these change takes nothing from the confirmation, which
  reads them; running releases, which its preflight reads, are in the other slice.
- In `MCUserAdmin` a user named admin is there or is not: with one, it is the others
  who come and go; without, the count alone stands before the last administrator.

The proofs know no slices.

Fairness. In `ReleaseSystem`, for `FairSpec` only: weak fairness of each worker's
`Progress`, since `RunLoop` never returns, its ticker calls `RunOnce` every two
seconds, a server that stops is started again, and a database or an executor
answers in the end; and of `LeaseExpires` for a running deploy that no loop
holds: time passes. Nobody is obliged to call the API, to freeze, to fail or to
lose a heartbeat. `QueuedLeaves` excludes an environment that is frozen, since the
claim waits for the thaw on purpose. In `K8sRollout`: weak fairness of `Work`, a
request that can be answered is, and of `Timeout`, since the context of `Execute`
carries the deadline of `timeout_seconds` through every request and every wait.
The controller is not obliged to do anything, so `ExecutionAnswers` does not
rest on a rollout that ends. What the worker assumes of an executor, that it
answers, is thereby shown of this one.

Deadlock is checked everywhere but in `users`: a system in which no request is
possible and the worker cannot tick would be reported. Users whom nothing
protects can all be deleted, after which nobody can log in; that is where
`LastAdminStays` says how it comes to it.

## 4. Proofs

TLAPS checks these for all values of the constants, under the assumptions the
modules name (`StoreAssumption`, `ServiceAssumption`, `CreationAssumption`,
`RegistrationAssumption`, `NumberAssumption`, `RowAssumption`, `BindingAssumption`,
`UserAssumption`,
`InfrastructureAssumption`, `RolloutAssumption`, `StartupAssumption`: the null
values are not ids or rows, the constants have their types, a program's files
are not more than the versions there are, and a group has finitely many members).

**Pipeline** (`ReleaseSystemProofs`). `StatusCoupling`, `TargetExclusive`,
`ExecutedIsSettled`, `SuccessMeansAll` and `StateBacked` are theorems for any
number of worker loops. None is inductive: `FinishDeploy` writes a result
without looking at the row, so what it finds there follows from what the loop
did before. `PipelineInv` adds `DeployInv`: what a loop executes is running or
has been failed behind its back (`ExecutesClaimed`), no two loops execute the
same deploy (`ClaimedOnce`), a queued record's logs are untouched
(`QueuedIsUntouched`), and every unfinished log of a deploy is still on its
loop's list (`TodoCoversLogs`). Each step lemma (`TypeStep`, `CouplingStep`,
`ExclusiveStep`, `DeployStep`, `ResultStep`) goes through the actions of `Next`.
`WorkerOwnsDeploy`, `TerminalIsFinal` and the refinement `ImplementsLifecycle`
need one loop, the documented deployment (`docs/project-requirements.md:673`), and
are proved under that hypothesis: with two, a recovery by one loop ends what
the other still executes, and its `FinishDeploy` then overwrites a failed record.

**Outcomes** (`ReleaseOutcomeProofs`). With any number of loops, `ReleaseHolds`
extends `PipelineInv` to what several loops leave each other. A running record
has a lease, live or run out (`RunningIsLeased`): nothing can be running where no
recovery looks, also when the loop that claimed it is gone. The row of a
target that a finished deploy has done is never taken away
(`FinishedAreRecorded`). No step of `RunOnce` is stuck (`LoopsGoOn`): among the
deploys that can be claimed one is first, and a loop in the middle of its list
is at a target. For the claim the argument is the least of a set of numbers
(`LeastNatural`), for the list that it is finite (`TodoFits`), which rests on
groups having finitely many members. `OutcomesLast` says what a record may
become whoever writes it. It is weaker than `TerminalIsFinal`, and must be: with
two loops, `FinishDeploy` of a loop that was given up for dead turns the
recovery's `failed` into its own result, the only arrow out of an ended record.
`DeploysRunOut` gives a loop with a deploy a rank, four steps for each target on
its list and at most four for where it is (`Rank`): its own steps lower it, and no
step of anybody else raises it.

Also for any number of loops, `ConfirmedByAuthority`: who queues a release was
entitled to it by a mode of its environment and a standing of their own that
were so while the request ran. `met` collects both from the request's first read
to its transaction, whatever is patched meanwhile. `AuthorityInv` says that
everything that is so now has been met by all who are on their way, so what a
request reads it has met; that the mode it keeps has been met; and that one
behind the check has met what entitles it. The check reads a user now, under a
mode read before, and neither is read again: that the two held at one moment, or
still hold at the transaction, is not so, and is not claimed (section 5).

`AuditTruthful`, too, with any number of loops. An event is written after the
transaction it is about, so what it says must still be true when it is late:
`AuditKnown` is what each loop (`WorkerKnows`) and each request (`ClientKnows`)
has learnt from its transaction, `Lasting` that all of it stays true whoever
acts, and `EventSource` that nobody else writes events. With one loop:

- `LogsOnlyAdvance`: the target that is executed is marked as running
  (`MarkedRunning`) until the loop itself writes the result;
- `StateReflectsTarget`: the targets that run what the loop deploys are exactly
  those with a successful log, up to the one whose result is not written yet
  (`AppliedFits`), so `FinishDeploy` writes a row for each of them and for no other;
- `NewestConfirmedWins`: claims of the same targets follow the confirmations
  (`InOrder`), because whatever lets the later record be claimed, the thaw of its
  environment or free targets, lets the earlier one be claimed too
  (`ClaimInOrder`), and it is first in `ORDER BY created_at`.

**Creation** (`ReleaseCreationProofs`). `CreationInv` is the types, what a request
past the choice of its version has resolved, `OneReleasePerKey` and
`AnswerIsWhatWasAsked`; the last needs the third, since an answer found by its
key stays right only if no other release takes the key.
`CreationImplementsKeys`: an insert with a key is `Bind`, the step to the answer
is `Reply`, a new call is `CallAgain`, everything else stutters. `HistoryInv` adds
what rows and requests remember: the original that a request found is a release
of its own target, and for a retry a failed one with its version (`CallFits`);
a step takes neither an ending nor a link away (`HistoryKept`). From it follow
the links and the audited rollbacks and retries. `RecommendedIsTheLast` follows
from `OrderInv`: a release deployed before another (`later`) also has the older
`updated_at` of the two. Whatever writes the column of a release that has ended
would break it: the link of a rollback does (`LinkOrders`), when the key had
given the request a release that had run, and such a release counts as
deployed then.

**Registration** (`VersionRegistrationProofs`). `RegistrationInv` is the types, the
three properties, and two facts they lean on: `RowsFit`, a row from CI carries the
fingerprint of its own number and content and one entered by hand carries neither
fingerprint nor key, so equal fingerprints mean equal content; and `CallsFit`,
a request on its way has a call, and only one with a key looks a key up. The
lookups play no part in `NumbersAndKeysAreUnique`: the insert's guard, the two
unique indexes, suffices. `RegistrationImplementsNumbers` is the refinement of
`IdempotentKeys`: a number is bound by the insert, once (`InsertShows`); an
answer shows the binding whichever lookup found it, since `RowsFit` makes equal
fingerprints mean equal content; the two ways in, CI and hand, are clients of
one promise.

**Users** (`UserAdminProofs`). `UserInv` says that a request in flight carries a
write that respects the protection, that protected users are administrators,
that tokens are not newer than their user's version, and that a request which
was not overtaken still knows the users (`ReadsHold`). From the protection
follows `AlwaysAnAdmin`, where there is a protected user. Without one there is
`LastAdminStays`: a step takes one administrator away at most
(`OneAdminAtATime`), and a request that does, and was not overtaken, has counted
another who is still there. Revocation follows from the age of tokens, and from
the version that every write raises.

**Infrastructure** (`InfrastructureProofs`). `InfrastructureInv` is the types,
three properties (the third: no server that is a gateway has one) and what a
request behind its checks still knows: the type of the credential its row names,
which no request can change; that a row with a gateway is an application
server's and names a server that is not itself, and servers are not deleted;
that a target's row has the parts its executor needs. What it knew of a row that
may be deleted, it does not know any more: for a cluster the foreign key makes
up for that in the guard of the write, for a credential nothing does, and
`crossed` says exactly when. What it knew of a gateway holds until another
server is written (`GatewaysHold`), and `overtaken` says when that was.
`GatewayLostInFlight` is `WriteHolds`: a write whose check is still good, and which
does not put a used gateway behind another, keeps every gateway.

**Kubernetes** (`K8sRolloutProofs`). `RolloutInv`: the status that has been seen is
that of the template (`StatusIsOfTemplate`), an execution that waits has its
image in the template unless another hand took it out (`WaitsForItsImage`), and
what a stage has behind it is still there unless something went missing
(`FoundStaysFound`). `SuccessIsRolledOut` and `PreflightIsReliable` are the two
action properties, each from one of these.

**Start-up** (`StartupProofs`). `StartupInv` adds to the three properties where a
migration is in its file (`AppliesItsFile`; on MySQL also that what it executed is
committed, on SQLite that it alone holds the lock) and that the versions behind
a process are applied with its checksums (`KnowsWhatIsApplied`). The proof does
not need that one process applies a version: the primary key of
`schema_migrations` decides between two. `MigrationsImplementHistory` is the
refinement of `SchemaHistory`: the commit of a version on SQLite and the insert
of its row on MySQL are `Apply`, a statement on MySQL is `RunAhead`, and the rest
stutters. It needs, beside `StartupInv`, that only a start in mode `auto` applies
anything (`AppliesByMode`).

Model-checked only: liveness, `RunningEnds`, `QueuedLeaves` and `ExecutionAnswers`;
its proofs need `ENABLED`, which the prover does not have. What they rest on is
proved as far as it is safety: that a running record has a lease to run out
(`RunningIsLeased`), that a loop always has a step (`LoopsGoOn`), and that its
steps run out (`DeploysRunOut`). Every safety property that a run checks is a
theorem.

## 5. Disagreements with the documents

Found while modelling, each with a run that TLC ends with a counterexample:

1. `one_running`: two releases of one service and environment on disjoint
   servers run together; the claim looks at servers only
   (`docs/project-requirements.md:532`).
2. `reject_audit`: rejecting a release that is no longer pending changes nothing
   and writes `release_rejected` (`internal/app/release.go:443`).
3. `stale_rollout`: `rolloutFailed` does not look at `observedGeneration`
   (`internal/executor/k8s.go:200`), so the condition left by an earlier failed
   rollout ends the next execution as `rollout_failed`
   (`docs/kubernetes-deployment-executor-design.md:285-289`, 312, 334).

Stated as definitions that no run checks:

- `SuccessfulTargetIsRecorded`: a server deployed before its worker was lost is not
  in `deployment_states` after the recovery (`deploy.go:205`;
  `docs/project-requirements.md:516`, 722);
- `DuplicateIsReplayed`: the loser of two identical concurrent creations is answered
  with the error of the unique index instead of the first result
  (`release.go:324`; `docs/project-requirements.md:480`). `RegisterVersion` has the
  same shape;
- `UsedGatewayStays`: a gateway with servers behind it stops being one or is
  disabled. `GatewayLostInFlight` says how: by requests that cross, or by one patch
  that makes it an application server and puts it behind another gateway, which
  `validateServerGateway` lets through, because it only counts the servers behind
  it when the patched row has no gateway (`repository.go:327-345`). The servers
  behind it are then two hops away, which the documents exclude
  (`docs/domain-model-design.md:200-201`); the test patches the role only
  (`repository_test.go:136-139`).

Read in the code, stated here without a definition:

- a recovered record is `failed` though some of its targets succeeded
  (`deploy.go:207`; `docs/project-requirements.md:964`);
- `deploy_finished` is written after the transaction that the documents put it
  in (`worker.go:138`; `docs/backend-architecture-design.md:138`);
- an environment frozen between preflight and confirmation does not stop the
  confirmation, only the claim (`docs/domain-model-design.md:313`);
- a rollback is linked by a second statement, to whatever release the key gave
  it, and nobody looks at the original's status (`docs/project-requirements.md:708`,
  709, 714); the link writes `updated_at`, by which the next rollback orders its
  candidates; the recommended version may be the one deployed now (711);
- a version registered by hand has no fingerprint, so CI cannot register the
  same content again (752); a key answered with another key's version is not
  stored (`docs/domain-model-design.md:149`);
- `Confirm` reads the environment in its preflight and the user after it, and
  neither in its transaction: one who has just been disabled, or who loses the
  role of administrator, can still queue a release, and so can the creator of
  one whose environment has just been made production
  (`app/release.go:352-398`). `ConfirmedByAuthority` is what is left: they were
  entitled while the request ran;
- without a user named admin, the last two administrators can be removed by two
  requests that cross, since the count and the write are two statements
  (`inventory.go:739`); `LastAdminStays` says that there is no other way;
- the comment at `internal/repository/credential.go:100-103` takes the count and
  the deletion in one transaction to leave no window: the check of a request
  that names the credential is outside it (`CredentialLostInFlight`);
- `rolloutComplete` does not wait for the replicas of the old template to end, and
  an error of the database in `clientForTarget` is answered as
  `cluster_not_available`;
- the strategic merge of the patch adds a container that was removed after it
  was checked, and two targets may name one container, so that each undoes
  what the other deployed;
- on MySQL a start that stops inside a migration leaves one whose next start
  fails at its first statement until somebody repairs the schema; an older
  program starts on a newer schema without a word.

## 6. Not modelled, and why

- The types of data that no guard looks at: names, messages, logs of servers,
  paging, formatting.
- The SSH and mock executors: one command whose exit status is the answer. They
  keep no state on this side, and the worker sees success or failure.
- API keys and their scopes, server groups, connection tests, projects and
  services: rows that a patch reads and writes as a whole.
  A later write undoes a patch that crossed it, for a key's scopes
  (`inventory.go:888`) and a group's members (`inventory.go:423`) as well as for the
  freeze flag (`inventory.go:251`). No promise of the documents speaks of these,
  and the other parts take the rows as inputs that may change at any moment
  (`PatchEnvironment`, `Memberships`, `ApiKey`).
- Notifications: sent in the caller's goroutine and then recorded, with errors
  dropped; deliveries are not read back, so there is nothing to keep.
- The checks of the version, the target and reserved variables in the preflight:
  a `GiveUp` of the handler, which may happen at any read.
- `created_at` ties: queued deploys are claimed in the order of `created_at`, which
  the model takes to be the order of the confirmations; two confirmations in the
  same millisecond, or a clock that goes back, may swap them.
- Database isolation: transactions are atomic and serializable, as SQLite's are.
  Under MySQL's REPEATABLE READ two worker loops could both find a server free,
  with one loop there is no second claim, and a deletion and an insert may pass
  each other as the requests of `Infrastructure` do.
- The reads of one preflight are one action, apart from the Kubernetes checks;
  the handlers' other reads are not. The rows that `GetDeploymentTarget` puts
  together from several statements are read at once.
- In `ReleaseSystem`, which patches of users `UserAdmin` lets through: there, any
  user may be given any standing at any moment.
- The end of tokens after twelve hours and the names of users created later, in
  `UserAdmin`; what requests do to the bootstrap administrator, in `Startup`.
- Data definition inside a migration on MySQL is taken to commit with every
  statement, also for those that only change rows.
- Lists, agent documents, the web UI, configuration and encryption keep no state.
