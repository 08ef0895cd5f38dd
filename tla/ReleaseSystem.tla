--------------------------- MODULE ReleaseSystem ----------------------------
(***************************************************************************)
(* AI Pub's release pipeline: the API handlers of ReleaseService and the   *)
(* worker of DeployWorker over the tables of ReleaseStore, with the clock  *)
(* and the administrators who patch environments and users.                *)
(***************************************************************************)
EXTENDS DeployWorker, ReleaseService

vars == <<storeVars, workerVars, serviceVars>>

Init == StoreInit /\ WorkerInit /\ ServiceInit

Next ==
  \/ \E w \in Worker : WorkerStep(w) /\ UNCHANGED serviceVars
  \/ \E c \in Client : Handle(c) /\ UNCHANGED workerVars
  \/ \E r \in Release : LeaseExpires(r) /\ UNCHANGED <<workerVars, serviceVars>>
  \/ Patch /\ UNCHANGED workerVars

Spec == Init /\ [][Next]_vars

\* No worker loop has r in its hands.
Orphaned(r) == \A w \in Worker : current[w] # r

\* The worker loop keeps running and time keeps passing: RunLoop never
\* returns while the server is up and the server is restarted when it stops.
\* Nobody is obliged to call the API, to freeze, or to fail.
Fairness ==
  /\ \A w \in Worker : WF_vars(Progress(w) /\ UNCHANGED serviceVars)
  /\ \A r \in Release :
       WF_vars(Orphaned(r) /\ LeaseExpires(r) /\ UNCHANGED <<workerVars, serviceVars>>)

FairSpec == Spec /\ Fairness

-----------------------------------------------------------------------------
(* Type invariant.                                                         *)

\* Every variable holds a value of its type.
TypeOK == StoreTypeOK /\ WorkerTypeOK /\ ServiceTypeOK

-----------------------------------------------------------------------------
(* Safety, for any number of worker loops.                                 *)

\* The status of a release and the status of its deploy record are two rows
\* written by four transactions (queue, cancel, claim, finish/recover); at
\* every moment the first is the summary of the second, and a release
\* without a record has never been queued.
StatusCoupling ==
  \A r \in Release :
    IF record[r] = "none"
    THEN release[r] \in {"none", "pending_confirm", "rejected", "cancelled"}
    ELSE release[r] = Summary(record[r])

\* Two running records never hold the same execution target: what the
\* NOT EXISTS of ClaimNextDeploy is for.
TargetExclusive ==
  \A q, r \in Release : \A ref \in Ref :
    /\ q # r
    /\ record[q] = "running"
    /\ record[r] = "running"
    /\ logs[q][ref] \in {"queued", "running"}
    => logs[r][ref] \notin {"queued", "running"}

\* An executed record has a result for every target of its snapshot, on
\* whichever path it ended: finished, failed fast, or recovered.
ExecutedIsSettled ==
  \A r \in Release : record[r] \in Executed =>
    /\ Snapshot(r) # {}
    /\ \A ref \in Ref : logs[r][ref] \notin {"queued", "running"}

\* A successful record succeeded on every target, a partial one on some and
\* not on all.
SuccessMeansAll ==
  \A r \in Release :
    /\ record[r] = "success" => \A ref \in Snapshot(r) : logs[r][ref] = "success"
    /\ record[r] = "partial" => /\ \E ref \in Snapshot(r) : logs[r][ref] = "success"
                                /\ \E ref \in Snapshot(r) : logs[r][ref] # "success"

\* A row of deployment_states points to a finished record of the same
\* deployment target whose log says that this very target succeeded.
StateBacked ==
  \A t \in Target, ref \in Ref :
    LET r == state[t][ref]
    IN  r # NoRelease => /\ TargetOf[r] = t
                         /\ logs[r][ref] = "success"
                         /\ record[r] \in {"success", "partial"}

\* The audit trail does not say more than what happened: a release with a
\* release_cancelled event is cancelled and stays out of the worker's hands,
\* one with release_confirmed has a record, one with deploy_started was
\* claimed, one with target_finished has a target that ended, one with
\* deploy_finished is executed.
AuditTruthful ==
  \A r \in Release :
    /\ "release_cancelled" \in events[r] => release[r] = "cancelled"
    /\ "release_confirmed" \in events[r] => record[r] # "none"
    /\ "deploy_started" \in events[r] => record[r] \in {"running"} \cup Executed
    /\ "target_finished" \in events[r] =>
         \E ref \in Ref : logs[r][ref] \in {"success", "failed"}
    /\ "deploy_finished" \in events[r] => record[r] \in Executed

\* A release that was rejected or cancelled stays so, however the requests and
\* loops that read it before interleave, and its record never comes to life.
WithdrawnStays ==
  [][\A r \in Release : release[r] \in {"rejected", "cancelled"} =>
       release'[r] = release[r] /\ record'[r] = record[r]]_vars

\* A request that queues a release, and names who confirmed it, is entitled to
\* by what was so while it ran: its environment was a production environment
\* and its caller an administrator, or the environment was not and its caller
\* is the release's creator, an enabled user or an API key.  When neither row
\* was patched meanwhile, that is what is so at the transaction.
Entitled(c) ==
  \/ /\ "admin_confirm" \in met[c]
     /\ "admin" \in met[c]
  \/ /\ "self_confirm" \in met[c]
     /\ caller[c] = CreatorOf[subject[c]]
     /\ caller[c] \in User => {"admin", "member"} \cap met[c] # {}

\* Every release comes into the queue by the confirmation of one who was
\* entitled to it, although environments and users are patched between the
\* preflight, the check of the caller and the transaction.
ConfirmedByAuthority ==
  [][\A r \in Release : record[r] = "none" /\ record'[r] # "none" =>
       \E c \in Client :
         /\ subject[c] = r
         /\ Entitled(c)
         /\ confirmedBy'[r] = IF caller[c] \in User THEN caller[c] ELSE NoActor]_vars

-----------------------------------------------------------------------------
(* Safety of the designed deployment, one worker loop.                     *)

\* The deploy a worker executes is running, in both tables, until the worker
\* itself ends it: no cancellation, recovery or second claim takes it away.
WorkerOwnsDeploy ==
  \A w \in Worker : pc[w] \in Executing =>
    record[current[w]] = "running" /\ release[current[w]] = "running"

\* What a target really runs and what deployment_states says agree as soon as
\* the deploy that put it there has finished, in whatever order deploys of
\* the target were claimed, given up and recovered.
StateReflectsTarget ==
  \A t \in Target, ref \in Ref :
    LET r == applied[t][ref]
    IN  r # NoRelease /\ record[r] \in {"success", "partial"} => state[t][ref] = r

\* Of two releases confirmed for the same targets, the later one has the last
\* word: an older one never ends up deployed over it.
NewestConfirmedWins ==
  \A q, r \in Release :
    /\ TargetOf[q] = TargetOf[r]
    /\ Snapshot(q) = Snapshot(r)
    /\ 0 < createdAt[q]
    /\ createdAt[q] < createdAt[r]
    /\ record[r] \in {"success", "partial"}
    => \A ref \in Snapshot(r) : logs[r][ref] = "success" => state[TargetOf[r]][ref] # q

\* Statuses without a way out have none: a rejected, cancelled, successful or
\* failed release, and a finished or cancelled record, never change again.
TerminalIsFinal ==
  [][\A r \in Release :
       /\ release[r] \in Closed => release'[r] = release[r]
       /\ record[r] \in Executed \cup {"cancelled"} => record'[r] = record[r]]_vars

\* A target log only moves forward, and a snapshot is written once: no result
\* is overwritten and no target is added after the confirmation.
LogSteps ==
  {<<"queued", "running">>, <<"queued", "failed">>, <<"queued", "skipped">>,
   <<"running", "success">>, <<"running", "failed">>}

LogsOnlyAdvance ==
  [][\A r \in Release, ref \in Ref :
       \/ logs'[r][ref] = logs[r][ref]
       \/ <<logs[r][ref], logs'[r][ref]>> \in LogSteps
       \/ record[r] = "none" /\ logs'[r][ref] = "queued"]_vars

\* The pipeline implements the release lifecycle of the domain model, with
\* exclusive targets.
Lifecycle == INSTANCE ReleaseLifecycle
  WITH status <- release,
       held <- [r \in Release |-> {ref \in Ref : Holds(r, ref)}]

ImplementsLifecycle == Lifecycle!Spec

-----------------------------------------------------------------------------
(* Liveness.                                                               *)

\* A running deploy ends, even when its worker gave it up: the lease runs out
\* and the next tick recovers it.
RunningEnds ==
  \A r \in Release : record[r] = "running" ~> record[r] \in Executed

\* A queued deploy is claimed or cancelled unless its environment is frozen
\* again and again, whatever targets the deploys before it were left holding.
QueuedLeaves ==
  \A r \in Release :
    record[r] = "queued" ~> \/ record[r] # "queued"
                            \/ frozen[EnvironmentOf[TargetOf[r]]]

-----------------------------------------------------------------------------
(* What the documents say and the code does not do.                        *)

\* docs/project-requirements.md:532: with a running release of the same
\* service and environment, a new real execution is blocked.
OneRunningPerServiceEnvironment ==
  \A q, r \in Release :
    /\ q # r
    /\ record[q] = "running"
    /\ record[r] = "running"
    => ~SameServiceAndEnvironment(q, r)

\* docs/project-requirements.md:516, 722: a target that succeeded shows the
\* new version, also when the deploy failed on others.
SuccessfulTargetIsRecorded ==
  \A r \in Release : record[r] \in Executed =>
    \A ref \in Snapshot(r) : logs[r][ref] = "success" => state[TargetOf[r]][ref] # NoRelease

\* docs/domain-model-design.md:466-492: the events trace the key actions;
\* release_rejected says that the release was rejected.
RejectedEventMeansRejected ==
  \A r \in Release : "release_rejected" \in events[r] => release[r] = "rejected"
=============================================================================
