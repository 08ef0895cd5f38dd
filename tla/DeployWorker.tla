---------------------------- MODULE DeployWorker ----------------------------
(***************************************************************************)
(* The built-in deploy worker (internal/worker/worker.go): RunLoop calls   *)
(* RunOnce for ever, and RunOnce recovers expired deploys, claims the next *)
(* one, executes its targets one after the other under a heartbeat, and    *)
(* finishes the record.  Each action is one database transaction, one call *)
(* of the executor, or one step of the heartbeat goroutine; between two of *)
(* them anything else may happen.                                          *)
(*                                                                         *)
(* A Worker is a worker loop.  The design runs one; a second one stands    *)
(* for a process that has not stopped when its replacement starts.         *)
(***************************************************************************)
EXTENDS ReleaseStore

CONSTANT Worker

VARIABLES
  pc,         \* where RunOnce is
  current,    \* the release of the claimed deploy
  todo,       \* the targets of the claimed snapshot not dealt with yet
  outcome,    \* the result of the last executor call
  heartbeat,  \* the heartbeat goroutine; "lost": an error waits in its channel
  recovered,  \* the deploys recovered by this RunOnce, not announced yet
  applied     \* not in the code: the release last executed with success
              \* on a target, whatever the tables say of it

workerVars == <<pc, current, todo, outcome, heartbeat, recovered, applied>>

WorkerPc ==
  {"recover", "announce", "claim", "start", "next", "execute", "executed", "logged", "skip",
   "finish", "report"}

\* The values of pc at which RunOnce holds a claimed deploy, not finished yet.
Executing == {"start", "next", "execute", "executed", "logged", "skip", "finish"}

WorkerTypeOK ==
  /\ pc \in [Worker -> WorkerPc]
  /\ current \in [Worker -> Release \cup {NoRelease}]
  /\ todo \in [Worker -> SUBSET Ref]
  /\ outcome \in [Worker -> {"none", "success", "failed"}]
  /\ heartbeat \in [Worker -> {"off", "on", "lost"}]
  /\ recovered \in [Worker -> SUBSET Release]
  /\ applied \in [Target -> [Ref -> Release \cup {NoRelease}]]

WorkerInit ==
  /\ pc = [w \in Worker |-> "recover"]
  /\ current = [w \in Worker |-> NoRelease]
  /\ todo = [w \in Worker |-> {}]
  /\ outcome = [w \in Worker |-> "none"]
  /\ heartbeat = [w \in Worker |-> "off"]
  /\ recovered = [w \in Worker |-> {}]
  /\ applied = [t \in Target |-> [ref \in Ref |-> NoRelease]]

-----------------------------------------------------------------------------

Goto(w, label) == pc' = [pc EXCEPT ![w] = label]

\* RunOnce returns: the deferred stopHeartbeat runs and its locals are gone.
Return(w) ==
  /\ Goto(w, "recover")
  /\ current' = [current EXCEPT ![w] = NoRelease]
  /\ todo' = [todo EXCEPT ![w] = {}]
  /\ outcome' = [outcome EXCEPT ![w] = "none"]
  /\ heartbeat' = [heartbeat EXCEPT ![w] = "off"]
  /\ recovered' = [recovered EXCEPT ![w] = {}]

Recover(w) ==
  /\ pc[w] = "recover"
  /\ RecoverExpiredDeploys
  /\ recovered' = [recovered EXCEPT ![w] = Expired]
  /\ Goto(w, IF Expired = {} THEN "claim" ELSE "announce")
  /\ UNCHANGED <<current, todo, outcome, heartbeat, applied, frozen, events>>

\* A deploy_finished event for each recovered deploy, after the commit.
AnnounceRecovered(w) ==
  /\ pc[w] = "announce"
  /\ CreateReleaseEvent(recovered[w], "deploy_finished")
  /\ recovered' = [recovered EXCEPT ![w] = {}]
  /\ Goto(w, "claim")
  /\ UNCHANGED <<tables, frozen, current, todo, outcome, heartbeat, applied>>

\* ClaimNextDeploy with the reads after its commit: the targets come from the
\* snapshot of the record.
Claim(w) ==
  /\ pc[w] = "claim"
  /\ \E r \in Release :
       /\ ClaimDeploy(r)
       /\ current' = [current EXCEPT ![w] = r]
       /\ todo' = [todo EXCEPT ![w] = Snapshot(r)]
  /\ heartbeat' = [heartbeat EXCEPT ![w] = "on"]
  /\ Goto(w, "start")
  /\ UNCHANGED <<frozen, events, outcome, recovered, applied>>

ClaimNothing(w) ==
  /\ pc[w] = "claim"
  /\ \A r \in Release : ~Claimable(r)
  /\ Return(w)
  /\ UNCHANGED <<storeVars, applied>>

StartDeploy(w) ==
  /\ pc[w] = "start"
  /\ CreateReleaseEvent({current[w]}, "deploy_started")
  /\ Goto(w, "next")
  /\ UNCHANGED <<tables, frozen, current, todo, outcome, heartbeat, recovered, applied>>

\* The target the loop is at: the first one not dealt with.
AtTarget(w, ref) ==
  /\ ref \in todo[w]
  /\ \A other \in todo[w] : ref <= other

StartTarget(w) ==
  /\ pc[w] = "next"
  /\ \E ref \in Ref : AtTarget(w, ref) /\ MarkTargetRunning(current[w], ref)
  /\ Goto(w, "execute")
  /\ UNCHANGED <<frozen, events, current, todo, outcome, heartbeat, recovered, applied>>

\* MarkTargetRunning affected no row: RunOnce returns the error.
TargetNotQueued(w) ==
  /\ pc[w] = "next"
  /\ \E ref \in Ref : AtTarget(w, ref) /\ logs[current[w]][ref] # "queued"
  /\ Return(w)
  /\ UNCHANGED <<storeVars, applied>>

NoMoreTargets(w) ==
  /\ pc[w] = "next"
  /\ todo[w] = {}
  /\ Goto(w, "finish")
  /\ UNCHANGED <<storeVars, current, todo, outcome, heartbeat, recovered, applied>>

\* The executor's answer; success means that the target now runs the version.
Execute(w) ==
  /\ pc[w] = "execute"
  /\ \E result \in {"success", "failed"}, ref \in Ref :
       /\ AtTarget(w, ref)
       /\ outcome' = [outcome EXCEPT ![w] = result]
       /\ applied' = IF result = "success"
                     THEN [applied EXCEPT ![TargetOf[current[w]]][ref] = current[w]]
                     ELSE applied
  /\ Goto(w, "executed")
  /\ UNCHANGED <<storeVars, current, todo, heartbeat, recovered>>

\* Mutant: a target that failed is left in the list, to be tried again.
FinishTarget_KeepsFailed(w) ==
  /\ pc[w] = "executed"
  /\ heartbeat[w] # "lost"
  /\ \E ref \in Ref :
       /\ AtTarget(w, ref)
       /\ MarkTargetFinished(current[w], ref, outcome[w])
       /\ todo' = [todo EXCEPT ![w] = IF outcome[w] = "failed" THEN @ ELSE @ \ {ref}]
  /\ Goto(w, "logged")
  /\ UNCHANGED <<frozen, events, current, outcome, heartbeat, recovered, applied>>

\* heartbeatError found nothing; the result is written.
FinishTarget(w) ==
  /\ pc[w] = "executed"
  /\ heartbeat[w] # "lost"
  /\ \E ref \in Ref :
       /\ AtTarget(w, ref)
       /\ MarkTargetFinished(current[w], ref, outcome[w])
       /\ todo' = [todo EXCEPT ![w] = @ \ {ref}]
  /\ Goto(w, "logged")
  /\ UNCHANGED <<frozen, events, current, outcome, heartbeat, recovered, applied>>

\* The target_finished event; a failure ends the loop over the targets.
ReportTarget(w) ==
  /\ pc[w] = "logged"
  /\ CreateReleaseEvent({current[w]}, "target_finished")
  /\ outcome' = [outcome EXCEPT ![w] = "none"]
  /\ Goto(w, IF outcome[w] = "failed" THEN "skip" ELSE "next")
  /\ UNCHANGED <<tables, frozen, current, todo, heartbeat, recovered, applied>>

SkipRest(w) ==
  /\ pc[w] = "skip"
  /\ MarkQueuedTargetsSkipped(current[w])
  /\ todo' = [todo EXCEPT ![w] = {}]
  /\ Goto(w, "finish")
  /\ UNCHANGED <<frozen, events, current, outcome, heartbeat, recovered, applied>>

Finish(w) ==
  /\ pc[w] = "finish"
  /\ heartbeat[w] # "lost"
  /\ FinishDeploy(current[w])
  /\ Goto(w, "report")
  /\ UNCHANGED <<frozen, events, current, todo, outcome, heartbeat, recovered, applied>>

\* The notification and the deploy_finished event, after the commit.
Report(w) ==
  /\ pc[w] = "report"
  /\ CreateReleaseEvent({current[w]}, "deploy_finished")
  /\ Return(w)
  /\ UNCHANGED <<tables, frozen, applied>>

\* heartbeatError found an error: RunOnce returns it and the record stays as
\* it is.
StopOnLostHeartbeat(w) ==
  /\ pc[w] \in {"executed", "finish"}
  /\ heartbeat[w] = "lost"
  /\ Return(w)
  /\ UNCHANGED <<storeVars, applied>>

\* A database error makes RunOnce return, or the process stops and a new one
\* starts: either way the claimed deploy is left as it is in the tables.
Abandon(w) ==
  /\ pc[w] \in Executing \cup {"announce", "report"}
  /\ Return(w)
  /\ UNCHANGED <<storeVars, applied>>

\* The goroutine of startHeartbeat, once a minute.
Heartbeat(w) ==
  /\ heartbeat[w] = "on"
  /\ HeartbeatDeploy(current[w])
  /\ UNCHANGED <<frozen, events, workerVars>>

\* ErrLeaseLost or a database error: the goroutine reports it and ends.
LoseHeartbeat(w) ==
  /\ heartbeat[w] = "on"
  /\ heartbeat' = [heartbeat EXCEPT ![w] = "lost"]
  /\ UNCHANGED <<storeVars, pc, current, todo, outcome, recovered, applied>>

\* What the loop does of itself, errors and crashes apart.
Progress(w) ==
  \/ Recover(w)
  \/ AnnounceRecovered(w)
  \/ Claim(w)
  \/ ClaimNothing(w)
  \/ StartDeploy(w)
  \/ StartTarget(w)
  \/ TargetNotQueued(w)
  \/ NoMoreTargets(w)
  \/ Execute(w)
  \/ FinishTarget(w)
  \/ ReportTarget(w)
  \/ SkipRest(w)
  \/ Finish(w)
  \/ Report(w)
  \/ StopOnLostHeartbeat(w)

WorkerStep(w) ==
  \/ Progress(w)
  \/ Abandon(w)
  \/ Heartbeat(w)
  \/ LoseHeartbeat(w)
=============================================================================
