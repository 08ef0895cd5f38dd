-------------------------- MODULE ReleaseInvariant --------------------------
(***************************************************************************)
(* The inductive invariant behind the safety properties of ReleaseSystem   *)
(* that hold for any number of worker loops: what the tables and the       *)
(* locals of the loops keep true between two transactions.                 *)
(***************************************************************************)
EXTENDS ReleaseSystem

\* A loop that executes a deploy holds a record that is running, or that a
\* recovery has failed behind its back; it is never finished or cancelled.
ExecutesClaimed ==
  \A w \in Worker : pc[w] \in Executing =>
    /\ current[w] \in Release
    /\ record[current[w]] \in {"running", "failed"}

\* Two loops never execute the same deploy.
ClaimedOnce ==
  \A v, w \in Worker :
    v # w /\ pc[v] \in Executing /\ pc[w] \in Executing => current[v] # current[w]

\* A record has targets, and none of them has been touched while it is queued.
QueuedIsUntouched ==
  \A r \in Release :
    /\ record[r] # "none" => \E ref \in Ref : logs[r][ref] # "none"
    /\ record[r] = "queued" => \A ref \in Ref : logs[r][ref] \in {"none", "queued"}

\* The targets still to do of a loop are all that is unfinished in its deploy.
TodoCoversLogs ==
  \A w \in Worker : pc[w] \in Executing =>
    /\ \A ref \in Ref :
         /\ logs[current[w]][ref] = "queued" => ref \in todo[w]
         /\ logs[current[w]][ref] = "running" =>
              pc[w] \in {"execute", "executed"} /\ AtTarget(w, ref)
    /\ pc[w] = "finish" => todo[w] = {}
    /\ pc[w] = "executed" => outcome[w] \in {"success", "failed"}

\* The invariant of the loops, on which the invariants of the tables rest.
DeployInv ==
  /\ ExecutesClaimed
  /\ ClaimedOnce
  /\ QueuedIsUntouched
  /\ TodoCoversLogs
  /\ ExecutedIsSettled

\* The inductive invariant: what a step relies on and restores, whoever
\* takes it.
PipelineInv ==
  /\ TypeOK
  /\ StatusCoupling
  /\ TargetExclusive
  /\ DeployInv
  /\ SuccessMeansAll
  /\ StateBacked

-----------------------------------------------------------------------------
(* What else the tables keep for any number of worker loops, given         *)
(* PipelineInv.                                                            *)

\* A release without a record has no place in the queue and no logs, and
\* timestamps are not ahead of the last one given.
RecordsFit ==
  \A r \in Release :
    /\ createdAt[r] <= now
    /\ record[r] = "none" => createdAt[r] = 0 /\ \A ref \in Ref : logs[r][ref] = "none"

\* A running record has a lease, live or run out: when no loop works on it any
\* more, a recovery will find it.
RunningIsLeased == \A r \in Release : record[r] = "running" => lease[r] \in {"live", "expired"}

\* A deploy that ended with a target done has left a row for that target in
\* deployment_states, and rows are replaced, never taken away.
FinishedAreRecorded ==
  \A r \in Release, ref \in Ref :
    record[r] \in {"success", "partial"} /\ logs[r][ref] = "success" =>
      state[TargetOf[r]][ref] # NoRelease

\* RunOnce can always go on: the claim selects a row when there is one to
\* select, and the loop over the targets is at one of them.  The other guards
\* of Progress are those of pc.
LoopsGoOn ==
  \A w \in Worker :
    /\ pc[w] = "claim" /\ (\E r \in Release : Claimable(r)) => \E r \in Release : NextToClaim(r)
    /\ pc[w] \in {"execute", "executed"} \/ (pc[w] = "next" /\ todo[w] # {}) =>
         \E ref \in Ref : AtTarget(w, ref)

\* The tables and the loops, for any number of loops.
ReleaseInv ==
  /\ PipelineInv
  /\ RecordsFit
  /\ RunningIsLeased
  /\ FinishedAreRecorded
  /\ LoopsGoOn

-----------------------------------------------------------------------------
(* Action properties for any number of worker loops.                       *)

\* What a record may become.  The last arrow is that of a loop that was
\* given up for dead: its FinishDeploy overrides the recovery's failure.
RecordSteps ==
  {<<"none", "queued">>, <<"queued", "cancelled">>, <<"queued", "running">>}
    \cup ({"running", "failed"} \X Executed)

\* What has ended well, or was withdrawn, stays as it is, also when several
\* loops work on what the others left: a release that was rejected or
\* cancelled and its record; a record that is success or partial, with its
\* release, its target logs and its lease.
OutcomesLast ==
  [][\A r \in Release :
       /\ record'[r] = record[r] \/ <<record[r], record'[r]>> \in RecordSteps
       /\ release[r] \in {"rejected", "cancelled"} => release'[r] = release[r] /\ record'[r] = record[r]
       /\ record[r] \in {"success", "partial"} =>
            release'[r] = release[r] /\ logs'[r] = logs[r] /\ lease'[r] = lease[r]]_vars

\* The steps that are left to a loop with its deploy, at most.
Rank(w) ==
  CASE pc[w] \in {"start", "logged"} -> 4 * Cardinality(todo[w]) + 4
    [] pc[w] = "next"                -> 4 * Cardinality(todo[w]) + 3
    [] pc[w] \in {"execute", "skip"} -> 4 * Cardinality(todo[w]) + 2
    [] pc[w] \in {"executed", "finish"} -> 4 * Cardinality(todo[w]) + 1
    [] OTHER -> 0

\* A deploy runs out of steps: each one the loop takes brings it nearer to the
\* end of RunOnce, whatever the others do, and nobody sends it back.
DeploysRunOut ==
  [][\A w \in Worker : pc[w] \in Executing =>
       Rank(w)' <= Rank(w) /\ (Progress(w) => Rank(w)' < Rank(w))]_vars
=============================================================================
